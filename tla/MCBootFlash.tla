---------------------------- MODULE MCBootFlash ----------------------------
\* The images of the runs of BootFlash: two of the 135 family and one of the 150.
EXTENDS BootFlash, TLC

CONSTANTS old, new, other

MCFamily == (old :> "135") @@ (new :> "135") @@ (other :> "150")
=============================================================================
