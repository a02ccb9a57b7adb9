---------------------------- MODULE MCBridgeSite ----------------------------
\* What the clients of the runs of BridgeSite ask for.
EXTENDS BridgeSite, TLC

CONSTANTS c1, c2

\* One client that sets everything, and one that sets the site only.
AllOps == (c1 :> {"site", "offset", "setSite", "clock"}) @@ (c2 :> {"site", "offset", "setSite"})
ClockOps == [c \in Client |-> {"clock"}]
=============================================================================
