----------------------------- MODULE MCRstMount -----------------------------
(* Who calls what in the runs of RstMount. *)
EXTENDS RstMount, TLC

CONSTANTS c1, c2

(* One client, everything but manual moves; it homes through AlpacaFindHome. *)
SessionOps ==
  c1 :> {"Slewing", "RA", "SiteLatitude", "SetTarget", "SlewToTarget", "SlewToAltAz", "SlewToPole",
         "SyncToTarget", "SetTracking", "StopTracking", "TrackRate", "Halt", "Park", "Unpark",
         "AlpacaAtPark", "AlpacaAtHome", "AlpacaPark", "AlpacaUnpark", "AlpacaFindHome"}

(* A client that commands and a poller that only reads. *)
SharedOps ==
  c1 :> {"Slewing", "SlewToTarget", "SlewToAltAz", "SyncToTarget", "FindHome", "SetTracking",
         "PulseGuide", "MoveAxisRate", "StopAxis"} @@
  c2 :> {"Slewing", "RA"}

(* Two clients that command the mount without regard to each other. *)
GateOps ==
  c1 :> {"FindHome", "SlewToTarget"} @@
  c2 :> {"Slewing", "SyncToTarget"}

(* What can stop a home seek, and what can move a mount that has just ended one. *)
StopOps == c1 :> {"Slewing", "FindHome", "StopAxis", "PulseGuide"}
CaptureOps == c1 :> {"Slewing", "RA", "FindHome", "MoveAxisRate"}
=============================================================================
