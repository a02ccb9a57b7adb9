---------------------------- MODULE MCBridgeGoto ----------------------------
(* Two clients, two values of each coordinate, one reconnect: the smallest
   instance in which two targets can mix and a handle can go stale while its
   lock is held or waited for. *)
EXTENDS BridgeGoto, TLC

CONSTANTS c1, c2, r1, r2, d1, d2

MCClients == {c1, c2}
MCRAs == {r1, r2}
MCDecs == {d1, d2}
=============================================================================
