---------------------------- MODULE AtomicTarget ----------------------------
(***************************************************************************)
(* What a mount shared by several LX200 front-ends promises: every slew or *)
(* sync it executes goes to one client's own, complete and acknowledged    *)
(* target (README of the bridge: "buffers target RA/Dec per client and     *)
(* applies them together when slewing or syncing").  There is no lock, no  *)
(* connection and no register here; BridgeGoto implements this module.     *)
(***************************************************************************)
CONSTANTS Clients,   \* the connections a front-end serves
          RAs, Decs, \* coordinates a client may ask for
          NoVal      \* no coordinate: never set, or the last set was refused

VARIABLES tgt,  \* tgt[c]: the target client c has buffered
          last  \* the last move the device accepted

avars == <<tgt, last>>

Target == [ra : RAs \cup {NoVal}, dec : Decs \cup {NoVal}]

NoTarget == [ra |-> NoVal, dec |-> NoVal]

Whole(t) == t.ra # NoVal /\ t.dec # NoVal

Moves == [client : Clients, ra : RAs, dec : Decs]

NoMove == [client |-> NoVal, ra |-> NoVal, dec |-> NoVal]

AInit == /\ tgt = [c \in Clients |-> NoTarget]
         /\ last = NoMove

(* A client replaces one coordinate of its target, by a value or by nothing,
   or leaves and loses the whole of it. *)
Buffer(c) == /\ \E t \in Target : tgt' = [tgt EXCEPT ![c] = t]
             /\ UNCHANGED last

(* The device takes a client's whole target in one step. *)
Commit(c) == /\ Whole(tgt[c])
             /\ last' = [client |-> c, ra |-> tgt[c].ra, dec |-> tgt[c].dec]
             /\ UNCHANGED tgt

ANext == \E c \in Clients : Buffer(c) \/ Commit(c)

ASpec == AInit /\ [][ANext]_avars
=============================================================================
