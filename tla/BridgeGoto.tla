----------------------------- MODULE BridgeGoto -----------------------------
(***************************************************************************)
(* The goto and sync path of the LX200 TCP bridge (bridge/bridge.go): one  *)
(* goroutine per client, a target buffered per connection, and the         *)
(* set-RA, set-Dec, act sequence written to the shared mount under its     *)
(* OpLock.  MountFunc hands out the connection that is live at the time of *)
(* the call; a reconnect replaces it (a new lock with it), after which     *)
(* commands through an older handle fail.                                  *)
(***************************************************************************)
EXTENDS Naturals

CONSTANTS Clients, RAs, Decs, NoVal,
          NoClient, \* nobody holds the lock
          MaxGen    \* bound: reconnects of the mount

ASSUME ConstAssumption ==
  /\ NoVal \notin RAs /\ NoVal \notin Decs /\ NoVal \notin Clients
  /\ NoClient \notin Clients
  /\ MaxGen \in Nat

VARIABLES tgt,       \* connState of each client: tgtRA/haveRA, tgtDec/haveDec
          last,      \* the last move the device accepted
          pc,        \* where each client's goroutine is
          hnd,       \* the mount handle it got from MountFunc
          told,      \* whether its last reply said the move was made
          live,      \* generation of the owner's current connection
          connected, \* whether MountFunc returns it
          opMu,      \* opMu[g]: holder of the OpLock of connection g
          reg        \* the device's target register

vars == <<tgt, last, pc, hnd, told, live, connected, opMu, reg>>

Gens == 0..MaxGen

\* The refinement mapping: the targets and the last move are the state of the promise.
A == INSTANCE AtomicTarget WITH tgt <- tgt, last <- last

Init == /\ A!AInit
        /\ pc = [c \in Clients |-> "idle"]
        /\ hnd = [c \in Clients |-> 0]
        /\ told = [c \in Clients |-> FALSE]
        /\ live = 0
        /\ connected = TRUE
        /\ opMu = [g \in Gens |-> NoClient]
        /\ reg = A!NoTarget

-----------------------------------------------------------------------------
(* handle: a client that goes away loses its connState; the next connection
   starts with an empty one. *)
handle(c) ==
  /\ pc[c] = "idle"
  /\ tgt' = [tgt EXCEPT ![c] = A!NoTarget]
  /\ told' = [told EXCEPT ![c] = FALSE]
  /\ UNCHANGED <<last, pc, hnd, live, connected, opMu, reg>>

(* setTarget, for :Sr and :Sd: a value that parses and is in range is
   buffered, any other drops the coordinate buffered before it. *)
setTarget(c) ==
  /\ pc[c] = "idle"
  /\ \/ \E v \in RAs : tgt' = [tgt EXCEPT ![c].ra = v]
     \/ \E v \in Decs : tgt' = [tgt EXCEPT ![c].dec = v]
     \/ tgt' = [tgt EXCEPT ![c].ra = NoVal]
     \/ tgt' = [tgt EXCEPT ![c].dec = NoVal]
  /\ told' = [told EXCEPT ![c] = FALSE]
  /\ UNCHANGED <<last, pc, hnd, live, connected, opMu, reg>>

(* Variant for mutation: one buffered coordinate is enough. *)
gotoTargetHalf(c) ==
  /\ pc[c] = "idle"
  /\ told' = [told EXCEPT ![c] = FALSE]
  /\ IF tgt[c] # A!NoTarget /\ connected
     THEN /\ pc' = [pc EXCEPT ![c] = "lock"]
          /\ hnd' = [hnd EXCEPT ![c] = live]
     ELSE UNCHANGED <<pc, hnd>>
  /\ UNCHANGED <<tgt, last, live, connected, opMu, reg>>

(* gotoTarget, and syncTarget, which differs from it in the verb it ends with
   and the wording of its replies, up to withOp: both coordinates must be buffered
   and the mount connected, else the client is told and nothing is sent. *)
gotoTarget(c) ==
  /\ pc[c] = "idle"
  /\ told' = [told EXCEPT ![c] = FALSE]
  /\ IF A!Whole(tgt[c]) /\ connected
     THEN /\ pc' = [pc EXCEPT ![c] = "lock"]
          /\ hnd' = [hnd EXCEPT ![c] = live]
     ELSE UNCHANGED <<pc, hnd>>
  /\ UNCHANGED <<tgt, last, live, connected, opMu, reg>>

(* Variant for mutation: the lock is entered without waiting for its holder. *)
withOpUnlocked(c) ==
  /\ pc[c] = "lock"
  /\ opMu' = [opMu EXCEPT ![hnd[c]] = c]
  /\ pc' = [pc EXCEPT ![c] = "setRA"]
  /\ UNCHANGED <<tgt, last, hnd, told, live, connected, reg>>

(* withOp takes the OpLock of the handle it was given. *)
withOp(c) ==
  /\ pc[c] = "lock"
  /\ opMu[hnd[c]] = NoClient
  /\ opMu' = [opMu EXCEPT ![hnd[c]] = c]
  /\ pc' = [pc EXCEPT ![c] = "setRA"]
  /\ UNCHANGED <<tgt, last, hnd, told, live, connected, reg>>

(* Variant for mutation: an early return on error skips the unlock. *)
unlockOnSuccess(c, ok) ==
  /\ opMu' = IF ok THEN [opMu EXCEPT ![hnd[c]] = NoClient] ELSE opMu
  /\ pc' = [pc EXCEPT ![c] = "idle"]
  /\ hnd' = [hnd EXCEPT ![c] = 0]
  /\ told' = [told EXCEPT ![c] = ok]

(* withOp returns: the deferred unlock runs before the reply is written, and
   the handler's locals are gone. *)
unlock(c, ok) ==
  /\ opMu' = [opMu EXCEPT ![hnd[c]] = NoClient]
  /\ pc' = [pc EXCEPT ![c] = "idle"]
  /\ hnd' = [hnd EXCEPT ![c] = 0]
  /\ told' = [told EXCEPT ![c] = ok]

(* A command reaches the device only through the connection that is live. *)
reachable(c) == hnd[c] = live /\ connected

(* setDeviceTarget, first half: SetTargetRA is acknowledged, or it is
   refused or fails and the sequence stops there.  A command whose reply is
   lost has failed for the client but not for the device. *)
setDeviceRA(c) ==
  /\ pc[c] = "setRA"
  /\ \/ /\ reachable(c)
        /\ reg' = [reg EXCEPT !.ra = tgt[c].ra]
        /\ \/ pc' = [pc EXCEPT ![c] = "setDec"] /\ UNCHANGED <<opMu, hnd, told>>
           \/ unlock(c, FALSE)
     \/ unlock(c, FALSE) /\ UNCHANGED reg
  /\ UNCHANGED <<tgt, last, live, connected>>

(* Variant for mutation: a refused declination does not stop the sequence. *)
setDeviceDecUnchecked(c) ==
  /\ pc[c] = "setDec"
  /\ \/ reachable(c) /\ reg' = [reg EXCEPT !.dec = tgt[c].dec]
     \/ UNCHANGED reg
  /\ pc' = [pc EXCEPT ![c] = "act"]
  /\ UNCHANGED <<tgt, last, hnd, told, live, connected, opMu>>

(* setDeviceTarget, second half. *)
setDeviceDec(c) ==
  /\ pc[c] = "setDec"
  /\ \/ /\ reachable(c)
        /\ reg' = [reg EXCEPT !.dec = tgt[c].dec]
        /\ \/ pc' = [pc EXCEPT ![c] = "act"] /\ UNCHANGED <<opMu, hnd, told>>
           \/ unlock(c, FALSE)
     \/ unlock(c, FALSE) /\ UNCHANGED reg
  /\ UNCHANGED <<tgt, last, live, connected>>

(* SlewToTarget or SyncToTarget: the device moves to what its register holds,
   or refuses; a reply that is lost reads as an error although it moved. *)
act(c) ==
  /\ pc[c] = "act"
  /\ \/ /\ reachable(c)
        /\ last' = [client |-> c, ra |-> reg.ra, dec |-> reg.dec]
        /\ \E ok \in BOOLEAN : unlock(c, ok)
     \/ /\ unlock(c, FALSE)
        /\ UNCHANGED last
  /\ UNCHANGED <<tgt, live, connected, reg>>

(* External, the owner of the mount: the connection drops, and comes back as
   a new one with a lock of its own. *)
drop == /\ connected
        /\ connected' = FALSE
        /\ UNCHANGED <<tgt, last, pc, hnd, told, live, opMu, reg>>

reconnect == /\ ~connected
             /\ live < MaxGen
             /\ live' = live + 1
             /\ connected' = TRUE
             /\ UNCHANGED <<tgt, last, pc, hnd, told, opMu, reg>>

serve(c) == withOp(c) \/ setDeviceRA(c) \/ setDeviceDec(c) \/ act(c)

Next == \/ \E c \in Clients : \/ handle(c) \/ setTarget(c) \/ serve(c)
                              \/ gotoTarget(c)
        \/ drop \/ reconnect

(* Go's sync.Mutex hands a lock to its longest waiter once that one has waited
   1 ms, so a waiter is never starved: strong fairness of taking it.  The other
   steps of a goroutine need nobody; every command ends by an answer or by the
   timeout of the connection. *)
Fairness == \A c \in Clients :
              /\ SF_vars(withOp(c))
              /\ WF_vars(setDeviceRA(c) \/ setDeviceDec(c) \/ act(c))

Spec == Init /\ [][Next]_vars

FairSpec == Spec /\ Fairness
-----------------------------------------------------------------------------
States == {"idle", "lock", "setRA", "setDec", "act"}

Locked(c) == pc[c] \in {"setRA", "setDec", "act"}

(* The variables keep their types; in particular a lock is held by a client. *)
TypeOK ==
  /\ tgt \in [Clients -> A!Target]
  /\ last \in A!Moves \cup {A!NoMove}
  /\ pc \in [Clients -> States]
  /\ hnd \in [Clients -> Gens]
  /\ told \in [Clients -> BOOLEAN]
  /\ live \in Gens
  /\ connected \in BOOLEAN
  /\ opMu \in [Gens -> Clients \cup {NoClient}]
  /\ reg \in A!Target

(* The device never moves to a mixture of two clients' targets, nor to a
   coordinate its client had refused: a new move is the moving client's whole
   buffered target (gotoTarget and syncTarget under withOp, whatever other
   clients, reconnects and failed commands come between). *)
WholeTarget ==
  [][last' # last => /\ A!Whole(tgt[last'.client])
                     /\ last'.ra = tgt[last'.client].ra
                     /\ last'.dec = tgt[last'.client].dec]_vars

(* A client told that its slew started or its sync matched has had its own
   target, the one still buffered when it was told, executed by the device. *)
ToldMeansMoved ==
  [][\A c \in Clients : (pc[c] = "act" /\ told'[c]) =>
       last' = [client |-> c, ra |-> tgt[c].ra, dec |-> tgt[c].dec]]_vars

(* Every :MS# and :CM# is answered: no refusal, failure or reconnect leaves
   the OpLock held, so no client waits for it for ever. *)
EveryGotoAnswered ==
  \A c \in Clients : (pc[c] = "lock") ~> (pc[c] = "idle")

(* The bridge implements the atomic view of the mount. *)
Atomic == A!ASpec

-----------------------------------------------------------------------------
(* The inductive invariant: who holds which lock, and what the register holds
   at each point of the holder's sequence. *)
HoldersHold == \A c \in Clients : Locked(c) => opMu[hnd[c]] = c

HandleNotAhead == \A c \in Clients : hnd[c] <= live

Buffered == \A c \in Clients : pc[c] # "idle" => A!Whole(tgt[c])

RegisterMine ==
  \A c \in Clients : reachable(c) =>
    /\ pc[c] \in {"setDec", "act"} => reg.ra = tgt[c].ra
    /\ pc[c] = "act" => reg.dec = tgt[c].dec

NotYetTold == \A c \in Clients : pc[c] # "idle" => told[c] = FALSE

GotoInv == /\ TypeOK /\ HoldersHold /\ HandleNotAhead /\ Buffered
           /\ RegisterMine /\ NotYetTold
=============================================================================
