-------------------------- MODULE BridgeGotoProofs --------------------------
(***************************************************************************)
(* Proofs about BridgeGoto, for any sets of clients and coordinates and    *)
(* any number of reconnects.  Everything rests on one inductive invariant, *)
(* GotoInv: a client between taking and releasing the OpLock is its        *)
(* holder, so while its connection is live nobody else writes the target   *)
(* register, which therefore holds the part of its target already sent.    *)
(***************************************************************************)
EXTENDS BridgeGoto, TLAPS

USE DEF Gens, States, A!Target, A!NoTarget, A!Whole, A!Moves, A!NoMove

(* Init establishes the invariant. *)
LEMMA InitGotoInv == Init => GotoInv
  <1> SUFFICES ASSUME Init PROVE GotoInv
    OBVIOUS
  <1> USE ConstAssumption
  <1>1. TypeOK
    BY DEF Init, A!AInit, TypeOK
  <1>2. HoldersHold /\ HandleNotAhead /\ Buffered /\ RegisterMine /\ NotYetTold
    BY <1>1 DEF Init, A!AInit, TypeOK, HoldersHold, HandleNotAhead, Buffered,
                RegisterMine, NotYetTold, Locked
  <1> QED BY <1>1, <1>2 DEF GotoInv

(* What setTarget may do to a client's buffered target. *)
LEMMA SetTargetBuffers ==
  ASSUME TypeOK, NEW c \in Clients, setTarget(c)
  PROVE  \E t \in A!Target : tgt' = [tgt EXCEPT ![c] = t]
  <1>1. CASE \E v \in RAs \cup {NoVal} : tgt' = [tgt EXCEPT ![c].ra = v]
    <2> PICK v \in RAs \cup {NoVal} : tgt' = [tgt EXCEPT ![c].ra = v]
      BY <1>1
    <2>1. tgt[c] \in A!Target
      BY DEF TypeOK
    <2>2. [tgt[c] EXCEPT !.ra = v] \in A!Target
      BY <2>1
    <2> QED BY <2>2
  <1>2. CASE \E v \in Decs \cup {NoVal} : tgt' = [tgt EXCEPT ![c].dec = v]
    <2> PICK v \in Decs \cup {NoVal} : tgt' = [tgt EXCEPT ![c].dec = v]
      BY <1>2
    <2>1. tgt[c] \in A!Target
      BY DEF TypeOK
    <2>2. [tgt[c] EXCEPT !.dec = v] \in A!Target
      BY <2>1
    <2> QED BY <2>2
  <1> QED BY <1>1, <1>2 DEF setTarget

(* Releasing the lock keeps the types of what it writes. *)
LEMMA UnlockTypes ==
  ASSUME TypeOK, NEW c \in Clients, NEW ok \in BOOLEAN, unlock(c, ok)
  PROVE  /\ opMu' \in [Gens -> Clients \cup {NoClient}]
         /\ pc' \in [Clients -> States]
         /\ hnd' \in [Clients -> Gens]
         /\ told' \in [Clients -> BOOLEAN]
         /\ hnd' = [hnd EXCEPT ![c] = 0]
  <1>1. 0 \in Gens
    BY ConstAssumption
  <1>2. told' \in [Clients -> BOOLEAN]
    BY Zenon DEF unlock, TypeOK
  <1> QED BY <1>1, <1>2 DEF unlock, TypeOK

(* Every step of every goroutine and of the owner keeps the invariant. *)
LEMMA NextGotoInv == GotoInv /\ [Next]_vars => GotoInv'
  <1> SUFFICES ASSUME GotoInv, [Next]_vars PROVE GotoInv'
    OBVIOUS
  <1> USE ConstAssumption
  <1> USE DEF GotoInv
  <1>1. ASSUME NEW c \in Clients, handle(c) PROVE GotoInv'
    <2>1. TypeOK'
      BY <1>1 DEF TypeOK, handle
    <2>2. HoldersHold'
      BY <1>1 DEF TypeOK, HoldersHold, Locked, handle
    <2>3. HandleNotAhead'
      BY <1>1 DEF TypeOK, HandleNotAhead, handle
    <2>4. Buffered'
      BY <1>1 DEF TypeOK, Buffered, handle
    <2>5. RegisterMine'
      BY <1>1 DEF TypeOK, RegisterMine, HoldersHold, Locked, reachable, handle
    <2>6. NotYetTold'
      BY <1>1 DEF TypeOK, NotYetTold, handle
    <2> QED BY <2>1, <2>2, <2>3, <2>4, <2>5, <2>6
  <1>2. ASSUME NEW c \in Clients, setTarget(c) PROVE GotoInv'
    <2>1. PICK t \in A!Target : tgt' = [tgt EXCEPT ![c] = t]
      BY <1>2, SetTargetBuffers
    <2>2. TypeOK'
      BY <1>2, <2>1 DEF TypeOK, setTarget
    <2>3. HoldersHold'
      BY <1>2, <2>1 DEF TypeOK, HoldersHold, Locked, setTarget
    <2>4. HandleNotAhead'
      BY <1>2, <2>1 DEF TypeOK, HandleNotAhead, setTarget
    <2>5. Buffered'
      BY <1>2, <2>1 DEF TypeOK, Buffered, setTarget
    <2>6. RegisterMine'
      BY <1>2, <2>1 DEF TypeOK, RegisterMine, HoldersHold, Locked, reachable, setTarget
    <2>7. NotYetTold'
      BY <1>2 DEF TypeOK, NotYetTold, setTarget
    <2> QED BY <2>2, <2>3, <2>4, <2>5, <2>6, <2>7
  <1>3. ASSUME NEW c \in Clients, gotoTarget(c) PROVE GotoInv'
    <2>1. CASE A!Whole(tgt[c]) /\ connected
      <3>1. /\ pc' = [pc EXCEPT ![c] = "lock"]
            /\ hnd' = [hnd EXCEPT ![c] = live]
            /\ told' = [told EXCEPT ![c] = FALSE]
            /\ UNCHANGED <<tgt, last, live, connected, opMu, reg>>
        BY <1>3, <2>1 DEF gotoTarget
      <3>2. TypeOK'
        BY <3>1 DEF TypeOK
      <3>3. HoldersHold'
        BY <3>1 DEF TypeOK, HoldersHold, Locked
      <3>4. HandleNotAhead'
        BY <3>1 DEF TypeOK, HandleNotAhead
      <3>5. Buffered'
        BY <3>1, <2>1 DEF TypeOK, Buffered
      <3>6. RegisterMine'
        BY <3>1 DEF TypeOK, RegisterMine, reachable
      <3>7. NotYetTold'
        BY <3>1 DEF TypeOK, NotYetTold
      <3> QED BY <3>2, <3>3, <3>4, <3>5, <3>6, <3>7
    <2>2. CASE ~(A!Whole(tgt[c]) /\ connected)
      <3>1. /\ told' = [told EXCEPT ![c] = FALSE]
            /\ UNCHANGED <<pc, hnd, tgt, last, live, connected, opMu, reg>>
        BY <1>3, <2>2 DEF gotoTarget
      <3> QED BY <3>1 DEF TypeOK, HoldersHold, HandleNotAhead, Buffered,
                          RegisterMine, NotYetTold, Locked, reachable
    <2> QED BY <2>1, <2>2
  <1>4. ASSUME NEW c \in Clients, withOp(c) PROVE GotoInv'
    <2>1. TypeOK'
      BY <1>4 DEF TypeOK, withOp
    <2>2. HoldersHold'
      BY <1>4 DEF TypeOK, HoldersHold, Locked, withOp
    <2>3. HandleNotAhead'
      BY <1>4 DEF TypeOK, HandleNotAhead, withOp
    <2>4. Buffered'
      BY <1>4 DEF TypeOK, Buffered, withOp
    <2>5. RegisterMine'
      BY <1>4 DEF TypeOK, RegisterMine, HoldersHold, Locked, reachable, withOp
    <2>6. NotYetTold'
      BY <1>4 DEF TypeOK, NotYetTold, withOp
    <2> QED BY <2>1, <2>2, <2>3, <2>4, <2>5, <2>6
  <1>5. ASSUME NEW c \in Clients, setDeviceRA(c) PROVE GotoInv'
    <2>1. TypeOK'
      <3>1. tgt[c] \in A!Target /\ [reg EXCEPT !.ra = tgt[c].ra] \in A!Target
        BY DEF TypeOK
      <3>2. reg' \in A!Target
        BY <1>5, <3>1 DEF TypeOK, setDeviceRA
      <3>3. CASE unlock(c, FALSE)
        BY <1>5, <3>2, <3>3, UnlockTypes DEF TypeOK, setDeviceRA
      <3>4. CASE ~unlock(c, FALSE)
        BY <1>5, <3>2, <3>4 DEF TypeOK, setDeviceRA
      <3> QED BY <3>3, <3>4
    <2>2. HoldersHold'
      BY <1>5 DEF TypeOK, HoldersHold, Locked, setDeviceRA, unlock
    <2>3. HandleNotAhead'
      BY <1>5 DEF TypeOK, HandleNotAhead, setDeviceRA, unlock
    <2>4. Buffered'
      BY <1>5 DEF TypeOK, Buffered, setDeviceRA, unlock
    <2>5. RegisterMine'
      BY <1>5 DEF TypeOK, RegisterMine, HoldersHold, Locked, reachable, setDeviceRA, unlock
    <2>6. NotYetTold'
      BY <1>5 DEF TypeOK, NotYetTold, setDeviceRA, unlock
    <2> QED BY <2>1, <2>2, <2>3, <2>4, <2>5, <2>6
  <1>6. ASSUME NEW c \in Clients, setDeviceDec(c) PROVE GotoInv'
    <2>1. TypeOK'
      <3>1. tgt[c] \in A!Target /\ [reg EXCEPT !.dec = tgt[c].dec] \in A!Target
        BY DEF TypeOK
      <3>2. reg' \in A!Target
        BY <1>6, <3>1 DEF TypeOK, setDeviceDec
      <3>3. CASE unlock(c, FALSE)
        BY <1>6, <3>2, <3>3, UnlockTypes DEF TypeOK, setDeviceDec
      <3>4. CASE ~unlock(c, FALSE)
        BY <1>6, <3>2, <3>4 DEF TypeOK, setDeviceDec
      <3> QED BY <3>3, <3>4
    <2>2. HoldersHold'
      BY <1>6 DEF TypeOK, HoldersHold, Locked, setDeviceDec, unlock
    <2>3. HandleNotAhead'
      BY <1>6 DEF TypeOK, HandleNotAhead, setDeviceDec, unlock
    <2>4. Buffered'
      BY <1>6 DEF TypeOK, Buffered, setDeviceDec, unlock
    <2>5. RegisterMine'
      BY <1>6 DEF TypeOK, RegisterMine, HoldersHold, Locked, reachable, setDeviceDec, unlock
    <2>6. NotYetTold'
      BY <1>6 DEF TypeOK, NotYetTold, setDeviceDec, unlock
    <2> QED BY <2>1, <2>2, <2>3, <2>4, <2>5, <2>6
  <1>7. ASSUME NEW c \in Clients, act(c) PROVE GotoInv'
    <2>0. PICK ok \in BOOLEAN : unlock(c, ok)
      BY <1>7 DEF act
    <2>1. TypeOK'
      <3>1. last' \in A!Moves \cup {A!NoMove}
        <4>1. CASE reachable(c) /\ last' = [client |-> c, ra |-> reg.ra, dec |-> reg.dec]
          <5>1. reg.ra = tgt[c].ra /\ reg.dec = tgt[c].dec /\ A!Whole(tgt[c])
            BY <1>7, <4>1 DEF RegisterMine, Buffered, act
          <5>2. reg.ra \in RAs /\ reg.dec \in Decs
            BY <5>1 DEF TypeOK
          <5> QED BY <4>1, <5>2
        <4>2. CASE UNCHANGED last
          BY <4>2 DEF TypeOK
        <4> QED BY <1>7, <4>1, <4>2 DEF act
      <3> QED BY <1>7, <3>1, <2>0, UnlockTypes DEF TypeOK, act
    <2>2. HoldersHold'
      BY <1>7 DEF TypeOK, HoldersHold, Locked, act, unlock
    <2>3. HandleNotAhead'
      <3>1. hnd' = [hnd EXCEPT ![c] = 0] /\ live' = live
        BY <1>7, <2>0, UnlockTypes DEF act
      <3> QED BY <3>1 DEF TypeOK, HandleNotAhead
    <2>4. Buffered'
      BY <1>7 DEF TypeOK, Buffered, act, unlock
    <2>5. RegisterMine'
      BY <1>7 DEF TypeOK, RegisterMine, HoldersHold, Locked, reachable, act, unlock
    <2>6. NotYetTold'
      BY <1>7 DEF TypeOK, NotYetTold, act, unlock
    <2> QED BY <2>1, <2>2, <2>3, <2>4, <2>5, <2>6
  <1>8. ASSUME drop PROVE GotoInv'
    BY <1>8 DEF drop, TypeOK, HoldersHold, HandleNotAhead, Buffered,
                RegisterMine, NotYetTold, Locked, reachable
  <1>9. ASSUME reconnect PROVE GotoInv'
    BY <1>9 DEF reconnect, TypeOK, HoldersHold, HandleNotAhead, Buffered,
                RegisterMine, NotYetTold, Locked, reachable
  <1>10. ASSUME UNCHANGED vars PROVE GotoInv'
    BY <1>10 DEF vars, TypeOK, HoldersHold, HandleNotAhead, Buffered,
                 RegisterMine, NotYetTold, Locked, reachable
  <1> QED
    BY <1>1, <1>2, <1>3, <1>4, <1>5, <1>6, <1>7, <1>8, <1>9, <1>10
    DEF Next, serve

(* GotoInv is an invariant of the bridge: the OpLock is exclusive per
   connection, and the register holds what its holder has sent of its own
   target. *)
THEOREM GotoInvariant == Spec => []GotoInv
  BY InitGotoInv, NextGotoInv, PTL DEF Spec

(* The step that changes what the device executes executes a whole target of
   one client: WholeTarget, the property the run checks, for every instance. *)
THEOREM WholeTargetTheorem == Spec => WholeTarget
  <1>1. ASSUME GotoInv, [Next]_vars, last' # last
        PROVE  /\ A!Whole(tgt[last'.client])
               /\ last'.ra = tgt[last'.client].ra
               /\ last'.dec = tgt[last'.client].dec
    <2>1. PICK c \in Clients : act(c)
      BY <1>1 DEF Next, serve, handle, setTarget, gotoTarget, withOp,
                  setDeviceRA, setDeviceDec, drop, reconnect, vars
    <2>2. /\ reachable(c) /\ pc[c] = "act"
          /\ last' = [client |-> c, ra |-> reg.ra, dec |-> reg.dec]
      BY <1>1, <2>1 DEF act
    <2> QED BY <1>1, <2>2 DEF GotoInv, RegisterMine, Buffered
  <1>2. GotoInv /\ [Next]_vars =>
          [last' # last => /\ A!Whole(tgt[last'.client])
                           /\ last'.ra = tgt[last'.client].ra
                           /\ last'.dec = tgt[last'.client].dec]_vars
    BY <1>1
  <1> QED BY <1>2, GotoInvariant, PTL DEF Spec, WholeTarget

(* A success reply follows the execution of the client's own target. *)
THEOREM ToldTheorem == Spec => ToldMeansMoved
  <1>1. ASSUME GotoInv, [Next]_vars, NEW c \in Clients, pc[c] = "act", told'[c]
        PROVE  last' = [client |-> c, ra |-> tgt[c].ra, dec |-> tgt[c].dec]
    <2>1. told[c] = FALSE
      BY <1>1 DEF GotoInv, NotYetTold
    <2>2. act(c)
      BY <1>1, <2>1 DEF GotoInv, TypeOK, Next, serve, handle, setTarget,
                        gotoTarget, withOp, setDeviceRA, setDeviceDec, act,
                        unlock, drop, reconnect, vars
    <2>3. reachable(c) /\ last' = [client |-> c, ra |-> reg.ra, dec |-> reg.dec]
      BY <1>1, <2>1, <2>2 DEF GotoInv, TypeOK, act, unlock
    <2> QED BY <1>1, <2>3 DEF GotoInv, RegisterMine
  <1>2. GotoInv /\ [Next]_vars =>
          [\A c \in Clients : (pc[c] = "act" /\ told'[c]) =>
             last' = [client |-> c, ra |-> tgt[c].ra, dec |-> tgt[c].dec]]_vars
    BY <1>1
  <1> QED BY <1>2, GotoInvariant, PTL DEF Spec, ToldMeansMoved

(* The state of the bridge keeps its types: a lock is held by a client or by
   nobody, and the device's register and the last move hold coordinates. *)
THEOREM GotoTypes == Spec => []TypeOK
  <1>1. GotoInv => TypeOK
    BY DEF GotoInv
  <1> QED BY <1>1, GotoInvariant, PTL

(* The bridge implements AtomicTarget: setTarget and handle are Buffer steps,
   act is a Commit step, every other step leaves tgt and last alone. *)
THEOREM Refinement == Spec => Atomic
  <1>1. Init => A!AInit
    BY DEF Init
  <1>2. ASSUME GotoInv, [Next]_vars
        PROVE  [A!ANext]_(A!avars)
    <2>1. ASSUME NEW c \in Clients, handle(c) PROVE A!Buffer(c)
      BY <2>1 DEF handle, A!Buffer
    <2>2. ASSUME NEW c \in Clients, setTarget(c) PROVE A!Buffer(c)
      BY <1>2, <2>2, SetTargetBuffers DEF GotoInv, setTarget, A!Buffer
    <2>3. ASSUME NEW c \in Clients, act(c)
          PROVE  A!Commit(c) \/ UNCHANGED A!avars
      <3>1. CASE reachable(c) /\ last' = [client |-> c, ra |-> reg.ra, dec |-> reg.dec]
        BY <1>2, <2>3, <3>1
        DEF GotoInv, RegisterMine, Buffered, act, A!Commit
      <3>2. CASE UNCHANGED last
        BY <2>3, <3>2 DEF act, A!avars
      <3> QED BY <2>3, <3>1, <3>2 DEF act
    <2>4. ASSUME NEW c \in Clients,
                 \/ gotoTarget(c) \/ withOp(c) \/ setDeviceRA(c) \/ setDeviceDec(c)
          PROVE  UNCHANGED A!avars
      BY <2>4 DEF gotoTarget, withOp, setDeviceRA, setDeviceDec, A!avars
    <2>5. ASSUME drop \/ reconnect \/ UNCHANGED vars PROVE UNCHANGED A!avars
      BY <2>5 DEF drop, reconnect, vars, A!avars
    <2> QED BY <1>2, <2>1, <2>2, <2>3, <2>4, <2>5 DEF Next, serve, A!ANext
  <1> QED BY <1>1, <1>2, GotoInvariant, PTL DEF Spec, Atomic, A!ASpec
=============================================================================
