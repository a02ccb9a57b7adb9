------------------------- MODULE DriverCacheProofs -------------------------
(***************************************************************************)
(* The status cache of the drivers: a status that is given to a call is    *)
(* not older than a command that had returned when the call began.         *)
(***************************************************************************)
EXTENDS DriverProofs

(***************************************************************************)
(* A method that changed what status() reports still has to invalidate the *)
(* cache, whatever it has done in the meantime.                            *)
(***************************************************************************)
SettleInv == \A c \in Client : Settles(call[c].todo)

(* The invalidation stays ahead in every rest of a script that is not empty. *)
LEMMA PendingRest ==
  ASSUME NEW t \in Seq(StepType), NEW u, NEW n \in Nat, Pending(t), Rest(u, t, n), n < Len(t)
  PROVE  Pending(u)
  <1>1. /\ Len(t) \in Nat /\ Len(u) = Len(t) - n /\ \A i \in 1..(Len(t) - n) : u[i] = t[i + n]
    BY DEF Rest
  <1>2. u # <<>> /\ Len(u) \in 1..(Len(t) - n) /\ Len(u) + n = Len(t)
    BY <1>1
  <1>3. u[Len(u)] = t[Len(t)]
    BY <1>1, <1>2
  <1>4. ASSUME NEW i \in 1..Len(u)
        PROVE  u[i].op # "askMoving" /\ (skips(u[i]) => i + u[i].skip < Len(u))
    <2>1. i + n \in 1..Len(t) /\ u[i] = t[i + n] /\ i \in Nat
      BY <1>1
    <2>2. t[i + n].op # "askMoving" /\ (skips(t[i + n]) => i + n + t[i + n].skip < Len(t))
      BY <2>1 DEF Pending
    <2>3. t[i + n].skip \in Nat
      <3>1. t[i + n] \in StepType
        BY <2>1, ElementOfSeq
      <3> QED BY <3>1 DEF StepType
    <2>4. skips(u[i]) => i + u[i].skip < Len(u)
      BY <1>1, <2>1, <2>2, <2>3
    <2> QED BY <2>1, <2>2, <2>4
  <1> QED BY <1>2, <1>3, <1>4 DEF Pending

(* It stays ahead of a call that takes any step but itself and does not fail. *)
LEMMA PendingGoes ==
  ASSUME NEW t \in Seq(StepType), t # <<>>, NEW u, NEW how, Pending(t),
         t[1].op # "invalidate", Goes(u, t, Way(t[1], how)), Way(t[1], how) # "stop"
  PROVE  Pending(u)
  <1>1. Len(t) \in Nat /\ Len(t) >= 1 /\ t[1] \in StepType /\ t[1].skip \in Nat
    BY First DEF StepType
  <1>2. Len(t) > 1
    BY <1>1 DEF Pending
  <1>3. Way(t[1], how) \in {"go", "skip"}
    BY <1>1 DEF Way, StepType
  <1>4. CASE Way(t[1], how) = "go"
    <2>1. Rest(u, t, 1)
      BY <1>4 DEF Goes
    <2> QED BY <1>2, <2>1, PendingRest
  <1>5. CASE Way(t[1], how) = "skip"
    <2>1. skips(t[1]) /\ 1 \in 1..Len(t)
      BY <1>1, <1>5 DEF Way, skips
    <2>2. 1 + t[1].skip < Len(t)
      BY <2>1 DEF Pending
    <2>3. t[1].skip + 1 < Len(t) /\ t[1].skip + 1 \in Nat
      BY <1>1, <2>2
    <2>4. Rest(u, t, t[1].skip + 1)
      BY <1>1, <1>5, <2>3 DEF Goes
    <2> QED BY <2>3, <2>4, PendingRest
  <1> QED BY <1>3, <1>4, <1>5

(* A rest of a method that settles what it changes settles what it changes. *)
LEMMA RestSettles ==
  ASSUME NEW t \in Seq(StepType), NEW u, NEW way, Settles(t), t # <<>>, Goes(u, t, way)
  PROVE  Settles(u)
  <1>1. u = <<>> \/ \E n \in Nat : Rest(u, t, n)
    <2>1. t[1] \in StepType
      BY First
    <2>2. t[1].skip + 1 \in Nat
      BY <2>1 DEF StepType
    <2> QED BY <2>2 DEF Goes
  <1>2. CASE u = <<>>
    BY <1>2 DEF Settles
  <1>3. ASSUME NEW n \in Nat, Rest(u, t, n) PROVE Settles(u)
    <2> SUFFICES ASSUME NEW i \in 1..Len(u), alters(u[i]) PROVE Pending(u)
      BY DEF Settles
    <2>1. Len(t) \in Nat /\ Len(u) = Len(t) - n /\ n <= Len(t) /\ \A j \in 1..(Len(t) - n) : u[j] = t[j + n]
      BY <1>3 DEF Rest
    <2>2. u[i] = t[i + n] /\ i + n \in 1..Len(t) /\ n < Len(t)
      BY <2>1
    <2>3. Pending(t)
      BY <2>2 DEF Settles
    <2> QED BY <1>3, <2>2, <2>3, PendingRest
  <1> QED BY <1>1, <1>2, <1>3

(* The queries of status() change nothing and lead nowhere else. *)
LEMMA FetchSettles ==
  ASSUME NEW d \in Drivers, NEW t \in Seq(StepType), Settles(t)
  PROVE  /\ Settles(Fetch[d] \o t)
         /\ Pending(t) => Pending(Fetch[d] \o t)
  <1> DEFINE f == Fetch[d]
             g == f \o t
  <1>1. f \in Seq(StepType) /\ Fetches(f)
    BY ScriptTypes, FetchAssumption
  <1> HIDE DEF f
  <1>2. /\ Len(g) = Len(f) + Len(t) /\ Len(f) \in Nat /\ Len(t) \in Nat
        /\ \A i \in 1..(Len(f) + Len(t)) : g[i] = IF i <= Len(f) THEN f[i] ELSE t[i - Len(f)]
    BY <1>1, ConcatProperties
  <1> HIDE DEF g
  <1>3. ASSUME NEW i \in 1..Len(f)
        PROVE  g[i] = f[i] /\ f[i].does = "nothing" /\ ~skips(f[i]) /\ f[i].op # "askMoving"
    <2>1. g[i] = f[i] /\ f[i].does = "nothing" /\ ~skips(f[i])
      BY <1>1, <1>2 DEF Fetches
    <2>2. i \in 1..(Len(f) - 1) \/ i = Len(f)
      BY <1>2
    <2>3. f[i].op \in Wire \cup {"check", "store"}
      BY <1>1, <2>2 DEF Fetches
    <2> QED BY <2>1, <2>3 DEF Wire
  <1>4. ASSUME NEW i \in 1..Len(g), ~(i <= Len(f))
        PROVE  i - Len(f) \in 1..Len(t) /\ g[i] = t[i - Len(f)]
    BY <1>2, <1>4
  <1>5. ASSUME Pending(t) PROVE Pending(g)
    <2>1. Len(t) >= 1 /\ t[Len(t)].op = "invalidate"
      BY <1>2, <1>5 DEF Pending
    <2>2. Len(g) \in 1..Len(g) /\ ~(Len(g) <= Len(f)) /\ Len(g) - Len(f) = Len(t)
      BY <1>2, <2>1
    <2>3. g[Len(g)] = t[Len(t)] /\ g # <<>>
      BY <1>4, <2>2
    <2>4. ASSUME NEW i \in 1..Len(g)
          PROVE  g[i].op # "askMoving" /\ (skips(g[i]) => i + g[i].skip < Len(g))
      <3>1. CASE i <= Len(f)
        <4>1. i \in 1..Len(f)
          BY <1>2, <3>1
        <4> QED BY <1>3, <4>1
      <3>2. CASE ~(i <= Len(f))
        <4> DEFINE j == i - Len(f)
        <4>1. j \in 1..Len(t) /\ g[i] = t[j] /\ i = j + Len(f)
          BY <1>2, <1>4, <3>2
        <4> HIDE DEF j
        <4>2. t[j].op # "askMoving" /\ (skips(t[j]) => j + t[j].skip < Len(t))
          BY <1>5, <4>1 DEF Pending
        <4>3. t[j].skip \in Nat
          <5>1. t[j] \in StepType
            BY <4>1, ElementOfSeq
          <5> QED BY <5>1 DEF StepType
        <4>4. skips(g[i]) => i + g[i].skip < Len(g)
          BY <1>2, <4>1, <4>2, <4>3
        <4> QED BY <4>1, <4>2, <4>4
      <3> QED BY <3>1, <3>2
    <2> QED BY <2>1, <2>3, <2>4 DEF Pending
  <1>6. Settles(g)
    <2> SUFFICES ASSUME NEW i \in 1..Len(g), alters(g[i]) PROVE Pending(g)
      BY DEF Settles
    <2>1. ~(i <= Len(f))
      <3> SUFFICES ASSUME i <= Len(f) PROVE FALSE
        OBVIOUS
      <3>1. i \in 1..Len(f)
        BY <1>2
      <3> QED BY <1>3, <3>1 DEF alters
    <2>2. Pending(t)
      BY <1>4, <2>1 DEF Settles
    <2> QED BY <1>5, <2>2
  <1> QED BY <1>5, <1>6 DEF f, g

(* Every script that is under way settles what it changes. *)
LEMMA SettleStep == TypeOK /\ SettleInv /\ [Next]_vars => SettleInv'
  <1> SUFFICES ASSUME TypeOK, SettleInv, [Next]_vars, NEW c \in Client PROVE Settles(call'[c].todo)
    BY DEF SettleInv
  <1> DEFINE t == call[c].todo
             u == call'[c].todo
  <1>1. t \in Seq(StepType) /\ Settles(t) /\ drv \in Drivers
    BY DEF TypeOK, CallType, SettleInv
  <1>2. Becomes(c, u, t)
    BY Scripted
  <1> SUFFICES Settles(u)
    OBVIOUS
  <1> HIDE DEF u, t
  <1>3. CASE u = <<>>
    BY <1>3 DEF Settles
  <1>4. CASE u \in Scripts(drv) \/ u \in Polls[drv]
    BY <1>1, <1>4, SettleAssumption DEF Scripts
  <1>5. CASE u = <<SpeedCorrectionOn>>
    <2>1. ~alters(SpeedCorrectionOn)
      BY DEF alters, SpeedCorrectionOn
    <2> QED BY <1>5, <2>1, RestoreTyped DEF Settles
  <1>6. ASSUME t # <<>>, NEW way, Goes(u, t, way) PROVE Settles(u)
    BY <1>1, <1>6, RestSettles
  <1>7. CASE t # <<>> /\ u = Fetch[drv] \o Tail(t)
    <2>1. Tail(t) \in Seq(StepType) /\ Rest(Tail(t), t, 1)
      BY <1>1, <1>7, First
    <2>2. Settles(Tail(t))
      BY <1>1, <1>7, <2>1, RestSettles DEF Goes
    <2> QED BY <1>1, <1>7, <2>1, <2>2, FetchSettles
  <1> QED BY <1>1, <1>2, <1>3, <1>4, <1>5, <1>6, <1>7 DEF Becomes

(***************************************************************************)
(* What covers a version v of the status: a cache that is still good, and  *)
(* an answer that status() is reading, are not older than v.               *)
(***************************************************************************)
Covers(v) ==
    /\ cache.left > 0 => cache.v >= v
    /\ \A h \in Client : mu = h =>
          /\ call[h].seen >= v
          /\ conn = h => \A i \in 1..Len(line) : line[i].c = "#" => line[i].v >= v

(* The same of the state after a step. *)
Covered(v) ==
    /\ cache'.left > 0 => cache'.v >= v
    /\ \A h \in Client : mu' = h =>
          /\ call'[h].seen >= v
          /\ conn' = h => \A i \in 1..Len(line') : line'[i].c = "#" => line'[i].v >= v

(* A command that has returned is covered; one whose method is under way is  *)
(* covered or will be by the invalidation that is still ahead.               *)
FreshCall(c) ==
    /\ call[c].did <= mnt.ver /\ call[c].base <= floor
    /\ call[c].on /\ ~call[c].failed => Covers(call[c].did) \/ Pending(call[c].todo)
    /\ call[c].got => call[c].seen >= call[c].base

FreshInv ==
    ~loose => /\ floor <= mnt.ver /\ Covers(floor)
              /\ \A c \in Client : FreshCall(c)

(* What covers a version covers the earlier ones. *)
LEMMA CoversLess ==
  ASSUME TypeOK, NEW v \in Nat, NEW w \in Nat, w <= v, Covers(v)
  PROVE  Covers(w)
  <1>1. cache.v \in Nat /\ line \in Seq(Char) /\ \A h \in Client : call[h].seen \in Nat
    BY DEF TypeOK, CallType
  <1>2. \A i \in 1..Len(line) : line[i].v \in Nat
    <2> TAKE i \in 1..Len(line)
    <2>1. line[i] \in Char
      BY <1>1, ElementOfSeq
    <2> QED BY <2>1 DEF Char
  <1>3. ASSUME NEW h \in Client, mu = h
        PROVE  /\ call[h].seen >= w
               /\ conn = h => \A i \in 1..Len(line) : line[i].c = "#" => line[i].v >= w
    <2>1. call[h].seen >= v /\ (conn = h => \A i \in 1..Len(line) : line[i].c = "#" => line[i].v >= v)
      BY <1>3 DEF Covers
    <2>2. \A x \in Nat : x >= v => x >= w
      OBVIOUS
    <2> QED BY <1>1, <1>2, <2>1, <2>2
  <1>4. cache.left > 0 => cache.v >= w
    BY <1>1 DEF Covers
  <1> QED BY <1>3, <1>4 DEF Covers

(* The numbers the invariant compares. *)
LEMMA Numbers ==
  ASSUME TypeOK
  PROVE  /\ floor \in Nat /\ mnt.ver \in Nat /\ cache.v \in Nat /\ cache.left \in Nat
         /\ line \in Seq(Char) /\ \A i \in 1..Len(line) : line[i].v \in Nat
         /\ \A c \in Client : call[c].did \in Nat /\ call[c].base \in Nat /\ call[c].seen \in Nat
  <1>1. line \in Seq(Char)
    BY DEF TypeOK
  <1>2. \A i \in 1..Len(line) : line[i].v \in Nat
    <2> TAKE i \in 1..Len(line)
    <2>1. line[i] \in Char
      BY <1>1, ElementOfSeq
    <2> QED BY <2>1 DEF Char
  <1>3. floor \in Nat /\ mnt.ver \in Nat /\ cache.v \in Nat /\ cache.left \in Nat
    BY ConstantTypes DEF TypeOK
  <1>4. \A c \in Client : call[c].did \in Nat /\ call[c].base \in Nat /\ call[c].seen \in Nat
    BY DEF TypeOK, CallType
  <1> QED BY <1>1, <1>2, <1>3, <1>4

(* A step that leaves the cache and the line alone, and its call's status,   *)
(* or that is no step of the holder of Mount.mu.                             *)
LEMMA CoversSilent ==
  ASSUME NEW c \in Client, Others(c), UNCHANGED <<cache, mu, conn, line>>,
         mu = c => call'[c].seen = call[c].seen, NEW v, Covers(v)
  PROVE  Covered(v)
  <1>1. ASSUME NEW h \in Client, mu = h PROVE call'[h].seen = call[h].seen
    BY <1>1 DEF Others
  <1> QED BY <1>1 DEF Covers, Covered

(* A command is written: the terminator its answer ends with carries a     *)
(* version that is not older than any reached so far.                      *)
LEMMA CoversWrite ==
  ASSUME Core, NEW c \in Client, NEW op \in Wire, write(c, op), ~loose',
         NEW v \in Nat, v <= mnt.ver, Covers(v)
  PROVE  Covered(v)
  <1>0. TypeOK /\ LockInv /\ WireInv
    BY DEF Core
  <1>1. /\ conn = Nobody /\ conn' = (IF op = "blind" THEN Nobody ELSE c) /\ step(c) \in StepType /\ Others(c)
        /\ call'[c].seen = call[c].seen
    BY <1>0, WriteStep
  <1>2. PICK a \in Answer(step(c)), delay \in BOOLEAN :
             Taken(c, a, delay)
    BY <1>0, WriteStep
  <1>3. ~loose /\ ~delay
    BY <1>2, Zenon DEF Taken
  <1>4. late = <<>> /\ \A i \in 1..Len(line) : line[i].c # "#"
    <2>1. late = <<>> /\ (line = <<>> \/ Printed)
      BY <1>0, <1>1, <1>3 DEF WireInv
    <2> QED BY <2>1 DEF Printed
  <1> DEFINE b == Chars(a, mnt.ver)
  <1>5. line' = line \o b
    BY <1>2, <1>3, <1>4 DEF Taken
  <1>6. mnt.ver \in Nat /\ line \in Seq(Char)
    BY <1>0, Numbers
  <1>7. b \in Seq(Char) /\ \A i \in 1..Len(b) : b[i].v = mnt.ver
    BY <1>1, <1>6, AnswerShapes, CharsTyped
  <1> HIDE DEF b
  <1>8. ASSUME NEW i \in 1..Len(line'), line'[i].c = "#" PROVE line'[i].v >= v
    <2>1. /\ Len(line') = Len(line) + Len(b) /\ Len(line) \in Nat /\ Len(b) \in Nat
          /\ \A k \in 1..(Len(line) + Len(b)) : line'[k] = IF k <= Len(line) THEN line[k] ELSE b[k - Len(line)]
      BY <1>5, <1>6, <1>7, ConcatProperties
    <2>2. ~(i <= Len(line))
      <3> SUFFICES ASSUME i <= Len(line) PROVE FALSE
        OBVIOUS
      <3>1. i \in 1..Len(line) /\ line'[i] = line[i]
        BY <1>8, <2>1
      <3> QED BY <1>4, <1>8, <3>1
    <2>3. i - Len(line) \in 1..Len(b) /\ line'[i] = b[i - Len(line)]
      BY <1>8, <2>1, <2>2
    <2>4. line'[i].v = mnt.ver
      BY <1>7, <2>3
    <2> QED BY <1>6, <2>4
  <1>9. UNCHANGED <<cache, mu>>
    BY DEF write
  <1>10. \A h \in Client : call'[h].seen = call[h].seen
    BY <1>1 DEF Others
  <1> QED BY <1>8, <1>9, <1>10 DEF Covers, Covered

(* An answer is read, or the wait for it ends. *)
LEMMA CoversRead ==
  ASSUME Core, NEW c \in Client, readByte(c) \/ readUntil(c) \/ readSlew(c) \/ timeout(c),
         NEW v \in Nat, Covers(v)
  PROVE  Covered(v)
  <1>0. TypeOK /\ LockInv
    BY DEF Core
  <1>1. Others(c) /\ conn' = Nobody /\ UNCHANGED <<mu, cache>> /\ waits(c)
    BY <1>0, ReadByteStep, ReadUntilStep, ReadSlewStep, ErrorStep DEF readByte, readUntil, readSlew, timeout, starved
  <1>2. mu = c => call'[c].seen >= v
    <2> SUFFICES ASSUME mu = c PROVE call'[c].seen >= v
      OBVIOUS
    <2>1. conn = c
      BY <1>0, <1>1, OneWaits
    <2>2. call[c].seen >= v /\ \A i \in 1..Len(line) : line[i].c = "#" => line[i].v >= v
      BY <2>1 DEF Covers
    <2>3. CASE readUntil(c)
      <3>1. PICK k \in 1..Len(line) :
               /\ line[k].c = "#"
               /\ call'[c].seen = IF mu = c THEN IF line[k].v < call[c].seen THEN line[k].v ELSE call[c].seen
                                  ELSE call[c].seen
        BY <1>0, <2>3, ReadUntilStep
      <3> QED BY <2>2, <3>1
    <2>4. CASE ~readUntil(c)
      <3>1. Carries(call'[c], call[c])
        BY <1>0, <2>4, ReadByteStep, ReadSlewStep, ErrorStep
      <3> QED BY <2>2, <3>1 DEF Carries
    <2> QED BY <2>3, <2>4
  <1>3. ASSUME NEW h \in Client, mu' = h PROVE call'[h].seen >= v /\ conn' # h
    <2>1. conn' # h
      BY <1>1, ConstantTypes
    <2>2. CASE h = c
      BY <1>1, <1>2, <1>3, <2>1, <2>2
    <2>3. CASE h # c
      <3>1. call[h].seen >= v /\ call'[h] = call[h]
        BY <1>1, <1>3, <2>3 DEF Covers, Others
      <3> QED BY <2>1, <3>1
    <2> QED BY <2>2, <2>3
  <1> QED BY <1>1, <1>3 DEF Covers, Covered

(* status() finds the cache too old and begins to read. *)
LEMMA CoversMiss ==
  ASSUME Core, NEW c \in Client, status(c), ~(cache.left > 0), NEW v \in Nat, v <= mnt.ver
  PROVE  Covered(v)
  <1>1. TypeOK /\ LockInv /\ mnt.ver \in Nat
    BY Numbers DEF Core
  <1>2. Others(c) /\ mu' = c /\ call'[c].seen = mnt.ver
    BY <1>1, MissStep
  <1>3. ~call[c].sent /\ UNCHANGED <<conn, cache>>
    BY DEF status, ready
  <1>4. conn' # c
    BY <1>1, <1>3 DEF LockInv
  <1> QED BY <1>1, <1>2, <1>3, <1>4 DEF Covers, Covered

(* The end of status(), and of a method that still held its lock. *)
LEMMA CoversStore ==
  ASSUME TypeOK, NEW c \in Client, store(c), NEW v \in Nat, Covers(v)
  PROVE  Covered(v)
  <1>1. mu = c /\ cache' = [left |-> TTL, v |-> call[c].seen] /\ mu' = Nobody
    BY DEF store
  <1>2. call[c].seen >= v
    BY <1>1 DEF Covers
  <1>3. \A h \in Client : mu' # h
    BY <1>1, ConstantTypes
  <1>4. cache'.v = call[c].seen
    BY <1>1
  <1> QED BY <1>2, <1>3, <1>4 DEF Covers, Covered

(* A return changes no status and covers what was covered. *)
LEMMA CoversReturn ==
  ASSUME TypeOK, NEW c \in Client, return(c), NEW v \in Nat, Covers(v)
  PROVE  Covered(v)
  <1>1. Others(c) /\ mu' = (IF mu = c THEN Nobody ELSE mu)
    BY ReturnStep
  <1>2. UNCHANGED <<cache, conn, line>>
    BY DEF return
  <1>3. ASSUME NEW h \in Client, mu' = h PROVE mu = h /\ call'[h] = call[h]
    BY <1>1, <1>3, ConstantTypes DEF Others
  <1> QED BY <1>2, <1>3 DEF Covers, Covered

(* Once the cache is empty and nobody reads, everything is covered. *)
LEMMA CoversInvalidate ==
  ASSUME TypeOK, NEW c \in Client, invalidate(c), NEW v
  PROVE  Covered(v)
  <1>1. mu' = Nobody /\ cache' = [cache EXCEPT !.left = 0]
    BY DEF invalidate
  <1>2. cache'.left = 0
    BY <1>1 DEF TypeOK
  <1>3. \A h \in Client : mu' # h
    BY <1>1, ConstantTypes
  <1> QED BY <1>2, <1>3 DEF Covers, Covered

(* Time only makes the cached status run out. *)
LEMMA CoversTick ==
  ASSUME TypeOK, tick, NEW v, Covers(v)
  PROVE  Covered(v)
  <1> DEFINE n == IF cache.left > 0 THEN cache.left - 1 ELSE 0
  <1>1. cache' = [cache EXCEPT !.left = n] /\ cache \in [left : 0..TTL, v : Nat]
    BY DEF tick, TypeOK
  <1>2. n > 0 => cache.left > 0
    BY <1>1
  <1> HIDE DEF n
  <1>3. cache'.left = n /\ cache'.v = cache.v
    BY <1>1
  <1>4. UNCHANGED <<mu, conn, line, call>>
    BY DEF tick
  <1> QED BY <1>2, <1>3, <1>4 DEF Covers, Covered

(* What FreshInv says of one call after a step. *)
FreshNext(c) ==
    /\ call'[c].did <= mnt'.ver /\ call'[c].base <= floor'
    /\ call'[c].on /\ ~call'[c].failed => Covered(call'[c].did) \/ Pending(call'[c].todo)
    /\ call'[c].got => call'[c].seen >= call'[c].base

(* A step keeps the invariant when it keeps what is covered and when the   *)
(* call it belongs to keeps its part.                                      *)
LEMMA FreshOthers ==
  ASSUME TypeOK, TypeOK', FreshInv, ~loose, NEW c \in Client, Others(c),
         mnt.ver <= mnt'.ver, floor' = floor,
         \A v \in Nat : v <= mnt.ver /\ Covers(v) => Covered(v),
         FreshNext(c)
  PROVE  FreshInv'
  <1>1. /\ floor \in Nat /\ mnt.ver \in Nat /\ mnt'.ver \in Nat /\ floor <= mnt.ver
        /\ \A d \in Client : call[d].did \in Nat
    BY Numbers DEF FreshInv, TypeOK
  <1>2. Covered(floor')
    BY <1>1 DEF FreshInv
  <1>3. Covers(floor)'
    BY <1>2 DEF Covers, Covered
  <1>4. ASSUME NEW d \in Client PROVE FreshNext(d)
    <2>1. CASE d = c
      BY <2>1
    <2>2. CASE d # c
      <3>1. call'[d] = call[d] /\ FreshCall(d)
        BY <2>2 DEF Others, FreshInv
      <3>2. call[d].did \in Nat /\ call[d].did <= mnt.ver
        BY <1>1, <3>1 DEF FreshCall
      <3>3. call'[d].did <= mnt'.ver
        BY <1>1, <3>1, <3>2
      <3>4. Covers(call[d].did) => Covered(call[d].did)
        BY <3>2
      <3> QED BY <3>1, <3>3, <3>4 DEF FreshNext, FreshCall
    <2> QED BY <2>1, <2>2
  <1>5. \A d \in Client : FreshCall(d)'
    BY <1>4 DEF FreshNext, FreshCall, Covers, Covered
  <1>6. floor' <= mnt'.ver
    BY <1>1
  <1> QED BY <1>3, <1>5, <1>6 DEF FreshInv

(* A call that moves on and changes nothing that is reported. *)
LEMMA FreshMoves ==
  ASSUME TypeOK, NEW c \in Client, FreshCall(c), NEW how, call[c].todo # <<>>,
         Onward(c, how, call'[c]), call'[c].did = call[c].did, step(c).op # "invalidate",
         mnt.ver <= mnt'.ver, mnt'.ver \in Nat, floor' = floor,
         \A v \in Nat : v <= mnt.ver /\ Covers(v) => Covered(v),
         call'[c].got => call'[c].seen >= call'[c].base
  PROVE  FreshNext(c)
  <1>1. /\ call[c].did \in Nat /\ call[c].did <= mnt.ver /\ mnt.ver \in Nat /\ call[c].base <= floor
    BY Numbers DEF FreshCall
  <1>2. call[c].todo \in Seq(StepType) /\ step(c) = call[c].todo[1]
    BY After DEF TypeOK, CallType
  <1>3. call'[c].did <= mnt'.ver /\ call'[c].base <= floor'
    BY <1>1 DEF Onward
  <1>4. ASSUME call'[c].on, ~call'[c].failed PROVE Covered(call'[c].did) \/ Pending(call'[c].todo)
    <2>1. call[c].on /\ ~call[c].failed /\ Way(step(c), how) # "stop"
      BY <1>4 DEF Onward
    <2>2. CASE Covers(call[c].did)
      BY <1>1, <2>2
    <2>3. CASE Pending(call[c].todo)
      <3>1. Goes(call'[c].todo, call[c].todo, Way(step(c), how))
        BY DEF Onward
      <3> QED BY <1>2, <2>1, <2>3, <3>1, PendingGoes
    <2> QED BY <2>1, <2>2, <2>3 DEF FreshCall
  <1> QED BY <1>3, <1>4 DEF FreshNext

(* A command that is written and, when it changes what status() reports,   *)
(* has the invalidation ahead.                                             *)
LEMMA FreshWrite ==
  ASSUME Core, SettleInv, NEW c \in Client, FreshCall(c), NEW op \in Wire, write(c, op), ~loose',
         TypeOK'
  PROVE  FreshNext(c) /\ mnt.ver <= mnt'.ver /\ floor' = floor
  <1>0. TypeOK
    BY DEF Core
  <1>1. /\ call[c].on /\ call[c].todo # <<>> /\ ~call[c].sent /\ step(c).op = op
        /\ step(c) \in StepType /\ Others(c) /\ call'[c].got = call[c].got /\ call'[c].seen = call[c].seen
        /\ IF op = "blind" THEN Onward(c, "yes", call'[c]) ELSE Stays(call'[c], call[c]) /\ call'[c].sent
    BY <1>0, WriteStep
  <1>2. PICK a \in Answer(step(c)), delay \in BOOLEAN : Taken(c, a, delay)
    BY <1>0, WriteStep
  <1>3. floor' = floor
    BY DEF write
  <1>4. /\ call[c].did \in Nat /\ call[c].did <= mnt.ver /\ mnt.ver \in Nat /\ call[c].base <= floor
        /\ (call[c].got => call[c].seen >= call[c].base) /\ mnt \in MountType /\ mnt'.ver \in Nat
    BY <1>0, Numbers DEF FreshCall, TypeOK, MountType
  <1>5. call[c].todo \in Seq(StepType) /\ step(c) = call[c].todo[1]
    BY <1>0, <1>1, After DEF TypeOK, CallType
  <1> DEFINE acc == a = <<>> \/ Head(a) = "y"
  <1>6. /\ mnt' = (IF acc \/ step(c).does = "askSouth" THEN Obey(step(c)) ELSE mnt)
        /\ call'[c].did = IF acc /\ alters(step(c)) THEN mnt'.ver ELSE call[c].did
    BY <1>2 DEF Taken, alters
  <1> HIDE DEF acc
  <1>7. mnt'.ver = mnt.ver \/ mnt'.ver = mnt.ver + 1
    BY <1>1, <1>4, <1>6, Obeys
  <1>8. mnt.ver <= mnt'.ver /\ call'[c].did <= mnt'.ver
    BY <1>4, <1>6, <1>7
  <1>9. call'[c].base = call[c].base /\ call'[c].on = call[c].on
    BY <1>1 DEF Onward, Stays
  <1>10. ASSUME ~call'[c].failed PROVE Covered(call'[c].did) \/ Pending(call'[c].todo)
    <2>1. ~call[c].failed
      BY <1>1, <1>10 DEF Onward, Stays
    <2>2. CASE Pending(call[c].todo)
      <3>1. CASE op = "blind"
        <4>1. Onward(c, "yes", call'[c]) /\ step(c).op # "invalidate"
          BY <1>1, <3>1
        <4>2. Goes(call'[c].todo, call[c].todo, Way(step(c), "yes")) /\ Way(step(c), "yes") # "stop"
          BY <1>10, <4>1 DEF Onward
        <4> QED BY <1>5, <2>2, <4>1, <4>2, PendingGoes, <1>1
      <3>2. CASE op # "blind"
        BY <1>1, <2>2, <3>2 DEF Stays
      <3> QED BY <3>1, <3>2
    <2>3. CASE ~Pending(call[c].todo)
      <3>1. ~alters(step(c))
        <4>1. 1 \in 1..Len(call[c].todo)
          BY <1>1, <1>5, First
        <4>2. Settles(call[c].todo)
          BY DEF SettleInv
        <4> QED BY <1>5, <2>3, <4>1, <4>2 DEF Settles
      <3>2. call'[c].did = call[c].did /\ Covers(call[c].did)
        BY <1>1, <1>6, <2>1, <2>3, <3>1 DEF FreshCall
      <3>3. Covered(call[c].did)
        BY <1>4, <3>2, CoversWrite
      <3> QED BY <3>2, <3>3
    <2> QED BY <2>2, <2>3
  <1>11. call'[c].base <= floor' /\ (call'[c].got => call'[c].seen >= call'[c].base)
    BY <1>1, <1>3, <1>4, <1>9
  <1> QED BY <1>3, <1>8, <1>10, <1>11 DEF FreshNext

(* Every step keeps what is known of the versions. *)
LEMMA FreshStep ==
  ASSUME Core, SettleInv, FreshInv, [Next]_vars
  PROVE  FreshInv'
  <1> SUFFICES ASSUME ~loose' PROVE FreshInv'
    BY DEF FreshInv
  <1>0. TypeOK /\ LockInv /\ WireInv /\ TypeOK'
    BY TypeStep DEF Core
  <1>01. /\ floor \in Nat /\ mnt.ver \in Nat /\ mnt'.ver \in Nat
    BY <1>0, Numbers DEF TypeOK
  <1>1. ASSUME NEW c \in Client, NEW op \in Wire, write(c, op) PROVE FreshInv'
    <2>1. ~loose
      <3>1. \E a \in Answer(step(c)), delay \in BOOLEAN : Taken(c, a, delay)
        BY <1>0, <1>1, WriteStep
      <3> QED BY <3>1, Zenon DEF Taken
    <2>2. FreshCall(c) /\ Others(c)
      BY <1>0, <1>1, <2>1, WriteStep DEF FreshInv
    <2>3. FreshNext(c) /\ mnt.ver <= mnt'.ver /\ floor' = floor
      BY <1>0, <1>1, <2>2, FreshWrite
    <2>4. \A v \in Nat : v <= mnt.ver /\ Covers(v) => Covered(v)
      BY <1>1, CoversWrite
    <2> QED BY <1>0, <2>1, <2>2, <2>3, <2>4, FreshOthers
  <1>2. ASSUME NEW c \in Client, writeFails(c) PROVE FreshInv'
    <2>1. mnt' = mnt /\ floor' = floor /\ UNCHANGED <<cache, mu, conn, line>> /\ \E op \in Wire : ready(c, op)
      BY <1>2 DEF writeFails
    <2>2. ~loose
      BY <1>2, Zenon DEF writeFails
    <2>3. call[c].todo # <<>> /\ step(c).op # "invalidate"
      BY <2>1 DEF ready, Wire
    <2>4. Others(c) /\ Onward(c, "err", call'[c]) /\ Carries(call'[c], call[c])
      BY <1>0, <1>2, ErrorStep
    <2>5. call'[c].got = call[c].got /\ call'[c].seen = call[c].seen /\ call'[c].did = call[c].did
      BY <2>4 DEF Carries
    <2>6. FreshCall(c) /\ mnt.ver <= mnt'.ver
      BY <1>01, <2>1, <2>2 DEF FreshInv
    <2>7. \A v \in Nat : Covers(v) => Covered(v)
      BY <2>1, <2>4, <2>5, CoversSilent
    <2>8. call'[c].got => call'[c].seen >= call'[c].base
      BY <2>4, <2>5, <2>6 DEF FreshCall, Onward
    <2>9. FreshNext(c)
      BY <1>0, <1>01, <2>1, <2>3, <2>4, <2>5, <2>6, <2>7, <2>8, FreshMoves
    <2> QED BY <1>0, <2>1, <2>2, <2>4, <2>6, <2>7, <2>9, FreshOthers
  <1>3. ASSUME NEW c \in Client, readByte(c) \/ readUntil(c) \/ readSlew(c) \/ timeout(c) PROVE FreshInv'
    <2>1. ~loose /\ mnt' = mnt /\ floor' = floor /\ call[c].todo # <<>> /\ waits(c)
      BY <1>3 DEF readByte, readUntil, readSlew, timeout, starved, waits
    <2>2. /\ Others(c) /\ \E how \in {"yes", "no", "err"} : Onward(c, how, call'[c])
          /\ call'[c].got = call[c].got /\ call'[c].did = call[c].did
      <3>1. CASE readUntil(c)
        BY <1>0, <3>1, ReadUntilStep
      <3>2. CASE ~readUntil(c)
        <4>1. Others(c) /\ Carries(call'[c], call[c]) /\ \E how \in {"yes", "no", "err"} : Onward(c, how, call'[c])
          BY <1>0, <1>3, <3>2, ReadByteStep, ReadSlewStep, ErrorStep
        <4> QED BY <4>1 DEF Carries
      <3> QED BY <3>1, <3>2
    <2>3. \A v \in Nat : Covers(v) => Covered(v)
      BY <1>3, CoversRead
    <2>4. FreshCall(c) /\ Covers(floor)
      BY <2>1 DEF FreshInv
    <2>5. call'[c].base = call[c].base
      BY <2>2 DEF Onward
    <2>6. call'[c].got => call'[c].seen >= call'[c].base
      <3> SUFFICES ASSUME call[c].got PROVE call'[c].seen >= call[c].base
        BY <2>2, <2>5
      <3>1. CASE mu = c
        <4>1. Covered(floor) /\ mu' = mu
          BY <1>01, <1>3, <2>3, <2>4 DEF readByte, readUntil, readSlew, timeout
        <4>2. call'[c].seen >= floor
          BY <3>1, <4>1 DEF Covered
        <4>3. call'[c].seen \in Nat /\ call[c].base \in Nat /\ call[c].base <= floor
          BY <1>0, <2>4, Numbers DEF FreshCall, TypeOK, CallType
        <4> QED BY <1>01, <4>2, <4>3
      <3>2. CASE mu # c
        <4>1. call'[c].seen = call[c].seen
          <5>1. CASE readUntil(c)
            <6>1. PICK k \in 1..Len(line) :
                     call'[c].seen = IF mu = c THEN IF line[k].v < call[c].seen THEN line[k].v ELSE call[c].seen
                                     ELSE call[c].seen
              BY <1>0, <5>1, ReadUntilStep
            <6> QED BY <3>2, <6>1
          <5>2. CASE ~readUntil(c)
            BY <1>0, <1>3, <5>2, ReadByteStep, ReadSlewStep, ErrorStep DEF Carries
          <5> QED BY <5>1, <5>2
        <4> QED BY <2>4, <4>1 DEF FreshCall
      <3> QED BY <3>1, <3>2
    <2>7. step(c).op # "invalidate"
      <3>1. call[c].todo[1].op \in Wire
        BY <1>0, <2>1 DEF LockInv, waits
      <3>2. step(c) = call[c].todo[1]
        BY <1>0, <2>1, After DEF TypeOK
      <3> QED BY <3>1, <3>2 DEF Wire
    <2>8. FreshNext(c)
      <3>1. mnt.ver <= mnt'.ver
        BY <1>01, <2>1
      <3> QED BY <1>0, <1>01, <2>1, <2>2, <2>3, <2>4, <2>6, <2>7, <3>1, FreshMoves
    <2>9. mnt.ver <= mnt'.ver
      BY <1>01, <2>1
    <2> QED BY <1>0, <2>1, <2>2, <2>3, <2>8, <2>9, FreshOthers
  <1>4. ASSUME NEW c \in Client, status(c) PROVE FreshInv'
    <2>1. /\ ~loose /\ mnt' = mnt /\ floor' = floor /\ call[c].todo # <<>> /\ step(c).op = "status"
          /\ UNCHANGED <<cache, conn, line>> /\ mu = Nobody
      BY <1>4 DEF status, ready
    <2>2. FreshCall(c) /\ Covers(floor) /\ floor <= mnt.ver /\ mnt.ver <= mnt'.ver
      BY <1>01, <2>1 DEF FreshInv
    <2>3. /\ call[c].base \in Nat /\ call[c].did \in Nat /\ cache.v \in Nat /\ call[c].base <= floor
          /\ call[c].did <= mnt.ver
      BY <1>0, <2>2, Numbers DEF FreshCall
    <2>4. CASE cache.left > 0
      <3>1. /\ Others(c) /\ Onward(c, "yes", call'[c]) /\ mu' = mu
            /\ call'[c].seen = cache.v /\ call'[c].did = call[c].did
        BY <1>0, <1>4, <2>4, HitStep
      <3>2. \A v \in Nat : Covers(v) => Covered(v)
        <4>1. mu # c
          BY <2>1, ConstantTypes
        <4> QED BY <2>1, <3>1, <4>1, CoversSilent
      <3>3. call'[c].seen >= call'[c].base
        <4>1. cache.v >= floor /\ call'[c].base = call[c].base
          BY <2>2, <2>4, <3>1 DEF Covers, Onward
        <4> QED BY <1>01, <2>3, <3>1, <4>1
      <3>4. step(c).op # "invalidate"
        BY <2>1
      <3>5. FreshNext(c)
        BY <1>0, <1>01, <2>1, <2>2, <3>1, <3>2, <3>3, <3>4, FreshMoves
      <3> QED BY <1>0, <2>1, <2>2, <3>1, <3>2, <3>5, FreshOthers
    <2>5. CASE ~(cache.left > 0)
      <3>1. /\ Others(c) /\ call'[c].todo = Fetch[drv] \o Tail(call[c].todo) /\ call'[c].seen = mnt.ver
            /\ call'[c].failed = call[c].failed /\ call'[c].base = call[c].base
            /\ call'[c].did = call[c].did /\ call'[c].on = call[c].on
        BY <1>0, <1>4, <2>5, MissStep
      <3>2. \A v \in Nat : v <= mnt.ver => Covered(v)
        BY <1>4, <2>5, CoversMiss
      <3>3. FreshNext(c)
        <4>1. Covered(call'[c].did)
          BY <2>3, <3>1, <3>2
        <4>2. call'[c].seen >= call'[c].base
          BY <1>01, <2>2, <2>3, <3>1
        <4> QED BY <2>1, <2>3, <3>1, <4>1, <4>2 DEF FreshNext
      <3> QED BY <1>0, <2>1, <2>2, <3>1, <3>2, <3>3, FreshOthers
    <2> QED BY <2>4, <2>5
  <1>5. ASSUME NEW c \in Client, store(c) PROVE FreshInv'
    <2>1. /\ ~loose /\ mnt' = mnt /\ floor' = floor /\ call[c].todo # <<>> /\ step(c).op = "store" /\ mu = c
      BY <1>5 DEF store, ready
    <2>2. FreshCall(c) /\ Covers(floor) /\ mnt.ver <= mnt'.ver
      BY <1>01, <2>1 DEF FreshInv
    <2>3. /\ Others(c) /\ Onward(c, "yes", call'[c]) /\ call'[c].seen = call[c].seen
          /\ call'[c].did = call[c].did
      BY <1>0, <1>5, StoreStep
    <2>4. \A v \in Nat : Covers(v) => Covered(v)
      BY <1>0, <1>5, CoversStore
    <2>5. call'[c].seen >= call'[c].base
      <3>1. call[c].seen >= floor /\ call[c].base <= floor /\ call'[c].base = call[c].base
        BY <2>1, <2>2, <2>3 DEF Covers, FreshCall, Onward
      <3>2. call[c].seen \in Nat /\ call[c].base \in Nat
        BY <1>0, Numbers
      <3> QED BY <1>01, <2>3, <3>1, <3>2
    <2>6. step(c).op # "invalidate"
      BY <2>1
    <2>7. FreshNext(c)
      BY <1>0, <1>01, <2>1, <2>2, <2>3, <2>4, <2>5, <2>6, FreshMoves
    <2> QED BY <1>0, <2>1, <2>2, <2>3, <2>4, <2>7, FreshOthers
  <1>6. ASSUME NEW c \in Client, invalidate(c) PROVE FreshInv'
    <2>1. ~loose /\ mnt' = mnt /\ floor' = floor
      BY <1>6 DEF invalidate
    <2>2. FreshCall(c) /\ mnt.ver <= mnt'.ver
      BY <1>01, <2>1 DEF FreshInv
    <2>3. Others(c) /\ Onward(c, "yes", call'[c]) /\ Carries(call'[c], call[c])
      BY <1>0, <1>6, DoneStep DEF invalidate
    <2>4. Covered(call'[c].did) /\ \A v \in Nat : Covered(v)
      BY <1>0, <1>6, CoversInvalidate
    <2>5. FreshNext(c)
      BY <2>1, <2>2, <2>3, <2>4 DEF FreshNext, FreshCall, Onward, Carries
    <2> QED BY <1>0, <2>1, <2>2, <2>3, <2>4, <2>5, FreshOthers
  <1>7. ASSUME NEW c \in Client, Remembers(c) \/ check(c) \/ defer(c) \/ askMoving(c) PROVE FreshInv'
    <2>1. ~loose /\ mnt' = mnt /\ floor' = floor /\ UNCHANGED <<cache, mu, conn, line>>
      BY <1>0, <1>7, RememberStep DEF check, defer, askMoving
    <2>2. /\ call[c].todo # <<>>
          /\ step(c).op \in {"setMoving", "stopMoving", "clearMoving", "setPulse", "setSouth", "setParked",
                             "check", "restore", "askMoving"}
      BY <1>0, <1>7, RememberStep DEF check, defer, askMoving, ready
    <2>3. FreshCall(c) /\ mnt.ver <= mnt'.ver
      BY <1>01, <2>1 DEF FreshInv
    <2>4. Others(c) /\ call'[c].got = call[c].got /\ call'[c].seen = call[c].seen /\ call'[c].did = call[c].did
      BY <1>0, <1>7, RememberStep, CheckStep, DeferStep, AskMovingStep DEF Carries
    <2>5. \A v \in Nat : Covers(v) => Covered(v)
      BY <2>1, <2>4, CoversSilent
    <2>6. CASE \E how \in {"yes", "no"} : Onward(c, how, call'[c])
      <3>1. call'[c].got => call'[c].seen >= call'[c].base
        BY <2>3, <2>4, <2>6 DEF FreshCall, Onward
      <3>2. FreshNext(c)
        BY <1>0, <1>01, <2>1, <2>2, <2>3, <2>4, <2>5, <2>6, <3>1, FreshMoves
      <3> QED BY <1>0, <2>1, <2>3, <2>4, <2>5, <3>2, FreshOthers
    <2>7. CASE ~\E how \in {"yes", "no"} : Onward(c, how, call'[c])
      <3>1. askMoving(c)
        BY <1>0, <1>7, <2>7, RememberStep, CheckStep, DeferStep
      <3>2. /\ call'[c].on = call[c].on /\ call'[c].base = call[c].base
            /\ (call'[c].failed <=> call[c].failed \/ Way(step(c), "yes") = "stop")
        BY <1>0, <2>7, <3>1, AskMovingStep
      <3>3. step(c) = call[c].todo[1] /\ step(c).op = "askMoving" /\ 1 \in 1..Len(call[c].todo)
        <4>1. call[c].todo \in Seq(StepType)
          BY <1>0 DEF TypeOK, CallType
        <4>2. step(c).op = "askMoving"
          BY <3>1 DEF askMoving, ready
        <4>3. step(c) = call[c].todo[1]
          BY <1>0, <2>2, After DEF TypeOK
        <4> QED BY <2>2, <4>1, <4>2, <4>3, First
      <3>4. ~Pending(call[c].todo)
        BY <3>3 DEF Pending
      <3>5. call[c].did \in Nat
        BY <1>0, Numbers
      <3>6. FreshNext(c)
        BY <2>1, <2>3, <2>4, <2>5, <3>2, <3>4, <3>5 DEF FreshNext, FreshCall
      <3> QED BY <1>0, <2>1, <2>3, <2>4, <2>5, <3>6, FreshOthers
    <2> QED BY <2>6, <2>7
  <1>8. ASSUME NEW c \in Client, return(c) PROVE FreshInv'
    <2>1. ~loose /\ mnt' = mnt
      BY <1>8 DEF return
    <2>2. FreshCall(c) /\ mnt.ver <= mnt'.ver /\ floor <= mnt.ver /\ Covers(floor)
      BY <1>01, <2>1 DEF FreshInv
    <2>3. Others(c) /\ call[c].on /\ call[c].todo = <<>>
      BY <1>0, <1>8, ReturnStep
    <2>4. \A v \in Nat : Covers(v) => Covered(v)
      BY <1>0, <1>8, CoversReturn
    <2>5. ~call[c].failed => Covers(call[c].did)
      <3>1. ~Pending(call[c].todo)
        BY <2>3 DEF Pending
      <3> QED BY <2>2, <2>3, <3>1 DEF FreshCall
    <2>6. call[c].did \in Nat /\ call[c].did <= mnt.ver
      BY <1>0, <2>2, Numbers DEF FreshCall
    <2>7. CASE call[c].fix
      <3>1. /\ floor' = floor /\ call'[c].on = call[c].on /\ call'[c].failed = call[c].failed
            /\ call'[c].base = call[c].base /\ call'[c].got = call[c].got /\ call'[c].seen = call[c].seen
            /\ call'[c].did = call[c].did
        BY <1>0, <1>8, <2>7, ReturnStep
      <3>2. FreshNext(c)
        BY <2>1, <2>2, <2>4, <2>5, <2>6, <3>1 DEF FreshNext, FreshCall
      <3> QED BY <1>0, <2>1, <2>2, <2>3, <2>4, <3>1, <3>2, FreshOthers
    <2>8. CASE ~call[c].fix
      <3>1. /\ ~call'[c].on /\ ~call'[c].got /\ call'[c].did = 0 /\ call'[c].base = 0
            /\ floor' = (IF ~call[c].failed /\ call[c].did > floor THEN call[c].did ELSE floor)
        BY <1>0, <1>8, <2>8, ReturnStep
      <3>2. floor' \in Nat /\ floor <= floor' /\ floor' <= mnt.ver /\ Covers(floor')
        BY <1>01, <2>2, <2>5, <2>6, <3>1
      <3>3. Covers(floor)'
        <4>1. Covered(floor')
          BY <2>4, <3>2
        <4> QED BY <4>1 DEF Covers, Covered
      <3>4. ASSUME NEW d \in Client PROVE FreshNext(d)
        <4>1. CASE d = c
          BY <1>01, <3>1, <3>2, <4>1 DEF FreshNext
        <4>2. CASE d # c
          <5>1. call'[d] = call[d] /\ FreshCall(d) /\ call[d].did \in Nat /\ call[d].base \in Nat
            BY <1>0, <2>1, <2>3, <4>2, Numbers DEF Others, FreshInv
          <5>2. call[d].base <= floor'
            BY <1>01, <3>2, <5>1 DEF FreshCall
          <5> QED BY <2>1, <2>4, <5>1, <5>2 DEF FreshNext, FreshCall
        <4> QED BY <4>1, <4>2
      <3>5. \A d \in Client : FreshCall(d)'
        BY <3>4 DEF FreshNext, FreshCall, Covers, Covered
      <3> QED BY <2>1, <3>2, <3>3, <3>5 DEF FreshInv
    <2> QED BY <2>7, <2>8
  <1>9. ASSUME NEW c \in Client, Start(c) PROVE FreshInv'
    <2>1. ~loose /\ mnt' = mnt /\ floor' = floor /\ UNCHANGED <<cache, mu, conn, line>>
      BY <1>9 DEF Start
    <2>2. /\ Others(c) /\ ~call[c].on /\ ~call'[c].got /\ call'[c].base = floor /\ call'[c].did = 0
      BY <1>0, <1>9, StartStep
    <2>3. mnt.ver <= mnt'.ver /\ Covers(floor)
      BY <1>01, <2>1 DEF FreshInv
    <2>4. \A v \in Nat : Covers(v) => Covered(v)
      <3>1. mu # c
        BY <1>0, <2>2 DEF LockInv
      <3> QED BY <2>1, <2>2, <3>1, CoversSilent
    <2>5. Covered(0)
      <3>1. 0 \in Nat /\ 0 <= floor
        BY <1>01
      <3>2. Covers(0)
        BY <1>0, <1>01, <2>3, <3>1, CoversLess
      <3> QED BY <2>4, <3>1, <3>2
    <2>6. FreshNext(c)
      BY <1>01, <2>1, <2>2, <2>5 DEF FreshNext
    <2> QED BY <1>0, <2>1, <2>2, <2>3, <2>4, <2>6, FreshOthers
  <1>10. ASSUME arrive PROVE FALSE
    <2>1. ~loose /\ late # <<>>
      BY <1>10 DEF arrive
    <2> QED BY <1>0, <2>1 DEF WireInv
  <1>11. CASE tick
    <2>1. ~loose /\ UNCHANGED <<floor, call>> /\ mnt'.ver = mnt.ver
      <3> DEFINE n == IF mnt.pulse > 0 THEN mnt.pulse - 1 ELSE 0
      <3>1. mnt' = [mnt EXCEPT !.pulse = n] /\ mnt \in MountType
        BY <1>0, <1>11 DEF tick, TypeOK, MountType
      <3> HIDE DEF n
      <3>2. mnt'.ver = mnt.ver
        BY <3>1 DEF MountType
      <3> QED BY <1>11, <3>2 DEF tick
    <2>2. \A v : Covers(v) => Covered(v)
      BY <1>0, <1>11, CoversTick
    <2>3. Covers(floor)'
      <3>1. Covered(floor')
        BY <2>1, <2>2 DEF FreshInv
      <3> QED BY <3>1 DEF Covers, Covered
    <2>4. \A d \in Client : FreshNext(d)
      BY <2>1, <2>2 DEF FreshInv, FreshCall, FreshNext
    <2>5. \A d \in Client : FreshCall(d)'
      BY <2>4 DEF FreshNext, FreshCall, Covers, Covered
    <2> QED BY <2>1, <2>3, <2>5 DEF FreshInv
  <1>12. CASE UNCHANGED vars
    BY <1>12 DEF vars, FreshInv, FreshCall, Covers
  <1>13. ASSUME NEW c \in Client, Act(c) PROVE FreshInv'
    BY <1>1, <1>2, <1>3, <1>4, <1>5, <1>6, <1>7, <1>8, <1>13, Groups
  <1> QED BY <1>9, <1>10, <1>11, <1>12, <1>13 DEF Next

(* At the start nothing has been done, and nothing is cached. *)
LEMMA FreshInit == Init => SettleInv /\ FreshInv
  <1> SUFFICES ASSUME Init PROVE SettleInv /\ FreshInv
    OBVIOUS
  <1>1. TypeOK
    BY InitTyped
  <1>2. mu = Nobody /\ cache = [left |-> 0, v |-> 0] /\ floor = 0 /\ drv \in Drivers
    BY Zenon DEF Init
  <1>3. mnt.ver = 0
    <2>1. PICK x, y \in BOOLEAN, z \in 0..2 :
             mnt = [ver |-> 0, jog |-> [a \in Axis |-> FALSE], pulse |-> 0, corr |-> x,
                    south |-> y, prec |-> z, site |-> "untold"]
      BY Zenon DEF Init
    <2> QED BY <2>1
  <1>4. PICK e \in Commander, t \in Open[drv] :
           call = [d \in Client |->
                     IF d = e THEN [Idle(MaxCalls[d]) EXCEPT !.on = TRUE, !.todo = t]
                     ELSE Idle(MaxCalls[d])]
    BY DEF Init
  <1>5. ASSUME NEW c \in Client
        PROVE  /\ call[c].todo = <<>> \/ call[c].todo = t
               /\ call[c].did = 0 /\ call[c].base = 0 /\ ~call[c].got
    <2> DEFINE i == Idle(MaxCalls[c])
    <2>1. i \in CallType /\ i.todo = <<>> /\ i.did = 0 /\ i.base = 0 /\ ~i.got
      BY ConstantTypes, IdleTyped
    <2>2. call[c] = i \/ call[c] = [i EXCEPT !.on = TRUE, !.todo = t]
      BY <1>4, Zenon
    <2> HIDE DEF i
    <2> QED BY <2>1, <2>2 DEF CallType
  <1>6. SettleInv
    <2>1. Settles(t) /\ Settles(<<>>)
      BY <1>2, SettleAssumption DEF Scripts, Settles
    <2> QED BY <1>5, <2>1 DEF SettleInv
  <1>7. Covers(0)
    <2>1. \A h \in Client : mu # h
      BY <1>2, ConstantTypes
    <2>2. ~(cache.left > 0)
      BY <1>2
    <2> QED BY <2>1, <2>2 DEF Covers
  <1>8. \A c \in Client : FreshCall(c)
    <2> TAKE c \in Client
    <2>1. call[c].did = 0 /\ call[c].base = 0 /\ ~call[c].got
      BY <1>5
    <2>2. Covers(call[c].did)
      BY <1>7, <2>1
    <2> QED BY <1>2, <1>3, <2>1, <2>2 DEF FreshCall
  <1> QED BY <1>2, <1>3, <1>6, <1>7, <1>8 DEF FreshInv

(* A status that is given to a call is never older than a goto, sync, park,  *)
(* home, tracking or mode command that had returned when the call began: for *)
(* any number of goroutines, commanding and reading, any lifetime of the     *)
(* cache, and whatever writes fail.  SetHome, and the Halt and the moves by  *)
(* hand of the AM and OnStep drivers, do not count: they leave the cache.    *)
THEOREM StatusFresh == Spec => []FreshAfterCommand
  <1> DEFINE Inv == Core /\ SettleInv /\ FreshInv
  <1>1. Init => Inv
    BY CoreInit, FreshInit
  <1>2. Inv /\ [Next]_vars => Inv'
    <2> SUFFICES ASSUME Inv, [Next]_vars PROVE Inv'
      OBVIOUS
    <2>1. Core' /\ SettleInv'
      BY CoreStep, SettleStep DEF Core
    <2>2. FreshInv'
      BY FreshStep
    <2> QED BY <2>1, <2>2
  <1>3. Inv => FreshAfterCommand
    BY DEF FreshInv, FreshCall, FreshAfterCommand, Sound
  <1> HIDE DEF Inv
  <1> QED BY <1>1, <1>2, <1>3, PTL DEF Spec

=============================================================================
