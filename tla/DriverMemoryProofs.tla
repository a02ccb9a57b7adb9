------------------------- MODULE DriverMemoryProofs -------------------------
(***************************************************************************)
(* What a driver remembers of its mount: the axes that are moved by hand,  *)
(* the guide pulse, the hemisphere, and the speed correction that a move   *)
(* turns off for a while.  One goroutine commands, any number read.        *)
(***************************************************************************)
EXTENDS DriverProofs

(***************************************************************************)
(* The scripts under way keep the order of commands and of what records    *)
(* them.                                                                   *)
(***************************************************************************)

(* A rest of a script keeps the order. *)
LEMMA RestFollows ==
  ASSUME NEW t \in Seq(StepType), NEW u, NEW n \in Nat, Rest(u, t, n)
  PROVE  (Follows(t) => Follows(u)) /\ (Watched(t) => Watched(u))
  <1>1. /\ Len(t) \in Nat /\ Len(u) = Len(t) - n /\ n <= Len(t) /\ Len(u) \in Nat
        /\ \A i \in 1..Len(u) : u[i] = t[i + n] /\ i + n \in 1..Len(t)
    BY DEF Rest
  <1>2. ASSUME NEW i \in 1..Len(u), i < Len(u)
        PROVE  u[i] = t[i + n] /\ u[i + 1] = t[(i + n) + 1] /\ i + n < Len(t) /\ i + n \in 1..Len(t)
    <2>1. i + 1 \in 1..Len(u) /\ (i + 1) + n = (i + n) + 1
      BY <1>1, <1>2
    <2> QED BY <1>1, <1>2, <2>1
  <1>3. ASSUME Follows(t) PROVE Follows(u)
    <2>1. ASSUME NEW i \in 1..Len(u), owes(u[i]) PROVE i < Len(u) /\ pays(u[i], u[i + 1])
      <3>1. u[i] = t[i + n] /\ i + n \in 1..Len(t)
        BY <1>1
      <3>2. i + n < Len(t) /\ pays(t[i + n], t[(i + n) + 1])
        BY <1>3, <2>1, <3>1 DEF Follows
      <3>3. i < Len(u)
        BY <1>1, <3>2
      <3> QED BY <1>2, <3>2, <3>3
    <2>2. ASSUME NEW i \in 2..Len(u), guarded(u[i]) PROVE backs(u[i - 1], u[i])
      <3> DEFINE k == i - 1
      <3>1. k \in 1..Len(u) /\ k < Len(u) /\ i = k + 1
        BY <1>1
      <3> HIDE DEF k
      <3>2. u[k] = t[k + n] /\ u[k + 1] = t[(k + n) + 1] /\ k + n < Len(t) /\ k + n \in 1..Len(t)
        BY <1>2, <3>1
      <3>3. (k + n) + 1 \in 2..Len(t) /\ ((k + n) + 1) - 1 = k + n
        BY <1>1, <3>1, <3>2
      <3>4. backs(t[k + n], t[(k + n) + 1])
        BY <1>3, <2>2, <3>1, <3>2, <3>3 DEF Follows
      <3>5. backs(u[k], u[k + 1])
        BY <3>2, <3>4
      <3> QED BY <3>1, <3>5 DEF k
    <2>3. ASSUME NEW i \in 1..Len(u), NEW j \in 1..Len(u), skips(u[i]), j = i + u[i].skip + 1
          PROVE  ~guarded(u[j])
      <3>1. u[i] = t[i + n] /\ i + n \in 1..Len(t) /\ u[j] = t[j + n] /\ j + n \in 1..Len(t)
        BY <1>1
      <3>2. t[i + n].skip \in Nat
        <4>1. t[i + n] \in StepType
          BY <3>1, ElementOfSeq
        <4> QED BY <4>1 DEF StepType
      <3>3. j + n = (i + n) + t[i + n].skip + 1
        <4> DEFINE h == t[i + n].skip
        <4>1. j = i + h + 1 /\ h \in Nat
          BY <2>3, <3>1, <3>2
        <4> HIDE DEF h
        <4>2. j + n = (i + n) + h + 1
          BY ONLY <4>1, i \in Nat, n \in Nat
        <4> QED BY <4>2 DEF h
      <3> QED BY <1>3, <2>3, <3>1, <3>3 DEF Follows
    <2>4. ASSUME NEW i \in 1..Len(u), NEW j \in 1..Len(u), u[i].op = "restore", i < j
          PROVE  u[j].arg # "user" /\ u[j].does # "corrOff"
      <3>1. u[i] = t[i + n] /\ i + n \in 1..Len(t) /\ u[j] = t[j + n] /\ j + n \in 1..Len(t) /\ i + n < j + n
        BY <1>1, <2>4
      <3> QED BY <1>3, <2>4, <3>1 DEF Follows
    <2>5. ASSUME NEW i \in 1..Len(u), u[i].does = "corrOn" PROVE u[i].arg = "user"
      BY <1>1, <1>3, <2>5 DEF Follows
    <2> QED BY <2>1, <2>2, <2>3, <2>4, <2>5 DEF Follows
  <1>4. ASSUME Watched(t), NEW i \in 1..Len(u), u[i].does \in {"jogP", "jogS"}
        PROVE  /\ u[i].op = "blind" /\ u[i].yes = "go" /\ i < Len(u) /\ u[i + 1].op = "setMoving"
               /\ u[i + 1].arg = IF u[i].does = "jogP" THEN "P" ELSE "S"
    <2>1. u[i] = t[i + n] /\ i + n \in 1..Len(t)
      BY <1>1
    <2>2. /\ t[i + n].op = "blind" /\ t[i + n].yes = "go" /\ i + n < Len(t)
          /\ t[(i + n) + 1].op = "setMoving"
          /\ t[(i + n) + 1].arg = IF t[i + n].does = "jogP" THEN "P" ELSE "S"
      BY <1>4, <2>1 DEF Watched
    <2>3. i < Len(u)
      BY <1>1, <2>2
    <2> QED BY <1>2, <2>1, <2>2, <2>3
  <1>5. Watched(t) => Watched(u)
    BY <1>4 DEF Watched
  <1> QED BY <1>3, <1>5

(* Nothing is left, and nothing is out of order. *)
LEMMA EmptyFollows == Follows(<<>>) /\ Watched(<<>>)
  BY DEF Follows, Watched

(* A step of a script leaves the order of the rest alone. *)
LEMMA GoesFollows ==
  ASSUME NEW t \in Seq(StepType), t # <<>>, NEW u, NEW way, Goes(u, t, way)
  PROVE  (Follows(t) => Follows(u)) /\ (Watched(t) => Watched(u))
  <1>1. u = <<>> \/ \E n \in Nat : Rest(u, t, n)
    <2>1. t[1] \in StepType
      BY First
    <2>2. t[1].skip + 1 \in Nat
      BY <2>1 DEF StepType
    <2> QED BY <2>2 DEF Goes
  <1> QED BY <1>1, RestFollows, EmptyFollows

(* A step that another one makes right is reached from that one only, and  *)
(* only straight on.                                                       *)
LEMMA Reached ==
  ASSUME NEW t \in Seq(StepType), t # <<>>, Follows(t), NEW u \in Seq(StepType), NEW how,
         Goes(u, t, Way(t[1], how)), u # <<>>, guarded(u[1])
  PROVE  Way(t[1], how) = "go" /\ Len(t) >= 2 /\ u[1] = t[2] /\ backs(t[1], u[1])
  <1>1. Len(t) \in Nat /\ Len(t) >= 1 /\ t[1] \in StepType /\ t[1].skip \in Nat
    BY First DEF StepType
  <1>2. Way(t[1], how) # "skip"
    <2> SUFFICES ASSUME Way(t[1], how) = "skip" PROVE FALSE
      OBVIOUS
    <2>1. Rest(u, t, t[1].skip + 1) /\ skips(t[1])
      BY DEF Goes, Way, skips
    <2>2. Len(u) = Len(t) - (t[1].skip + 1) /\ \A i \in 1..(Len(t) - (t[1].skip + 1)) : u[i] = t[i + (t[1].skip + 1)]
      BY <2>1 DEF Rest
    <2>3. CASE Len(t) - (t[1].skip + 1) >= 1
      <3> DEFINE j == 1 + t[1].skip + 1
      <3>1. u[1] = t[j] /\ j \in 1..Len(t) /\ 1 \in 1..Len(t)
        <4>1. 1 \in 1..(Len(t) - (t[1].skip + 1)) /\ 1 + (t[1].skip + 1) = j
          BY <1>1, <2>3
        <4>2. u[1] = t[1 + (t[1].skip + 1)]
          BY <2>2, <4>1
        <4>3. j \in 1..Len(t) /\ 1 \in 1..Len(t)
          BY <1>1, <2>3
        <4> QED BY <4>1, <4>2, <4>3
      <3>2. ~guarded(t[j])
        BY <2>1, <3>1 DEF Follows
      <3> QED BY <3>1, <3>2
    <2>4. CASE ~(Len(t) - (t[1].skip + 1) >= 1)
      <3>1. Len(u) = 0
        BY <1>1, <2>1, <2>4 DEF Rest
      <3> QED BY <3>1
    <2> QED BY <2>3, <2>4
  <1>3. Way(t[1], how) = "go"
    BY <1>2 DEF Goes
  <1>4. Len(u) = Len(t) - 1 /\ \A i \in 1..(Len(t) - 1) : u[i] = t[i + 1]
    BY <1>3 DEF Goes, Rest
  <1>5. Len(t) >= 2 /\ u[1] = t[2]
    <2>1. Len(u) >= 1
      OBVIOUS
    <2> QED BY <1>1, <1>4, <2>1
  <1>6. backs(t[1], t[2])
    <2>1. 2 \in 2..Len(t)
      BY <1>1, <1>5
    <2>2. backs(t[2 - 1], t[2])
      BY <1>5, <2>1 DEF Follows
    <2> QED BY <2>2
  <1> QED BY <1>3, <1>5, <1>6

(* What a command owes is the next step. *)
LEMMA Owed ==
  ASSUME NEW t \in Seq(StepType), t # <<>>, Follows(t), owes(t[1]), NEW u,
         Goes(u, t, Way(t[1], "yes"))
  PROVE  /\ u # <<>> /\ pays(t[1], u[1]) /\ Way(t[1], "yes") = "go"
         /\ \A i \in 1..Len(u) : u[i] = t[i + 1] /\ i + 1 \in 1..Len(t)
  <1>1. Len(t) \in Nat /\ 1 \in 1..Len(t)
    BY First
  <1>2. 1 < Len(t) /\ pays(t[1], t[1 + 1])
    BY <1>1 DEF Follows
  <1>3. Way(t[1], "yes") = "go"
    BY <1>2 DEF pays, Way
  <1>4. Len(u) = Len(t) - 1 /\ \A i \in 1..(Len(t) - 1) : u[i] = t[i + 1]
    BY <1>3 DEF Goes, Rest
  <1>5. u[1] = t[1 + 1] /\ Len(u) >= 1
    BY <1>1, <1>2, <1>4
  <1>6. u # <<>>
    BY <1>5
  <1> QED BY <1>1, <1>2, <1>3, <1>4, <1>5, <1>6

(* The queries of status() owe nothing and record nothing. *)
LEMMA FetchFollows ==
  ASSUME NEW d \in Drivers, NEW t \in Seq(StepType), t # <<>>, t[1].op = "status"
  PROVE  /\ Follows(t) => Follows(Fetch[d] \o Tail(t))
         /\ Watched(t) => Watched(Fetch[d] \o Tail(t))
  <1> DEFINE f == Fetch[d]
             r == Tail(t)
             g == f \o r
             m == Len(f)
  <1>1. f \in Seq(StepType) /\ Fetches(f) /\ r \in Seq(StepType) /\ Rest(r, t, 1)
    BY ScriptTypes, FetchAssumption, First
  <1>2. Len(t) \in Nat /\ Len(r) = Len(t) - 1 /\ \A i \in 1..(Len(t) - 1) : r[i] = t[i + 1]
    BY <1>1 DEF Rest
  <1> HIDE DEF f, r
  <1>3. /\ Len(g) = m + Len(r) /\ m \in Nat /\ Len(r) \in Nat
        /\ \A i \in 1..(m + Len(r)) : g[i] = IF i <= m THEN f[i] ELSE r[i - m]
    BY <1>1, ConcatProperties
  <1> HIDE DEF g, m
  <1>4. ASSUME NEW i \in 1..Len(g), i <= m
        PROVE  /\ g[i].does = "nothing" /\ g[i].arg = "-" /\ ~skips(g[i])
               /\ g[i].op \in Wire \cup {"check", "store"}
    <2>1. i \in 1..m /\ g[i] = f[i] /\ (i \in 1..(m - 1) \/ i = m)
      BY <1>3, <1>4
    <2> QED BY <1>1, <2>1 DEF Fetches, m
  <1>5. ASSUME NEW i \in 1..Len(g), ~(i <= m)
        PROVE  i - m \in 1..Len(r) /\ g[i] = r[i - m] /\ i = (i - m) + m
    BY <1>3, <1>5
  <1>6. ASSUME NEW i \in 1..Len(g), i <= m PROVE ~owes(g[i]) /\ ~guarded(g[i]) /\ g[i].op # "restore"
    BY <1>4, <1>6 DEF owes, guarded, brackets, Wire
  <1>7. ASSUME Follows(t) PROVE Follows(g)
    <2>0. Follows(r)
      BY <1>1, <1>7, RestFollows
    <2>1. ASSUME NEW i \in 1..Len(g), owes(g[i]) PROVE i < Len(g) /\ pays(g[i], g[i + 1])
      <3> DEFINE k == i - m
      <3>1. ~(i <= m)
        BY <1>6, <2>1
      <3>2. k \in 1..Len(r) /\ g[i] = r[k] /\ i = k + m
        BY <1>5, <3>1
      <3> HIDE DEF k
      <3>3. k < Len(r) /\ pays(r[k], r[k + 1])
        BY <2>0, <2>1, <3>2 DEF Follows
      <3>4. i + 1 \in 1..(m + Len(r)) /\ ~(i + 1 <= m) /\ (i + 1) - m = k + 1 /\ i < Len(g)
        <4> DEFINE l == Len(r)
        <4>1. l \in Nat /\ m \in Nat /\ Len(g) = m + l /\ k \in 1..l /\ k < l /\ i = k + m
          BY <1>3, <3>2, <3>3
        <4> HIDE DEF l
        <4>2. i + 1 \in 1..(m + l) /\ ~(i + 1 <= m) /\ (i + 1) - m = k + 1 /\ i < m + l
          BY ONLY <4>1
        <4> QED BY <4>1, <4>2 DEF l
      <3>5. g[i + 1] = r[k + 1]
        BY <1>3, <3>4
      <3> QED BY <3>2, <3>3, <3>4, <3>5
    <2>2. ASSUME NEW i \in 2..Len(g), guarded(g[i]) PROVE backs(g[i - 1], g[i])
      <3> DEFINE k == i - m
      <3>0. i \in 1..Len(g)
        BY <1>3
      <3>1. ~(i <= m)
        BY <1>6, <2>2, <3>0
      <3>2. k \in 1..Len(r) /\ g[i] = r[k] /\ i = k + m
        BY <1>5, <3>0, <3>1
      <3> HIDE DEF k
      <3>3. CASE k = 1
        <4>1. g[i] = t[2] /\ 2 \in 2..Len(t)
          BY <1>2, <3>2, <3>3
        <4>2. backs(t[2 - 1], t[2])
          BY <1>7, <2>2, <4>1 DEF Follows
        <4>3. FALSE
          BY <2>2, <4>1, <4>2 DEF backs, guarded
        <4> QED BY <4>3
      <3>4. CASE k # 1
        <4>1. k \in 2..Len(r)
          BY <3>2, <3>4
        <4>2. backs(r[k - 1], r[k])
          BY <2>0, <2>2, <3>2, <4>1 DEF Follows
        <4>3. i - 1 \in 1..(m + Len(r)) /\ ~(i - 1 <= m) /\ (i - 1) - m = k - 1
          BY <1>3, <3>2, <4>1
        <4>4. g[i - 1] = r[k - 1]
          BY <1>3, <4>3
        <4> QED BY <3>2, <4>2, <4>4
      <3> QED BY <3>3, <3>4
    <2>3. ASSUME NEW i \in 1..Len(g), NEW j \in 1..Len(g), skips(g[i]), j = i + g[i].skip + 1
          PROVE  ~guarded(g[j])
      <3> DEFINE k == i - m
                 h == j - m
      <3>1. ~(i <= m)
        BY <1>4, <2>3
      <3>2. k \in 1..Len(r) /\ g[i] = r[k] /\ i = k + m
        BY <1>5, <3>1
      <3>3. r[k].skip \in Nat
        <4>1. r[k] \in StepType
          BY <1>1, <3>2, ElementOfSeq
        <4> QED BY <4>1 DEF StepType
      <3>4. ~(j <= m)
        BY <1>3, <2>3, <3>1, <3>2, <3>3
      <3>5. h \in 1..Len(r) /\ g[j] = r[h] /\ j = h + m
        BY <1>5, <3>4
      <3> HIDE DEF k, h
      <3>6. h = k + r[k].skip + 1
        <4> DEFINE x == r[k].skip
        <4>1. h + m = (k + m) + x + 1 /\ x \in Nat
          BY <2>3, <3>2, <3>3, <3>5
        <4> HIDE DEF x
        <4>2. h \in Nat /\ k \in Nat /\ m \in Nat
          BY <1>3, <3>2, <3>5
        <4>3. h = k + x + 1
          BY <4>1, <4>2
        <4> QED BY <4>3 DEF x
      <3> QED BY <2>0, <2>3, <3>2, <3>5, <3>6 DEF Follows
    <2>4. ASSUME NEW i \in 1..Len(g), NEW j \in 1..Len(g), g[i].op = "restore", i < j
          PROVE  g[j].arg # "user" /\ g[j].does # "corrOff"
      <3> DEFINE k == i - m
                 h == j - m
      <3>1. ~(i <= m)
        BY <1>6, <2>4
      <3>2. k \in 1..Len(r) /\ g[i] = r[k] /\ i = k + m
        BY <1>5, <3>1
      <3>3. ~(j <= m)
        BY <1>3, <2>4, <3>1
      <3>4. h \in 1..Len(r) /\ g[j] = r[h] /\ j = h + m
        BY <1>5, <3>3
      <3> HIDE DEF k, h
      <3>5. k < h
        BY <1>3, <2>4, <3>2, <3>4
      <3> QED BY <2>0, <2>4, <3>2, <3>4, <3>5 DEF Follows
    <2>5. ASSUME NEW i \in 1..Len(g), g[i].does = "corrOn" PROVE g[i].arg = "user"
      <3>1. ~(i <= m)
        BY <1>4, <2>5
      <3>2. i - m \in 1..Len(r) /\ g[i] = r[i - m]
        BY <1>5, <3>1
      <3> QED BY <2>0, <2>5, <3>2 DEF Follows
    <2> QED BY <2>1, <2>2, <2>3, <2>4, <2>5 DEF Follows
  <1>8. ASSUME Watched(t), NEW i \in 1..Len(g), g[i].does \in {"jogP", "jogS"}
        PROVE  /\ g[i].op = "blind" /\ g[i].yes = "go" /\ i < Len(g) /\ g[i + 1].op = "setMoving"
               /\ g[i + 1].arg = IF g[i].does = "jogP" THEN "P" ELSE "S"
    <2> DEFINE k == i - m
    <2>0. Watched(r)
      BY <1>1, <1>8, RestFollows
    <2>1. ~(i <= m)
      BY <1>4, <1>8
    <2>2. k \in 1..Len(r) /\ g[i] = r[k] /\ i = k + m
      BY <1>5, <2>1
    <2> HIDE DEF k
    <2>3. /\ r[k].op = "blind" /\ r[k].yes = "go" /\ k < Len(r) /\ r[k + 1].op = "setMoving"
          /\ r[k + 1].arg = IF r[k].does = "jogP" THEN "P" ELSE "S"
      BY <1>8, <2>0, <2>2 DEF Watched
    <2>4. i + 1 \in 1..(m + Len(r)) /\ ~(i + 1 <= m) /\ (i + 1) - m = k + 1 /\ i < Len(g)
      <3>1. k < Len(r) /\ k \in Nat /\ k >= 1
        BY <1>3, <2>2, <2>3
      <3> QED BY <1>3, <2>2, <3>1
    <2>5. g[i + 1] = r[k + 1]
      BY <1>3, <2>4
    <2> QED BY <2>2, <2>3, <2>4, <2>5
  <1>9. Watched(t) => Watched(g)
    BY <1>8 DEF Watched
  <1> QED BY <1>7, <1>9 DEF f, g, r

(***************************************************************************)
(* The scripts under way: in order, except for the restore itself; those   *)
(* of a client that does not command only read; an idle call has none.     *)
(***************************************************************************)
Ordered(t) == Follows(t) \/ t = <<SpeedCorrectionOn>>

ScriptInv ==
    /\ \A c \in Client :
          /\ Ordered(call[c].todo) /\ (drv = "tenmicron" => Watched(call[c].todo))
          /\ ~call[c].on => call[c].todo = <<>> /\ ~call[c].fix
    /\ \A c \in Client \ Commander :
          ~call[c].fix /\ \A i \in 1..Len(call[c].todo) : Reads(call[c].todo[i])

(* The restore is one step, and nothing comes after it. *)
LEMMA RestoreAlone ==
  ASSUME NEW u \in Seq(StepType), NEW way, Goes(u, <<SpeedCorrectionOn>>, way)
  PROVE  u = <<>>
  <1> DEFINE t == <<SpeedCorrectionOn>>
  <1>1. Len(t) = 1 /\ t[1] = SpeedCorrectionOn /\ SpeedCorrectionOn.skip = 0
    BY RestoreTyped DEF SpeedCorrectionOn
  <1>2. Goes(u, t, way)
    OBVIOUS
  <1> HIDE DEF t
  <1>3. t[1].skip + 1 = 1
    BY <1>1
  <1>4. u = <<>> \/ Rest(u, t, 1)
    BY <1>2, <1>3 DEF Goes
  <1>5. CASE Rest(u, t, 1)
    <2>1. Len(u) = 0
      BY <1>1, <1>5 DEF Rest
    <2> QED BY <2>1
  <1> QED BY <1>4, <1>5

(* An idle call has nothing left to do. *)
LEMMA IdleStep ==
  ASSUME TypeOK, [Next]_vars, \A c \in Client : ~call[c].on => call[c].todo = <<>> /\ ~call[c].fix
  PROVE  \A c \in Client : ~call'[c].on => call'[c].todo = <<>> /\ ~call'[c].fix
  <1> DEFINE Goal == \A c \in Client : ~call'[c].on => call'[c].todo = <<>> /\ ~call'[c].fix
  <1>1. ASSUME NEW c \in Client, Others(c), call'[c].on \/ (call'[c].todo = <<>> /\ ~call'[c].fix) PROVE Goal
    BY <1>1 DEF Others
  <1>2. ASSUME NEW c \in Client, Start(c) PROVE Goal
    BY <1>1, <1>2, StartStep
  <1>3. ASSUME NEW c \in Client, NEW op \in Wire, write(c, op) PROVE Goal
    <2>1. /\ Others(c) /\ call[c].on
          /\ IF op = "blind" THEN Onward(c, "yes", call'[c]) ELSE Stays(call'[c], call[c]) /\ call'[c].sent
      BY <1>3, WriteStep
    <2>2. call'[c].on
      BY <2>1 DEF Onward, Stays
    <2> QED BY <1>1, <2>1, <2>2
  <1>4. ASSUME NEW c \in Client, writeFails(c) \/ timeout(c) \/ readByte(c) \/ readUntil(c) \/ readSlew(c) PROVE Goal
    <2>1. Others(c) /\ \E how \in {"yes", "no", "err"} : Onward(c, how, call'[c])
      BY <1>4, ErrorStep, ReadByteStep, ReadUntilStep, ReadSlewStep
    <2>2. call[c].on
      BY <1>4 DEF writeFails, timeout, readByte, readUntil, readSlew, starved, waits, ready
    <2>3. call'[c].on
      BY <2>1, <2>2 DEF Onward
    <2> QED BY <1>1, <2>1, <2>3
  <1>5. ASSUME NEW c \in Client, status(c) PROVE Goal
    <2>1. call[c].on
      BY <1>5 DEF status, ready
    <2>2. Others(c) /\ call'[c].on
      BY <1>5, <2>1, HitStep, MissStep DEF Onward
    <2> QED BY <1>1, <2>2
  <1>6. ASSUME NEW c \in Client, store(c) \/ invalidate(c) \/ Remembers(c) \/ check(c) \/ defer(c) PROVE Goal
    <2>1. Others(c) /\ \E how \in {"yes", "no"} : Onward(c, how, call'[c])
      BY <1>6, StoreStep, DoneStep, RememberStep, CheckStep, DeferStep DEF invalidate
    <2>2. call[c].on
      BY <1>6, RememberStep DEF store, invalidate, check, defer, ready
    <2>3. call'[c].on
      BY <2>1, <2>2 DEF Onward
    <2> QED BY <1>1, <2>1, <2>3
  <1>7. ASSUME NEW c \in Client, askMoving(c) PROVE Goal
    <2>1. call[c].on
      BY <1>7 DEF askMoving, ready
    <2>2. Others(c) /\ call'[c].on = call[c].on
      BY <1>7, AskMovingStep DEF Onward
    <2> QED BY <1>1, <2>1, <2>2
  <1>8. ASSUME NEW c \in Client, return(c) PROVE Goal
    BY <1>1, <1>8, ReturnStep
  <1>9. ASSUME NEW c \in Client, Act(c) PROVE Goal
    BY <1>3, <1>4, <1>5, <1>6, <1>7, <1>8, <1>9, Groups
  <1>10. CASE arrive \/ tick \/ UNCHANGED vars
    BY <1>10 DEF arrive, tick, vars
  <1> QED BY <1>2, <1>9, <1>10 DEF Next

(* A rest of a script that only reads only reads, and so does status(). *)
LEMMA ReadsOn ==
  ASSUME NEW t \in Seq(StepType), t # <<>>, \A i \in 1..Len(t) : Reads(t[i]), NEW u,
         \/ \E way : Goes(u, t, way)
         \/ \E d \in Drivers : u = Fetch[d] \o Tail(t)
  PROVE  \A i \in 1..Len(u) : Reads(u[i])
  <1>1. ASSUME NEW way, Goes(u, t, way) PROVE \A i \in 1..Len(u) : Reads(u[i])
    <2>1. u = <<>> \/ \E n \in Nat : Rest(u, t, n)
      <3>1. t[1] \in StepType
        BY First
      <3>2. t[1].skip + 1 \in Nat
        BY <3>1 DEF StepType
      <3> QED BY <1>1, <3>2 DEF Goes
    <2>2. ASSUME NEW n \in Nat, Rest(u, t, n) PROVE \A i \in 1..Len(u) : Reads(u[i])
      <3>1. Len(t) \in Nat /\ Len(u) = Len(t) - n /\ \A i \in 1..(Len(t) - n) : u[i] = t[i + n]
        BY <2>2 DEF Rest
      <3>2. \A i \in 1..Len(u) : u[i] = t[i + n] /\ i + n \in 1..Len(t)
        BY <3>1
      <3> QED BY <3>2
    <2> QED BY <2>1, <2>2
  <1>2. ASSUME NEW d \in Drivers, u = Fetch[d] \o Tail(t) PROVE \A i \in 1..Len(u) : Reads(u[i])
    <2> DEFINE f == Fetch[d]
               r == Tail(t)
    <2>1. f \in Seq(StepType) /\ Fetches(f) /\ r \in Seq(StepType) /\ Rest(r, t, 1)
      BY ScriptTypes, FetchAssumption, First
    <2>2. u = f \o r
      BY <1>2
    <2> HIDE DEF f, r
    <2>3. /\ Len(u) = Len(f) + Len(r) /\ Len(f) \in Nat /\ Len(r) \in Nat
          /\ \A i \in 1..(Len(f) + Len(r)) : u[i] = IF i <= Len(f) THEN f[i] ELSE r[i - Len(f)]
      BY <2>1, <2>2, ConcatProperties
    <2>4. ASSUME NEW i \in 1..Len(f) PROVE Reads(f[i])
      <3>1. i \in 1..(Len(f) - 1) \/ i = Len(f)
        BY <2>3
      <3> QED BY <2>1, <3>1 DEF Fetches, Reads
    <2>5. ASSUME NEW i \in 1..Len(r) PROVE Reads(r[i])
      <3>1. r[i] = t[i + 1] /\ i + 1 \in 1..Len(t)
        BY <2>1 DEF Rest
      <3> QED BY <3>1
    <2> TAKE i \in 1..Len(u)
    <2>6. CASE i <= Len(f)
      <3>1. i \in 1..Len(f) /\ u[i] = f[i]
        BY <2>3, <2>6
      <3> QED BY <2>4, <3>1
    <2>7. CASE ~(i <= Len(f))
      <3>1. i - Len(f) \in 1..Len(r) /\ u[i] = r[i - Len(f)]
        BY <2>3, <2>7
      <3> QED BY <2>5, <3>1
    <2> QED BY <2>6, <2>7
  <1> QED BY <1>1, <1>2

(* Every step keeps the scripts in order. *)
LEMMA ScriptStep == TypeOK /\ ScriptInv /\ [Next]_vars => ScriptInv'
  <1> SUFFICES ASSUME TypeOK, ScriptInv, [Next]_vars PROVE ScriptInv'
    OBVIOUS
  <1>0. TypeOK' /\ drv' = drv /\ drv \in Drivers
    BY TypeStep, Scripted DEF TypeOK
  <1>1. \A c \in Client : ~call'[c].on => call'[c].todo = <<>> /\ ~call'[c].fix
    BY IdleStep DEF ScriptInv
  <1>2. ASSUME NEW c \in Client
        PROVE  /\ Ordered(call'[c].todo) /\ (drv = "tenmicron" => Watched(call'[c].todo))
               /\ c \notin Commander => \A i \in 1..Len(call'[c].todo) : Reads(call'[c].todo[i])
    <2> DEFINE t == call[c].todo
               u == call'[c].todo
               fix == call[c].fix
    <2>1. /\ t \in Seq(StepType) /\ u \in Seq(StepType) /\ Ordered(t)
          /\ drv = "tenmicron" => Watched(t)
          /\ c \notin Commander => ~fix /\ \A i \in 1..Len(t) : Reads(t[i])
      BY <1>0 DEF TypeOK, CallType, ScriptInv
    <2>2. \/ u = t \/ u = <<>>
          \/ u \in (IF c \in Commander THEN Scripts(drv) ELSE Polls[drv])
          \/ u = <<SpeedCorrectionOn>> /\ fix
          \/ t # <<>> /\ \E way : Goes(u, t, way)
          \/ t # <<>> /\ t[1].op = "status" /\ u = Fetch[drv] \o Tail(t)
      <3>1. Becomes(c, u, t)
        BY Scripted
      <3> QED BY <3>1 DEF Becomes
    <2> SUFFICES /\ Ordered(u) /\ (drv = "tenmicron" => Watched(u))
                 /\ c \notin Commander => \A i \in 1..Len(u) : Reads(u[i])
      OBVIOUS
    <2> HIDE DEF u, t, fix
    <2>3. CASE u = t
      BY <2>1, <2>3
    <2>4. CASE u = <<>>
      BY <2>4, EmptyFollows DEF Ordered
    <2>5. CASE u \in (IF c \in Commander THEN Scripts(drv) ELSE Polls[drv])
      <3>1. u \in Scripts(drv)
        BY <2>5 DEF Scripts
      <3> QED BY <1>0, <2>5, <3>1, FollowAssumption, ReadAssumption DEF Ordered
    <2>6. CASE u = <<SpeedCorrectionOn>> /\ fix
      <3>1. c \in Commander
        BY <2>1, <2>6
      <3>2. Watched(u)
        <4>1. SpeedCorrectionOn.does = "corrOn"
          BY DEF SpeedCorrectionOn
        <4>2. \A i \in 1..Len(u) : u[i].does = "corrOn"
          BY <2>6, <4>1, RestoreTyped
        <4> QED BY <4>2 DEF Watched
      <3> QED BY <2>6, <3>1, <3>2 DEF Ordered
    <2>7. ASSUME t # <<>>, NEW way, Goes(u, t, way)
          PROVE  /\ Ordered(u) /\ (drv = "tenmicron" => Watched(u))
                 /\ c \notin Commander => \A i \in 1..Len(u) : Reads(u[i])
      <3>1. Ordered(u)
        <4>1. CASE Follows(t)
          BY <2>1, <2>7, <4>1, GoesFollows DEF Ordered
        <4>2. CASE t = <<SpeedCorrectionOn>>
          BY <2>1, <2>7, <4>2, RestoreAlone, EmptyFollows DEF Ordered
        <4> QED BY <2>1, <4>1, <4>2 DEF Ordered
      <3> QED BY <2>1, <2>7, <3>1, GoesFollows, ReadsOn
    <2>8. CASE t # <<>> /\ t[1].op = "status" /\ u = Fetch[drv] \o Tail(t)
      <3>1. Follows(t)
        <4>1. SpeedCorrectionOn.op = "ack"
          BY DEF SpeedCorrectionOn
        <4> QED BY <2>1, <2>8, <4>1, RestoreTyped DEF Ordered
      <3> QED BY <1>0, <2>1, <2>8, <3>1, FetchFollows, ReadsOn DEF Ordered
    <2> QED BY <2>2, <2>3, <2>4, <2>5, <2>6, <2>7, <2>8
  <1>3. ASSUME NEW c \in Client \ Commander PROVE ~call'[c].fix
    <2>1. call'[c].fix => Defers(c)
      BY Scripted
    <2>2. ~call[c].fix /\ \A i \in 1..Len(call[c].todo) : Reads(call[c].todo[i])
      BY DEF ScriptInv
    <2>3. call[c].todo # <<>> => call[c].todo[1].op # "restore"
      <3> SUFFICES ASSUME call[c].todo # <<>> PROVE call[c].todo[1].op # "restore"
        OBVIOUS
      <3>1. call[c].todo \in Seq(StepType)
        BY DEF TypeOK, CallType
      <3>2. 1 \in 1..Len(call[c].todo)
        BY <3>1, First
      <3> QED BY <2>2, <3>2 DEF Reads, Wire
    <2> QED BY <2>1, <2>2, <2>3 DEF Defers
  <1> QED BY <1>0, <1>1, <1>2, <1>3 DEF ScriptInv

(* Until the driver is open only the client that opens it does anything. *)
OpenInv == phase # "open" => \A c \in Client \ Commander : ~call[c].on

(* At the start one client opens the driver, the others are idle. *)
LEMMA ScriptInit ==
  ASSUME Init
  PROVE  /\ ScriptInv /\ OpenInv
         /\ \E e \in Commander : call[e].todo \in Open[drv] /\ ~call[e].sent /\ ~call[e].fix
         /\ \A c \in Client : call[c].todo \in Open[drv] \/ call[c].todo = <<>>
  <1>1. drv \in Drivers /\ Commander \subseteq Client
    BY ConstantTypes DEF Init
  <1>2. PICK e \in Commander, t \in Open[drv] :
           call = [d \in Client |->
                     IF d = e THEN [Idle(MaxCalls[d]) EXCEPT !.on = TRUE, !.todo = t]
                     ELSE Idle(MaxCalls[d])]
    BY DEF Init
  <1>3. t \in Scripts(drv) /\ t \in Seq(StepType)
    BY <1>1, ScriptTypes DEF Scripts
  <1>4. ASSUME NEW c \in Client
        PROVE  /\ ~call[c].fix /\ ~call[c].sent
               /\ c = e => call[c].on /\ call[c].todo = t
               /\ c # e => ~call[c].on /\ call[c].todo = <<>>
    <2> DEFINE i == Idle(MaxCalls[c])
    <2>1. i \in CallType /\ ~i.on /\ i.todo = <<>> /\ ~i.fix /\ ~i.sent
      BY ConstantTypes, IdleTyped
    <2>2. (c # e /\ call[c] = i) \/ (c = e /\ call[c] = [i EXCEPT !.on = TRUE, !.todo = t])
      BY <1>2, Zenon
    <2> HIDE DEF i
    <2> QED BY <1>3, <2>1, <2>2 DEF CallType
  <1>5. Follows(t) /\ (drv = "tenmicron" => Watched(t))
    BY <1>1, <1>3, FollowAssumption
  <1>6. ScriptInv
    <2>1. \A c \in Client : Ordered(call[c].todo) /\ (drv = "tenmicron" => Watched(call[c].todo))
      BY <1>4, <1>5, EmptyFollows DEF Ordered
    <2>2. \A c \in Client \ Commander : \A i \in 1..Len(call[c].todo) : Reads(call[c].todo[i])
      BY <1>4
    <2> QED BY <1>4, <2>1, <2>2 DEF ScriptInv
  <1>7. OpenInv
    BY <1>4 DEF OpenInv
  <1> QED BY <1>1, <1>4, <1>6, <1>7

(***************************************************************************)
(* The client that commands, and the others.                               *)
(***************************************************************************)

(* A step that is not the commander's leaves what it has done alone. *)
Apart(e) ==
    /\ call'[e] = call[e] /\ mem' = mem /\ mnt' = mnt /\ user' = user
    /\ call[e].sent /\ ~loose' => line' = line
    /\ ~loose' => ~loose

(* Clients that only read leave the commander's work alone. *)
LEMMA OthersApart ==
  ASSUME Core, ScriptInv, NEW e \in Client, NEW c \in Client \ Commander, c # e, Start(c) \/ Act(c)
  PROVE  Apart(e)
  <1>0. /\ TypeOK /\ LockInv /\ call[c].todo \in Seq(StepType)
        /\ ~call[c].fix /\ \A i \in 1..Len(call[c].todo) : Reads(call[c].todo[i])
    <2>1. TypeOK /\ LockInv /\ c \in Client
      BY DEF Core
    <2>3. call[c].todo \in Seq(StepType)
      BY <2>1 DEF TypeOK, CallType
    <2>4. ~call[c].fix /\ \A i \in 1..Len(call[c].todo) : Reads(call[c].todo[i])
      BY DEF ScriptInv
    <2> QED BY <2>1, <2>3, <2>4
  <1>1. call[c].todo # <<>> => Reads(step(c)) /\ step(c) \in StepType
    <2> SUFFICES ASSUME call[c].todo # <<>> PROVE Reads(step(c)) /\ step(c) \in StepType
      OBVIOUS
    <2>1. step(c) = call[c].todo[1] /\ 1 \in 1..Len(call[c].todo) /\ step(c) \in StepType
      <3>1. 1 \in 1..Len(call[c].todo) /\ call[c].todo[1] \in StepType /\ Head(call[c].todo) = call[c].todo[1]
        BY <1>0, First
      <3> QED BY <3>1 DEF step
    <2> QED BY <1>0, <2>1
  <1>2. call[e].sent => conn = e /\ ~call[c].sent
    BY <1>0 DEF LockInv
  <1>3. ASSUME NEW op \in Wire, write(c, op) PROVE Apart(e)
    <2>1. /\ call[c].todo # <<>> /\ conn = Nobody /\ Others(c)
      BY <1>0, <1>3, WriteStep
    <2>2. PICK a \in Answer(step(c)), delay \in BOOLEAN : Taken(c, a, delay)
      BY <1>0, <1>3, WriteStep
    <2>3. Obey(step(c)) = mnt
      BY <1>1, <2>1 DEF Reads, Obey
    <2>4. mnt' = mnt /\ user' = user
      BY <1>1, <2>1, <2>2, <2>3 DEF Taken, Reads, restores
    <2>5. call'[e] = call[e] /\ mem' = mem /\ ~call[e].sent
      BY <1>2, <1>3, <2>1, ConstantTypes DEF Others, write
    <2>6. ~loose' => ~loose
      BY <2>2, Zenon DEF Taken
    <2> QED BY <2>4, <2>5, <2>6 DEF Apart
  <1>4. ASSUME writeFails(c) PROVE Apart(e)
    <2>1. Others(c)
      BY <1>0, <1>4, ErrorStep
    <2>2. call[c].todo # <<>>
      BY <1>4 DEF writeFails, ready
    <2>3. user' = user
      BY <1>1, <1>4, <2>2 DEF writeFails, restores, Reads
    <2>4. ~loose' => ~loose
      BY <1>4, Zenon DEF writeFails
    <2> QED BY <1>4, <2>1, <2>3, <2>4 DEF writeFails, Others, Apart
  <1>5. ASSUME readByte(c) \/ readUntil(c) \/ readSlew(c) \/ timeout(c) PROVE Apart(e)
    <2>1. Others(c)
      BY <1>0, <1>5, ReadByteStep, ReadUntilStep, ReadSlewStep, ErrorStep
    <2>2. ~call[e].sent
      BY <1>2, <1>5 DEF readByte, readUntil, readSlew, timeout, starved, waits
    <2> QED BY <1>5, <2>1, <2>2 DEF Others, Apart, readByte, readUntil, readSlew, timeout
  <1>6. ASSUME status(c) PROVE Apart(e)
    <2>1. Others(c)
      BY <1>0, <1>6, HitStep, MissStep
    <2> QED BY <1>6, <2>1 DEF status, Others, Apart
  <1>7. ASSUME store(c) \/ invalidate(c) \/ check(c) \/ askMoving(c) PROVE Apart(e)
    <2>1. Others(c)
      BY <1>0, <1>7, StoreStep, DoneStep, CheckStep, AskMovingStep DEF invalidate
    <2> QED BY <1>7, <2>1 DEF store, invalidate, check, askMoving, Others, Apart
  <1>8. ~Remembers(c) /\ ~defer(c)
    <2>1. ASSUME Remembers(c) PROVE FALSE
      BY <1>0, <1>1, <2>1, RememberStep DEF Reads, Wire
    <2>2. ASSUME defer(c) PROVE FALSE
      BY <1>1, <2>2 DEF defer, ready, Reads, Wire
    <2> QED BY <2>1, <2>2
  <1>9. ASSUME return(c) PROVE Apart(e)
    <2>1. Others(c)
      BY <1>0, <1>9, ReturnStep
    <2> QED BY <1>9, <2>1 DEF return, Others, Apart
  <1>10. ASSUME Start(c) PROVE Apart(e)
    <2>1. Others(c)
      BY <1>0, <1>10, StartStep
    <2> QED BY <1>10, <2>1 DEF Start, Others, Apart
  <1> QED BY <1>3, <1>4, <1>5, <1>6, <1>7, <1>8, <1>9, <1>10, Groups

(* The steps of a system with one commander: nobody's or another client's, *)
(* the passing of time, and the commander's own.                           *)
LEMMA OneCommands ==
  ASSUME Core, ScriptInv, NEW e \in Client, Commander = {e}, [Next]_vars
  PROVE  Apart(e) \/ tick \/ Start(e) \/ Act(e)
  <1>1. ASSUME NEW c \in Client, c # e, Start(c) \/ Act(c) PROVE Apart(e)
    BY <1>1, OthersApart
  <1>2. CASE arrive
    <2>1. ~loose' => FALSE
      BY <1>2 DEF Core, WireInv, arrive
    <2> QED BY <1>2, <2>1 DEF arrive, Apart
  <1>3. CASE UNCHANGED vars
    BY <1>3 DEF vars, Apart
  <1> QED BY <1>1, <1>2, <1>3 DEF Next

(***************************************************************************)
(* The commander's own steps: a command is written, something is           *)
(* remembered, or the call goes on and the mount and the memory stay.      *)
(***************************************************************************)

(* The call of e goes on after its first step. *)
Moved(e, how) ==
    /\ call[e].todo # <<>> /\ Goes(call'[e].todo, call[e].todo, Way(call[e].todo[1], how))
    /\ ~call'[e].sent
    /\ call'[e].failed <=> call[e].failed \/ Way(call[e].todo[1], how) = "stop"

(* An answer was read: what it said is how the call goes on. *)
Answered(e) ==
    /\ call[e].sent /\ call'[e].fix = call[e].fix /\ phase' = phase
    /\ \E how \in {"yes", "no"} :
          /\ Moved(e, how)
          /\ call[e].todo[1].op \in {"ack", "byte"} => (how = "yes" <=> line[1].c = "y")
          /\ call[e].todo[1].op = "get" /\ ~loose =>
                (how = "yes" <=> Len(line) = 2 /\ line[1].c = "y")

(* The transport failed: as long as the stream can be trusted, a write. *)
Broke(e) ==
    /\ Moved(e, "err") /\ call'[e].fix = call[e].fix /\ phase' = phase
    /\ call[e].todo # <<>> /\ call[e].todo[1].op \in Wire
    /\ ~loose' => /\ ~call[e].sent
                  /\ user' = IF restores(call[e].todo[1]) THEN mnt.corr ELSE user

(* A step of the driver alone. *)
Local(e) ==
    /\ ~call[e].sent /\ phase' = phase
    /\ call[e].todo # <<>>
    /\ call[e].todo[1].op \in {"check", "status", "store", "invalidate", "askMoving", "restore"}
    /\ \E how \in {"yes", "no"} : Moved(e, how)
    /\ IF call[e].todo[1].op = "restore" THEN call'[e].fix ELSE call'[e].fix = call[e].fix

(* A move in progress answers the question, or status() sends its queries. *)
Turned(e) ==
    /\ call[e].todo # <<>> /\ ~call[e].sent /\ ~call'[e].sent /\ phase' = phase
    /\ call'[e].fix = call[e].fix /\ (call[e].failed => call'[e].failed)
    /\ \/ call[e].todo[1].op = "askMoving" /\ call'[e].todo = <<>>
       \/ call[e].todo[1].op = "status" /\ call'[e].todo = Fetch[drv] \o Tail(call[e].todo)

(* The call begins or ends. *)
Began(e) ==
    /\ ~call[e].on /\ phase = "open" /\ phase' = phase
    /\ call'[e].todo \in Scripts(drv) /\ ~call'[e].sent /\ ~call'[e].fix

Ended(e) ==
    /\ call[e].todo = <<>> /\ ~call'[e].sent /\ ~call'[e].fix
    /\ \/ /\ call[e].fix /\ call'[e].todo = <<SpeedCorrectionOn>> /\ phase' = phase
          /\ call'[e].failed = call[e].failed
       \/ /\ ~call[e].fix /\ call'[e].todo = <<>>
          /\ phase' = (IF phase # "opening" THEN phase ELSE IF call[e].failed THEN "closed" ELSE "open")

Passes(e) ==
    /\ mnt' = mnt /\ mem' = mem /\ (user' = user \/ Broke(e)) /\ (~loose' => ~loose)
    /\ Answered(e) \/ Broke(e) \/ Local(e) \/ Turned(e) \/ Began(e) \/ Ended(e)

(* The first step, and the call after it. *)
LEMMA OnwardMoved ==
  ASSUME TypeOK, NEW e \in Client, call[e].todo # <<>>, NEW how, Onward(e, how, call'[e])
  PROVE  Moved(e, how) /\ step(e) = call[e].todo[1] /\ call[e].todo[1] \in StepType
  <1>1. step(e) = call[e].todo[1] /\ step(e) \in StepType
    BY After DEF TypeOK
  <1> QED BY <1>1 DEF Onward, Moved

(* The commander's steps by what they change: the wire, the memory, neither. *)
LEMMA Own ==
  ASSUME Core, NEW e \in Client, Start(e) \/ Act(e)
  PROVE  (\E op \in Wire : write(e, op)) \/ Remembers(e) \/ Passes(e)
  <1>0. TypeOK /\ LockInv /\ line \in Seq(Char)
    BY DEF Core, TypeOK
  <1>1. ASSUME readByte(e) PROVE Passes(e)
    <2>1. /\ call[e].sent /\ call[e].todo # <<>> /\ step(e).op \in {"ack", "byte"} /\ phase' = phase
          /\ mnt' = mnt /\ mem' = mem /\ user' = user /\ loose' = loose
      BY <1>1 DEF readByte, waits
    <2> DEFINE how == IF line[1].c = "y" THEN "yes" ELSE "no"
    <2>2. Onward(e, how, call'[e]) /\ call'[e].fix = call[e].fix
      <3>1. line # <<>> /\ Head(line) = line[1]
        BY <1>0, <1>1 DEF readByte
      <3> QED BY <1>0, <1>1, <3>1, ReadByteStep DEF Carries
    <2>3. how \in {"yes", "no"} /\ (how = "yes" <=> line[1].c = "y")
      OBVIOUS
    <2> HIDE DEF how
    <2>4. Moved(e, how) /\ step(e) = call[e].todo[1]
      BY <1>0, <2>1, <2>2, OnwardMoved
    <2>5. Answered(e)
      BY <2>1, <2>2, <2>3, <2>4 DEF Answered
    <2> QED BY <2>1, <2>5 DEF Passes
  <1>2. ASSUME readUntil(e) PROVE Passes(e)
    <2>1. /\ call[e].sent /\ call[e].todo # <<>> /\ step(e).op = "get" /\ phase' = phase
          /\ mnt' = mnt /\ mem' = mem /\ user' = user /\ loose' = loose
      BY <1>2 DEF readUntil, waits
    <2>2. PICK k \in 1..Len(line) :
            /\ line[k].c = "#" /\ \A h \in 1..(k - 1) : line[h].c # "#"
            /\ Onward(e, IF k = 2 /\ line[1].c = "y" THEN "yes" ELSE "no", call'[e])
            /\ call'[e].fix = call[e].fix
      BY <1>0, <1>2, ReadUntilStep
    <2> DEFINE how == IF k = 2 /\ line[1].c = "y" THEN "yes" ELSE "no"
    <2>3. Moved(e, how) /\ step(e) = call[e].todo[1]
      BY <1>0, <2>1, <2>2, OnwardMoved
    <2>4. ~loose => k = Len(line)
      <3> SUFFICES ASSUME ~loose PROVE k = Len(line)
        OBVIOUS
      <3>1. Whole(call[e].todo[1], line)
        BY <2>1 DEF Core, WireInv
      <3>2. \A i \in 1..(Len(line) - 1) : line[i].c # "#"
        BY <2>1, <2>3, <3>1 DEF Whole
      <3>3. Len(line) \in Nat
        BY <1>0
      <3> QED BY <2>2, <3>2, <3>3
    <2>5. how \in {"yes", "no"} /\ (~loose => (how = "yes" <=> Len(line) = 2 /\ line[1].c = "y"))
      BY <2>4
    <2> HIDE DEF how
    <2>6. Answered(e)
      BY <2>1, <2>2, <2>3, <2>5 DEF Answered
    <2> QED BY <2>1, <2>6 DEF Passes
  <1>3. ASSUME readSlew(e) PROVE Passes(e)
    <2>1. /\ call[e].sent /\ call[e].todo # <<>> /\ step(e).op = "slew" /\ phase' = phase
          /\ mnt' = mnt /\ mem' = mem /\ user' = user /\ loose' = loose
      BY <1>3 DEF readSlew, waits
    <2>2. PICK how \in {"yes", "no"} : Onward(e, how, call'[e]) /\ call'[e].fix = call[e].fix
      BY <1>0, <1>3, ReadSlewStep DEF Carries
    <2>3. Moved(e, how) /\ step(e) = call[e].todo[1]
      BY <1>0, <2>1, <2>2, OnwardMoved
    <2>4. Answered(e)
      BY <2>1, <2>2, <2>3 DEF Answered
    <2> QED BY <2>1, <2>4 DEF Passes
  <1>4. ASSUME timeout(e) \/ writeFails(e) PROVE Passes(e)
    <2>1. /\ call[e].todo # <<>> /\ mnt' = mnt /\ mem' = mem /\ phase' = phase
      BY <1>4 DEF timeout, writeFails, starved, waits, ready
    <2>3. Onward(e, "err", call'[e]) /\ call'[e].fix = call[e].fix
      BY <1>0, <1>4, ErrorStep DEF Carries
    <2>4. Moved(e, "err") /\ step(e) = call[e].todo[1]
      BY <1>0, <2>1, <2>3, OnwardMoved
    <2>5. call[e].todo[1].op \in Wire
      BY <1>0, <1>4, <2>1, <2>4 DEF timeout, writeFails, starved, waits, ready, LockInv
    <2>2. ~loose' => ~loose
      BY <1>4, Zenon DEF timeout, writeFails
    <2>6. ASSUME ~loose'
          PROVE  ~call[e].sent /\ user' = IF restores(call[e].todo[1]) THEN mnt.corr ELSE user
      <3>1. ~timeout(e)
        BY <2>2, <2>6, NotStarved DEF timeout
      <3>2. writeFails(e)
        BY <1>4, <3>1
      <3> QED BY <2>4, <3>2 DEF writeFails, ready
    <2> QED BY <2>1, <2>2, <2>3, <2>4, <2>5, <2>6 DEF Passes, Broke
  <1>5. ASSUME status(e) PROVE Passes(e)
    <2>1. /\ call[e].todo # <<>> /\ ~call[e].sent /\ step(e).op = "status" /\ phase' = phase
          /\ mnt' = mnt /\ mem' = mem /\ user' = user /\ loose' = loose
      BY <1>5 DEF status, ready
    <2>2. step(e) = call[e].todo[1]
      BY <1>0, <2>1, After DEF TypeOK
    <2>3. CASE cache.left > 0
      <3>1. Onward(e, "yes", call'[e]) /\ call'[e].fix = call[e].fix
        BY <1>0, <1>5, <2>3, HitStep
      <3>2. Moved(e, "yes")
        BY <1>0, <2>1, <3>1, OnwardMoved
      <3>3. Local(e)
        BY <2>1, <2>2, <3>1, <3>2 DEF Local
      <3> QED BY <2>1, <3>3 DEF Passes
    <2>4. CASE ~(cache.left > 0)
      <3>1. Turned(e)
        BY <1>0, <1>5, <2>1, <2>2, <2>4, MissStep DEF Turned
      <3> QED BY <2>1, <3>1 DEF Passes
    <2> QED BY <2>3, <2>4
  <1>6. ASSUME store(e) \/ invalidate(e) \/ check(e) \/ defer(e) PROVE Passes(e)
    <2>1. /\ call[e].todo # <<>> /\ ~call[e].sent /\ step(e).op \in {"store", "invalidate", "check", "restore"}
          /\ phase' = phase /\ mnt' = mnt /\ mem' = mem /\ user' = user /\ loose' = loose
      BY <1>6 DEF store, invalidate, check, defer, ready
    <2>2. PICK how \in {"yes", "no"} : Onward(e, how, call'[e])
      BY <1>0, <1>6, StoreStep, DoneStep, CheckStep, DeferStep DEF invalidate
    <2>3. Moved(e, how) /\ step(e) = call[e].todo[1]
      BY <1>0, <2>1, <2>2, OnwardMoved
    <2>4. IF step(e).op = "restore" THEN call'[e].fix ELSE call'[e].fix = call[e].fix
      <3>1. CASE store(e)
        BY <1>0, <3>1, StoreStep DEF store, ready
      <3>2. CASE invalidate(e)
        BY <1>0, <3>2, DoneStep DEF invalidate, ready, Carries
      <3>3. CASE check(e)
        BY <1>0, <3>3, CheckStep DEF check, ready, Carries
      <3>4. CASE defer(e)
        BY <1>0, <3>4, DeferStep DEF defer, ready
      <3> QED BY <1>6, <3>1, <3>2, <3>3, <3>4
    <2>5. Local(e)
      BY <2>1, <2>2, <2>3, <2>4 DEF Local
    <2> QED BY <2>1, <2>5 DEF Passes
  <1>7. ASSUME askMoving(e) PROVE Passes(e)
    <2>1. /\ call[e].todo # <<>> /\ ~call[e].sent /\ step(e).op = "askMoving" /\ phase' = phase
          /\ mnt' = mnt /\ mem' = mem /\ user' = user /\ loose' = loose
      BY <1>7 DEF askMoving, ready
    <2>2. step(e) = call[e].todo[1]
      BY <1>0, <2>1, After DEF TypeOK
    <2>3. call'[e].fix = call[e].fix
      BY <1>0, <1>7, AskMovingStep DEF Carries
    <2>4. CASE Onward(e, "yes", call'[e])
      <3>1. Moved(e, "yes")
        BY <1>0, <2>1, <2>4, OnwardMoved
      <3>2. Local(e)
        BY <2>1, <2>2, <2>3, <3>1 DEF Local
      <3> QED BY <2>1, <3>2 DEF Passes
    <2>5. CASE ~Onward(e, "yes", call'[e])
      <3>1. call'[e].todo = <<>> /\ ~call'[e].sent /\ (call[e].failed => call'[e].failed)
        BY <1>0, <1>7, <2>5, AskMovingStep
      <3>2. Turned(e)
        BY <2>1, <2>2, <2>3, <3>1 DEF Turned
      <3> QED BY <2>1, <3>2 DEF Passes
    <2> QED BY <2>4, <2>5
  <1>8. ASSUME return(e) PROVE Passes(e)
    <2>1. mnt' = mnt /\ mem' = mem /\ user' = user /\ loose' = loose
      BY <1>8 DEF return
    <2>2. call[e].todo = <<>> /\ ~call[e].sent
      BY <1>0, <1>8, ReturnStep DEF LockInv
    <2>3. Ended(e)
      BY <1>0, <1>8, <2>2, ReturnStep DEF Ended
    <2> QED BY <2>1, <2>3 DEF Passes
  <1>9. ASSUME Start(e) PROVE Passes(e)
    <2>1. mnt' = mnt /\ mem' = mem /\ user' = user /\ loose' = loose /\ phase' = phase
      BY <1>9 DEF Start
    <2>2. Began(e)
      BY <1>0, <1>9, <2>1, StartStep DEF Began
    <2> QED BY <2>1, <2>2 DEF Passes
  <1> QED BY <1>1, <1>2, <1>3, <1>4, <1>5, <1>6, <1>7, <1>8, <1>9, Groups

(* A step that another one makes right is reached straight from that one:  *)
(* by the answer to it, or, with a fault, by its error.                    *)
LEMMA Lands ==
  ASSUME Core, ScriptInv, NEW e \in Client, Passes(e),
         call'[e].todo \in Seq(StepType), call'[e].todo # <<>>, guarded(call'[e].todo[1])
  PROVE  /\ call[e].todo # <<>> /\ backs(call[e].todo[1], call'[e].todo[1])
         /\ \/ Broke(e) /\ Way(call[e].todo[1], "err") = "go"
            \/ /\ call[e].sent /\ call[e].todo[1].op \in Wire \ {"blind"}
               /\ \E how \in {"yes", "no"} :
                     /\ Way(call[e].todo[1], how) = "go"
                     /\ call[e].todo[1].op \in {"ack", "byte"} => (how = "yes" <=> line[1].c = "y")
                     /\ call[e].todo[1].op = "get" /\ ~loose =>
                           (how = "yes" <=> Len(line) = 2 /\ line[1].c = "y")
  <1> DEFINE t == call[e].todo
             u == call'[e].todo
  <1>0. /\ TypeOK /\ LockInv /\ drv \in Drivers /\ Ordered(t) /\ t \in Seq(StepType)
        /\ u \in Seq(StepType) /\ u # <<>> /\ guarded(u[1])
    BY DEF Core, TypeOK, CallType, ScriptInv
  <1>1. ASSUME NEW how, Moved(e, how)
        PROVE  t # <<>> /\ backs(t[1], u[1]) /\ Way(t[1], how) = "go"
    <2>1. t # <<>> /\ Goes(u, t, Way(t[1], how))
      BY <1>1 DEF Moved
    <2> HIDE DEF t, u
    <2>2. CASE Follows(t)
      BY <1>0, <2>1, <2>2, Reached
    <2>3. CASE t = <<SpeedCorrectionOn>>
      BY <1>0, <2>1, <2>3, RestoreAlone
    <2> QED BY <1>0, <2>2, <2>3 DEF Ordered
  <1>2. CASE Answered(e)
    <2>1. t[1].op \in Wire \ {"blind"}
      BY <1>0, <1>2 DEF Answered, LockInv
    <2> QED BY <1>1, <1>2, <2>1 DEF Answered
  <1>3. CASE Broke(e)
    BY <1>1, <1>3 DEF Broke
  <1>4. CASE Local(e)
    <2>1. t[1].op \notin Wire /\ backs(t[1], u[1])
      BY <1>1, <1>4 DEF Local, Wire
    <2>2. FALSE
      BY <1>0, <2>1 DEF backs, guarded, Wire
    <2> QED BY <2>2
  <1>5. CASE Turned(e)
    <2>1. u = Fetch[drv] \o Tail(t) /\ t # <<>>
      BY <1>0, <1>5 DEF Turned
    <2>2. Fetch[drv] \in Seq(StepType) /\ Fetches(Fetch[drv]) /\ Tail(t) \in Seq(StepType)
      BY <1>0, <2>1, ScriptTypes, FetchAssumption, First
    <2> DEFINE f == Fetch[drv]
               r == Tail(t)
    <2> HIDE DEF f, r
    <2>3. Len(f) \in Nat /\ Len(f) >= 1 /\ u[1] = f[1]
      <3>1. f # <<>> /\ f \in Seq(StepType) /\ r \in Seq(StepType) /\ u = f \o r
        BY <2>1, <2>2 DEF Fetches, f, r
      <3>2. Len(f) \in Nat /\ Len(f) >= 1 /\ Len(r) \in Nat
        BY <3>1
      <3>3. 1 \in 1..(Len(f) + Len(r)) /\ 1 <= Len(f)
        BY <3>2
      <3> QED BY <3>1, <3>2, <3>3, ConcatProperties
    <2>4. f[1].does = "nothing" /\ f[1].op \in Wire \cup {"check", "store"}
      <3> DEFINE m == Len(f)
      <3>0. m \in Nat /\ m >= 1
        BY <2>3
      <3> HIDE DEF m
      <3>1. 1 \in 1..m /\ (1 \in 1..(m - 1) \/ 1 = m)
        BY <3>0
      <3> QED BY <2>2, <3>1 DEF Fetches, f, m
    <2>5. FALSE
      BY <1>0, <2>3, <2>4 DEF guarded, brackets, Wire
    <2> QED BY <2>5
  <1>6. CASE Began(e)
    <2>1. u \in Scripts(drv)
      BY <1>6 DEF Began
    <2> QED BY <1>0, <2>1, FollowAssumption
  <1>7. CASE Ended(e)
    <2>1. u = <<SpeedCorrectionOn>>
      BY <1>0, <1>7 DEF Ended
    <2>2. u[1].op = "ack" /\ u[1].does = "corrOn"
      BY <2>1, RestoreTyped DEF SpeedCorrectionOn
    <2> QED BY <1>0, <2>2 DEF guarded, brackets
  <1> QED BY <1>2, <1>3, <1>4, <1>5, <1>6, <1>7 DEF Passes

(* What a command does that is written: the mount accepts it or not, and,  *)
(* with no fault and nothing on the line, that is what its answer says.    *)
Wrote(e, s, accepted) ==
    /\ mnt' = IF accepted \/ s.does = "askSouth" THEN Obey(s) ELSE mnt
    /\ user' = IF (accepted /\ s.arg = "user") \/ (~accepted /\ restores(s)) THEN mnt'.corr ELSE user
    /\ s.op = "blind" => accepted
    /\ s.op # "blind" /\ s.does = "askCorr" => accepted = mnt.corr
    /\ s.op # "blind" /\ s.does = "askSouth" => accepted = ~mnt.south
    /\ ~loose' => ~loose
    /\ ~loose' /\ s.op # "blind" /\ (s.op # "get" \/ drv = "tenmicron") =>
          (line'[1].c = "y" <=> accepted) /\ (s.op = "get" => Len(line') = 2)
    /\ mem' = mem /\ phase' = phase /\ call'[e].fix = call[e].fix
    /\ ~call[e].sent
    /\ IF s.op = "blind" THEN Moved(e, "yes")
       ELSE call'[e].todo = call[e].todo /\ call'[e].sent /\ call'[e].failed = call[e].failed

(* A command of the commander changes the mount as it was accepted. *)
LEMMA OwnWrite ==
  ASSUME Core, NEW e \in Client, NEW op \in Wire, write(e, op)
  PROVE  /\ call[e].todo # <<>> /\ call[e].todo[1] \in StepType /\ call[e].todo[1].op = op
         /\ \E accepted \in BOOLEAN : Wrote(e, call[e].todo[1], accepted)
  <1> DEFINE s == call[e].todo[1]
  <1>0. TypeOK /\ LockInv /\ FitInv /\ line \in Seq(Char) /\ mnt.ver \in Nat /\ drv \in Drivers
    BY ConstantTypes DEF Core, TypeOK
  <1>1. /\ call[e].todo # <<>> /\ ~call[e].sent /\ step(e).op = op /\ conn = Nobody /\ call[e].on
        /\ call'[e].fix = call[e].fix
        /\ IF op = "blind" THEN Onward(e, "yes", call'[e]) ELSE Stays(call'[e], call[e]) /\ call'[e].sent
    BY <1>0, WriteStep
  <1>2. PICK a \in Answer(step(e)), delay \in BOOLEAN : Taken(e, a, delay)
    BY <1>0, WriteStep
  <1>3. step(e) = s /\ s \in StepType /\ call[e].todo \in Seq(StepType)
    <2>1. step(e) = s /\ s \in StepType
      <3>1. call \in [Client -> CallType] /\ call[e].todo # <<>>
        BY <1>0, <1>1 DEF TypeOK
      <3> QED BY ONLY <3>1, e \in Client, After
    <2>2. call[e].todo \in Seq(StepType)
      BY <1>0 DEF TypeOK, CallType
    <2> QED BY <2>1, <2>2
  <1>4. Fits(s)
    <2>1. 1 \in 1..Len(call[e].todo)
      BY <1>1, <1>3
    <2> QED BY <1>0, <2>1 DEF FitInv, AllFit
  <1>5. mem' = mem /\ phase' = phase
    BY DEF write
  <1>6. IF op = "blind" THEN Moved(e, "yes")
        ELSE call'[e].todo = call[e].todo /\ call'[e].sent /\ call'[e].failed = call[e].failed
    BY <1>0, <1>1, OnwardMoved DEF Stays
  <1>7. ~loose' => ~loose /\ ~delay
    BY <1>2, Zenon DEF Taken
  <1> DEFINE acc == a = <<>> \/ Head(a) = "y"
  <1>8. /\ mnt' = (IF acc \/ s.does = "askSouth" THEN Obey(s) ELSE mnt)
        /\ user' = IF (acc /\ s.arg = "user") \/ (~acc /\ restores(s)) THEN mnt'.corr ELSE user
    BY <1>2, <1>3 DEF Taken
  <1>9. /\ a \in Seq({"y", "n", "#"})
        /\ op = "blind" => a = <<>>
        /\ op # "blind" => /\ a # <<>> /\ Len(a) \in Nat /\ Len(a) >= 1 /\ Head(a) = a[1] /\ Head(a) \in {"y", "n"}
                           /\ op = "get" => Len(a) = 2
    <2>1. /\ \/ s.reply = "none" /\ a = <<>>
             \/ s.reply \in {"byte", "date"} /\ (a = <<"y">> \/ a = <<"n">>)
             \/ s.reply = "date" /\ a = <<"y", "n", "#">>
             \/ s.reply = "text" /\ (a = <<"y", "#">> \/ a = <<"n", "#">>)
             \/ s.reply = "slew" /\ (a = <<"y">> \/ a = <<"n", "n", "#">>)
          /\ a \in Seq({"y", "n", "#"})
      BY <1>2, <1>3, AnswerShapes
    <2>2. /\ op = "blind" => s.reply = "none"
          /\ op # "blind" => s.reply # "none"
          /\ op = "get" => s.reply = "text"
      BY <1>1, <1>3, <1>4 DEF Fits, Wire
    <2> DEFINE Full == a # <<>> /\ Len(a) \in Nat /\ Len(a) >= 1 /\ Head(a) = a[1] /\ Head(a) \in {"y", "n"}
    <2>3. a = <<>> \/ Full
      <3>1. CASE a = <<"y">> \/ a = <<"n">>
        BY <3>1
      <3>2. CASE a = <<"y", "#">> \/ a = <<"n", "#">>
        BY <3>2
      <3>3. CASE a = <<"n", "n", "#">> \/ a = <<"y", "n", "#">>
        BY <3>3
      <3> HIDE DEF Full
      <3> QED BY <2>1, <3>1, <3>2, <3>3
    <2>4. s.reply # "none" => a # <<>>
      <3>1. <<"y">> # <<>> /\ <<"n">> # <<>> /\ <<"y", "n", "#">> # <<>> /\ <<"y", "#">> # <<>>
        OBVIOUS
      <3>2. <<"n", "#">> # <<>> /\ <<"n", "n", "#">> # <<>>
        OBVIOUS
      <3> QED BY <2>1, <3>1, <3>2, Zenon
    <2>5. s.reply = "none" => a = <<>>
      BY <2>1
    <2>6. s.reply = "text" => Len(a) = 2
      BY <2>1
    <2> QED BY <2>1, <2>2, <2>3, <2>4, <2>5, <2>6
  <1>10. /\ s.does = "askCorr" => (Head(a) = "y") = mnt.corr
         /\ s.does = "askSouth" => (Head(a) = "n") = mnt.south
    BY <1>2, <1>3 DEF Answer
  <1>11. mnt.corr \in BOOLEAN /\ mnt.south \in BOOLEAN /\ acc \in BOOLEAN
    BY <1>0 DEF TypeOK
  <1>12. ASSUME ~loose', op # "blind", op # "get" \/ drv = "tenmicron"
         PROVE  (line'[1].c = "y" <=> acc) /\ (op = "get" => Len(line') = 2)
    <2>1. late = <<>> /\ line = <<>>
      <3>1. late = <<>> /\ (line = <<>> \/ Printed)
        BY <1>1, <1>7, <1>12 DEF Core, WireInv
      <3>2. ~Printed
        <4>1. drv = "tenmicron" => \A j \in Junk[drv] : j = <<>>
          BY <1>0, InquireAssumption
        <4> QED BY <1>1, <1>3, <1>12, <4>1 DEF Printed
      <3> QED BY <3>1, <3>2
    <2> DEFINE b == Chars(a, mnt.ver)
    <2>2. line' = line \o b
      BY <1>2, <1>7, <1>12, <2>1 DEF Taken
    <2>3. b \in Seq(Char) /\ Len(b) = Len(a) /\ \A i \in 1..Len(a) : b[i].c = a[i]
      BY <1>0, <1>9, CharsTyped
    <2> HIDE DEF b
    <2>4. line' = b
      BY <2>1, <2>2, <2>3
    <2>5. b[1].c = a[1]
      BY <1>9, <1>12, <2>3
    <2>6. Len(line') = Len(a) /\ line'[1].c = Head(a) /\ a # <<>>
      BY <1>9, <1>12, <2>3, <2>4, <2>5
    <2> QED BY <1>9, <1>12, <2>6
  <1> HIDE DEF acc
  <1>13. /\ s.op = "blind" => acc
         /\ s.op # "blind" /\ s.does = "askCorr" => acc = mnt.corr
         /\ s.op # "blind" /\ s.does = "askSouth" => acc = ~mnt.south
    BY <1>1, <1>3, <1>9, <1>10, <1>11 DEF acc
  <1>14. Wrote(e, s, acc)
    BY <1>1, <1>3, <1>5, <1>6, <1>7, <1>8, <1>12, <1>13 DEF Wrote
  <1> QED BY <1>1, <1>3, <1>11, <1>14

(* What a step that remembers something does to each part of the memory,   *)
(* and where it leads: never to a step that another one makes right.       *)
LEMMA OwnMemory ==
  ASSUME Core, ScriptInv, NEW e \in Client, Remembers(e)
  PROVE  /\ call[e].todo # <<>> /\ ~call[e].sent /\ Moved(e, "yes") /\ call'[e].fix = call[e].fix
         /\ call[e].todo[1] \in StepType
         /\ call[e].todo[1].op \in {"setMoving", "stopMoving", "clearMoving", "setPulse", "setSouth", "setParked"}
         /\ mnt' = mnt /\ user' = user /\ loose' = loose /\ phase' = phase /\ mem' \in MemType
         /\ \A a \in Axis :
               mem'.moving[a] = IF call[e].todo[1].op = "clearMoving" THEN FALSE
                                ELSE IF call[e].todo[1].arg # a THEN mem.moving[a]
                                ELSE IF call[e].todo[1].op = "setMoving" THEN TRUE
                                ELSE IF call[e].todo[1].op = "stopMoving" THEN FALSE ELSE mem.moving[a]
         /\ mem'.pulse = (IF call[e].todo[1].op = "setPulse" /\ mem.pulse < call[e].todo[1].ticks
                          THEN call[e].todo[1].ticks ELSE mem.pulse)
         /\ mem'.south = (IF call[e].todo[1].op = "setSouth" THEN call[e].todo[1].arg = "south" ELSE mem.south)
         /\ call'[e].todo # <<>> => ~guarded(call'[e].todo[1])
  <1> DEFINE s == call[e].todo[1]
             t == call[e].todo
             u == call'[e].todo
  <1>0. TypeOK /\ mem \in MemType
    BY DEF Core, TypeOK, MemType
  <1>1. /\ Others(e) /\ Onward(e, "yes", call'[e]) /\ Carries(call'[e], call[e])
        /\ t # <<>> /\ ~call[e].sent
        /\ step(e).op \in {"setMoving", "stopMoving", "clearMoving", "setPulse", "setSouth", "setParked"}
        /\ mnt' = mnt /\ user' = user /\ loose' = loose /\ phase' = phase /\ mem' \in MemType
    BY <1>0, RememberStep
  <1>2. Moved(e, "yes") /\ step(e) = s /\ s \in StepType
    BY <1>0, <1>1, OnwardMoved
  <1>3. ASSUME u # <<>>, guarded(u[1]) PROVE FALSE
    <2>1. /\ Ordered(t) /\ t \in Seq(StepType) /\ t # <<>> /\ u \in Seq(StepType)
          /\ Goes(u, t, Way(t[1], "yes"))
      <3>1. t \in Seq(StepType)
        BY <1>0 DEF TypeOK, CallType
      <3>2. u \in Seq(StepType)
        BY <1>1 DEF Onward, CallType
      <3> QED BY <1>1, <1>2, <3>1, <3>2 DEF ScriptInv, Moved
    <2>2. t[1].op \notin Wire
      BY <1>1, <1>2 DEF Wire
    <2> HIDE DEF t, u
    <2>3. CASE Follows(t)
      <3>1. backs(t[1], u[1])
        BY <1>3, <2>1, <2>3, Reached
      <3> QED BY <1>3, <2>2, <3>1 DEF backs, guarded, Wire
    <2>4. CASE t = <<SpeedCorrectionOn>>
      BY <1>3, <2>1, <2>4, RestoreAlone
    <2> QED BY <2>1, <2>3, <2>4 DEF Ordered
  <1>4. /\ \A a \in Axis :
              mem'.moving[a] = IF s.op = "clearMoving" THEN FALSE
                               ELSE IF s.arg # a THEN mem.moving[a]
                               ELSE IF s.op = "setMoving" THEN TRUE
                               ELSE IF s.op = "stopMoving" THEN FALSE ELSE mem.moving[a]
        /\ mem'.pulse = (IF s.op = "setPulse" /\ mem.pulse < s.ticks THEN s.ticks ELSE mem.pulse)
        /\ mem'.south = (IF s.op = "setSouth" THEN s.arg = "south" ELSE mem.south)
    <2> HIDE DEF s
    <2>1. CASE setMoving(e)
      <3>1. mem' = [mem EXCEPT !.moving[s.arg] = TRUE] /\ s.op = "setMoving"
        BY <1>2, <2>1 DEF setMoving, remember, ready
      <3> QED BY <1>0, <3>1 DEF MemType
    <2>2. CASE stopMoving(e)
      <3>1. mem' = [mem EXCEPT !.moving[s.arg] = FALSE] /\ s.op = "stopMoving"
        BY <1>2, <2>2 DEF stopMoving, remember, ready
      <3> QED BY <1>0, <3>1 DEF MemType
    <2>3. CASE clearMoving(e)
      <3> DEFINE still == [a \in Axis |-> FALSE]
      <3>1. mem' = [mem EXCEPT !.moving = still] /\ s.op = "clearMoving"
        BY <1>2, <2>3 DEF clearMoving, remember, ready
      <3>2. \A a \in Axis : still[a] = FALSE
        OBVIOUS
      <3> HIDE DEF still
      <3> QED BY <1>0, <3>1, <3>2 DEF MemType
    <2>4. CASE setPulse(e)
      <3>1. mem' = [mem EXCEPT !.pulse = IF @ < s.ticks THEN s.ticks ELSE @] /\ s.op = "setPulse"
        BY <1>2, <2>4 DEF setPulse, remember, ready
      <3> QED BY <1>0, <3>1 DEF MemType
    <2>5. CASE setSouth(e)
      <3>1. mem' = [mem EXCEPT !.south = (s.arg = "south")] /\ s.op = "setSouth"
        BY <1>2, <2>5 DEF setSouth, remember, ready
      <3> QED BY <1>0, <3>1 DEF MemType
    <2>6. CASE setParked(e)
      <3>1. mem' = [mem EXCEPT !.parked = (s.arg = "parked")] /\ s.op = "setParked"
        BY <1>2, <2>6 DEF setParked, remember, ready
      <3> QED BY <1>0, <3>1 DEF MemType
    <2> QED BY <2>1, <2>2, <2>3, <2>4, <2>5, <2>6 DEF Remembers
  <1>5. call'[e].fix = call[e].fix
    BY <1>1 DEF Carries
  <1> QED BY <1>1, <1>2, <1>3, <1>4, <1>5

(* Where the commander's call stands and what it does not do there. *)
LEMMA PassesHead ==
  ASSUME Core, ScriptInv, NEW e \in Client, Passes(e)
  PROVE  \/ call[e].todo = <<>>
         \/ call[e].todo[1].op \in Wire \cup {"check", "status", "store", "invalidate", "askMoving", "restore"}
  <1>1. CASE Answered(e)
    BY <1>1 DEF Core, LockInv, Answered
  <1>2. CASE Broke(e) \/ Local(e) \/ Turned(e) \/ Ended(e)
    BY <1>2 DEF Broke, Local, Turned, Ended
  <1>3. CASE Began(e)
    BY <1>3 DEF Began, ScriptInv
  <1> QED BY <1>1, <1>2, <1>3 DEF Passes

(***************************************************************************)
(* The axes that are moved by hand.  The driver knows of every one of them *)
(* or is about to note it, and it forgets one only after the mount was     *)
(* told to stop it.                                                        *)
(***************************************************************************)
At(t, op) == t # <<>> /\ t[1].op = op

JogOK(t, jog, moving) ==
    /\ \A a \in Axis : jog[a] => moving[a] \/ (At(t, "setMoving") /\ t[1].arg = a)
    /\ At(t, "stopMoving") => \A a \in Axis : t[1].arg = a => ~jog[a]
    /\ At(t, "clearMoving") => \A a \in Axis : ~jog[a]

JogInv(e) == drv = "tenmicron" => JogOK(call[e].todo, mnt.jog, mem.moving)

(* Every step keeps it, whatever the transport does. *)
LEMMA JogStep ==
  ASSUME Core, ScriptInv, NEW e \in Client, Commander = {e}, JogInv(e), [Next]_vars
  PROVE  JogInv(e)'
  <1> DEFINE t == call[e].todo
             u == call'[e].todo
  <1>0. TypeOK /\ TypeOK' /\ drv' = drv /\ t \in Seq(StepType) /\ u \in Seq(StepType)
    <2>1. TypeOK /\ TypeOK' /\ drv' = drv
      BY TypeStep, Scripted DEF Core
    <2> QED BY <2>1 DEF TypeOK, CallType
  <1> SUFFICES ASSUME drv = "tenmicron" PROVE JogOK(u, mnt'.jog, mem'.moving)
    BY <1>0 DEF JogInv
  <1>1. JogOK(t, mnt.jog, mem.moving) /\ Watched(t) /\ Ordered(t)
    BY DEF JogInv, ScriptInv
  <1>2. CASE Apart(e)
    BY <1>1, <1>2 DEF Apart
  <1>3. CASE tick
    <2>1. mnt'.jog = mnt.jog /\ mem'.moving = mem.moving /\ u = t
      BY <1>0, <1>3 DEF tick, TypeOK
    <2> QED BY <1>1, <2>1
  <1>4. ASSUME NEW op \in Wire, write(e, op) PROVE JogOK(u, mnt'.jog, mem'.moving)
    <2>1. t # <<>> /\ t[1] \in StepType /\ t[1].op = op
      BY <1>4, OwnWrite
    <2>2. PICK accepted \in BOOLEAN : Wrote(e, t[1], accepted)
      BY <1>4, OwnWrite
    <2>3. \A a \in Axis : mnt.jog[a] => mem.moving[a]
      BY <1>1, <2>1 DEF JogOK, At, Wire
    <2>4. mem' = mem
      BY <2>2 DEF Wrote
    <2>5. \A a \in Axis : mnt'.jog[a] = IF accepted THEN JogAfter(t[1], a) ELSE mnt.jog[a]
      <3>1. mnt \in MountType
        BY <1>0 DEF TypeOK, MountType
      <3>2. \A a \in Axis : Obey(t[1]).jog[a] = JogAfter(t[1], a)
        BY <2>1, <3>1, Obeys
      <3>3. \A a \in Axis : t[1].does = "askSouth" => JogAfter(t[1], a) = mnt.jog[a]
        BY <3>1 DEF JogAfter, MountType
      <3> QED BY <2>2, <3>2, <3>3 DEF Wrote
    <2>6. CASE op = "blind"
      <3>1. accepted /\ Goes(u, t, Way(t[1], "yes"))
        BY <2>1, <2>2, <2>6 DEF Wrote, Moved
      <3>2. Follows(t)
        <4>1. SpeedCorrectionOn.op = "ack"
          BY DEF SpeedCorrectionOn
        <4> QED BY <1>1, <2>1, <2>6, <4>1, RestoreTyped DEF Ordered
      <3> HIDE DEF t, u
      <3>3. ASSUME NEW a \in Axis, mnt'.jog[a] PROVE mem'.moving[a] \/ (At(u, "setMoving") /\ u[1].arg = a)
        <4>1. CASE t[1].does \in {"jogP", "jogS"}
          <5>1. /\ t[1].yes = "go" /\ 1 < Len(t) /\ t[1 + 1].op = "setMoving" /\ Len(t) \in Nat
                /\ t[1 + 1].arg = IF t[1].does = "jogP" THEN "P" ELSE "S"
            BY <1>0, <1>1, <2>1, <4>1, First DEF Watched
          <5>2. Rest(u, t, 1)
            BY <3>1, <5>1 DEF Goes, Way
          <5>3. u[1] = t[1 + 1] /\ u # <<>>
            BY <5>1, <5>2 DEF Rest
          <5>4. mnt.jog[a] \/ a = u[1].arg
            BY <2>5, <3>1, <3>3, <4>1, <5>1, <5>3 DEF JogAfter, Axis
          <5> QED BY <2>3, <2>4, <5>1, <5>3, <5>4 DEF At
        <4>2. CASE t[1].does \notin {"jogP", "jogS"}
          <5>1. mnt.jog[a]
            BY <2>5, <3>1, <3>3, <4>2 DEF JogAfter
          <5> QED BY <2>3, <2>4, <5>1
        <4> QED BY <4>1, <4>2
      <3>4. ASSUME At(u, "stopMoving") \/ At(u, "clearMoving")
            PROVE  \A a \in Axis : (At(u, "stopMoving") => u[1].arg = a) => ~mnt'.jog[a]
        <4>1. u # <<>> /\ guarded(u[1])
          BY <3>4 DEF At, guarded
        <4>2. backs(t[1], u[1])
          BY <1>0, <2>1, <3>1, <3>2, <4>1, Reached
        <4>3. \/ t[1].does \in {"halt", "stopAll"}
              \/ u[1].op = "stopMoving" /\ u[1].arg = "P" /\ t[1].does = "stopP"
              \/ u[1].op = "stopMoving" /\ u[1].arg = "S" /\ t[1].does = "stopS"
          BY <3>4, <4>2 DEF backs, At
        <4> QED BY <2>5, <3>1, <4>1, <4>3 DEF JogAfter, At
      <3> QED BY <3>3, <3>4 DEF JogOK, At
    <2>7. CASE op # "blind"
      <3>1. u = t
        BY <2>1, <2>2, <2>7 DEF Wrote
      <3>2. t[1].does \notin {"jogP", "jogS"}
        <4>1. 1 \in 1..Len(t)
          BY <1>0, <2>1, First
        <4> QED BY <1>1, <2>1, <2>7, <4>1 DEF Watched
      <3>3. \A a \in Axis : mnt'.jog[a] => mem'.moving[a]
        BY <2>3, <2>4, <2>5, <3>2 DEF JogAfter
      <3> QED BY <2>1, <3>1, <3>3 DEF JogOK, At, Wire
    <2> QED BY <2>6, <2>7
  <1>5. CASE Remembers(e)
    <2>1. /\ t # <<>> /\ mnt' = mnt
          /\ \A a \in Axis :
               mem'.moving[a] = IF t[1].op = "clearMoving" THEN FALSE
                                ELSE IF t[1].arg # a THEN mem.moving[a]
                                ELSE IF t[1].op = "setMoving" THEN TRUE
                                ELSE IF t[1].op = "stopMoving" THEN FALSE ELSE mem.moving[a]
          /\ u # <<>> => ~guarded(u[1])
      BY <1>5, OwnMemory
    <2> HIDE DEF t, u
    <2>2. \A a \in Axis : mnt'.jog[a] => mem'.moving[a]
      BY <1>1, <2>1 DEF JogOK, At
    <2> QED BY <2>1, <2>2 DEF JogOK, At, guarded
  <1>6. CASE Passes(e)
    <2>1. mnt' = mnt /\ mem' = mem
      BY <1>6 DEF Passes
    <2>2. \A a \in Axis : mnt.jog[a] => mem.moving[a]
      BY <1>1, <1>6, PassesHead DEF JogOK, At, Wire
    <2>3. ~At(u, "stopMoving") /\ ~At(u, "clearMoving")
      <3> SUFFICES ASSUME At(u, "stopMoving") \/ At(u, "clearMoving") PROVE FALSE
        OBVIOUS
      <3>1. u # <<>> /\ guarded(u[1]) /\ u[1].op \in {"stopMoving", "clearMoving"}
        BY DEF At, guarded
      <3>2. /\ t # <<>> /\ backs(t[1], u[1])
            /\ Way(t[1], "err") = "go" \/ t[1].op \in Wire \ {"blind"}
        BY <1>0, <1>6, <3>1, Lands
      <3> QED BY <3>1, <3>2 DEF backs, Way
    <2> QED BY <2>1, <2>2, <2>3 DEF JogOK
  <1> QED BY <1>2, <1>3, <1>4, <1>5, <1>6, OneCommands, Own

(* Nothing moves at the start. *)
LEMMA JogInit == ASSUME NEW e \in Client, Init PROVE JogInv(e)
  <1>1. \A a \in Axis : ~mnt.jog[a]
    <2>1. PICK corr, south \in BOOLEAN, prec \in 0..2 :
             mnt = [ver |-> 0, jog |-> [a \in Axis |-> FALSE], pulse |-> 0, corr |-> corr,
                    south |-> south, prec |-> prec, site |-> "untold"]
      BY DEF Init
    <2>2. mnt.jog = [a \in Axis |-> FALSE]
      BY <2>1
    <2> QED BY <2>2
  <1> QED BY <1>1 DEF JogInv, JogOK

(* While no command is under way every axis of a 10Micron mount that is     *)
(* moved by hand is known to move, so that Slewing reports it: whatever     *)
(* faults the transport has and however many goroutines read beside the one *)
(* that commands.                                                           *)
THEOREM JogsSeen ==
  ASSUME NEW e \in Client, Commander = {e}
  PROVE  Spec => []JogSeen
  <1>1. Init => Core /\ ScriptInv /\ JogInv(e)
    BY CoreInit, ScriptInit, JogInit
  <1>2. Core /\ ScriptInv /\ JogInv(e) /\ [Next]_vars => (Core /\ ScriptInv /\ JogInv(e))'
    <2> SUFFICES ASSUME Core, ScriptInv, JogInv(e), [Next]_vars
                 PROVE  Core' /\ ScriptInv' /\ JogInv(e)'
      OBVIOUS
    <2>1. Core' /\ ScriptInv'
      BY CoreStep, ScriptStep DEF Core
    <2> QED BY <2>1, JogStep
  <1>3. Core /\ ScriptInv /\ JogInv(e) => JogSeen
    <2> SUFFICES ASSUME ScriptInv, JogInv(e), quiet, drv = "tenmicron", NEW a \in Axis, mnt.jog[a]
                 PROVE  mem.moving[a]
      BY DEF JogSeen
    <2>1. call[e].todo = <<>>
      BY DEF quiet, ScriptInv
    <2> QED BY <2>1 DEF JogInv, JogOK, At
  <1> QED BY <1>1, <1>2, <1>3, PTL DEF Spec

(***************************************************************************)
(* The guide pulse.  What the driver remembers covers what the mount is    *)
(* carrying out, or the call is about to note it.                          *)
(***************************************************************************)
PulseOK(t, running, known) == running <= known \/ (At(t, "setPulse") /\ running <= t[1].ticks)

PulseInv(e) == PulseOK(call[e].todo, mnt.pulse, mem.pulse)

(* Every step keeps it, whatever the transport does. *)
LEMMA PulseStep ==
  ASSUME Core, ScriptInv, NEW e \in Client, Commander = {e}, PulseInv(e), [Next]_vars
  PROVE  PulseInv(e)'
  <1> DEFINE t == call[e].todo
             u == call'[e].todo
             m == mnt.pulse
             k == mem.pulse
  <1>0. /\ TypeOK /\ t \in Seq(StepType) /\ u \in Seq(StepType) /\ Ordered(t)
        /\ m \in Nat /\ k \in Nat
    <2>1. TypeOK /\ TypeOK'
      BY TypeStep DEF Core
    <2>2. t \in Seq(StepType) /\ u \in Seq(StepType) /\ Ordered(t)
      BY <2>1 DEF TypeOK, CallType, ScriptInv
    <2>3. m \in Nat /\ k \in Nat
      BY <2>1, ConstantTypes DEF TypeOK
    <2> QED BY <2>1, <2>2, <2>3
  <1> SUFFICES PulseOK(u, mnt'.pulse, mem'.pulse)
    BY DEF PulseInv
  <1>1. PulseOK(t, m, k)
    BY DEF PulseInv
  <1>2. CASE Apart(e)
    BY <1>1, <1>2 DEF Apart
  <1>3. CASE tick
    <2>1. /\ mnt'.pulse = (IF m > 0 THEN m - 1 ELSE 0) /\ mem'.pulse = (IF k > 0 THEN k - 1 ELSE 0)
          /\ u = t
      <3>1. /\ mnt \in MountType /\ mnt' = [mnt EXCEPT !.pulse = IF @ > 0 THEN @ - 1 ELSE 0]
            /\ mem \in MemType /\ mem' = [mem EXCEPT !.pulse = IF @ > 0 THEN @ - 1 ELSE 0]
        BY <1>0, <1>3 DEF tick, TypeOK, MountType, MemType
      <3>2. mnt'.pulse = IF m > 0 THEN m - 1 ELSE 0
        BY <3>1 DEF MountType
      <3>3. mem'.pulse = IF k > 0 THEN k - 1 ELSE 0
        BY <3>1 DEF MemType
      <3>4. u = t
        BY <1>3 DEF tick
      <3> QED BY <3>2, <3>3, <3>4
    <2>2. ASSUME At(t, "setPulse") PROVE t[1].ticks \in Nat
      <3>1. t[1] \in StepType
        BY <1>0, <2>2, First DEF At
      <3> QED BY <3>1, ConstantTypes DEF StepType
    <2> HIDE DEF t, u, m, k
    <2> QED BY <1>0, <1>1, <2>1, <2>2 DEF PulseOK
  <1>4. ASSUME NEW op \in Wire, write(e, op) PROVE PulseOK(u, mnt'.pulse, mem'.pulse)
    <2>1. t # <<>> /\ t[1] \in StepType /\ t[1].op = op /\ t[1].ticks \in Nat
      BY <1>4, OwnWrite, ConstantTypes DEF StepType
    <2>2. PICK accepted \in BOOLEAN : Wrote(e, t[1], accepted)
      BY <1>4, OwnWrite
    <2>3. m <= k
      BY <1>1, <2>1 DEF PulseOK, At, Wire
    <2>4. mem' = mem
      BY <2>2 DEF Wrote
    <2>5. mnt'.pulse = IF accepted /\ t[1].does = "pulse" /\ m < t[1].ticks THEN t[1].ticks ELSE m
      <3>1. mnt \in MountType
        BY <1>0 DEF TypeOK, MountType
      <3>2. Obey(t[1]).pulse = IF t[1].does = "pulse" /\ mnt.pulse < t[1].ticks THEN t[1].ticks ELSE mnt.pulse
        BY <2>1, <3>1, Obeys
      <3> QED BY <2>2, <3>2 DEF Wrote
    <2>6. CASE t[1].does = "pulse"
      <3>1. Follows(t) /\ owes(t[1])
        <4>1. SpeedCorrectionOn.does = "corrOn"
          BY DEF SpeedCorrectionOn
        <4> QED BY <1>0, <2>6, <4>1, RestoreTyped DEF Ordered, owes
      <3>2. 1 \in 1..Len(t)
        BY <1>0, <2>1, First
      <3>3. t[1].op = "blind"
        BY <2>6, <3>1, <3>2 DEF Follows, pays
      <3>4. Goes(u, t, Way(t[1], "yes"))
        BY <2>2, <3>3 DEF Wrote, Moved
      <3> HIDE DEF t, u, m, k
      <3>5. u # <<>> /\ pays(t[1], u[1])
        BY <1>0, <2>1, <3>1, <3>4, Owed
      <3>6. At(u, "setPulse") /\ u[1].ticks = t[1].ticks
        BY <2>6, <3>5 DEF pays, At
      <3>7. mnt'.pulse <= k \/ mnt'.pulse <= u[1].ticks
        BY <1>0, <2>1, <2>3, <2>5, <3>6
      <3> QED BY <2>4, <3>6, <3>7 DEF PulseOK, k
    <2>7. CASE t[1].does # "pulse"
      BY <2>3, <2>4, <2>5, <2>7 DEF PulseOK
    <2> QED BY <2>6, <2>7
  <1>5. CASE Remembers(e)
    <2>1. /\ t # <<>> /\ t[1] \in StepType /\ mnt' = mnt
          /\ mem'.pulse = IF t[1].op = "setPulse" /\ k < t[1].ticks THEN t[1].ticks ELSE k
      BY <1>5, OwnMemory
    <2>2. t[1].ticks \in Nat
      BY <2>1, ConstantTypes DEF StepType
    <2>3. mnt'.pulse = m
      BY <2>1
    <2> HIDE DEF t, u, m, k
    <2>4. m <= mem'.pulse
      BY <1>0, <1>1, <2>1, <2>2 DEF PulseOK, At
    <2> QED BY <2>3, <2>4 DEF PulseOK
  <1>6. CASE Passes(e)
    <2>1. mnt' = mnt /\ mem' = mem
      BY <1>6 DEF Passes
    <2>2. m <= k
      BY <1>1, <1>6, PassesHead DEF PulseOK, At, Wire
    <2> QED BY <2>1, <2>2 DEF PulseOK
  <1> QED BY <1>2, <1>3, <1>4, <1>5, <1>6, OneCommands, Own

(***************************************************************************)
(* Opening: until it is over nobody but the commander does anything, and   *)
(* nobody else changes the phase.                                          *)
(***************************************************************************)
LEMMA OpenStep ==
  ASSUME Core, OpenInv, NEW e \in Client, Commander = {e}, [Next]_vars
  PROVE  OpenInv' /\ (phase' = phase \/ Start(e) \/ Act(e))
  <1>0. TypeOK
    BY DEF Core
  <1>1. ASSUME NEW c \in Client, Act(c) PROVE call[c].on /\ Others(c) /\ (phase' = phase \/ return(c))
    <2>1. Others(c)
      <3>1. CASE \E op \in Wire : write(c, op)
        BY <1>0, <3>1, WriteStep
      <3>2. CASE writeFails(c) \/ timeout(c) \/ readByte(c) \/ readUntil(c) \/ readSlew(c)
        BY <1>0, <3>2, ErrorStep, ReadByteStep, ReadUntilStep, ReadSlewStep
      <3>3. CASE status(c)
        BY <1>0, <3>3, HitStep, MissStep
      <3>4. CASE store(c) \/ invalidate(c) \/ check(c) \/ defer(c) \/ askMoving(c)
        BY <1>0, <3>4, StoreStep, DoneStep, CheckStep, DeferStep, AskMovingStep DEF invalidate
      <3>5. CASE return(c) \/ Remembers(c)
        BY <1>0, <3>5, ReturnStep, RememberStep
      <3> QED BY <1>1, <3>1, <3>2, <3>3, <3>4, <3>5, Groups
    <2>2. call[c].on
      BY <1>0, <1>1, RememberStep, Groups
         DEF write, writeFails, timeout, readByte, readUntil, readSlew, starved, waits, status, store,
             invalidate, check, defer, askMoving, return, ready
    <2>3. phase' = phase \/ return(c)
      BY <1>0, <1>1, RememberStep, Groups
         DEF write, writeFails, timeout, readByte, readUntil, readSlew, status, store,
             invalidate, check, defer, askMoving
    <2> QED BY <2>1, <2>2, <2>3
  <1>2. ASSUME NEW c \in Client, return(c) PROVE phase = "open" => phase' = phase
    BY <1>0, <1>2, ReturnStep
  <1>3. ASSUME NEW c \in Client, c # e, Act(c) PROVE phase = "open" /\ phase' = phase
    <2>1. phase = "open"
      BY <1>1, <1>3 DEF OpenInv
    <2> QED BY <1>1, <1>2, <1>3, <2>1
  <1>4. ASSUME Act(e) PROVE OpenInv'
    <2>1. phase' # "open" => phase # "open"
      BY <1>1, <1>2, <1>4
    <2>2. Others(e)
      BY <1>1, <1>4
    <2> QED BY <2>1, <2>2 DEF OpenInv, Others
  <1>5. ASSUME NEW c \in Client, Start(c) PROVE phase = "open" /\ phase' = phase
    BY <1>5 DEF Start
  <1>6. CASE arrive \/ tick \/ UNCHANGED vars
    BY <1>6 DEF arrive, tick, vars, OpenInv
  <1> QED BY <1>3, <1>4, <1>5, <1>6 DEF Next, OpenInv

(***************************************************************************)
(* The hemisphere.                                                         *)
(***************************************************************************)

(* Opening goes on towards the question for the hemisphere, or fails. *)
LEMMA InquiresOn ==
  ASSUME NEW t \in Seq(StepType), Inquires(t), Len(t) # 2 \/ t[1].op # "get", NEW u,
         NEW how, Goes(u, t, Way(t[1], how))
  PROVE  Inquires(u) \/ Way(t[1], how) = "stop"
  <1>1. Len(t) \in Nat /\ Len(t) > 2 /\ t # <<>>
    <2>1. Len(t) \in Nat /\ Len(t) >= 2
      BY DEF Inquires
    <2>2. Len(t) # 2
      BY DEF Inquires
    <2> DEFINE n == Len(t)
    <2>3. t # <<>>
      BY <2>1
    <2>4. n \in Nat /\ n >= 2 /\ n # 2
      BY <2>1, <2>2
    <2> HIDE DEF n
    <2>5. n > 2
      BY <2>4
    <2> QED BY <2>1, <2>3, <2>5 DEF n
  <1>2. ~skips(t[1]) /\ t[1] \in StepType
    <2>1. 1 \in 1..(Len(t) - 2)
      BY <1>1
    <2>2. ~skips(t[1])
      BY <2>1 DEF Inquires
    <2>3. t[1] \in StepType
      BY <1>1, First
    <2> QED BY <2>2, <2>3
  <1>3. Way(t[1], how) \in {"go", "stop"}
    BY <1>2 DEF Way, skips, StepType
  <1>4. ASSUME Way(t[1], how) = "go" PROVE Inquires(u)
    <2> DEFINE n == Len(t)
               k == Len(u)
    <2>1. /\ n \in Nat /\ n > 2 /\ k = n - 1 /\ \A i \in 1..(n - 1) : u[i] = t[i + 1]
      BY <1>1, <1>4 DEF Goes, Rest
    <2>2. /\ n >= 2 /\ t[n].op = "setSouth"
          /\ LET ask == t[n - 1]
             IN  /\ ask.op = "get" /\ ask.does = "askSouth" /\ ask.no = "go" /\ ask.err # "go"
                 /\ ask.yes = "skip" /\ ask.skip > 0
          /\ \A i \in 1..(n - 2) :
                /\ ~skips(t[i]) /\ t[i].op \notin {"status", "askMoving", "setSouth", "restore"}
                /\ t[i].does \notin {"south", "north", "askSouth"}
      BY DEF Inquires
    <2> HIDE DEF n, k
    <2>3. k >= 2 /\ k \in 1..(n - 1) /\ k + 1 = n /\ k - 1 \in 1..(n - 1) /\ (k - 1) + 1 = n - 1
      BY <2>1
    <2>4. u[k] = t[n] /\ u[k - 1] = t[n - 1]
      BY <2>1, <2>3
    <2>5. \A i \in 1..(k - 2) : u[i] = t[i + 1] /\ i + 1 \in 1..(n - 2)
      BY <2>1
    <2>6. \A i \in 1..(k - 2) :
                /\ ~skips(u[i]) /\ u[i].op \notin {"status", "askMoving", "setSouth", "restore"}
                /\ u[i].does \notin {"south", "north", "askSouth"}
      BY <2>2, <2>5
    <2> QED BY <2>2, <2>3, <2>4, <2>6 DEF Inquires, k
  <1> QED BY <1>3, <1>4

(* What the driver remembers is right when the call records it, the mount's *)
(* answer says what it has done, and so does its answer to the question.    *)
Turns(s) == s.does \in {"south", "north"}

SouthOK(t, sent, q, south) ==
    /\ At(t, "setSouth") => south = (t[1].arg = "south")
    /\ sent /\ Turns(t[1]) /\ q[1].c = "y" => south = (t[1].does = "south")
    /\ sent /\ t[1].op = "get" /\ t[1].does = "askSouth" => Len(q) = 2 /\ (q[1].c = "y" <=> ~south)

SouthDue(t, sent, q) == At(t, "setSouth") \/ (sent /\ Turns(t[1]) /\ q[1].c = "y")

(* Opening has yet to ask for it, waits for the answer, or is at its end. *)
Asking(t, sent, known, site) == ~known /\ Inquires(t) /\ (site = "told" => sent /\ Len(t) = 2)
Opened(t) == t = <<>> \/ (Len(t) = 1 /\ t[1].op = "setSouth")

(* A driver that was told the hemisphere knows it, is about to, or has not  *)
(* opened yet.                                                              *)
SouthNow(t, sent, q, failed, when, known, south, site) ==
    /\ SouthOK(t, sent, q, south)
    /\ when = "opening" => failed \/ Asking(t, sent, known, site) \/ Opened(t)
    /\ site = "told" =>
          \/ known = south \/ SouthDue(t, sent, q) \/ when = "closed"
          \/ when = "opening" /\ (failed \/ Asking(t, sent, known, site))

(* Opening defers no restore. *)
Unbound(failed, fix, when) == when = "opening" => failed \/ ~fix

SouthInv(e) ==
    ~loose /\ drv = "tenmicron" =>
        /\ SouthNow(call[e].todo, call[e].sent, line, call[e].failed, phase, mem.south, mnt.south, mnt.site)
        /\ Unbound(call[e].failed, call[e].fix, phase)

(* A command that turns the hemisphere waits for its answer. *)
LEMMA TurnsPaid ==
  ASSUME NEW t \in Seq(StepType), t # <<>>, Ordered(t), Turns(t[1])
  PROVE  Follows(t) /\ owes(t[1]) /\ t[1].op = "ack"
  <1>1. Follows(t) /\ owes(t[1])
    <2>1. SpeedCorrectionOn.does = "corrOn"
      BY DEF SpeedCorrectionOn
    <2> QED BY <2>1, RestoreTyped DEF Ordered, owes, Turns
  <1>2. 1 \in 1..Len(t)
    BY First
  <1> QED BY <1>1, <1>2 DEF Follows, pays, Turns

(* At the start the driver has yet to ask for the hemisphere. *)
LEMMA SouthInit == ASSUME NEW e \in Client, Commander = {e}, Init PROVE SouthInv(e)
  <1> SUFFICES ASSUME drv = "tenmicron" PROVE SouthInv(e)
    BY DEF SouthInv
  <1>1. call[e].todo \in Open[drv] /\ ~call[e].sent /\ ~call[e].fix /\ drv \in Drivers
    <2>1. drv \in Drivers
      BY DEF Init
    <2> QED BY <2>1, ScriptInit
  <1>2. Inquires(call[e].todo) /\ ~At(call[e].todo, "setSouth")
    <2>1. call[e].todo \in Scripts(drv)
      BY <1>1 DEF Scripts
    <2>2. call[e].todo # <<>> => ~guarded(call[e].todo[1])
      BY <1>1, <2>1, FollowAssumption
    <2> QED BY <1>1, <2>2, InquireAssumption DEF At, guarded
  <1>3. phase = "opening" /\ ~mem.south
    BY DEF Init
  <1>4. mnt.site = "untold"
    <2>1. PICK corr, south \in BOOLEAN, prec \in 0..2 :
             mnt = [ver |-> 0, jog |-> [a \in Axis |-> FALSE], pulse |-> 0, corr |-> corr,
                    south |-> south, prec |-> prec, site |-> "untold"]
      BY DEF Init
    <2> QED BY <2>1
  <1>5. SouthOK(call[e].todo, call[e].sent, line, mnt.south)
    BY <1>1, <1>2 DEF SouthOK
  <1>6. Asking(call[e].todo, call[e].sent, mem.south, mnt.site)
    BY <1>2, <1>3, <1>4 DEF Asking
  <1> QED BY <1>1, <1>3, <1>4, <1>5, <1>6 DEF SouthInv, SouthNow, Unbound

(* Opening that has come to its end has nothing left to send. *)
LEMMA OpenedEnds ==
  ASSUME NEW t \in Seq(StepType), Opened(t), t # <<>>, NEW u \in Seq(StepType), NEW way, Goes(u, t, way)
  PROVE  u = <<>>
  <1>1. Len(t) = 1 /\ t[1] \in StepType
    BY First DEF Opened
  <1>2. t[1].skip \in Nat
    BY <1>1 DEF StepType
  <1>3. u = <<>> \/ Rest(u, t, 1) \/ Rest(u, t, t[1].skip + 1)
    BY DEF Goes
  <1>4. u = <<>> \/ Len(u) = 0
    BY <1>1, <1>2, <1>3 DEF Rest
  <1> QED BY <1>4

(* A command keeps it. *)
LEMMA SouthWrite ==
  ASSUME Core, ScriptInv, NEW e \in Client, SouthInv(e), NEW op \in Wire, write(e, op),
         call'[e].todo \in Seq(StepType), ~loose', drv = "tenmicron"
  PROVE  SouthNow(call'[e].todo, call'[e].sent, line', call'[e].failed, phase', mem'.south, mnt'.south, mnt'.site)
  <1> DEFINE t == call[e].todo
             u == call'[e].todo
             then == call'[e].sent
             Known == mem.south = mnt.south
  <1>0. /\ TypeOK /\ LockInv /\ t \in Seq(StepType) /\ u \in Seq(StepType)
        /\ Ordered(t) /\ mnt.south \in BOOLEAN /\ mem.south \in BOOLEAN /\ mnt \in MountType
    <2>1. TypeOK /\ LockInv
      BY DEF Core
    <2>2. t \in Seq(StepType) /\ Ordered(t)
      BY <2>1 DEF TypeOK, CallType, ScriptInv
    <2>3. mnt.south \in BOOLEAN /\ mem.south \in BOOLEAN /\ mnt \in MountType
      BY <2>1 DEF TypeOK, MountType
    <2> QED BY <2>1, <2>2, <2>3
  <1>1. t # <<>> /\ t[1] \in StepType /\ t[1].op = op
    BY OwnWrite
  <1>2. PICK accepted \in BOOLEAN : Wrote(e, t[1], accepted)
    BY OwnWrite
  <1>3. ~loose /\ mem' = mem /\ phase' = phase /\ ~call[e].sent
    BY <1>2 DEF Wrote
  <1>4. SouthNow(t, call[e].sent, line, call[e].failed, phase, mem.south, mnt.south, mnt.site)
    BY <1>3 DEF SouthInv
  <1>5. /\ Obey(t[1]).south = IF t[1].does \in {"south", "gpsSouth"} THEN TRUE
                              ELSE IF t[1].does \in {"north", "gpsNorth"} THEN FALSE ELSE mnt.south
        /\ Obey(t[1]).site = SiteAfter(t[1])
    BY <1>0, <1>1, Obeys
  <1>6. mnt' = IF accepted \/ t[1].does = "askSouth" THEN Obey(t[1]) ELSE mnt
    BY <1>2 DEF Wrote
  <1>7. /\ Turns(t[1]) /\ accepted => mnt'.south = (t[1].does = "south")
        /\ ~Turns(t[1]) \/ ~accepted => mnt'.site # "told" \/ mnt'.south = mnt.south
    BY <1>5, <1>6 DEF Turns, SiteAfter, ByGps
  <1>8. /\ ~Turns(t[1]) /\ (t[1].does # "askSouth" \/ phase # "opening") =>
              (mnt'.site = "told" => mnt.site = "told")
        /\ t[1].does = "askSouth" => mnt'.south = mnt.south
        /\ ~accepted => mnt'.south = mnt.south
    <2>1. t[1].does = "askSouth" => mnt'.south = mnt.south
      BY <1>5, <1>6
    <2>2. ~accepted => mnt'.south = mnt.south
      BY <1>6, <2>1
    <2>3. ASSUME ~Turns(t[1]), t[1].does # "askSouth" \/ phase # "opening", mnt'.site = "told"
          PROVE  mnt.site = "told"
      BY <1>5, <1>6, <2>3 DEF Turns, SiteAfter
    <2> QED BY <2>1, <2>2, <2>3
  <1>9. ~SouthDue(t, call[e].sent, line) /\ ~Opened(t)
    BY <1>1, <1>3 DEF SouthDue, At, Wire, Opened
  <1>10. CASE op = "blind"
    <2>1. Goes(u, t, Way(t[1], "yes")) /\ ~then /\ (call'[e].failed <=> call[e].failed \/ Way(t[1], "yes") = "stop")
      BY <1>1, <1>2, <1>10 DEF Wrote, Moved
    <2>2. ~Turns(t[1])
      BY <1>0, <1>1, <1>10, TurnsPaid
    <2>3. ~At(u, "setSouth")
      <3> SUFFICES ASSUME At(u, "setSouth") PROVE FALSE
        OBVIOUS
      <3>1. Follows(t)
        <4>1. SpeedCorrectionOn.op = "ack"
          BY DEF SpeedCorrectionOn
        <4> QED BY <1>0, <1>1, <1>10, <4>1, RestoreTyped DEF Ordered
      <3>2. u # <<>> /\ guarded(u[1])
        BY DEF At, guarded
      <3> HIDE DEF t, u
      <3>3. backs(t[1], u[1])
        BY <1>0, <1>1, <2>1, <3>1, <3>2, Reached
      <3> QED BY <1>1, <1>10, <3>3 DEF backs, At
    <2>4. SouthOK(u, then, line', mnt'.south)
      BY <2>1, <2>3 DEF SouthOK
    <2>5. ASSUME phase = "opening", ~call'[e].failed PROVE Asking(u, then, mem.south, mnt'.site)
      <3>1. Asking(t, call[e].sent, mem.south, mnt.site)
        BY <1>4, <1>9, <2>1, <2>5 DEF SouthNow
      <3>2. ~mem.south /\ Inquires(t) /\ mnt.site # "told"
        BY <1>3, <3>1 DEF Asking
      <3>3. Inquires(u) /\ Len(t) # 2
        <4>1. Inquires(u)
          BY <1>0, <1>1, <1>10, <2>1, <2>5, <3>2, InquiresOn
        <4>2. t[Len(t) - 1].op = "get"
          BY <3>2 DEF Inquires
        <4>3. Len(t) = 2 => Len(t) - 1 = 1
          OBVIOUS
        <4> QED BY <1>1, <1>10, <4>1, <4>2, <4>3
      <3>4. t[1].does # "askSouth"
        <4> DEFINE n == Len(t)
        <4>1. n \in Nat /\ n >= 2 /\ n # 2
          BY <1>0, <3>2, <3>3 DEF Inquires
        <4> HIDE DEF n
        <4>2. 1 \in 1..(n - 2)
          BY <4>1
        <4> QED BY <3>2, <4>2 DEF Inquires, n
      <3>5. mnt'.site # "told"
        BY <1>8, <2>2, <3>2, <3>4
      <3> QED BY <3>2, <3>3, <3>5 DEF Asking
    <2>6. ASSUME mnt'.site = "told", phase # "opening" PROVE (Known /\ mnt'.south = mnt.south) \/ phase = "closed"
      <3>1. mnt.site = "told" /\ mnt'.south = mnt.south
        BY <1>7, <1>8, <2>2, <2>6
      <3> QED BY <1>4, <1>9, <2>6, <3>1 DEF SouthNow
    <2> HIDE DEF t, u, then
    <2>7. SouthNow(u, then, line', call'[e].failed, phase, mem.south, mnt'.south, mnt'.site)
      BY <2>4, <2>5, <2>6 DEF SouthNow
    <2> QED BY <1>3, <2>7 DEF u, then
  <1>11. CASE op # "blind"
    <2>1. u = t /\ then /\ call'[e].failed = call[e].failed
      BY <1>1, <1>2, <1>11 DEF Wrote
    <2>2. (line'[1].c = "y" <=> accepted) /\ (op = "get" => Len(line') = 2)
      BY <1>1, <1>2, <1>11 DEF Wrote
    <2>3. t[1].does = "askSouth" => accepted = ~mnt.south
      BY <1>1, <1>2, <1>11 DEF Wrote
    <2>4. SouthOK(t, TRUE, line', mnt'.south)
      <3>1. ~At(t, "setSouth")
        BY <1>1 DEF At, Wire
      <3>2. t[1].op = "get" /\ t[1].does = "askSouth" => Len(line') = 2 /\ (line'[1].c = "y" <=> ~mnt'.south)
        BY <1>0, <1>1, <1>8, <2>2, <2>3
      <3> QED BY <1>7, <2>2, <3>1, <3>2 DEF SouthOK
    <2>5. ASSUME phase = "opening", ~call[e].failed PROVE Asking(t, TRUE, mem.south, mnt'.site)
      <3>1. Asking(t, call[e].sent, mem.south, mnt.site)
        BY <1>4, <1>9, <2>5 DEF SouthNow
      <3>2. ~mem.south /\ Inquires(t) /\ mnt.site # "told"
        BY <1>3, <3>1 DEF Asking
      <3>3. CASE Len(t) = 2
        BY <3>2, <3>3 DEF Asking
      <3>4. CASE Len(t) # 2
        <4> DEFINE n == Len(t)
        <4>1. n \in Nat /\ n >= 2 /\ n # 2
          BY <1>0, <3>2, <3>4 DEF Inquires
        <4> HIDE DEF n
        <4>2. 1 \in 1..(n - 2)
          BY <4>1
        <4>3. t[1].does \notin {"south", "north", "askSouth"}
          BY <3>2, <4>2 DEF Inquires, n
        <4>4. mnt'.site # "told"
          BY <1>8, <3>2, <4>3 DEF Turns
        <4> QED BY <3>2, <4>4 DEF Asking
      <3> QED BY <3>3, <3>4
    <2>6. ASSUME mnt'.site = "told", phase # "opening"
          PROVE  mem.south = mnt'.south \/ SouthDue(t, TRUE, line') \/ phase = "closed"
      <3>1. CASE Turns(t[1]) /\ accepted
        BY <2>2, <3>1 DEF SouthDue
      <3>2. CASE ~(Turns(t[1]) /\ accepted)
        <4>1. mnt'.south = mnt.south
          BY <1>7, <2>6, <3>2
        <4>2. mnt.site = "told"
          <5>1. CASE Turns(t[1])
            <6>1. t[1].does # "askSouth"
              BY <5>1 DEF Turns
            <6> QED BY <1>6, <2>6, <3>2, <5>1, <6>1
          <5>2. CASE ~Turns(t[1])
            BY <1>8, <2>6, <5>2
          <5> QED BY <5>1, <5>2
        <4> QED BY <1>4, <1>9, <2>6, <4>1, <4>2 DEF SouthNow
      <3> QED BY <3>1, <3>2
    <2> HIDE DEF t, u, then
    <2>7. SouthNow(t, TRUE, line', call[e].failed, phase, mem.south, mnt'.south, mnt'.site)
      BY <2>4, <2>5, <2>6 DEF SouthNow
    <2>8. then = TRUE
      <3>1. call'[e].sent \in BOOLEAN
        BY <1>0, WriteStep DEF Others, CallType
      <3> QED BY <2>1, <3>1 DEF then
    <2> QED BY <1>3, <2>1, <2>7, <2>8 DEF t, u, then
  <1> QED BY <1>10, <1>11

(* A step that neither sends nor remembers keeps it. *)
LEMMA SouthPass ==
  ASSUME Core, ScriptInv, NEW e \in Client, SouthInv(e), Passes(e),
         call'[e].todo \in Seq(StepType), ~loose', drv = "tenmicron"
  PROVE  SouthNow(call'[e].todo, call'[e].sent, line', call'[e].failed, phase', mem'.south, mnt'.south, mnt'.site)
  <1> DEFINE t == call[e].todo
             u == call'[e].todo
             sent == call[e].sent
             then == call'[e].sent
             Known == mem.south = mnt.south
  <1>0. /\ TypeOK /\ LockInv /\ t \in Seq(StepType) /\ u \in Seq(StepType)
        /\ Ordered(t) /\ mnt.south \in BOOLEAN /\ mem.south \in BOOLEAN
    <2>1. TypeOK /\ LockInv
      BY DEF Core
    <2>2. t \in Seq(StepType) /\ Ordered(t)
      BY <2>1 DEF TypeOK, CallType, ScriptInv
    <2>3. mnt.south \in BOOLEAN /\ mem.south \in BOOLEAN
      BY <2>1 DEF TypeOK
    <2> QED BY <2>1, <2>2, <2>3
  <1>1. mnt' = mnt /\ mem' = mem /\ ~loose
    BY DEF Passes
  <1>2. Answered(e) \/ Broke(e) \/ Local(e) \/ Turned(e) \/ Began(e) \/ Ended(e)
    BY DEF Passes
  <1>3. ~then
    BY <1>2 DEF Answered, Broke, Local, Turned, Began, Ended, Moved
  <1>4. SouthNow(t, sent, line, call[e].failed, phase, mem.south, mnt.south, mnt.site)
    BY <1>1 DEF SouthInv
  <1>5. ASSUME At(u, "setSouth") PROVE mnt.south = (u[1].arg = "south")
    <2>1. u # <<>> /\ guarded(u[1]) /\ u[1].op = "setSouth"
      BY <1>5 DEF At, guarded
    <2>2. /\ t # <<>> /\ backs(t[1], u[1])
          /\ \/ Way(t[1], "err") = "go"
             \/ /\ sent
                /\ \E how \in {"yes", "no"} :
                     /\ Way(t[1], how) = "go"
                     /\ t[1].op \in {"ack", "byte"} => (how = "yes" <=> line[1].c = "y")
                     /\ t[1].op = "get" => (how = "yes" <=> Len(line) = 2 /\ line[1].c = "y")
      BY <1>0, <1>1, <2>1, Lands
    <2>3. SouthOK(t, sent, line, mnt.south)
      BY <1>4 DEF SouthNow
    <2> HIDE DEF t, u, sent
    <2>4. /\ t[1].err # "go"
          /\ \/ t[1].op = "ack" /\ Turns(t[1]) /\ u[1].arg = t[1].does /\ t[1].no # "go"
             \/ t[1].op = "get" /\ t[1].does = "askSouth" /\ u[1].arg = "south" /\ t[1].yes # "go"
      BY <2>1, <2>2 DEF backs, Turns
    <2>5. Way(t[1], "err") # "go"
      BY <2>4 DEF Way
    <2>6. PICK how \in {"yes", "no"} :
                     /\ Way(t[1], how) = "go"
                     /\ t[1].op \in {"ack", "byte"} => (how = "yes" <=> line[1].c = "y")
                     /\ t[1].op = "get" => (how = "yes" <=> Len(line) = 2 /\ line[1].c = "y")
      BY <2>2, <2>5
    <2>7. CASE t[1].op = "ack" /\ Turns(t[1]) /\ u[1].arg = t[1].does /\ t[1].no # "go"
      <3>1. line[1].c = "y"
        BY <2>6, <2>7 DEF Way
      <3> QED BY <2>2, <2>3, <2>5, <2>7, <3>1 DEF SouthOK
    <2>8. CASE t[1].op = "get" /\ t[1].does = "askSouth" /\ u[1].arg = "south" /\ t[1].yes # "go"
      <3>1. ~(Len(line) = 2 /\ line[1].c = "y")
        BY <2>6, <2>8 DEF Way
      <3> QED BY <1>0, <2>2, <2>3, <2>5, <2>8, <3>1 DEF SouthOK
    <2> QED BY <2>4, <2>7, <2>8
  <1>6. SouthOK(u, then, line', mnt.south)
    BY <1>3, <1>5 DEF SouthOK
  <1>7. ASSUME phase = "opening", ~call[e].failed, ~call'[e].failed, Asking(t, sent, mem.south, mnt.site)
        PROVE  /\ phase' = "opening"
               /\ \/ Asking(u, then, mem.south, mnt.site)
                  \/ Opened(u) /\ (mnt.site = "told" => Known \/ SouthDue(u, then, line'))
    <2>0. /\ t # <<>> /\ Len(t) >= 2 /\ Len(t) \in Nat /\ Inquires(t) /\ ~mem.south
          /\ (mnt.site = "told" => sent /\ Len(t) = 2)
      BY <1>0, <1>7 DEF Asking, Inquires
    <2>1. ASSUME NEW how, Moved(e, how), phase' = phase, Len(t) # 2
          PROVE  phase' = "opening" /\ Asking(u, then, mem.south, mnt.site)
      <3>1. Goes(u, t, Way(t[1], how)) /\ Way(t[1], how) # "stop"
        BY <1>7, <2>1 DEF Moved
      <3>2. Inquires(u)
        BY <1>0, <2>0, <2>1, <3>1, InquiresOn
      <3> QED BY <1>7, <2>0, <2>1, <3>2 DEF Asking
    <2>2. ASSUME Len(t) = 2 PROVE /\ t[1].op = "get" /\ t[1].does = "askSouth" /\ t[1].no = "go"
                                  /\ t[1].err # "go" /\ t[1].yes = "skip" /\ t[1].skip > 0
                                  /\ t[2].op = "setSouth" /\ t[1].skip \in Nat /\ t[1] \in StepType
      <3>1. t[1] \in StepType
        BY <1>0, <2>0, First
      <3> QED BY <2>0, <2>2, <3>1 DEF Inquires, StepType
    <2>3. ASSUME Len(t) = 2, NEW way, way # "go", Goes(u, t, way) PROVE u = <<>>
      <3>1. Len(t) = 2 /\ t[1].skip \in Nat /\ t[1].skip > 0
        BY <2>2, <2>3
      <3> DEFINE k == t[1].skip
      <3> HIDE DEF t, u
      <3>2. u = <<>> \/ (Len(u) = 2 - (t[1].skip + 1) /\ t[1].skip + 1 \in 0..2)
        BY <2>3, <3>1 DEF Goes, Rest
      <3>3. u = <<>> \/ Len(u) = 0
        BY <3>1, <3>2
      <3>4. u \in Seq(StepType)
        BY <1>0
      <3> QED BY <3>3, <3>4
    <2>4. CASE Answered(e) /\ Len(t) = 2
      <3>1. sent /\ phase' = phase
        BY <2>4 DEF Answered
      <3>2. Len(line) = 2 /\ (line[1].c = "y" <=> ~mnt.south)
        BY <1>4, <2>2, <2>4, <3>1 DEF SouthNow, SouthOK
      <3>3. PICK how \in {"yes", "no"} : Moved(e, how) /\ (how = "yes" <=> Len(line) = 2 /\ line[1].c = "y")
        BY <1>1, <2>2, <2>4 DEF Answered
      <3>4. Goes(u, t, Way(t[1], how))
        BY <3>3 DEF Moved
      <3>5. CASE how = "yes"
        <4>1. Known
          BY <1>0, <2>0, <3>2, <3>3, <3>5
        <4>2. Way(t[1], how) = "skip"
          BY <2>2, <2>4, <3>5 DEF Way
        <4>3. u = <<>>
          BY <2>3, <2>4, <3>4, <4>2
        <4> QED BY <1>7, <3>1, <4>1, <4>3 DEF Opened
      <3>6. CASE how = "no"
        <4>1. Way(t[1], how) = "go"
          BY <2>2, <2>4, <3>6 DEF Way
        <4>2. Rest(u, t, 1)
          BY <3>4, <4>1 DEF Goes
        <4>3. Len(u) = 1 /\ u[1] = t[2]
          BY <2>4, <4>2 DEF Rest
        <4>4. At(u, "setSouth") /\ Opened(u)
          BY <2>2, <2>4, <4>3 DEF At, Opened
        <4> QED BY <1>7, <3>1, <4>4 DEF SouthDue
      <3> QED BY <3>5, <3>6
    <2>5. CASE Answered(e) /\ Len(t) # 2
      BY <2>1, <2>5 DEF Answered
    <2>6. CASE Broke(e) /\ Len(t) # 2
      BY <2>1, <2>6 DEF Broke
    <2>7. CASE Broke(e) /\ Len(t) = 2
      <3>1. ~sent /\ phase' = phase /\ Goes(u, t, Way(t[1], "err"))
        BY <2>7 DEF Broke, Moved
      <3>2. Way(t[1], "err") # "go"
        BY <2>2, <2>7 DEF Way
      <3>3. u = <<>>
        BY <2>3, <2>7, <3>1, <3>2
      <3> QED BY <1>7, <2>0, <3>1, <3>3 DEF Opened
    <2>8. CASE Local(e)
      <3>1. phase' = phase /\ t[1].op # "get" /\ \E how \in {"yes", "no"} : Moved(e, how)
        BY <2>8 DEF Local
      <3>2. Len(t) # 2
        BY <2>2, <3>1
      <3> QED BY <2>1, <3>1, <3>2
    <2>9. CASE Turned(e)
      <3>1. t[1].op \in {"askMoving", "status"}
        BY <2>9 DEF Turned
      <3>2. Len(t) # 2
        BY <2>2, <3>1
      <3>3. 1 \in 1..(Len(t) - 2)
        <4> DEFINE n == Len(t)
        <4>1. n \in Nat /\ n >= 2 /\ n # 2
          BY <2>0, <3>2
        <4> HIDE DEF n
        <4>2. 1 \in 1..(n - 2)
          BY <4>1
        <4> QED BY <4>2 DEF n
      <3> QED BY <2>0, <3>1, <3>3 DEF Inquires
    <2>10. CASE Began(e) \/ Ended(e)
      BY <1>7, <2>0, <2>10 DEF Began, Ended
    <2> QED BY <1>2, <2>4, <2>5, <2>6, <2>7, <2>8, <2>9, <2>10
  <1>8. ASSUME phase = "opening", ~call[e].failed, ~call'[e].failed, Opened(t), phase' = "opening"
        PROVE  Opened(u)
    <2>1. t = <<>>
      BY <1>8, PassesHead DEF Opened, Wire
    <2>2. ~Answered(e) /\ ~Broke(e) /\ ~Local(e) /\ ~Turned(e)
      <3>1. \A how : ~Moved(e, how)
        BY <2>1 DEF Moved
      <3> QED BY <2>1, <3>1 DEF Answered, Broke, Local, Turned
    <2>3. ~Began(e)
      BY <1>8 DEF Began
    <2>4. ~call[e].fix
      BY <1>1, <1>8 DEF SouthInv, Unbound
    <2>5. u = <<>>
      BY <1>2, <2>2, <2>3, <2>4 DEF Ended
    <2> QED BY <2>5 DEF Opened
  <1>9. call[e].failed => phase' # "open" \/ phase = "open"
    BY <1>2 DEF Answered, Broke, Local, Turned, Began, Ended
  <1>10. phase = "opening" /\ call[e].failed => phase' = "closed" \/ (phase' = "opening" /\ call'[e].failed)
    BY <1>2 DEF Answered, Broke, Local, Turned, Began, Ended, Moved
  <1>11. phase' = "opening" => phase = "opening"
    BY <1>2 DEF Answered, Broke, Local, Turned, Began, Ended
  <1>12. phase = "closed" => phase' = "closed"
    BY <1>2 DEF Answered, Broke, Local, Turned, Began, Ended
  <1>13. ASSUME SouthDue(t, sent, line) PROVE SouthDue(u, then, line')
    <2>1. sent /\ Turns(t[1]) /\ line[1].c = "y" /\ t # <<>>
      <3>1. ~At(t, "setSouth")
        BY PassesHead DEF At, Wire
      <3>2. sent /\ Turns(t[1]) /\ line[1].c = "y"
        BY <1>13, <3>1 DEF SouthDue
      <3> QED BY <1>0, <3>2 DEF LockInv
    <2>2. Follows(t) /\ owes(t[1]) /\ t[1].op = "ack"
      BY <1>0, <2>1, TurnsPaid
    <2>3. Answered(e)
      BY <1>0, <1>2, <2>1 DEF Broke, Local, Turned, Began, Ended, LockInv
    <2>4. Goes(u, t, Way(t[1], "yes"))
      BY <2>1, <2>2, <2>3 DEF Answered, Moved
    <2> HIDE DEF t, u, sent
    <2>5. u # <<>> /\ pays(t[1], u[1])
      BY <1>0, <2>1, <2>2, <2>4, Owed
    <2>6. At(u, "setSouth")
      BY <2>1, <2>5 DEF pays, Turns, At
    <2> QED BY <2>6 DEF SouthDue
  <1>14. /\ phase = "opening" => call[e].failed \/ Asking(t, sent, mem.south, mnt.site) \/ Opened(t)
         /\ mnt.site = "told" =>
              \/ Known \/ SouthDue(t, sent, line) \/ phase = "closed"
              \/ phase = "opening" /\ (call[e].failed \/ Asking(t, sent, mem.south, mnt.site))
    BY <1>4 DEF SouthNow
  <1> HIDE DEF t, u, sent, then, Known
  <1>15. phase' = "opening" => call'[e].failed \/ Asking(u, then, mem.south, mnt.site) \/ Opened(u)
    BY <1>7, <1>8, <1>10, <1>11, <1>14
  <1>16. ASSUME mnt.site = "told"
         PROVE  \/ Known \/ SouthDue(u, then, line') \/ phase' = "closed"
                \/ phase' = "opening" /\ (call'[e].failed \/ Asking(u, then, mem.south, mnt.site))
    <2>1. CASE Known \/ SouthDue(t, sent, line) \/ phase = "closed"
      BY <1>12, <1>13, <2>1
    <2>2. CASE phase = "opening" /\ call[e].failed
      BY <1>10, <2>2
    <2>3. CASE phase = "opening" /\ ~call[e].failed /\ Asking(t, sent, mem.south, mnt.site) /\ ~call'[e].failed
      BY <1>7, <1>16, <2>3
    <2>4. CASE phase = "opening" /\ ~call[e].failed /\ Asking(t, sent, mem.south, mnt.site) /\ call'[e].failed
      <3>1. t # <<>>
        BY <1>0, <2>4 DEF Asking, Inquires
      <3>2. phase' = phase
        BY <1>2, <2>4, <3>1 DEF Answered, Broke, Local, Turned, Began, Ended, t
      <3> QED BY <2>4, <3>2
    <2> QED BY <1>14, <1>16, <2>1, <2>2, <2>3, <2>4
  <1>17. SouthNow(u, then, line', call'[e].failed, phase', mem.south, mnt.south, mnt.site)
    BY <1>6, <1>15, <1>16 DEF SouthNow, Known
  <1> QED BY <1>1, <1>17 DEF u, then

(* A step of the commander defers no restore in the opening. *)
LEMMA UnboundStep ==
  ASSUME Core, ScriptInv, NEW e \in Client, SouthInv(e), Start(e) \/ Act(e), ~loose', drv = "tenmicron"
  PROVE  Unbound(call'[e].failed, call'[e].fix, phase')
  <1> DEFINE t == call[e].todo
             fix == call[e].fix
  <1> SUFFICES ASSUME phase' = "opening", ~call'[e].failed PROVE ~call'[e].fix
    BY DEF Unbound
  <1>1. ASSUME ~loose, phase = "opening", ~call[e].failed
        PROVE  ~fix /\ (Asking(t, call[e].sent, mem.south, mnt.site) \/ Opened(t))
    BY <1>1 DEF SouthInv, SouthNow, Unbound
  <1>2. ASSUME NEW op \in Wire, write(e, op) PROVE ~call'[e].fix
    <2>1. PICK accepted \in BOOLEAN : Wrote(e, t[1], accepted)
      BY <1>2, OwnWrite
    <2> QED BY <1>1, <2>1 DEF Wrote, Moved
  <1>3. CASE Remembers(e)
    <2>1. loose' = loose /\ phase' = phase /\ call'[e].fix = fix /\ Moved(e, "yes")
      BY <1>3, OwnMemory
    <2> QED BY <1>1, <2>1 DEF Moved
  <1>4. CASE Passes(e)
    <2>1. ~loose
      BY <1>4 DEF Passes
    <2>2. CASE Answered(e) \/ Broke(e) \/ Turned(e)
      BY <1>1, <2>1, <2>2 DEF Answered, Broke, Turned, Moved
    <2>3. CASE Began(e) \/ Ended(e)
      BY <2>3 DEF Began, Ended
    <2>4. CASE Local(e)
      <3>1. /\ phase = "opening" /\ ~call[e].failed /\ t # <<>>
            /\ IF t[1].op = "restore" THEN call'[e].fix ELSE call'[e].fix = fix
            /\ t[1].op \in {"check", "status", "store", "invalidate", "askMoving", "restore"}
        BY <2>4 DEF Local, Moved
      <3>2. Asking(t, call[e].sent, mem.south, mnt.site)
        BY <1>1, <2>1, <3>1 DEF Opened
      <3>3. Inquires(t)
        BY <3>2 DEF Asking
      <3>4. t[1].op # "restore"
        <4> DEFINE n == Len(t)
        <4>1. n \in Nat /\ n >= 2
          <5>1. t \in Seq(StepType)
            BY DEF Core, TypeOK, CallType
          <5> QED BY <3>3, <5>1 DEF Inquires
        <4>2. CASE n = 2
          <5>1. t[n - 1].op = "get"
            BY <3>3 DEF Inquires
          <5> HIDE DEF n
          <5>2. n - 1 = 1
            BY <4>2
          <5> QED BY <5>1, <5>2
        <4>3. CASE n # 2
          <5> HIDE DEF n
          <5>1. 1 \in 1..(n - 2)
            BY <4>1, <4>3
          <5> QED BY <3>3, <5>1 DEF Inquires, n
        <4> QED BY <4>2, <4>3
      <3> QED BY <1>1, <2>1, <3>1, <3>4
    <2> QED BY <1>4, <2>2, <2>3, <2>4 DEF Passes
  <1> QED BY <1>2, <1>3, <1>4, Own

(* Every step keeps it. *)
LEMMA SouthStep ==
  ASSUME Core, ScriptInv, OpenInv, NEW e \in Client, Commander = {e}, SouthInv(e), [Next]_vars
  PROVE  SouthInv(e)'
  <1> DEFINE t == call[e].todo
             u == call'[e].todo
             sent == call[e].sent
             then == call'[e].sent
             Goal == SouthNow(u, then, line', call'[e].failed, phase', mem'.south, mnt'.south, mnt'.site)
  <1>0. /\ TypeOK /\ TypeOK' /\ drv' = drv /\ t \in Seq(StepType) /\ u \in Seq(StepType)
    <2>1. TypeOK /\ TypeOK' /\ drv' = drv
      BY TypeStep, Scripted DEF Core
    <2> QED BY <2>1 DEF TypeOK, CallType
  <1> SUFFICES ASSUME ~loose', drv = "tenmicron"
               PROVE  Goal /\ Unbound(call'[e].failed, call'[e].fix, phase')
    BY <1>0 DEF SouthInv
  <1>01. ASSUME ~loose, call'[e] = call[e], phase' = phase
        PROVE  Unbound(call'[e].failed, call'[e].fix, phase')
    BY <1>01 DEF SouthInv
  <1>02. Unbound(call'[e].failed, call'[e].fix, phase')
    <2>1. CASE Apart(e) /\ phase' = phase
      BY <1>01, <2>1 DEF Apart
    <2>2. CASE tick
      BY <1>01, <2>2 DEF tick
    <2>3. CASE Start(e) \/ Act(e)
      BY <2>3, UnboundStep
    <2> QED BY <2>1, <2>2, <2>3, OneCommands, OpenStep
  <1> SUFFICES Goal
    BY <1>02
  <1>1. ASSUME ~loose
        PROVE  SouthNow(t, sent, line, call[e].failed, phase, mem.south, mnt.south, mnt.site)
    BY <1>1 DEF SouthInv
  <1>2. CASE Apart(e) /\ phase' = phase
    <2>1. /\ ~loose /\ mnt' = mnt /\ mem' = mem /\ call'[e] = call[e]
          /\ sent => line' = line
      BY <1>2 DEF Apart
    <2> QED BY <1>1, <1>2, <2>1 DEF SouthNow, SouthOK, SouthDue
  <1>3. CASE tick
    <2>1. ~loose /\ call' = call /\ line' = line /\ phase' = phase
      BY <1>3 DEF tick
    <2>2. mnt'.south = mnt.south /\ mem'.south = mem.south /\ mnt'.site = mnt.site
      <3>1. mnt \in MountType /\ mem \in MemType
        BY <1>0 DEF TypeOK, MountType, MemType
      <3>2. \E n : mnt' = [mnt EXCEPT !.pulse = n]
        BY <1>3, Zenon DEF tick
      <3>3. \E n : mem' = [mem EXCEPT !.pulse = n]
        BY <1>3, Zenon DEF tick
      <3> QED BY <3>1, <3>2, <3>3 DEF MountType, MemType
    <2> QED BY <1>1, <2>1, <2>2
  <1>4. ASSUME NEW op \in Wire, write(e, op) PROVE Goal
    BY <1>0, <1>4, SouthWrite
  <1>5. CASE Remembers(e)
    <2>1. /\ t # <<>> /\ ~sent /\ Moved(e, "yes") /\ t[1] \in StepType
          /\ t[1].op \in {"setMoving", "stopMoving", "clearMoving", "setPulse", "setSouth", "setParked"}
          /\ mnt' = mnt /\ ~loose /\ phase' = phase
          /\ mem'.south = (IF t[1].op = "setSouth" THEN t[1].arg = "south" ELSE mem.south)
          /\ u # <<>> => ~guarded(u[1])
      BY <1>5, OwnMemory
    <2>2. Goes(u, t, Way(t[1], "yes")) /\ ~then /\ (call'[e].failed <=> call[e].failed \/ Way(t[1], "yes") = "stop")
      BY <2>1 DEF Moved
    <2>3. SouthOK(u, then, line', mnt.south)
      BY <2>1, <2>2 DEF SouthOK, At, guarded
    <2>4. SouthNow(t, sent, line, call[e].failed, phase, mem.south, mnt.south, mnt.site)
      BY <1>1, <2>1
    <2>5. ASSUME Opened(t) PROVE u = <<>>
      BY <1>0, <2>1, <2>2, <2>5, OpenedEnds
    <2>6. ASSUME Asking(t, sent, mem.south, mnt.site), ~call'[e].failed
          PROVE  Asking(u, then, mem.south, mnt.site) /\ t[1].op # "setSouth"
      <3>1. Inquires(t) /\ ~mem.south /\ mnt.site # "told"
        BY <2>1, <2>6 DEF Asking
      <3>2. Len(t) # 2
        <4>1. t[Len(t) - 1].op = "get"
          BY <3>1 DEF Inquires
        <4>2. Len(t) = 2 => Len(t) - 1 = 1
          OBVIOUS
        <4> QED BY <2>1, <4>1, <4>2
      <3>3. Inquires(u)
        BY <1>0, <2>1, <2>2, <2>6, <3>1, <3>2, InquiresOn
      <3>4. 1 \in 1..(Len(t) - 2)
        <4> DEFINE n == Len(t)
        <4>1. n \in Nat /\ n >= 2 /\ n # 2
          BY <1>0, <3>1, <3>2 DEF Inquires
        <4> HIDE DEF n
        <4>2. 1 \in 1..(n - 2)
          BY <4>1
        <4> QED BY <4>2 DEF n
      <3> QED BY <3>1, <3>3, <3>4 DEF Asking, Inquires
    <2>7. t[1].op = "setSouth" => mem'.south = mnt.south
      BY <2>1, <2>4 DEF SouthNow, SouthOK, At
    <2>8. ~(t[1].op = "setSouth") => mem'.south = mem.south /\ ~SouthDue(t, sent, line)
      BY <2>1 DEF SouthDue, At
    <2> HIDE DEF t, u, sent, then
    <2>9. SouthNow(u, then, line', call'[e].failed, phase, mem'.south, mnt.south, mnt.site)
      <3>1. phase = "opening" => call'[e].failed \/ Asking(u, then, mem'.south, mnt.site) \/ Opened(u)
        BY <2>2, <2>4, <2>5, <2>6, <2>8 DEF SouthNow, Opened
      <3>2. CASE t[1].op = "setSouth"
        BY <2>3, <2>7, <3>1, <3>2 DEF SouthNow
      <3>3. CASE ~(t[1].op = "setSouth")
        BY <2>2, <2>3, <2>4, <2>6, <2>8, <3>1, <3>3 DEF SouthNow
      <3> QED BY <3>2, <3>3
    <2> QED BY <2>1, <2>9 DEF u, then
  <1>6. CASE Passes(e)
    BY <1>0, <1>6, SouthPass
  <1> QED BY <1>2, <1>3, <1>4, <1>5, <1>6, OneCommands, OpenStep, Own

(* While no command is under way the pulse that a 10Micron driver remembers *)
(* covers the one the mount carries out: whatever faults the transport has, *)
(* for any number of goroutines that read beside the one that commands.     *)
THEOREM PulsesCovered ==
  ASSUME NEW e \in Client, Commander = {e}
  PROVE  Spec => []PulseCovered
  <1> DEFINE Inv == Core /\ ScriptInv /\ PulseInv(e)
  <1>1. Init => Inv
    <2> SUFFICES ASSUME Init PROVE Inv
      OBVIOUS
    <2>1. mnt.pulse = 0 /\ mem.pulse = 0
      <3>1. PICK corr, south \in BOOLEAN, prec \in 0..2 :
               mnt = [ver |-> 0, jog |-> [a \in Axis |-> FALSE], pulse |-> 0, corr |-> corr,
                      south |-> south, prec |-> prec, site |-> "untold"]
        BY DEF Init
      <3>2. mnt.pulse = 0
        BY <3>1
      <3>3. mem.pulse = 0
        BY DEF Init
      <3> QED BY <3>2, <3>3
    <2> QED BY <2>1, CoreInit, ScriptInit DEF PulseInv, PulseOK
  <1>2. Inv /\ [Next]_vars => Inv'
    <2> SUFFICES ASSUME Core, ScriptInv, PulseInv(e), [Next]_vars
                 PROVE  Core' /\ ScriptInv' /\ PulseInv(e)'
      OBVIOUS
    <2>1. Core' /\ ScriptInv'
      BY CoreStep, ScriptStep DEF Core
    <2> QED BY <2>1, PulseStep
  <1>3. Inv => PulseCovered
    <2> SUFFICES ASSUME Inv, quiet, drv = "tenmicron" PROVE mnt.pulse <= mem.pulse
      BY DEF PulseCovered
    <2>1. call[e].todo = <<>>
      BY DEF quiet, ScriptInv
    <2> QED BY <2>1 DEF PulseInv, PulseOK, At
  <1> QED BY <1>1, <1>2, <1>3, PTL DEF Spec

(* While no command is under way the hemisphere that a 10Micron driver      *)
(* remembers is the one that Connect read or SetSiteLatitude set last, as   *)
(* long as the stream can be trusted and the mount has not taken its site   *)
(* from its GPS receiver since: whatever writes fail, those of Connect      *)
(* included.                                                                *)
THEOREM HemisphereTold ==
  ASSUME NEW e \in Client, Commander = {e}
  PROVE  Spec => []HemisphereKept
  <1> DEFINE Inv == Core /\ ScriptInv /\ OpenInv /\ SouthInv(e)
  <1>1. Init => Inv
    BY CoreInit, ScriptInit, SouthInit
  <1>2. Inv /\ [Next]_vars => Inv'
    <2> SUFFICES ASSUME Core, ScriptInv, OpenInv, SouthInv(e), [Next]_vars
                 PROVE  Core' /\ ScriptInv' /\ OpenInv' /\ SouthInv(e)'
      OBVIOUS
    <2>1. Core' /\ ScriptInv'
      BY CoreStep, ScriptStep DEF Core
    <2> QED BY <2>1, OpenStep, SouthStep
  <1>3. Inv => HemisphereKept
    <2> SUFFICES ASSUME Inv, quiet, drv = "tenmicron", ~loose, mnt.site = "told"
                 PROVE  mem.south = mnt.south
      BY DEF HemisphereKept, Sound
    <2>1. call[e].todo = <<>> /\ ~call[e].sent /\ phase = "open"
      BY DEF quiet, ScriptInv, Core, LockInv
    <2> QED BY <2>1 DEF SouthInv, SouthNow, SouthDue, At
  <1> QED BY <1>1, <1>2, <1>3, PTL DEF Spec

(***************************************************************************)
(* The speed correction.  It is due again while a move that turned it off  *)
(* is under way; then its user has it on, whatever the mount has, and      *)
(* otherwise the mount has it as its user asked.                           *)
(***************************************************************************)
CorrDue(t, sent, fix) ==
    fix \/ (t = <<SpeedCorrectionOn>> /\ ~sent) \/ At(t, "restore") \/ (t # <<>> /\ brackets(t[1]) /\ sent)

Leaves(t) == \A i \in 1..Len(t) : t[i].arg # "user" /\ t[i].does \notin {"corrOn", "corrOff"}

(* It is turned off only when it was on; once a restore is deferred nothing *)
(* touches it any more; the answers say what the mount has done and has.    *)
CorrOK(t, sent, fix, q, corr) ==
    /\ t # <<>> /\ brackets(t[1]) /\ ~sent => corr
    /\ fix => t # <<SpeedCorrectionOn>> /\ Leaves(t)
    /\ sent /\ brackets(t[1]) => q[1].c = "y" \/ corr
    /\ sent /\ t[1].op = "byte" /\ t[1].does = "askCorr" /\ q[1].c = "y" => corr

CorrNow(t, sent, fix, q, corr, wish) ==
    /\ CorrOK(t, sent, fix, q, corr)
    /\ IF CorrDue(t, sent, fix) THEN wish ELSE corr = wish

CorrInv(e) ==
    ~loose => CorrNow(call[e].todo, call[e].sent, call[e].fix, line, mnt.corr, user)

(* A script of the driver, and a rest of one, is not the restore. *)
LEMMA NotRestore ==
  ASSUME NEW t \in Seq(StepType), Follows(t)
  PROVE  t # <<SpeedCorrectionOn>>
  <1> SUFFICES ASSUME t = <<SpeedCorrectionOn>> PROVE FALSE
    OBVIOUS
  <1>1. Len(t) = 1 /\ t[1] = SpeedCorrectionOn
    BY RestoreTyped
  <1>2. SpeedCorrectionOn.does = "corrOn" /\ SpeedCorrectionOn.arg = "-"
    BY DEF SpeedCorrectionOn
  <1>3. t[1].does = "corrOn" /\ t[1].arg = "-"
    BY <1>1, <1>2
  <1>4. 1 \in 1..Len(t)
    BY <1>1
  <1> HIDE DEF SpeedCorrectionOn
  <1> QED BY <1>3, <1>4 DEF Follows

(* The bracket around a move: a command with an answer, then the restore. *)
LEMMA BracketPaid ==
  ASSUME NEW t \in Seq(StepType), t # <<>>, Ordered(t), brackets(t[1])
  PROVE  Follows(t) /\ owes(t[1]) /\ t[1].op = "ack"
  <1>1. Follows(t) /\ owes(t[1])
    <2>1. SpeedCorrectionOn.does = "corrOn"
      BY DEF SpeedCorrectionOn
    <2> QED BY <2>1, RestoreTyped DEF Ordered, owes, brackets
  <1>2. 1 \in 1..Len(t)
    BY First
  <1> QED BY <1>1, <1>2 DEF Follows, pays

(* What is left after the restore is deferred leaves the speed correction   *)
(* alone, and so does every rest of it and status().                        *)
LEMMA LeavesOn ==
  ASSUME NEW t \in Seq(StepType), t # <<>>, NEW u,
         \/ Leaves(t) /\ \E way : Goes(u, t, way)
         \/ Leaves(t) /\ \E d \in Drivers : u = Fetch[d] \o Tail(t)
         \/ Follows(t) /\ t[1].op = "restore" /\ \E way : Goes(u, t, way)
  PROVE  Leaves(u)
  <1>0. Len(t) \in Nat /\ Len(t) >= 1
    BY First
  <1>1. ASSUME NEW way, Goes(u, t, way), Leaves(t) \/ (Follows(t) /\ t[1].op = "restore") PROVE Leaves(u)
    <2>1. u = <<>> \/ \E n \in Nat : n >= 1 /\ Rest(u, t, n)
      <3>1. t[1] \in StepType
        BY First
      <3>2. t[1].skip \in Nat
        BY <3>1 DEF StepType
      <3>3. t[1].skip + 1 \in Nat /\ t[1].skip + 1 >= 1
        BY <3>2
      <3> QED BY <1>1, <3>3 DEF Goes
    <2>2. ASSUME NEW n \in Nat, n >= 1, Rest(u, t, n) PROVE Leaves(u)
      <3>1. Len(u) = Len(t) - n /\ \A i \in 1..(Len(t) - n) : u[i] = t[i + n]
        BY <2>2 DEF Rest
      <3>2. \A i \in 1..Len(u) : u[i] = t[i + n] /\ i + n \in 1..Len(t) /\ 1 < i + n /\ 1 \in 1..Len(t)
        BY <1>0, <2>2, <3>1
      <3>3. CASE Leaves(t)
        BY <3>2, <3>3 DEF Leaves
      <3>4. CASE Follows(t) /\ t[1].op = "restore"
        <4> SUFFICES ASSUME NEW i \in 1..Len(u)
                     PROVE  u[i].arg # "user" /\ u[i].does \notin {"corrOn", "corrOff"}
          BY DEF Leaves
        <4> DEFINE j == i + n
        <4>1. u[i] = t[j] /\ j \in 1..Len(t) /\ 1 < j /\ 1 \in 1..Len(t)
          BY <3>2
        <4> HIDE DEF j
        <4>2. t[j].arg # "user" /\ t[j].does # "corrOff"
          BY <3>4, <4>1 DEF Follows
        <4>3. t[j].does # "corrOn"
          BY <3>4, <4>1, <4>2 DEF Follows
        <4> QED BY <4>1, <4>2, <4>3
      <3> QED BY <1>1, <3>3, <3>4
    <2>3. u = <<>> => Leaves(u)
      BY DEF Leaves
    <2> QED BY <2>1, <2>2, <2>3
  <1>2. ASSUME NEW d \in Drivers, u = Fetch[d] \o Tail(t), Leaves(t) PROVE Leaves(u)
    <2> DEFINE f == Fetch[d]
               r == Tail(t)
    <2>1. f \in Seq(StepType) /\ Fetches(f) /\ r \in Seq(StepType) /\ Rest(r, t, 1)
      BY ScriptTypes, FetchAssumption, First
    <2>2. u = f \o r
      BY <1>2
    <2>3. Leaves(r)
      <3>1. Goes(r, t, "go")
        BY <2>1 DEF Goes
      <3> HIDE DEF r
      <3>2. Len(r) = Len(t) - 1 /\ \A i \in 1..(Len(t) - 1) : r[i] = t[i + 1]
        BY <2>1 DEF Rest
      <3>3. \A i \in 1..Len(r) : r[i] = t[i + 1] /\ i + 1 \in 1..Len(t)
        BY <1>0, <3>2
      <3> QED BY <1>2, <3>3 DEF Leaves
    <2> HIDE DEF f, r
    <2>4. /\ Len(u) = Len(f) + Len(r) /\ Len(f) \in Nat /\ Len(r) \in Nat
          /\ \A i \in 1..(Len(f) + Len(r)) : u[i] = IF i <= Len(f) THEN f[i] ELSE r[i - Len(f)]
      BY <2>1, <2>2, ConcatProperties
    <2>5. \A i \in 1..Len(f) : f[i].does = "nothing" /\ f[i].arg = "-"
      BY <2>1 DEF Fetches
    <2> SUFFICES ASSUME NEW i \in 1..Len(u)
                 PROVE  u[i].arg # "user" /\ u[i].does \notin {"corrOn", "corrOff"}
      BY DEF Leaves
    <2>6. CASE i <= Len(f)
      <3>1. i \in 1..Len(f) /\ u[i] = f[i]
        BY <2>4, <2>6
      <3> QED BY <2>5, <3>1
    <2>7. CASE ~(i <= Len(f))
      <3>1. i - Len(f) \in 1..Len(r) /\ u[i] = r[i - Len(f)]
        BY <2>4, <2>7
      <3> QED BY <2>3, <3>1 DEF Leaves
    <2> QED BY <2>6, <2>7
  <1> QED BY <1>1, <1>2

(* A call that stands before none of these steps. *)
LEMMA CorrPlain ==
  ASSUME NEW u, NEW fix \in BOOLEAN, NEW q, NEW corr \in BOOLEAN, NEW wish \in BOOLEAN,
         ~At(u, "restore"), u # <<SpeedCorrectionOn>>, u # <<>> /\ brackets(u[1]) => corr,
         fix => Leaves(u), IF fix THEN wish ELSE corr = wish
  PROVE  CorrNow(u, FALSE, fix, q, corr, wish)
  BY DEF CorrNow, CorrOK, CorrDue

(* A command keeps it. *)
LEMMA CorrWrite ==
  ASSUME Core, ScriptInv, NEW e \in Client, CorrInv(e), NEW op \in Wire, write(e, op),
         call'[e].todo \in Seq(StepType), ~loose'
  PROVE  CorrNow(call'[e].todo, call'[e].sent, call'[e].fix, line', mnt'.corr, user')
  <1> DEFINE t == call[e].todo
             u == call'[e].todo
             fix == call[e].fix
             corr == mnt.corr
             corr2 == mnt'.corr
  <1>0. /\ TypeOK /\ t \in Seq(StepType) /\ u \in Seq(StepType) /\ Ordered(t)
        /\ corr \in BOOLEAN /\ user \in BOOLEAN /\ fix \in BOOLEAN
    <2>1. TypeOK
      BY DEF Core
    <2>2. t \in Seq(StepType) /\ Ordered(t) /\ fix \in BOOLEAN
      BY <2>1 DEF TypeOK, CallType, ScriptInv
    <2>3. corr \in BOOLEAN /\ user \in BOOLEAN
      BY <2>1 DEF TypeOK
    <2> QED BY <2>1, <2>2, <2>3
  <1>1. t # <<>> /\ t[1] \in StepType /\ t[1].op = op /\ 1 \in 1..Len(t)
    <2>1. t # <<>> /\ t[1] \in StepType /\ t[1].op = op
      BY OwnWrite
    <2> QED BY <1>0, <2>1, First
  <1>2. PICK accepted \in BOOLEAN : Wrote(e, t[1], accepted)
    BY OwnWrite
  <1>3. /\ ~loose /\ ~call[e].sent /\ call'[e].fix = fix
        /\ user' = IF (accepted /\ t[1].arg = "user") \/ (~accepted /\ restores(t[1])) THEN corr2 ELSE user
    BY <1>2 DEF Wrote
  <1>4. corr2 = IF accepted /\ t[1].does = "corrOn" THEN TRUE
                ELSE IF accepted /\ t[1].does = "corrOff" THEN FALSE ELSE corr
    <2>1. mnt \in MountType
      BY <1>0 DEF TypeOK, MountType
    <2>2. Obey(t[1]).corr = IF t[1].does = "corrOn" THEN TRUE ELSE IF t[1].does = "corrOff" THEN FALSE ELSE mnt.corr
      BY <1>1, <2>1, Obeys
    <2>3. mnt' = IF accepted \/ t[1].does = "askSouth" THEN Obey(t[1]) ELSE mnt
      BY <1>2 DEF Wrote
    <2> QED BY <2>2, <2>3
  <1>5. CorrNow(t, FALSE, fix, line, corr, user)
    <2>1. call[e].sent = FALSE
      BY <1>0, <1>3 DEF TypeOK, CallType
    <2>2. CorrNow(t, call[e].sent, fix, line, corr, user)
      BY <1>3 DEF CorrInv
    <2> QED BY <2>1, <2>2, Zenon
  <1>6. corr2 \in BOOLEAN /\ user' \in BOOLEAN
    BY <1>0, <1>3, <1>4
  <1>7. ~At(t, "restore")
    BY <1>1 DEF At, Wire
  <1>8. ASSUME fix PROVE corr2 = corr /\ user' = user /\ user /\ Leaves(t) /\ t # <<SpeedCorrectionOn>>
    <2>1. Leaves(t) /\ t # <<SpeedCorrectionOn>> /\ user
      BY <1>5, <1>8 DEF CorrNow, CorrOK, CorrDue
    <2>2. t[1].arg # "user" /\ t[1].does \notin {"corrOn", "corrOff"}
      BY <1>1, <2>1 DEF Leaves
    <2> QED BY <1>3, <1>4, <2>1, <2>2 DEF restores
  <1>9. ASSUME ~fix, ~brackets(t[1]), Follows(t) PROVE corr2 = user'
    <2>1. corr = user
      <3>1. t # <<SpeedCorrectionOn>>
        BY <1>0, <1>9, NotRestore
      <3> QED BY <1>5, <1>7, <1>9, <3>1 DEF CorrNow, CorrDue
    <2>2. t[1].does = "corrOn" => t[1].arg = "user"
      BY <1>1, <1>9 DEF Follows
    <2>3. t[1].does = "corrOff" => t[1].arg = "user"
      BY <1>9 DEF brackets
    <2> QED BY <1>3, <1>4, <2>1, <2>2, <2>3 DEF restores
  <1>10. CASE op = "blind"
    <2>1. Goes(u, t, Way(t[1], "yes")) /\ ~call'[e].sent
      BY <1>1, <1>2, <1>10 DEF Wrote, Moved
    <2>2. Follows(t)
      <3>1. SpeedCorrectionOn.op = "ack"
        BY DEF SpeedCorrectionOn
      <3> QED BY <1>0, <1>1, <1>10, <3>1, RestoreTyped DEF Ordered
    <2>3. ~brackets(t[1])
      BY <1>0, <1>1, <1>10, BracketPaid
    <2> HIDE DEF t, u, fix, corr, corr2
    <2>4. ASSUME u # <<>>, u[1].op = "restore" \/ brackets(u[1]) PROVE FALSE
      <3>1. guarded(u[1])
        BY <2>4 DEF guarded
      <3>2. backs(t[1], u[1])
        BY <1>0, <1>1, <2>1, <2>2, <2>4, <3>1, Reached
      <3> QED BY <1>1, <1>10, <2>4, <3>2 DEF backs
    <2>5. u # <<SpeedCorrectionOn>>
      BY <1>0, <1>1, <2>1, <2>2, GoesFollows, NotRestore
    <2>6. fix => Leaves(u)
      BY <1>0, <1>1, <1>8, <2>1, LeavesOn
    <2>7. IF fix THEN user' ELSE corr2 = user'
      BY <1>8, <1>9, <2>2, <2>3
    <2>8. CorrNow(u, FALSE, fix, line', corr2, user')
      BY <1>0, <1>6, <2>4, <2>5, <2>6, <2>7, CorrPlain DEF At
    <2>9. call'[e].sent = FALSE
      <3>1. call'[e].sent \in BOOLEAN
        BY <1>0, <2>1, WriteStep DEF Others, CallType
      <3> QED BY <2>1, <3>1
    <2> QED BY <1>3, <2>8, <2>9 DEF u, fix, corr2
  <1>11. CASE op # "blind"
    <2>1. u = t /\ call'[e].sent
      BY <1>1, <1>2, <1>11 DEF Wrote
    <2>2. op # "get" => (line'[1].c = "y" <=> accepted)
      BY <1>1, <1>2, <1>11 DEF Wrote
    <2>3. t[1].does = "askCorr" => accepted = corr
      BY <1>1, <1>2, <1>11 DEF Wrote
    <2> DEFINE sent2 == call'[e].sent
    <2> HIDE DEF t, u, fix, corr, corr2, sent2
    <2>4. CorrOK(t, sent2, fix, line', corr2)
      <3>1. fix => t # <<SpeedCorrectionOn>> /\ Leaves(t)
        BY <1>8
      <3>2. brackets(t[1]) => line'[1].c = "y" \/ corr2
        <4> SUFFICES ASSUME brackets(t[1]), ~accepted PROVE corr2
          BY <1>0, <1>1, <2>2, BracketPaid
        <4>1. corr
          BY <1>1, <1>5 DEF CorrNow, CorrOK
        <4> QED BY <1>4, <4>1
      <3>3. t[1].op = "byte" /\ t[1].does = "askCorr" /\ line'[1].c = "y" => corr2
        BY <1>0, <1>1, <1>4, <2>2, <2>3
      <3> QED BY <2>1, <3>1, <3>2, <3>3 DEF CorrOK, sent2
    <2>5. IF CorrDue(t, sent2, fix) THEN user' ELSE corr2 = user'
      <3>1. CorrDue(t, sent2, fix) <=> fix \/ brackets(t[1])
        BY <1>1, <1>7, <2>1 DEF CorrDue, sent2
      <3>2. CASE fix
        BY <1>8, <3>1, <3>2
      <3>3. CASE ~fix /\ brackets(t[1])
        <4>1. Follows(t)
          BY <1>0, <1>1, <3>3, BracketPaid
        <4>2. t # <<SpeedCorrectionOn>>
          BY <1>0, <4>1, NotRestore
        <4>3. corr /\ corr = user
          BY <1>1, <1>5, <1>7, <3>3, <4>2 DEF CorrNow, CorrOK, CorrDue
        <4>4. user' = user
          BY <1>3, <3>3 DEF brackets, restores
        <4> QED BY <3>1, <3>3, <4>3, <4>4
      <3>4. CASE ~fix /\ ~brackets(t[1]) /\ t = <<SpeedCorrectionOn>>
        <4>1. t[1].does = "corrOn" /\ t[1].arg = "-"
          BY <3>4, RestoreTyped DEF SpeedCorrectionOn
        <4>2. user
          BY <1>5, <3>4 DEF CorrNow, CorrDue
        <4>3. accepted => corr2 = TRUE /\ user' = user
          BY <1>3, <1>4, <4>1
        <4>4. ~accepted => user' = corr2
          BY <1>3, <4>1 DEF restores
        <4> QED BY <1>0, <3>1, <3>4, <4>2, <4>3, <4>4
      <3>5. CASE ~fix /\ ~brackets(t[1]) /\ t # <<SpeedCorrectionOn>>
        <4>1. corr2 = user'
          BY <1>0, <1>9, <3>5 DEF Ordered
        <4> QED BY <3>1, <3>5, <4>1
      <3> QED BY <3>2, <3>3, <3>4, <3>5
    <2>6. CorrNow(t, sent2, fix, line', corr2, user')
      BY <2>4, <2>5 DEF CorrNow
    <2> QED BY <1>3, <2>1, <2>6 DEF u, fix, corr2, sent2
  <1> QED BY <1>10, <1>11

(* A write that fails keeps it: without the restore nothing is off that was *)
(* not off before, and what is then left of the call does not turn it off.  *)
LEMMA CorrBroke ==
  ASSUME Core, Core', ScriptInv, NEW e \in Client, CorrInv(e), Passes(e), Broke(e), ~loose'
  PROVE  CorrNow(call'[e].todo, call'[e].sent, call'[e].fix, line', mnt'.corr, user')
  <1> DEFINE t == call[e].todo
             u == call'[e].todo
             fix == call[e].fix
             corr == mnt.corr
  <1>0. /\ TypeOK /\ TypeOK' /\ t \in Seq(StepType) /\ u \in Seq(StepType) /\ Ordered(t)
        /\ corr \in BOOLEAN /\ user \in BOOLEAN /\ fix \in BOOLEAN
    <2>1. TypeOK /\ TypeOK'
      BY DEF Core
    <2>2. t \in Seq(StepType) /\ u \in Seq(StepType) /\ fix \in BOOLEAN
      BY <2>1 DEF TypeOK, CallType
    <2>3. corr \in BOOLEAN /\ user \in BOOLEAN /\ Ordered(t)
      BY <2>1 DEF TypeOK, ScriptInv
    <2> QED BY <2>1, <2>2, <2>3
  <1>1. /\ mnt' = mnt /\ ~loose /\ call'[e].fix = fix /\ ~call[e].sent
        /\ user' = IF restores(t[1]) THEN corr ELSE user
        /\ t # <<>> /\ t[1].op \in Wire /\ 1 \in 1..Len(t)
    <2>1. mnt' = mnt /\ ~loose
      BY DEF Passes
    <2>2. /\ call'[e].fix = fix /\ ~call[e].sent /\ t # <<>> /\ t[1].op \in Wire
          /\ user' = IF restores(t[1]) THEN corr ELSE user
      BY DEF Broke
    <2> QED BY <1>0, <2>1, <2>2, First
  <1>2. Goes(u, t, Way(t[1], "err")) /\ call'[e].sent = FALSE
    <2>1. Goes(u, t, Way(t[1], "err")) /\ ~call'[e].sent
      BY DEF Broke, Moved
    <2> QED BY <1>0, <2>1 DEF TypeOK, CallType
  <1>3. ~At(t, "restore")
    BY <1>1 DEF At, Wire
  <1>4. CorrNow(t, FALSE, fix, line, corr, user)
    <2>1. call[e].sent = FALSE
      BY <1>0, <1>1 DEF TypeOK, CallType
    <2>2. CorrNow(t, call[e].sent, fix, line, corr, user)
      BY <1>1 DEF CorrInv
    <2> QED BY <2>1, <2>2, Zenon
  <1> SUFFICES CorrNow(u, FALSE, fix, line', corr, user')
    BY <1>1, <1>2
  <1>5. ASSUME u # <<>>, u[1].op = "restore" \/ brackets(u[1])
        PROVE  backs(t[1], u[1]) /\ t[1].err = "go"
    <2>1. guarded(u[1])
      BY <1>5 DEF guarded
    <2> QED BY <1>0, <1>1, <1>5, <2>1, Lands DEF Way
  <1> HIDE DEF t, u, fix, corr
  <1>6. CASE t = <<SpeedCorrectionOn>>
    <2>1. u = <<>>
      BY <1>0, <1>2, <1>6, RestoreAlone
    <2>2. restores(t[1]) /\ ~fix
      <3>1. t[1].does = "corrOn" /\ t[1].arg = "-"
        BY <1>6, RestoreTyped DEF SpeedCorrectionOn
      <3> QED BY <1>4, <1>6, <3>1 DEF restores, CorrNow, CorrOK
    <2>3. user' = corr
      BY <1>1, <2>2
    <2> QED BY <1>0, <2>1, <2>2, <2>3, CorrPlain, RestoreTyped DEF At
  <1>7. CASE Follows(t)
    <2>1. u # <<SpeedCorrectionOn>> /\ t # <<SpeedCorrectionOn>>
      BY <1>0, <1>1, <1>2, <1>7, GoesFollows, NotRestore
    <2>2. user' = user
      <3>1. ~restores(t[1])
        BY <1>1, <1>7 DEF Follows, restores
      <3> QED BY <1>1, <3>1
    <2>3. fix => Leaves(u)
      BY <1>0, <1>1, <1>2, <1>4, LeavesOn DEF CorrNow, CorrOK
    <2>4. IF fix THEN user ELSE corr = user
      BY <1>3, <1>4, <2>1 DEF CorrNow, CorrDue
    <2>5. CASE brackets(t[1])
      <3>1. corr /\ ~fix
        <4>1. corr /\ (fix => Leaves(t))
          BY <1>1, <1>4, <2>5 DEF CorrNow, CorrOK
        <4> QED BY <1>1, <2>5, <4>1 DEF Leaves, brackets
      <3>2. user
        BY <1>0, <2>4, <3>1
      <3>3. CASE At(u, "restore")
        <4>1. CorrOK(u, FALSE, fix, line', corr)
          BY <3>1 DEF CorrOK
        <4> QED BY <2>2, <3>2, <3>3, <4>1 DEF CorrNow, CorrDue
      <3>4. CASE ~At(u, "restore")
        BY <1>0, <2>1, <2>2, <2>3, <2>4, <3>1, <3>4, CorrPlain
      <3> QED BY <3>3, <3>4
    <2>6. CASE ~brackets(t[1])
      <3>1. ~At(u, "restore")
        BY <1>5, <2>6 DEF backs, At
      <3>2. u # <<>> => ~brackets(u[1])
        BY <1>5 DEF backs
      <3> QED BY <1>0, <2>1, <2>2, <2>3, <2>4, <3>1, <3>2, CorrPlain
    <2> QED BY <2>5, <2>6
  <1> QED BY <1>0, <1>6, <1>7 DEF Ordered

(* A step that neither sends nor remembers keeps it. *)
LEMMA CorrPass ==
  ASSUME Core, Core', ScriptInv, NEW e \in Client, CorrInv(e), Passes(e), ~Broke(e), ~loose'
  PROVE  CorrNow(call'[e].todo, call'[e].sent, call'[e].fix, line', mnt'.corr, user')
  <1> DEFINE t == call[e].todo
             u == call'[e].todo
             fix == call[e].fix
             fix2 == call'[e].fix
             sent == call[e].sent
             corr == mnt.corr
  <1>0. /\ TypeOK /\ TypeOK' /\ LockInv /\ t \in Seq(StepType) /\ u \in Seq(StepType) /\ Ordered(t)
        /\ corr \in BOOLEAN /\ user \in BOOLEAN /\ fix \in BOOLEAN /\ fix2 \in BOOLEAN /\ drv \in Drivers
    <2>1. TypeOK /\ TypeOK' /\ LockInv /\ drv \in Drivers
      BY DEF Core, TypeOK
    <2>2. t \in Seq(StepType) /\ u \in Seq(StepType) /\ fix \in BOOLEAN /\ fix2 \in BOOLEAN
      BY <2>1 DEF TypeOK, CallType
    <2>3. corr \in BOOLEAN /\ user \in BOOLEAN /\ Ordered(t)
      BY <2>1 DEF TypeOK, ScriptInv
    <2> QED BY <2>1, <2>2, <2>3
  <1>1. mnt' = mnt /\ user' = user /\ ~loose
    BY DEF Passes
  <1>2. Answered(e) \/ Local(e) \/ Turned(e) \/ Began(e) \/ Ended(e)
    BY <1>1 DEF Passes
  <1>3. call'[e].sent = FALSE
    <2>1. ~call'[e].sent
      BY <1>2 DEF Answered, Local, Turned, Began, Ended, Moved
    <2> QED BY <1>0, <2>1 DEF TypeOK, CallType
  <1>4. CorrNow(t, sent, fix, line, corr, user)
    BY <1>1 DEF CorrInv
  <1> SUFFICES CorrNow(u, FALSE, fix2, line', corr, user)
    BY <1>1, <1>3
  <1>5. ASSUME u # <<>>, u[1].op = "restore" \/ brackets(u[1])
        PROVE  /\ sent /\ t # <<>> /\ backs(t[1], u[1])
               /\ \E how \in {"yes", "no"} :
                     /\ Way(t[1], how) = "go"
                     /\ t[1].op \in {"ack", "byte"} => (how = "yes" <=> line[1].c = "y")
    <2>1. guarded(u[1])
      BY <1>5 DEF guarded
    <2> QED BY <1>0, <1>1, <1>5, <2>1, Lands
  <1>6. ASSUME ~sent, t # <<>>, t[1].op # "ack", Follows(u), fix => Leaves(u), fix2 = fix, t[1].op # "restore"
        PROVE  CorrNow(u, FALSE, fix2, line', corr, user)
    <2>1. t # <<SpeedCorrectionOn>>
      BY <1>6, RestoreTyped DEF SpeedCorrectionOn
    <2>2. IF fix THEN user ELSE corr = user
      BY <1>4, <1>6, <2>1 DEF CorrNow, CorrDue, At
    <2>3. u # <<SpeedCorrectionOn>>
      BY <1>0, <1>6, NotRestore
    <2> HIDE DEF t, u, sent, fix, fix2, corr
    <2> QED BY <1>0, <1>5, <1>6, <2>2, <2>3, CorrPlain DEF At
  <1>7. CASE Answered(e)
    <2>1. sent /\ fix2 = fix /\ t # <<>> /\ t[1].op \in Wire \ {"blind"}
      BY <1>0, <1>7 DEF Answered, LockInv
    <2>2. PICK how \in {"yes", "no"} :
             Moved(e, how) /\ (t[1].op \in {"ack", "byte"} => (how = "yes" <=> line[1].c = "y"))
      BY <1>7 DEF Answered
    <2>3. Goes(u, t, Way(t[1], how))
      BY <2>2 DEF Moved
    <2>4. CorrOK(t, sent, fix, line, corr) /\ (IF fix \/ brackets(t[1]) THEN user ELSE corr = user)
      BY <1>4, <2>1 DEF CorrNow, CorrDue, At, Wire
    <2> HIDE DEF t, u, sent, fix, fix2, corr
    <2>5. CASE t = <<SpeedCorrectionOn>>
      <3>1. u = <<>>
        BY <1>0, <2>3, <2>5, RestoreAlone
      <3>2. ~brackets(t[1]) /\ ~fix
        <4>1. t[1].does = "corrOn"
          BY <2>5, RestoreTyped DEF SpeedCorrectionOn
        <4> QED BY <2>4, <2>5, <4>1 DEF brackets, CorrOK
      <3> QED BY <1>0, <2>1, <2>4, <3>1, <3>2, CorrPlain, RestoreTyped DEF At
    <2>6. CASE Follows(t)
      <3>1. u # <<SpeedCorrectionOn>>
        BY <1>0, <2>1, <2>3, <2>6, GoesFollows, NotRestore
      <3>2. fix => Leaves(u)
        BY <1>0, <2>1, <2>3, <2>4, LeavesOn DEF CorrOK
      <3>3. CASE brackets(t[1])
        <4>1. t[1].op = "ack" /\ owes(t[1]) /\ user /\ ~fix
          <5>1. t[1].op = "ack" /\ owes(t[1]) /\ 1 \in 1..Len(t)
            BY <1>0, <2>1, <3>3, BracketPaid, First
          <5>2. fix => Leaves(t)
            BY <2>4 DEF CorrOK
          <5> QED BY <2>4, <3>3, <5>1, <5>2 DEF Leaves, brackets
        <4>2. CASE At(u, "restore")
          <5>1. ~brackets(u[1])
            BY <1>5, <4>1, <4>2 DEF backs, At
          <5>2. CorrOK(u, FALSE, fix2, line', corr)
            BY <2>1, <3>1, <3>2, <5>1 DEF CorrOK
          <5> QED BY <4>1, <4>2, <5>2 DEF CorrNow, CorrDue
        <4>3. CASE ~At(u, "restore")
          <5>1. line[1].c # "y"
            <6> SUFFICES ASSUME line[1].c = "y" PROVE FALSE
              OBVIOUS
            <6>1. how = "yes"
              BY <2>2, <4>1
            <6>2. u # <<>> /\ pays(t[1], u[1])
              BY <1>0, <2>1, <2>3, <2>6, <4>1, <6>1, Owed
            <6> QED BY <3>3, <4>3, <6>2 DEF pays, At
          <5>2. corr
            BY <2>1, <2>4, <3>3, <5>1 DEF CorrOK
          <5> QED BY <1>0, <2>1, <3>1, <3>2, <4>1, <4>3, <5>2, CorrPlain
        <4> QED BY <4>2, <4>3
      <3>4. CASE ~brackets(t[1])
        <4>1. ~At(u, "restore")
          BY <1>5, <3>4 DEF backs, At
        <4>2. ASSUME u # <<>>, brackets(u[1]) PROVE corr
          <5>1. backs(t[1], u[1]) /\ t[1].op = "byte" /\ t[1].does = "askCorr" /\ t[1].no # "go"
            BY <1>5, <4>2 DEF backs
          <5>2. line[1].c = "y"
            BY <1>5, <4>2, <5>1 DEF Way
          <5> QED BY <2>1, <2>4, <5>1, <5>2 DEF CorrOK
        <4> QED BY <1>0, <2>1, <2>4, <3>1, <3>2, <3>4, <4>1, <4>2, CorrPlain
      <3> QED BY <3>3, <3>4
    <2> QED BY <1>0, <2>5, <2>6 DEF Ordered
  <1>8. CASE Local(e)
    <2>1. /\ ~sent /\ t # <<>> /\ IF t[1].op = "restore" THEN fix2 ELSE fix2 = fix
          /\ t[1].op \in {"check", "status", "store", "invalidate", "askMoving", "restore"}
      BY <1>8 DEF Local
    <2>2. PICK how : Goes(u, t, Way(t[1], how))
      BY <1>8 DEF Local, Moved
    <2> HIDE DEF t, u, sent, fix, fix2, corr
    <2>3. Follows(t)
      <3>1. SpeedCorrectionOn.op = "ack"
        BY DEF SpeedCorrectionOn
      <3> QED BY <1>0, <2>1, <3>1, RestoreTyped DEF Ordered
    <2>4. Follows(u)
      BY <1>0, <2>1, <2>2, <2>3, GoesFollows
    <2>5. CASE t[1].op # "restore"
      <3>1. fix => Leaves(u)
        BY <1>0, <1>4, <2>1, <2>2, LeavesOn DEF CorrNow, CorrOK
      <3> QED BY <1>6, <2>1, <2>4, <2>5, <3>1
    <2>6. CASE t[1].op = "restore"
      <3>1. Leaves(u)
        BY <1>0, <2>1, <2>2, <2>3, <2>6, LeavesOn
      <3>2. user
        BY <1>4, <2>1, <2>6 DEF CorrNow, CorrDue, At
      <3>3. u # <<SpeedCorrectionOn>>
        BY <1>0, <2>4, NotRestore
      <3>4. fix2
        BY <2>1, <2>6
      <3> QED BY <1>0, <1>5, <2>1, <3>1, <3>2, <3>3, <3>4, CorrPlain DEF At
    <2> QED BY <2>5, <2>6
  <1>9. CASE Turned(e)
    <2>1. /\ ~sent /\ t # <<>> /\ fix2 = fix
          /\ \/ t[1].op = "askMoving" /\ u = <<>>
             \/ t[1].op = "status" /\ u = Fetch[drv] \o Tail(t)
      BY <1>9 DEF Turned
    <2> HIDE DEF t, u, sent, fix, fix2, corr
    <2>2. Follows(t)
      <3>1. SpeedCorrectionOn.op = "ack"
        BY DEF SpeedCorrectionOn
      <3> QED BY <1>0, <2>1, <3>1, RestoreTyped DEF Ordered
    <2>3. Follows(u)
      BY <1>0, <2>1, <2>2, EmptyFollows, FetchFollows
    <2>4. fix => Leaves(u)
      <3> SUFFICES ASSUME fix PROVE Leaves(u)
        OBVIOUS
      <3>1. Leaves(t)
        BY <1>4 DEF CorrNow, CorrOK
      <3>2. u = <<>> => Leaves(u)
        BY DEF Leaves
      <3> QED BY <1>0, <2>1, <3>1, <3>2, LeavesOn
    <2> QED BY <1>6, <2>1, <2>3, <2>4
  <1>10. CASE Began(e)
    <2>1. t = <<>> /\ ~fix /\ ~sent /\ ~fix2 /\ u \in Scripts(drv)
      BY <1>0, <1>10 DEF Began, ScriptInv, LockInv
    <2>2. corr = user
      BY <1>4, <2>1, RestoreTyped DEF CorrNow, CorrDue, At
    <2>3. Follows(u)
      BY <1>0, <2>1, FollowAssumption
    <2>4. u # <<SpeedCorrectionOn>>
      BY <1>0, <2>3, NotRestore
    <2> HIDE DEF t, u, sent, fix, fix2, corr
    <2> QED BY <1>0, <1>5, <2>1, <2>2, <2>4, CorrPlain DEF At
  <1>11. CASE Ended(e)
    <2>1. t = <<>> /\ ~sent /\ ~fix2 /\ u = IF fix THEN <<SpeedCorrectionOn>> ELSE <<>>
      BY <1>0, <1>11 DEF Ended, LockInv
    <2> HIDE DEF t, u, sent, fix, fix2, corr
    <2>2. IF fix THEN user ELSE corr = user
      BY <1>4, <2>1, RestoreTyped DEF CorrNow, CorrDue, At
    <2>3. CASE fix
      <3>1. u = <<SpeedCorrectionOn>> /\ ~brackets(u[1])
        BY <2>1, <2>3, RestoreTyped DEF SpeedCorrectionOn, brackets
      <3>2. CorrDue(u, FALSE, fix2) /\ CorrOK(u, FALSE, fix2, line', corr)
        BY <2>1, <3>1 DEF CorrDue, CorrOK
      <3> QED BY <2>2, <2>3, <3>2 DEF CorrNow
    <2>4. CASE ~fix
      BY <1>0, <2>1, <2>2, <2>4, CorrPlain, RestoreTyped DEF At
    <2> QED BY <2>3, <2>4
  <1> QED BY <1>2, <1>7, <1>8, <1>9, <1>10, <1>11

(* Every step keeps it. *)
LEMMA CorrStep ==
  ASSUME Core, ScriptInv, NEW e \in Client, Commander = {e}, CorrInv(e), [Next]_vars
  PROVE  CorrInv(e)'
  <1>0. TypeOK /\ TypeOK' /\ Core' /\ call'[e].todo \in Seq(StepType)
    <2>1. TypeOK /\ TypeOK' /\ Core'
      BY CoreStep DEF Core
    <2> QED BY <2>1 DEF TypeOK, CallType
  <1> DEFINE Goal == CorrNow(call'[e].todo, call'[e].sent, call'[e].fix, line', mnt'.corr, user')
  <1> SUFFICES ASSUME ~loose' PROVE Goal
    BY DEF CorrInv
  <1>1. CASE Apart(e)
    <2>1. /\ ~loose /\ call'[e] = call[e] /\ mnt' = mnt /\ user' = user
          /\ call[e].sent => line' = line
      BY <1>1 DEF Apart
    <2>2. CorrNow(call[e].todo, call[e].sent, call[e].fix, line, mnt.corr, user)
      BY <2>1 DEF CorrInv
    <2>3. CorrNow(call[e].todo, call[e].sent, call[e].fix, line', mnt.corr, user)
      BY <2>1, <2>2 DEF CorrNow, CorrOK
    <2> QED BY <2>1, <2>3
  <1>2. CASE tick
    <2>1. ~loose /\ call' = call /\ line' = line /\ user' = user
      BY <1>2 DEF tick
    <2>2. mnt'.corr = mnt.corr
      BY <1>0, <1>2 DEF tick, TypeOK
    <2> QED BY <2>1, <2>2 DEF CorrInv
  <1>3. ASSUME NEW op \in Wire, write(e, op) PROVE Goal
    BY <1>0, <1>3, CorrWrite
  <1>4. CASE Passes(e)
    BY <1>0, <1>4, CorrBroke, CorrPass
  <1>5. CASE Remembers(e)
    <2> DEFINE t == call[e].todo
               u == call'[e].todo
               fix == call[e].fix
               sent == call[e].sent
               corr == mnt.corr
    <2>1. /\ t # <<>> /\ ~sent /\ Moved(e, "yes") /\ call'[e].fix = fix
          /\ t[1].op \in {"setMoving", "stopMoving", "clearMoving", "setPulse", "setSouth", "setParked"}
          /\ mnt' = mnt /\ user' = user /\ ~loose /\ (u # <<>> => ~guarded(u[1]))
      BY <1>5, OwnMemory
    <2>2. Goes(u, t, Way(t[1], "yes")) /\ ~call'[e].sent
      BY <2>1 DEF Moved
    <2>3. /\ t \in Seq(StepType) /\ u \in Seq(StepType) /\ Ordered(t) /\ fix \in BOOLEAN
          /\ call'[e].sent = FALSE
      BY <1>0, <2>2 DEF TypeOK, CallType, ScriptInv
    <2>4. corr \in BOOLEAN /\ user \in BOOLEAN
      BY <1>0 DEF TypeOK
    <2>5. CorrNow(t, sent, fix, line, corr, user)
      BY <2>1 DEF CorrInv
    <2> HIDE DEF t, u, fix, sent, corr
    <2>6. Follows(t) /\ t # <<SpeedCorrectionOn>>
      <3>1. SpeedCorrectionOn.op = "ack"
        BY DEF SpeedCorrectionOn
      <3> QED BY <2>1, <2>3, <3>1, RestoreTyped DEF Ordered
    <2>7. u # <<SpeedCorrectionOn>>
      BY <2>1, <2>2, <2>3, <2>6, GoesFollows, NotRestore
    <2>8. fix => Leaves(u)
      BY <2>1, <2>2, <2>3, <2>5, LeavesOn DEF CorrNow, CorrOK
    <2>9. IF fix THEN user ELSE corr = user
      BY <2>1, <2>5, <2>6 DEF CorrNow, CorrDue, At
    <2>10. CorrNow(u, FALSE, fix, line', corr, user)
      BY <2>1, <2>3, <2>4, <2>7, <2>8, <2>9, CorrPlain DEF At, guarded
    <2> QED BY <2>1, <2>3, <2>10 DEF u, fix, corr
  <1> QED BY <1>1, <1>2, <1>3, <1>4, <1>5, OneCommands, Own

(* At the start the mount has it as its user set it. *)
LEMMA CorrInit == ASSUME NEW e \in Client, Commander = {e}, Init PROVE CorrInv(e)
  <1> DEFINE t == call[e].todo
             corr == mnt.corr
  <1>1. TypeOK /\ drv \in Drivers /\ user = corr
    <2>1. TypeOK
      BY InitTyped
    <2>2. user = corr
      BY Zenon DEF Init
    <2> QED BY <2>1, <2>2 DEF TypeOK
  <1>2. t \in Open[drv] /\ call[e].sent = FALSE /\ call[e].fix = FALSE /\ t \in Seq(StepType)
    <2>1. t \in Open[drv] /\ ~call[e].sent /\ ~call[e].fix
      BY ScriptInit
    <2>2. call[e] \in CallType
      BY <1>1 DEF TypeOK
    <2> QED BY <2>1, <2>2 DEF CallType
  <1>3. Follows(t) /\ (t # <<>> => ~guarded(t[1]))
    <2>1. t \in Scripts(drv)
      BY <1>2 DEF Scripts
    <2> QED BY <1>1, <2>1, FollowAssumption
  <1>4. t # <<SpeedCorrectionOn>>
    BY <1>2, <1>3, NotRestore
  <1>5. corr \in BOOLEAN /\ user \in BOOLEAN
    BY <1>1 DEF TypeOK
  <1> HIDE DEF t, corr
  <1>6. CorrNow(t, FALSE, FALSE, line, corr, user)
    BY <1>1, <1>3, <1>4, <1>5, CorrPlain DEF At, guarded
  <1> QED BY <1>2, <1>6 DEF CorrInv, t, corr

(* MoveAxisRate turns the speed correction off for the move only: while no  *)
(* command is under way it is as its user set it, also when commands of the *)
(* move were refused or could not be written, as long as the stream can be  *)
(* trusted.                                                                 *)
THEOREM CorrectionReturns ==
  ASSUME NEW e \in Client, Commander = {e}
  PROVE  Spec => []CorrectionRestored
  <1> DEFINE Inv == Core /\ ScriptInv /\ CorrInv(e)
  <1>1. Init => Inv
    BY CoreInit, ScriptInit, CorrInit
  <1>2. Inv /\ [Next]_vars => Inv'
    <2> SUFFICES ASSUME Core, ScriptInv, CorrInv(e), [Next]_vars
                 PROVE  Core' /\ ScriptInv' /\ CorrInv(e)'
      OBVIOUS
    <2>1. Core' /\ ScriptInv'
      BY CoreStep, ScriptStep DEF Core
    <2> QED BY <2>1, CorrStep
  <1>3. Inv => CorrectionRestored
    <2> SUFFICES ASSUME Inv, quiet, ~loose PROVE mnt.corr = user
      BY DEF CorrectionRestored, Sound
    <2>1. call[e].todo = <<>> /\ ~call[e].sent /\ ~call[e].fix
      BY DEF quiet, ScriptInv, Core, LockInv
    <2> QED BY <2>1, RestoreTyped DEF CorrInv, CorrNow, CorrDue, At
  <1> QED BY <1>1, <1>2, <1>3, PTL DEF Spec

=============================================================================
