-------------------------- MODULE RstSessionProofs --------------------------
(***************************************************************************)
(* One caller of the RST driver, on a channel whose answers come in time   *)
(* or not at all: no :Q# reaches a seeking mount, Slewing, AlpacaAtPark    *)
(* and AlpacaAtHome tell the truth, HomePosition is home and no seek       *)
(* leaves a mount that was parked, for any of the caller's operations in   *)
(* any order and any bounds.                                               *)
(***************************************************************************)
EXTENDS RstMountProofs

(* The setting. One caller, who waits for the mount to stop before it commands *)
(* (Patient) and uses none of the operations that move an axis by hand, whose  *)
(* stop ends whatever else is moving, nor SlewToTargetAlt, which sets no latch *)
(* for the slew it starts; no slew is shorter than the call that starts it, no *)
(* verdict or reply comes after its read has been given up, and fewer          *)
(* unsolicited frames are on the line than GetMatching skips.                  *)
Lone(c) ==
  /\ Callers = {c} /\ Patient
  /\ Ops[c] \cap {"MoveAxisRate", "Move", "StopAxis", "PulseGuide", "SlewToTargetAlt"} = {}
  /\ Env \cap {"shortSlew", "lateVerdict", "lateReply"} = {}
  /\ MaxInbox < MaxSkip

(* The steps that such a caller's lists are made of. *)
Is(s, d, x) == s.do = d /\ s.cmd = x
Asks(s, x) == s.do \in {"write", "match"} /\ s.cmd = x
Slews(s) == s.do \in {"slewCmd", "window"} /\ s.cmd \in {"MS", "MA"}
Syncs(s) == s.do \in {"slewCmd", "window"} /\ s.cmd \in {"Ck", "CM"}
Reading == {"Await", "applyToken", "match", "echo", "byte", "window"}
Proper(s) ==
  /\ s.do \in Does \ {"moved", "pulsing", "drainStale", "rewrite", "rematch"}
  /\ s.do \in {"write", "match"} => s.cmd \in Query
  /\ s.do \in {"Get", "echo"} => s.cmd \in {"CtL", "CtA", "CtU"}
  /\ s.do \in {"Ack", "byte"} => s.cmd \in {"Sr", "Sd", "SrP", "SdP"}
  /\ s.do = "Blind" => s.cmd \in {"Sz", "Sa", "Q", "Ch"}
  /\ s.do \in {"slewCmd", "window"} => s.cmd \in {"MS", "MA", "Ck", "CM"}

(* What stands before a step that relies on it. *)
Follows(a, b) ==
  /\ b.do \notin Reading
  /\ b.do \in {"refuseWhileHoming", "notHoming"} => Asks(a, "AH")
  /\ b.do = "captureHome" => Asks(a, "G")
  /\ Is(b, "Blind", "Q") => a.do = "refuseWhileHoming"
  /\ b.do = "still" => Is(a, "Blind", "Q")
  /\ b.do = "slewing" => Slews(a) \/ a.do = "applyToken" \/ Is(a, "Blind", "Ch")
  /\ Is(b, "Blind", "Ch") => a.do \in {"Get", "echo"} /\ a.cmd = "CtL"
  /\ a.do \in {"Ack", "byte"} => b.do = "accepted"

(* How a list ends. *)
Placed(q, i) ==
  /\ Slews(q[i]) => i < Len(q) /\ q[i + 1].do = "slewing"
  /\ Syncs(q[i]) => i = Len(q)
  /\ q[i].do = "slewing" => i = Len(q) \/ (i + 1 = Len(q) /\ q[i + 1].do = "parking")
  /\ q[i].do = "parking" => i = Len(q)
  /\ q[i].do = "Slewing" => i = Len(q)
  /\ q[i].do = "notHoming" => i + 3 = Len(q) /\ q[i + 1].do = "Get" /\ Is(q[i + 2], "Blind", "Ch")
  /\ Is(q[i], "Blind", "Ch") => /\ i + 1 = Len(q) /\ q[i + 1].do = "slewing"
                                /\ i > 2 => q[i - 2].do = "notHoming"
  /\ Is(q[i], "Blind", "Q") => i < Len(q) /\ q[i + 1].do = "still"

Shape(q) ==
  /\ \A i \in 1 .. Len(q) : Proper(q[i]) /\ Placed(q, i)
  /\ \A i \in 1 .. Len(q) - 1 : Follows(q[i], q[i + 1])

(* Steps that may be followed by anything, and steps that may follow anything. *)
Open(s) == s.do \notin {"slewCmd", "window", "slewing", "parking", "Slewing", "notHoming"}
           /\ ~Is(s, "Blind", "Ch") /\ ~Is(s, "Blind", "Q")
Free(s) == s.do \notin Reading \cup {"refuseWhileHoming", "notHoming", "captureHome", "still", "slewing"}
           /\ ~Is(s, "Blind", "Ch") /\ ~Is(s, "Blind", "Q")
Loose(q) == \A i \in 1 .. Len(q) : Open(q[i]) /\ (i = Len(q) => q[i].do \notin {"Ack", "byte"})
Leads(q) == q = <<>> \/ (Free(q[1]) /\ (Len(q) > 1 => ~Is(q[2], "Blind", "Ch")))

(* The rest of a list. *)
LEMMA TailParts ==
  ASSUME NEW S, NEW q \in Seq(S), q # <<>>
  PROVE  /\ Tail(q) \in Seq(S) /\ Head(q) = q[1] /\ q[1] \in S
         /\ Len(q) \in Nat /\ Len(q) >= 1 /\ Len(Tail(q)) = Len(q) - 1
         /\ \A i \in 1 .. Len(Tail(q)) : Tail(q)[i] = q[i + 1]
OBVIOUS

(* A list with one more entry in front. *)
LEMMA ConsParts ==
  ASSUME NEW S, NEW x \in S, NEW q \in Seq(S)
  PROVE  /\ <<x>> \o q \in Seq(S) /\ <<x>> \o q # <<>> /\ Head(<<x>> \o q) = x
         /\ Len(<<x>> \o q) = Len(q) + 1 /\ Len(q) \in Nat
         /\ (<<x>> \o q)[1] = x
         /\ \A i \in 1 .. Len(q) : (<<x>> \o q)[i + 1] = q[i]
OBVIOUS

(* Two lists, one after the other. *)
LEMMA JoinParts ==
  ASSUME NEW S, NEW a \in Seq(S), NEW b \in Seq(S)
  PROVE  /\ a \o b \in Seq(S) /\ Len(a) \in Nat /\ Len(b) \in Nat
         /\ Len(a \o b) = Len(a) + Len(b)
         /\ \A i \in 1 .. Len(a) : (a \o b)[i] = a[i]
         /\ \A i \in 1 .. Len(b) : (a \o b)[Len(a) + i] = b[i]
OBVIOUS

(* The place of a step, one condition at a time. *)
LEMMA Placing ==
  ASSUME NEW t, NEW i,
         Slews(t[i]) => i < Len(t) /\ t[i + 1].do = "slewing",
         Syncs(t[i]) => i = Len(t),
         t[i].do = "slewing" => i = Len(t) \/ (i + 1 = Len(t) /\ t[i + 1].do = "parking"),
         t[i].do = "parking" => i = Len(t),
         t[i].do = "Slewing" => i = Len(t),
         t[i].do = "notHoming" => i + 3 = Len(t) /\ t[i + 1].do = "Get" /\ Is(t[i + 2], "Blind", "Ch"),
         Is(t[i], "Blind", "Ch") => i + 1 = Len(t) /\ t[i + 1].do = "slewing",
         Is(t[i], "Blind", "Ch") => (i > 2 => t[i - 2].do = "notHoming"),
         Is(t[i], "Blind", "Q") => i < Len(t) /\ t[i + 1].do = "still"
  PROVE  Placed(t, i)
BY Zenon DEF Placed

(* A step done. *)
LEMMA ShapeTail ==
  ASSUME NEW q \in Seq(Step), q # <<>>, Shape(q)
  PROVE  Shape(Tail(q))
<1> DEFINE t == Tail(q)
<1>1. /\ Len(q) \in Nat /\ Len(q) >= 1 /\ Len(t) = Len(q) - 1
      /\ \A i \in 1 .. Len(t) : t[i] = q[i + 1]
  BY TailParts, Zenon
<1> HIDE DEF t
<1>2. ASSUME NEW i \in 1 .. Len(t) PROVE Proper(t[i]) /\ Placed(t, i)
  <2>1. i + 1 \in 1 .. Len(q) /\ t[i] = q[i + 1]
    BY <1>1
  <2>2. Proper(q[i + 1]) /\ Placed(q, i + 1)
    BY <2>1 DEF Shape
  <2> DEFINE n == Len(q)
             l == Len(t)
  <2>3. i \in Nat /\ i >= 1 /\ i <= l /\ n \in Nat /\ l = n - 1 /\ l \in Nat
    BY <1>1
  <2>4. /\ i < l => t[i + 1] = q[i + 1 + 1]
        /\ i + 2 <= l => t[i + 2] = q[i + 1 + 2]
        /\ i > 2 /\ i <= l => t[i - 2] = q[(i + 1) - 2]
    <3>1. /\ i < l => i + 1 \in 1 .. l
          /\ i + 2 <= l => i + 2 \in 1 .. l /\ i + 2 + 1 = i + 1 + 2
          /\ i > 2 /\ i <= l => i - 2 \in 1 .. l /\ (i - 2) + 1 = (i + 1) - 2
      <4> HIDE DEF l, n
      <4> QED BY <2>3
    <3>2. \A k : k \in 1 .. l => t[k] = q[k + 1]
      BY <1>1, Zenon
    <3>3. i < l => t[i + 1] = q[i + 1 + 1]
      BY <3>1, <3>2, Zenon
    <3>4. i + 2 <= l => t[i + 2] = q[i + 1 + 2]
      <4>1. i + 2 <= l => t[i + 2] = q[i + 2 + 1]
        BY <3>1, <3>2, Zenon
      <4> QED BY <3>1, <4>1, Zenon
    <3>5. i > 2 /\ i <= l => t[i - 2] = q[(i + 1) - 2]
      <4>1. i > 2 /\ i <= l => t[i - 2] = q[(i - 2) + 1]
        BY <3>1, <3>2, Zenon
      <4> QED BY <3>1, <4>1, Zenon
    <3> QED BY <3>3, <3>4, <3>5, Zenon
  <2>5. i <= l
    BY <2>3
  <2> HIDE DEF n, l
  <2>6. /\ i < l <=> i + 1 < n
        /\ i = l <=> i + 1 = n
        /\ i + 1 = l <=> i + 1 + 1 = n
        /\ i + 3 = l <=> i + 1 + 3 = n
        /\ i + 3 = l => i + 2 <= l /\ i < l
        /\ i + 1 = l => i < l
        /\ i > 2 => i + 1 > 2
    BY <2>3
  <2>7. /\ Slews(t[i]) => i < l /\ t[i + 1].do = "slewing"
        /\ Syncs(t[i]) => i = l
        /\ t[i].do = "slewing" => i = l \/ (i + 1 = l /\ t[i + 1].do = "parking")
        /\ t[i].do = "parking" => i = l
        /\ t[i].do = "Slewing" => i = l
    BY <2>1, <2>2, <2>4, <2>6, Zenon DEF Placed, n
  <2>8. /\ t[i].do = "notHoming" => i + 3 = l /\ t[i + 1].do = "Get" /\ Is(t[i + 2], "Blind", "Ch")
        /\ Is(t[i], "Blind", "Ch") => i + 1 = l /\ t[i + 1].do = "slewing"
        /\ Is(t[i], "Blind", "Ch") => (i > 2 => t[i - 2].do = "notHoming")
        /\ Is(t[i], "Blind", "Q") => i < l /\ t[i + 1].do = "still"
    BY <2>1, <2>2, <2>4, <2>5, <2>6, Zenon DEF Placed, n
  <2>9. Placed(t, i)
    BY <2>7, <2>8, Placing, Zenon DEF l
  <2> QED BY <2>1, <2>2, <2>9, Zenon
<1>3. ASSUME NEW i \in 1 .. Len(t) - 1 PROVE Follows(t[i], t[i + 1])
  <2>1. i + 1 \in 1 .. Len(q) - 1 /\ t[i] = q[i + 1] /\ t[i + 1] = q[i + 1 + 1]
    BY <1>1
  <2> QED BY <2>1 DEF Shape
<1>4. Shape(t)
  BY <1>2, <1>3, Zenon DEF Shape
<1> QED BY <1>4 DEF t

(* Two lists joined. *)
LEMMA ShapeJoin ==
  ASSUME NEW a \in Seq(Step), NEW b \in Seq(Step), Shape(a), Shape(b), Loose(a), Leads(b)
  PROVE  Shape(a \o b)
<1> DEFINE t == a \o b
<1>1. /\ Len(a) \in Nat /\ Len(b) \in Nat /\ Len(t) = Len(a) + Len(b)
      /\ \A i \in 1 .. Len(a) : t[i] = a[i]
      /\ \A i \in 1 .. Len(b) : t[Len(a) + i] = b[i]
  BY JoinParts
<1> HIDE DEF t
<1>2. ASSUME NEW i \in 1 .. Len(t) PROVE Proper(t[i]) /\ Placed(t, i)
  <2>1. CASE i \in 1 .. Len(a)
    <3>1. t[i] = a[i] /\ Proper(a[i]) /\ Open(a[i])
      BY <1>1, <2>1 DEF Shape, Loose
    <3> QED BY <3>1 DEF Placed, Open, Slews, Syncs, Is
  <2>2. CASE i \notin 1 .. Len(a)
    <3>1. PICK j \in 1 .. Len(b) : i = Len(a) + j
      <4>1. i - Len(a) \in 1 .. Len(b) /\ i = Len(a) + (i - Len(a))
        BY <1>1, <2>2
      <4> QED BY <4>1
    <3>2. t[i] = b[j] /\ Proper(b[j]) /\ Placed(b, j)
      BY <1>1, <3>1 DEF Shape
    <3>3. /\ j < Len(b) => t[i + 1] = b[j + 1]
          /\ j + 2 <= Len(b) => t[i + 2] = b[j + 2]
          /\ j > 2 => t[i - 2] = b[j - 2]
          /\ i < Len(t) <=> j < Len(b)
          /\ i = Len(t) <=> j = Len(b)
          /\ i + 1 = Len(t) <=> j + 1 = Len(b)
          /\ i + 3 = Len(t) <=> j + 3 = Len(b)
      <4>1. /\ j < Len(b) => j + 1 \in 1 .. Len(b) /\ i + 1 = Len(a) + (j + 1)
            /\ j + 2 <= Len(b) => j + 2 \in 1 .. Len(b) /\ i + 2 = Len(a) + (j + 2)
            /\ j > 2 => j - 2 \in 1 .. Len(b) /\ i - 2 = Len(a) + (j - 2)
        BY <1>1, <3>1
      <4>2. ASSUME j < Len(b) PROVE t[i + 1] = b[j + 1]
        BY <1>1, <4>1, <4>2
      <4>3. ASSUME j + 2 <= Len(b) PROVE t[i + 2] = b[j + 2]
        BY <1>1, <4>1, <4>3
      <4>4. ASSUME j > 2 PROVE t[i - 2] = b[j - 2]
        BY <1>1, <4>1, <4>4
      <4>5. /\ i < Len(t) <=> j < Len(b)
            /\ i = Len(t) <=> j = Len(b)
            /\ i + 1 = Len(t) <=> j + 1 = Len(b)
            /\ i + 3 = Len(t) <=> j + 3 = Len(b)
        <5>2. Len(a) \in Nat /\ Len(b) \in Nat /\ j \in Nat /\ i \in Int /\ i = Len(a) + j
          BY <1>1, <3>1
        <5>3. Len(t) = Len(a) + Len(b) /\ Len(t) \in Int
          BY <1>1, <5>2
        <5> DEFINE l == Len(a)
                   k == Len(b)
                   s == Len(t)
        <5>4. l \in Nat /\ k \in Nat /\ j \in Nat /\ i = l + j /\ s = l + k
          BY <5>2, <5>3
        <5> HIDE DEF l, k, s
        <5>5. /\ i < s <=> j < k
              /\ i = s <=> j = k
              /\ i + 1 = s <=> j + 1 = k
              /\ i + 3 = s <=> j + 3 = k
          BY <5>4
        <5> QED BY <5>5, Zenon DEF l, k, s
      <4> QED BY <4>2, <4>3, <4>4, <4>5
    <3>4. Is(b[j], "Blind", "Ch") => j > 2
      <4>1. b # <<>>
        BY <1>1, <3>1
      <4> QED BY <4>1, <1>1, <3>1 DEF Leads, Free
    <3>5. /\ Slews(t[i]) => i < Len(t) /\ t[i + 1].do = "slewing"
          /\ Syncs(t[i]) => i = Len(t)
          /\ t[i].do = "parking" => i = Len(t)
          /\ t[i].do = "Slewing" => i = Len(t)
          /\ Is(t[i], "Blind", "Q") => i < Len(t) /\ t[i + 1].do = "still"
      BY <3>2, <3>3, Zenon DEF Placed
    <3>6. j \in Nat /\ Len(b) \in Nat
      BY <1>1
    <3>7. /\ j + 1 = Len(b) => j < Len(b)
          /\ j + 3 = Len(b) => j < Len(b) /\ j + 2 <= Len(b)
      BY <3>6
    <3>8. /\ t[i].do = "slewing" => i = Len(t) \/ (i + 1 = Len(t) /\ t[i + 1].do = "parking")
          /\ t[i].do = "notHoming" => i + 3 = Len(t) /\ t[i + 1].do = "Get" /\ Is(t[i + 2], "Blind", "Ch")
      BY <3>2, <3>3, <3>7, Zenon DEF Placed
    <3>9. /\ Is(t[i], "Blind", "Ch") => i + 1 = Len(t) /\ t[i + 1].do = "slewing"
          /\ Is(t[i], "Blind", "Ch") => (i > 2 => t[i - 2].do = "notHoming")
      BY <3>2, <3>3, <3>4, <3>7, Zenon DEF Placed
    <3>10. Placed(t, i)
      BY <3>5, <3>8, <3>9, Placing, Zenon
    <3> QED BY <3>2, <3>10
  <2> QED BY <2>1, <2>2, Zenon
<1>3. ASSUME NEW i \in 1 .. Len(t) - 1 PROVE Follows(t[i], t[i + 1])
  <2>1. CASE i < Len(a)
    <3>1. i \in 1 .. Len(a) - 1 /\ t[i] = a[i] /\ t[i + 1] = a[i + 1]
      BY <1>1, <2>1
    <3> QED BY <3>1 DEF Shape
  <2>2. CASE i = Len(a)
    <3>1. b # <<>> /\ t[i + 1] = b[1] /\ t[i] = a[i] /\ i \in 1 .. Len(a)
      BY <1>1, <2>2
    <3>2. a[i].do \notin {"Ack", "byte"}
      BY <2>2, <3>1 DEF Loose
    <3> QED BY <3>1, <3>2 DEF Leads, Free, Follows
  <2>3. CASE i > Len(a)
    <3>1. i - Len(a) \in 1 .. Len(b) - 1
      BY <1>1, <2>3
    <3>2. t[i] = b[i - Len(a)] /\ t[i + 1] = b[i - Len(a) + 1]
      <4>1. i - Len(a) \in 1 .. Len(b) /\ i - Len(a) + 1 \in 1 .. Len(b)
            /\ i = Len(a) + (i - Len(a)) /\ i + 1 = Len(a) + (i - Len(a) + 1)
        BY <1>1, <3>1
      <4>2. /\ t[Len(a) + (i - Len(a))] = b[i - Len(a)]
            /\ t[Len(a) + (i - Len(a) + 1)] = b[i - Len(a) + 1]
        BY <1>1, <4>1, Zenon
      <4> QED BY <4>1, <4>2, Zenon
    <3> QED BY <3>1, <3>2 DEF Shape
  <2> QED BY <1>1, <2>1, <2>2, <2>3
<1>4. Shape(t)
  BY <1>2, <1>3, Zenon DEF Shape
<1> QED BY <1>4 DEF t

(* A step that can take the place of another at the head of a list. *)
Replaces(a, x) ==
  /\ \A y \in Query : Asks(a, y) => Asks(x, y)
  /\ Slews(a) => Slews(x) \/ x.do = "applyToken"
  /\ a.do \in {"Get", "echo"} => x.do = "echo" /\ x.cmd = a.cmd
  /\ a.do \notin {"refuseWhileHoming", "notHoming"} /\ a.do # "applyToken" /\ a.do # "Blind"
  /\ x.do \notin {"slewing", "parking", "Slewing", "notHoming", "Blind"}
  /\ Slews(x) => Slews(a)
  /\ Syncs(x) => Syncs(a)
  /\ x.do \in {"Ack", "byte"} => a.do \in {"Ack", "byte"}

(* A step replaced by one that takes its place. *)
LEMMA ShapeHead ==
  ASSUME NEW q \in Seq(Step), q # <<>>, Shape(q), NEW x \in Step, Proper(x), Replaces(Head(q), x)
  PROVE  Shape(<<x>> \o Tail(q))
<1> DEFINE r == Tail(q)
           t == <<x>> \o r
<1>1. /\ r \in Seq(Step) /\ Head(q) = q[1] /\ Len(q) \in Nat /\ Len(q) >= 1
      /\ Len(r) = Len(q) - 1 /\ \A i \in 1 .. Len(r) : r[i] = q[i + 1]
  BY TailParts, Zenon
<1>2. /\ Len(t) = Len(r) + 1 /\ t[1] = x
      /\ \A i \in 1 .. Len(r) : t[i + 1] = r[i]
  <2> HIDE DEF r
  <2> QED BY <1>1, ConsParts
<1> HIDE DEF r, t
<1>3. /\ Len(t) = Len(q) /\ Replaces(q[1], x)
      /\ \A i \in 2 .. Len(q) : t[i] = q[i]
  <2>1. ASSUME NEW i \in 2 .. Len(q) PROVE t[i] = q[i]
    <3>1. i - 1 \in 1 .. Len(r) /\ i - 1 + 1 = i
      BY <1>1
    <3>2. t[i - 1 + 1] = r[i - 1] /\ r[i - 1] = q[i - 1 + 1]
      BY <1>1, <1>2, <3>1
    <3> QED BY <3>1, <3>2
  <2> QED BY <1>1, <1>2, <2>1
<1>4. ASSUME NEW i \in 1 .. Len(t) PROVE Proper(t[i]) /\ Placed(t, i)
  <2>0. i \in 1 .. Len(q) /\ Proper(q[i]) /\ Placed(q, i)
    BY <1>3 DEF Shape
  <2>1. CASE i = 1
    <3>1. /\ Slews(x) => Slews(q[1])
          /\ Syncs(x) => Syncs(q[1])
          /\ x.do \notin {"slewing", "parking", "Slewing", "notHoming", "Blind"}
      BY <1>3 DEF Replaces
    <3>2. 1 < Len(q) => t[1 + 1] = q[1 + 1]
      BY <1>1, <1>3
    <3>3. Placed(t, 1)
      BY <1>2, <1>3, <2>0, <2>1, <3>1, <3>2 DEF Placed, Is
    <3> QED BY <1>2, <2>1, <3>3
  <2>2. CASE i # 1
    <3>1. /\ t[i] = q[i]
          /\ i < Len(q) => t[i + 1] = q[i + 1]
          /\ i + 3 = Len(q) => t[i + 2] = q[i + 2]
          /\ i > 3 => t[i - 2] = q[i - 2]
      <4>1. /\ i \in 2 .. Len(q)
            /\ i < Len(q) => i + 1 \in 2 .. Len(q)
            /\ i + 3 = Len(q) => i + 2 \in 2 .. Len(q)
            /\ i > 3 => i - 2 \in 2 .. Len(q)
        BY <1>1, <2>0, <2>2
      <4> QED BY <4>1, <1>3
    <3>2. ~(Is(q[i], "Blind", "Ch") /\ i = 3)
      BY <1>1, <1>3, <2>0 DEF Placed, Replaces
    <3>3. i + 1 = Len(q) \/ i + 3 = Len(q) => i < Len(q)
      BY <1>1, <2>0
    <3> QED BY <1>1, <1>3, <2>0, <3>1, <3>2, <3>3 DEF Placed
  <2> QED BY <2>1, <2>2
<1>5. ASSUME NEW i \in 1 .. Len(t) - 1 PROVE Follows(t[i], t[i + 1])
  <2>0. i \in 1 .. Len(q) - 1 /\ Follows(q[i], q[i + 1])
    BY <1>3 DEF Shape
  <2>1. t[i + 1] = q[i + 1]
    BY <1>1, <1>3, <2>0
  <2>2. CASE i = 1
    <3>1. t[i] = x /\ Follows(q[1], t[i + 1]) /\ Replaces(q[1], x)
      BY <1>2, <1>3, <2>0, <2>1, <2>2
    <3> QED BY <3>1 DEF Follows, Replaces, Is, Query
  <2>3. CASE i # 1
    <3>1. t[i] = q[i]
      BY <1>1, <1>3, <2>0, <2>3
    <3> QED BY <2>0, <2>1, <3>1
  <2> QED BY <2>2, <2>3
<1>6. Shape(t)
  BY <1>4, <1>5, Zenon DEF Shape
<1> QED BY <1>6 DEF r, t

-----------------------------------------------------------------------------
(* The operations have such lists. *)
Commanding(s) == s.do \in {"Ack", "byte", "slewCmd"} \/ Is(s, "Blind", "Ch")
Good(q) == /\ q \in Seq(Step) /\ Shape(q) /\ Leads(q)
           /\ \A i \in 1 .. Len(q) : q[i].do # "captureHome"
Asking(q) == \A i \in 1 .. Len(q) : ~Commanding(q[i])
rec(d, x) == [do |-> d, cmd |-> x, n |-> 0]

(* Joining keeps what operations' lists have in common. *)
LEMMA GoodJoin ==
  ASSUME NEW a, NEW b, Good(a), Good(b), Loose(a)
  PROVE  /\ Good(a \o b)
         /\ Loose(b) => Loose(a \o b)
         /\ Asking(a) /\ Asking(b) => Asking(a \o b)
<1> DEFINE t == a \o b
<1>0. a \in Seq(Step) /\ b \in Seq(Step) /\ Shape(a) /\ Shape(b) /\ Leads(b)
  BY DEF Good
<1>1. Shape(t) /\ t \in Seq(Step)
  BY <1>0, ShapeJoin, JoinParts
<1>2. /\ Len(a) \in Nat /\ Len(b) \in Nat /\ Len(t) = Len(a) + Len(b)
      /\ \A i \in 1 .. Len(a) : t[i] = a[i]
      /\ \A i \in 1 .. Len(b) : t[Len(a) + i] = b[i]
  BY <1>0, JoinParts
<1> HIDE DEF t
<1>3. ASSUME NEW i \in 1 .. Len(t)
      PROVE  \/ i \in 1 .. Len(a) /\ t[i] = a[i] /\ (i = Len(t) => i = Len(a))
             \/ \E j \in 1 .. Len(b) : t[i] = b[j] /\ (i = Len(t) => j = Len(b))
  <2>1. CASE i \in 1 .. Len(a)
    BY <1>2, <2>1
  <2>2. CASE i \notin 1 .. Len(a)
    <3>1. i - Len(a) \in 1 .. Len(b) /\ i = Len(a) + (i - Len(a))
      BY <1>2, <2>2
    <3>2. t[Len(a) + (i - Len(a))] = b[i - Len(a)]
      BY <1>2, <3>1
    <3>3. i = Len(t) => i - Len(a) = Len(b)
      BY <1>2
    <3> QED BY <3>1, <3>2, <3>3
  <2> QED BY <2>1, <2>2
<1>4. \A i \in 1 .. Len(t) : t[i].do # "captureHome"
  BY <1>3 DEF Good
<1>5. Leads(t)
  <2>1. CASE a = <<>>
    <3>1. t = b
      BY <1>0, <2>1 DEF t
    <3> QED BY <1>0, <3>1
  <2>2. CASE a # <<>>
    <3>1. Len(a) >= 1 /\ 1 \in 1 .. Len(a) /\ 1 <= Len(t)
      BY <1>0, <1>2, <2>2
    <3>2. t[1] = a[1] /\ Free(a[1])
      BY <1>2, <2>2, <3>1 DEF Good, Leads
    <3>3. ASSUME Len(t) > 1 PROVE ~Is(t[2], "Blind", "Ch")
      <4>1. CASE Len(a) > 1
        <5>1. t[2] = a[2] /\ ~Is(a[2], "Blind", "Ch")
          BY <1>2, <2>2, <4>1 DEF Good, Leads
        <5> QED BY <5>1
      <4>2. CASE Len(a) = 1
        <5>1. t[2] = b[1] /\ b # <<>>
          <6>1. 1 \in 1 .. Len(b) /\ Len(a) + 1 = 2
            BY <1>2, <3>3, <4>2
          <6> QED BY <1>2, <6>1
        <5>2. Free(b[1])
          BY <1>0, <5>1 DEF Leads
        <5> QED BY <5>1, <5>2 DEF Free
      <4>3. Len(a) > 1 \/ Len(a) = 1
        <5>1. Len(a) \in Nat
          BY <1>2
        <5> QED BY <3>1, <5>1
      <4> QED BY <4>1, <4>2, <4>3
    <3> QED BY <3>2, <3>3 DEF Leads
  <2> QED BY <2>1, <2>2
<1>6. Loose(b) => Loose(t)
  BY <1>3 DEF Loose
<1>7. Asking(a) /\ Asking(b) => Asking(t)
  BY <1>3 DEF Asking
<1>8. Good(t)
  BY <1>1, <1>4, <1>5, Zenon DEF Good
<1> QED BY <1>6, <1>7, <1>8 DEF t

(* A list of one step. *)
LEMMA GoodOne ==
  ASSUME NEW s \in Step, Proper(s), Free(s), s.do \notin {"slewCmd", "window", "slewing"}
  PROVE  /\ Good(<<s>>)
         /\ Open(s) /\ s.do \notin {"Ack", "byte"} => Loose(<<s>>)
         /\ ~Commanding(s) => Asking(<<s>>)
<1>1. <<s>> \in Seq(Step) /\ Len(<<s>>) = 1 /\ <<s>>[1] = s
  BY Singleton
<1>2. Placed(<<s>>, 1)
  <2>1. s.do # "notHoming" /\ ~Is(s, "Blind", "Ch") /\ ~Is(s, "Blind", "Q")
    BY DEF Free
  <2> QED BY <1>1, <2>1 DEF Placed, Slews, Syncs
<1> QED BY <1>1, <1>2 DEF Good, Loose, Asking, Shape, Leads, Free

Single == {"drainToken", "maybeCaptureHome", "maybeFinishPark", "requireHome", "known", "accepted", "parked",
           "polePosition", "stopped", "notUnparked", "axes", "unlessParked", "ifParked",
           "atPark", "atHome", "unmoved", "Unpark"}

(* The steps without a command. *)
LEMMA GoodStep ==
  ASSUME NEW s \in Single
  PROVE  Good(step(s)) /\ Loose(step(s)) /\ Asking(step(s))
<1>1. rec(s, "") \in Step /\ Proper(rec(s, "")) /\ Free(rec(s, "")) /\ Open(rec(s, "")) /\ ~Commanding(rec(s, ""))
      /\ rec(s, "").do \notin {"slewCmd", "window", "slewing", "Ack", "byte"}
  <2> DEFINE r == rec(s, "")
  <2>1. r \in Step /\ r.do = s /\ s \in Does
    <3>1. s \in Does
      BY DEF Does, Single
    <3> QED BY <3>1 DEF rec, Step, Gated, Ungated, Command
  <2> HIDE DEF r
  <2>2. Proper(r) /\ s \notin {"slewCmd", "window", "slewing", "Ack", "byte"}
    BY <2>1 DEF Proper, Single
  <2>3. Free(r) /\ Open(r) /\ ~Commanding(r)
    BY <2>1 DEF Free, Open, Commanding, Single, Is, Reading
  <2> QED BY <2>1, <2>2, <2>3 DEF r
<1> QED BY <1>1, GoodOne, Zenon DEF step, rec

(* Slewing's last step. *)
LEMMA GoodPoll ==
  Good(step("Slewing")) /\ Asking(step("Slewing"))
<1> DEFINE r == rec("Slewing", "")
<1>1. r \in Step /\ Proper(r) /\ Free(r) /\ ~Commanding(r) /\ r.do \notin {"slewCmd", "window", "slewing"}
  BY DEF rec, Step, Does, Command, Gated, Ungated, Proper, Free, Open, Commanding, Single, Is, Reading
<1> QED BY <1>1, GoodOne, Zenon DEF step, rec

(* A query, a command with an echo, a command without an answer. *)
LEMMA GoodOn ==
  ASSUME NEW s, NEW x,
         \/ s = "write" /\ x \in Query
         \/ s = "Get" /\ x \in {"CtL", "CtA", "CtU"}
         \/ s = "Blind" /\ x \in {"Sz", "Sa"}
  PROVE  Good(on(s, x)) /\ Loose(on(s, x)) /\ Asking(on(s, x))
<1>1. rec(s, x) \in Step /\ Proper(rec(s, x)) /\ Free(rec(s, x)) /\ Open(rec(s, x)) /\ ~Commanding(rec(s, x))
      /\ rec(s, x).do \notin {"slewCmd", "window", "slewing", "Ack", "byte"}
  BY DEF rec, Step, Does, Command, Gated, Ungated, Proper, Free, Open, Commanding, Is, Reading, Query
<1> QED BY <1>1, GoodOne, Zenon DEF on, rec

(* A command and the check of its verdict. *)
LEMMA GoodAck ==
  ASSUME NEW x \in {"Sr", "Sd", "SrP", "SdP"}
  PROVE  Good(Ack(x)) /\ Loose(Ack(x))
<1> DEFINE a == rec("Ack", x)
           b == rec("accepted", "")
<1>1. a \in Step /\ b \in Step
  BY DEF rec, Step, Does, Command, Gated, Ungated, Query
<1>2. /\ Proper(a) /\ Proper(b) /\ Open(a) /\ Open(b) /\ Follows(a, b) /\ Free(a) /\ ~Is(b, "Blind", "Ch")
      /\ a.do # "captureHome" /\ b.do # "captureHome" /\ b.do = "accepted"
  BY DEF rec, Proper, Open, Follows, Free, Is, Asks, Slews, Reading, Query, Does
<1> DEFINE q == <<a>> \o <<b>>
<1>3. Ack(x) = q
  BY DEF Ack, on, step, rec
<1> HIDE DEF a, b
<1>4. q \in Seq(Step) /\ Len(q) = 2 /\ q[1] = a /\ q[2] = b /\ q # <<>>
  BY <1>1
<1> HIDE DEF q
<1>5. Placed(q, 1) /\ Placed(q, 2)
  BY <1>2, <1>4 DEF Placed, Open, Slews, Syncs
<1>6. Good(q) /\ Loose(q)
  BY <1>2, <1>4, <1>5 DEF Good, Loose, Shape, Leads
<1> QED BY <1>3, <1>6

(* The lists that belong together. *)
Refuse == on("write", "AH") \o step("refuseWhileHoming")
Stop == on("write", "AH") \o step("refuseWhileHoming") \o Blind("Q") \o step("still") \o step("unmoved")
SeekHome == on("write", "AH") \o step("notHoming") \o track("CtL") \o Blind("Ch") \o step("slewing")

(* refuseWhileHoming *)
LEMMA GoodRefuse ==
  Good(Refuse) /\ Loose(Refuse) /\ Asking(Refuse)
<1> DEFINE a == rec("write", "AH")
           b == rec("refuseWhileHoming", "")
<1>1. a \in Step /\ b \in Step
  BY DEF rec, Step, Does, Command, Gated, Ungated, Query
<1>2. /\ Proper(a) /\ Proper(b) /\ Open(a) /\ Open(b) /\ ~Commanding(a) /\ ~Commanding(b)
      /\ Follows(a, b) /\ Free(a) /\ ~Is(b, "Blind", "Ch")
      /\ a.do # "captureHome" /\ b.do # "captureHome" /\ b.do \notin {"Ack", "byte"}
  BY DEF rec, Proper, Open, Commanding, Follows, Free, Is, Asks, Slews, Reading, Query, Does
<1> DEFINE q == <<a>> \o <<b>>
<1> HIDE DEF a, b
<1>3. q \in Seq(Step) /\ Len(q) = 2 /\ q[1] = a /\ q[2] = b /\ q # <<>>
  BY <1>1
<1> HIDE DEF q
<1>4. Placed(q, 1) /\ Placed(q, 2)
  BY <1>2, <1>3 DEF Placed, Open, Slews, Syncs
<1>5. Good(q) /\ Loose(q) /\ Asking(q)
  BY <1>2, <1>3, <1>4 DEF Good, Loose, Asking, Shape, Leads
<1> QED BY <1>5 DEF Refuse, q, a, b, on, step, rec

(* The stop of Halt, which asks Homing first. *)
LEMMA GoodStop ==
  Good(Stop) /\ Asking(Stop)
<1> DEFINE a == rec("write", "AH")
           b == rec("refuseWhileHoming", "")
           d == rec("Blind", "Q")
           e == rec("still", "")
           f == rec("unmoved", "")
<1>1. a \in Step /\ b \in Step /\ d \in Step /\ e \in Step /\ f \in Step
  BY DEF rec, Step, Does, Command, Gated, Ungated, Query
<1>2. /\ Proper(a) /\ Proper(b) /\ Proper(d) /\ Proper(e) /\ Proper(f)
      /\ Open(a) /\ Open(b) /\ Open(e) /\ Open(f)
      /\ Free(a) /\ ~Is(b, "Blind", "Ch")
      /\ e.do = "still" /\ d.do = "Blind" /\ ~Is(d, "Blind", "Ch")
  BY DEF rec, Proper, Open, Free, Is, Reading, Query, Does
<1>3. Follows(a, b) /\ Follows(b, d) /\ Follows(d, e) /\ Follows(e, f)
  BY DEF rec, Follows, Is, Asks, Slews, Reading
<1>4. /\ ~Commanding(a) /\ ~Commanding(b) /\ ~Commanding(d) /\ ~Commanding(e) /\ ~Commanding(f)
      /\ a.do # "captureHome" /\ b.do # "captureHome" /\ d.do # "captureHome"
      /\ e.do # "captureHome" /\ f.do # "captureHome"
  BY DEF rec, Commanding, Is
<1> DEFINE q == <<a>> \o <<b>> \o <<d>> \o <<e>> \o <<f>>
<1>5. Stop = q
  BY DEF Stop, on, step, Blind, rec
<1> HIDE DEF a, b, d, e, f
<1>6. q \in Seq(Step) /\ Len(q) = 5 /\ q[1] = a /\ q[2] = b /\ q[3] = d /\ q[4] = e /\ q[5] = f /\ q # <<>>
  BY <1>1
<1> HIDE DEF q
<1>7. Placed(q, 1) /\ Placed(q, 2) /\ Placed(q, 3) /\ Placed(q, 4) /\ Placed(q, 5)
  <2>1. Placed(q, 1) /\ Placed(q, 2) /\ Placed(q, 4) /\ Placed(q, 5)
    BY <1>2, <1>6 DEF Placed, Open, Slews, Syncs
  <2>2. Placed(q, 3)
    BY <1>2, <1>6 DEF Placed, Slews, Syncs
  <2> QED BY <2>1, <2>2
<1>8. Shape(q)
  <2>1. \A i \in 1 .. Len(q) : i \in {1, 2, 3, 4, 5}
    BY <1>6
  <2>2. \A i \in 1 .. Len(q) - 1 : i \in {1, 2, 3, 4}
    BY <1>6
  <2>3. \A i \in {1, 2, 3, 4, 5} : Proper(q[i]) /\ Placed(q, i)
    BY <1>2, <1>6, <1>7
  <2>4. \A i \in {1, 2, 3, 4} : Follows(q[i], q[i + 1])
    BY <1>3, <1>6
  <2> QED BY <2>1, <2>2, <2>3, <2>4 DEF Shape
<1>9. Good(q) /\ Asking(q)
  <2>1. \A i \in 1 .. Len(q) : i \in {1, 2, 3, 4, 5}
    BY <1>6
  <2>2. Leads(q)
    BY <1>2, <1>6 DEF Leads
  <2> QED BY <1>4, <1>6, <1>8, <2>1, <2>2 DEF Good, Asking
<1> QED BY <1>5, <1>9

(* FindHome's seek, which asks Homing first. *)
LEMMA GoodSeek ==
  Good(SeekHome)
<1> DEFINE a == rec("write", "AH")
           b == rec("notHoming", "")
           d == rec("Get", "CtL")
           e == rec("Blind", "Ch")
           f == rec("slewing", "")
<1>1. a \in Step /\ b \in Step /\ d \in Step /\ e \in Step /\ f \in Step
  BY DEF rec, Step, Does, Command, Gated, Ungated, Query
<1>2. /\ Proper(a) /\ Proper(b) /\ Proper(d) /\ Proper(e) /\ Proper(f)
      /\ Open(a) /\ Open(d) /\ Free(a) /\ ~Is(b, "Blind", "Ch")
      /\ b.do = "notHoming" /\ d.do = "Get" /\ Is(e, "Blind", "Ch") /\ f.do = "slewing"
  BY DEF rec, Proper, Open, Free, Is, Reading, Query, Does
<1>3. Follows(a, b) /\ Follows(b, d) /\ Follows(d, e) /\ Follows(e, f)
  BY DEF rec, Follows, Is, Asks, Slews, Reading
<1>4. /\ a.do # "captureHome" /\ b.do # "captureHome" /\ d.do # "captureHome"
      /\ e.do # "captureHome" /\ f.do # "captureHome"
  BY DEF rec
<1> DEFINE q == <<a>> \o <<b>> \o <<d>> \o <<e>> \o <<f>>
<1>5. SeekHome = q
  BY DEF SeekHome, on, step, track, Blind, rec
<1> HIDE DEF a, b, d, e, f
<1>6. q \in Seq(Step) /\ Len(q) = 5 /\ q[1] = a /\ q[2] = b /\ q[3] = d /\ q[4] = e /\ q[5] = f /\ q # <<>>
  BY <1>1
<1> HIDE DEF q
<1>7. Placed(q, 1) /\ Placed(q, 2) /\ Placed(q, 3) /\ Placed(q, 4) /\ Placed(q, 5)
  <2>1. Placed(q, 1) /\ Placed(q, 3)
    BY <1>2, <1>6 DEF Placed, Open, Slews, Syncs
  <2>2. Placed(q, 2)
    BY <1>2, <1>6 DEF Placed, Slews, Syncs, Is
  <2>3. Placed(q, 4)
    BY <1>2, <1>6 DEF Placed, Slews, Syncs, Is
  <2>4. Placed(q, 5)
    BY <1>2, <1>6 DEF Placed, Slews, Syncs, Is
  <2> QED BY <2>1, <2>2, <2>3, <2>4
<1>8. Shape(q)
  <2>1. \A i \in 1 .. Len(q) : i \in {1, 2, 3, 4, 5}
    BY <1>6
  <2>2. \A i \in 1 .. Len(q) - 1 : i \in {1, 2, 3, 4}
    BY <1>6
  <2>3. \A i \in {1, 2, 3, 4, 5} : Proper(q[i]) /\ Placed(q, i)
    BY <1>2, <1>6, <1>7
  <2>4. \A i \in {1, 2, 3, 4} : Follows(q[i], q[i + 1])
    BY <1>3, <1>6
  <2> QED BY <2>1, <2>2, <2>3, <2>4 DEF Shape
<1>9. Good(q)
  <2>1. \A i \in 1 .. Len(q) : i \in {1, 2, 3, 4, 5}
    BY <1>6
  <2>2. Leads(q)
    BY <1>2, <1>6 DEF Leads
  <2> QED BY <1>4, <1>6, <1>8, <2>1, <2>2 DEF Good
<1> QED BY <1>5, <1>9

(* The lists that end in a slew or a sync. *)
LEMMA GoodSlew ==
  ASSUME NEW x \in {"MS", "MA"}
  PROVE  Good(slewCmd(x)) /\ Good(slewCmd(x) \o step("parking"))
<1> DEFINE a == rec("slewCmd", x)
           b == rec("slewing", "")
           d == rec("parking", "")
<1>1. a \in Step /\ b \in Step /\ d \in Step
  BY DEF rec, Step, Does, Command, Gated, Ungated, Query
<1>2. /\ Proper(a) /\ Proper(b) /\ Proper(d) /\ Slews(a) /\ ~Syncs(a) /\ Free(a)
      /\ a.do = "slewCmd" /\ b.do = "slewing" /\ d.do = "parking"
      /\ Follows(a, b) /\ Follows(b, d)
  BY DEF rec, Proper, Free, Is, Reading, Query, Does, Slews, Syncs, Follows
<1> DEFINE q == <<a>> \o <<b>>
           p == <<a>> \o <<b>> \o <<d>>
<1>3. slewCmd(x) = q /\ slewCmd(x) \o step("parking") = p
  BY DEF slewCmd, on, step, rec
<1> HIDE DEF a, b, d
<1>4. /\ q \in Seq(Step) /\ Len(q) = 2 /\ q[1] = a /\ q[2] = b /\ q # <<>>
      /\ p \in Seq(Step) /\ Len(p) = 3 /\ p[1] = a /\ p[2] = b /\ p[3] = d /\ p # <<>>
  BY <1>1
<1> HIDE DEF q, p
<1>5. /\ Placed(q, 1) /\ Placed(q, 2) /\ Placed(p, 1) /\ Placed(p, 2) /\ Placed(p, 3)
  BY <1>2, <1>4 DEF Placed, Slews, Syncs, Is
<1>6. Good(q)
  BY <1>2, <1>4, <1>5 DEF Good, Shape, Leads, Is
<1>7. Good(p)
  BY <1>2, <1>4, <1>5 DEF Good, Shape, Leads, Is
<1> QED BY <1>3, <1>6, <1>7

(* A sync. *)
LEMMA GoodSync ==
  ASSUME NEW x \in {"Ck", "CM"}, x = "CM" => ~Careful
  PROVE  Good(on("slewCmd", x))
<1> DEFINE a == rec("slewCmd", x)
<1>1. a \in Step
  BY DEF rec, Step, Does, Command, Gated, Ungated, Query
<1>2. Proper(a) /\ ~Slews(a) /\ Free(a) /\ a.do = "slewCmd"
  BY DEF rec, Proper, Free, Is, Reading, Query, Does, Slews
<1> DEFINE q == <<a>>
<1>3. on("slewCmd", x) = q
  BY DEF on, rec
<1> HIDE DEF a
<1>4. q \in Seq(Step) /\ Len(q) = 1 /\ q[1] = a
  BY <1>1
<1> HIDE DEF q
<1>5. Placed(q, 1)
  BY <1>2, <1>4 DEF Placed, Is
<1>6. Good(q)
  BY <1>2, <1>4, <1>5 DEF Good, Shape, Leads, Is
<1> QED BY <1>3, <1>6

Joined(a, b, d) == (a \o b) \o d = a \o (b \o d)
(* Joining lists of steps is associative. *)
LEMMA Assoc ==
  ASSUME NEW a \in Seq(Step), NEW b \in Seq(Step), NEW d \in Seq(Step)
  PROVE  a \o b \in Seq(Step) /\ Joined(a, b, d)
BY SMT DEF Joined

Regroups(a, b, d, e, f, g) == a \o b \o d \o e \o f \o g = a \o (b \o d \o e \o f \o g)
(* A list of six parts, taken as the first and the rest. *)
LEMMA Regroup ==
  ASSUME NEW a \in Seq(Step), NEW b \in Seq(Step), NEW d \in Seq(Step), NEW e \in Seq(Step), NEW f \in Seq(Step),
         NEW g \in Seq(Step)
  PROVE  Regroups(a, b, d, e, f, g)
<1>1. b \o d \in Seq(Step)
  BY Assoc, Zenon
<1>2. b \o d \o e \in Seq(Step)
  BY <1>1, Assoc, Zenon
<1>3. b \o d \o e \o f \in Seq(Step)
  BY <1>2, Assoc, Zenon
<1>4. a \o b \o d = a \o (b \o d)
  <2>1. Joined(a, b, d)
    BY Assoc, Zenon
  <2> QED BY <2>1, Zenon DEF Joined
<1>5. a \o (b \o d) \o e = a \o (b \o d \o e)
  <2>1. Joined(a, b \o d, e)
    BY <1>1, Assoc, Zenon
  <2> QED BY <2>1, Zenon DEF Joined
<1>6. a \o (b \o d \o e) \o f = a \o (b \o d \o e \o f)
  <2>1. Joined(a, b \o d \o e, f)
    BY <1>2, Assoc, Zenon
  <2> QED BY <2>1, Zenon DEF Joined
<1>7. a \o (b \o d \o e \o f) \o g = a \o (b \o d \o e \o f \o g)
  <2>1. Joined(a, b \o d \o e \o f, g)
    BY <1>3, Assoc, Zenon
  <2> QED BY <2>1, Zenon DEF Joined
<1>8. a \o b \o d \o e = a \o (b \o d \o e)
  BY <1>4, <1>5, Zenon
<1>9. a \o b \o d \o e \o f = a \o (b \o d \o e \o f)
  BY <1>8, <1>6, Zenon
<1> QED BY <1>9, <1>7, Zenon DEF Regroups

Put(q) == Good(q) /\ Loose(q) /\ Asking(q)
(* Joining once more, in the form the operations need. *)
LEMMA PutJoin ==
  ASSUME NEW a, NEW b, Put(a)
  PROVE  /\ Put(b) => Put(a \o b)
         /\ Good(b) => Good(a \o b)
         /\ Good(b) /\ Loose(b) => Good(a \o b) /\ Loose(a \o b)
         /\ Good(b) /\ Asking(b) => Good(a \o b) /\ Asking(a \o b)
BY GoodJoin DEF Put

(* The queries. *)
LEMMA PutQuery ==
  ASSUME NEW x \in Query
  PROVE  Put(get(x)) /\ Put(coord(x))
<1>1. Put(step("maybeCaptureHome")) /\ Put(step("maybeFinishPark")) /\ Put(on("write", x)) /\ Put(step("drainToken"))
  BY GoodStep, GoodOn DEF Put, Single
<1> QED BY <1>1, PutJoin, Zenon DEF get, coord

(* The commands that switch tracking. *)
LEMMA PutTrack ==
  ASSUME NEW x \in {"CtL", "CtA", "CtU"}
  PROVE  Put(track(x)) /\ Put(track(x) \o step("known"))
<1>1. Put(on("Get", x)) /\ Put(step("known"))
  BY GoodStep, GoodOn DEF Put, Single
<1> QED BY <1>1, PutJoin, Zenon DEF track

(* AlpacaAtPark and AlpacaAtHome. *)
LEMMA PutAlpaca ==
  Put(AlpacaAtPark) /\ Put(AlpacaAtHome)
<1>1. Put(step("drainToken")) /\ Put(step("maybeFinishPark")) /\ Put(step("stopped")) /\ Put(step("notUnparked"))
      /\ Put(step("axes"))
  BY GoodStep DEF Put, Single
<1> QED BY <1>1, PutJoin, Zenon DEF AlpacaAtPark, AlpacaAtHome

(* The targets of SlewToAltAz. *)
LEMMA PutAltAz ==
  Put(step("requireHome") \o Blind("Sz") \o Blind("Sa"))
<1>1. Put(step("requireHome")) /\ Put(on("Blind", "Sz")) /\ Put(on("Blind", "Sa"))
  BY GoodStep, GoodOn DEF Put, Single
<1> QED BY <1>1, PutJoin, Zenon DEF Blind

(* The halt, and the search for home. *)
LEMMA GoodHalt ==
  /\ Good(Halt) /\ Asking(Halt)
  /\ Good(FindHome)
<1> DEFINE p == step("maybeCaptureHome") \o step("maybeFinishPark")
           w == on("write", "AH")
<1>1. Put(p)
  <2>1. Put(step("maybeCaptureHome")) /\ Put(step("maybeFinishPark"))
    BY GoodStep DEF Put, Single
  <2> QED BY <2>1, PutJoin, Zenon
<1>2. p \in Seq(Step)
  BY <1>1 DEF Put, Good
<1>3. /\ w \in Seq(Step) /\ step("refuseWhileHoming") \in Seq(Step) /\ Blind("Q") \in Seq(Step)
      /\ step("still") \in Seq(Step) /\ step("unmoved") \in Seq(Step)
      /\ step("notHoming") \in Seq(Step) /\ track("CtL") \in Seq(Step) /\ Blind("Ch") \in Seq(Step)
      /\ step("slewing") \in Seq(Step)
  BY StepTyped, OnTyped, BlindTyped, TrackTyped DEF Does, Command, Gated, Ungated, Query
<1>4. Homing = p \o w
  BY DEF Homing, get
<1> HIDE DEF p, w
<1>5. Halt = p \o Stop
  <2>1. Halt = p \o w \o step("refuseWhileHoming") \o Blind("Q") \o step("still") \o step("unmoved")
    BY <1>4 DEF Halt
  <2>2. Stop = w \o step("refuseWhileHoming") \o Blind("Q") \o step("still") \o step("unmoved")
    BY DEF Stop, w
  <2>3. p \o w \o step("refuseWhileHoming") \o Blind("Q") \o step("still") \o step("unmoved")
           = p \o (w \o step("refuseWhileHoming") \o Blind("Q") \o step("still") \o step("unmoved"))
    <3> DEFINE b == step("refuseWhileHoming")
               d == Blind("Q")
               e == step("still")
               f == step("unmoved")
    <3>1. p \in Seq(Step) /\ w \in Seq(Step) /\ b \in Seq(Step) /\ d \in Seq(Step) /\ e \in Seq(Step)
          /\ f \in Seq(Step)
      BY <1>2, <1>3, Zenon
    <3> HIDE DEF b, d, e, f
    <3>2. Regroups(p, w, b, d, e, f)
      BY <3>1, Regroup, Zenon
    <3> QED BY <3>2, Zenon DEF Regroups, b, d, e, f
  <2> QED BY <2>1, <2>2, <2>3, Zenon
<1>6. FindHome = p \o SeekHome
  <2>1. FindHome = p \o w \o step("notHoming") \o track("CtL") \o Blind("Ch") \o step("slewing")
    BY <1>4 DEF FindHome
  <2>2. SeekHome = w \o step("notHoming") \o track("CtL") \o Blind("Ch") \o step("slewing")
    BY DEF SeekHome, w
  <2>3. p \o w \o step("notHoming") \o track("CtL") \o Blind("Ch") \o step("slewing")
           = p \o (w \o step("notHoming") \o track("CtL") \o Blind("Ch") \o step("slewing"))
    <3> DEFINE b == step("notHoming")
               d == track("CtL")
               e == Blind("Ch")
               f == step("slewing")
    <3>1. p \in Seq(Step) /\ w \in Seq(Step) /\ b \in Seq(Step) /\ d \in Seq(Step) /\ e \in Seq(Step)
          /\ f \in Seq(Step)
      BY <1>2, <1>3, Zenon
    <3> HIDE DEF b, d, e, f
    <3>2. Regroups(p, w, b, d, e, f)
      BY <3>1, Regroup, Zenon
    <3> QED BY <3>2, Zenon DEF Regroups, b, d, e, f
  <2> QED BY <2>1, <2>2, <2>3, Zenon
<1> QED BY <1>1, <1>5, <1>6, PutJoin, GoodStop, GoodSeek, Zenon

(* Park. *)
LEMMA GoodPark ==
  Good(Park)
<1> DEFINE p == step("maybeCaptureHome") \o step("maybeFinishPark")
           w == on("write", "AH")
           a == step("requireHome")
           r == step("refuseWhileHoming")
           x == track("CtL")
           y == Ack("SrP")
           z == Ack("SdP")
           v == step("parking")
<1>1. /\ Put(step("requireHome")) /\ Put(p) /\ Put(Refuse) /\ Put(track("CtL")) /\ Put(AtPark)
      /\ Put(step("parked")) /\ Put(coord("G")) /\ Put(step("known"))
  <2>1. Put(step("maybeCaptureHome")) /\ Put(step("maybeFinishPark")) /\ Put(step("requireHome"))
        /\ Put(step("parked")) /\ Put(step("known"))
    BY GoodStep DEF Put, Single
  <2>2. Put(p)
    BY <2>1, PutJoin, Zenon
  <2> QED BY <2>1, <2>2, GoodRefuse, PutTrack, PutQuery DEF Put, AtPark, Query
<1>2. /\ p \in Seq(Step) /\ a \in Seq(Step) /\ x \in Seq(Step) /\ AtPark \in Seq(Step)
      /\ step("parked") \in Seq(Step) /\ coord("G") \in Seq(Step) /\ step("known") \in Seq(Step)
  BY <1>1 DEF Put, Good
<1>3. w \in Seq(Step) /\ r \in Seq(Step) /\ v \in Seq(Step)
  BY StepTyped, OnTyped DEF Does, Command, Gated, Ungated, Query
<1>4. /\ Good(y) /\ Loose(y) /\ Good(z) /\ Loose(z)
      /\ Good(slewCmd("MS") \o v)
  BY GoodAck, GoodSlew
<1>5. y \in Seq(Step) /\ z \in Seq(Step) /\ slewCmd("MS") \in Seq(Step)
  BY <1>4, SlewTyped DEF Good
<1>6. Homing = p \o w
  BY DEF Homing, get
<1> DEFINE q == a \o p \o (w \o r) \o x \o AtPark \o step("parked") \o coord("G") \o step("known")
           h == a \o (p \o w) \o r
<1>7. Park = h \o x \o AtPark \o step("parked") \o coord("G") \o step("known") \o y \o z \o slewCmd("MS") \o v
  BY <1>6 DEF Park, SlewToTarget
<1>8. h = a \o p \o (w \o r)
  <2> HIDE DEF a, p, w, r
  <2>1. a \o (p \o w) = (a \o p) \o w /\ a \o p \in Seq(Step)
    <3>1. p \in Seq(Step) /\ a \in Seq(Step) /\ w \in Seq(Step)
      BY <1>2, <1>3, Zenon
    <3> QED BY <3>1, Assoc, Zenon DEF Joined
  <2>2. ((a \o p) \o w) \o r = (a \o p) \o (w \o r)
    <3>1. a \o p \in Seq(Step) /\ w \in Seq(Step) /\ r \in Seq(Step)
      BY <1>3, <2>1, Zenon
    <3> DEFINE l == a \o p
    <3> HIDE DEF l
    <3>2. l \in Seq(Step)
      BY <3>1 DEF l
    <3>3. (l \o w) \o r = l \o (w \o r)
      BY <3>1, <3>2, Assoc, Zenon DEF Joined
    <3> QED BY <3>3, Zenon DEF l
  <2> QED BY <2>1, <2>2, Zenon
<1>9. Put(q)
  BY <1>1, PutJoin, Zenon DEF Refuse
<1>10. Park = q \o y \o z \o slewCmd("MS") \o v
  BY <1>7, <1>8, Zenon
<1>11. Good(q \o y \o z) /\ Loose(q \o y \o z)
  <2> HIDE DEF q, y, z
  <2>1. Good(q \o y) /\ Loose(q \o y)
    BY <1>4, <1>9, PutJoin, Zenon
  <2> QED BY <1>4, <2>1, GoodJoin, Zenon
<1>12. q \o y \o z \o slewCmd("MS") \o v = (q \o y \o z) \o (slewCmd("MS") \o v)
  <2> HIDE DEF q, y, z, v
  <2>1. q \o y \o z \in Seq(Step)
    BY <1>11 DEF Good
  <2>2. slewCmd("MS") \in Seq(Step) /\ v \in Seq(Step)
    BY <1>3, <1>5, Zenon
  <2> QED BY <2>1, <2>2, Assoc, Zenon DEF Joined
<1>13. Good((q \o y \o z) \o (slewCmd("MS") \o v))
  BY <1>4, <1>11, GoodJoin, Zenon
<1> QED BY <1>10, <1>12, <1>13, Zenon

Askers == {"write", "match", "maybeCaptureHome", "polePosition", "axes"}
Mute(q) == \A i \in 1 .. Len(q) : q[i].do \notin Askers

(* A list that asks nothing. *)
LEMMA MuteJoin ==
  ASSUME NEW a \in Step, NEW b \in Step, NEW d \in Step,
         a.do \notin Askers, b.do \notin Askers, d.do \notin Askers
  PROVE  Mute(<<a>> \o <<b>> \o <<d>>)
<1> DEFINE q == <<a>> \o <<b>> \o <<d>>
<1>1. Len(q) = 3 /\ q[1] = a /\ q[2] = b /\ q[3] = d
  OBVIOUS
<1> HIDE DEF q
<1>2. Mute(q)
  BY <1>1 DEF Mute
<1> QED BY <1>2 DEF q

(* Every operation of a lone caller. *)
LEMMA GoodProgram ==
  ASSUME NEW c \in Callers, Lone(c), NEW op \in Ops[c]
  PROVE  /\ Good(program(op))
         /\ op \notin Commands => Asking(program(op))
         /\ op = "Slewing" => Mute(program(op))
<1>1. op \in Operation \ {"MoveAxisRate", "Move", "StopAxis", "PulseGuide", "SlewToTargetAlt"}
  BY RstAssumption DEF Lone
<1>2. op = "SyncCurrent" => ~Careful
  BY DEF Careful, Careless
<1> HIDE DEF Good, Put
<1>3. /\ Put(step("known")) /\ Put(step("unlessParked")) /\ Put(step("ifParked")) /\ Put(step("atPark"))
      /\ Put(step("atHome")) /\ Put(step("Unpark")) /\ Put(step("requireHome")) /\ Put(step("polePosition"))
      /\ Put(step("drainToken")) /\ Put(step("maybeFinishPark"))
  BY GoodStep, Zenon DEF Put, Single
<1>4. CASE op = "Slewing"
  <2> DEFINE p == step("drainToken") \o step("maybeFinishPark")
             q == p \o step("Slewing")
  <2>1. Put(p) /\ program(op) = q
    BY <1>3, <1>4, PutJoin DEF program, Slewing
  <2>2. Good(q) /\ Asking(q)
    <3> HIDE DEF p
    <3> QED BY <2>1, GoodPoll, PutJoin, Zenon
  <2>3. Mute(q)
    <3> DEFINE a == rec("drainToken", "")
               b == rec("maybeFinishPark", "")
               d == rec("Slewing", "")
    <3>1. q = <<a>> \o <<b>> \o <<d>>
      BY DEF step, rec
    <3>2. a \in Step /\ b \in Step /\ d \in Step
      BY DEF rec, Step, Does, Command, Gated, Ungated
    <3>3. a.do \notin Askers /\ b.do \notin Askers /\ d.do \notin Askers
      BY DEF rec, Askers
    <3> HIDE DEF a, b, d, p, q
    <3>4. Mute(<<a>> \o <<b>> \o <<d>>)
      BY <3>2, <3>3, MuteJoin
    <3> QED BY <3>1, <3>4
  <2> QED BY <2>1, <2>2, <2>3
<1>5. CASE op \in {"RA", "SiteLatitude", "SetTracking", "StopTracking", "TrackRate"}
  <2>1. Put(coord("G") \o step("known")) /\ Put(get("G") \o step("known"))
    BY <1>3, PutQuery, PutJoin, Zenon DEF Query
  <2> QED BY <1>5, <2>1, PutTrack DEF program, Put
<1>6. CASE op = "SetTarget"
  <2>1. Good(Ack("Sr") \o Ack("Sd"))
    BY GoodAck, GoodJoin
  <2> QED BY <1>6, <2>1 DEF program, Commands
<1>7. CASE op = "SlewToTarget"
  <2>1. Good(SlewToTarget)
    BY GoodSlew DEF SlewToTarget
  <2> QED BY <1>7, <2>1 DEF program, Commands
<1>8. CASE op \in {"SlewToAltAz", "SlewToPole"}
  <2>1. Good(SlewToAltAz)
    BY PutAltAz, PutJoin, GoodSlew DEF SlewToAltAz
  <2>2. Good(SlewToPole)
    BY <2>1, <1>3, PutJoin, Zenon DEF SlewToPole
  <2> QED BY <1>8, <2>1, <2>2 DEF program, Commands
<1>9. CASE op \in {"SyncToTarget", "SyncCurrent"}
  BY <1>2, <1>9, GoodSync DEF program, SyncCurrent, Commands
<1>10. CASE op = "Halt"
  BY <1>10, GoodHalt DEF program
<1>11. CASE op = "FindHome"
  BY <1>11, GoodHalt DEF program, Commands
<1>12. CASE op = "Park"
  BY <1>12, GoodPark DEF program, Commands
<1>13. CASE op = "Unpark"
  BY <1>3, <1>13 DEF program, Put
<1>14. CASE op \in {"AlpacaAtPark", "AlpacaAtHome", "AlpacaUnpark"}
  <2>1. Put(AlpacaAtPark \o step("atPark")) /\ Put(AlpacaAtHome \o step("atHome")) /\ Put(AlpacaUnpark)
    BY <1>3, PutAlpaca, PutJoin, Zenon DEF AlpacaUnpark
  <2> QED BY <1>14, <2>1 DEF program, Put
<1>15. CASE op \in {"AlpacaPark", "AlpacaFindHome"}
  <2>1. Put(AlpacaAtPark \o step("unlessParked"))
    BY <1>3, PutAlpaca, PutJoin, Zenon
  <2>2. Good(AlpacaPark) /\ Good(AlpacaFindHome)
    BY <2>1, GoodPark, GoodHalt, PutJoin, Zenon DEF AlpacaPark, AlpacaFindHome
  <2> QED BY <1>15, <2>2 DEF program, Commands
<1> QED BY <1>1, <1>4, <1>5, <1>6, <1>7, <1>8, <1>9, <1>10, <1>11, <1>12, <1>13, <1>14, <1>15 DEF Operation
-----------------------------------------------------------------------------
Term == {"MM0", "CHO", "MMU", "CH<"}
Moving == fw.motion \in {"goto", "home"}
Unread == 1 .. Len(inbox)
NoTerm == \A i \in Unread : inbox[i].k \notin Term
NoQuery == \A i \in Unread : inbox[i].k \notin Query

followedBy(c, s) == Tail(todo[c]) # <<>> /\ Head(Tail(todo[c])).do = s
beforeCh(c) == Tail(todo[c]) # <<>> /\ Is(Head(Tail(todo[c])), "Blind", "Ch")
sends(c, x) == at(c, "Blind") /\ cmd(c) = x
opening(c) == at(c, "window") /\ cmd(c) \in {"MS", "MA"}
Starts(c) == opening(c) \/ at(c, "slewing") \/ (at(c, "applyToken") /\ followedBy(c, "slewing"))
Past(c) == at(c, "refuseWhileHoming") \/ sends(c, "Q") \/ at(c, "still")

Quiet == fw.motion \in {"idle", "goto", "home"} /\ ~fw.wedged /\ ~fw.verdict /\ pulses = 0
Calm(c) == Asking(todo[c]) \/ (fw.motion = "idle" /\ ~m.slewing)
Latched(c) == Moving => m.slewing \/ Starts(c)
Told(c) == told[c] = "idle" => todo[c] = <<>> /\ fw.motion = "idle" /\ ~m.slewing
Unique == \A i, j \in Unread : inbox[i].k \in Term /\ inbox[j].k \in Term => i = j
Terms(c) == \A i \in Unread : inbox[i].k \in Term => (Moving => opening(c) /\ i = 1) /\ (i > 1 => m.slewing)
Token1(c) == tok[c].k \in Term => at(c, "applyToken") /\ NoTerm /\ (Moving => Starts(c))
Refused(c) ==
  /\ \A i \in Unread : inbox[i].k \in Refusal =>
       /\ ~Moving /\ (m.slewing \/ Starts(c))
       /\ \/ opening(c) /\ i = Len(inbox) /\ inbox[i].k = cmd(c)
          \/ ~at(c, "window") /\ NoTerm /\ (tok[c].k \notin Term \/ Starts(c))
  /\ at(c, "window") => ~m.slewing
Bytes == /\ fw.motion = "home" => \A i \in Unread : inbox[i].k # "byte"
         /\ \A i \in Unread : inbox[i].k # "none"
PastOK(c) ==
  /\ Past(c) => inbox = <<>> \/ (Len(inbox) = 1 /\ inbox[1].k \in Term /\ ~Moving)
  /\ at(c, "refuseWhileHoming") /\ fw.motion = "home" => val[c] = "1"
  /\ sends(c, "Q") => fw.motion # "home"
  /\ at(c, "still") => ~Moving
Seek(c) ==
  /\ at(c, "notHoming") /\ val[c] = "0" => inbox = <<>>
  /\ at(c, "Get") /\ beforeCh(c) => inbox = <<>>
  /\ at(c, "echo") /\ beforeCh(c) => Len(inbox) = 1 /\ inbox[1].k = "CT"
  /\ sends(c, "Ch") => inbox = <<>>
Answered(c) ==
  \E p \in Unread :
    /\ inbox[p].k = cmd(c)
    /\ \A j \in Unread : inbox[j].k \in Query => j = p
    /\ nth(c) + p <= MaxInbox + 1
    /\ \A j \in Unread : j > p => inbox[j].k \in Term
    /\ Moving => p = Len(inbox)
    /\ cmd(c) = "AH" /\ fw.motion = "home" => inbox[p].v = "1"
Lost(c) ==
  /\ NoQuery
  /\ Len(inbox) + nth(c) <= MaxInbox + 1
  /\ Moving => Len(inbox) + nth(c) <= MaxInbox
  /\ fw.motion # "home"
Answer(c) == IF at(c, "match") THEN Answered(c) \/ Lost(c) ELSE NoQuery
Bound(c) ==
  \/ Mute(todo[c])
  \/ at(c, "accepted") /\ val[c] # "1"
  \/ Len(inbox) <= MaxInbox
  \/ Len(inbox) <= MaxInbox + 1 /\ (at(c, "match") \/ at(c, "echo") \/ at(c, "byte") \/ at(c, "window"))

SessionInv(c) ==
  /\ Shape(todo[c]) /\ Quiet /\ Calm(c) /\ Latched(c) /\ Told(c) /\ Unique /\ Terms(c) /\ Token1(c)
  /\ Refused(c) /\ Bytes /\ PastOK(c) /\ Seek(c) /\ Answer(c) /\ Bound(c)

(* Most steps are taken where the invariant says less. *)
Busy(c) == at(c, "window") \/ at(c, "match") \/ at(c, "applyToken") \/ at(c, "slewing")
Special(c) == \/ Busy(c) \/ Past(c) \/ at(c, "notHoming") \/ sends(c, "Ch")
              \/ (at(c, "Get") \/ at(c, "echo")) /\ beforeCh(c)
Plain(c) ==
  /\ Shape(todo[c]) /\ Quiet /\ Calm(c) /\ Told(c) /\ Unique /\ Bytes /\ NoQuery /\ Bound(c)
  /\ Moving => m.slewing
  /\ \A i \in Unread : inbox[i].k \in Term => ~Moving /\ (i > 1 => m.slewing)
  /\ tok[c].k \notin Term
  /\ \A i \in Unread : inbox[i].k \in Refusal => ~Moving /\ m.slewing /\ NoTerm

(* Away from the busy steps the invariant is this plain form of it, *)
LEMMA FromPlain ==
  ASSUME NEW c \in Callers, SessionInv(c), ~Busy(c)
  PROVE  Plain(c)
<1>1. ~opening(c) /\ ~Starts(c) /\ ~at(c, "window") /\ ~at(c, "match") /\ ~at(c, "applyToken")
  BY DEF Busy, Starts, opening
<1>2. /\ Shape(todo[c]) /\ Quiet /\ Calm(c) /\ Told(c) /\ Unique /\ Bytes /\ Bound(c)
      /\ Latched(c) /\ Terms(c) /\ Token1(c) /\ Refused(c) /\ Answer(c)
  BY DEF SessionInv
<1>3. NoQuery /\ (Moving => m.slewing)
  BY <1>1, <1>2, Zenon DEF Answer, Latched
<1>4. \A i \in Unread : inbox[i].k \in Term => ~Moving /\ (i > 1 => m.slewing)
  BY <1>1, <1>2, Zenon DEF Terms
<1>5. tok[c].k \notin Term
  BY <1>1, <1>2, Zenon DEF Token1
<1>6. \A i \in Unread : inbox[i].k \in Refusal => ~Moving /\ m.slewing /\ NoTerm
  BY <1>1, <1>2, Zenon DEF Refused
<1> QED BY <1>2, <1>3, <1>4, <1>5, <1>6, Zenon DEF Plain

(* and conversely, *)
LEMMA ToNear ==
  ASSUME NEW c \in Callers, Plain(c)', ~Busy(c)', PastOK(c)', Seek(c)'
  PROVE  SessionInv(c)'
<1>1. ~opening(c)' /\ ~Starts(c)' /\ ~at(c, "window")' /\ ~at(c, "match")' /\ ~at(c, "applyToken")'
  BY Zenon DEF Busy, Starts, opening
<1>2. /\ Shape(todo[c])' /\ Quiet' /\ Calm(c)' /\ Told(c)' /\ Unique' /\ Bytes' /\ NoQuery' /\ Bound(c)'
      /\ (Moving => m.slewing)'
      /\ (\A i \in Unread : inbox[i].k \in Term => ~Moving /\ (i > 1 => m.slewing))'
      /\ (tok[c].k \notin Term)'
      /\ (\A i \in Unread : inbox[i].k \in Refusal => ~Moving /\ m.slewing /\ NoTerm)'
  BY Zenon DEF Plain
<1>3. Latched(c)' /\ Terms(c)' /\ Token1(c)' /\ Answer(c)'
  BY <1>1, <1>2, Zenon DEF Latched, Terms, Token1, Answer
<1>4. Refused(c)'
  BY <1>1, <1>2, Zenon DEF Refused
<1> QED BY <1>2, <1>3, <1>4, Zenon DEF SessionInv

(* with nothing else to show where no step relies on what was read. *)
LEMMA ToPlain ==
  ASSUME NEW c \in Callers, Plain(c)', ~Special(c)'
  PROVE  SessionInv(c)'
<1>1. /\ ~Past(c)' /\ ~at(c, "notHoming")' /\ ~sends(c, "Ch")'
      /\ ~(at(c, "Get") /\ beforeCh(c))' /\ ~(at(c, "echo") /\ beforeCh(c))' /\ ~Busy(c)'
  BY Zenon DEF Special
<1>2. PastOK(c)' /\ Seek(c)'
  BY <1>1, Zenon DEF PastOK, Seek, Past
<1> QED BY <1>1, <1>2, ToNear

(* What a list says of the step at its head. *)
LEMMA Later ==
  ASSUME NEW q \in Seq(Step), q # <<>>, Shape(q)
  PROVE  /\ Tail(q) \in Seq(Step) /\ Shape(Tail(q)) /\ Proper(Head(q)) /\ Head(q) \in Step
         /\ Tail(q) # <<>> => Follows(Head(q), Head(Tail(q))) /\ Head(Tail(q)) \in Step
         /\ Slews(Head(q)) => Tail(q) # <<>> /\ Head(Tail(q)).do = "slewing"
         /\ Syncs(Head(q)) => Tail(q) = <<>>
         /\ Head(q).do = "slewing" => Tail(q) = <<>> \/ (Tail(Tail(q)) = <<>> /\ Head(Tail(q)).do = "parking")
         /\ Head(q).do \in {"parking", "Slewing"} => Tail(q) = <<>>
         /\ Head(q).do = "notHoming" => /\ Tail(q) # <<>> /\ Head(Tail(q)).do = "Get"
                                        /\ Tail(Tail(q)) # <<>> /\ Is(Head(Tail(Tail(q))), "Blind", "Ch")
         /\ Is(Head(q), "Blind", "Ch") => Tail(q) # <<>> /\ Tail(Tail(q)) = <<>> /\ Head(Tail(q)).do = "slewing"
         /\ Is(Head(q), "Blind", "Q") => Tail(q) # <<>> /\ Head(Tail(q)).do = "still"
         /\ Tail(q) # <<>> /\ Tail(Tail(q)) # <<>> /\ Is(Head(Tail(Tail(q))), "Blind", "Ch")
              => Head(q).do = "notHoming"
<1> DEFINE t == Tail(q)
           u == Tail(t)
<1>1. /\ t \in Seq(Step) /\ Head(q) = q[1] /\ q[1] \in Step /\ Len(q) \in Nat /\ Len(q) >= 1
      /\ Len(t) = Len(q) - 1 /\ \A i \in 1 .. Len(t) : t[i] = q[i + 1]
  BY TailParts, Zenon
<1>2. Shape(t)
  BY ShapeTail
<1>3. Proper(q[1]) /\ Placed(q, 1)
  BY <1>1 DEF Shape
<1>4. t = <<>> <=> Len(q) = 1
  <2> HIDE DEF t
  <2> QED BY <1>1
<1>5. t # <<>> => /\ Len(q) >= 2 /\ Head(t) = q[2] /\ q[2] \in Step /\ Follows(q[1], q[2])
                  /\ u \in Seq(Step) /\ Len(u) = Len(q) - 2 /\ (u = <<>> <=> Len(q) = 2)
                  /\ u # <<>> => Len(q) >= 3 /\ Head(u) = q[3]
  <2> SUFFICES ASSUME t # <<>>
               PROVE  /\ Len(q) >= 2 /\ Head(t) = q[2] /\ q[2] \in Step /\ Follows(q[1], q[2])
                      /\ u \in Seq(Step) /\ Len(u) = Len(q) - 2 /\ (u = <<>> <=> Len(q) = 2)
                      /\ u # <<>> => Len(q) >= 3 /\ Head(u) = q[3]
    OBVIOUS
  <2> HIDE DEF t
  <2>1. /\ u \in Seq(Step) /\ Head(t) = t[1] /\ t[1] \in Step /\ Len(t) \in Nat /\ Len(t) >= 1
        /\ Len(u) = Len(t) - 1 /\ \A i \in 1 .. Len(u) : u[i] = t[i + 1]
    BY <1>1, TailParts, Zenon
  <2>2. Len(q) >= 2 /\ t[1] = q[2]
    BY <1>1, <2>1
  <2>3. Follows(q[1], q[2])
    <3>1. 1 \in 1 .. Len(q) - 1
      BY <1>1, <2>2
    <3> QED BY <3>1 DEF Shape
  <2> HIDE DEF u
  <2>4. u # <<>> => Head(u) = u[1] /\ Len(u) >= 1
    BY <2>1
  <2>5. u = <<>> <=> Len(u) = 0
    BY <2>1
  <2>6. u # <<>> => Len(q) >= 3 /\ Head(u) = q[3]
    <3>1. ASSUME u # <<>> PROVE Len(q) >= 3 /\ Head(u) = q[3]
      <4>1. 1 \in 1 .. Len(u) /\ Len(t) >= 2 /\ 2 \in 1 .. Len(t)
        BY <2>1, <2>4, <3>1
      <4>2. u[1] = t[2] /\ t[2] = q[3]
        BY <1>1, <2>1, <4>1
      <4> QED BY <1>1, <2>4, <3>1, <4>1, <4>2
    <3> QED BY <3>1
  <2> QED BY <1>1, <2>1, <2>2, <2>3, <2>5, <2>6
<1> HIDE DEF t, u
<1>6. Tail(q) = t /\ Tail(t) = u /\ Tail(Tail(q)) = u
  BY DEF t, u
<1>7. /\ t # <<>> => Follows(q[1], Head(t)) /\ Head(t) \in Step
      /\ Slews(q[1]) => t # <<>> /\ Head(t).do = "slewing"
      /\ Syncs(q[1]) => t = <<>>
  BY <1>1, <1>3, <1>4, <1>5 DEF Placed
<1>8. /\ q[1].do = "slewing" => t = <<>> \/ (u = <<>> /\ Head(t).do = "parking")
      /\ q[1].do \in {"parking", "Slewing"} => t = <<>>
  BY <1>1, <1>3, <1>4, <1>5 DEF Placed
<1>9. /\ q[1].do = "notHoming" => t # <<>> /\ Head(t).do = "Get" /\ u # <<>> /\ Is(Head(u), "Blind", "Ch")
      /\ Is(q[1], "Blind", "Ch") => t # <<>> /\ u = <<>> /\ Head(t).do = "slewing"
      /\ Is(q[1], "Blind", "Q") => t # <<>> /\ Head(t).do = "still"
  BY <1>1, <1>3, <1>4, <1>5 DEF Placed
<1>10. t # <<>> /\ u # <<>> /\ Is(Head(u), "Blind", "Ch") => q[1].do = "notHoming"
  <2>1. ASSUME t # <<>>, u # <<>>, Is(q[3], "Blind", "Ch"), Len(q) >= 3 PROVE q[1].do = "notHoming"
    <3>1. Placed(q, 3)
      BY <1>1, <2>1 DEF Shape
    <3> QED BY <2>1, <3>1 DEF Placed
  <2> QED BY <1>5, <2>1
<1> QED BY <1>1, <1>2, <1>3, <1>6, <1>7, <1>8, <1>9, <1>10, Zenon

(* A caller that goes on to its next step. *)
LEMMA Onward ==
  ASSUME TypeOK, NEW c \in Callers, NEW s, at(c, s), Shape(todo[c]), proceed(c)
  PROVE  /\ todo'[c] = Tail(todo[c]) /\ Shape(todo'[c]) /\ Proper(Head(todo[c]))
         /\ \A d \in Reading : ~at(c, d)'
         /\ at(c, "refuseWhileHoming")' \/ at(c, "notHoming")' => Asks(Head(todo[c]), "AH")
         /\ at(c, "captureHome")' => Asks(Head(todo[c]), "G")
         /\ sends(c, "Q")' => s = "refuseWhileHoming"
         /\ at(c, "still")' => sends(c, "Q")
         /\ at(c, "slewing")' => Slews(Head(todo[c])) \/ s = "applyToken" \/ sends(c, "Ch")
         /\ sends(c, "Ch")' => s \in {"Get", "echo"} /\ beforeCh(c)
         /\ at(c, "Get")' /\ beforeCh(c)' => s = "notHoming"
         /\ s \in {"Ack", "byte"} /\ todo'[c] # <<>> => at(c, "accepted")'
         /\ Asking(todo[c]) => Asking(todo'[c])
         /\ Mute(todo[c]) => Mute(todo'[c])
<1> DEFINE q == todo[c]
           h == Head(q)
           t == Tail(q)
<1>1. q \in Seq(Step) /\ q # <<>> /\ h.do = s /\ todo \in [Callers -> Seq(Step)]
  BY HeadTyped DEF at, TypeOK
<1>2. todo'[c] = t
  BY <1>1 DEF proceed
<1>3. /\ t \in Seq(Step) /\ Shape(t) /\ Proper(h)
      /\ t # <<>> => Follows(h, Head(t))
      /\ t # <<>> /\ Tail(t) # <<>> /\ Is(Head(Tail(t)), "Blind", "Ch") => h.do = "notHoming"
  BY <1>1, Later, Zenon
<1>4. Asking(q) => Asking(t)
  <2>1. \A i \in 1 .. Len(t) : i + 1 \in 1 .. Len(q) /\ t[i] = q[i + 1]
    BY <1>1
  <2> QED BY <2>1 DEF Asking
<1>5. Mute(q) => Mute(t)
  <2>1. \A i \in 1 .. Len(t) : i + 1 \in 1 .. Len(q) /\ t[i] = q[i + 1]
    BY <1>1
  <2> QED BY <2>1 DEF Mute
<1> HIDE DEF q, t, h
<1>6. /\ \A d : at(c, d) <=> h.do = d
      /\ \A d : at(c, d)' <=> t # <<>> /\ Head(t).do = d
      /\ \A x : sends(c, x) <=> Is(h, "Blind", x)
      /\ \A x : sends(c, x)' <=> t # <<>> /\ Is(Head(t), "Blind", x)
      /\ beforeCh(c) <=> t # <<>> /\ Is(Head(t), "Blind", "Ch")
      /\ beforeCh(c)' <=> Tail(t) # <<>> /\ Is(Head(Tail(t)), "Blind", "Ch")
  <2>1. q # <<>> /\ todo[c] = q /\ Head(q) = h /\ Tail(q) = t
    BY <1>1 DEF q, h, t
  <2> QED BY <1>2, <2>1, Zenon DEF at, sends, cmd, beforeCh, Is
<1>7. /\ \A d \in Reading : ~at(c, d)'
      /\ at(c, "refuseWhileHoming")' \/ at(c, "notHoming")' => Asks(h, "AH")
      /\ at(c, "captureHome")' => Asks(h, "G")
      /\ sends(c, "Q")' => s = "refuseWhileHoming"
      /\ at(c, "still")' => sends(c, "Q")
      /\ at(c, "slewing")' => Slews(h) \/ s = "applyToken" \/ sends(c, "Ch")
      /\ s \in {"Ack", "byte"} /\ t # <<>> => at(c, "accepted")'
  BY <1>1, <1>3, <1>6 DEF Follows
<1>8. sends(c, "Ch")' => s \in {"Get", "echo"} /\ beforeCh(c)
  BY <1>1, <1>3, <1>6 DEF Follows
<1>9. at(c, "Get")' /\ beforeCh(c)' => s = "notHoming"
  BY <1>1, <1>3, <1>6, Zenon
<1>10. Head(todo[c]) = h /\ Tail(todo[c]) = t /\ (Asking(todo[c]) => Asking(todo'[c])) /\ (Mute(todo[c]) => Mute(todo'[c]))
  BY <1>2, <1>4, <1>5 DEF q, h, t
<1> QED BY <1>2, <1>3, <1>7, <1>8, <1>9, <1>10, Zenon

(* A step taken for another. *)
LEMMA Instead ==
  ASSUME TypeOK, NEW c \in Callers, NEW s, at(c, s), Shape(todo[c]),
         NEW x \in Step, Proper(x), Replaces(Head(todo[c]), x), insert(c, <<x>>)
  PROVE  /\ Shape(todo'[c]) /\ todo'[c] # <<>> /\ Head(todo'[c]) = x /\ Tail(todo'[c]) = Tail(todo[c])
         /\ \A d : at(c, d)' <=> x.do = d
         /\ \A d : followedBy(c, d)' <=> followedBy(c, d)
         /\ cmd(c)' = x.cmd /\ nth(c)' = x.n
         /\ beforeCh(c)' <=> beforeCh(c)
         /\ (Commanding(x) => Commanding(Head(todo[c]))) /\ Asking(todo[c]) => Asking(todo'[c])
         /\ (x.do \in Askers => s \in Askers) /\ Mute(todo[c]) => Mute(todo'[c])
<1> DEFINE q == todo[c]
           h == Head(q)
           t == Tail(q)
           r == <<x>> \o t
<1>1. q \in Seq(Step) /\ q # <<>> /\ h.do = s /\ todo \in [Callers -> Seq(Step)] /\ t \in Seq(Step)
  BY HeadTyped DEF at, TypeOK
<1>2. todo'[c] = r
  BY <1>1 DEF insert
<1>3. Shape(r)
  BY <1>1, ShapeHead
<1>4. /\ r # <<>> /\ Head(r) = x /\ Tail(r) = t
      /\ Len(r) = Len(q) /\ r[1] = x /\ q[1] = h /\ \A i \in 1 .. Len(r) : i > 1 => r[i] = q[i]
  <2>1. /\ Len(q) \in Nat /\ Len(q) >= 1 /\ Len(t) = Len(q) - 1 /\ h = q[1]
        /\ \A i \in 1 .. Len(t) : t[i] = q[i + 1]
    BY <1>1, TailParts, Zenon
  <2> HIDE DEF q, h, t
  <2>2. r # <<>> /\ Head(r) = x /\ Tail(r) = t /\ Len(r) = Len(t) + 1 /\ r[1] = x
        /\ \A i \in 1 .. Len(t) : r[i + 1] = t[i]
    BY <1>1
  <2> HIDE DEF r
  <2>3. ASSUME NEW i \in 1 .. Len(r), i > 1 PROVE r[i] = q[i]
    <3>1. i - 1 \in 1 .. Len(t) /\ i - 1 + 1 = i
      BY <2>1, <2>2, <2>3
    <3>2. r[i - 1 + 1] = t[i - 1] /\ t[i - 1] = q[i - 1 + 1]
      BY <2>1, <2>2, <3>1
    <3> QED BY <3>1, <3>2
  <2>4. Len(r) = Len(q)
    BY <2>1, <2>2
  <2> QED BY <2>1, <2>2, <2>3, <2>4, Zenon
<1> HIDE DEF r
<1>5. (Commanding(x) => Commanding(h)) /\ Asking(q) => Asking(r)
  <2>1. 1 \in 1 .. Len(q) /\ \A i \in 1 .. Len(r) : i \in 1 .. Len(q) /\ (i = 1 \/ i > 1)
    BY <1>1, <1>4
  <2> QED BY <1>4, <2>1, Zenon DEF Asking
<1>6. (x.do \in Askers => s \in Askers) /\ Mute(q) => Mute(r)
  <2>1. 1 \in 1 .. Len(q) /\ \A i \in 1 .. Len(r) : i \in 1 .. Len(q) /\ (i = 1 \/ i > 1)
    BY <1>1, <1>4
  <2> QED BY <1>1, <1>4, <2>1, Zenon DEF Mute
<1>7. /\ \A d : at(c, d)' <=> x.do = d
      /\ \A d : followedBy(c, d)' <=> followedBy(c, d)
      /\ cmd(c)' = x.cmd /\ nth(c)' = x.n
      /\ beforeCh(c)' <=> beforeCh(c)
  <2>1. todo'[c] # <<>> /\ Head(todo'[c]) = x /\ Tail(todo'[c]) = Tail(todo[c])
    BY <1>2, <1>4
  <2> QED BY <2>1, Zenon DEF at, followedBy, beforeCh, cmd, nth
<1> QED BY <1>2, <1>3, <1>4, <1>5, <1>6, <1>7, Zenon DEF q, h, t

(* Where a caller that goes on is next. *)
LEMMA Resume ==
  ASSUME TypeOK, NEW c \in Callers, NEW s, at(c, s), Shape(todo[c]), proceed(c),
         s \notin {"write", "match", "refuseWhileHoming", "notHoming", "applyToken", "window", "slewCmd"},
         ~sends(c, "Q"), ~sends(c, "Ch"), ~(s \in {"Get", "echo"} /\ beforeCh(c))
  PROVE  ~Special(c)'
<1>0. Head(todo[c]).do = s
  BY DEF at
<1>1. /\ \A d \in Reading : ~at(c, d)'
      /\ at(c, "refuseWhileHoming")' \/ at(c, "notHoming")' => Asks(Head(todo[c]), "AH")
      /\ sends(c, "Q")' => s = "refuseWhileHoming"
      /\ at(c, "still")' => sends(c, "Q")
      /\ at(c, "slewing")' => Slews(Head(todo[c])) \/ s = "applyToken" \/ sends(c, "Ch")
      /\ sends(c, "Ch")' => s \in {"Get", "echo"} /\ beforeCh(c)
      /\ at(c, "Get")' /\ beforeCh(c)' => s = "notHoming"
  BY Onward, Zenon
<1>2. ~Asks(Head(todo[c]), "AH") /\ ~Slews(Head(todo[c]))
  BY <1>0 DEF Asks, Slews
<1>3. /\ ~at(c, "window")' /\ ~at(c, "match")' /\ ~at(c, "applyToken")' /\ ~at(c, "echo")' /\ ~at(c, "slewing")'
      /\ ~at(c, "refuseWhileHoming")' /\ ~at(c, "notHoming")' /\ ~sends(c, "Q")' /\ ~at(c, "still")'
      /\ ~sends(c, "Ch")' /\ ~(at(c, "Get")' /\ beforeCh(c)')
  BY <1>1, <1>2 DEF Reading
<1> QED BY <1>3, Zenon DEF Special, Busy, Past

(* A step that does not concern what the mount does or says. *)
LEMMA KeepPlain ==
  ASSUME TypeOK, NEW c \in Callers, NEW s, at(c, s), SessionInv(c), ~Busy(c), s \notin {"echo", "byte"},
         inbox' = inbox, fw' = fw, tok' = tok, pulses' = pulses, m'.slewing = m.slewing,
         Shape(todo'[c]), Asking(todo[c]) => Asking(todo'[c]), Mute(todo[c]) => Mute(todo'[c]),
         told'[c] = told[c] \/ Told(c)', at(c, "accepted") /\ val[c] # "1" => Mute(todo'[c])
  PROVE  Plain(c)'
<1>1. Plain(c)
  BY FromPlain
<1>2. /\ Shape(todo[c]) /\ Quiet /\ Calm(c) /\ Told(c) /\ Unique /\ Bytes /\ NoQuery /\ Bound(c)
      /\ Moving => m.slewing
      /\ \A i \in Unread : inbox[i].k \in Term => ~Moving /\ (i > 1 => m.slewing)
      /\ tok[c].k \notin Term
      /\ \A i \in Unread : inbox[i].k \in Refusal => ~Moving /\ m.slewing /\ NoTerm
  BY <1>1, Zenon DEF Plain
<1>3. Quiet' /\ Unique' /\ Bytes' /\ NoQuery'
  BY <1>2 DEF Quiet, Unique, Bytes, NoQuery, Unread
<1>4. Calm(c)'
  BY <1>2, Zenon DEF Calm
<1>5. Told(c)'
  BY <1>2, Zenon DEF Told, at
<1>6. Bound(c)'
  <2>1. ~at(c, "match") /\ ~at(c, "echo") /\ ~at(c, "byte") /\ ~at(c, "window")
    BY DEF Busy, at
  <2> QED BY <1>2, <2>1, Zenon DEF Bound
<1>7. /\ (Moving => m.slewing)'
      /\ (\A i \in Unread : inbox[i].k \in Term => ~Moving /\ (i > 1 => m.slewing))'
      /\ (tok[c].k \notin Term)'
      /\ (\A i \in Unread : inbox[i].k \in Refusal => ~Moving /\ m.slewing /\ NoTerm)'
  BY <1>2, Zenon DEF Moving, Unread, NoTerm
<1> QED BY <1>3, <1>4, <1>5, <1>6, <1>7, Zenon DEF Plain

(* The same, when the caller goes on to a step that relies on nothing. *)
LEMMA Keep ==
  ASSUME TypeOK, NEW c \in Callers, NEW s, at(c, s), SessionInv(c), ~Busy(c), s \notin {"echo", "byte"},
         inbox' = inbox, fw' = fw, tok' = tok, pulses' = pulses, m'.slewing = m.slewing,
         Shape(todo'[c]), Asking(todo[c]) => Asking(todo'[c]), Mute(todo[c]) => Mute(todo'[c]),
         told'[c] = told[c] \/ Told(c)', at(c, "accepted") /\ val[c] # "1" => Mute(todo'[c]),
         ~Special(c)'
  PROVE  SessionInv(c)'
BY KeepPlain, ToPlain

(* The second entry of a list. *)
LEMMA SecondParts ==
  ASSUME NEW S, NEW q \in Seq(S), q # <<>>, Len(q) > 1
  PROVE  Tail(q) # <<>> /\ Head(Tail(q)) = q[2]
<1> DEFINE t == Tail(q)
<1>1. t \in Seq(S) /\ Len(t) = Len(q) - 1 /\ t[1] = q[2]
  OBVIOUS
<1> HIDE DEF t
<1>2. t # <<>> /\ Head(t) = t[1]
  BY <1>1
<1> QED BY <1>1, <1>2 DEF t

(* A list with nothing behind its head. *)
LEMMA OneLong ==
  ASSUME NEW S, NEW q \in Seq(S), q # <<>>, Tail(q) = <<>>
  PROVE  Len(q) = 1 /\ Head(q) = q[1]
<1>1. Len(q) \in Nat /\ Len(q) >= 1 /\ Head(q) = q[1]
  BY TailParts
<1>2. ~(Len(q) > 1)
  BY SecondParts, Zenon
<1> DEFINE n == Len(q)
<1>3. n \in Nat /\ n >= 1 /\ ~(n > 1)
  BY <1>1, <1>2, Zenon
<1> HIDE DEF n
<1>4. n = 1
  BY <1>3
<1> QED BY <1>1, <1>4 DEF n

(* Steps put in front of a list. *)
LEMMA Before ==
  ASSUME TypeOK, NEW c \in Callers, NEW s, at(c, s), Shape(todo[c]),
         s \in {"maybeCaptureHome", "maybeFinishPark", "polePosition", "axes"},
         NEW p \in Seq(Step), p # <<>>, Shape(p), Loose(p), insert(c, p)
  PROVE  /\ Shape(todo'[c]) /\ todo'[c] # <<>> /\ Head(todo'[c]) = p[1]
         /\ Len(p) = 1 => Tail(todo'[c]) = Tail(todo[c]) /\ ~beforeCh(c)
         /\ Asking(p) /\ Asking(todo[c]) => Asking(todo'[c])
         /\ Mute(p) /\ Mute(todo[c]) => Mute(todo'[c])
<1> DEFINE q == todo[c]
           h == Head(q)
           t == Tail(q)
           r == p \o t
<1>1. q \in Seq(Step) /\ q # <<>> /\ h.do = s /\ todo \in [Callers -> Seq(Step)]
  BY HeadTyped DEF at, TypeOK
<1>2. todo'[c] = r
  BY <1>1 DEF insert
<1>3. /\ t \in Seq(Step) /\ Shape(t)
      /\ t # <<>> => Follows(h, Head(t))
      /\ t # <<>> /\ Tail(t) # <<>> /\ Is(Head(Tail(t)), "Blind", "Ch") => h.do = "notHoming"
  BY <1>1, Later, Zenon
<1>4. Leads(t) /\ ~beforeCh(c)
  <2>1. /\ t # <<>> => Head(t) = t[1]
        /\ t # <<>> /\ Len(t) > 1 => Tail(t) # <<>> /\ Head(Tail(t)) = t[2]
    <3> HIDE DEF t
    <3>1. t # <<>> => Head(t) = t[1]
      BY <1>3
    <3>2. ASSUME t # <<>>, Len(t) > 1 PROVE Tail(t) # <<>> /\ Head(Tail(t)) = t[2]
      BY <1>3, <3>2, SecondParts
    <3> QED BY <3>1, <3>2
  <2>2. t # <<>> => Free(Head(t))
    <3> HIDE DEF t, h
    <3> QED BY <1>1, <1>3 DEF Follows, Free, Asks, Slews, Is
  <2> HIDE DEF t, h
  <2>3. Leads(t)
    <3>1. ASSUME t # <<>>, Len(t) > 1 PROVE ~Is(t[2], "Blind", "Ch")
      <4>1. Tail(t) # <<>>
        BY <2>1, <3>1
      <4> QED BY <1>1, <1>3, <2>1, <3>1, <4>1
    <3> QED BY <2>1, <2>2, <3>1 DEF Leads
  <2>4. ~beforeCh(c)
    <3>1. Tail(todo[c]) = t
      BY DEF t
    <3> QED BY <2>2, <3>1, Zenon DEF beforeCh, Free
  <2> QED BY <2>3, <2>4
<1>5. Shape(r)
  BY <1>3, <1>4, ShapeJoin
<1>6. /\ Len(p) \in Nat /\ Len(t) \in Nat /\ Len(r) = Len(p) + Len(t) /\ Len(p) >= 1
      /\ \A i \in 1 .. Len(p) : r[i] = p[i]
      /\ \A i \in 1 .. Len(t) : r[Len(p) + i] = t[i]
      /\ \A i \in 1 .. Len(t) : t[i] = q[i + 1]
      /\ Len(t) = Len(q) - 1
  <2>1. /\ Len(p) \in Nat /\ Len(t) \in Nat /\ Len(r) = Len(p) + Len(t)
        /\ \A i \in 1 .. Len(p) : r[i] = p[i]
        /\ \A i \in 1 .. Len(t) : r[Len(p) + i] = t[i]
    <3> HIDE DEF t
    <3> QED BY <1>3, JoinParts
  <2>2. Len(p) >= 1
    BY <2>1
  <2> QED BY <1>1, <2>1, <2>2, TailParts, Zenon
<1>7. r # <<>> /\ Head(r) = p[1] /\ (Len(p) = 1 => Tail(r) = t)
  <2> HIDE DEF t
  <2>1. r \in Seq(Step)
    BY <1>3, JoinParts
  <2>2. Len(r) >= 1 /\ r[1] = p[1]
    BY <1>6
  <2>3. r # <<>> /\ Head(r) = r[1]
    <3> HIDE DEF r
    <3> QED BY <2>1, <2>2
  <2>4. Len(p) = 1 => Tail(r) = t
    <3>1. ASSUME Len(p) = 1 PROVE Tail(r) = t
      <4>1. p = <<p[1]>> /\ p[1] \in Step
        BY <3>1
      <4>2. Tail(<<p[1]>> \o t) = t
        BY <1>3, <4>1
      <4> QED BY <4>1, <4>2, Zenon
    <3> QED BY <3>1
  <2> QED BY <2>2, <2>3, <2>4, Zenon
<1> HIDE DEF t, r
<1>8. ASSUME NEW i \in 1 .. Len(r)
      PROVE  \/ i \in 1 .. Len(p) /\ r[i] = p[i]
             \/ \E j \in 1 .. Len(q) : r[i] = q[j]
  <2>1. CASE i \in 1 .. Len(p)
    BY <1>6, <2>1
  <2>2. CASE i \notin 1 .. Len(p)
    <3>1. i - Len(p) \in 1 .. Len(t) /\ i = Len(p) + (i - Len(p))
      BY <1>6, <2>2
    <3>2. r[Len(p) + (i - Len(p))] = t[i - Len(p)] /\ t[i - Len(p)] = q[i - Len(p) + 1]
      BY <1>6, <3>1
    <3>3. i - Len(p) + 1 \in 1 .. Len(q)
      <4>1. Len(q) \in Nat
        BY <1>1
      <4> QED BY <1>6, <3>1, <4>1
    <3> QED BY <3>1, <3>2, <3>3
  <2> QED BY <2>1, <2>2, Zenon
<1>9. Asking(p) /\ Asking(q) => Asking(r)
  BY <1>8, Zenon DEF Asking
<1>10. Mute(p) /\ Mute(q) => Mute(r)
  BY <1>8, Zenon DEF Mute
<1> QED BY <1>2, <1>4, <1>5, <1>7, <1>9, <1>10, Zenon DEF q, t
-----------------------------------------------------------------------------
(* An early return. *)
LEMMA Drop ==
  ASSUME TypeOK, NEW c \in Callers, NEW s, at(c, s), SessionInv(c), giveUp(c), ~Busy(c), s \notin {"echo", "byte"},
         inbox' = inbox, fw' = fw, tok' = tok, pulses' = pulses, m'.slewing = m.slewing, told' = told
  PROVE  SessionInv(c)'
<1>1. todo'[c] = <<>>
  BY HeadTyped DEF giveUp, TypeOK
<1>2. Shape(todo'[c]) /\ Asking(todo'[c]) /\ Mute(todo'[c])
  BY <1>1 DEF Shape, Asking, Mute
<1>3. ~Special(c)'
  BY <1>1, Zenon DEF Special, Busy, Past, at, sends
<1> QED BY <1>2, <1>3, Keep

(* A step done that leaves alone what the mount does and says. *)
LEMMA Pass ==
  ASSUME TypeOK, NEW c \in Callers, NEW s, at(c, s), SessionInv(c), proceed(c),
         s \notin {"write", "match", "refuseWhileHoming", "notHoming", "applyToken", "window", "slewCmd", "slewing",
                   "echo", "byte", "Get"},
         ~sends(c, "Q"), ~sends(c, "Ch"), at(c, "accepted") => val[c] = "1",
         inbox' = inbox, fw' = fw, tok' = tok, pulses' = pulses, m'.slewing = m.slewing,
         told'[c] = told[c] \/ Told(c)'
  PROVE  SessionInv(c)'
<1>1. Shape(todo[c])
  BY DEF SessionInv
<1>2. ~Special(c)'
  BY <1>1, Resume
<1>3. Shape(todo'[c]) /\ (Asking(todo[c]) => Asking(todo'[c])) /\ (Mute(todo[c]) => Mute(todo'[c]))
  BY <1>1, Onward, Zenon
<1>4. ~Busy(c)
  BY DEF Busy, at
<1> QED BY <1>2, <1>3, <1>4, Keep

(* Steps put in front that leave alone what the mount does and says. *)
LEMMA Nest ==
  ASSUME TypeOK, NEW c \in Callers, NEW s, at(c, s), SessionInv(c),
         s \in {"maybeCaptureHome", "maybeFinishPark", "polePosition", "axes"},
         NEW p \in Seq(Step), p # <<>>, Shape(p), Loose(p), Asking(p), insert(c, p),
         s = "maybeFinishPark" => Mute(p),
         p[1].do \in {"drainToken", "maybeCaptureHome"} \/ (p[1].do = "Get" /\ Len(p) = 1),
         inbox' = inbox, fw' = fw, tok' = tok, pulses' = pulses, m'.slewing = m.slewing, told' = told
  PROVE  SessionInv(c)'
<1>1. Shape(todo[c])
  BY DEF SessionInv
<1>2. /\ Shape(todo'[c]) /\ todo'[c] # <<>> /\ Head(todo'[c]) = p[1]
      /\ Len(p) = 1 => Tail(todo'[c]) = Tail(todo[c]) /\ ~beforeCh(c)
      /\ Asking(p) /\ Asking(todo[c]) => Asking(todo'[c])
      /\ Mute(p) /\ Mute(todo[c]) => Mute(todo'[c])
  BY <1>1, Before, Zenon
<1>3. Mute(todo[c]) => Mute(todo'[c])
  <2>1. CASE s = "maybeFinishPark"
    BY <1>2, <2>1
  <2>2. CASE s # "maybeFinishPark"
    <3>1. /\ Len(todo[c]) \in Nat /\ Len(todo[c]) >= 1 /\ todo[c][1].do = s
      BY HeadTyped DEF at
    <3>2. 1 \in 1 .. Len(todo[c]) /\ s \in Askers
      BY <2>2, <3>1 DEF Askers
    <3> QED BY <3>1, <3>2 DEF Mute
  <2> QED BY <2>1, <2>2
<1>4. ~Special(c)'
  <2>1. /\ ~at(c, "window")' /\ ~at(c, "match")' /\ ~at(c, "applyToken")' /\ ~at(c, "echo")' /\ ~at(c, "slewing")'
        /\ ~at(c, "refuseWhileHoming")' /\ ~at(c, "notHoming")' /\ ~at(c, "Blind")' /\ ~at(c, "still")'
    BY <1>2 DEF at
  <2>2. ~(at(c, "Get")' /\ beforeCh(c)')
    BY <1>2 DEF at, beforeCh
  <2> QED BY <2>1, <2>2, Zenon DEF Special, Busy, Past, sends
<1>5. ~Busy(c) /\ ~at(c, "accepted")
  BY DEF Busy, at
<1> QED BY <1>2, <1>3, <1>4, <1>5, Keep

-----------------------------------------------------------------------------
(* The lists that are put in front. *)
LEMMA CaptureList ==
  LET p == coord("G") \o step("captureHome")
  IN  p \in Seq(Step) /\ p # <<>> /\ Shape(p) /\ Loose(p) /\ Asking(p) /\ p[1].do = "drainToken"
<1> DEFINE a == rec("drainToken", "")
           b == rec("maybeCaptureHome", "")
           d == rec("maybeFinishPark", "")
           e == rec("write", "G")
           f == rec("captureHome", "")
<1>1. a \in Step /\ b \in Step /\ d \in Step /\ e \in Step /\ f \in Step
  BY DEF rec, Step, Does, Command, Gated, Ungated, Query
<1>2. /\ Proper(a) /\ Proper(b) /\ Proper(d) /\ Proper(e) /\ Proper(f)
      /\ Open(a) /\ Open(b) /\ Open(d) /\ Open(e) /\ Open(f)
      /\ a.do = "drainToken" /\ f.do \notin {"Ack", "byte"}
  BY DEF rec, Proper, Open, Free, Is, Reading, Query, Does
<1>3. Follows(a, b) /\ Follows(b, d) /\ Follows(d, e) /\ Follows(e, f)
  BY DEF rec, Follows, Is, Asks, Slews, Reading
<1>4. /\ ~Commanding(a) /\ ~Commanding(b) /\ ~Commanding(d) /\ ~Commanding(e) /\ ~Commanding(f)
  BY DEF rec, Commanding, Is
<1> DEFINE q == (<<a>> \o (<<b>> \o <<d>> \o <<e>>)) \o <<f>>
<1>5. coord("G") \o step("captureHome") = q
  BY DEF coord, get, on, step, rec
<1> HIDE DEF a, b, d, e, f
<1>6. q \in Seq(Step) /\ Len(q) = 5 /\ q[1] = a /\ q[2] = b /\ q[3] = d /\ q[4] = e /\ q[5] = f /\ q # <<>>
  BY <1>1
<1> HIDE DEF q
<1>7. \A i \in 1 .. Len(q) : i \in {1, 2, 3, 4, 5}
  BY <1>6
<1>8. Placed(q, 1) /\ Placed(q, 2) /\ Placed(q, 3) /\ Placed(q, 4) /\ Placed(q, 5)
  BY <1>2, <1>6 DEF Placed, Open, Slews, Syncs
<1>9. Shape(q)
  <2>2. \A i \in 1 .. Len(q) - 1 : i \in {1, 2, 3, 4}
    BY <1>6
  <2>3. \A i \in {1, 2, 3, 4, 5} : Proper(q[i]) /\ Placed(q, i)
    BY <1>2, <1>6, <1>8
  <2>4. \A i \in {1, 2, 3, 4} : Follows(q[i], q[i + 1])
    BY <1>3, <1>6
  <2> QED BY <1>7, <2>2, <2>3, <2>4 DEF Shape
<1>10. Loose(q) /\ Asking(q)
  BY <1>2, <1>4, <1>6, <1>7 DEF Loose, Asking
<1>11. q \in Seq(Step) /\ q # <<>> /\ Shape(q) /\ Loose(q) /\ Asking(q) /\ q[1].do = "drainToken"
  BY <1>2, <1>6, <1>9, <1>10
<1> QED BY <1>5, <1>11

(* A query, put in front. *)
LEMMA QueryList ==
  ASSUME NEW x \in {"G", "CY"}
  PROVE  /\ get(x) \in Seq(Step) /\ get(x) # <<>> /\ Shape(get(x)) /\ Loose(get(x)) /\ Asking(get(x))
         /\ get(x)[1].do = "maybeCaptureHome"
<1>1. Put(get(x))
  BY PutQuery DEF Query
<1>2. get(x) \in Seq(Step) /\ Shape(get(x)) /\ Loose(get(x)) /\ Asking(get(x))
  BY <1>1 DEF Put, Good
<1> DEFINE b == rec("maybeCaptureHome", "")
           d == rec("maybeFinishPark", "")
           e == rec("write", x)
           q == <<b>> \o <<d>> \o <<e>>
<1>3. b \in Step /\ d \in Step /\ e \in Step /\ b.do = "maybeCaptureHome" /\ get(x) = q
  BY DEF rec, Step, Does, Command, Gated, Ungated, Query, get, on, step
<1> HIDE DEF b, d, e
<1>4. q # <<>> /\ q[1] = b
  BY <1>3
<1> QED BY <1>2, <1>3, <1>4

(* The query for the latitude, put in front. *)
LEMMA LatitudeList ==
  LET p == get("G") \o step("known")
  IN  p \in Seq(Step) /\ p # <<>> /\ Shape(p) /\ Loose(p) /\ Asking(p) /\ p[1].do = "maybeCaptureHome"
<1> DEFINE q == get("G")
           r == step("known")
           p == q \o r
<1>1. Put(p)
  <2>1. Put(q) /\ Put(r)
    BY PutQuery, GoodStep DEF Put, Query, Single
  <2> HIDE DEF q, r
  <2> QED BY <2>1, PutJoin, Zenon
<1>2. q \in Seq(Step) /\ r \in Seq(Step) /\ q # <<>> /\ q[1].do = "maybeCaptureHome"
  BY QueryList, StepTyped DEF Does
<1> HIDE DEF q, r
<1>3. p # <<>> /\ p[1] = q[1]
  BY <1>2
<1> HIDE DEF p
<1>4. p \in Seq(Step) /\ p # <<>> /\ Shape(p) /\ Loose(p) /\ Asking(p) /\ p[1].do = "maybeCaptureHome"
  BY <1>1, <1>2, <1>3 DEF Put, Good
<1> QED BY <1>4 DEF p, q, r

(* The stop of tracking after a park, put in front. *)
LEMMA TrackList ==
  LET p == track("CtL")
  IN  p \in Seq(Step) /\ p # <<>> /\ Shape(p) /\ Loose(p) /\ Asking(p) /\ Mute(p) /\ p[1].do = "Get" /\ Len(p) = 1
<1> DEFINE a == rec("Get", "CtL")
<1>1. Put(track("CtL")) /\ track("CtL") = <<a>>
  BY PutTrack DEF track, on, rec
<1>2. a.do = "Get"
  BY DEF rec
<1>3. Len(<<a>>) = 1 /\ <<a>>[1] = a /\ <<a>> # <<>>
  OBVIOUS
<1>4. Mute(<<a>>)
  BY <1>2, <1>3 DEF Mute, Askers
<1> QED BY <1>1, <1>2, <1>3, <1>4 DEF Put, Good

-----------------------------------------------------------------------------
(* The steps that leave alone what the mount does and says. *)
LEMMA DrainTokenSession ==
  ASSUME TypeOK, NEW c \in Callers, SessionInv(c), drainToken(c)
  PROVE  SessionInv(c)'
<1>1. /\ at(c, "drainToken") /\ inbox' = inbox /\ fw' = fw /\ tok' = tok /\ pulses' = pulses /\ told' = told
      /\ m'.slewing = m.slewing
      /\ insert(c, step("Await")) \/ proceed(c)
  BY DEF drainToken, TypeOK, MountType
<1>2. CASE proceed(c)
  <2>1. ~sends(c, "Q") /\ ~sends(c, "Ch") /\ ~at(c, "accepted")
    BY <1>1 DEF sends, at
  <2> QED BY <1>1, <1>2, <2>1, Pass
<1>3. CASE insert(c, step("Await"))
  <2> DEFINE x == rec("Await", "")
             h == Head(todo[c])
  <2>1. x \in Step /\ Proper(x) /\ x.do = "Await" /\ ~Commanding(x) /\ step("Await") = <<x>>
    BY DEF rec, Step, Does, Command, Gated, Ungated, Proper, Commanding, Is, step
  <2>2. h.do = "drainToken" /\ Shape(todo[c])
    BY <1>1 DEF at, SessionInv
  <2>3. Replaces(h, x)
    <3> HIDE DEF x, h
    <3> QED BY <2>1, <2>2 DEF Replaces, Asks, Slews, Syncs
  <2>4. insert(c, <<x>>)
    BY <1>3, <2>1
  <2> HIDE DEF x, h
  <2>5. /\ Shape(todo'[c])
        /\ \A d : at(c, d)' <=> x.do = d
        /\ Asking(todo[c]) => Asking(todo'[c])
        /\ Mute(todo[c]) => Mute(todo'[c])
    <3>1. x.do \notin Askers
      BY <2>1 DEF Askers
    <3>2. Replaces(Head(todo[c]), x)
      BY <2>3 DEF h
    <3> QED BY <1>1, <2>1, <2>2, <2>4, <3>1, <3>2, Instead, Zenon
  <2>6. ~Special(c)' /\ ~Busy(c) /\ ~at(c, "accepted")
    BY <1>1, <2>1, <2>5 DEF Special, Busy, Past, sends, at
  <2> QED BY <1>1, <2>5, <2>6, Keep
<1> QED BY <1>1, <1>2, <1>3

(* maybeCaptureHome and maybeFinishPark keep the invariant. *)
LEMMA MaybeSession ==
  ASSUME TypeOK, NEW c \in Callers, SessionInv(c), maybeCaptureHome(c) \/ maybeFinishPark(c)
  PROVE  SessionInv(c)'
<1>1. /\ inbox' = inbox /\ fw' = fw /\ tok' = tok /\ pulses' = pulses /\ told' = told
      /\ m'.slewing = m.slewing
      /\ \/ at(c, "maybeCaptureHome") /\ (insert(c, coord("G") \o step("captureHome")) \/ proceed(c))
         \/ at(c, "maybeFinishPark") /\ (insert(c, track("CtL")) \/ proceed(c))
  BY DEF maybeCaptureHome, maybeFinishPark, TypeOK, MountType
<1>2. ~sends(c, "Q") /\ ~sends(c, "Ch") /\ ~at(c, "accepted")
  BY <1>1 DEF sends, at
<1>3. CASE proceed(c)
  BY <1>1, <1>2, <1>3, Pass
<1>4. CASE at(c, "maybeCaptureHome") /\ insert(c, coord("G") \o step("captureHome"))
  <2> DEFINE p == coord("G") \o step("captureHome")
  <2>1. p \in Seq(Step) /\ p # <<>> /\ Shape(p) /\ Loose(p) /\ Asking(p) /\ p[1].do = "drainToken"
    BY CaptureList, Zenon
  <2>2. insert(c, p)
    BY <1>4, Zenon
  <2> HIDE DEF p
  <2> QED BY <1>1, <1>4, <2>1, <2>2, Nest
<1>5. CASE at(c, "maybeFinishPark") /\ insert(c, track("CtL"))
  BY <1>1, <1>5, TrackList, Nest
<1> QED BY <1>1, <1>3, <1>4, <1>5

(* The steps of AlpacaPark, AlpacaAtPark and AlpacaAtHome keep the invariant. *)
LEMMA AlpacaSession ==
  ASSUME TypeOK, NEW c \in Callers, SessionInv(c), polePosition(c) \/ parkState(c) \/ reportPark(c)
  PROVE  SessionInv(c)'
<1>1. /\ inbox' = inbox /\ fw' = fw /\ tok' = tok /\ pulses' = pulses
      /\ m'.slewing = m.slewing
      /\ \/ \E s \in {"polePosition", "stopped", "notUnparked", "axes", "atPark", "atHome"} : at(c, s) /\ proceed(c)
         \/ at(c, "polePosition") /\ insert(c, get("G") \o step("known")) /\ told' = told
         \/ at(c, "axes") /\ insert(c, get("CY")) /\ told' = told
  BY DEF polePosition, parkState, reportPark, AtPark
<1>2. told'[c] = told[c] \/ Told(c)'
  BY DEF polePosition, parkState, reportPark, Told, TypeOK
<1>3. CASE \E s \in {"polePosition", "stopped", "notUnparked", "axes", "atPark", "atHome"} : at(c, s) /\ proceed(c)
  <2>1. PICK s \in {"polePosition", "stopped", "notUnparked", "axes", "atPark", "atHome"} : at(c, s) /\ proceed(c)
    BY <1>3
  <2>2. ~sends(c, "Q") /\ ~sends(c, "Ch") /\ ~at(c, "accepted")
    BY <2>1 DEF sends, at
  <2> QED BY <1>1, <1>2, <2>1, <2>2, Pass
<1>4. CASE at(c, "polePosition") /\ insert(c, get("G") \o step("known")) /\ told' = told
  <2> DEFINE p == get("G") \o step("known")
  <2>1. p \in Seq(Step) /\ p # <<>> /\ Shape(p) /\ Loose(p) /\ Asking(p) /\ p[1].do = "maybeCaptureHome"
    BY LatitudeList, Zenon
  <2>2. insert(c, p)
    BY <1>4, Zenon
  <2> HIDE DEF p
  <2> QED BY <1>1, <1>4, <2>1, <2>2, Nest
<1>5. CASE at(c, "axes") /\ insert(c, get("CY")) /\ told' = told
  BY <1>1, <1>5, QueryList, Nest
<1> QED BY <1>1, <1>3, <1>4, <1>5

(* What Slewing returns. *)
LEMMA ReportSession ==
  ASSUME TypeOK, NEW c \in Callers, SessionInv(c), report(c)
  PROVE  SessionInv(c)'
<1>1. /\ at(c, "Slewing") /\ inbox' = inbox /\ fw' = fw /\ tok' = tok /\ pulses' = pulses /\ m' = m /\ proceed(c)
      /\ told'[c] = "idle" => ~m.slewing
  BY DEF report, TypeOK
<1>2. ~sends(c, "Q") /\ ~sends(c, "Ch") /\ ~at(c, "accepted") /\ ~Busy(c)
  BY <1>1 DEF sends, at, Busy
<1>3. todo'[c] = <<>>
  <2>1. todo[c] \in Seq(Step) /\ todo[c] # <<>> /\ Head(todo[c]).do = "Slewing" /\ Shape(todo[c])
    BY <1>1, HeadTyped DEF at, SessionInv
  <2>2. Tail(todo[c]) = <<>>
    BY <2>1, Later
  <2> QED BY <1>1, <2>1, <2>2, Onward
<1>4. (Moving => m.slewing) /\ Quiet
  BY <1>2, FromPlain DEF Plain
<1>5. Told(c)'
  BY <1>1, <1>3, <1>4 DEF Told, Quiet, Moving
<1> QED BY <1>1, <1>2, <1>5, Pass

(* captureHome and the check of AlpacaPark keep the invariant. *)
LEMMA ParkedSession ==
  ASSUME TypeOK, NEW c \in Callers, SessionInv(c), captureHome(c) \/ parkedAlready(c)
  PROVE  SessionInv(c)'
<1>1. /\ inbox' = inbox /\ fw' = fw /\ tok' = tok /\ pulses' = pulses /\ told' = told
      /\ m'.slewing = m.slewing
      /\ at(c, "captureHome") \/ at(c, "parked")
      /\ proceed(c) \/ giveUp(c)
  BY DEF captureHome, parkedAlready, TypeOK, MountType
<1>2. ~sends(c, "Q") /\ ~sends(c, "Ch") /\ ~at(c, "accepted") /\ ~Busy(c)
  BY <1>1 DEF sends, at, Busy
<1> QED BY <1>1, <1>2, Pass, Drop

(* Halt's change of the latch keeps the invariant: the mount has been stopped. *)
LEMMA StillSession ==
  ASSUME TypeOK, NEW c \in Callers, SessionInv(c), at(c, "still"), flags(c)
  PROVE  SessionInv(c)'
<1>1. /\ inbox' = inbox /\ fw' = fw /\ tok' = tok /\ pulses' = pulses /\ told' = told
      /\ ~m'.slewing /\ proceed(c)
  BY DEF flags, at, TypeOK, MountType
<1>2. ~sends(c, "Q") /\ ~sends(c, "Ch") /\ ~at(c, "accepted") /\ ~Busy(c) /\ Past(c)
      /\ ~at(c, "match") /\ ~at(c, "echo") /\ ~at(c, "byte") /\ ~at(c, "window")
  BY <1>1 DEF sends, at, Busy, Past
<1>3. Plain(c) /\ PastOK(c) /\ Shape(todo[c])
  BY <1>2, FromPlain DEF SessionInv
<1>4. ~Moving /\ (inbox = <<>> \/ (Len(inbox) = 1 /\ inbox[1].k \in Term))
  BY <1>2, <1>3, Zenon DEF PastOK
<1>5. Shape(todo'[c]) /\ (Asking(todo[c]) => Asking(todo'[c])) /\ (Mute(todo[c]) => Mute(todo'[c])) /\ ~Special(c)'
  BY <1>1, <1>2, <1>3, Onward, Resume
<1>6. /\ Quiet /\ Calm(c) /\ Told(c) /\ Unique /\ Bytes /\ NoQuery /\ Bound(c) /\ tok[c].k \notin Term
  BY <1>3 DEF Plain
<1>7. Quiet' /\ Unique' /\ Bytes' /\ NoQuery' /\ ~Moving'
  BY <1>1, <1>4, <1>6 DEF Quiet, Unique, Bytes, NoQuery, Unread, Moving
<1>8. Calm(c)' /\ Told(c)' /\ Bound(c)'
  BY <1>1, <1>2, <1>5, <1>6, Zenon DEF Calm, Told, Bound, at
<1>9. \A i \in Unread : i = 1 /\ inbox[i].k \notin Refusal
  BY <1>4 DEF Unread, Term, Refusal
<1>10. Plain(c)'
  BY <1>1, <1>5, <1>6, <1>7, <1>8, <1>9 DEF Plain, Unread
<1> QED BY <1>5, <1>10, ToPlain

(* The changes of the driver's flags keep the invariant. *)
LEMMA FlagsSession ==
  ASSUME TypeOK, NEW c \in Callers, SessionInv(c), flags(c)
  PROVE  SessionInv(c)'
<1>1. CASE at(c, "still")
  BY <1>1, StillSession
<1>2. ~at(c, "moved") /\ ~at(c, "pulsing")
  <2>1. todo[c] # <<>> => Proper(Head(todo[c]))
    BY Later DEF SessionInv, TypeOK
  <2> QED BY <2>1 DEF at, Proper
<1>3. CASE ~at(c, "still")
  <2>1. /\ inbox' = inbox /\ fw' = fw /\ tok' = tok /\ pulses' = pulses /\ told' = told
        /\ m'.slewing = m.slewing
        /\ at(c, "unmoved") \/ at(c, "Unpark") \/ at(c, "parking")
        /\ proceed(c)
    BY <1>2, <1>3 DEF flags, TypeOK, MountType
  <2>2. ~sends(c, "Q") /\ ~sends(c, "Ch") /\ ~at(c, "accepted")
    BY <2>1 DEF sends, at
  <2> QED BY <2>1, <2>2, Pass
<1> QED BY <1>1, <1>3

(* Homing's answer, used. *)
LEMMA RefuseSession ==
  ASSUME TypeOK, NEW c \in Callers, SessionInv(c), at(c, "refuseWhileHoming"), proceed(c), val[c] # "1",
         inbox' = inbox, fw' = fw, tok' = tok, pulses' = pulses, told' = told, m' = m
  PROVE  SessionInv(c)'
<1>1. ~Busy(c) /\ ~at(c, "accepted") /\ Past(c) /\ ~sends(c, "Q") /\ ~sends(c, "Ch")
      /\ Head(todo[c]).do = "refuseWhileHoming" /\ ~Asks(Head(todo[c]), "AH") /\ ~Slews(Head(todo[c]))
  BY DEF Busy, at, Past, sends, Asks, Slews
<1>2. Shape(todo[c]) /\ PastOK(c)
  BY DEF SessionInv
<1>3. /\ Shape(todo'[c]) /\ (Asking(todo[c]) => Asking(todo'[c])) /\ (Mute(todo[c]) => Mute(todo'[c]))
      /\ \A d \in Reading : ~at(c, d)'
      /\ ~at(c, "refuseWhileHoming")' /\ ~at(c, "notHoming")' /\ ~at(c, "still")' /\ ~at(c, "slewing")'
      /\ ~sends(c, "Ch")' /\ ~(at(c, "Get")' /\ beforeCh(c)')
  BY <1>1, <1>2, Onward
<1>4. Plain(c)'
  BY <1>1, <1>3, KeepPlain
<1>5. ~Busy(c)' /\ ~at(c, "echo")'
  BY <1>3 DEF Busy, Reading
<1>6. /\ fw.motion # "home"
      /\ inbox = <<>> \/ (Len(inbox) = 1 /\ inbox[1].k \in Term /\ ~Moving)
  BY <1>1, <1>2, Zenon DEF PastOK
<1>7. PastOK(c)' /\ Seek(c)'
  BY <1>3, <1>5, <1>6, Zenon DEF PastOK, Seek, Moving
<1> QED BY <1>4, <1>5, <1>7, ToNear

(* FindHome goes on when the mount is not homing: the line is empty. *)
LEMMA NotHomingSession ==
  ASSUME TypeOK, NEW c \in Callers, SessionInv(c), at(c, "notHoming"), proceed(c), val[c] = "0",
         inbox' = inbox, fw' = fw, tok' = tok, pulses' = pulses, told' = told, m' = m
  PROVE  SessionInv(c)'
<1>1. ~Busy(c) /\ ~at(c, "accepted") /\ ~sends(c, "Q") /\ ~sends(c, "Ch")
      /\ Head(todo[c]).do = "notHoming" /\ ~Asks(Head(todo[c]), "AH") /\ ~Slews(Head(todo[c]))
  BY DEF Busy, at, Past, sends, Asks, Slews
<1>2. Shape(todo[c]) /\ inbox = <<>>
  BY DEF SessionInv, Seek
<1>3. /\ Shape(todo'[c]) /\ (Asking(todo[c]) => Asking(todo'[c])) /\ (Mute(todo[c]) => Mute(todo'[c]))
      /\ \A d \in Reading : ~at(c, d)'
      /\ ~at(c, "refuseWhileHoming")' /\ ~at(c, "notHoming")' /\ ~at(c, "still")' /\ ~at(c, "slewing")'
      /\ ~sends(c, "Ch")' /\ ~sends(c, "Q")'
  BY <1>1, <1>2, Onward
<1>4. Plain(c)'
  BY <1>1, <1>3, KeepPlain
<1>5. ~Busy(c)' /\ ~at(c, "echo")'
  BY <1>3 DEF Busy, Reading
<1>7. PastOK(c)' /\ Seek(c)'
  BY <1>2, <1>3, <1>5, Zenon DEF PastOK, Seek, Past
<1> QED BY <1>4, <1>5, <1>7, ToNear

(* The checks keep the invariant. *)
LEMMA ChecksSession ==
  ASSUME TypeOK, NEW c \in Callers, SessionInv(c), checks(c)
  PROVE  SessionInv(c)'
<1> DEFINE S == {"requireHome", "known", "accepted", "unlessParked", "ifParked"}
<1>1. /\ inbox' = inbox /\ fw' = fw /\ tok' = tok /\ pulses' = pulses /\ told' = told /\ m' = m
      /\ \/ at(c, "refuseWhileHoming") /\ (IF val[c] # "1" THEN proceed(c) ELSE giveUp(c))
         \/ at(c, "notHoming") /\ (IF val[c] = "0" THEN proceed(c) ELSE giveUp(c))
         \/ \E s \in S : at(c, s) /\ (giveUp(c) \/ (proceed(c) /\ (s = "accepted" => val[c] = "1")))
  BY DEF checks, proceedIf
<1>2. CASE at(c, "refuseWhileHoming") /\ (IF val[c] # "1" THEN proceed(c) ELSE giveUp(c))
  <2>1. ~Busy(c)
    BY <1>2 DEF Busy, at
  <2> QED BY <1>1, <1>2, <2>1, RefuseSession, Drop
<1>3. CASE at(c, "notHoming") /\ (IF val[c] = "0" THEN proceed(c) ELSE giveUp(c))
  <2>1. ~Busy(c)
    BY <1>3 DEF Busy, at
  <2> QED BY <1>1, <1>3, <2>1, NotHomingSession, Drop
<1>4. ASSUME NEW s \in S, at(c, s), giveUp(c) \/ (proceed(c) /\ (s = "accepted" => val[c] = "1"))
      PROVE  SessionInv(c)'
  <2>1. ~sends(c, "Q") /\ ~sends(c, "Ch") /\ ~Busy(c) /\ (at(c, "accepted") => s = "accepted")
    BY <1>4 DEF sends, at, Busy
  <2> QED BY <1>1, <1>4, <2>1, Pass, Drop
<1> QED BY <1>1, <1>2, <1>3, <1>4, Zenon

(* A call. *)
LEMMA CallSession ==
  ASSUME TypeOK, NEW c \in Callers, Lone(c), SessionInv(c), NEW op \in Ops[c], call(c, op)
  PROVE  SessionInv(c)'
<1>1. /\ todo[c] = <<>> /\ todo'[c] = program(op) /\ told'[c] = ""
      /\ inbox' = inbox /\ fw' = fw /\ tok' = tok /\ pulses' = pulses /\ m' = m
      /\ op # "Slewing" => Len(inbox) <= MaxInbox
      /\ op \in Commands => told[c] = "idle"
  BY DEF call, TypeOK, Lone, fitting
<1>2. /\ Shape(todo'[c]) /\ Leads(todo'[c]) /\ todo'[c] \in Seq(Step)
      /\ op \notin Commands => Asking(todo'[c])
      /\ op = "Slewing" => Mute(todo'[c])
  BY <1>1, GoodProgram, Zenon DEF Good
<1>3. ~Busy(c)
  BY <1>1 DEF Busy, at
<1>4. /\ Quiet /\ Told(c) /\ Unique /\ Bytes /\ NoQuery
      /\ Moving => m.slewing
      /\ \A i \in Unread : inbox[i].k \in Term => ~Moving /\ (i > 1 => m.slewing)
      /\ tok[c].k \notin Term
      /\ \A i \in Unread : inbox[i].k \in Refusal => ~Moving /\ m.slewing /\ NoTerm
  BY <1>3, FromPlain DEF Plain
<1>5. Calm(c)' /\ Told(c)' /\ Bound(c)'
  BY <1>1, <1>2, <1>4 DEF Calm, Told, Bound
<1>6. Quiet' /\ Unique' /\ Bytes' /\ NoQuery'
  BY <1>1, <1>4 DEF Quiet, Unique, Bytes, NoQuery, Unread
<1>7. /\ (Moving => m.slewing)'
      /\ (\A i \in Unread : inbox[i].k \in Term => ~Moving /\ (i > 1 => m.slewing))'
      /\ (tok[c].k \notin Term)'
      /\ (\A i \in Unread : inbox[i].k \in Refusal => ~Moving /\ m.slewing /\ NoTerm)'
  BY <1>1, <1>4, Zenon DEF Moving, Unread, NoTerm
<1>8. ~Special(c)'
  <2> DEFINE q == todo'[c]
  <2>1. q \in Seq(Step) /\ Leads(q)
    BY <1>2
  <2> HIDE DEF q
  <2>2. q # <<>> => Head(q) = q[1] /\ Free(q[1])
    BY <2>1 DEF Leads
  <2>3. q # <<>> /\ Tail(q) # <<>> => Len(q) > 1
    BY <2>1
  <2>4. q # <<>> /\ Tail(q) # <<>> => ~Is(Head(Tail(q)), "Blind", "Ch")
    BY <2>1, <2>3, SecondParts DEF Leads
  <2>5. q # <<>> => /\ Head(q).do \notin {"window", "match", "applyToken", "slewing", "refuseWhileHoming", "still",
                                          "notHoming"}
                    /\ ~Is(Head(q), "Blind", "Ch") /\ ~Is(Head(q), "Blind", "Q")
    BY <2>2 DEF Free, Reading
  <2>6. q = todo'[c]
    BY DEF q
  <2>7. /\ ~at(c, "window")' /\ ~at(c, "match")' /\ ~at(c, "applyToken")' /\ ~at(c, "slewing")'
        /\ ~at(c, "refuseWhileHoming")' /\ ~at(c, "notHoming")' /\ ~at(c, "still")'
    BY <2>5, <2>6 DEF at
  <2>8. ~sends(c, "Q")' /\ ~sends(c, "Ch")' /\ ~((at(c, "Get")' \/ at(c, "echo")') /\ beforeCh(c)')
    BY <2>4, <2>5, <2>6, Zenon DEF at, sends, cmd, Is, beforeCh
  <2> QED BY <2>7, <2>8, Zenon DEF Special, Busy, Past
<1>9. Plain(c)'
  BY <1>2, <1>5, <1>6, <1>7, Zenon DEF Plain
<1> QED BY <1>8, <1>9, ToPlain

(* setSlewing(true) *)
LEMMA SlewingSession ==
  ASSUME TypeOK, NEW c \in Callers, SessionInv(c), setSlewing(c)
  PROVE  SessionInv(c)'
<1>1. /\ at(c, "slewing") /\ inbox' = inbox /\ fw' = fw /\ tok' = tok /\ pulses' = pulses /\ told' = told
      /\ m'.slewing /\ proceed(c)
  BY DEF setSlewing, TypeOK, MountType
<1>2. /\ ~sends(c, "Q") /\ ~sends(c, "Ch") /\ ~opening(c) /\ ~at(c, "applyToken") /\ ~at(c, "accepted")
      /\ ~at(c, "match") /\ ~at(c, "echo") /\ ~at(c, "byte") /\ ~at(c, "window")
  BY <1>1 DEF sends, at, opening
<1>3. /\ Shape(todo[c]) /\ Quiet /\ Calm(c) /\ Told(c) /\ Unique /\ Bytes /\ Bound(c)
      /\ Terms(c) /\ Token1(c) /\ Refused(c) /\ Answer(c)
  BY DEF SessionInv
<1>4. Shape(todo'[c]) /\ ~Special(c)' /\ (Mute(todo[c]) => Mute(todo'[c]))
  BY <1>1, <1>2, <1>3, Onward, Resume
<1>5. Asking(todo'[c])
  <2> DEFINE q == todo[c]
             t == Tail(q)
  <2>1. q \in Seq(Step) /\ q # <<>> /\ Head(q).do = "slewing" /\ Shape(q)
    BY <1>1, <1>3, HeadTyped DEF at
  <2>2. t \in Seq(Step) /\ (t = <<>> \/ (Tail(t) = <<>> /\ Head(t).do = "parking"))
    BY <2>1, Later, Zenon
  <2> HIDE DEF t
  <2>3. t = <<>> \/ (Len(t) = 1 /\ t[1].do = "parking")
    BY <2>2, OneLong
  <2>4. Asking(t)
    BY <2>3 DEF Asking, Commanding, Is
  <2>5. todo'[c] = t
    BY <1>1, <1>3, Onward DEF t
  <2> QED BY <2>4, <2>5
<1>6. Quiet' /\ Unique' /\ Bytes'
  BY <1>1, <1>3 DEF Quiet, Unique, Bytes, Unread
<1>7. NoQuery'
  BY <1>1, <1>2, <1>3 DEF NoQuery, Answer, Unread
<1>8. Calm(c)' /\ Told(c)' /\ Bound(c)'
  BY <1>1, <1>2, <1>3, <1>4, <1>5, Zenon DEF Calm, Told, Bound, at
<1>9. /\ \A i \in Unread : inbox[i].k \in Term => ~Moving
      /\ tok[c].k \notin Term
      /\ \A i \in Unread : inbox[i].k \in Refusal => ~Moving /\ NoTerm
  BY <1>2, <1>3, Zenon DEF Terms, Token1, Refused
<1>10. /\ (\A i \in Unread : inbox[i].k \in Term => ~Moving /\ (i > 1 => m.slewing))'
       /\ (tok[c].k \notin Term)'
       /\ (\A i \in Unread : inbox[i].k \in Refusal => ~Moving /\ m.slewing /\ NoTerm)'
  BY <1>1, <1>9, Zenon DEF Moving, Unread, NoTerm
<1>11. Plain(c)'
  BY <1>1, <1>4, <1>6, <1>7, <1>8, <1>10, Zenon DEF Plain
<1> QED BY <1>4, <1>11, ToPlain

(* The driver takes note of a token. *)
LEMMA ApplyLatch ==
  ASSUME NEW mm \in MountType, NEW k \in Kind
  PROVE  /\ applyToken(mm, k) \in MountType
         /\ k \notin Term => applyToken(mm, k).slewing = mm.slewing
         /\ k \in Term => ~applyToken(mm, k).slewing
         /\ applyToken(mm, k).slewing => mm.slewing
<1>1. applyToken(mm, k) \in MountType
  BY ApplyTyped
<1>2. CASE k \in Term
  BY <1>1, <1>2 DEF applyToken, Term, MountType
<1>3. CASE k \notin Term
  BY <1>1, <1>3 DEF applyToken, Term, MountType
<1> QED BY <1>1, <1>2, <1>3

(* applyToken keeps the invariant: a token that ends a slew finds the mount at rest. *)
LEMMA ApplySession ==
  ASSUME TypeOK, NEW c \in Callers, SessionInv(c), apply(c)
  PROVE  SessionInv(c)'
<1>1. /\ at(c, "applyToken") /\ inbox' = inbox /\ fw' = fw /\ pulses' = pulses /\ told' = told
      /\ m' = applyToken(m, tok[c].k) /\ tok'[c] = NoFrame /\ proceed(c) /\ val' = val
  BY DEF apply, TypeOK
<1>2. /\ m'.slewing => m.slewing
      /\ tok[c].k \notin Term => m'.slewing = m.slewing
      /\ tok'[c].k \notin Term
  <2>1. m \in MountType /\ tok[c].k \in Kind
    BY DEF TypeOK, Frame
  <2>2. NoFrame.k \notin Term
    BY DEF NoFrame, Term
  <2>3. tok'[c].k \notin Term
    BY <1>1, <2>2, Zenon
  <2> QED BY <1>1, <2>1, <2>3, ApplyLatch
<1>3. /\ ~sends(c, "Q") /\ ~sends(c, "Ch") /\ ~opening(c) /\ ~at(c, "accepted") /\ ~at(c, "slewing")
      /\ ~at(c, "match") /\ ~at(c, "echo") /\ ~at(c, "byte") /\ ~at(c, "window")
      /\ Head(todo[c]).do = "applyToken" /\ ~Asks(Head(todo[c]), "AH")
  BY <1>1 DEF sends, at, opening, Asks
<1>4. /\ Shape(todo[c]) /\ Quiet /\ Calm(c) /\ Told(c) /\ Unique /\ Bytes /\ Bound(c)
      /\ Terms(c) /\ Token1(c) /\ Refused(c) /\ Answer(c) /\ Latched(c)
  BY DEF SessionInv
<1>5. /\ Shape(todo'[c]) /\ (Asking(todo[c]) => Asking(todo'[c])) /\ (Mute(todo[c]) => Mute(todo'[c]))
      /\ \A d \in Reading : ~at(c, d)'
      /\ ~at(c, "refuseWhileHoming")' /\ ~at(c, "notHoming")' /\ ~at(c, "still")'
      /\ ~sends(c, "Ch")' /\ ~sends(c, "Q")' /\ ~(at(c, "Get")' /\ beforeCh(c)')
      /\ todo'[c] = Tail(todo[c])
  BY <1>1, <1>3, <1>4, Onward
<1>6. /\ ~at(c, "window")' /\ ~at(c, "match")' /\ ~at(c, "echo")' /\ ~at(c, "applyToken")'
      /\ ~opening(c)' /\ ~Past(c)'
  BY <1>5, Zenon DEF Reading, opening, Past
<1>7. at(c, "slewing")' <=> followedBy(c, "slewing")
  BY <1>5, Zenon DEF at, followedBy
<1>8. (Starts(c)' <=> followedBy(c, "slewing")) /\ (Starts(c) <=> followedBy(c, "slewing"))
  BY <1>1, <1>3, <1>6, <1>7, Zenon DEF Starts
<1>9. Quiet' /\ Unique' /\ Bytes' /\ (Moving' <=> Moving) /\ (NoTerm' <=> NoTerm) /\ Unread' = Unread
  BY <1>1, <1>4 DEF Quiet, Unique, Bytes, Unread, Moving, NoTerm
<1>10. Calm(c)' /\ Told(c)' /\ Bound(c)'
  BY <1>1, <1>2, <1>3, <1>4, <1>5, Zenon DEF Calm, Told, Bound, at
<1>11. Answer(c)' /\ PastOK(c)' /\ Seek(c)'
  <2>1. NoQuery'
    BY <1>1, <1>3, <1>4 DEF Answer, NoQuery, Unread
  <2> QED BY <2>1, <1>5, <1>6, Zenon DEF Answer, PastOK, Seek, Past
<1>12. tok[c].k \in Term => NoTerm /\ (Moving => Starts(c))
  BY <1>4, Zenon DEF Token1
<1>13. Latched(c)'
  BY <1>2, <1>4, <1>8, <1>9, <1>12 DEF Latched
<1>14. Terms(c)' /\ Token1(c)'
  <2>1. ASSUME NEW i \in Unread, inbox[i].k \in Term PROVE ~Moving /\ (i > 1 => m'.slewing)
    BY <1>2, <1>3, <1>4, <1>12, <2>1 DEF Terms, NoTerm
  <2> QED BY <1>1, <1>2, <1>9, <2>1, Zenon DEF Terms, Token1
<1>15. Refused(c)'
  <2>1. ASSUME NEW i \in Unread, inbox[i].k \in Refusal
        PROVE  ~Moving /\ (m'.slewing \/ Starts(c)) /\ NoTerm
    BY <1>2, <1>3, <1>4, <2>1, Zenon DEF Refused
  <2> QED BY <1>1, <1>2, <1>6, <1>8, <1>9, <2>1, Zenon DEF Refused
<1> QED BY <1>5, <1>9, <1>10, <1>11, <1>13, <1>14, <1>15, Zenon DEF SessionInv

-----------------------------------------------------------------------------
(* The mount, on its own. *)
LEMMA AppendParts ==
  ASSUME NEW S, NEW q \in Seq(S), NEW f \in S
  PROVE  /\ Len(q) \in Nat /\ Len(Append(q, f)) = Len(q) + 1
         /\ \A i \in 1 .. Len(q) : Append(q, f)[i] = q[i]
         /\ Append(q, f)[Len(q) + 1] = f
OBVIOUS

(* A step of others' state keeps the invariant. *)
LEMMA SameSession ==
  ASSUME NEW c \in Callers, SessionInv(c), m'.slewing = m.slewing, fw' = fw, inbox' = inbox,
         todo' = todo, val' = val, tok' = tok, told' = told, pulses' = pulses
  PROVE  SessionInv(c)'
<1>1. /\ m'.slewing = m.slewing /\ fw' = fw /\ inbox' = inbox /\ todo' = todo /\ val' = val
      /\ tok' = tok /\ told' = told /\ pulses' = pulses
  OBVIOUS
<1>2. /\ Shape(todo[c]) /\ Quiet /\ Calm(c) /\ Latched(c) /\ Told(c) /\ Unique /\ Terms(c) /\ Token1(c)
      /\ Refused(c) /\ Bytes /\ PastOK(c) /\ Seek(c) /\ Answer(c) /\ Bound(c)
  BY DEF SessionInv
<1>3. /\ Starts(c)' <=> Starts(c)
      /\ opening(c)' <=> opening(c)
      /\ Past(c)' <=> Past(c)
      /\ Moving' <=> Moving
      /\ \A s : at(c, s)' <=> at(c, s)
      /\ \A x : sends(c, x)' <=> sends(c, x)
      /\ beforeCh(c)' <=> beforeCh(c)
      /\ cmd(c)' = cmd(c) /\ nth(c)' = nth(c) /\ Unread' = Unread
      /\ NoTerm' <=> NoTerm
      /\ NoQuery' <=> NoQuery
  BY <1>1, Zenon DEF Starts, opening, Past, at, sends, cmd, nth, followedBy, beforeCh, Moving, Unread, NoTerm, NoQuery
<1>4. Shape(todo[c])' /\ Quiet' /\ Calm(c)' /\ Latched(c)' /\ Told(c)' /\ Unique' /\ Bytes'
  BY <1>1, <1>2, <1>3, Zenon DEF Quiet, Calm, Latched, Told, Unique, Bytes
<1>5. Terms(c)' /\ Token1(c)' /\ PastOK(c)' /\ Seek(c)'
  BY <1>1, <1>2, <1>3, Zenon DEF Terms, Token1, PastOK, Seek
<1>7. Refused(c)'
  BY <1>1, <1>2, <1>3, Zenon DEF Refused
<1>6. Answer(c)' /\ Bound(c)'
  BY <1>1, <1>2, <1>3, Zenon DEF Answer, Answered, Lost, Bound
<1> QED BY <1>4, <1>5, <1>6, <1>7, Zenon DEF SessionInv

(* A caller that is about to set the latch is starting a slew. *)
LEMMA StartsStarting ==
  ASSUME TypeOK, NEW c \in Callers, Starts(c)
  PROVE  starting(c)
<1>1. CASE opening(c) \/ at(c, "slewing")
  BY <1>1 DEF opening, starting, Refusal
<1>2. CASE at(c, "applyToken") /\ followedBy(c, "slewing")
  <2> DEFINE q == todo[c]
  <2>1. q \in Seq(Step) /\ q # <<>> /\ Tail(q) # <<>> /\ Head(Tail(q)).do = "slewing"
    BY <1>2, HeadTyped DEF followedBy
  <2>2. Len(q) > 1
    <3> HIDE DEF q
    <3> QED BY <2>1
  <2>3. Head(Tail(q)) = q[2]
    <3> HIDE DEF q
    <3> QED BY <2>1, <2>2, SecondParts
  <2> QED BY <1>2, <2>1, <2>2, <2>3 DEF starting
<1> QED BY <1>1, <1>2 DEF Starts

(* The end of a goto and of a seek keep the invariant: the token is the only one. *)
LEMMA EndsSession ==
  ASSUME TypeOK, NEW c \in Callers, Lone(c), SessionInv(c), arrive \/ seekEnd
  PROVE  SessionInv(c)'
<1>1. PICK f \in Frame :
        /\ f.k \in Term /\ inbox' = Append(inbox, f) /\ Len(inbox) < MaxInbox
        /\ Moving /\ outlasts
        /\ fw'.motion = "idle" /\ fw'.wedged = fw.wedged /\ fw'.verdict = fw.verdict
        /\ m' = m /\ todo' = todo /\ val' = val /\ tok' = tok /\ told' = told /\ pulses' = pulses
  <2>1. /\ \E k \in Term : push(k)
        /\ Moving /\ outlasts
        /\ fw'.motion = "idle" /\ fw'.wedged = fw.wedged /\ fw'.verdict = fw.verdict
        /\ m' = m /\ todo' = todo /\ val' = val /\ tok' = tok /\ told' = told /\ pulses' = pulses
    BY DEF arrive, seekEnd, Term, Moving, TypeOK, FirmwareType
  <2>2. PICK k \in Term : push(k)
    BY <2>1
  <2>3. frame(k) \in Frame /\ frame(k).k = k
    BY DEF frame, Frame, Kind, Token, Fault, Value, Term
  <2> QED BY <2>1, <2>2, <2>3 DEF push
<1>2. ~Starts(c) /\ ~opening(c)
  <2>1. ~starting(c)
    BY <1>1 DEF outlasts, Lone
  <2> QED BY <2>1, StartsStarting DEF Starts
<1>3. /\ Shape(todo[c]) /\ Quiet /\ Calm(c) /\ Latched(c) /\ Told(c) /\ Unique /\ Terms(c) /\ Token1(c)
      /\ Refused(c) /\ Bytes /\ PastOK(c) /\ Seek(c) /\ Answer(c) /\ Bound(c)
  BY DEF SessionInv
<1>4. /\ ~Moving' /\ fw'.motion # "home"
      /\ m.slewing /\ NoTerm /\ tok[c].k \notin Term /\ (\A i \in Unread : inbox[i].k \notin Refusal)
      /\ Asking(todo[c]) /\ told[c] # "idle"
  <2>1. fw.motion # "idle"
    BY <1>1 DEF Moving
  <2>2. ~Moving' /\ fw'.motion # "home"
    BY <1>1 DEF Moving
  <2> QED BY <1>1, <1>2, <1>3, <2>1, <2>2, Zenon DEF Latched, Terms, NoTerm, Token1, Refused, Calm, Told
<1>5. /\ Len(inbox) \in Nat /\ Len(inbox') = Len(inbox) + 1 /\ MaxInbox \in Nat
      /\ \A i \in Unread : inbox'[i] = inbox[i]
      /\ inbox'[Len(inbox) + 1] = f
  <2>1. inbox \in Seq(Frame)
    BY DEF TypeOK
  <2> QED BY <1>1, <2>1, AppendParts, RstAssumption DEF Unread
<1>6. /\ \A i \in Unread' : (i \in Unread /\ inbox'[i] = inbox[i]) \/ (i = Len(inbox') /\ inbox'[i] = f)
      /\ Unread \subseteq Unread'
  BY <1>5 DEF Unread
<1>7. f.k \notin Query /\ f.k \notin Refusal /\ f.k \notin {"byte", "none"}
  BY <1>1 DEF Term, Query, Refusal
<1>8. /\ Starts(c)' <=> Starts(c)
      /\ opening(c)' <=> opening(c)
      /\ Past(c)' <=> Past(c)
      /\ \A s : at(c, s)' <=> at(c, s)
      /\ \A x : sends(c, x)' <=> sends(c, x)
      /\ beforeCh(c)' <=> beforeCh(c)
      /\ cmd(c)' = cmd(c) /\ nth(c)' = nth(c)
  BY <1>1, Zenon DEF Starts, opening, Past, at, sends, cmd, nth, followedBy, beforeCh
<1>9. Shape(todo[c])' /\ Quiet' /\ Calm(c)' /\ Latched(c)' /\ Told(c)'
  BY <1>1, <1>3, <1>4, Zenon DEF Quiet, Calm, Latched, Told
<1>10. Unique' /\ Terms(c)' /\ Token1(c)' /\ Refused(c)' /\ Bytes'
  <2>1. Unique'
    BY <1>4, <1>6 DEF Unique, NoTerm
  <2>2. Terms(c)' /\ Token1(c)'
    BY <1>1, <1>4, Zenon DEF Terms, Token1
  <2>3. \A i \in Unread' : inbox'[i].k \notin Refusal
    BY <1>4, <1>6, <1>7
  <2>4. Refused(c)'
    <3>1. at(c, "window") => ~m.slewing
      BY <1>3 DEF Refused
    <3> QED BY <1>1, <1>8, <2>3, <3>1, Zenon DEF Refused
  <2>5. Bytes'
    BY <1>3, <1>4, <1>6, <1>7 DEF Bytes
  <2> QED BY <2>1, <2>2, <2>4, <2>5
<1>11. PastOK(c)'
  <2>1. Past(c) => inbox = <<>>
    BY <1>1, <1>3, Zenon DEF PastOK
  <2>2. inbox = <<>> => Len(inbox') = 1 /\ inbox'[1].k \in Term
    BY <1>1, <1>5
  <2> QED BY <1>4, <1>8, <2>1, <2>2, Zenon DEF PastOK
<1>12. Seek(c)'
  <2> DEFINE q == todo[c]
  <2>1. q \in Seq(Step) /\ Shape(q) /\ \A i \in 1 .. Len(q) : ~Commanding(q[i])
    BY <1>3, <1>4 DEF Asking, TypeOK
  <2>2. ~sends(c, "Ch")
    <3>1. at(c, "Blind") => 1 \in 1 .. Len(q) /\ Head(q) = q[1]
      BY <2>1 DEF at
    <3> QED BY <2>1, <3>1 DEF at, sends, cmd, Commanding, Is
  <2>3. q # <<>> => ~beforeCh(c) /\ ~at(c, "notHoming")
    <3>1. ASSUME q # <<>>, beforeCh(c) PROVE FALSE
      <4>1. Tail(q) # <<>> /\ Is(Head(Tail(q)), "Blind", "Ch")
        BY <3>1 DEF beforeCh
      <4> HIDE DEF q
      <4>2. Len(q) > 1 /\ 2 \in 1 .. Len(q)
        BY <2>1, <3>1, <4>1
      <4>3. Head(Tail(q)) = q[2]
        BY <2>1, <3>1, <4>2, SecondParts
      <4> QED BY <2>1, <4>1, <4>2, <4>3 DEF Commanding
    <3>2. ASSUME q # <<>>, at(c, "notHoming") PROVE FALSE
      <4>1. Placed(q, 1) /\ q[1].do = "notHoming" /\ Len(q) \in Nat
        BY <2>1, <3>2 DEF Shape, at
      <4>2. 1 + 3 = Len(q) /\ Is(q[1 + 2], "Blind", "Ch")
        BY <4>1 DEF Placed
      <4> HIDE DEF q
      <4>3. 3 \in 1 .. Len(q) /\ Is(q[3], "Blind", "Ch")
        BY <4>2
      <4> QED BY <2>1, <4>3 DEF Commanding
    <3> QED BY <3>1, <3>2
  <2>4. at(c, "Get") \/ at(c, "echo") \/ at(c, "notHoming") => q # <<>>
    BY DEF at
  <2> QED BY <1>8, <2>2, <2>3, <2>4, Zenon DEF Seek
<1>13. Answer(c)'
  <2>1. CASE ~at(c, "match")
    <3>1. NoQuery
      BY <1>3, <2>1 DEF Answer
    <3>2. NoQuery'
      BY <1>6, <1>7, <3>1 DEF NoQuery
    <3> QED BY <1>8, <2>1, <3>2, Zenon DEF Answer
  <2>2. CASE at(c, "match") /\ Answered(c)
    <3>1. PICK p \in Unread :
            /\ inbox[p].k = cmd(c)
            /\ \A j \in Unread : inbox[j].k \in Query => j = p
            /\ nth(c) + p <= MaxInbox + 1
            /\ \A j \in Unread : j > p => inbox[j].k \in Term
      BY <2>2, Zenon DEF Answered
    <3>2. p \in Unread' /\ inbox'[p].k = cmd(c)
      BY <1>5, <1>6, <3>1
    <3>3. \A j \in Unread' : inbox'[j].k \in Query => j = p
      BY <1>6, <1>7, <3>1
    <3>4. \A j \in Unread' : j > p => inbox'[j].k \in Term
      BY <1>1, <1>6, <3>1
    <3>5. Answered(c)'
      BY <1>4, <1>8, <3>1, <3>2, <3>3, <3>4, Zenon DEF Answered
    <3> QED BY <3>5, <1>8, <2>2, Zenon DEF Answer
  <2>3. CASE Lost(c)
    <3>1. NoQuery /\ Len(inbox) + nth(c) <= MaxInbox
      BY <1>1, <2>3 DEF Lost
    <3>2. NoQuery'
      BY <1>6, <1>7, <3>1 DEF NoQuery
    <3>3. at(c, "match") => nth(c) \in Nat
      <4>1. at(c, "match") => Head(todo[c]) \in Step
        BY HeadTyped
      <4> QED BY <4>1 DEF nth, Step
    <3>4. at(c, "match") => Len(inbox') + nth(c) <= MaxInbox + 1
      BY <1>5, <3>1, <3>3
    <3> QED BY <1>4, <1>8, <3>2, <3>4, Zenon DEF Answer, Lost
  <2> QED BY <1>3, <2>1, <2>2, <2>3, Zenon DEF Answer
<1>14. Bound(c)'
  <2>1. Len(inbox') <= MaxInbox
    BY <1>1, <1>5
  <2> QED BY <2>1 DEF Bound
<1> QED BY <1>9, <1>10, <1>11, <1>12, <1>13, <1>14, Zenon DEF SessionInv

-----------------------------------------------------------------------------
(* Commands without an answer. *)
LEMMA StopSession ==
  ASSUME TypeOK, NEW c \in Callers, SessionInv(c), sends(c, "Q"), blind(c)
  PROVE  SessionInv(c)'
<1>1. /\ at(c, "Blind") /\ cmd(c) = "Q" /\ obey("Q") /\ proceed(c)
      /\ m' = m /\ val' = val /\ tok' = tok /\ told' = told /\ pulses' = pulses
  BY DEF sends, blind
<1>2. /\ Shape(todo[c]) /\ Quiet /\ Calm(c) /\ Told(c) /\ PastOK(c)
  BY DEF SessionInv
<1>3. /\ inbox' = inbox /\ fw'.motion = "idle" /\ ~fw'.wedged /\ fw'.verdict = fw.verdict
  <2>1. fw.motion # "home" /\ ~fw.wedged
    BY <1>2 DEF PastOK, Quiet
  <2> QED BY <1>1, <2>1 DEF obey, silent, TypeOK, FirmwareType, Refusal
<1>4. /\ ~Busy(c) /\ ~at(c, "accepted") /\ Past(c) /\ ~sends(c, "Ch")
      /\ ~at(c, "match") /\ ~at(c, "echo") /\ ~at(c, "byte") /\ ~at(c, "window")
      /\ Head(todo[c]).do = "Blind" /\ ~Asks(Head(todo[c]), "AH") /\ ~Slews(Head(todo[c]))
  BY <1>1 DEF Busy, at, Past, sends, Asks, Slews
<1>5. /\ Unique /\ Bytes /\ NoQuery /\ Bound(c) /\ tok[c].k \notin Term
      /\ \A i \in Unread : inbox[i].k \in Refusal => ~Moving /\ m.slewing /\ NoTerm
      /\ \A i \in Unread : inbox[i].k \in Term => ~Moving /\ (i > 1 => m.slewing)
  BY <1>4, FromPlain DEF Plain
<1>6. /\ Shape(todo'[c]) /\ (Asking(todo[c]) => Asking(todo'[c])) /\ (Mute(todo[c]) => Mute(todo'[c]))
      /\ \A d \in Reading : ~at(c, d)'
      /\ ~at(c, "refuseWhileHoming")' /\ ~at(c, "notHoming")' /\ ~at(c, "slewing")' /\ ~sends(c, "Q")'
      /\ ~sends(c, "Ch")' /\ ~(at(c, "Get")' /\ beforeCh(c)')
  BY <1>1, <1>2, <1>4, Onward
<1>7. Quiet' /\ ~Moving' /\ Unread' = Unread /\ Unique' /\ Bytes' /\ NoQuery' /\ (NoTerm' <=> NoTerm)
  BY <1>1, <1>2, <1>3, <1>5 DEF Quiet, Moving, Unread, Unique, Bytes, NoQuery, NoTerm
<1>8. Calm(c)' /\ Told(c)' /\ Bound(c)'
  BY <1>1, <1>2, <1>3, <1>4, <1>5, <1>6, Zenon DEF Calm, Told, Bound, at
<1>9. Plain(c)'
  BY <1>1, <1>3, <1>5, <1>6, <1>7, <1>8, Zenon DEF Plain
<1>10. ~Busy(c)' /\ ~at(c, "echo")'
  BY <1>6 DEF Busy, Reading
<1>11. PastOK(c)' /\ Seek(c)'
  <2>1. inbox = <<>> \/ (Len(inbox) = 1 /\ inbox[1].k \in Term)
    BY <1>2, <1>4, Zenon DEF PastOK
  <2> QED BY <1>3, <1>6, <1>7, <1>10, <2>1, Zenon DEF PastOK, Seek
<1> QED BY <1>9, <1>10, <1>11, ToNear

(* A home seek starts with an empty line, so it ends before anything else is read. *)
LEMMA SeekSession ==
  ASSUME TypeOK, NEW c \in Callers, SessionInv(c), sends(c, "Ch"), blind(c)
  PROVE  SessionInv(c)'
<1>1. /\ at(c, "Blind") /\ cmd(c) = "Ch" /\ obey("Ch") /\ proceed(c)
      /\ m' = m /\ val' = val /\ tok' = tok /\ told' = told /\ pulses' = pulses
  BY DEF sends, blind
<1>2. /\ Shape(todo[c]) /\ Quiet /\ Calm(c) /\ Told(c) /\ Seek(c)
  BY DEF SessionInv
<1>3. todo[c] \in Seq(Step) /\ todo[c] # <<>> /\ Is(Head(todo[c]), "Blind", "Ch")
  BY <1>1, HeadTyped DEF at, cmd, Is
<1>4. inbox = <<>> /\ fw.motion = "idle" /\ ~m.slewing
  <2>1. ~Asking(todo[c])
    <3>1. 1 \in 1 .. Len(todo[c]) /\ Head(todo[c]) = todo[c][1]
      BY <1>3
    <3> QED BY <1>3, <3>1 DEF Asking, Commanding
  <2> QED BY <1>2, <2>1 DEF Seek, Calm
<1>5. /\ ~fw'.wedged /\ fw'.verdict = fw.verdict
      /\ \/ inbox' = inbox /\ fw'.motion = "home"
         \/ inbox' = Append(inbox, frame("CH<")) /\ fw'.motion = "idle"
  <2>1. ~fw.wedged
    BY <1>2 DEF Quiet
  <2> QED BY <1>1, <1>4, <2>1 DEF obey, silent, answer, TypeOK, FirmwareType, Refusal
<1>6. inbox' = <<>> \/ (Len(inbox') = 1 /\ inbox'[1].k = "CH<" /\ fw'.motion = "idle")
  <2>1. Append(<<>>, frame("CH<")) = <<frame("CH<")>> /\ frame("CH<").k = "CH<"
    BY DEF frame
  <2> QED BY <1>4, <1>5, <2>1
<1>7. /\ \A i \in Unread' : i = 1 /\ inbox'[i].k = "CH<" /\ ~Moving'
  BY <1>6 DEF Unread, Moving
<1>8. /\ Tail(todo[c]) # <<>> /\ Tail(Tail(todo[c])) = <<>> /\ Head(Tail(todo[c])).do = "slewing"
      /\ todo'[c] = Tail(todo[c]) /\ Shape(todo'[c]) /\ todo'[c] \in Seq(Step)
  BY <1>1, <1>2, <1>3, Later, Onward
<1>9. \A d : at(c, d)' <=> d = "slewing"
  BY <1>8 DEF at
<1>10. Starts(c)' /\ ~opening(c)' /\ ~Past(c)' /\ ~sends(c, "Ch")'
  BY <1>9 DEF Starts, opening, Past, sends
<1>11. todo'[c][1].do = "slewing" /\ Len(todo'[c]) = 1
  <2> DEFINE t == Tail(todo[c])
  <2>1. t \in Seq(Step) /\ t # <<>> /\ Tail(t) = <<>> /\ Head(t).do = "slewing"
    BY <1>8
  <2> HIDE DEF t
  <2>2. Len(t) = 1 /\ t[1] = Head(t)
    BY <2>1, OneLong
  <2>3. t[1].do = "slewing"
    BY <2>1, <2>2
  <2> QED BY <1>8, <2>2, <2>3 DEF t
<1>12. Asking(todo'[c]) /\ Mute(todo'[c])
  BY <1>11 DEF Asking, Mute, Askers, Commanding, Is
<1>13. Quiet' /\ Calm(c)' /\ Latched(c)' /\ Told(c)' /\ Bound(c)'
  <2>1. Quiet'
    BY <1>1, <1>2, <1>5, <1>4 DEF Quiet
  <2> QED BY <2>1, <1>1, <1>2, <1>3, <1>10, <1>12, Zenon DEF Calm, Latched, Told, Bound
<1>14. tok[c].k \notin Term
  <2>1. ~at(c, "applyToken")
    BY <1>1 DEF at
  <2> QED BY <2>1 DEF SessionInv, Token1
<1>15. Unique' /\ Terms(c)' /\ Token1(c)'
  BY <1>1, <1>7, <1>14 DEF Unique, Terms, Token1
<1>16. Refused(c)' /\ Bytes'
  <2>1. "CH<" \notin Refusal
    BY DEF Refusal
  <2>2. Refused(c)'
    BY <1>7, <1>9, <2>1 DEF Refused
  <2>3. Bytes'
    BY <1>7 DEF Bytes
  <2> QED BY <2>2, <2>3
<1>17. PastOK(c)' /\ Seek(c)'
  BY <1>9, <1>10 DEF PastOK, Seek, Past
<1>18. Answer(c)'
  <2>1. "CH<" \notin Query
    BY DEF Query
  <2> QED BY <1>7, <1>9, <2>1 DEF Answer, NoQuery
<1> QED BY <1>8, <1>13, <1>15, <1>16, <1>17, <1>18, Zenon DEF SessionInv

(* A command without an answer keeps the invariant. *)
LEMMA BlindSession ==
  ASSUME TypeOK, NEW c \in Callers, SessionInv(c), blind(c)
  PROVE  SessionInv(c)'
<1>1. /\ at(c, "Blind") /\ obey(cmd(c)) /\ proceed(c)
      /\ m' = m /\ val' = val /\ tok' = tok /\ told' = told /\ pulses' = pulses
  BY DEF blind
<1>2. cmd(c) \in {"Sz", "Sa", "Q", "Ch"}
  <2>1. todo[c] \in Seq(Step) /\ todo[c] # <<>> /\ Shape(todo[c]) /\ Head(todo[c]).do = "Blind"
    BY <1>1, HeadTyped DEF SessionInv, at
  <2>2. Proper(Head(todo[c]))
    BY <2>1, Later
  <2> QED BY <2>1, <2>2 DEF Proper, cmd
<1>3. CASE cmd(c) = "Q"
  BY <1>1, <1>3, StopSession DEF sends
<1>4. CASE cmd(c) = "Ch"
  BY <1>1, <1>4, SeekSession DEF sends
<1>5. CASE cmd(c) \in {"Sz", "Sa"}
  <2>1. inbox' = inbox /\ fw' = fw
    BY <1>1, <1>5 DEF obey, silent, Refusal
  <2>2. ~sends(c, "Q") /\ ~sends(c, "Ch") /\ ~at(c, "accepted")
    BY <1>1, <1>5 DEF sends, at
  <2> QED BY <1>1, <2>1, <2>2, Pass
<1> QED BY <1>2, <1>3, <1>4, <1>5
-----------------------------------------------------------------------------
(* A query is sent. *)
LEMMA AskSession ==
  ASSUME TypeOK, NEW c \in Callers, SessionInv(c), at(c, "write"), obey(cmd(c)), insert(c, on("match", cmd(c))),
         m' = m, val' = val, tok' = tok, told' = told, pulses' = pulses
  PROVE  SessionInv(c)'
<1> DEFINE x == rec("match", cmd(c))
           h == Head(todo[c])
<1>1. /\ Shape(todo[c]) /\ todo[c] \in Seq(Step) /\ todo[c] # <<>> /\ h.do = "write" /\ h.cmd = cmd(c)
  BY HeadTyped DEF SessionInv, at, cmd
<1>2. cmd(c) \in Query
  <2>1. Proper(h)
    BY <1>1, Later
  <2> QED BY <1>1, <2>1 DEF Proper
<1>3. x \in Step /\ Proper(x) /\ on("match", cmd(c)) = <<x>> /\ x.do = "match" /\ x.cmd = cmd(c) /\ x.n = 0
      /\ ~Commanding(x)
  BY <1>2 DEF rec, on, Step, Does, Command, Gated, Ungated, Query, Proper, Commanding, Is
<1>4. Replaces(h, x) /\ insert(c, <<x>>)
  <2> HIDE DEF h, x
  <2> QED BY <1>1, <1>3 DEF Replaces, Asks, Slews, Syncs
<1>5. PICK g \in Frame :
        /\ g.k = cmd(c) /\ inbox' = Append(inbox, g) /\ fw' = fw
        /\ cmd(c) = "AH" /\ fw.motion = "home" => g.v = "1"
  <2>1. CASE cmd(c) = "AH"
    <3> DEFINE g == [k |-> cmd(c), v |-> IF fw.motion = "home" \/ fw.wedged THEN "1" ELSE "0"]
    <3>1. inbox' = Append(inbox, g) /\ fw' = fw
      BY <2>1 DEF obey, answer, Refusal
    <3>2. g \in Frame /\ g.k = cmd(c) /\ (fw.motion = "home" => g.v = "1")
      BY <2>1 DEF Frame, Kind, Query, Value
    <3> QED BY <3>1, <3>2
  <2>2. CASE cmd(c) = "G"
    <3> DEFINE g == [k |-> cmd(c), v |-> fw.pos]
    <3>1. inbox' = Append(inbox, g) /\ fw' = fw
      BY <2>2 DEF obey, answer, Refusal
    <3>2. g \in Frame /\ g.k = cmd(c)
      BY <2>2 DEF Frame, Kind, Query, Value, TypeOK, FirmwareType
    <3> QED BY <2>2, <3>1, <3>2
  <2>3. CASE cmd(c) = "CY"
    <3>1. PICK p \in Place : inbox' = Append(inbox, [k |-> cmd(c), v |-> p]) /\ fw' = fw
      BY <2>3 DEF obey, answer, Refusal
    <3>2. [k |-> cmd(c), v |-> p] \in Frame /\ [k |-> cmd(c), v |-> p].k = cmd(c)
      BY <2>3 DEF Frame, Kind, Query, Value
    <3> QED BY <2>3, <3>1, <3>2
  <2> QED BY <1>2, <2>1, <2>2, <2>3 DEF Query
<1>6. ~Busy(c) /\ ~at(c, "accepted") /\ ~at(c, "match") /\ ~at(c, "echo") /\ ~at(c, "byte") /\ ~at(c, "window")
  BY DEF Busy, at
<1>7. /\ Quiet /\ Calm(c) /\ Told(c) /\ Unique /\ Bytes /\ NoQuery /\ Bound(c)
      /\ Moving => m.slewing
      /\ \A i \in Unread : inbox[i].k \in Term => ~Moving /\ (i > 1 => m.slewing)
      /\ tok[c].k \notin Term
      /\ \A i \in Unread : inbox[i].k \in Refusal => ~Moving /\ m.slewing /\ NoTerm
  BY <1>6, FromPlain DEF Plain
<1>8. Len(inbox) <= MaxInbox
  <2>1. ~Mute(todo[c])
    <3>1. 1 \in 1 .. Len(todo[c]) /\ todo[c][1].do = "write"
      BY <1>1
    <3> QED BY <3>1 DEF Mute, Askers
  <2> QED BY <1>6, <1>7, <2>1, Zenon DEF Bound
<1> HIDE DEF x, h
<1>9. /\ Shape(todo'[c]) /\ todo'[c] # <<>>
      /\ \A d : at(c, d)' <=> x.do = d
      /\ cmd(c)' = cmd(c) /\ nth(c)' = 0
      /\ Asking(todo[c]) => Asking(todo'[c])
  BY <1>1, <1>3, <1>4, Instead DEF h
<1>10. /\ Len(inbox) \in Nat /\ Len(inbox') = Len(inbox) + 1 /\ MaxInbox \in Nat
       /\ \A i \in Unread : inbox'[i] = inbox[i]
       /\ inbox'[Len(inbox')] = g
  <2>1. inbox \in Seq(Frame)
    BY DEF TypeOK
  <2> QED BY <1>5, <2>1, AppendParts, RstAssumption DEF Unread
<1>11. /\ \A i \in Unread' : (i \in Unread /\ inbox'[i] = inbox[i]) \/ (i = Len(inbox') /\ inbox'[i] = g)
       /\ Unread \subseteq Unread' /\ Len(inbox') \in Unread' /\ \A i \in Unread' : i <= Len(inbox')
  BY <1>10 DEF Unread
<1>12. g.k \in Query /\ g.k \notin Term /\ g.k \notin Refusal /\ g.k \notin {"byte", "none"}
  BY <1>2, <1>5 DEF Term, Query, Refusal
<1>13. ~opening(c)' /\ ~Starts(c)' /\ ~Past(c)' /\ at(c, "match")' /\ ~at(c, "window")'
  BY <1>3, <1>9 DEF opening, Starts, Past, sends
<1>14. (Moving' <=> Moving) /\ (NoTerm => NoTerm') /\ Quiet' /\ Calm(c)' /\ Told(c)' /\ Latched(c)'
  <2>1. NoTerm => NoTerm'
    BY <1>11, <1>12 DEF NoTerm
  <2> QED BY <2>1, <1>5, <1>1, <1>7, <1>9, Zenon DEF Moving, Quiet, Calm, Told, Latched
<1>15. Unique' /\ Bytes'
  BY <1>5, <1>7, <1>11, <1>12 DEF Unique, Bytes
<1>16. Terms(c)' /\ Token1(c)'
  <2>1. ASSUME NEW i \in Unread', inbox'[i].k \in Term PROVE ~Moving /\ (i > 1 => m.slewing)
    BY <1>7, <1>11, <1>12, <2>1
  <2> QED BY <1>7, <1>14, <2>1, Zenon DEF Terms, Token1
<1>17. Refused(c)'
  <2>1. ASSUME NEW i \in Unread', inbox'[i].k \in Refusal PROVE ~Moving /\ m.slewing /\ NoTerm
    BY <1>7, <1>11, <1>12, <2>1
  <2> QED BY <1>7, <1>13, <1>14, <2>1, Zenon DEF Refused
<1>18. PastOK(c)' /\ Seek(c)'
  <2>1. ~at(c, "notHoming")' /\ ~at(c, "Get")' /\ ~at(c, "echo")' /\ ~at(c, "Blind")'
    BY <1>3, <1>9
  <2> QED BY <1>13, <2>1 DEF PastOK, Seek, Past, sends
<1>19. Answered(c)'
  <2> DEFINE p == Len(inbox')
  <2>1. p \in Unread' /\ inbox'[p] = g /\ inbox'[p].k = cmd(c)'
    BY <1>5, <1>9, <1>10, <1>11
  <2>2. \A j \in Unread' : inbox'[j].k \in Query => j = p
    BY <1>7, <1>11, <1>12 DEF NoQuery
  <2>3. nth(c)' + p <= MaxInbox + 1
    BY <1>8, <1>9, <1>10
  <2>4. \A j \in Unread' : ~(j > p)
    <3>1. \A j \in Unread' : j \in Nat /\ j <= p /\ p \in Nat
      BY <1>10 DEF Unread
    <3> QED BY <3>1
  <2>5. cmd(c)' = "AH" /\ fw'.motion = "home" => inbox'[p].v = "1"
    BY <1>5, <1>9, <2>1
  <2> HIDE DEF p
  <2>6. p = Len(inbox')
    BY DEF p
  <2> QED BY <2>1, <2>2, <2>3, <2>4, <2>5, <2>6, Zenon DEF Answered
<1>20. Answer(c)' /\ Bound(c)'
  <2>1. Len(inbox') <= MaxInbox + 1
    BY <1>8, <1>10
  <2> QED BY <1>13, <1>19, <2>1 DEF Answer, Bound
<1> QED BY <1>9, <1>14, <1>15, <1>16, <1>17, <1>18, <1>20, Zenon DEF SessionInv

(* A command whose answer is one frame or one byte is sent. *)
LEMMA TellSession ==
  ASSUME TypeOK, NEW c \in Callers, SessionInv(c), NEW s, NEW r, at(c, s),
         (s = "Get" /\ r = "echo") \/ (s = "Ack" /\ r = "byte"),
         obey(cmd(c)), insert(c, on(r, cmd(c))),
         m' = m, val' = val, tok' = tok, told' = told, pulses' = pulses
  PROVE  SessionInv(c)'
<1> DEFINE x == rec(r, cmd(c))
           h == Head(todo[c])
<1>1. /\ Shape(todo[c]) /\ todo[c] \in Seq(Step) /\ todo[c] # <<>> /\ h.do = s /\ h.cmd = cmd(c)
  BY HeadTyped DEF SessionInv, at, cmd
<1>2. \/ s = "Get" /\ cmd(c) \in {"CtL", "CtA", "CtU"}
      \/ s = "Ack" /\ cmd(c) \in {"Sr", "Sd", "SrP", "SdP"}
  <2>1. Proper(h)
    BY <1>1, Later
  <2> QED BY <1>1, <2>1 DEF Proper
<1>3. x \in Step /\ Proper(x) /\ on(r, cmd(c)) = <<x>> /\ x.do = r /\ x.cmd = cmd(c)
      /\ (s = "Get" => ~Commanding(x)) /\ (s = "Ack" => Commanding(h))
  BY <1>1, <1>2 DEF rec, on, Step, Does, Command, Gated, Ungated, Query, Proper, Commanding, Is
<1>4. Replaces(h, x) /\ insert(c, <<x>>)
  <2> HIDE DEF h, x
  <2> QED BY <1>1, <1>3 DEF Replaces, Asks, Slews, Syncs
<1>5. PICK g \in Frame :
        /\ g.k = (IF s = "Get" THEN "CT" ELSE "byte") /\ inbox' = Append(inbox, g)
        /\ fw'.motion = fw.motion /\ fw'.wedged = fw.wedged /\ fw'.verdict = fw.verdict
  <2>1. CASE s = "Get"
    <3>1. inbox' = Append(inbox, frame("CT"))
      BY <1>2, <2>1 DEF obey, answer, Refusal
    <3>2. fw'.motion = fw.motion /\ fw'.wedged = fw.wedged /\ fw'.verdict = fw.verdict
      BY <1>2, <2>1 DEF obey, Refusal, TypeOK, FirmwareType
    <3>3. frame("CT") \in Frame /\ frame("CT").k = "CT"
      BY DEF frame, Frame, Kind, Value
    <3> QED BY <2>1, <3>1, <3>2, <3>3
  <2>2. CASE s = "Ack"
    <3> DEFINE g == [k |-> "byte", v |-> "1"]
    <3>1. inbox' = Append(inbox, g)
      BY <1>2, <2>2 DEF obey, answer, Refusal
    <3>2. fw'.motion = fw.motion /\ fw'.wedged = fw.wedged /\ fw'.verdict = fw.verdict
      BY <1>2, <2>2 DEF obey, Refusal, TypeOK, FirmwareType
    <3>3. g \in Frame /\ g.k = "byte"
      BY DEF Frame, Kind, Value
    <3> QED BY <2>2, <3>1, <3>2, <3>3
  <2> QED BY <2>1, <2>2
<1>6. ~Busy(c) /\ ~at(c, "accepted") /\ ~at(c, "match") /\ ~at(c, "echo") /\ ~at(c, "byte") /\ ~at(c, "window")
  BY DEF Busy, at
<1>7. /\ Quiet /\ Calm(c) /\ Told(c) /\ Unique /\ Bytes /\ NoQuery /\ Bound(c)
      /\ Moving => m.slewing
      /\ \A i \in Unread : inbox[i].k \in Term => ~Moving /\ (i > 1 => m.slewing)
      /\ tok[c].k \notin Term
      /\ \A i \in Unread : inbox[i].k \in Refusal => ~Moving /\ m.slewing /\ NoTerm
  BY <1>6, FromPlain DEF Plain
<1>8. s = "Ack" => fw.motion = "idle"
  <2>1. s = "Ack" => ~Asking(todo[c])
    <3>1. 1 \in 1 .. Len(todo[c]) /\ todo[c][1] = h
      BY <1>1
    <3> QED BY <1>3, <3>1 DEF Asking
  <2> QED BY <1>7, <2>1 DEF Calm
<1> HIDE DEF x, h
<1>9. /\ Shape(todo'[c]) /\ todo'[c] # <<>>
      /\ \A d : at(c, d)' <=> x.do = d
      /\ beforeCh(c)' <=> beforeCh(c)
      /\ Asking(todo[c]) => Asking(todo'[c])
      /\ Mute(todo[c]) => Mute(todo'[c])
  <2>1. x.do \notin Askers /\ (Commanding(x) => Commanding(h)) /\ h = Head(todo[c])
    BY <1>3 DEF Askers, h
  <2> QED BY <1>1, <1>3, <1>4, <2>1, Instead, Zenon
<1>10. /\ Len(inbox) \in Nat /\ Len(inbox') = Len(inbox) + 1 /\ MaxInbox \in Nat
       /\ \A i \in Unread : inbox'[i] = inbox[i]
       /\ inbox'[Len(inbox')] = g
  <2>1. inbox \in Seq(Frame)
    BY DEF TypeOK
  <2> QED BY <1>5, <2>1, AppendParts, RstAssumption DEF Unread
<1>11. \A i \in Unread' : (i \in Unread /\ inbox'[i] = inbox[i]) \/ (i = Len(inbox') /\ inbox'[i] = g)
  BY <1>10 DEF Unread
<1>12. g.k \notin Query /\ g.k \notin Term /\ g.k \notin Refusal /\ g.k # "none"
  BY <1>5 DEF Term, Query, Refusal
<1>13. (Moving' <=> Moving) /\ (NoTerm => NoTerm') /\ Quiet' /\ Calm(c)' /\ Told(c)' /\ NoQuery'
  <2>1. NoTerm => NoTerm'
    BY <1>11, <1>12 DEF NoTerm
  <2>2. NoQuery'
    BY <1>7, <1>11, <1>12 DEF NoQuery
  <2> QED BY <2>1, <2>2, <1>5, <1>1, <1>7, <1>9, Zenon DEF Moving, Quiet, Calm, Told
<1>14. Unique' /\ Bytes'
  <2>1. Unique'
    BY <1>7, <1>11, <1>12 DEF Unique
  <2>2. g.k = "byte" => fw.motion = "idle"
    BY <1>2, <1>5, <1>8
  <2>3. Bytes'
    BY <1>5, <1>7, <1>11, <1>12, <2>2 DEF Bytes
  <2> QED BY <2>1, <2>3
<1>15. Bound(c)'
  <2>1. Mute(todo[c]) \/ Len(inbox) <= MaxInbox
    BY <1>6, <1>7, Zenon DEF Bound
  <2>2. Len(inbox) <= MaxInbox => Len(inbox') <= MaxInbox + 1
    BY <1>10
  <2>3. at(c, "echo")' \/ at(c, "byte")'
    BY <1>3, <1>9
  <2> QED BY <1>9, <2>1, <2>2, <2>3, Zenon DEF Bound
<1>16. Plain(c)'
  <2>1. ASSUME NEW i \in Unread', inbox'[i].k \in Term PROVE ~Moving /\ (i > 1 => m.slewing)
    BY <1>7, <1>11, <1>12, <2>1
  <2>2. ASSUME NEW i \in Unread', inbox'[i].k \in Refusal PROVE ~Moving /\ m.slewing /\ NoTerm
    BY <1>7, <1>11, <1>12, <2>2
  <2> QED BY <1>7, <1>9, <1>13, <1>14, <1>15, <2>1, <2>2, Zenon DEF Plain
<1>17. ~Busy(c)' /\ ~Past(c)' /\ ~at(c, "notHoming")' /\ ~at(c, "Get")' /\ ~at(c, "Blind")'
       /\ (at(c, "echo")' => s = "Get")
  BY <1>3, <1>9 DEF Busy, Past, sends
<1>18. PastOK(c)' /\ Seek(c)'
  <2>1. s = "Get" /\ beforeCh(c) => inbox = <<>>
    BY DEF SessionInv, Seek
  <2>2. s = "Get" /\ inbox = <<>> => Len(inbox') = 1 /\ inbox'[1].k = "CT"
    BY <1>5, <1>10
  <2> QED BY <1>9, <1>17, <2>1, <2>2, Zenon DEF PastOK, Seek, Past, sends
<1> QED BY <1>16, <1>17, <1>18, ToNear

(* A command with an answer keeps the invariant. *)
LEMMA WriteSession ==
  ASSUME TypeOK, NEW c \in Callers, SessionInv(c), write(c)
  PROVE  SessionInv(c)'
<1>1. obey(cmd(c)) /\ m' = m /\ val' = val /\ tok' = tok /\ told' = told /\ pulses' = pulses
  BY DEF write
<1>2. PICK s \in DOMAIN reads : at(c, s) /\ insert(c, on(reads[s], cmd(c)))
  BY DEF write
<1>3. s # "rewrite"
  <2>1. todo[c] \in Seq(Step) /\ todo[c] # <<>> /\ Shape(todo[c]) /\ Head(todo[c]).do = s
    BY <1>2, HeadTyped DEF SessionInv, at
  <2>2. Proper(Head(todo[c]))
    BY <2>1, Later
  <2> QED BY <2>1, <2>2 DEF Proper
<1>4. \/ s = "write" /\ reads[s] = "match"
      \/ s = "Get" /\ reads[s] = "echo"
      \/ s = "Ack" /\ reads[s] = "byte"
  BY <1>3 DEF reads
<1>5. CASE s = "write" /\ reads[s] = "match"
  BY <1>1, <1>2, <1>5, AskSession
<1>6. CASE (s = "Get" /\ reads[s] = "echo") \/ (s = "Ack" /\ reads[s] = "byte")
  BY <1>1, <1>2, <1>6, TellSession
<1> QED BY <1>4, <1>5, <1>6

(* A slew is the last thing its caller sends. *)
LEMMA SlewLast ==
  ASSUME NEW q \in Seq(Step), q # <<>>, Shape(q), Slews(Head(q)), Head(q).do = "window"
  PROVE  Asking(q)
<1>1. Len(q) \in Nat /\ Len(q) >= 1 /\ Head(q) = q[1] /\ 1 \in 1 .. Len(q)
  OBVIOUS
<1>2. Placed(q, 1) /\ Slews(q[1]) /\ q[1].do = "window"
  BY <1>1 DEF Shape
<1>3. 1 < Len(q) /\ q[2].do = "slewing"
  BY <1>2 DEF Placed
<1>4. 2 \in 1 .. Len(q)
  BY <1>1, <1>3
<1>5. 2 = Len(q) \/ (3 = Len(q) /\ q[3].do = "parking")
  <2>1. Placed(q, 2)
    BY <1>4 DEF Shape
  <2>2. 2 = Len(q) \/ (2 + 1 = Len(q) /\ q[2 + 1].do = "parking")
    BY <1>3, <2>1 DEF Placed
  <2> QED BY <2>2
<1>6. \A i \in 1 .. Len(q) : i = 1 \/ i = 2 \/ (i = 3 /\ q[3].do = "parking")
  <2> DEFINE n == Len(q)
  <2>1. n \in Nat /\ (n = 2 \/ (n = 3 /\ q[3].do = "parking"))
    BY <1>1, <1>5, Zenon
  <2> HIDE DEF n
  <2>2. \A i \in 1 .. n : i = 1 \/ i = 2 \/ (i = 3 /\ n = 3)
    BY <2>1
  <2>3. n = 3 => q[3].do = "parking"
    BY <2>1
  <2>4. \A i \in 1 .. n : i = 1 \/ i = 2 \/ (i = 3 /\ q[3].do = "parking")
    BY <2>2, <2>3, Zenon
  <2> QED BY <2>4 DEF n
<1> QED BY <1>2, <1>3, <1>6 DEF Asking, Commanding, Is

(* A goto or sync keeps the invariant. *)
LEMMA SlewNackSession ==
  ASSUME TypeOK, NEW c \in Callers, Lone(c), SessionInv(c), SlewNack(c)
  PROVE  SessionInv(c)'
<1> DEFINE x == rec("window", cmd(c))
           h == Head(todo[c])
<1>1. /\ Shape(todo[c]) /\ todo[c] \in Seq(Step) /\ todo[c] # <<>> /\ h.do = "slewCmd" /\ h.cmd = cmd(c)
      /\ at(c, "slewCmd") /\ m' = m /\ val' = val /\ tok' = tok /\ told' = told /\ pulses' = pulses
  BY HeadTyped DEF SessionInv, at, cmd, SlewNack
<1>2. ~Busy(c) /\ ~at(c, "accepted") /\ ~at(c, "match") /\ ~at(c, "echo") /\ ~at(c, "byte") /\ ~at(c, "window")
  BY <1>1 DEF Busy, at
<1>3. CASE giveUp(c) /\ fw' = fw /\ inbox' = inbox
  BY <1>1, <1>2, <1>3, Drop
<1>4. CASE obey(cmd(c)) /\ insert(c, on("window", cmd(c)))
  <2>1. h \in Step /\ cmd(c) \in {"MS", "MA", "Ck", "CM"}
    <3>1. Proper(h) /\ h \in Step
      BY <1>1, Later
    <3> QED BY <1>1, <3>1 DEF Proper
  <2>2. x \in Step /\ Proper(x) /\ on("window", cmd(c)) = <<x>> /\ x.do = "window" /\ x.cmd = cmd(c)
        /\ ~Commanding(x) /\ Commanding(h) /\ (Slews(x) <=> cmd(c) \in {"MS", "MA"})
    BY <1>1, <2>1 DEF rec, on, Step, Does, Command, Gated, Ungated, Query, Proper, Commanding, Is, Slews
  <2>3. Replaces(h, x) /\ insert(c, <<x>>)
    <3> HIDE DEF h, x
    <3> QED BY <1>1, <1>4, <2>2 DEF Replaces, Asks, Slews, Syncs
  <2>4. fw.motion = "idle" /\ ~m.slewing
    <3>1. ~Asking(todo[c])
      <4>1. 1 \in 1 .. Len(todo[c]) /\ todo[c][1] = h
        BY <1>1
      <4> QED BY <2>2, <4>1 DEF Asking
    <3> QED BY <3>1 DEF SessionInv, Calm
  <2>5. /\ Quiet /\ Told(c) /\ Unique /\ Bytes /\ NoQuery /\ Bound(c)
        /\ \A i \in Unread : inbox[i].k \in Term => ~(i > 1)
        /\ tok[c].k \notin Term
        /\ \A i \in Unread : inbox[i].k \notin Refusal
    BY <1>2, <2>4, FromPlain DEF Plain
  <2>6. \/ /\ cmd(c) \in {"MS", "MA"} /\ inbox' = inbox
           /\ fw'.motion \in {"goto", "idle"} /\ fw'.wedged = fw.wedged /\ fw'.verdict = fw.verdict
        \/ /\ \E g \in Frame :
                 /\ inbox' = Append(inbox, g)
                 /\ g.k \in {"CM", "CMF"} \/ (cmd(c) \in {"MS", "MA"} /\ g.k = cmd(c))
           /\ fw'.motion = "idle" /\ fw'.wedged = fw.wedged /\ fw'.verdict = fw.verdict
    <3>1. CASE cmd(c) \in {"MS", "MA"}
      <4>1. \/ inbox' = Append(inbox, frame(cmd(c))) /\ fw' = fw
            \/ /\ inbox' = inbox
               /\ fw' = [fw EXCEPT !.motion = "goto", !.pos = "sky", !.astray = @ \/ ~fw.homed,
                         !.dest = destination(cmd(c)), !.mute = FALSE]
            \/ /\ inbox' = inbox
               /\ fw' = [fw EXCEPT !.tracking = TRUE, !.astray = @ \/ ~fw.homed, !.mute = TRUE]
        BY <1>4, <2>4, <3>1 DEF obey, answer, silent
      <4>2. frame(cmd(c)) \in Frame /\ frame(cmd(c)).k = cmd(c)
        BY <3>1 DEF frame, Frame, Kind, Refusal, Value
      <4> QED BY <2>4, <3>1, <4>1, <4>2 DEF TypeOK, FirmwareType
    <3>2. CASE cmd(c) \in {"Ck", "CM"}
      <4>1. \/ inbox' = Append(inbox, frame("CMF")) /\ fw' = fw
            \/ /\ inbox' = Append(inbox, frame("CM"))
               /\ fw' = [fw EXCEPT !.astray = @ \/ ~fw.homed]
        BY <1>4, <3>2 DEF obey, answer, silent, Refusal, Lone
      <4>2. /\ frame("CMF") \in Frame /\ frame("CMF").k = "CMF"
            /\ frame("CM") \in Frame /\ frame("CM").k = "CM"
        BY DEF frame, Frame, Kind, Token, Fault, Value
      <4> QED BY <2>4, <4>1, <4>2 DEF TypeOK, FirmwareType
    <3> QED BY <2>1, <3>1, <3>2
  <2> HIDE DEF x, h
  <2>7. /\ Shape(todo'[c]) /\ todo'[c] # <<>> /\ Head(todo'[c]) = x
        /\ \A d : at(c, d)' <=> x.do = d
        /\ cmd(c)' = cmd(c)
        /\ Mute(todo[c]) => Mute(todo'[c])
    <3>1. x.do \notin Askers /\ h = Head(todo[c])
      BY <2>2 DEF Askers, h
    <3> QED BY <1>1, <2>2, <2>3, <3>1, Instead, Zenon
  <2>8. /\ at(c, "window")' /\ ~Past(c)' /\ ~at(c, "match")' /\ (opening(c)' <=> cmd(c) \in {"MS", "MA"})
        /\ (opening(c)' => Starts(c)')
    BY <2>2, <2>7 DEF Past, sends, opening, Starts
  <2>9. Calm(c)'
    <3>1. fw'.motion = "goto" => Slews(x)
      BY <2>2, <2>6
    <3>2. todo'[c] \in Seq(Step)
      <4>1. todo' \in [Callers -> Seq(Step)]
        <5>1. <<x>> \in Seq(Step)
          BY <2>2
        <5> QED BY <1>1, <2>3, <5>1, InsertTyped
      <4> QED BY <4>1
    <3>3. Slews(x) => Asking(todo'[c])
      BY <2>2, <2>7, <3>2, SlewLast
    <3> QED BY <1>1, <2>4, <2>6, <3>1, <3>3 DEF Calm
  <2>10. Told(c)' /\ Quiet' /\ Latched(c)'
    <3>1. Moving' => cmd(c) \in {"MS", "MA"}
      BY <2>6 DEF Moving
    <3> QED BY <1>1, <2>5, <2>6, <2>8, <3>1 DEF Told, Quiet, Latched
  <2>11. Len(inbox) \in Nat /\ MaxInbox \in Nat /\ (inbox' = inbox \/ Len(inbox') = Len(inbox) + 1)
         /\ \A i \in Unread' : \/ i \in Unread /\ inbox'[i] = inbox[i]
                               \/ /\ i = Len(inbox') /\ inbox'[i].k \notin Term \cup Query \cup {"byte", "none"}
                                  /\ fw'.motion = "idle"
                                  /\ inbox'[i].k \in Refusal => cmd(c) \in {"MS", "MA"} /\ inbox'[i].k = cmd(c)
    <3>0. inbox \in Seq(Frame) /\ Len(inbox) \in Nat /\ MaxInbox \in Nat
      <4>1. inbox \in Seq(Frame)
        BY DEF TypeOK
      <4>2. Len(inbox) \in Nat
        BY <4>1
      <4>3. MaxInbox \in Nat
        BY RstAssumption
      <4> QED BY <4>1, <4>2, <4>3
    <3>1. CASE inbox' = inbox
      BY <3>0, <3>1 DEF Unread
    <3>2. ASSUME NEW g \in Frame, inbox' = Append(inbox, g), fw'.motion = "idle",
                 g.k \in {"CM", "CMF"} \/ (cmd(c) \in {"MS", "MA"} /\ g.k = cmd(c))
          PROVE  /\ Len(inbox') = Len(inbox) + 1
                 /\ \A i \in Unread' :
                      \/ i \in Unread /\ inbox'[i] = inbox[i]
                      \/ /\ i = Len(inbox') /\ inbox'[i].k \notin Term \cup Query \cup {"byte", "none"}
                         /\ fw'.motion = "idle"
                         /\ inbox'[i].k \in Refusal => cmd(c) \in {"MS", "MA"} /\ inbox'[i].k = cmd(c)
      <4>1. /\ Len(inbox') = Len(inbox) + 1 /\ \A i \in 1 .. Len(inbox) : inbox'[i] = inbox[i]
            /\ inbox'[Len(inbox) + 1] = g
        BY <3>0, <3>2, AppendParts
      <4>2. \A i \in Unread' : (i \in Unread /\ inbox'[i] = inbox[i]) \/ (i = Len(inbox') /\ inbox'[i] = g)
        BY <3>0, <4>1 DEF Unread
      <4>3. /\ g.k \notin Term \cup Query \cup {"byte", "none"}
            /\ g.k \in Refusal => cmd(c) \in {"MS", "MA"} /\ g.k = cmd(c)
        BY <3>2 DEF Term, Query, Refusal
      <4> QED BY <3>2, <4>1, <4>2, <4>3
    <3> QED BY <2>6, <3>0, <3>1, <3>2, Zenon
  <2>12. Unique' /\ Bytes' /\ Token1(c)'
    <3>1. Unique'
      BY <2>5, <2>11 DEF Unique
    <3>2. Bytes'
      BY <2>5, <2>6, <2>11 DEF Bytes
    <3> QED BY <1>1, <2>5, <3>1, <3>2 DEF Token1
  <2>13. Terms(c)'
    <3>1. ASSUME NEW i \in Unread', inbox'[i].k \in Term PROVE i = 1
      <4>1. i \in Unread /\ inbox[i].k \in Term
        BY <2>11, <3>1
      <4>2. i \in Nat /\ i >= 1 /\ ~(i > 1)
        BY <2>5, <2>11, <4>1 DEF Unread
      <4> QED BY <4>2
    <3>2. Moving' => opening(c)'
      BY <2>6, <2>8 DEF Moving
    <3> QED BY <3>1, <3>2 DEF Terms
  <2>14. Refused(c)'
    <3>1. ASSUME NEW i \in Unread', inbox'[i].k \in Refusal
          PROVE  ~Moving' /\ opening(c)' /\ Starts(c)' /\ i = Len(inbox') /\ inbox'[i].k = cmd(c)'
      BY <2>5, <2>7, <2>8, <2>11, <3>1 DEF Moving
    <3> QED BY <1>1, <2>4, <3>1, Zenon DEF Refused
  <2>15. Answer(c)' /\ PastOK(c)' /\ Seek(c)'
    <3>1. NoQuery'
      BY <2>5, <2>11 DEF NoQuery
    <3>2. ~at(c, "notHoming")' /\ ~at(c, "Get")' /\ ~at(c, "echo")' /\ ~at(c, "Blind")'
      BY <2>2, <2>7
    <3> QED BY <2>8, <3>1, <3>2, Zenon DEF Answer, PastOK, Seek, Past, sends
  <2>16. Bound(c)'
    <3>1. Mute(todo[c]) \/ Len(inbox) <= MaxInbox
      BY <1>2, <2>5, Zenon DEF Bound
    <3>2. Len(inbox) <= MaxInbox => Len(inbox') <= MaxInbox + 1
      BY <2>11
    <3> QED BY <2>7, <2>8, <3>1, <3>2, Zenon DEF Bound
  <2> QED BY <2>7, <2>9, <2>10, <2>12, <2>13, <2>14, <2>15, <2>16, Zenon DEF SessionInv
<1> QED BY <1>3, <1>4 DEF SlewNack
-----------------------------------------------------------------------------
(* What a read takes from the inbox: all that is there, or up to a frame. *)
Shift(k) ==
  /\ k \in Nat /\ k >= 1
  /\ inbox' \in Seq(Frame) /\ (inbox' = <<>> \/ Len(inbox') = Len(inbox) - k)
  /\ \A j \in Unread' : j + k \in Unread /\ inbox'[j] = inbox[j + k]
Takes(f, k) ==
  IF f = NoFrame THEN inbox' = <<>> /\ \A i \in Unread : inbox[i].k = "byte"
  ELSE /\ k \in Unread /\ inbox[k].k # "byte" /\ Len(inbox') = Len(inbox) - k
       /\ \A i \in Unread : i < k => inbox[i].k = "byte"
       /\ IF k = 1 THEN f = inbox[1] ELSE f = frame("junk")

(* The inbox and its bound. *)
LEMMA InboxLength ==
  ASSUME TypeOK
  PROVE  inbox \in Seq(Frame) /\ Len(inbox) \in Nat /\ MaxInbox \in Nat
<1>1. inbox \in Seq(Frame)
  BY DEF TypeOK
<1>2. Len(inbox) \in Nat
  BY <1>1
<1>3. MaxInbox \in Nat
  BY RstAssumption
<1> QED BY <1>1, <1>2, <1>3

(* A read takes from the front of the inbox. *)
LEMMA HearParts ==
  ASSUME TypeOK, Bytes, "lateReply" \notin Env, NEW f \in Heard, hear(f)
  PROVE  f \in Frame /\ \E k \in Nat : Shift(k) /\ Takes(f, k)
<1>0. inbox \in Seq(Frame) /\ Len(inbox) \in Nat
  BY InboxLength
<1>1. f = readUntil /\ inbox' = rest /\ f \in Frame
  BY ReadTyped DEF hear, late
<1>2. CASE frames = {}
  <2>1. inbox' = <<>> /\ f = NoFrame
    BY <1>1, <1>2 DEF readUntil, rest
  <2>2. \A i \in Unread : inbox[i].k = "byte"
    BY <1>0, <1>2 DEF frames, Unread
  <2>3. Shift(1)
    BY <2>1 DEF Shift, Unread
  <2> QED BY <1>1, <2>1, <2>2, <2>3 DEF Takes
<1>3. CASE frames # {}
  <2> DEFINE k == Min(frames)
  <2>1. frames \subseteq 1 .. Len(inbox)
    <3> HIDE DEF Frame
    <3> QED BY <1>0 DEF frames
  <2>2. \E n \in frames : \A j \in frames : n <= j
    <3>1. frames \subseteq Nat
      BY <2>1
    <3> QED BY <1>3, <3>1, Least, Zenon
  <2>3. k \in frames /\ k \in 1 .. Len(inbox) /\ \A j \in frames : k <= j
    BY <2>1, <2>2 DEF Min
  <2>4. rest = SubSeq(inbox, k + 1, Len(inbox))
    BY <1>3 DEF rest
  <2>5. readUntil = IF k = 1 THEN Head(inbox) ELSE frame("junk")
    BY <1>3 DEF readUntil
  <2> HIDE DEF k
  <2>6. /\ k \in Unread /\ k \in Nat /\ k >= 1 /\ inbox[k].k # "byte"
        /\ \A i \in Unread : i < k => inbox[i].k = "byte"
    <3>1. k \in 1 .. Len(inbox) /\ inbox[k].k # "byte"
      BY <2>3 DEF frames
    <3>2. ASSUME NEW i \in 1 .. Len(inbox), i < k PROVE inbox[i].k = "byte"
      <4>1. i \notin frames
        BY <1>0, <2>3, <3>2
      <4> QED BY <1>0, <4>1 DEF frames
    <3> QED BY <1>0, <3>1, <3>2 DEF Unread
  <2>7. /\ inbox' \in Seq(Frame) /\ Len(inbox') = Len(inbox) - k
        /\ \A j \in Unread' : j + k \in Unread /\ inbox'[j] = inbox[j + k]
    <3>1. /\ rest \in Seq(Frame)
          /\ \A j \in DOMAIN rest : j + k \in DOMAIN inbox /\ rest[j] = inbox[j + k]
      BY <1>0, <2>3, <2>4, SuffixTyped, Zenon
    <3>2. Len(SubSeq(inbox, k + 1, Len(inbox))) = Len(inbox) - k
      BY <1>0, <2>3
    <3>3. DOMAIN rest = 1 .. Len(rest) /\ DOMAIN inbox = 1 .. Len(inbox)
      BY <1>0, <3>1
    <3> QED BY <1>1, <2>4, <3>1, <3>2, <3>3, Zenon DEF Unread
  <2>8. f = IF k = 1 THEN inbox[1] ELSE frame("junk")
    <3>1. Head(inbox) = inbox[1]
      BY <1>0, <2>6 DEF Unread
    <3> QED BY <1>1, <2>5, <3>1
  <2>9. f # NoFrame
    <3>1. f.k # "none"
      <4>1. CASE k = 1
        BY <2>6, <2>8, <4>1 DEF Bytes
      <4>2. CASE k # 1
        <5>1. f = frame("junk")
          BY <2>8, <4>2
        <5> QED BY <5>1 DEF frame
      <4> QED BY <4>1, <4>2
    <3>2. NoFrame.k = "none"
      BY DEF NoFrame
    <3> QED BY <3>1, <3>2, Zenon
  <2>10. Shift(k)
    BY <2>6, <2>7 DEF Shift
  <2>11. Takes(f, k)
    BY <2>6, <2>7, <2>8, <2>9 DEF Takes
  <2> QED BY <1>1, <2>6, <2>10, <2>11
<1> QED BY <1>2, <1>3

(* What is left was there. *)
LEMMA Left ==
  ASSUME TypeOK, NEW k, Shift(k), fw' = fw
  PROVE  /\ Unique => Unique'
         /\ Bytes => Bytes'
         /\ NoQuery => NoQuery'
         /\ NoTerm => NoTerm'
         /\ Len(inbox) \in Nat /\ Len(inbox') \in Nat /\ (inbox' = <<>> \/ Len(inbox') < Len(inbox))
         /\ \A j \in Unread' : j \in Nat /\ j >= 1 /\ j + k \in Unread /\ j + k > 1 /\ inbox'[j] = inbox[j + k]
         /\ inbox' = <<>> => Unread' = {}
<1>1. /\ k \in Nat /\ k >= 1
      /\ inbox' \in Seq(Frame) /\ (inbox' = <<>> \/ Len(inbox') = Len(inbox) - k)
      /\ \A j \in Unread' : j + k \in Unread /\ inbox'[j] = inbox[j + k]
  BY DEF Shift
<1>2. Len(inbox) \in Nat
  BY InboxLength
<1>3. Len(inbox') \in Nat
  BY <1>1
<1>4. \A j \in Unread' : j \in Nat /\ j >= 1 /\ j + k > 1
  BY <1>1, <1>3 DEF Unread
<1>5. Unique => Unique'
  <2> SUFFICES ASSUME Unique, NEW i \in Unread', NEW j \in Unread', inbox'[i].k \in Term, inbox'[j].k \in Term
               PROVE  i = j
    BY DEF Unique
  <2>1. i + k = j + k
    BY <1>1, Zenon DEF Unique
  <2> QED BY <1>1, <1>4, <2>1
<1>6. (Bytes => Bytes') /\ (NoQuery => NoQuery') /\ (NoTerm => NoTerm')
  BY <1>1 DEF Bytes, NoQuery, NoTerm
<1>7. inbox' = <<>> => Unread' = {}
  BY DEF Unread
<1>8. inbox' = <<>> \/ Len(inbox') < Len(inbox)
  BY <1>1, <1>2, <1>3
<1> QED BY <1>1, <1>2, <1>3, <1>4, <1>5, <1>6, <1>7, <1>8, Zenon

(* A read that concerns nothing the driver waits for. *)
LEMMA HearPlain ==
  ASSUME TypeOK, NEW c \in Callers, NEW s, at(c, s), SessionInv(c), ~Busy(c), s # "accepted",
         NEW k, Shift(k), fw' = fw, m' = m, tok' = tok, pulses' = pulses, told' = told,
         Shape(todo'[c]), Asking(todo[c]) => Asking(todo'[c]), Mute(todo[c]) => Mute(todo'[c])
  PROVE  Plain(c)'
<1>1. /\ Quiet /\ Calm(c) /\ Told(c) /\ Unique /\ Bytes /\ NoQuery /\ Bound(c)
      /\ Moving => m.slewing
      /\ \A i \in Unread : inbox[i].k \in Term => ~Moving /\ (i > 1 => m.slewing)
      /\ tok[c].k \notin Term
      /\ \A i \in Unread : inbox[i].k \in Refusal => ~Moving /\ m.slewing /\ NoTerm
  BY FromPlain, Zenon DEF Plain
<1>2. /\ Unique' /\ Bytes' /\ NoQuery' /\ (NoTerm => NoTerm')
      /\ Len(inbox) \in Nat /\ Len(inbox') \in Nat /\ (inbox' = <<>> \/ Len(inbox') < Len(inbox))
      /\ \A j \in Unread' : j + k \in Unread /\ j + k > 1 /\ inbox'[j] = inbox[j + k]
  BY <1>1, Left, Zenon
<1>3. Quiet' /\ (Moving' <=> Moving) /\ Calm(c)'
  BY <1>1, Zenon DEF Quiet, Moving, Calm
<1>4. Told(c)'
  BY <1>1, Zenon DEF Told, at
<1>5. Bound(c)'
  <2>1. Len(inbox) <= MaxInbox + 1 => Len(inbox') <= MaxInbox
    <3>1. MaxInbox \in Nat
      BY InboxLength
    <3>2. inbox' = <<>> => Len(inbox') = 0
      OBVIOUS
    <3> QED BY <1>2, <3>1, <3>2
  <2>2. Mute(todo[c]) \/ Len(inbox) <= MaxInbox + 1
    <3>1. ~at(c, "accepted")
      BY DEF at
    <3>2. Len(inbox) <= MaxInbox => Len(inbox) <= MaxInbox + 1
      BY <1>2, InboxLength
    <3> QED BY <1>1, <3>1, <3>2 DEF Bound
  <2> QED BY <2>1, <2>2 DEF Bound
<1>6. \A i \in Unread' : inbox'[i].k \in Term => ~Moving /\ m.slewing
  BY <1>1, <1>2, Zenon
<1>7. \A i \in Unread' : inbox'[i].k \in Refusal => ~Moving /\ m.slewing /\ NoTerm'
  BY <1>1, <1>2, Zenon
<1> QED BY <1>1, <1>2, <1>3, <1>4, <1>5, <1>6, <1>7, Zenon DEF Plain

(* A frame is read that the driver is to take note of. *)
LEMMA TokenSession ==
  ASSUME TypeOK, NEW c \in Callers, NEW s, at(c, s), s \in {"Await", "window"}, SessionInv(c),
         NEW f, NEW k, Shift(k), Takes(f, k), f # NoFrame, insert(c, step("applyToken")),
         tok' = [tok EXCEPT ![c] = f], fw' = fw, m' = m, pulses' = pulses, told' = told
  PROVE  SessionInv(c)'
<1> DEFINE x == rec("applyToken", "")
           h == Head(todo[c])
<1>1. /\ Shape(todo[c]) /\ todo[c] \in Seq(Step) /\ todo[c] # <<>> /\ h.do = s /\ h.cmd = cmd(c)
  BY HeadTyped DEF SessionInv, at, cmd
<1>2. x \in Step /\ Proper(x) /\ step("applyToken") = <<x>> /\ x.do = "applyToken" /\ ~Commanding(x)
  BY DEF rec, step, Step, Does, Command, Gated, Ungated, Query, Proper, Commanding, Is
<1>3. Replaces(h, x) /\ insert(c, <<x>>) /\ x.do \notin Askers
  <2> HIDE DEF h, x
  <2> QED BY <1>1, <1>2 DEF Replaces, Asks, Slews, Syncs, Askers
<1>4. /\ Shape(todo'[c]) /\ todo'[c] # <<>>
      /\ \A d : at(c, d)' <=> x.do = d
      /\ \A d : followedBy(c, d)' <=> followedBy(c, d)
      /\ Asking(todo[c]) => Asking(todo'[c])
      /\ Mute(todo[c]) => Mute(todo'[c])
  <2> HIDE DEF x
  <2> QED BY <1>1, <1>2, <1>3, Instead, Zenon
<1>5. Slews(h) => followedBy(c, "slewing")
  <2>1. Slews(h) => Tail(todo[c]) # <<>> /\ Head(Tail(todo[c])).do = "slewing"
    BY <1>1, Later
  <2> QED BY <2>1 DEF followedBy
<1> HIDE DEF x
<1>6. /\ Quiet /\ Calm(c) /\ Latched(c) /\ Told(c) /\ Unique /\ Terms(c) /\ Token1(c)
      /\ Refused(c) /\ Bytes /\ Answer(c) /\ Bound(c)
  BY DEF SessionInv
<1>7. /\ at(c, "applyToken")' /\ ~at(c, "window")' /\ ~at(c, "slewing")' /\ ~at(c, "match")' /\ ~opening(c)' /\ ~Past(c)'
      /\ ~at(c, "notHoming")' /\ ~at(c, "Get")' /\ ~at(c, "echo")' /\ ~at(c, "Blind")'
      /\ (Starts(c)' <=> followedBy(c, "slewing"))
  BY <1>2, <1>4 DEF opening, Past, sends, Starts
<1>8. (Starts(c) <=> opening(c)) /\ (Starts(c) => Starts(c)') /\ ~at(c, "applyToken") /\ ~at(c, "match") /\ ~at(c, "accepted")
  <2>1. ~at(c, "applyToken") /\ ~at(c, "slewing") /\ ~at(c, "match") /\ ~at(c, "accepted")
    BY DEF at
  <2>2. opening(c) => Slews(h)
    BY <1>1 DEF opening, Slews, at
  <2> QED BY <1>5, <1>7, <2>1, <2>2 DEF Starts
<1>9. NoQuery /\ Unique' /\ Bytes' /\ NoQuery' /\ (NoTerm => NoTerm')
      /\ Len(inbox) \in Nat /\ Len(inbox') \in Nat /\ (inbox' = <<>> \/ Len(inbox') < Len(inbox))
      /\ \A j \in Unread' : j \in Nat /\ j + k \in Unread /\ j + k > 1 /\ inbox'[j] = inbox[j + k]
  <2>1. NoQuery
    BY <1>6, <1>8 DEF Answer
  <2> QED BY <1>6, <2>1, Left, Zenon
<1>10. Quiet' /\ (Moving' <=> Moving) /\ Calm(c)' /\ Latched(c)'
  BY <1>4, <1>6, <1>8, Zenon DEF Quiet, Moving, Calm, Latched
<1>11. Told(c)'
  BY <1>6, Zenon DEF Told, at
<1>12. tok'[c] = f
  BY DEF TypeOK
<1>13. f.k \in Term => k = 1 /\ 1 \in Unread /\ f = inbox[1]
  <2>1. IF k = 1 THEN f = inbox[1] ELSE f = frame("junk")
    BY DEF Takes
  <2>2. frame("junk").k \notin Term
    BY DEF frame, Term
  <2>3. k \in Unread
    BY DEF Takes
  <2> QED BY <2>1, <2>2, <2>3, Zenon
<1>14. ASSUME NEW j \in Unread', inbox'[j].k \in Term PROVE ~Moving /\ m.slewing
  <2>1. j + k \in Unread /\ j + k > 1 /\ inbox[j + k].k \in Term
    BY <1>9, <1>14
  <2>2. j + k # 1
    BY <1>9, <2>1
  <2> QED BY <1>6, <2>1, <2>2, Zenon DEF Terms
<1>15. Terms(c)'
  BY <1>10, <1>14, Zenon DEF Terms
<1>16. Token1(c)'
  <2>1. ASSUME f.k \in Term PROVE NoTerm'
    <3>1. ASSUME NEW j \in Unread', inbox'[j].k \in Term PROVE FALSE
      <4>1. j + k \in Unread /\ inbox[j + k].k \in Term /\ j + k > 1
        BY <1>9, <3>1
      <4>2. j + k = 1
        BY <1>6, <1>13, <2>1, <4>1, Zenon DEF Unique
      <4> QED BY <1>9, <4>1, <4>2
    <3> QED BY <3>1 DEF NoTerm
  <2>2. f.k \in Term => (Moving => Starts(c)')
    BY <1>6, <1>8, <1>13, Zenon DEF Terms
  <2> QED BY <1>7, <1>10, <1>12, <2>1, <2>2, Zenon DEF Token1
<1>17. Refused(c)'
  <2>1. ASSUME NEW j \in Unread', inbox'[j].k \in Refusal
        PROVE  ~Moving /\ (m.slewing \/ Starts(c)') /\ NoTerm' /\ (f.k \notin Term \/ Starts(c)')
    <3>1. /\ ~Moving /\ (m.slewing \/ Starts(c))
          /\ \/ opening(c)
             \/ ~at(c, "window") /\ NoTerm
      BY <1>6, <1>9, <2>1, Zenon DEF Refused
    <3>2. CASE opening(c)
      <4>1. ~m.slewing
        BY <1>6, <3>2 DEF Refused, opening
      <4>2. NoTerm'
        BY <1>14, <4>1, Zenon DEF NoTerm
      <4> QED BY <1>8, <3>1, <3>2, <4>2, Zenon
    <3>3. CASE NoTerm
      <4>1. f.k \notin Term
        BY <1>13, <3>3 DEF NoTerm
      <4> QED BY <1>8, <1>9, <3>1, <3>3, <4>1, Zenon
    <3> QED BY <3>1, <3>2, <3>3
  <2> QED BY <1>7, <1>10, <1>12, <2>1, Zenon DEF Refused
<1>18. Answer(c)' /\ PastOK(c)' /\ Seek(c)'
  BY <1>7, <1>9, Zenon DEF Answer, PastOK, Seek, Past, sends
<1>19. Bound(c)'
  <2>1. Len(inbox) <= MaxInbox + 1 => Len(inbox') <= MaxInbox
    <3>1. MaxInbox \in Nat
      BY InboxLength
    <3>2. inbox' = <<>> => Len(inbox') = 0
      OBVIOUS
    <3> QED BY <1>9, <3>1, <3>2
  <2>2. Mute(todo[c]) \/ Len(inbox) <= MaxInbox + 1
    <3>1. Len(inbox) <= MaxInbox => Len(inbox) <= MaxInbox + 1
      BY <1>9, InboxLength
    <3> QED BY <1>6, <1>8, <3>1 DEF Bound
  <2> QED BY <1>4, <2>1, <2>2 DEF Bound
<1> QED BY <1>4, <1>9, <1>10, <1>11, <1>15, <1>16, <1>17, <1>18, <1>19, Zenon DEF SessionInv

(* drainToken's read keeps the invariant. *)
LEMMA AwaitSession ==
  ASSUME TypeOK, NEW c \in Callers, Lone(c), SessionInv(c), Await(c)
  PROVE  SessionInv(c)'
<1>1. /\ at(c, "Await") /\ fw' = fw /\ m' = m /\ pulses' = pulses /\ told' = told
      /\ "lateReply" \notin Env /\ Shape(todo[c]) /\ Bytes
  BY DEF Await, Lone, SessionInv
<1>2. PICK f \in Heard :
        /\ hear(f)
        /\ \/ f = NoFrame /\ proceed(c) /\ tok' = tok
           \/ f # NoFrame /\ tok' = [tok EXCEPT ![c] = f] /\ insert(c, step("applyToken"))
  BY DEF Await
<1>3. PICK k \in Nat : Shift(k) /\ Takes(f, k)
  BY <1>1, <1>2, HearParts
<1>4. CASE f = NoFrame /\ proceed(c) /\ tok' = tok
  <2>1. ~Busy(c) /\ ~sends(c, "Q") /\ ~sends(c, "Ch")
    BY <1>1 DEF Busy, sends, at
  <2>2. ~Special(c)'
    BY <1>1, <1>4, <2>1, Resume
  <2>3. Shape(todo'[c]) /\ (Asking(todo[c]) => Asking(todo'[c])) /\ (Mute(todo[c]) => Mute(todo'[c]))
    BY <1>1, <1>4, Onward, Zenon
  <2>4. Plain(c)'
    BY <1>1, <1>3, <1>4, <2>1, <2>3, HearPlain
  <2> QED BY <2>2, <2>4, ToPlain
<1>5. CASE f # NoFrame /\ tok' = [tok EXCEPT ![c] = f] /\ insert(c, step("applyToken"))
  BY <1>1, <1>3, <1>5, TokenSession
<1> QED BY <1>2, <1>4, <1>5

(* The read of an echo keeps the invariant. *)
LEMMA EchoSession ==
  ASSUME TypeOK, NEW c \in Callers, Lone(c), SessionInv(c), echo(c)
  PROVE  SessionInv(c)'
<1>1. /\ at(c, "echo") /\ fw' = fw /\ m' = m /\ pulses' = pulses /\ told' = told /\ tok' = tok /\ proceed(c)
      /\ "lateReply" \notin Env /\ Shape(todo[c]) /\ Bytes /\ Seek(c)
  BY DEF echo, Lone, SessionInv
<1>2. PICK f \in Heard : hear(f)
  BY DEF echo
<1>3. PICK k \in Nat : Shift(k) /\ Takes(f, k)
  BY <1>1, <1>2, HearParts
<1>4. /\ ~Busy(c) /\ ~sends(c, "Q") /\ ~sends(c, "Ch") /\ Head(todo[c]).do = "echo"
      /\ ~Slews(Head(todo[c])) /\ ~Asks(Head(todo[c]), "AH")
  BY <1>1 DEF Busy, sends, at, Slews, Asks
<1>5. Shape(todo'[c]) /\ (Asking(todo[c]) => Asking(todo'[c])) /\ (Mute(todo[c]) => Mute(todo'[c]))
  BY <1>1, Onward, Zenon
<1>6. Plain(c)'
  BY <1>1, <1>3, <1>4, <1>5, HearPlain
<1>7. CASE ~beforeCh(c)
  <2>1. ~Special(c)'
    BY <1>1, <1>4, <1>7, Resume
  <2> QED BY <1>6, <2>1, ToPlain
<1>8. CASE beforeCh(c)
  <2>1. Len(inbox) = 1 /\ inbox[1].k = "CT"
    BY <1>1, <1>8 DEF Seek
  <2>2. inbox' = <<>>
    <3>1. 1 \in Unread /\ inbox[1].k # "byte"
      BY <2>1 DEF Unread
    <3>2. f # NoFrame
      BY <1>3, <3>1 DEF Takes
    <3>3. k \in Unread /\ Len(inbox') = Len(inbox) - k
      BY <1>3, <3>2 DEF Takes
    <3>4. k = 1
      BY <2>1, <3>3 DEF Unread
    <3>5. inbox' \in Seq(Frame)
      BY <1>3 DEF Shift
    <3>6. Len(inbox') = 0
      BY <2>1, <3>3, <3>4
    <3> QED BY <3>5, <3>6
  <2>3. /\ ~at(c, "window")' /\ ~at(c, "match")' /\ ~at(c, "applyToken")' /\ ~at(c, "echo")' /\ ~at(c, "slewing")'
        /\ ~at(c, "refuseWhileHoming")' /\ ~sends(c, "Q")' /\ ~at(c, "still")' /\ ~at(c, "notHoming")'
    <3>1. /\ \A d \in Reading : ~at(c, d)'
          /\ ~at(c, "refuseWhileHoming")' /\ ~at(c, "notHoming")' /\ ~sends(c, "Q")' /\ ~at(c, "still")' /\ ~at(c, "slewing")'
      BY <1>1, <1>4, Onward
    <3> QED BY <3>1, Zenon DEF Reading
  <2>4. ~Busy(c)' /\ PastOK(c)' /\ Seek(c)'
    BY <2>2, <2>3, Zenon DEF Busy, PastOK, Seek, Past
  <2> QED BY <1>6, <2>4, ToNear
<1> QED BY <1>7, <1>8

(* A caller that returns, with nothing left to apply. *)
LEMMA Returned ==
  ASSUME TypeOK, NEW c \in Callers, giveUp(c), Quiet', Unique', Bytes', NoQuery', ~Moving, fw' = fw,
         told[c] # "idle", told' = told, tok[c].k \notin Term, tok' = tok,
         \A j \in Unread' : inbox'[j].k \notin Term \cup Refusal
  PROVE  SessionInv(c)'
<1>1. todo'[c] = <<>>
  BY DEF giveUp, TypeOK
<1>2. Shape(todo'[c]) /\ Asking(todo'[c]) /\ Mute(todo'[c])
  BY <1>1 DEF Shape, Asking, Mute
<1>3. \A d : ~at(c, d)'
  BY <1>1 DEF at
<1>4. ~Special(c)'
  BY <1>3, Zenon DEF Special, Busy, Past, sends
<1>5. Calm(c)' /\ Told(c)' /\ Bound(c)' /\ ~Moving'
  BY <1>2, Zenon DEF Calm, Told, Bound, Moving
<1>6. \A j \in Unread' : inbox'[j].k \notin Term /\ inbox'[j].k \notin Refusal
  OBVIOUS
<1>7. Plain(c)'
  BY <1>2, <1>5, <1>6, Zenon DEF Plain
<1> QED BY <1>4, <1>7, ToPlain

(* The read after a goto or sync keeps the invariant. *)
LEMMA WindowSession ==
  ASSUME TypeOK, NEW c \in Callers, Lone(c), SessionInv(c), window(c)
  PROVE  SessionInv(c)'
<1> DEFINE h == Head(todo[c])
<1>1. /\ at(c, "window") /\ fw' = fw /\ m' = m /\ pulses' = pulses /\ told' = told /\ val' = val
      /\ "lateReply" \notin Env
  BY DEF window, Lone
<1>2. PICK f \in Heard :
        /\ hear(f)
        /\ \/ f = NoFrame /\ proceed(c) /\ tok' = tok
           \/ f.k \in settles(cmd(c)) /\ giveUp(c) /\ tok' = tok
           \/ f # NoFrame /\ tok' = [tok EXCEPT ![c] = f] /\ insert(c, step("applyToken"))
  BY DEF window
<1>3. /\ Quiet /\ Calm(c) /\ Latched(c) /\ Told(c) /\ Unique /\ Terms(c) /\ Token1(c)
      /\ Refused(c) /\ Bytes /\ Answer(c) /\ Bound(c) /\ Shape(todo[c])
  BY DEF SessionInv
<1>4. PICK k \in Nat : Shift(k) /\ Takes(f, k)
  BY <1>1, <1>2, <1>3, HearParts
<1>5. /\ todo[c] \in Seq(Step) /\ todo[c] # <<>> /\ h.do = "window" /\ h.cmd = cmd(c)
      /\ cmd(c) \in {"MS", "MA", "Ck", "CM"} /\ ~Asks(h, "AH")
      /\ (opening(c) <=> Slews(h))
  <2>1. todo[c] \in Seq(Step) /\ todo[c] # <<>> /\ h.do = "window" /\ h.cmd = cmd(c)
    BY <1>1, HeadTyped DEF at, cmd
  <2>2. Proper(h)
    BY <1>3, <2>1, Later
  <2>3. cmd(c) \in {"MS", "MA", "Ck", "CM"}
    BY <2>1, <2>2 DEF Proper
  <2> QED BY <1>1, <2>1, <2>3 DEF opening, Slews, Asks
<1>6. /\ ~m.slewing /\ (Starts(c) <=> opening(c)) /\ ~at(c, "match") /\ ~at(c, "accepted") /\ NoQuery
      /\ tok[c].k \notin Term /\ told[c] # "idle" /\ (Moving => opening(c)) /\ ~sends(c, "Q") /\ ~sends(c, "Ch")
  <2>1. ~at(c, "applyToken") /\ ~at(c, "slewing") /\ ~at(c, "match") /\ ~at(c, "accepted") /\ ~at(c, "Blind")
    BY <1>1 DEF at
  <2>2. ~m.slewing
    BY <1>1, <1>3 DEF Refused
  <2>3. Starts(c) <=> opening(c)
    BY <2>1 DEF Starts
  <2> QED BY <1>3, <1>5, <2>1, <2>2, <2>3 DEF Answer, Token1, Told, Latched, sends
<1>7. /\ Unique' /\ Bytes' /\ NoQuery' /\ Quiet' /\ (Moving' <=> Moving)
      /\ \A j \in Unread' : j \in Nat /\ j + k \in Unread /\ j + k > 1 /\ inbox'[j] = inbox[j + k]
  <2>1. /\ Unique' /\ Bytes' /\ NoQuery'
        /\ \A j \in Unread' : j \in Nat /\ j + k \in Unread /\ j + k > 1 /\ inbox'[j] = inbox[j + k]
    BY <1>1, <1>3, <1>4, <1>6, Left, Zenon
  <2> QED BY <1>1, <1>3, <2>1, Zenon DEF Quiet, Moving
<1> HIDE DEF h
<1>8. CASE f = NoFrame /\ proceed(c) /\ tok' = tok
  <2>1. inbox' = <<>>
    BY <1>4, <1>8 DEF Takes
  <2>2. Unread' = {} /\ Len(inbox') = 0
    BY <2>1 DEF Unread
  <2>3. /\ Shape(todo'[c]) /\ (Asking(todo[c]) => Asking(todo'[c])) /\ todo'[c] = Tail(todo[c])
        /\ \A d \in Reading : ~at(c, d)'
        /\ ~at(c, "refuseWhileHoming")' /\ ~sends(c, "Q")' /\ ~at(c, "still")'
    BY <1>1, <1>3, <1>5, <1>6, <1>8, Onward DEF h
  <2>4. /\ ~at(c, "window")' /\ ~at(c, "match")' /\ ~at(c, "applyToken")' /\ ~at(c, "echo")' /\ ~opening(c)' /\ ~Past(c)'
    BY <2>3, Zenon DEF Reading, opening, Past
  <2>5. opening(c) => Starts(c)'
    <3>1. Slews(h) => Tail(todo[c]) # <<>> /\ Head(Tail(todo[c])).do = "slewing"
      BY <1>3, <1>5, Later DEF h
    <3> QED BY <1>5, <2>3, <3>1, Zenon DEF Starts, at
  <2>6. Calm(c)' /\ Latched(c)' /\ Told(c)'
    BY <1>1, <1>3, <1>6, <1>7, <2>3, <2>5, Zenon DEF Calm, Latched, Told
  <2>7. Terms(c)' /\ Token1(c)' /\ Refused(c)'
    BY <1>6, <1>8, <2>2, <2>4, Zenon DEF Terms, Token1, Refused
  <2>8. PastOK(c)' /\ Seek(c)' /\ Answer(c)'
    BY <1>7, <2>1, <2>3, <2>4, Zenon DEF PastOK, Seek, Answer
  <2>9. Bound(c)'
    <3>1. Len(inbox') <= MaxInbox
      BY <2>2, InboxLength
    <3> QED BY <3>1 DEF Bound
  <2> QED BY <1>7, <2>3, <2>6, <2>7, <2>8, <2>9, Zenon DEF SessionInv
<1>9. CASE f.k \in settles(cmd(c)) /\ giveUp(c) /\ tok' = tok
  <2>1. f # NoFrame /\ k = 1 /\ 1 \in Unread /\ f = inbox[1] /\ Len(inbox') = Len(inbox) - k
    <3>1. NoFrame.k \notin settles(cmd(c)) /\ frame("junk").k \notin settles(cmd(c))
      BY <1>5 DEF NoFrame, frame, settles
    <3>2. f # NoFrame
      BY <1>9, <3>1, Zenon
    <3>3. /\ k \in Unread /\ Len(inbox') = Len(inbox) - k
          /\ IF k = 1 THEN f = inbox[1] ELSE f = frame("junk")
      BY <1>4, <3>2 DEF Takes
    <3>4. k = 1 /\ f = inbox[1]
      BY <1>9, <3>1, <3>3, Zenon
    <3> QED BY <3>2, <3>3, <3>4
  <2>2. CASE opening(c)
    <3>1. inbox[1].k \in Refusal
      BY <1>9, <2>1, <2>2 DEF opening, settles, Refusal
    <3>2. ~Moving /\ 1 = Len(inbox)
      BY <1>3, <2>1, <2>2, <3>1 DEF Refused, opening
    <3>3. Len(inbox') = 0
      <4>1. Len(inbox') = 1 - 1
        BY <2>1, <3>2, Zenon
      <4> QED BY <4>1
    <3>4. Unread' = {}
      BY <3>3 DEF Unread
    <3>5. ~Moving /\ \A j \in Unread' : inbox'[j].k \notin Term \cup Refusal
      BY <3>2, <3>4
    <3> QED BY <1>1, <1>3, <1>6, <1>7, <1>9, <3>5, Returned
  <2>3. CASE ~opening(c)
    <3>1. ~Moving
      BY <1>6, <2>3
    <3>2. ASSUME NEW j \in Unread' PROVE inbox'[j].k \notin Term \cup Refusal
      <4>1. j + k \in Unread /\ j + k > 1 /\ inbox'[j] = inbox[j + k]
        BY <1>7
      <4>2. inbox[j + k].k \notin Term
        BY <1>3, <1>6, <4>1, Zenon DEF Terms
      <4>3. inbox[j + k].k \notin Refusal
        BY <1>1, <1>3, <2>3, <4>1, Zenon DEF Refused
      <4> QED BY <4>1, <4>2, <4>3
    <3> QED BY <1>1, <1>3, <1>6, <1>7, <1>9, <3>1, <3>2, Returned
  <2> QED BY <2>2, <2>3
<1>10. CASE f # NoFrame /\ tok' = [tok EXCEPT ![c] = f] /\ insert(c, step("applyToken"))
  BY <1>1, <1>4, <1>10, TokenSession
<1> QED BY <1>2, <1>8, <1>9, <1>10

(* The verdict on a command is read, or the first byte of something else. *)
LEMMA ReadByteSession ==
  ASSUME TypeOK, NEW c \in Callers, Lone(c), SessionInv(c), readByte(c)
  PROVE  SessionInv(c)'
<1> DEFINE h == Head(todo[c])
<1>1. /\ at(c, "byte") /\ fw' = fw /\ m' = m /\ pulses' = pulses /\ told' = told /\ tok' = tok /\ proceed(c)
      /\ Shape(todo[c]) /\ val \in [Callers -> Value]
  BY DEF readByte, SessionInv, TypeOK
<1>2. \/ inbox = <<>> /\ inbox' = inbox
      \/ inbox # <<>> /\ inbox' = Tail(inbox)
      \/ inbox # <<>> /\ Head(inbox).k # "byte" /\ val'[c] = "0" /\ inbox' = [inbox EXCEPT ![1] = cut(@)]
  BY <1>1 DEF readByte, late, Lone
<1>3. ~Busy(c) /\ ~sends(c, "Q") /\ ~sends(c, "Ch") /\ ~at(c, "accepted") /\ h.do = "byte"
      /\ todo[c] \in Seq(Step) /\ todo[c] # <<>>
  BY <1>1, HeadTyped DEF Busy, sends, at
<1>4. /\ Shape(todo'[c]) /\ (Asking(todo[c]) => Asking(todo'[c])) /\ (Mute(todo[c]) => Mute(todo'[c]))
      /\ todo'[c] # <<>> => at(c, "accepted")'
  BY <1>1, Onward
<1>5. ~Special(c)'
  BY <1>1, <1>3, Resume
<1>6. /\ Quiet /\ Calm(c) /\ Told(c) /\ Unique /\ Bytes /\ NoQuery
      /\ \A i \in Unread : inbox[i].k \in Term => ~Moving /\ (i > 1 => m.slewing)
      /\ tok[c].k \notin Term
      /\ \A i \in Unread : inbox[i].k \in Refusal => ~Moving /\ m.slewing /\ NoTerm
  BY <1>3, FromPlain, Zenon DEF Plain
<1>7. fw.motion = "idle" /\ ~m.slewing /\ ~Moving
  <2>1. ~Asking(todo[c])
    <3>1. 1 \in 1 .. Len(todo[c]) /\ todo[c][1] = h
      BY <1>3
    <3>2. Commanding(h)
      BY <1>3 DEF Commanding
    <3> QED BY <3>1, <3>2 DEF Asking
  <2> QED BY <1>6, <2>1 DEF Calm, Moving
<1>8. inbox \in Seq(Frame) /\ Len(inbox) \in Nat /\ MaxInbox \in Nat
  BY InboxLength
<1>9. Quiet' /\ Calm(c)' /\ Told(c)' /\ ~Moving' /\ fw'.motion # "home"
  <2>1. Quiet' /\ ~Moving' /\ fw'.motion # "home"
    BY <1>1, <1>6, <1>7 DEF Quiet, Moving
  <2> QED BY <1>1, <1>3, <1>4, <1>6, <2>1, Zenon DEF Calm, Told
<1> HIDE DEF h
<1>10. CASE inbox = <<>> /\ inbox' = inbox
  <2>1. Shift(1)
    BY <1>8, <1>10 DEF Shift, Unread
  <2>2. Plain(c)'
    BY <1>1, <1>3, <1>4, <2>1, HearPlain
  <2> QED BY <1>5, <2>2, ToPlain
<1>11. CASE inbox # <<>> /\ inbox' = Tail(inbox)
  <2>1. /\ inbox' \in Seq(Frame) /\ Len(inbox') = Len(inbox) - 1
        /\ \A i \in 1 .. Len(inbox') : inbox'[i] = inbox[i + 1]
    BY <1>8, <1>11, TailParts
  <2>2. Shift(1)
    BY <1>8, <2>1 DEF Shift, Unread
  <2>3. Plain(c)'
    BY <1>1, <1>3, <1>4, <2>2, HearPlain
  <2> QED BY <1>5, <2>3, ToPlain
<1>12. CASE inbox # <<>> /\ Head(inbox).k # "byte" /\ val'[c] = "0" /\ inbox' = [inbox EXCEPT ![1] = cut(@)]
  <2>1. /\ 1 \in Unread /\ Head(inbox) = inbox[1] /\ Unread' = Unread /\ inbox'[1] = cut(inbox[1]) /\ inbox[1] \in Frame
        /\ \A i \in Unread : i # 1 => inbox'[i] = inbox[i]
    BY <1>8, <1>12 DEF Unread
  <2>2. ASSUME NEW g \in Frame PROVE cut(g).k = "junk" \/ cut(g).k = g.k
    BY DEF cut, frame, Frame
  <2>3. \A i \in Unread : inbox'[i].k = inbox[i].k \/ inbox'[i].k = "junk"
    BY <2>1, <2>2, Zenon
  <2>4. "junk" \notin Term /\ "junk" \notin Query /\ "junk" \notin Refusal /\ "junk" # "none"
    BY DEF Term, Query, Refusal
  <2>5. Unique'
    BY <1>6, <2>1, <2>3, <2>4, Zenon DEF Unique
  <2>6. NoQuery'
    BY <1>6, <2>1, <2>3, <2>4, Zenon DEF NoQuery
  <2>7. Bytes'
    BY <1>6, <1>9, <2>1, <2>3, <2>4, Zenon DEF Bytes
  <2>8. Bound(c)'
    <3>1. todo'[c] = <<>> => Mute(todo'[c])
      BY DEF Mute
    <3> QED BY <1>4, <1>12, <3>1 DEF Bound
  <2>9. \A i \in Unread' : inbox'[i].k \in Term => ~Moving' /\ (i > 1 => m'.slewing)
    BY <1>1, <1>6, <1>9, <2>1, <2>3, <2>4, Zenon
  <2>10. \A i \in Unread' : inbox'[i].k \notin Refusal
    BY <1>6, <1>7, <2>1, <2>3, <2>4, Zenon
  <2>11. Plain(c)'
    BY <1>1, <1>4, <1>6, <1>9, <2>5, <2>6, <2>7, <2>8, <2>9, <2>10, Zenon DEF Plain
  <2> QED BY <1>5, <2>11, ToPlain
<1> QED BY <1>2, <1>10, <1>11, <1>12
-----------------------------------------------------------------------------
(* What holds of a caller that waits for the answer to a query. *)
LEMMA Waiting ==
  ASSUME TypeOK, NEW c \in Callers, SessionInv(c), at(c, "match")
  PROVE  /\ Shape(todo[c]) /\ Quiet /\ Calm(c) /\ Unique /\ Bytes /\ (Answered(c) \/ Lost(c)) /\ told[c] # "idle"
         /\ Moving => m.slewing
         /\ \A i \in Unread : inbox[i].k \in Term => ~Moving /\ (i > 1 => m.slewing)
         /\ tok[c].k \notin Term
         /\ \A i \in Unread : inbox[i].k \in Refusal => ~Moving /\ m.slewing /\ NoTerm
         /\ Len(inbox) <= MaxInbox + 1
         /\ todo[c] \in Seq(Step) /\ todo[c] # <<>> /\ Head(todo[c]) \in Step /\ Head(todo[c]).do = "match"
         /\ cmd(c) = Head(todo[c]).cmd /\ cmd(c) \in Query /\ nth(c) = Head(todo[c]).n /\ nth(c) \in Nat
<1>1. /\ ~at(c, "applyToken") /\ ~at(c, "slewing") /\ ~at(c, "window") /\ ~at(c, "accepted")
      /\ ~opening(c) /\ ~Starts(c)
  BY DEF at, opening, Starts
<1>2. /\ Quiet /\ Calm(c) /\ Latched(c) /\ Told(c) /\ Unique /\ Terms(c) /\ Token1(c)
      /\ Refused(c) /\ Bytes /\ Answer(c) /\ Bound(c) /\ Shape(todo[c])
  BY DEF SessionInv
<1>3. todo[c] \in Seq(Step) /\ todo[c] # <<>> /\ Head(todo[c]) \in Step /\ Head(todo[c]).do = "match"
  BY HeadTyped DEF at
<1>4. cmd(c) = Head(todo[c]).cmd /\ cmd(c) \in Query /\ nth(c) = Head(todo[c]).n /\ nth(c) \in Nat
  <2>1. Proper(Head(todo[c]))
    BY <1>2, <1>3, Later
  <2>2. \A g \in Step : g.n \in Nat
    BY DEF Step
  <2> QED BY <1>3, <2>1, <2>2 DEF Proper, cmd, nth
<1>5. /\ (Answered(c) \/ Lost(c)) /\ told[c] # "idle" /\ (Moving => m.slewing) /\ tok[c].k \notin Term
  BY <1>1, <1>2, <1>3 DEF Answer, Told, Latched, Token1
<1>6. \A i \in Unread : inbox[i].k \in Term => ~Moving /\ (i > 1 => m.slewing)
  BY <1>1, <1>2, Zenon DEF Terms
<1>7. \A i \in Unread : inbox[i].k \in Refusal => ~Moving /\ m.slewing /\ NoTerm
  BY <1>1, <1>2, Zenon DEF Refused
<1>8. Len(inbox) <= MaxInbox + 1
  <2>1. ~Mute(todo[c])
    <3>1. 1 \in 1 .. Len(todo[c]) /\ todo[c][1].do = "match"
      BY <1>3
    <3> QED BY <3>1 DEF Mute, Askers
  <2>2. Len(inbox) <= MaxInbox => Len(inbox) <= MaxInbox + 1
    BY InboxLength
  <2> QED BY <1>1, <1>2, <2>1, <2>2, Zenon DEF Bound
<1> QED BY <1>2, <1>3, <1>4, <1>5, <1>6, <1>7, <1>8, Zenon

(* The answer has been read, or none has come. *)
LEMMA MatchDone ==
  ASSUME TypeOK, NEW c \in Callers, SessionInv(c), at(c, "match"), NEW k, Shift(k), proceed(c),
         m' = m, fw' = fw, tok' = tok, told' = told, pulses' = pulses,
         NoQuery', \A j \in Unread' : inbox'[j].k \in Term,
         cmd(c) = "AH" /\ fw.motion = "home" => val'[c] = "1"
  PROVE  SessionInv(c)'
<1> DEFINE h == Head(todo[c])
<1>1. /\ Shape(todo[c]) /\ Quiet /\ Calm(c) /\ Unique /\ Bytes /\ told[c] # "idle"
      /\ Moving => m.slewing
      /\ \A i \in Unread : inbox[i].k \in Term => ~Moving /\ (i > 1 => m.slewing)
      /\ tok[c].k \notin Term /\ Len(inbox) <= MaxInbox + 1
      /\ todo[c] \in Seq(Step) /\ todo[c] # <<>> /\ h.do = "match" /\ cmd(c) = h.cmd
  BY Waiting, Zenon
<1>2. ~sends(c, "Q") /\ ~sends(c, "Ch") /\ ~Slews(h) /\ (Asks(h, "AH") => cmd(c) = "AH") /\ ~at(c, "Blind")
  BY <1>1 DEF sends, Slews, Asks, at
<1>3. /\ Shape(todo'[c]) /\ todo'[c] = Tail(todo[c])
      /\ \A d \in Reading : ~at(c, d)'
      /\ at(c, "refuseWhileHoming")' => cmd(c) = "AH"
      /\ ~sends(c, "Q")' /\ ~at(c, "still")' /\ ~at(c, "slewing")' /\ ~sends(c, "Ch")'
      /\ ~(at(c, "Get")' /\ beforeCh(c)')
      /\ (Asking(todo[c]) => Asking(todo'[c]))
  BY <1>1, <1>2, Onward
<1>4. ~at(c, "window")' /\ ~at(c, "match")' /\ ~at(c, "applyToken")' /\ ~at(c, "echo")' /\ ~Busy(c)'
  BY <1>3, Zenon DEF Reading, Busy
<1>5. /\ Unique' /\ Bytes' /\ Len(inbox) \in Nat /\ Len(inbox') \in Nat /\ (inbox' = <<>> \/ Len(inbox') < Len(inbox))
      /\ \A j \in Unread' : j \in Nat /\ j + k \in Unread /\ j + k > 1 /\ inbox'[j] = inbox[j + k]
  BY <1>1, Left, Zenon
<1>6. \A j \in Unread' : inbox'[j].k \in Term /\ ~Moving /\ m.slewing /\ inbox'[j].k \notin Refusal
  <2>1. \A y \in Term : y \notin Refusal
    BY DEF Term, Refusal
  <2> QED BY <1>1, <1>5, <2>1, Zenon
<1>7. inbox' = <<>> \/ (Len(inbox') = 1 /\ inbox'[1].k \in Term /\ ~Moving)
  <2>1. CASE inbox' # <<>>
    <3>1. inbox' \in Seq(Frame)
      BY DEF Shift
    <3>2. 1 \in Unread' /\ Len(inbox') \in Unread'
      BY <2>1, <3>1 DEF Unread
    <3>3. 1 = Len(inbox')
      BY <1>5, <3>2, Zenon DEF Unique
    <3> QED BY <1>6, <3>2, <3>3
  <2> QED BY <2>1
<1>8. at(c, "notHoming")' => inbox' = <<>>
  <2> SUFFICES ASSUME at(c, "notHoming")' PROVE inbox' = <<>>
    OBVIOUS
  <2> DEFINE t == Tail(todo[c])
  <2>1. t \in Seq(Step) /\ Shape(t) /\ t # <<>> /\ Head(t).do = "notHoming"
    BY <1>1, <1>3, Later DEF at
  <2> HIDE DEF t
  <2>2. 1 \in 1 .. Len(t) /\ t[1].do = "notHoming"
    BY <2>1
  <2>3. 1 + 3 = Len(t) /\ Is(t[1 + 2], "Blind", "Ch")
    BY <2>1, <2>2 DEF Shape, Placed
  <2>4. 3 \in 1 .. Len(t) /\ Commanding(t[3])
    BY <2>3 DEF Commanding
  <2>5. ~Asking(t)
    BY <2>4 DEF Asking
  <2>6. ~Asking(todo[c])
    BY <1>3, <2>5 DEF t
  <2>7. ~m.slewing
    BY <1>1, <2>6 DEF Calm
  <2>8. Unread' = {}
    BY <1>6, <2>7
  <2>9. inbox' # <<>> => 1 \in Unread'
    BY <1>7 DEF Unread
  <2> QED BY <2>8, <2>9
<1>9. Quiet' /\ Calm(c)' /\ Told(c)' /\ (Moving' <=> Moving)
  BY <1>1, <1>3, Zenon DEF Quiet, Calm, Told, Moving
<1>10. Bound(c)'
  <2>1. MaxInbox \in Nat
    BY InboxLength
  <2>2. inbox' = <<>> => Len(inbox') = 0
    OBVIOUS
  <2>3. Len(inbox') <= MaxInbox
    BY <1>1, <1>5, <2>1, <2>2
  <2> QED BY <2>3 DEF Bound
<1>11. Plain(c)'
  BY <1>1, <1>3, <1>5, <1>6, <1>9, <1>10, Zenon DEF Plain
<1>12. PastOK(c)' /\ Seek(c)'
  BY <1>3, <1>4, <1>7, <1>8, <1>9, Zenon DEF PastOK, Seek, Past
<1> QED BY <1>4, <1>11, <1>12, ToNear

(* The answer is still to come after another frame has been skipped. *)
LEMMA AnswerLater ==
  ASSUME TypeOK, NEW c \in Callers, Unique, Bytes, Answered(c) \/ Lost(c), cmd(c) \in Query, nth(c) \in Nat,
         NEW f, NEW k, Shift(k), Takes(f, k), f # NoFrame, f.k # cmd(c),
         fw' = fw, cmd(c)' = cmd(c), nth(c)' = nth(c) + 1
  PROVE  Answered(c)' \/ Lost(c)'
<1>1. /\ k \in Nat /\ k >= 1 /\ k \in Unread /\ Len(inbox') = Len(inbox) - k
      /\ inbox' \in Seq(Frame) /\ Len(inbox) \in Nat /\ Len(inbox') \in Nat /\ MaxInbox \in Nat
      /\ \A j \in Unread' : j \in Nat /\ j >= 1 /\ j + k \in Unread /\ inbox'[j] = inbox[j + k]
      /\ \A i \in Unread : i < k => inbox[i].k = "byte"
      /\ k = 1 => f = inbox[1]
  <2>1. /\ k \in Unread /\ Len(inbox') = Len(inbox) - k
        /\ \A i \in Unread : i < k => inbox[i].k = "byte"
        /\ k = 1 => f = inbox[1]
    BY DEF Takes
  <2>2. k \in Nat /\ k >= 1 /\ inbox' \in Seq(Frame)
    BY DEF Shift
  <2> QED BY <2>1, <2>2, Left, InboxLength, Zenon
<1>2. (Moving' <=> Moving) /\ Unique'
  BY Left, Zenon DEF Moving
<1>3. CASE Lost(c)
  <2>1. NoQuery'
    BY <1>3, Left DEF Lost
  <2> DEFINE a == Len(inbox)
             b == Len(inbox')
             n == nth(c)
  <2>2. a \in Nat /\ b = a - k /\ n \in Nat /\ a + n <= MaxInbox + 1 /\ (Moving => a + n <= MaxInbox)
    BY <1>1, <1>3 DEF Lost
  <2> HIDE DEF a, b, n
  <2>3. b + (n + 1) <= MaxInbox + 1 /\ (Moving => b + (n + 1) <= MaxInbox)
    <3>1. b + (n + 1) <= a + n
      BY <1>1, <2>2
    <3>2. \A z \in Nat : a + n <= z => b + (n + 1) <= z
      BY <1>1, <2>2, <3>1
    <3> QED BY <1>1, <2>2, <3>2
  <2>4. Len(inbox') + nth(c)' <= MaxInbox + 1 /\ (Moving' => Len(inbox') + nth(c)' <= MaxInbox)
    BY <1>2, <2>3 DEF b, n
  <2>5. fw'.motion # "home"
    BY <1>3 DEF Lost
  <2> QED BY <2>1, <2>4, <2>5 DEF Lost
<1>4. CASE Answered(c)
  <2>1. PICK p \in Unread :
          /\ inbox[p].k = cmd(c)
          /\ \A j \in Unread : inbox[j].k \in Query => j = p
          /\ nth(c) + p <= MaxInbox + 1
          /\ \A j \in Unread : j > p => inbox[j].k \in Term
          /\ Moving => p = Len(inbox)
          /\ cmd(c) = "AH" /\ fw.motion = "home" => inbox[p].v = "1"
    BY <1>4, Zenon DEF Answered
  <2>2. p \in Nat /\ p >= 1 /\ p <= Len(inbox) /\ ~(p < k)
    <3>1. p \in Nat /\ p >= 1 /\ p <= Len(inbox)
      BY <1>1 DEF Unread
    <3>2. inbox[p].k # "byte"
      BY <2>1 DEF Query
    <3> QED BY <1>1, <3>1, <3>2
  <2>3. CASE p = k
    <3>1. k # 1
      BY <1>1, <2>1, <2>3
    <3>2. fw.motion # "home"
      <4>1. 1 \in Unread /\ 1 < k
        BY <1>1, <3>1 DEF Unread
      <4>2. inbox[1].k = "byte"
        BY <1>1, <4>1
      <4> QED BY <4>1, <4>2 DEF Bytes
    <3>3. ASSUME NEW j \in Unread' PROVE inbox'[j].k \in Term /\ inbox'[j].k \notin Query
      <4>1. j + k \in Unread /\ inbox'[j] = inbox[j + k] /\ j + k > p /\ j + k # p
        BY <1>1, <2>2, <2>3
      <4> QED BY <2>1, <4>1
    <3>4. NoQuery'
      BY <3>3 DEF NoQuery
    <3>5. Len(inbox') = 0 \/ Len(inbox') = 1
      <4>1. Len(inbox') = 0 \/ (1 \in Unread' /\ Len(inbox') \in Unread')
        BY <1>1 DEF Unread
      <4>2. 1 \in Unread' /\ Len(inbox') \in Unread' => 1 = Len(inbox')
        BY <1>2, <3>3, Zenon DEF Unique
      <4> QED BY <4>1, <4>2, Zenon
    <3>6. Moving => Len(inbox') = 0
      BY <1>1, <2>1, <2>3
    <3> DEFINE b == Len(inbox')
               n == nth(c)
    <3>7. (b = 0 \/ b = 1) /\ n \in Nat /\ n + p <= MaxInbox + 1 /\ (Moving => b = 0)
      BY <1>1, <2>1, <3>5, <3>6
    <3> HIDE DEF b, n
    <3>8. b + (n + 1) <= MaxInbox + 1 /\ (Moving => b + (n + 1) <= MaxInbox)
      BY <1>1, <2>2, <2>3, <3>1, <3>7
    <3>9. Len(inbox') + nth(c)' <= MaxInbox + 1 /\ (Moving' => Len(inbox') + nth(c)' <= MaxInbox)
      BY <1>2, <3>8 DEF b, n
    <3>10. fw'.motion # "home"
      BY <3>2
    <3> QED BY <3>4, <3>9, <3>10 DEF Lost
  <2>4. CASE p # k
    <3> DEFINE r == p - k
    <3>1. r \in Nat /\ r >= 1 /\ r + k = p
      BY <1>1, <2>2, <2>4
    <3>2. r \in Unread'
      <4>1. r <= Len(inbox')
        BY <1>1, <2>2
      <4> HIDE DEF r
      <4> QED BY <1>1, <3>1, <4>1 DEF Unread
    <3> HIDE DEF r
    <3>3. inbox'[r] = inbox[p]
      BY <1>1, <3>1, <3>2
    <3>4. ASSUME NEW j \in Unread', inbox'[j].k \in Query PROVE j = r
      <4>1. j + k = p
        BY <1>1, <2>1, <3>4, Zenon
      <4> QED BY <1>1, <3>1, <4>1
    <3>5. nth(c)' + r <= MaxInbox + 1
      BY <1>1, <2>1, <2>2, <3>1
    <3>6. ASSUME NEW j \in Unread', j > r PROVE inbox'[j].k \in Term
      <4>1. j + k \in Unread /\ j + k > p /\ inbox'[j] = inbox[j + k]
        BY <1>1, <3>1, <3>6
      <4> QED BY <2>1, <4>1
    <3>7. Moving' => r = Len(inbox')
      BY <1>1, <1>2, <2>1, <3>1
    <3>8. inbox'[r].k = cmd(c)' /\ (cmd(c)' = "AH" /\ fw'.motion = "home" => inbox'[r].v = "1")
      BY <2>1, <3>3
    <3> QED BY <3>2, <3>4, <3>5, <3>6, <3>7, <3>8, Zenon DEF Answered
  <2> QED BY <2>3, <2>4
<1> QED BY <1>3, <1>4

(* GetMatching's read keeps the invariant. *)
LEMMA MatchSession ==
  ASSUME TypeOK, NEW c \in Callers, Lone(c), SessionInv(c), match(c)
  PROVE  SessionInv(c)'
<1> DEFINE h == Head(todo[c])
           x == [h EXCEPT !.n = @ + 1]
<1>1. /\ fw' = fw /\ pulses' = pulses /\ told' = told /\ tok' = tok /\ "lateReply" \notin Env
      /\ MaxInbox < MaxSkip /\ MaxInbox \in Nat /\ MaxSkip \in Nat /\ val \in [Callers -> Value]
  BY RstAssumption DEF match, Lone, TypeOK
<1>2. at(c, "match")
  <2>1. at(c, "match") \/ at(c, "rematch")
    BY DEF match
  <2>2. ASSUME at(c, "rematch") PROVE FALSE
    <3>1. todo[c] \in Seq(Step) /\ todo[c] # <<>> /\ Shape(todo[c]) /\ h.do = "rematch"
      BY <2>2, HeadTyped DEF SessionInv, at
    <3>2. Proper(h)
      BY <3>1, Later
    <3> QED BY <3>1, <3>2 DEF Proper
  <2> QED BY <2>1, <2>2
<1>3. /\ Shape(todo[c]) /\ Quiet /\ Calm(c) /\ Unique /\ Bytes /\ (Answered(c) \/ Lost(c)) /\ told[c] # "idle"
      /\ Moving => m.slewing
      /\ \A i \in Unread : inbox[i].k \in Term => ~Moving /\ (i > 1 => m.slewing)
      /\ tok[c].k \notin Term
      /\ \A i \in Unread : inbox[i].k \in Refusal => ~Moving /\ m.slewing /\ NoTerm
      /\ Len(inbox) <= MaxInbox + 1
      /\ todo[c] \in Seq(Step) /\ todo[c] # <<>> /\ h \in Step /\ h.do = "match"
      /\ cmd(c) = h.cmd /\ cmd(c) \in Query /\ nth(c) = h.n /\ nth(c) \in Nat
  BY <1>2, Waiting, Zenon
<1>4. PICK f \in Heard :
        /\ hear(f)
        /\ \/ /\ f = NoFrame \/ f.k = cmd(c)
              /\ val' = [val EXCEPT ![c] = IF f = NoFrame THEN "err" ELSE f.v]
              /\ proceed(c) /\ m' = m
           \/ f # NoFrame /\ f.k # cmd(c) /\ m' = applyToken(m, f.k) /\ again(c)
           \/ f # NoFrame /\ nth(c) >= MaxSkip
  BY DEF match
<1>5. f \in Frame /\ \E k \in Nat : Shift(k) /\ Takes(f, k)
  BY <1>1, <1>3, <1>4, HearParts
<1>6. PICK k \in Nat : Shift(k) /\ Takes(f, k)
  BY <1>5
<1>7. /\ Unique' /\ Bytes' /\ (NoQuery => NoQuery') /\ (NoTerm => NoTerm') /\ Len(inbox) \in Nat /\ Len(inbox') \in Nat
      /\ inbox' = <<>> \/ Len(inbox') < Len(inbox)
      /\ \A j \in Unread' : j \in Nat /\ j >= 1 /\ j + k \in Unread /\ j + k > 1 /\ inbox'[j] = inbox[j + k]
      /\ inbox' = <<>> => Unread' = {}
  BY <1>1, <1>3, <1>6, Left, Zenon
<1>8. f.k \in Term \cup Query => f = NoFrame \/ (k = 1 /\ 1 \in Unread /\ f = inbox[1])
  <2>1. frame("junk").k \notin Term \cup Query
    BY DEF frame, Term, Query
  <2>2. f # NoFrame => k \in Unread /\ (IF k = 1 THEN f = inbox[1] ELSE f = frame("junk"))
    BY <1>6 DEF Takes
  <2> QED BY <2>1, <2>2, Zenon
<1>9. NoFrame.k \notin Term \cup Query
  BY DEF NoFrame, Term, Query
<1>10. ASSUME f = NoFrame \/ f.k = cmd(c), val' = [val EXCEPT ![c] = IF f = NoFrame THEN "err" ELSE f.v],
              proceed(c), m' = m
       PROVE  SessionInv(c)'
  <2>1. CASE f = NoFrame
    <3>1. inbox' = <<>> /\ \A i \in Unread : inbox[i].k = "byte"
      BY <1>6, <2>1 DEF Takes
    <3>2. Lost(c)
      <4>1. cmd(c) # "byte"
        BY <1>3 DEF Query
      <4>2. ~Answered(c)
        BY <3>1, <4>1, Zenon DEF Answered
      <4> QED BY <1>3, <4>2
    <3>3. fw.motion # "home" /\ NoQuery'
      BY <1>7, <3>2 DEF Lost
    <3>4. \A j \in Unread' : inbox'[j].k \in Term
      BY <1>7, <3>1
    <3> QED BY <1>1, <1>2, <1>6, <1>10, <3>3, <3>4, MatchDone
  <2>2. CASE f # NoFrame
    <3>1. k = 1 /\ 1 \in Unread /\ f = inbox[1] /\ inbox[1].k = cmd(c) /\ inbox[1].k \in Query
      <4>1. f.k = cmd(c) /\ f.k \in Query
        BY <1>3, <1>10, <2>2
      <4> QED BY <1>8, <2>2, <4>1
    <3>2. PICK p \in Unread :
            /\ \A j \in Unread : inbox[j].k \in Query => j = p
            /\ \A j \in Unread : j > p => inbox[j].k \in Term
            /\ cmd(c) = "AH" /\ fw.motion = "home" => inbox[p].v = "1"
      <4>1. ~Lost(c)
        BY <3>1 DEF Lost, NoQuery
      <4>2. Answered(c)
        BY <1>3, <4>1
      <4> QED BY <4>2, Zenon DEF Answered
    <3>3. p = 1
      BY <3>1, <3>2, Zenon
    <3>4. ASSUME NEW j \in Unread' PROVE inbox'[j].k \in Term /\ inbox'[j].k \notin Query
      <4>1. j + k \in Unread /\ j + k > 1 /\ j + k # 1 /\ inbox'[j] = inbox[j + k]
        BY <1>7
      <4> QED BY <3>2, <3>3, <4>1, Zenon
    <3>5. NoQuery'
      BY <3>4 DEF NoQuery
    <3>6. val'[c] = f.v
      BY <1>1, <1>10, <2>2
    <3>7. cmd(c) = "AH" /\ fw.motion = "home" => val'[c] = "1"
      BY <3>1, <3>2, <3>3, <3>6, Zenon
    <3> QED BY <1>1, <1>2, <1>6, <1>10, <3>4, <3>5, <3>7, MatchDone
  <2> QED BY <2>1, <2>2
<1>11. ASSUME f # NoFrame, f.k # cmd(c), m' = applyToken(m, f.k), again(c)
       PROVE  SessionInv(c)'
  <2>1. x \in Step /\ x.do = h.do /\ x.cmd = h.cmd /\ x.n = h.n + 1
    <3> HIDE DEF h
    <3> QED BY <1>3 DEF Step
  <2>2. insert(c, <<x>>)
    BY <1>11 DEF again
  <2> HIDE DEF x
  <2>3. Proper(x) /\ Replaces(h, x) /\ ~Commanding(x)
    <3> HIDE DEF h
    <3> QED BY <1>3, <2>1 DEF Proper, Replaces, Does, Asks, Slews, Syncs, Commanding, Is
  <2>4. /\ Shape(todo'[c]) /\ todo'[c] # <<>>
        /\ \A d : at(c, d)' <=> x.do = d
        /\ cmd(c)' = cmd(c) /\ nth(c)' = nth(c) + 1
        /\ Asking(todo[c]) => Asking(todo'[c])
    BY <1>2, <1>3, <2>1, <2>2, <2>3, Instead, Zenon
  <2>5. /\ at(c, "match")' /\ ~opening(c)' /\ ~Past(c)' /\ ~Starts(c)' /\ ~at(c, "window")'
        /\ ~at(c, "notHoming")' /\ ~at(c, "Get")' /\ ~at(c, "echo")' /\ ~at(c, "Blind")'
    BY <1>3, <2>1, <2>4 DEF opening, Past, sends, Starts
  <2>6. /\ m'.slewing => m.slewing
        /\ f.k \notin Term => m'.slewing = m.slewing
    <3>1. m \in MountType /\ f.k \in Kind
      BY <1>5 DEF TypeOK, Frame
    <3> QED BY <1>11, <3>1, ApplyLatch
  <2>7. f.k \in Term => ~Moving /\ NoTerm' /\ ~NoTerm
    <3> SUFFICES ASSUME f.k \in Term PROVE ~Moving /\ NoTerm' /\ ~NoTerm
      OBVIOUS
    <3>1. k = 1 /\ 1 \in Unread /\ inbox[1].k \in Term
      BY <1>8, <1>11
    <3>2. ASSUME NEW j \in Unread', inbox'[j].k \in Term PROVE FALSE
      <4>1. j + k \in Unread /\ inbox[j + k].k \in Term /\ j + k > 1
        BY <1>7, <3>2
      <4>2. j + k = 1
        BY <1>3, <3>1, <4>1, Zenon DEF Unique
      <4> QED BY <1>7, <4>1, <4>2
    <3> QED BY <1>3, <3>1, <3>2, Zenon DEF NoTerm
  <2>8. Quiet' /\ (Moving' <=> Moving) /\ Calm(c)' /\ Told(c)' /\ Latched(c)'
    BY <1>1, <1>3, <2>4, <2>6, <2>7, Zenon DEF Quiet, Moving, Calm, Told, Latched
  <2>9. Terms(c)' /\ Token1(c)'
    <3>1. ASSUME NEW j \in Unread', inbox'[j].k \in Term PROVE ~Moving /\ m'.slewing
      <4>1. f.k \notin Term
        BY <2>7, <3>1 DEF NoTerm
      <4>2. ~Moving /\ m.slewing
        BY <1>3, <1>7, <3>1, Zenon
      <4> QED BY <2>6, <4>1, <4>2
    <3> QED BY <1>1, <1>3, <2>8, <3>1, Zenon DEF Terms, Token1
  <2>10. Refused(c)'
    <3>1. ASSUME NEW j \in Unread', inbox'[j].k \in Refusal PROVE ~Moving /\ m'.slewing /\ NoTerm'
      <4>1. ~Moving /\ m.slewing /\ NoTerm
        BY <1>3, <1>7, <3>1, Zenon
      <4> QED BY <1>7, <2>6, <2>7, <4>1
    <3> QED BY <1>1, <1>3, <2>5, <2>8, <3>1, Zenon DEF Refused
  <2>11. Answer(c)'
    <3>1. Answered(c)' \/ Lost(c)'
      BY <1>1, <1>3, <1>6, <1>11, <2>4, AnswerLater
    <3> QED BY <2>5, <3>1, Zenon DEF Answer
  <2>12. PastOK(c)' /\ Seek(c)'
    BY <2>5, Zenon DEF PastOK, Seek, Past, sends
  <2>13. Bound(c)'
    <3>1. inbox' = <<>> => Len(inbox') = 0
      OBVIOUS
    <3>2. Len(inbox') <= MaxInbox + 1
      BY <1>1, <1>3, <1>7, <3>1
    <3> QED BY <2>5, <3>2 DEF Bound
  <2> QED BY <1>7, <2>4, <2>8, <2>9, <2>10, <2>11, <2>12, <2>13, Zenon DEF SessionInv
<1>12. ASSUME f # NoFrame, nth(c) >= MaxSkip
       PROVE  FALSE
  <2>1. k \in Unread
    BY <1>6, <1>12 DEF Takes
  <2> DEFINE n == nth(c)
             a == Len(inbox)
  <2>2. a \in Nat /\ a >= 1 /\ n \in Nat /\ n >= MaxSkip
    BY <1>3, <1>7, <1>12, <2>1 DEF Unread
  <2>3. n <= MaxInbox
    <3>1. CASE Lost(c)
      <4>1. a + n <= MaxInbox + 1
        BY <3>1 DEF Lost
      <4> HIDE DEF a, n
      <4> QED BY <1>1, <2>2, <4>1
    <3>2. CASE Answered(c)
      <4>1. PICK p \in Unread : n + p <= MaxInbox + 1
        BY <3>2 DEF Answered
      <4>2. p \in Nat /\ p >= 1
        BY <1>7 DEF Unread
      <4> HIDE DEF n
      <4> QED BY <1>1, <2>2, <4>1, <4>2
    <3> QED BY <1>3, <3>1, <3>2
  <2> HIDE DEF n
  <2> QED BY <1>1, <2>2, <2>3
<1> QED BY <1>4, <1>10, <1>11, <1>12
-----------------------------------------------------------------------------
(* Time passing between the tokens keeps the invariant. *)
LEMMA TtlSession ==
  ASSUME TypeOK, NEW c \in Callers, SessionInv(c), ttl
  PROVE  SessionInv(c)'
<1>1. /\ m'.slewing = m.slewing /\ fw' = fw /\ inbox' = inbox /\ todo' = todo /\ val' = val
      /\ tok' = tok /\ told' = told /\ pulses' = pulses
  BY DEF ttl, TypeOK, MountType
<1> QED BY <1>1, SameSession

(* Steps that a lone caller, or its mount, never takes. *)
LEMMA NeverSession ==
  ASSUME TypeOK, NEW c \in Callers, SessionInv(c)
  PROVE  ~drainStale(c) /\ ~pulseEnd /\ ~verdict
<1>1. ASSUME drainStale(c) PROVE FALSE
  <2>1. todo[c] \in Seq(Step) /\ todo[c] # <<>> /\ Shape(todo[c]) /\ Head(todo[c]).do = "drainStale"
    BY <1>1, HeadTyped DEF SessionInv, at, drainStale
  <2>2. Proper(Head(todo[c]))
    BY <2>1, Later
  <2> QED BY <2>1, <2>2 DEF Proper
<1>2. pulses = 0 /\ ~fw.verdict
  BY DEF SessionInv, Quiet
<1>3. ~pulseEnd
  BY <1>2 DEF pulseEnd
<1>4. ~verdict
  BY <1>2 DEF verdict
<1> QED BY <1>1, <1>3, <1>4

(* The invariant holds at the start. *)
LEMMA InitSession ==
  ASSUME NEW c \in Callers, Init
  PROVE  SessionInv(c)
<1>1. /\ fw.motion = "idle" /\ ~fw.wedged /\ ~fw.verdict /\ pulses = 0 /\ ~m.slewing
      /\ inbox = <<>> /\ todo[c] = <<>> /\ tok[c] = NoFrame /\ told[c] = ""
  <2>1. /\ fw.motion = "idle" /\ ~fw.wedged /\ ~fw.verdict /\ ~m.slewing
    <3>1. PICK homed, answered \in BOOLEAN :
            /\ m = [slewing |-> FALSE, peeked |-> FALSE, lastFault |-> "",
                    homeFound |-> homed /\ answered, home |-> "", unparked |-> FALSE,
                    parking |-> FALSE, moving |-> FALSE, homeCapturePending |-> FALSE,
                    parkStopPending |-> FALSE, pulsing |-> FALSE]
            /\ fw = [motion |-> "idle", homed |-> homed, pos |-> "sky", dest |-> "sky",
                     target |-> {}, tracking |-> FALSE, wedged |-> FALSE, astray |-> FALSE,
                     verdict |-> FALSE, mute |-> FALSE]
      BY Zenon DEF Init
    <3> QED BY <3>1
  <2>2. pulses = 0 /\ inbox = <<>> /\ todo[c] = <<>> /\ tok[c] = NoFrame /\ told[c] = ""
    BY DEF Init
  <2> QED BY <2>1, <2>2
<1>2. Unread = {} /\ ~Moving /\ NoFrame.k \notin Term
  <2>1. Unread = {}
    <3>1. Len(inbox) = 0
      BY <1>1
    <3> QED BY <3>1 DEF Unread
  <2>2. NoFrame.k \notin Term
    BY DEF NoFrame, Term
  <2>3. ~Moving
    BY <1>1 DEF Moving
  <2> QED BY <2>1, <2>2, <2>3
<1>3. \A d : ~at(c, d)
  BY <1>1 DEF at
<1>4. Shape(todo[c]) /\ Asking(todo[c]) /\ Mute(todo[c])
  <2>1. Shape(<<>>) /\ Asking(<<>>) /\ Mute(<<>>)
    BY DEF Shape, Asking, Mute
  <2> QED BY <1>1, <2>1, Zenon
<1>5. ~opening(c) /\ ~Starts(c) /\ ~Past(c) /\ \A x : ~sends(c, x)
  BY <1>3, Zenon DEF opening, Starts, Past, sends
<1>6. Quiet /\ Calm(c) /\ Latched(c) /\ Told(c) /\ Unique /\ Terms(c) /\ Token1(c) /\ Refused(c)
  BY <1>1, <1>2, <1>3, <1>4, Zenon DEF Quiet, Calm, Latched, Told, Unique, Terms, Token1, Refused
<1>7. Bytes /\ PastOK(c) /\ Seek(c) /\ Answer(c) /\ Bound(c)
  BY <1>1, <1>2, <1>3, <1>4, <1>5, Zenon DEF Bytes, PastOK, Seek, Answer, NoQuery, Bound
<1> QED BY <1>4, <1>6, <1>7, Zenon DEF SessionInv

(* Every step keeps the invariant. *)
LEMMA NextSession ==
  ASSUME NEW c \in Callers, Lone(c), TypeOK, SessionInv(c), [Next]_vars
  PROVE  SessionInv(c)'
<1>1. CASE run(c)
  BY <1>1, DrainTokenSession, AwaitSession, ApplySession, NeverSession, WriteSession, MatchSession, EchoSession,
     ReadByteSession, BlindSession, SlewNackSession, WindowSession, MaybeSession, ParkedSession, SlewingSession,
     FlagsSession, ChecksSession, ReportSession, AlpacaSession, Zenon DEF run
<1>2. ASSUME NEW op \in Ops[c], call(c, op) PROVE SessionInv(c)'
  BY <1>2, CallSession, Zenon
<1>3. CASE pulseEnd \/ ttl \/ arrive \/ seekEnd \/ verdict
  BY <1>3, NeverSession, TtlSession, EndsSession, Zenon
<1>4. CASE UNCHANGED vars
  <2>1. /\ m'.slewing = m.slewing /\ fw' = fw /\ inbox' = inbox /\ todo' = todo /\ val' = val
        /\ tok' = tok /\ told' = told /\ pulses' = pulses
    BY <1>4 DEF vars
  <2> QED BY <2>1, SameSession
<1>5. \A d \in Callers : d = c
  BY DEF Lone
<1> QED BY <1>1, <1>2, <1>3, <1>4, <1>5, Zenon DEF Next

(* The inductive invariant of a lone caller's session. *)
THEOREM SessionInvariant ==
  ASSUME NEW u \in Callers, Lone(u)
  PROVE  Spec => []SessionInv(u)
<1>1. Init => SessionInv(u)
  BY InitSession
<1>2. TypeOK /\ SessionInv(u) /\ [Next]_vars => SessionInv(u)'
  BY NextSession
<1> QED BY <1>1, <1>2, TypeTheorem, PTL DEF Spec

(* Halt, Park and FindHome ask Homing before they send anything that would     *)
(* disturb a home seek, and the mount can start no seek between its answer     *)
(* and what is sent: no :Q# ever reaches a seeking mount, whatever operations  *)
(* a lone caller calls in whatever order, however many tokens the mount sends  *)
(* of its own, and whether or not its answers come.                            *)
THEOREM SeekTheorem ==
  ASSUME NEW u \in Callers, Lone(u)
  PROVE  Spec => []SeekUninterrupted
<1>1. SessionInv(u) => SeekUninterrupted
  BY DEF SessionInv, Quiet, SeekUninterrupted
<1> QED BY <1>1, SessionInvariant, PTL

(* What Slewing tells. *)
LEMMA TellingSession ==
  ASSUME NEW u \in Callers, Lone(u), TypeOK, SessionInv(u), Next, told[u] # "idle", told'[u] = "idle"
  PROVE  fw.motion = "idle"
<1>1. SessionInv(u)'
  BY NextSession
<1>2. fw'.motion = "idle"
  BY <1>1 DEF SessionInv, Told
<1>3. told' = told \/ report(u) \/ reportPark(u) \/ \E op \in Ops[u] : call(u, op)
  <2>1. \A d \in Callers : d = u
    BY DEF Lone
  <2>2. CASE run(u)
    BY <2>2 DEF run, drainToken, Await, apply, drainStale, write, match, echo, readByte, blind, SlewNack, window,
       maybeCaptureHome, maybeFinishPark, captureHome, setSlewing, flags, checks, parkedAlready, polePosition, parkState
  <2>3. CASE pulseEnd \/ ttl \/ arrive \/ seekEnd \/ verdict
    BY <2>3 DEF pulseEnd, ttl, arrive, seekEnd, verdict
  <2> QED BY <2>1, <2>2, <2>3, Zenon DEF Next
<1>4. told' # told
  OBVIOUS
<1>5. CASE report(u)
  BY <1>2, <1>5 DEF report
<1>6. CASE reportPark(u)
  BY <1>2, <1>6 DEF reportPark
<1>7. CASE \E op \in Ops[u] : call(u, op)
  BY <1>2, <1>7 DEF call
<1> QED BY <1>3, <1>4, <1>5, <1>6, <1>7

(* Slewing never says no to a lone caller of a mount that is moving: a token   *)
(* that clears the latch is that of the slew the latch stands for, and no      *)
(* refusal or token of an earlier slew is left on the line when the next one   *)
(* starts.                                                                     *)
THEOREM PollTheorem ==
  ASSUME NEW u \in Callers, Lone(u)
  PROVE  Spec => PollTruth
<1>1. \A c \in Callers : c = u
  BY DEF Lone
<1>2. TypeOK /\ SessionInv(u) /\ [Next]_vars =>
        [\A c \in Callers :
           /\ told[c] # "idle" /\ told'[c] = "idle"
           /\ \A d \in Callers \ {c} : todo[d] = <<>>
           => fw.motion \in {"idle", "pulse"}]_vars
  BY <1>1, TellingSession
<1> QED BY <1>2, SessionInvariant, TypeTheorem, PTL DEF Spec, PollTruth
-----------------------------------------------------------------------------
(* The record of the home position. A home token that is on the line, or read  *)
(* and not yet applied, was sent by a mount that still stands at home; no      *)
(* caller relies on an answer to Homing given with the token on the line, nor  *)
(* was one given before it that said no seek is running.                       *)
OnLine == \E i \in Unread : inbox[i].k = "CHO"
Captures(q) == \E i \in 1 .. Len(q) : q[i].do = "captureHome"
HomeReads == \A i \in Unread : inbox[i].k = "G" => inbox[i].v = "home"

Found(c) == OnLine \/ tok[c].k = "CHO" => fw.pos = "home" /\ fw.motion = "idle" /\ m.slewing
FoundPast(c) == OnLine /\ Past(c) => at(c, "refuseWhileHoming") /\ val[c] = "1"
FoundAsked == \A i, j \in Unread : inbox[i].k = "CHO" /\ inbox[j].k = "AH" /\ j < i => inbox[j].v = "1"

(* A capture that is pending finds the mount at home, or a start is under way  *)
(* that will give it up; one that has been taken reads the coordinates of home *)
(* and stores them.                                                            *)
Pending(c) == m.homeCapturePending => IF Moving THEN Starts(c) ELSE fw.pos = "home"
Capturing(c) == Captures(todo[c]) => fw.pos = "home" /\ fw.motion = "idle" /\ HomeReads
Captured(c) == at(c, "captureHome") => val[c] \in {"err", "home"}

CaptureInv(c) ==
  Found(c) /\ FoundPast(c) /\ FoundAsked /\ Pending(c) /\ Capturing(c) /\ Captured(c) /\ HomeIsHome

(* A list that goes on had what is left of it. *)
LEMMA CapturesTail ==
  ASSUME NEW q \in Seq(Step), q # <<>>, Captures(Tail(q))
  PROVE  Captures(q)
<1> DEFINE t == Tail(q)
<1>1. /\ Len(q) \in Nat /\ Len(q) >= 1 /\ Len(t) = Len(q) - 1
      /\ \A i \in 1 .. Len(t) : t[i] = q[i + 1]
  BY TailParts, Zenon
<1>2. PICK i \in 1 .. Len(t) : t[i].do = "captureHome"
  BY DEF Captures
<1> HIDE DEF t
<1>3. i + 1 \in 1 .. Len(q) /\ q[i + 1].do = "captureHome"
  BY <1>1, <1>2
<1> QED BY <1>3 DEF Captures

(* A list with steps put in front has a capture in these or behind them. *)
LEMMA CapturesJoin ==
  ASSUME NEW p \in Seq(Step), NEW q \in Seq(Step), Captures(p \o q)
  PROVE  Captures(p) \/ Captures(q)
<1> DEFINE t == p \o q
<1>1. /\ Len(p) \in Nat /\ Len(q) \in Nat /\ Len(t) = Len(p) + Len(q)
      /\ \A i \in 1 .. Len(p) : t[i] = p[i]
      /\ \A i \in 1 .. Len(q) : t[Len(p) + i] = q[i]
  BY JoinParts
<1>2. PICK i \in 1 .. Len(t) : t[i].do = "captureHome"
  BY DEF Captures
<1> HIDE DEF t
<1> DEFINE a == Len(p)
           b == Len(q)
           j == i - a
<1>3. a \in Nat /\ b \in Nat /\ Len(t) = a + b
  BY <1>1
<1>4. i \in 1 .. a \/ (j \in 1 .. b /\ a + j = i)
  <2> HIDE DEF a, b
  <2> QED BY <1>3
<1>5. CASE i \in 1 .. a
  BY <1>1, <1>2, <1>5 DEF Captures
<1>6. CASE j \in 1 .. b /\ a + j = i
  <2>1. t[Len(p) + j] = q[j]
    BY <1>1, <1>6, Zenon
  <2>2. q[j].do = "captureHome"
    BY <1>2, <1>6, <2>1, Zenon
  <2> QED BY <1>6, <2>2, Zenon DEF Captures
<1> QED BY <1>4, <1>5, <1>6

(* The same of a caller's list, as it changes. *)
LEMMA CapturesOnward ==
  ASSUME TypeOK, NEW c \in Callers, NEW s, at(c, s)
  PROVE  /\ proceed(c) /\ Captures(todo'[c]) => Captures(todo[c])
         /\ \A p \in Seq(Step) : insert(c, p) /\ ~Captures(p) /\ Captures(todo'[c]) => Captures(todo[c])
         /\ giveUp(c) => todo'[c] = <<>> /\ ~Captures(todo'[c])
         /\ s = "captureHome" => Captures(todo[c])
<1>1. todo[c] \in Seq(Step) /\ todo[c] # <<>> /\ Head(todo[c]).do = s /\ todo \in [Callers -> Seq(Step)]
  BY HeadTyped DEF at, TypeOK
<1>2. proceed(c) => todo'[c] = Tail(todo[c])
  BY <1>1 DEF proceed
<1>3. \A p : insert(c, p) => todo'[c] = p \o Tail(todo[c])
  BY <1>1 DEF insert
<1>4. giveUp(c) => todo'[c] = <<>> /\ ~Captures(todo'[c])
  BY <1>1 DEF giveUp, Captures
<1>5. s = "captureHome" => Captures(todo[c])
  <2>1. 1 \in 1 .. Len(todo[c]) /\ todo[c][1] = Head(todo[c])
    BY <1>1
  <2> QED BY <1>1, <2>1, Zenon DEF Captures
<1>6. Tail(todo[c]) \in Seq(Step) /\ (Captures(Tail(todo[c])) => Captures(todo[c]))
  BY <1>1, CapturesTail, TailParts, Zenon
<1>7. ASSUME NEW p \in Seq(Step), insert(c, p), ~Captures(p), Captures(todo'[c]) PROVE Captures(todo[c])
  <2> DEFINE r == Tail(todo[c])
  <2>1. todo'[c] = p \o r
    BY <1>3, <1>7, Zenon
  <2>2. r \in Seq(Step) /\ Captures(p \o r) /\ (Captures(r) => Captures(todo[c]))
    BY <1>6, <1>7, <2>1, Zenon
  <2> HIDE DEF r
  <2> QED BY <1>7, <2>2, CapturesJoin
<1> QED BY <1>2, <1>4, <1>5, <1>6, <1>7, Zenon

(* A list of one step. *)
LEMMA CapturesOne ==
  ASSUME NEW x \in Step, x.do # "captureHome"
  PROVE  <<x>> \in Seq(Step) /\ ~Captures(<<x>>)
<1>1. <<x>> \in Seq(Step) /\ Len(<<x>>) = 1 /\ <<x>>[1] = x
  BY Singleton
<1> QED BY <1>1 DEF Captures

(* A list that starts a slew or a seek captures nothing later. *)
LEMMA CapturesNone ==
  ASSUME NEW q \in Seq(Step), q # <<>>, Shape(q), Slews(Head(q)) \/ Is(Head(q), "Blind", "Ch") \/ Head(q).do = "slewing"
  PROVE  ~Captures(q)
<1>1. /\ Tail(q) \in Seq(Step) /\ Shape(Tail(q))
      /\ Head(q).do = "slewing" \/ (Tail(q) # <<>> /\ Head(Tail(q)).do = "slewing")
  BY Later
<1>2. ASSUME NEW t \in Seq(Step), t # <<>>, Shape(t), Head(t).do = "slewing"
      PROVE  ~Captures(t)
  <2> DEFINE n == Len(t)
  <2>1. n \in Nat /\ n >= 1 /\ t[1] = Head(t) /\ Placed(t, 1)
    BY <1>2 DEF Shape
  <2>2. t[1].do = "slewing"
    BY <1>2, <2>1
  <2>3. 1 = n \/ (1 + 1 = n /\ t[1 + 1].do = "parking")
    BY <2>1, <2>2, Zenon DEF Placed
  <2> HIDE DEF n
  <2>4. \A i \in 1 .. n : i = 1 \/ (i = 1 + 1 /\ t[1 + 1].do = "parking")
    BY <2>1, <2>3
  <2>5. \A i \in 1 .. n : t[i].do # "captureHome"
    BY <2>2, <2>4
  <2> QED BY <2>5, Zenon DEF Captures, n
<1>3. CASE Head(q).do = "slewing"
  BY <1>2, <1>3
<1>4. CASE Head(q).do # "slewing"
  <2> DEFINE t == Tail(q)
  <2>1. t \in Seq(Step) /\ ~Captures(t)
    BY <1>1, <1>2, <1>4
  <2>2. /\ Len(q) \in Nat /\ Len(q) >= 1 /\ Len(t) = Len(q) - 1 /\ q[1] = Head(q)
        /\ \A i \in 1 .. Len(t) : t[i] = q[i + 1]
    BY TailParts, Zenon
  <2> HIDE DEF t
  <2>3. q[1].do # "captureHome"
    BY <2>2 DEF Slews, Is
  <2>4. ASSUME NEW i \in 1 .. Len(q), q[i].do = "captureHome" PROVE FALSE
    <3>1. i # 1
      BY <2>3, <2>4
    <3>2. i - 1 \in 1 .. Len(t) /\ (i - 1) + 1 = i
      BY <2>2, <3>1
    <3>3. t[i - 1] = q[i]
      BY <2>2, <3>2
    <3> QED BY <2>1, <2>4, <3>2, <3>3, Zenon DEF Captures
  <2> QED BY <2>4, Zenon DEF Captures
<1> QED BY <1>3, <1>4

(* A step that moves the mount no further. *)
LEMMA CapStep ==
  ASSUME NEW c \in Callers, CaptureInv(c), fw'.pos = fw.pos, fw'.motion = fw.motion,
         OnLine' \/ tok'[c].k = "CHO" => (OnLine \/ tok[c].k = "CHO") /\ (m.slewing => m'.slewing),
         FoundPast(c)', FoundAsked',
         m'.homeCapturePending => m.homeCapturePending \/ (~Moving /\ fw.pos = "home"),
         Moving /\ Starts(c) => Starts(c)',
         Captures(todo'[c]) => Captures(todo[c]) \/ (fw.pos = "home" /\ fw.motion = "idle" /\ HomeReads),
         fw.pos = "home" /\ HomeReads => HomeReads',
         Captured(c)', m'.home \in {m.home, "home"}
  PROVE  CaptureInv(c)'
<1>1. Found(c) /\ Pending(c) /\ Capturing(c) /\ HomeIsHome
  BY DEF CaptureInv
<1>2. Moving' <=> Moving
  BY DEF Moving
<1>3. Found(c)'
  BY <1>1, Zenon DEF Found
<1>4. Pending(c)'
  BY <1>1, <1>2, Zenon DEF Pending
<1>5. Capturing(c)'
  <2>1. Captures(todo[c]) => fw.pos = "home" /\ fw.motion = "idle" /\ HomeReads
    BY <1>1, Zenon DEF Capturing, HomeReads
  <2>2. Captures(todo'[c]) => fw'.pos = "home" /\ fw'.motion = "idle" /\ HomeReads'
    BY <2>1, Zenon
  <2> QED BY <2>2, Zenon DEF Capturing, HomeReads
<1>6. HomeIsHome'
  BY <1>1 DEF HomeIsHome
<1> QED BY <1>3, <1>4, <1>5, <1>6, Zenon DEF CaptureInv

(* With no answer under way there is nothing to say of one. *)
LEMMA Unanswered ==
  ASSUME NEW c \in Callers, SessionInv(c), ~at(c, "match")
  PROVE  NoQuery /\ FoundAsked /\ HomeReads
<1>1. NoQuery
  BY Zenon DEF SessionInv, Answer
<1>2. \A i \in Unread : inbox[i].k # "AH" /\ inbox[i].k # "G"
  BY <1>1 DEF NoQuery, Query
<1> QED BY <1>1, <1>2, Zenon DEF FoundAsked, HomeReads

(* The same of the next state. *)
LEMMA UnansweredNext ==
  ASSUME NEW c \in Callers, SessionInv(c)', ~at(c, "match")'
  PROVE  NoQuery' /\ FoundAsked' /\ HomeReads'
<1>1. NoQuery'
  BY Zenon DEF SessionInv, Answer
<1>2. \A i \in Unread' : inbox'[i].k # "AH" /\ inbox'[i].k # "G"
  BY <1>1 DEF NoQuery, Query
<1> QED BY <1>1, <1>2, Zenon DEF FoundAsked, HomeReads

(* A step that leaves no query under way. *)
LEMMA CapOn ==
  ASSUME NEW c \in Callers, CaptureInv(c), SessionInv(c)', ~at(c, "match")', ~at(c, "captureHome")',
         ~Past(c)' \/ ~OnLine',
         fw'.pos = fw.pos, fw'.motion = fw.motion,
         OnLine' \/ tok'[c].k = "CHO" => (OnLine \/ tok[c].k = "CHO") /\ (m.slewing => m'.slewing),
         m'.homeCapturePending => m.homeCapturePending \/ (~Moving /\ fw.pos = "home"),
         Moving /\ Starts(c) => Starts(c)',
         Captures(todo'[c]) => Captures(todo[c]) \/ (fw.pos = "home" /\ fw.motion = "idle" /\ HomeReads),
         m'.home \in {m.home, "home"}
  PROVE  CaptureInv(c)'
<1>1. FoundAsked' /\ HomeReads'
  BY UnansweredNext, Zenon
<1>2. FoundPast(c)' /\ Captured(c)'
  BY Zenon DEF FoundPast, Captured
<1> QED BY <1>1, <1>2, CapStep

(* A step on the driver's own state. *)
LEMMA CapQuiet ==
  ASSUME NEW c \in Callers, CaptureInv(c), SessionInv(c)', ~at(c, "match")', ~at(c, "captureHome")',
         ~Past(c)' \/ ~OnLine', fw' = fw, inbox' = inbox, tok' = tok,
         m'.slewing = m.slewing, m'.homeCapturePending => m.homeCapturePending, m'.home = m.home,
         ~Starts(c) \/ Starts(c)', Captures(todo'[c]) => Captures(todo[c])
  PROVE  CaptureInv(c)'
<1>1. OnLine' <=> OnLine
  BY DEF OnLine, Unread
<1>2. OnLine' \/ tok'[c].k = "CHO" => (OnLine \/ tok[c].k = "CHO") /\ (m.slewing => m'.slewing)
  BY <1>1
<1>3. m'.home \in {m.home, "home"}
  OBVIOUS
<1> QED BY <1>2, <1>3, CapOn

(* Where a caller is not, once it has gone on. *)
LEMMA CapNext ==
  ASSUME TypeOK, NEW c \in Callers, NEW s, at(c, s), Shape(todo[c]), proceed(c),
         s \notin {"write", "match", "refuseWhileHoming"}, ~sends(c, "Q")
  PROVE  ~Past(c)' /\ ~at(c, "match")' /\ ~at(c, "captureHome")'
<1>0. Head(todo[c]).do = s
  BY DEF at
<1>1. /\ \A d \in Reading : ~at(c, d)'
      /\ at(c, "refuseWhileHoming")' \/ at(c, "notHoming")' => Asks(Head(todo[c]), "AH")
      /\ at(c, "captureHome")' => Asks(Head(todo[c]), "G")
      /\ sends(c, "Q")' => s = "refuseWhileHoming"
      /\ at(c, "still")' => sends(c, "Q")
  BY Onward, Zenon
<1>2. ~Asks(Head(todo[c]), "AH") /\ ~Asks(Head(todo[c]), "G")
  BY <1>0 DEF Asks
<1> QED BY <1>1, <1>2 DEF Past, Reading

(* A caller without a list. *)
LEMMA CapIdle ==
  ASSUME NEW c \in Callers, todo[c] = <<>>
  PROVE  ~Past(c) /\ ~Starts(c) /\ ~Captures(todo[c]) /\ \A s : ~at(c, s)
<1>1. \A s : ~at(c, s)
  BY DEF at
<1>2. ~Captures(todo[c])
  BY DEF Captures
<1> QED BY <1>1, <1>2, Zenon DEF Past, Starts, opening, sends

(* The same of the next state. *)
LEMMA CapIdleNext ==
  ASSUME NEW c \in Callers, todo'[c] = <<>>
  PROVE  ~Past(c)' /\ ~Starts(c)' /\ ~Captures(todo'[c]) /\ ~at(c, "match")' /\ ~at(c, "captureHome")'
<1>1. \A s : ~at(c, s)'
  BY DEF at
<1>2. ~Captures(todo'[c])
  BY DEF Captures
<1> QED BY <1>1, <1>2, Zenon DEF Past, Starts, opening, sends

(* Steps at which nothing is being started. *)
LEMMA NotStarting ==
  ASSUME NEW c \in Callers, NEW s, at(c, s), s \notin {"window", "slewing", "applyToken"}
  PROVE  ~Starts(c)
BY DEF Starts, opening, at

(* A step done. *)
LEMMA CapPass ==
  ASSUME TypeOK, NEW c \in Callers, NEW s, at(c, s), SessionInv(c), CaptureInv(c), SessionInv(c)', proceed(c),
         s \notin {"write", "match", "refuseWhileHoming", "applyToken", "window", "slewing"}, ~sends(c, "Q"),
         fw' = fw, inbox' = inbox, tok' = tok,
         m'.slewing = m.slewing, m'.homeCapturePending => m.homeCapturePending, m'.home = m.home
  PROVE  CaptureInv(c)'
<1>1. Shape(todo[c])
  BY DEF SessionInv
<1>2. ~Past(c)' /\ ~at(c, "match")' /\ ~at(c, "captureHome")'
  BY <1>1, CapNext
<1>3. ~Starts(c)
  BY NotStarting
<1>4. Captures(todo'[c]) => Captures(todo[c])
  BY CapturesOnward, Zenon
<1> QED BY <1>2, <1>3, <1>4, CapQuiet

(* An early return. *)
LEMMA CapDrop ==
  ASSUME TypeOK, NEW c \in Callers, NEW s, at(c, s), SessionInv(c), CaptureInv(c), SessionInv(c)', giveUp(c),
         s \notin {"applyToken", "window", "slewing"},
         fw' = fw, inbox' = inbox, tok' = tok,
         m'.slewing = m.slewing, m'.homeCapturePending => m.homeCapturePending, m'.home = m.home
  PROVE  CaptureInv(c)'
<1>1. todo'[c] = <<>>
  BY CapturesOnward, Zenon
<1>2. ~Past(c)' /\ ~at(c, "match")' /\ ~at(c, "captureHome")' /\ ~Captures(todo'[c])
  BY <1>1, CapIdleNext, Zenon
<1>3. ~Starts(c)
  BY NotStarting
<1> QED BY <1>2, <1>3, CapQuiet

(* Steps put in front. *)
LEMMA CapNest ==
  ASSUME TypeOK, NEW c \in Callers, NEW s, at(c, s), SessionInv(c), CaptureInv(c), SessionInv(c)',
         s \notin {"applyToken", "window", "slewing"},
         NEW p \in Seq(Step), ~Captures(p), insert(c, p),
         todo'[c] # <<>>, Head(todo'[c]).do \in {"drainToken", "maybeCaptureHome", "Get", "Await"},
         fw' = fw, inbox' = inbox, tok' = tok,
         m'.slewing = m.slewing, m'.homeCapturePending => m.homeCapturePending, m'.home = m.home
  PROVE  CaptureInv(c)'
<1>1. Captures(todo'[c]) => Captures(todo[c])
  BY CapturesOnward, Zenon
<1>2. ~Past(c)' /\ ~at(c, "match")' /\ ~at(c, "captureHome")'
  BY DEF Past, at, sends
<1>3. ~Starts(c)
  BY NotStarting
<1> QED BY <1>1, <1>2, <1>3, CapQuiet

(* The head of a list with steps put in front. *)
LEMMA Inserted ==
  ASSUME TypeOK, NEW c \in Callers, NEW s, at(c, s), NEW p \in Seq(Step), p # <<>>, insert(c, p)
  PROVE  todo'[c] # <<>> /\ Head(todo'[c]) = p[1]
<1> DEFINE t == Tail(todo[c])
<1>1. todo[c] \in Seq(Step) /\ todo[c] # <<>> /\ todo \in [Callers -> Seq(Step)] /\ t \in Seq(Step)
  BY HeadTyped DEF at, TypeOK
<1>2. todo'[c] = p \o t
  BY <1>1 DEF insert
<1> HIDE DEF t
<1>3. p \o t # <<>> /\ Head(p \o t) = p[1]
  BY <1>1
<1> QED BY <1>2, <1>3

(* The lists that operations put in front. *)
LEMMA CapLists ==
  /\ ~Captures(get("CY")) /\ ~Captures(get("G") \o step("known")) /\ ~Captures(track("CtL"))
<1>1. Put(get("CY")) /\ Put(get("G")) /\ Put(track("CtL"))
  BY PutQuery, PutTrack, Zenon DEF Query
<1>2. Put(step("known"))
  BY GoodStep, Zenon DEF Put, Single
<1>3. Put(get("G") \o step("known"))
  BY <1>1, <1>2, PutJoin, Zenon
<1> QED BY <1>1, <1>3, Zenon DEF Put, Good, Captures

(* drainToken keeps the invariant. *)
LEMMA DrainTokenCap ==
  ASSUME TypeOK, NEW c \in Callers, SessionInv(c), CaptureInv(c), SessionInv(c)', drainToken(c)
  PROVE  CaptureInv(c)'
<1>1. /\ at(c, "drainToken") /\ inbox' = inbox /\ fw' = fw /\ tok' = tok
      /\ m'.slewing = m.slewing /\ m'.homeCapturePending = m.homeCapturePending /\ m'.home = m.home
      /\ insert(c, step("Await")) \/ proceed(c)
  BY DEF drainToken, TypeOK, MountType
<1>2. CASE proceed(c)
  <2>1. ~sends(c, "Q")
    BY <1>1 DEF sends, at
  <2> QED BY <1>1, <1>2, <2>1, CapPass
<1>3. CASE insert(c, step("Await"))
  <2> DEFINE x == rec("Await", "")
  <2>1. x \in Step /\ x.do = "Await" /\ step("Await") = <<x>>
    BY DEF rec, Step, Does, Command, Gated, Ungated, step
  <2>2. insert(c, <<x>>)
    BY <1>3, <2>1
  <2> HIDE DEF x
  <2>3. <<x>> \in Seq(Step) /\ ~Captures(<<x>>) /\ <<x>> # <<>> /\ <<x>>[1] = x
    BY <2>1, CapturesOne
  <2>4. todo'[c] # <<>> /\ Head(todo'[c]) = <<x>>[1]
    BY <1>1, <2>2, <2>3, Inserted
  <2>5. Head(todo'[c]).do = "Await"
    BY <2>1, <2>3, <2>4
  <2> QED BY <1>1, <2>2, <2>3, <2>4, <2>5, CapNest
<1> QED BY <1>1, <1>2, <1>3

(* maybeFinishPark keeps it. *)
LEMMA FinishParkCap ==
  ASSUME TypeOK, NEW c \in Callers, SessionInv(c), CaptureInv(c), SessionInv(c)', maybeFinishPark(c)
  PROVE  CaptureInv(c)'
<1>1. /\ at(c, "maybeFinishPark") /\ inbox' = inbox /\ fw' = fw /\ tok' = tok
      /\ m'.slewing = m.slewing /\ m'.homeCapturePending = m.homeCapturePending /\ m'.home = m.home
      /\ insert(c, track("CtL")) \/ proceed(c)
  BY DEF maybeFinishPark, TypeOK, MountType
<1>2. CASE proceed(c)
  <2>1. ~sends(c, "Q")
    BY <1>1 DEF sends, at
  <2> QED BY <1>1, <1>2, <2>1, CapPass
<1>3. CASE insert(c, track("CtL"))
  <2> DEFINE p == track("CtL")
  <2>1. p \in Seq(Step) /\ p # <<>> /\ p[1].do = "Get" /\ ~Captures(p) /\ insert(c, p)
    BY <1>3, TrackList, CapLists, Zenon
  <2> HIDE DEF p
  <2>2. todo'[c] # <<>> /\ Head(todo'[c]) = p[1]
    BY <1>1, <2>1, Inserted
  <2> QED BY <1>1, <2>1, <2>2, CapNest
<1> QED BY <1>1, <1>2, <1>3

(* The pending capture is taken: the mount stands at home, and nothing is under way. *)
LEMMA MaybeCaptureCap ==
  ASSUME TypeOK, NEW c \in Callers, SessionInv(c), CaptureInv(c), SessionInv(c)', maybeCaptureHome(c)
  PROVE  CaptureInv(c)'
<1>1. /\ at(c, "maybeCaptureHome") /\ inbox' = inbox /\ fw' = fw /\ tok' = tok
      /\ m'.slewing = m.slewing /\ ~m'.homeCapturePending /\ m'.home = m.home
      /\ (m.homeCapturePending /\ insert(c, coord("G") \o step("captureHome"))) \/ proceed(c)
  BY DEF maybeCaptureHome, TypeOK, MountType
<1>2. CASE proceed(c)
  <2>1. ~sends(c, "Q")
    BY <1>1 DEF sends, at
  <2> QED BY <1>1, <1>2, <2>1, CapPass
<1>3. CASE m.homeCapturePending /\ insert(c, coord("G") \o step("captureHome"))
  <2> DEFINE p == coord("G") \o step("captureHome")
  <2>1. p \in Seq(Step) /\ p # <<>> /\ p[1].do = "drainToken" /\ insert(c, p)
    BY <1>3, CaptureList, Zenon
  <2> HIDE DEF p
  <2>2. todo'[c] # <<>> /\ Head(todo'[c]).do = "drainToken"
    BY <1>1, <2>1, Inserted
  <2>3. ~Past(c)' /\ ~at(c, "match")' /\ ~at(c, "captureHome")'
    BY <2>2 DEF Past, at, sends
  <2>4. ~Starts(c) /\ ~at(c, "match")
    BY <1>1, NotStarting DEF at
  <2>5. HomeReads
    BY <2>4, Unanswered
  <2>6. ~Moving /\ fw.pos = "home"
    BY <1>3, <2>4, Zenon DEF CaptureInv, Pending
  <2>7. fw.motion = "idle"
    BY <2>6 DEF SessionInv, Quiet, Moving
  <2>8. OnLine' <=> OnLine
    BY <1>1 DEF OnLine, Unread
  <2>9. OnLine' \/ tok'[c].k = "CHO" => (OnLine \/ tok[c].k = "CHO") /\ (m.slewing => m'.slewing)
    BY <1>1, <2>8
  <2>10. m'.home \in {m.home, "home"}
    BY <1>1
  <2> QED BY <1>1, <2>3, <2>4, <2>5, <2>6, <2>7, <2>9, <2>10, CapOn
<1> QED BY <1>1, <1>2, <1>3

(* A capture stores what was read. *)
LEMMA CaptureHomeCap ==
  ASSUME TypeOK, NEW c \in Callers, SessionInv(c), CaptureInv(c), SessionInv(c)', captureHome(c)
  PROVE  CaptureInv(c)'
<1>1. /\ at(c, "captureHome") /\ inbox' = inbox /\ fw' = fw /\ tok' = tok /\ proceed(c)
      /\ m'.slewing = m.slewing /\ m'.homeCapturePending = m.homeCapturePending
      /\ m'.home = IF val[c] = "err" THEN m.home ELSE val[c]
  BY DEF captureHome, TypeOK, MountType
<1>2. val[c] \in {"err", "home"}
  BY <1>1 DEF CaptureInv, Captured
<1>3. m'.home \in {m.home, "home"}
  BY <1>1, <1>2
<1>4. ~sends(c, "Q") /\ ~Starts(c) /\ Shape(todo[c])
  BY <1>1, NotStarting DEF sends, at, SessionInv
<1>5. ~Past(c)' /\ ~at(c, "match")' /\ ~at(c, "captureHome")'
  BY <1>1, <1>4, CapNext
<1>6. Captures(todo'[c]) => Captures(todo[c])
  BY <1>1, CapturesOnward, Zenon
<1>7. OnLine' <=> OnLine
  BY <1>1 DEF OnLine, Unread
<1>8. OnLine' \/ tok'[c].k = "CHO" => (OnLine \/ tok[c].k = "CHO") /\ (m.slewing => m'.slewing)
  BY <1>1, <1>7
<1> QED BY <1>1, <1>3, <1>4, <1>5, <1>6, <1>8, CapOn

(* A move is latched, and a pending capture given up. *)
LEMMA SlewingCap ==
  ASSUME TypeOK, NEW c \in Callers, SessionInv(c), CaptureInv(c), SessionInv(c)', setSlewing(c)
  PROVE  CaptureInv(c)'
<1>1. /\ at(c, "slewing") /\ inbox' = inbox /\ fw' = fw /\ tok' = tok /\ proceed(c)
      /\ m'.slewing /\ ~m'.homeCapturePending /\ m'.home = m.home
  BY DEF setSlewing, TypeOK, MountType
<1>2. ~sends(c, "Q") /\ Shape(todo[c])
  BY <1>1 DEF sends, at, SessionInv
<1>3. ~Past(c)' /\ ~at(c, "match")' /\ ~at(c, "captureHome")'
  BY <1>1, <1>2, CapNext
<1>4. ~Captures(todo[c]) /\ (Captures(todo'[c]) => Captures(todo[c]))
  <2>1. todo[c] \in Seq(Step) /\ todo[c] # <<>> /\ Head(todo[c]).do = "slewing"
    BY <1>1, HeadTyped DEF at
  <2> QED BY <1>1, <1>2, <2>1, CapturesNone, CapturesOnward
<1>5. FoundAsked' /\ HomeReads'
  BY <1>3, UnansweredNext, Zenon
<1>6. OnLine' <=> OnLine
  BY <1>1 DEF OnLine, Unread
<1>7. Found(c)' /\ FoundPast(c)' /\ Captured(c)' /\ Pending(c)' /\ Capturing(c)'
  BY <1>1, <1>3, <1>4, <1>6 DEF CaptureInv, Found, FoundPast, Captured, Pending, Capturing
<1>8. HomeIsHome'
  BY <1>1 DEF CaptureInv, HomeIsHome
<1> QED BY <1>5, <1>7, <1>8, Zenon DEF CaptureInv

(* The changes of the other flags keep it. *)
LEMMA FlagsCap ==
  ASSUME TypeOK, NEW c \in Callers, SessionInv(c), CaptureInv(c), SessionInv(c)', flags(c)
  PROVE  CaptureInv(c)'
<1>1. /\ inbox' = inbox /\ fw' = fw /\ tok' = tok /\ proceed(c)
      /\ m'.homeCapturePending = m.homeCapturePending /\ m'.home = m.home
      /\ m'.slewing = m.slewing \/ at(c, "still")
      /\ \E s \in {"still", "moved", "unmoved", "Unpark", "parking", "pulsing"} : at(c, s)
  BY DEF flags, TypeOK, MountType
<1>2. PICK s \in {"still", "moved", "unmoved", "Unpark", "parking", "pulsing"} : at(c, s)
  BY <1>1
<1>3. ~sends(c, "Q") /\ Shape(todo[c]) /\ (at(c, "still") <=> s = "still")
  BY <1>2 DEF sends, at, SessionInv
<1>4. CASE s # "still"
  BY <1>1, <1>2, <1>3, <1>4, CapPass
<1>5. CASE s = "still"
  <2>1. ~Past(c)' /\ ~at(c, "match")' /\ ~at(c, "captureHome")'
    BY <1>1, <1>2, <1>3, <1>5, CapNext
  <2>2. ~Starts(c)
    BY <1>2, NotStarting
  <2>3. Captures(todo'[c]) => Captures(todo[c])
    BY <1>1, <1>2, CapturesOnward, Zenon
  <2>4. ~OnLine
    <3>1. Past(c) /\ ~at(c, "refuseWhileHoming")
      BY <1>2, <1>5 DEF Past, at
    <3> QED BY <3>1, Zenon DEF CaptureInv, FoundPast
  <2>5. tok[c].k # "CHO"
    <3>1. ~at(c, "applyToken")
      BY <1>2, <1>5 DEF at
    <3>2. tok[c].k \notin Term
      BY <3>1, Zenon DEF SessionInv, Token1
    <3> QED BY <3>2 DEF Term
  <2>6. OnLine' <=> OnLine
    BY <1>1 DEF OnLine, Unread
  <2>7. OnLine' \/ tok'[c].k = "CHO" => (OnLine \/ tok[c].k = "CHO") /\ (m.slewing => m'.slewing)
    BY <1>1, <2>4, <2>5, <2>6, Zenon
  <2>8. m'.home \in {m.home, "home"} /\ fw'.pos = fw.pos /\ fw'.motion = fw.motion
    BY <1>1
  <2> QED BY <1>1, <2>1, <2>2, <2>3, <2>7, <2>8, CapOn
<1> QED BY <1>4, <1>5

(* The checks keep it. *)
LEMMA ChecksCap ==
  ASSUME TypeOK, NEW c \in Callers, SessionInv(c), CaptureInv(c), SessionInv(c)', checks(c)
  PROVE  CaptureInv(c)'
<1> DEFINE S == {"requireHome", "known", "accepted", "unlessParked", "ifParked", "notHoming", "refuseWhileHoming"}
<1>1. /\ inbox' = inbox /\ fw' = fw /\ tok' = tok /\ m' = m
      /\ \E s \in S : at(c, s) /\ (giveUp(c) \/ (proceed(c) /\ (s = "refuseWhileHoming" => val[c] # "1")))
  BY DEF checks, proceedIf
<1>2. PICK s \in S : at(c, s) /\ (giveUp(c) \/ (proceed(c) /\ (s = "refuseWhileHoming" => val[c] # "1")))
  BY <1>1
<1>3. ~sends(c, "Q") /\ Shape(todo[c])
  BY <1>2 DEF sends, at, SessionInv
<1>4. CASE giveUp(c)
  BY <1>1, <1>2, <1>4, CapDrop
<1>5. CASE proceed(c) /\ s # "refuseWhileHoming"
  BY <1>1, <1>2, <1>3, <1>5, CapPass
<1>6. CASE proceed(c) /\ s = "refuseWhileHoming" /\ val[c] # "1"
  <2>1. ~OnLine
    <3>1. Past(c)
      BY <1>2, <1>6 DEF Past
    <3> QED BY <1>6, <3>1, Zenon DEF CaptureInv, FoundPast
  <2>2. ~OnLine'
    BY <1>1, <2>1 DEF OnLine, Unread
  <2>3. ~at(c, "match")' /\ ~at(c, "captureHome")'
    <3>1. /\ \A d \in Reading : ~at(c, d)'
          /\ at(c, "captureHome")' => Asks(Head(todo[c]), "G")
      BY <1>2, <1>3, <1>6, Onward, Zenon
    <3>2. ~Asks(Head(todo[c]), "G")
      BY <1>2, <1>6 DEF Asks, at
    <3> QED BY <3>1, <3>2 DEF Reading
  <2>4. ~Starts(c)
    BY <1>2, <1>6, NotStarting
  <2>5. Captures(todo'[c]) => Captures(todo[c])
    BY <1>2, <1>6, CapturesOnward, Zenon
  <2> QED BY <1>1, <2>2, <2>3, <2>4, <2>5, CapQuiet
<1> QED BY <1>2, <1>4, <1>5, <1>6

(* What Slewing reports keeps it. *)
LEMMA ReportCap ==
  ASSUME TypeOK, NEW c \in Callers, SessionInv(c), CaptureInv(c), SessionInv(c)', parkedAlready(c) \/ report(c)
  PROVE  CaptureInv(c)'
<1>1. /\ inbox' = inbox /\ fw' = fw /\ tok' = tok
      /\ m'.slewing = m.slewing /\ m'.homeCapturePending = m.homeCapturePending /\ m'.home = m.home
      /\ at(c, "parked") \/ at(c, "Slewing")
      /\ proceed(c) \/ giveUp(c)
  BY DEF parkedAlready, report, TypeOK, MountType
<1>2. ~sends(c, "Q")
  BY <1>1 DEF sends, at
<1> QED BY <1>1, <1>2, CapPass, CapDrop

(* The steps of the Alpaca members keep it. *)
LEMMA AlpacaCap ==
  ASSUME TypeOK, NEW c \in Callers, SessionInv(c), CaptureInv(c), SessionInv(c)',
         polePosition(c) \/ parkState(c) \/ reportPark(c)
  PROVE  CaptureInv(c)'
<1> DEFINE S == {"polePosition", "stopped", "notUnparked", "axes", "atPark", "atHome"}
<1>1. /\ inbox' = inbox /\ fw' = fw /\ tok' = tok /\ m' = m
      /\ \/ \E s \in S : at(c, s) /\ proceed(c)
         \/ at(c, "polePosition") /\ insert(c, get("G") \o step("known"))
         \/ at(c, "axes") /\ insert(c, get("CY"))
  BY DEF polePosition, parkState, reportPark, AtPark
<1>2. CASE \E s \in S : at(c, s) /\ proceed(c)
  <2>1. PICK s \in S : at(c, s) /\ proceed(c)
    BY <1>2
  <2>2. ~sends(c, "Q")
    BY <2>1 DEF sends, at
  <2> QED BY <1>1, <2>1, <2>2, CapPass
<1>3. CASE at(c, "polePosition") /\ insert(c, get("G") \o step("known"))
  <2> DEFINE p == get("G") \o step("known")
  <2>1. p \in Seq(Step) /\ p # <<>> /\ p[1].do = "maybeCaptureHome" /\ ~Captures(p) /\ insert(c, p)
    BY <1>3, LatitudeList, CapLists, Zenon
  <2> HIDE DEF p
  <2>2. todo'[c] # <<>> /\ Head(todo'[c]) = p[1]
    BY <1>3, <2>1, Inserted
  <2> QED BY <1>1, <1>3, <2>1, <2>2, CapNest
<1>4. CASE at(c, "axes") /\ insert(c, get("CY"))
  <2> DEFINE p == get("CY")
  <2>1. p \in Seq(Step) /\ p # <<>> /\ p[1].do = "maybeCaptureHome" /\ ~Captures(p) /\ insert(c, p)
    BY <1>4, QueryList, CapLists, Zenon
  <2> HIDE DEF p
  <2>2. todo'[c] # <<>> /\ Head(todo'[c]) = p[1]
    BY <1>4, <2>1, Inserted
  <2> QED BY <1>1, <1>4, <2>1, <2>2, CapNest
<1> QED BY <1>1, <1>2, <1>3, <1>4

(* A call. *)
LEMMA CallCap ==
  ASSUME TypeOK, NEW c \in Callers, Lone(c), SessionInv(c), CaptureInv(c), SessionInv(c)', NEW op \in Ops[c], call(c, op)
  PROVE  CaptureInv(c)'
<1>1. /\ todo[c] = <<>> /\ todo'[c] = program(op)
      /\ inbox' = inbox /\ fw' = fw /\ tok' = tok /\ m' = m
  BY DEF call, TypeOK
<1>2. Good(todo'[c])
  BY <1>1, GoodProgram, Zenon
<1>3. ~Captures(todo'[c]) /\ ~Starts(c)
  BY <1>1, <1>2, CapIdle, Zenon DEF Good, Captures
<1>4. ~Past(c)' /\ ~at(c, "match")' /\ ~at(c, "captureHome")'
  <2> DEFINE q == todo'[c]
  <2>1. q \in Seq(Step) /\ Leads(q)
    BY <1>2 DEF Good
  <2>2. q # <<>> => Head(q) = q[1] /\ Free(q[1])
    <3> HIDE DEF q
    <3> QED BY <2>1 DEF Leads
  <2> QED BY <2>2 DEF Past, at, sends, cmd, Free, Is, Reading
<1> QED BY <1>1, <1>3, <1>4, CapQuiet

(* So does a step that changes nothing it speaks of. *)
LEMMA SameCap ==
  ASSUME NEW c \in Callers, CaptureInv(c),
         m'.slewing = m.slewing, m'.homeCapturePending = m.homeCapturePending, m'.home = m.home,
         fw' = fw, inbox' = inbox, todo' = todo, val' = val, tok' = tok
  PROVE  CaptureInv(c)'
<1>2. /\ OnLine' <=> OnLine
      /\ FoundAsked' <=> FoundAsked
      /\ HomeReads' <=> HomeReads
      /\ FoundPast(c)' <=> FoundPast(c)
      /\ Captured(c)' <=> Captured(c)
      /\ Starts(c)' <=> Starts(c)
  BY DEF OnLine, Unread, FoundAsked, HomeReads, FoundPast, Captured, Past, Starts, at, sends, opening, followedBy, cmd
<1>3. FoundPast(c) /\ FoundAsked /\ Captured(c)
  BY DEF CaptureInv
<1>4. OnLine' \/ tok'[c].k = "CHO" => (OnLine \/ tok[c].k = "CHO") /\ (m.slewing => m'.slewing)
  BY <1>2
<1>5. m'.home \in {m.home, "home"}
  OBVIOUS
<1> QED BY <1>2, <1>3, <1>4, <1>5, CapStep

(* Time passing keeps it. *)
LEMMA TtlCap ==
  ASSUME TypeOK, NEW c \in Callers, CaptureInv(c), ttl
  PROVE  CaptureInv(c)'
<1>1. /\ m'.slewing = m.slewing /\ m'.homeCapturePending = m.homeCapturePending /\ m'.home = m.home
      /\ fw' = fw /\ inbox' = inbox /\ todo' = todo /\ val' = val /\ tok' = tok
  BY DEF ttl, TypeOK, MountType
<1> QED BY <1>1, SameCap

(* What a token does to the record of the home position. *)
LEMMA ApplyHome ==
  ASSUME NEW mm \in MountType, NEW k \in Kind
  PROVE  /\ applyToken(mm, k).home = mm.home
         /\ applyToken(mm, k).homeCapturePending => mm.homeCapturePending \/ k = "CHO"
BY DEF applyToken, MountType

(* A token applied: a home seek has ended, and the mount stands where it did. *)
LEMMA ApplyCap ==
  ASSUME TypeOK, NEW c \in Callers, SessionInv(c), CaptureInv(c), SessionInv(c)', apply(c)
  PROVE  CaptureInv(c)'
<1>1. /\ at(c, "applyToken") /\ inbox' = inbox /\ fw' = fw
      /\ m' = applyToken(m, tok[c].k) /\ tok'[c] = NoFrame /\ proceed(c)
  BY DEF apply, TypeOK
<1>2. /\ m'.home = m.home /\ (m'.homeCapturePending => m.homeCapturePending \/ tok[c].k = "CHO")
      /\ tok[c].k \notin Term => m'.slewing = m.slewing
  <2>1. m \in MountType /\ tok[c].k \in Kind
    BY DEF TypeOK, Frame
  <2> QED BY <1>1, <2>1, ApplyHome, ApplyLatch
<1>3. ~sends(c, "Q") /\ Shape(todo[c])
  BY <1>1 DEF sends, at, SessionInv
<1>4. ~Past(c)' /\ ~at(c, "match")' /\ ~at(c, "captureHome")'
  BY <1>1, <1>3, CapNext
<1>5. Captures(todo'[c]) => Captures(todo[c])
  BY <1>1, CapturesOnward, Zenon
<1>6. tok[c].k = "CHO" => ~Moving /\ fw.pos = "home"
  BY DEF CaptureInv, Found, Moving
<1>7. Starts(c) => Starts(c)'
  <2>1. todo'[c] = Tail(todo[c])
    BY <1>1, <1>3, Onward, Zenon
  <2>2. ~opening(c) /\ ~at(c, "slewing")
    BY <1>1 DEF opening, at
  <2> QED BY <2>1, <2>2, Zenon DEF Starts, followedBy, at
<1>8. OnLine' <=> OnLine
  BY <1>1 DEF OnLine, Unread
<1>9. tok'[c].k # "CHO"
  <2>1. NoFrame.k # "CHO"
    BY DEF NoFrame
  <2> QED BY <1>1, <2>1, Zenon
<1>10. OnLine => tok[c].k \notin Term
  <2>1. tok[c].k \in Term => NoTerm
    BY Zenon DEF SessionInv, Token1
  <2>2. NoTerm => ~OnLine
    BY DEF NoTerm, OnLine, Term
  <2> QED BY <2>1, <2>2
<1>11. OnLine' \/ tok'[c].k = "CHO" => (OnLine \/ tok[c].k = "CHO") /\ (m.slewing => m'.slewing)
  BY <1>2, <1>8, <1>9, <1>10
<1>12. m'.home \in {m.home, "home"}
  BY <1>2
<1>13. m'.homeCapturePending => m.homeCapturePending \/ (~Moving /\ fw.pos = "home")
  BY <1>2, <1>6
<1> QED BY <1>1, <1>4, <1>5, <1>7, <1>11, <1>12, <1>13, CapOn

(* A token is held only until it is applied. *)
LEMMA NoToken ==
  ASSUME NEW c \in Callers, SessionInv(c), ~at(c, "applyToken")
  PROVE  tok[c].k # "CHO"
<1>1. tok[c].k \notin Term
  BY Zenon DEF SessionInv, Token1
<1> QED BY <1>1 DEF Term

(* Frames the mount sends. *)
LEMMA CapAppend ==
  ASSUME TypeOK, NEW g \in Frame, inbox' = Append(inbox, g)
  PROVE  /\ OnLine' => OnLine \/ g.k = "CHO"
         /\ FoundAsked /\ g.k # "CHO" => FoundAsked'
         /\ HomeReads /\ (g.k = "G" => g.v = "home") => HomeReads'
<1>1. /\ Len(inbox) \in Nat /\ Len(inbox') = Len(inbox) + 1
      /\ \A i \in Unread : inbox'[i] = inbox[i]
      /\ inbox'[Len(inbox) + 1] = g
  <2>1. inbox \in Seq(Frame)
    BY DEF TypeOK
  <2> QED BY <2>1, AppendParts DEF Unread
<1>2. \A i \in Unread' : (i \in Unread /\ inbox'[i] = inbox[i]) \/ (i = Len(inbox) + 1 /\ inbox'[i] = g)
  BY <1>1 DEF Unread
<1>3. \A i, j \in Unread' : i \in Unread /\ j < i => j \in Unread /\ inbox'[j] = inbox[j]
  BY <1>1 DEF Unread
<1>4. OnLine' => OnLine \/ g.k = "CHO"
  BY <1>2, Zenon DEF OnLine
<1>5. FoundAsked /\ g.k # "CHO" => FoundAsked'
  <2> SUFFICES ASSUME FoundAsked, g.k # "CHO", NEW i \in Unread', NEW j \in Unread',
                      inbox'[i].k = "CHO", inbox'[j].k = "AH", j < i
               PROVE  inbox'[j].v = "1"
    BY DEF FoundAsked
  <2>1. i \in Unread /\ inbox'[i] = inbox[i]
    BY <1>2
  <2>2. j \in Unread /\ inbox'[j] = inbox[j]
    BY <1>3, <2>1
  <2> QED BY <2>1, <2>2 DEF FoundAsked
<1>6. HomeReads /\ (g.k = "G" => g.v = "home") => HomeReads'
  BY <1>2, Zenon DEF HomeReads
<1> QED BY <1>4, <1>5, <1>6

(* The halt: no home token is on the line. *)
LEMMA StopCap ==
  ASSUME TypeOK, NEW c \in Callers, SessionInv(c), CaptureInv(c), SessionInv(c)', sends(c, "Q"), blind(c)
  PROVE  CaptureInv(c)'
<1>1. /\ at(c, "Blind") /\ cmd(c) = "Q" /\ obey("Q") /\ proceed(c) /\ m' = m /\ tok' = tok
  BY DEF sends, blind
<1>2. inbox' = inbox /\ fw'.motion = "idle" /\ fw'.pos = fw.pos
  BY <1>1 DEF obey, silent, TypeOK, FirmwareType, Refusal
<1>3. ~Starts(c) /\ ~at(c, "applyToken") /\ Shape(todo[c]) /\ ~Asks(Head(todo[c]), "G")
  BY <1>1, NotStarting DEF at, SessionInv, Asks
<1>4. ~OnLine /\ tok[c].k # "CHO"
  <2>1. Past(c) /\ ~at(c, "refuseWhileHoming")
    BY <1>1 DEF Past, at
  <2> QED BY <1>3, <2>1, NoToken, Zenon DEF CaptureInv, FoundPast
<1>5. ~OnLine'
  BY <1>2, <1>4 DEF OnLine, Unread
<1>6. ~at(c, "match")' /\ ~at(c, "captureHome")'
  BY <1>1, <1>3, Onward DEF Reading
<1>7. Captures(todo'[c]) => Captures(todo[c])
  BY <1>1, CapturesOnward, Zenon
<1>8. FoundAsked' /\ HomeReads'
  BY <1>6, UnansweredNext, Zenon
<1>9. Found(c)' /\ FoundPast(c)' /\ Captured(c)'
  BY <1>1, <1>4, <1>5, <1>6, Zenon DEF Found, FoundPast, Captured
<1>10. Pending(c)'
  <2>1. m.homeCapturePending => fw.pos = "home"
    BY <1>3, Zenon DEF CaptureInv, Pending
  <2>2. ~Moving'
    BY <1>2 DEF Moving
  <2> QED BY <1>1, <1>2, <2>1, <2>2 DEF Pending
<1>11. Capturing(c)'
  <2>1. Captures(todo[c]) => fw.pos = "home"
    BY Zenon DEF CaptureInv, Capturing
  <2>2. Captures(todo'[c]) => fw'.pos = "home" /\ fw'.motion = "idle" /\ HomeReads'
    BY <1>2, <1>7, <1>8, <2>1
  <2> QED BY <2>2, Zenon DEF Capturing, HomeReads
<1>12. HomeIsHome'
  BY <1>1 DEF CaptureInv, HomeIsHome
<1> QED BY <1>8, <1>9, <1>10, <1>11, <1>12, Zenon DEF CaptureInv

(* The seek starts with nothing on the line, and its latch follows. *)
LEMMA SeekCap ==
  ASSUME TypeOK, NEW c \in Callers, SessionInv(c), CaptureInv(c), SessionInv(c)', sends(c, "Ch"), blind(c)
  PROVE  CaptureInv(c)'
<1>1. /\ at(c, "Blind") /\ cmd(c) = "Ch" /\ obey("Ch") /\ proceed(c) /\ m' = m /\ tok' = tok
  BY DEF sends, blind
<1>2. ~Starts(c) /\ ~at(c, "applyToken") /\ Shape(todo[c])
  BY <1>1, NotStarting DEF at, SessionInv
<1>3. todo[c] \in Seq(Step) /\ todo[c] # <<>> /\ Is(Head(todo[c]), "Blind", "Ch")
  BY <1>1, HeadTyped DEF at, cmd, Is
<1>4. inbox = <<>> /\ ~OnLine
  <2>1. inbox = <<>>
    BY Zenon DEF SessionInv, Seek
  <2> QED BY <2>1 DEF OnLine, Unread
<1>5. /\ fw'.pos = fw.pos \/ Moving'
      /\ inbox' = inbox \/ inbox' = Append(inbox, frame("CH<"))
  <2>1. \/ inbox' = inbox /\ fw' = fw
        \/ inbox' = inbox /\ fw' = [fw EXCEPT !.motion = "home", !.pos = "sky", !.mute = FALSE]
        \/ inbox' = Append(inbox, frame("CH<")) /\ fw' = fw
    BY <1>1 DEF obey, silent, answer, Refusal
  <2>2. fw' = [fw EXCEPT !.motion = "home", !.pos = "sky", !.mute = FALSE] => Moving'
    BY DEF TypeOK, FirmwareType, Moving
  <2> QED BY <2>1, <2>2
<1>6. ~OnLine'
  <2>1. frame("CH<") \in Frame /\ frame("CH<").k # "CHO"
    BY DEF frame, Frame, Kind, Token, Fault, Value
  <2>2. CASE inbox' = inbox
    BY <1>4, <2>2 DEF OnLine, Unread
  <2>3. CASE inbox' = Append(inbox, frame("CH<"))
    BY <1>4, <2>1, <2>3, CapAppend
  <2> QED BY <1>5, <2>2, <2>3
<1>7. Starts(c)' /\ ~at(c, "match")' /\ ~at(c, "captureHome")'
  <2>1. todo'[c] = Tail(todo[c]) /\ Tail(todo[c]) # <<>> /\ Head(Tail(todo[c])).do = "slewing"
    BY <1>1, <1>2, <1>3, Later, Onward
  <2> QED BY <2>1 DEF Starts, at
<1>8. ~Captures(todo'[c])
  BY <1>1, <1>2, <1>3, CapturesNone, CapturesOnward
<1>9. FoundAsked'
  BY <1>7, UnansweredNext, Zenon
<1>10. tok[c].k # "CHO"
  BY <1>2, NoToken
<1>11. Found(c)' /\ FoundPast(c)' /\ Captured(c)' /\ Capturing(c)'
  BY <1>1, <1>6, <1>7, <1>8, <1>10, Zenon DEF Found, FoundPast, Captured, Capturing
<1>12. Pending(c)'
  <2>1. m.homeCapturePending => fw.pos = "home"
    BY <1>2, Zenon DEF CaptureInv, Pending
  <2> QED BY <1>1, <1>5, <1>7, <2>1, Zenon DEF Pending
<1>13. HomeIsHome'
  BY <1>1 DEF CaptureInv, HomeIsHome
<1> QED BY <1>9, <1>11, <1>12, <1>13, Zenon DEF CaptureInv

(* A command without an answer keeps it. *)
LEMMA BlindCap ==
  ASSUME TypeOK, NEW c \in Callers, SessionInv(c), CaptureInv(c), SessionInv(c)', blind(c)
  PROVE  CaptureInv(c)'
<1>1. /\ at(c, "Blind") /\ obey(cmd(c)) /\ proceed(c) /\ m' = m /\ tok' = tok
  BY DEF blind
<1>2. cmd(c) \in {"Sz", "Sa", "Q", "Ch"}
  <2>1. todo[c] \in Seq(Step) /\ todo[c] # <<>> /\ Shape(todo[c]) /\ Head(todo[c]).do = "Blind"
    BY <1>1, HeadTyped DEF SessionInv, at
  <2>2. Proper(Head(todo[c]))
    BY <2>1, Later
  <2> QED BY <2>1, <2>2 DEF Proper, cmd
<1>3. CASE cmd(c) = "Q"
  BY <1>1, <1>3, StopCap DEF sends
<1>4. CASE cmd(c) = "Ch"
  BY <1>1, <1>4, SeekCap DEF sends
<1>5. CASE cmd(c) \in {"Sz", "Sa"}
  <2>1. inbox' = inbox /\ fw' = fw
    BY <1>1, <1>5 DEF obey, silent, Refusal
  <2>2. ~sends(c, "Q")
    BY <1>1, <1>5 DEF sends, at
  <2> QED BY <1>1, <2>1, <2>2, CapPass
<1> QED BY <1>2, <1>3, <1>4, <1>5

(* A slew is sent with no home token about: it is latched next. *)
LEMMA SlewNackCap ==
  ASSUME TypeOK, NEW c \in Callers, Lone(c), SessionInv(c), CaptureInv(c), SessionInv(c)', SlewNack(c)
  PROVE  CaptureInv(c)'
<1> DEFINE x == rec("window", cmd(c))
           h == Head(todo[c])
<1>1. /\ Shape(todo[c]) /\ todo[c] \in Seq(Step) /\ todo[c] # <<>> /\ h.do = "slewCmd" /\ h.cmd = cmd(c)
      /\ at(c, "slewCmd") /\ m' = m /\ tok' = tok /\ ~at(c, "applyToken")
      /\ (giveUp(c) /\ fw' = fw /\ inbox' = inbox) \/ (obey(cmd(c)) /\ insert(c, on("window", cmd(c))))
  BY HeadTyped DEF SessionInv, at, cmd, SlewNack
<1>2. CASE giveUp(c) /\ fw' = fw /\ inbox' = inbox
  BY <1>1, <1>2, CapDrop
<1>3. CASE obey(cmd(c)) /\ insert(c, on("window", cmd(c)))
  <2>1. h \in Step /\ cmd(c) \in {"MS", "MA", "Ck", "CM"}
    <3>1. Proper(h) /\ h \in Step
      BY <1>1, Later
    <3> QED BY <1>1, <3>1 DEF Proper
  <2>2. x \in Step /\ on("window", cmd(c)) = <<x>> /\ x.do = "window" /\ x.cmd = cmd(c)
    BY <1>1, <2>1 DEF rec, on, Step, Does, Command, Gated, Ungated, Query
  <2>3. fw.motion = "idle" /\ ~m.slewing
    <3>1. ~Asking(todo[c])
      <4>1. 1 \in 1 .. Len(todo[c]) /\ todo[c][1] = h
        BY <1>1
      <4> QED BY <1>1, <4>1 DEF Asking, Commanding
    <3> QED BY <3>1 DEF SessionInv, Calm
  <2>4. /\ (fw'.pos = fw.pos /\ fw'.motion = fw.motion) \/ (cmd(c) \in {"MS", "MA"} /\ Moving')
        /\ inbox' = inbox \/ \E g \in Frame : inbox' = Append(inbox, g) /\ g.k # "CHO"
    <3>1. CASE cmd(c) \in {"MS", "MA"}
      <4>1. \/ inbox' = Append(inbox, frame(cmd(c))) /\ fw' = fw
            \/ inbox' = inbox /\ fw'.motion = "goto"
            \/ inbox' = inbox /\ fw'.pos = fw.pos /\ fw'.motion = fw.motion
        BY <1>3, <2>3, <3>1 DEF obey, answer, silent, TypeOK, FirmwareType
      <4>2. frame(cmd(c)) \in Frame /\ frame(cmd(c)).k # "CHO"
        BY <3>1 DEF frame, Frame, Kind, Refusal, Value
      <4> QED BY <3>1, <4>1, <4>2 DEF Moving
    <3>2. CASE cmd(c) \in {"Ck", "CM"}
      <4>1. /\ inbox' = Append(inbox, frame("CMF")) \/ inbox' = Append(inbox, frame("CM"))
            /\ fw'.pos = fw.pos /\ fw'.motion = fw.motion
        BY <1>3, <3>2 DEF obey, answer, silent, Refusal, Lone, TypeOK, FirmwareType
      <4>2. /\ frame("CMF") \in Frame /\ frame("CMF").k # "CHO"
            /\ frame("CM") \in Frame /\ frame("CM").k # "CHO"
        BY DEF frame, Frame, Kind, Token, Fault, Value
      <4> QED BY <4>1, <4>2
    <3> QED BY <2>1, <3>1, <3>2
  <2>5. ~OnLine /\ tok[c].k # "CHO"
    BY <1>1, <2>3, NoToken DEF CaptureInv, Found
  <2>6. ~OnLine'
    <3>1. CASE inbox' = inbox
      BY <2>5, <3>1 DEF OnLine, Unread
    <3>2. ASSUME NEW g \in Frame, inbox' = Append(inbox, g), g.k # "CHO" PROVE ~OnLine'
      BY <2>5, <3>2, CapAppend
    <3> QED BY <2>4, <3>1, <3>2
  <2>7. cmd(c) \in {"MS", "MA"} => ~Captures(todo[c])
    <3>1. cmd(c) \in {"MS", "MA"} => Slews(Head(todo[c]))
      BY <1>1 DEF Slews
    <3> QED BY <1>1, <3>1, CapturesNone
  <2>8. insert(c, <<x>>)
    BY <1>3, <2>2
  <2> HIDE DEF x, h
  <2>9. <<x>> \in Seq(Step) /\ ~Captures(<<x>>) /\ <<x>> # <<>> /\ <<x>>[1] = x
    BY <2>2, CapturesOne
  <2>10. todo'[c] # <<>> /\ Head(todo'[c]) = x
    BY <1>1, <2>8, <2>9, Inserted
  <2>11. Captures(todo'[c]) => Captures(todo[c])
    BY <1>1, <2>8, <2>9, CapturesOnward, Zenon
  <2>12. /\ ~at(c, "match")' /\ ~at(c, "captureHome")' /\ (cmd(c) \in {"MS", "MA"} => Starts(c)')
    BY <2>2, <2>10 DEF at, cmd, opening, Starts
  <2>13. FoundAsked' /\ HomeReads'
    BY <2>12, UnansweredNext, Zenon
  <2>14. Found(c)' /\ FoundPast(c)' /\ Captured(c)'
    BY <1>1, <2>5, <2>6, <2>12, Zenon DEF Found, FoundPast, Captured
  <2>15. ~Moving
    BY <2>3 DEF Moving
  <2>16. Pending(c)'
    <3>1. m.homeCapturePending => fw.pos = "home"
      BY <2>15, Zenon DEF CaptureInv, Pending
    <3>2. (fw'.pos = fw.pos /\ ~Moving') \/ (Starts(c)' /\ Moving')
      BY <2>3, <2>4, <2>12 DEF Moving
    <3> QED BY <1>1, <3>1, <3>2 DEF Pending
  <2>17. Capturing(c)'
    <3>1. Captures(todo[c]) => fw.pos = "home"
      BY Zenon DEF CaptureInv, Capturing
    <3>2. Captures(todo'[c]) => fw'.pos = "home" /\ fw'.motion = "idle" /\ HomeReads'
      BY <2>3, <2>4, <2>7, <2>11, <2>13, <3>1
    <3> QED BY <3>2, Zenon DEF Capturing, HomeReads
  <2>18. HomeIsHome'
    BY <1>1 DEF CaptureInv, HomeIsHome
  <2> QED BY <2>13, <2>14, <2>16, <2>17, <2>18, Zenon DEF CaptureInv
<1> QED BY <1>1, <1>2, <1>3

(* The mount ends a motion.  A home seek that ends puts it at home. *)
LEMMA EndsCap ==
  ASSUME TypeOK, NEW c \in Callers, Lone(c), SessionInv(c), CaptureInv(c), arrive \/ seekEnd
  PROVE  CaptureInv(c)'
<1>1. PICK f \in Frame :
        /\ inbox' = Append(inbox, f) /\ Moving /\ outlasts /\ fw'.motion = "idle"
        /\ f.k = "CHO" => fw.motion = "home" /\ fw'.pos = "home"
        /\ m' = m /\ todo' = todo /\ val' = val /\ tok' = tok
  <2>1. /\ \E k \in Term : push(k) /\ (k = "CHO" => fw.motion = "home" /\ fw'.pos = "home")
        /\ Moving /\ outlasts /\ fw'.motion = "idle"
        /\ m' = m /\ todo' = todo /\ val' = val /\ tok' = tok
    BY DEF arrive, seekEnd, Term, Moving, TypeOK, FirmwareType
  <2>2. PICK k \in Term : push(k) /\ (k = "CHO" => fw.motion = "home" /\ fw'.pos = "home")
    BY <2>1
  <2>3. frame(k) \in Frame /\ frame(k).k = k
    BY DEF frame, Frame, Kind, Token, Fault, Value, Term
  <2> QED BY <2>1, <2>2, <2>3 DEF push
<1>2. ~Starts(c)
  <2>1. ~starting(c)
    BY <1>1 DEF outlasts, Lone
  <2> QED BY <2>1, StartsStarting
<1>3. m.slewing /\ ~m.homeCapturePending
  BY <1>1, <1>2, Zenon DEF SessionInv, Latched, CaptureInv, Pending
<1>4. ~OnLine /\ tok[c].k # "CHO" /\ ~Captures(todo[c])
  BY <1>1 DEF CaptureInv, Found, Capturing, Moving
<1>5. OnLine' => f.k = "CHO"
  BY <1>1, <1>4, CapAppend
<1>6. Found(c)'
  BY <1>1, <1>3, <1>4, <1>5, Zenon DEF Found
<1>7. Pending(c)' /\ Capturing(c)'
  BY <1>1, <1>3, <1>4, Zenon DEF Pending, Capturing
<1>8. Captured(c)' /\ HomeIsHome'
  BY <1>1 DEF CaptureInv, Captured, HomeIsHome, at
<1>9. FoundPast(c)'
  <2>1. /\ Past(c)' <=> Past(c)
        /\ at(c, "refuseWhileHoming")' <=> at(c, "refuseWhileHoming")
    BY <1>1 DEF Past, at, sends, cmd
  <2>2. f.k = "CHO" /\ Past(c) => at(c, "refuseWhileHoming") /\ val[c] = "1"
    BY <1>1, Zenon DEF SessionInv, PastOK, Past
  <2> QED BY <1>1, <1>5, <2>1, <2>2, Zenon DEF FoundPast
<1>10. FoundAsked'
  <2> SUFFICES ASSUME NEW i \in Unread', NEW j \in Unread', inbox'[i].k = "CHO", inbox'[j].k = "AH"
               PROVE  inbox'[j].v = "1"
    BY DEF FoundAsked
  <2>1. f.k = "CHO"
    BY <1>5 DEF OnLine
  <2>2. fw.motion = "home"
    BY <1>1, <2>1
  <2>3. j \in Unread /\ inbox'[j] = inbox[j]
    <3>1. inbox \in Seq(Frame)
      BY DEF TypeOK
    <3>2. /\ Len(inbox) \in Nat /\ Len(inbox') = Len(inbox) + 1
          /\ \A k \in Unread : inbox'[k] = inbox[k]
          /\ inbox'[Len(inbox) + 1] = f
      BY <1>1, <3>1, AppendParts DEF Unread
    <3>3. j # Len(inbox) + 1
      BY <2>1, <3>2
    <3> QED BY <3>2, <3>3 DEF Unread
  <2>4. at(c, "match") /\ Answered(c)
    <3>1. inbox[j].k \in Query
      BY <2>3 DEF Query
    <3>2. ~NoQuery
      BY <2>3, <3>1 DEF NoQuery
    <3> QED BY <2>2, <3>2, Zenon DEF SessionInv, Answer, Lost
  <2>5. inbox[j].v = "1"
    BY <2>2, <2>3, <2>4 DEF Answered, Query
  <2> QED BY <2>3, <2>5
<1> QED BY <1>6, <1>7, <1>8, <1>9, <1>10, Zenon DEF CaptureInv

(* Frames read. *)
LEMMA CapShift ==
  ASSUME NEW k, Shift(k)
  PROVE  /\ OnLine' => OnLine
         /\ FoundAsked => FoundAsked'
         /\ HomeReads => HomeReads'
<1>1. k \in Nat /\ \A j \in Unread' : j + k \in Unread /\ inbox'[j] = inbox[j + k]
  BY DEF Shift
<1>2. (OnLine' => OnLine) /\ (HomeReads => HomeReads')
  BY <1>1, Zenon DEF OnLine, HomeReads
<1>3. FoundAsked => FoundAsked'
  <2> SUFFICES ASSUME FoundAsked, NEW i \in Unread', NEW j \in Unread',
                      inbox'[i].k = "CHO", inbox'[j].k = "AH", j < i
               PROVE  inbox'[j].v = "1"
    BY DEF FoundAsked
  <2>1. i \in Int /\ j \in Int
    <3>1. Unread' \subseteq Int
      BY DEF Unread
    <3> QED BY <3>1
  <2>2. j + k < i + k
    BY <1>1, <2>1
  <2> QED BY <1>1, <2>2, Zenon DEF FoundAsked
<1> QED BY <1>2, <1>3

(* A frame read and applied next. *)
LEMMA TokenCap ==
  ASSUME TypeOK, NEW c \in Callers, NEW s, at(c, s), s \in {"Await", "window"}, SessionInv(c), CaptureInv(c), SessionInv(c)',
         NEW f, NEW k, Shift(k), Takes(f, k), f # NoFrame, insert(c, step("applyToken")),
         tok' = [tok EXCEPT ![c] = f], fw' = fw, m' = m
  PROVE  CaptureInv(c)'
<1> DEFINE x == rec("applyToken", "")
<1>1. x \in Step /\ x.do = "applyToken" /\ step("applyToken") = <<x>>
  BY DEF rec, Step, Does, Command, Gated, Ungated, step
<1>2. insert(c, <<x>>)
  BY <1>1
<1> HIDE DEF x
<1>3. <<x>> \in Seq(Step) /\ ~Captures(<<x>>) /\ <<x>> # <<>> /\ <<x>>[1] = x
  BY <1>1, CapturesOne
<1>4. todo'[c] # <<>> /\ Head(todo'[c]) = x
  BY <1>2, <1>3, Inserted
<1>5. Captures(todo'[c]) => Captures(todo[c])
  BY <1>2, <1>3, CapturesOnward, Zenon
<1>6. ~Past(c)' /\ ~at(c, "match")' /\ ~at(c, "captureHome")' /\ at(c, "applyToken")'
  BY <1>1, <1>4 DEF Past, at, sends
<1>7. Starts(c) => Starts(c)'
  <2>1. Shape(todo[c]) /\ todo[c] \in Seq(Step) /\ todo[c] # <<>> /\ Head(todo[c]).do = s /\ cmd(c) = Head(todo[c]).cmd
    BY HeadTyped DEF SessionInv, at, cmd
  <2>2. Tail(todo'[c]) = Tail(todo[c])
    <3> DEFINE t == Tail(todo[c])
    <3>1. todo \in [Callers -> Seq(Step)] /\ t \in Seq(Step)
      <4>1. t \in Seq(Step)
        BY <2>1, TailParts, Zenon
      <4> QED BY <4>1, Zenon DEF TypeOK
    <3>2. todo'[c] = <<x>> \o t
      BY <1>2, <3>1 DEF insert
    <3> HIDE DEF t
    <3>3. Tail(<<x>> \o t) = t
      BY <1>1, <3>1
    <3> QED BY <3>2, <3>3 DEF t
  <2>3. Starts(c) => Slews(Head(todo[c]))
    BY <2>1 DEF Starts, opening, at, Slews
  <2>4. Starts(c) => Tail(todo[c]) # <<>> /\ Head(Tail(todo[c])).do = "slewing"
    BY <2>1, <2>3, Later
  <2> QED BY <1>6, <2>2, <2>4, Zenon DEF Starts, followedBy
<1>8. OnLine' => OnLine
  BY CapShift
<1>9. f.k = "CHO" => OnLine
  <2>1. frame("junk").k # "CHO"
    BY DEF frame
  <2>2. k \in Unread /\ (IF k = 1 THEN f = inbox[1] ELSE f = frame("junk"))
    BY DEF Takes
  <2> QED BY <2>1, <2>2 DEF OnLine
<1>10. tok'[c] = f
  BY DEF TypeOK
<1>11. OnLine' \/ tok'[c].k = "CHO" => (OnLine \/ tok[c].k = "CHO") /\ (m.slewing => m'.slewing)
  BY <1>8, <1>9, <1>10
<1>12. m'.home \in {m.home, "home"} /\ fw'.pos = fw.pos /\ fw'.motion = fw.motion
  OBVIOUS
<1> QED BY <1>5, <1>6, <1>7, <1>11, <1>12, CapOn

(* A frame read and dropped. *)
LEMMA HearCap ==
  ASSUME TypeOK, NEW c \in Callers, NEW s, at(c, s), SessionInv(c), CaptureInv(c), SessionInv(c)',
         s \notin {"write", "match", "refuseWhileHoming"}, ~sends(c, "Q"), proceed(c),
         ~Starts(c) \/ Starts(c)', OnLine' => OnLine, fw' = fw, m' = m, tok' = tok
  PROVE  CaptureInv(c)'
<1>1. Shape(todo[c])
  BY DEF SessionInv
<1>2. ~Past(c)' /\ ~at(c, "match")' /\ ~at(c, "captureHome")'
  BY <1>1, CapNext
<1>3. Captures(todo'[c]) => Captures(todo[c])
  BY CapturesOnward, Zenon
<1>4. m'.home \in {m.home, "home"} /\ fw'.pos = fw.pos /\ fw'.motion = fw.motion
  OBVIOUS
<1> QED BY <1>2, <1>3, <1>4, CapOn

(* drainToken's read keeps it. *)
LEMMA AwaitCap ==
  ASSUME TypeOK, NEW c \in Callers, Lone(c), SessionInv(c), CaptureInv(c), SessionInv(c)', Await(c)
  PROVE  CaptureInv(c)'
<1>1. at(c, "Await") /\ fw' = fw /\ m' = m /\ "lateReply" \notin Env /\ Bytes
  BY DEF Await, Lone, SessionInv
<1>2. PICK f \in Heard :
        /\ hear(f)
        /\ \/ f = NoFrame /\ proceed(c) /\ tok' = tok
           \/ f # NoFrame /\ tok' = [tok EXCEPT ![c] = f] /\ insert(c, step("applyToken"))
  BY DEF Await
<1>3. PICK k \in Nat : Shift(k) /\ Takes(f, k)
  BY <1>1, <1>2, HearParts
<1>4. CASE f = NoFrame /\ proceed(c) /\ tok' = tok
  <2>1. ~sends(c, "Q") /\ ~Starts(c) /\ (OnLine' => OnLine)
    BY <1>1, <1>3, NotStarting, CapShift DEF sends, at
  <2> QED BY <1>1, <1>4, <2>1, HearCap
<1>5. CASE f # NoFrame /\ tok' = [tok EXCEPT ![c] = f] /\ insert(c, step("applyToken"))
  BY <1>1, <1>3, <1>5, TokenCap
<1> QED BY <1>2, <1>4, <1>5

(* The read of an echo keeps it. *)
LEMMA EchoCap ==
  ASSUME TypeOK, NEW c \in Callers, Lone(c), SessionInv(c), CaptureInv(c), SessionInv(c)', echo(c)
  PROVE  CaptureInv(c)'
<1>1. at(c, "echo") /\ fw' = fw /\ m' = m /\ tok' = tok /\ proceed(c) /\ "lateReply" \notin Env /\ Bytes
  BY DEF echo, Lone, SessionInv
<1>2. PICK f \in Heard : hear(f)
  BY DEF echo
<1>3. PICK k \in Nat : Shift(k) /\ Takes(f, k)
  BY <1>1, <1>2, HearParts
<1>4. ~sends(c, "Q") /\ ~Starts(c) /\ (OnLine' => OnLine)
  BY <1>1, <1>3, NotStarting, CapShift DEF sends, at
<1> QED BY <1>1, <1>4, HearCap

(* The read of a status byte keeps it, a colon among them. *)
LEMMA ReadByteCap ==
  ASSUME TypeOK, NEW c \in Callers, Lone(c), SessionInv(c), CaptureInv(c), SessionInv(c)', readByte(c)
  PROVE  CaptureInv(c)'
<1>1. at(c, "byte") /\ fw' = fw /\ m' = m /\ tok' = tok /\ proceed(c)
  BY DEF readByte
<1>2. \/ inbox' = inbox
      \/ inbox # <<>> /\ inbox' = Tail(inbox)
      \/ inbox # <<>> /\ inbox' = [inbox EXCEPT ![1] = cut(@)]
  BY <1>1 DEF readByte
<1>3. inbox \in Seq(Frame) /\ Len(inbox) \in Nat
  BY InboxLength
<1>4. OnLine' => OnLine
  <2>1. CASE inbox' = inbox
    BY <2>1 DEF OnLine, Unread
  <2>2. CASE inbox # <<>> /\ inbox' = Tail(inbox)
    <3>1. /\ inbox' \in Seq(Frame) /\ Len(inbox') = Len(inbox) - 1
          /\ \A i \in 1 .. Len(inbox') : inbox'[i] = inbox[i + 1]
      BY <1>3, <2>2, TailParts
    <3>2. Shift(1)
      BY <1>3, <3>1 DEF Shift, Unread
    <3> QED BY <3>2, CapShift
  <2>3. CASE inbox # <<>> /\ inbox' = [inbox EXCEPT ![1] = cut(@)]
    <3>1. /\ 1 \in Unread /\ Unread' = Unread /\ inbox'[1] = cut(inbox[1]) /\ inbox[1] \in Frame
          /\ \A i \in Unread : i # 1 => inbox'[i] = inbox[i]
      BY <1>3, <2>3 DEF Unread
    <3>2. ASSUME NEW g \in Frame PROVE cut(g).k = "junk" \/ cut(g).k = g.k
      BY DEF cut, frame, Frame
    <3>3. \A i \in Unread : inbox'[i].k = "CHO" => inbox[i].k = "CHO"
      BY <3>1, <3>2
    <3> QED BY <3>1, <3>3 DEF OnLine
  <2> QED BY <1>2, <2>1, <2>2, <2>3
<1>5. ~sends(c, "Q") /\ ~Starts(c)
  BY <1>1, NotStarting DEF sends, at
<1> QED BY <1>1, <1>4, <1>5, HearCap

(* The read after a goto or sync keeps it. *)
LEMMA WindowCap ==
  ASSUME TypeOK, NEW c \in Callers, Lone(c), SessionInv(c), CaptureInv(c), SessionInv(c)', window(c)
  PROVE  CaptureInv(c)'
<1> DEFINE h == Head(todo[c])
<1>1. at(c, "window") /\ fw' = fw /\ m' = m /\ "lateReply" \notin Env /\ Bytes /\ Shape(todo[c]) /\ Refused(c)
  BY DEF window, Lone, SessionInv
<1>2. PICK f \in Heard :
        /\ hear(f)
        /\ \/ f = NoFrame /\ proceed(c) /\ tok' = tok
           \/ f.k \in settles(cmd(c)) /\ giveUp(c) /\ tok' = tok
           \/ f # NoFrame /\ tok' = [tok EXCEPT ![c] = f] /\ insert(c, step("applyToken"))
  BY DEF window
<1>3. PICK k \in Nat : Shift(k) /\ Takes(f, k)
  BY <1>1, <1>2, HearParts
<1>4. /\ todo[c] \in Seq(Step) /\ todo[c] # <<>> /\ h.do = "window" /\ h.cmd = cmd(c)
      /\ Starts(c) => cmd(c) \in {"MS", "MA"} /\ Slews(h)
  <2>1. todo[c] \in Seq(Step) /\ todo[c] # <<>> /\ h.do = "window" /\ h.cmd = cmd(c)
    BY <1>1, HeadTyped DEF at, cmd
  <2> QED BY <2>1 DEF Starts, opening, at, Slews
<1>5. OnLine' => OnLine
  BY <1>3, CapShift
<1>6. CASE f = NoFrame /\ proceed(c) /\ tok' = tok
  <2>1. Starts(c) => Starts(c)'
    <3>1. todo'[c] = Tail(todo[c]) /\ (Slews(h) => Tail(todo[c]) # <<>> /\ Head(Tail(todo[c])).do = "slewing")
      BY <1>1, <1>4, <1>6, Later, Onward
    <3> QED BY <1>4, <3>1, Zenon DEF Starts, at
  <2>2. ~sends(c, "Q")
    BY <1>1 DEF sends, at
  <2> QED BY <1>1, <1>5, <1>6, <2>1, <2>2, HearCap
<1>7. CASE f.k \in settles(cmd(c)) /\ giveUp(c) /\ tok' = tok
  <2>1. todo'[c] = <<>>
    BY <1>1, <1>7, CapturesOnward, Zenon
  <2>2. ~Past(c)' /\ ~at(c, "match")' /\ ~at(c, "captureHome")' /\ ~Captures(todo'[c])
    BY <2>1, CapIdleNext, Zenon
  <2>3. Starts(c) => ~Moving
    <3> SUFFICES ASSUME Starts(c) PROVE ~Moving
      OBVIOUS
    <3>1. f.k \in Refusal /\ frame("junk").k \notin Refusal /\ NoFrame.k \notin Refusal
      BY <1>4, <1>7 DEF settles, Refusal, frame, NoFrame
    <3>2. f # NoFrame
      BY <3>1, Zenon
    <3>3. 1 \in Unread /\ inbox[1].k \in Refusal
      <4>1. k \in Unread /\ (IF k = 1 THEN f = inbox[1] ELSE f = frame("junk"))
        BY <1>3, <3>2 DEF Takes
      <4> QED BY <3>1, <4>1, Zenon
    <3> QED BY <1>1, <3>3 DEF Refused
  <2>4. m'.home \in {m.home, "home"} /\ fw'.pos = fw.pos /\ fw'.motion = fw.motion
    BY <1>1
  <2>5. OnLine' \/ tok'[c].k = "CHO" => (OnLine \/ tok[c].k = "CHO") /\ (m.slewing => m'.slewing)
    BY <1>1, <1>5, <1>7
  <2> QED BY <1>1, <2>2, <2>3, <2>4, <2>5, CapOn
<1>8. CASE f # NoFrame /\ tok' = [tok EXCEPT ![c] = f] /\ insert(c, step("applyToken"))
  BY <1>1, <1>3, <1>8, TokenCap
<1> QED BY <1>2, <1>6, <1>7, <1>8

(* A query is written: a coordinate it asks for is where the mount stands. *)
LEMMA WriteCap ==
  ASSUME TypeOK, NEW c \in Callers, SessionInv(c), CaptureInv(c), SessionInv(c)', write(c)
  PROVE  CaptureInv(c)'
<1>1. obey(cmd(c)) /\ m' = m /\ tok' = tok
  BY DEF write
<1>2. PICK s \in DOMAIN reads : at(c, s) /\ insert(c, on(reads[s], cmd(c)))
  BY DEF write
<1> DEFINE r == reads[s]
           x == rec(r, cmd(c))
           h == Head(todo[c])
<1>3. /\ todo[c] \in Seq(Step) /\ todo[c] # <<>> /\ Shape(todo[c]) /\ h.do = s /\ h.cmd = cmd(c) /\ Proper(h)
  <2>1. todo[c] \in Seq(Step) /\ todo[c] # <<>> /\ Shape(todo[c]) /\ h.do = s /\ h.cmd = cmd(c)
    BY <1>2, HeadTyped DEF SessionInv, at, cmd
  <2> QED BY <2>1, Later
<1>4. \/ s = "write" /\ r = "match" /\ cmd(c) \in {"AH", "CY", "G"}
      \/ s = "Get" /\ r = "echo" /\ cmd(c) \in {"CtL", "CtA", "CtU"}
      \/ s = "Ack" /\ r = "byte" /\ cmd(c) \in {"Sr", "Sd", "SrP", "SdP"}
  <2>1. s \in {"write", "rewrite", "Get", "Ack"} /\ s # "rewrite"
    BY <1>3 DEF reads, Proper
  <2>2. r = CASE s = "write" -> "match" [] s = "Get" -> "echo" [] s = "Ack" -> "byte"
    BY <2>1 DEF reads
  <2> QED BY <1>3, <2>1, <2>2 DEF Proper, Query
<1> HIDE DEF r
<1>5. x \in Step /\ on(r, cmd(c)) = <<x>> /\ x.do = r
  BY <1>4 DEF rec, on, Step, Does, Command, Gated, Ungated, Query
<1>6. insert(c, <<x>>)
  BY <1>2, <1>5 DEF r
<1>7. /\ fw'.pos = fw.pos /\ fw'.motion = fw.motion
      /\ \E g \in Frame : inbox' = Append(inbox, g) /\ g.k # "CHO" /\ (g.k = "G" => g.v = fw.pos)
  <2>1. CASE s = "write"
    <3>1. fw' = fw /\ \E v \in Value : inbox' = Append(inbox, [k |-> cmd(c), v |-> v]) /\ (cmd(c) = "G" => v = fw.pos)
      <4>1. CASE cmd(c) = "AH"
        <5> DEFINE v == IF fw.motion = "home" \/ fw.wedged THEN "1" ELSE "0"
        <5>1. inbox' = Append(inbox, [k |-> cmd(c), v |-> v]) /\ fw' = fw
          BY <1>1, <4>1 DEF obey, answer, Refusal
        <5>2. v \in Value
          BY DEF Value
        <5> QED BY <4>1, <5>1, <5>2
      <4>2. CASE cmd(c) = "G"
        <5>1. inbox' = Append(inbox, [k |-> cmd(c), v |-> fw.pos]) /\ fw' = fw
          BY <1>1, <4>2 DEF obey, answer, Refusal
        <5>2. fw.pos \in Value
          BY DEF Value, TypeOK, FirmwareType
        <5> QED BY <5>1, <5>2
      <4>3. CASE cmd(c) = "CY"
        <5>1. PICK p \in Place : inbox' = Append(inbox, [k |-> cmd(c), v |-> p]) /\ fw' = fw
          BY <1>1, <4>3 DEF obey, answer, Refusal
        <5>2. p \in Value
          BY DEF Value
        <5> QED BY <4>3, <5>1, <5>2
      <4> QED BY <1>4, <2>1, <4>1, <4>2, <4>3
    <3>2. PICK v \in Value : inbox' = Append(inbox, [k |-> cmd(c), v |-> v]) /\ (cmd(c) = "G" => v = fw.pos)
      BY <3>1
    <3> DEFINE g == [k |-> cmd(c), v |-> v]
    <3>3. g \in Frame /\ g.k = cmd(c) /\ g.v = v /\ g.k # "CHO" /\ inbox' = Append(inbox, g)
      BY <1>4, <2>1, <3>2 DEF Frame, Kind, Query
    <3> QED BY <3>1, <3>2, <3>3
  <2>2. CASE s = "Get"
    <3>1. inbox' = Append(inbox, frame("CT")) /\ fw'.pos = fw.pos /\ fw'.motion = fw.motion
      BY <1>1, <1>4, <2>2 DEF obey, answer, Refusal, TypeOK, FirmwareType
    <3>2. frame("CT") \in Frame /\ frame("CT").k = "CT"
      BY DEF frame, Frame, Kind, Value
    <3> QED BY <3>1, <3>2
  <2>3. CASE s = "Ack"
    <3> DEFINE g == [k |-> "byte", v |-> "1"]
    <3>1. inbox' = Append(inbox, g) /\ fw'.pos = fw.pos /\ fw'.motion = fw.motion
      BY <1>1, <1>4, <2>3 DEF obey, answer, Refusal, TypeOK, FirmwareType
    <3>2. g \in Frame /\ g.k = "byte"
      BY DEF Frame, Kind, Value
    <3> QED BY <3>1, <3>2
  <2> QED BY <1>4, <2>1, <2>2, <2>3
<1> HIDE DEF x, h
<1>8. <<x>> \in Seq(Step) /\ ~Captures(<<x>>) /\ <<x>> # <<>> /\ <<x>>[1] = x
  BY <1>4, <1>5, CapturesOne
<1>9. todo'[c] # <<>> /\ Head(todo'[c]) = x
  BY <1>2, <1>6, <1>8, Inserted
<1>10. Captures(todo'[c]) => Captures(todo[c])
  BY <1>2, <1>6, <1>8, CapturesOnward, Zenon
<1>11. ~Past(c)' /\ ~at(c, "captureHome")'
  BY <1>4, <1>5, <1>9 DEF Past, at, sends
<1>12. ~Starts(c)
  BY <1>2, <1>4, NotStarting
<1>13. PICK g \in Frame : inbox' = Append(inbox, g) /\ g.k # "CHO" /\ (g.k = "G" => g.v = fw.pos)
  BY <1>7
<1>14. (OnLine' => OnLine) /\ FoundAsked' /\ (fw.pos = "home" /\ HomeReads => HomeReads')
  BY <1>13, CapAppend DEF CaptureInv
<1>15. OnLine' \/ tok'[c].k = "CHO" => (OnLine \/ tok[c].k = "CHO") /\ (m.slewing => m'.slewing)
  BY <1>1, <1>14
<1>16. FoundPast(c)' /\ Captured(c)' /\ m'.home \in {m.home, "home"}
  BY <1>1, <1>11 DEF FoundPast, Captured
<1> QED BY <1>1, <1>7, <1>10, <1>12, <1>14, <1>15, <1>16, CapStep

(* GetMatching never runs out of frames to skip. *)
LEMMA NeverStale ==
  ASSUME TypeOK, NEW c \in Callers, at(c, "match"), cmd(c) \in Query, SessionInv(c)'
  PROVE  ~insert(c, step("drainStale") \o on("rewrite", cmd(c)))
<1> SUFFICES ASSUME insert(c, step("drainStale") \o on("rewrite", cmd(c))) PROVE FALSE
  OBVIOUS
<1> DEFINE a == rec("drainStale", "")
           b == rec("rewrite", cmd(c))
           p == <<a>> \o <<b>>
<1>0. todo[c] \in Seq(Step) /\ todo[c] # <<>>
  BY HeadTyped
<1>1. a \in Step /\ b \in Step /\ a.do = "drainStale" /\ step("drainStale") = <<a>> /\ on("rewrite", cmd(c)) = <<b>>
  BY DEF rec, Step, Does, Command, Gated, Ungated, Query, step, on
<1>2. insert(c, p)
  BY <1>1
<1> HIDE DEF a, b
<1>3. p \in Seq(Step) /\ p # <<>> /\ p[1] = a
  BY <1>1
<1> HIDE DEF p
<1>4. todo'[c] # <<>> /\ Head(todo'[c]) = a
  BY <1>2, <1>3, Inserted
<1>5. todo'[c] \in Seq(Step)
  <2> DEFINE t == Tail(todo[c])
  <2>1. todo \in [Callers -> Seq(Step)] /\ t \in Seq(Step)
    <3>1. t \in Seq(Step)
      BY <1>0, TailParts, Zenon
    <3> QED BY <3>1, Zenon DEF TypeOK
  <2>2. todo'[c] = p \o t
    BY <1>2, <2>1 DEF insert
  <2> HIDE DEF t
  <2> QED BY <1>3, <2>1, <2>2
<1>6. Shape(todo'[c])
  BY DEF SessionInv
<1>7. Proper(Head(todo'[c]))
  BY <1>4, <1>5, <1>6, Later
<1> QED BY <1>1, <1>4, <1>7 DEF Proper

(* A query is answered: behind a home token that is still to come, Homing said 1; *)
(* in front of a capture, the coordinate is that of home.                         *)
LEMMA MatchCap ==
  ASSUME TypeOK, NEW c \in Callers, Lone(c), SessionInv(c), CaptureInv(c), SessionInv(c)', match(c)
  PROVE  CaptureInv(c)'
<1> DEFINE h == Head(todo[c])
           x == [h EXCEPT !.n = @ + 1]
<1>1. fw' = fw /\ tok' = tok /\ "lateReply" \notin Env /\ val \in [Callers -> Value]
  BY DEF match, Lone, TypeOK
<1>2. at(c, "match")
  <2>1. at(c, "match") \/ at(c, "rematch")
    BY DEF match
  <2>2. ASSUME at(c, "rematch") PROVE FALSE
    <3>1. todo[c] \in Seq(Step) /\ todo[c] # <<>> /\ Shape(todo[c]) /\ h.do = "rematch"
      BY <2>2, HeadTyped DEF SessionInv, at
    <3>2. Proper(h)
      BY <3>1, Later
    <3> QED BY <3>1, <3>2 DEF Proper
  <2> QED BY <2>1, <2>2
<1>3. /\ Shape(todo[c]) /\ Unique /\ Bytes
      /\ todo[c] \in Seq(Step) /\ todo[c] # <<>> /\ h \in Step /\ h.do = "match"
      /\ cmd(c) = h.cmd /\ cmd(c) \in Query /\ ~Starts(c) /\ tok[c].k # "CHO"
  <2>1. ~at(c, "applyToken")
    BY <1>2 DEF at
  <2> QED BY <1>2, <2>1, Waiting, NotStarting, NoToken
<1>4. PICK f \in Heard :
        /\ hear(f)
        /\ \/ /\ f = NoFrame \/ f.k = cmd(c)
              /\ val' = [val EXCEPT ![c] = IF f = NoFrame THEN "err" ELSE f.v]
              /\ proceed(c) /\ m' = m
           \/ f # NoFrame /\ f.k # cmd(c) /\ m' = applyToken(m, f.k) /\ again(c)
           \/ insert(c, step("drainStale") \o on("rewrite", cmd(c)))
  BY <1>2 DEF match
<1>5. f \in Frame /\ \E k \in Nat : Shift(k) /\ Takes(f, k)
  BY <1>1, <1>3, <1>4, HearParts
<1>6. PICK k \in Nat : Shift(k) /\ Takes(f, k)
  BY <1>5
<1>7. /\ OnLine' => OnLine
      /\ FoundAsked' /\ (HomeReads => HomeReads')
      /\ \A j \in Unread' : j \in Nat /\ j >= 1 /\ j + k \in Unread /\ j + k > 1 /\ inbox'[j] = inbox[j + k]
  BY <1>1, <1>6, CapShift, Left DEF CaptureInv
<1>8. f.k \in Term \cup Query => f = NoFrame \/ (k = 1 /\ 1 \in Unread /\ f = inbox[1])
  <2>1. frame("junk").k \notin Term \cup Query
    BY DEF frame, Term, Query
  <2>2. f # NoFrame => k \in Unread /\ (IF k = 1 THEN f = inbox[1] ELSE f = frame("junk"))
    BY <1>6 DEF Takes
  <2> QED BY <2>1, <2>2, Zenon
<1> HIDE DEF h, x
<1>9. ASSUME f = NoFrame \/ f.k = cmd(c), val' = [val EXCEPT ![c] = IF f = NoFrame THEN "err" ELSE f.v],
             proceed(c), m' = m
      PROVE  CaptureInv(c)'
  <2>1. /\ at(c, "refuseWhileHoming")' => cmd(c) = "AH"
        /\ at(c, "captureHome")' => cmd(c) = "G"
        /\ Past(c)' => at(c, "refuseWhileHoming")'
        /\ todo'[c] = Tail(todo[c])
    <3>1. /\ at(c, "refuseWhileHoming")' \/ at(c, "notHoming")' => Asks(h, "AH")
          /\ at(c, "captureHome")' => Asks(h, "G")
          /\ ~sends(c, "Q")' /\ ~at(c, "still")' /\ todo'[c] = Tail(todo[c])
      <4>1. ~sends(c, "Q")
        BY <1>2 DEF sends, at
      <4> QED BY <1>2, <1>3, <1>9, <4>1, Onward DEF h
    <3> QED BY <1>3, <3>1 DEF Asks, Past
  <2>2. val'[c] = IF f = NoFrame THEN "err" ELSE f.v
    BY <1>1, <1>9
  <2>3. f # NoFrame => k = 1 /\ 1 \in Unread /\ f = inbox[1] /\ f.k = cmd(c)
    BY <1>3, <1>8, <1>9
  <2>4. f = NoFrame => ~OnLine'
    <3>1. f = NoFrame => inbox' = <<>>
      BY <1>6 DEF Takes
    <3> QED BY <3>1 DEF OnLine, Unread
  <2>5. FoundPast(c)'
    <3> SUFFICES ASSUME OnLine', Past(c)' PROVE at(c, "refuseWhileHoming")' /\ val'[c] = "1"
      BY DEF FoundPast
    <3>1. PICK j \in Unread' : inbox'[j].k = "CHO"
      BY DEF OnLine
    <3>2. f # NoFrame /\ at(c, "refuseWhileHoming")' /\ cmd(c) = "AH"
      BY <2>1, <2>4
    <3>3. j + k \in Unread /\ 1 < j + k /\ inbox[j + k].k = "CHO" /\ 1 \in Unread /\ inbox[1].k = "AH"
      BY <1>7, <2>3, <3>1, <3>2
    <3>4. inbox[1].v = "1"
      BY <3>3, Zenon DEF CaptureInv, FoundAsked
    <3> QED BY <2>2, <2>3, <3>2, <3>4, Zenon
  <2>6. Captures(todo'[c]) => Captures(todo[c])
    BY <1>2, <1>9, CapturesOnward, Zenon
  <2>7. Captured(c)'
    <3> SUFFICES ASSUME at(c, "captureHome")', f # NoFrame PROVE val'[c] = "home"
      BY <2>2 DEF Captured
    <3>1. Captures(todo'[c])
      <4>1. todo'[c] \in Seq(Step) /\ todo'[c] # <<>> /\ Head(todo'[c]).do = "captureHome"
        BY <1>3, <2>1, TailParts DEF at
      <4> DEFINE q == todo'[c]
      <4>2. 1 \in 1 .. Len(q) /\ q[1] = Head(q)
        <5> HIDE DEF q
        <5> QED BY <4>1 DEF q
      <4> QED BY <4>1, <4>2, Zenon DEF Captures
    <3>2. HomeReads
      BY <2>6, <3>1, Zenon DEF CaptureInv, Capturing, HomeReads
    <3>3. 1 \in Unread /\ f = inbox[1] /\ f.k = "G"
      BY <2>1, <2>3
    <3>4. f.v = "home"
      BY <3>2, <3>3 DEF HomeReads
    <3> QED BY <2>2, <3>4
  <2>8. OnLine' \/ tok'[c].k = "CHO" => (OnLine \/ tok[c].k = "CHO") /\ (m.slewing => m'.slewing)
    BY <1>1, <1>7, <1>9
  <2>9. m'.home \in {m.home, "home"} /\ fw'.pos = fw.pos /\ fw'.motion = fw.motion
    BY <1>1, <1>9
  <2> QED BY <1>3, <1>7, <1>9, <2>5, <2>6, <2>7, <2>8, <2>9, CapStep
<1>10. ASSUME f # NoFrame, f.k # cmd(c), m' = applyToken(m, f.k), again(c)
       PROVE  CaptureInv(c)'
  <2>1. x \in Step /\ x.do = h.do
    BY <1>3 DEF Step, x
  <2>2. insert(c, <<x>>)
    BY <1>10 DEF again, x, h
  <2>3. <<x>> \in Seq(Step) /\ ~Captures(<<x>>) /\ <<x>> # <<>> /\ <<x>>[1] = x
    BY <1>3, <2>1, CapturesOne
  <2>4. todo'[c] # <<>> /\ Head(todo'[c]) = x
    BY <1>2, <2>2, <2>3, Inserted
  <2>5. Captures(todo'[c]) => Captures(todo[c])
    BY <1>2, <2>2, <2>3, CapturesOnward, Zenon
  <2>6. ~Past(c)' /\ ~at(c, "captureHome")'
    BY <1>3, <2>1, <2>4 DEF Past, at, sends
  <2>7. /\ m'.home = m.home /\ (m'.homeCapturePending => m.homeCapturePending \/ f.k = "CHO")
        /\ f.k \notin Term => m'.slewing = m.slewing
    <3>1. m \in MountType /\ f.k \in Kind
      BY <1>5 DEF TypeOK, Frame
    <3> QED BY <1>10, <3>1, ApplyHome, ApplyLatch
  <2>8. f.k \in Term => 1 \in Unread /\ f = inbox[1]
    BY <1>8, <1>10
  <2>9. f.k \in Term => ~OnLine'
    <3> SUFFICES ASSUME f.k \in Term, NEW j \in Unread', inbox'[j].k = "CHO" PROVE FALSE
      BY DEF OnLine
    <3>1. j + k \in Unread /\ j + k > 1 /\ inbox[j + k].k = "CHO"
      BY <1>7
    <3>2. inbox[j + k].k \in Term /\ inbox[1].k \in Term /\ 1 \in Unread
      BY <2>8, <3>1 DEF Term
    <3>3. j + k = 1
      BY <1>3, <3>1, <3>2, Zenon DEF Unique
    <3> QED BY <3>1, <3>3
  <2>10. f.k = "CHO" => ~Moving /\ fw.pos = "home"
    <3>1. f.k = "CHO" => OnLine
      BY <2>8 DEF Term, OnLine
    <3> QED BY <3>1 DEF CaptureInv, Found, Moving
  <2>11. OnLine' \/ tok'[c].k = "CHO" => (OnLine \/ tok[c].k = "CHO") /\ (m.slewing => m'.slewing)
    BY <1>1, <1>3, <1>7, <2>7, <2>9
  <2>12. FoundPast(c)' /\ Captured(c)' /\ m'.home \in {m.home, "home"} /\ fw'.pos = fw.pos /\ fw'.motion = fw.motion
    BY <1>1, <2>6, <2>7 DEF FoundPast, Captured
  <2>13. m'.homeCapturePending => m.homeCapturePending \/ (~Moving /\ fw.pos = "home")
    BY <2>7, <2>10
  <2> QED BY <1>3, <1>7, <2>5, <2>11, <2>12, <2>13, CapStep
<1>11. ~insert(c, step("drainStale") \o on("rewrite", cmd(c)))
  BY <1>2, <1>3, NeverStale
<1> QED BY <1>4, <1>9, <1>10, <1>11

(* It holds at the start. *)
LEMMA InitCap ==
  ASSUME NEW c \in Callers, Init
  PROVE  CaptureInv(c)
<1>1. inbox = <<>> /\ todo[c] = <<>> /\ tok[c] = NoFrame
  BY DEF Init
<1>2. ~m.homeCapturePending /\ m.home = ""
  <2>1. PICK homed, answered \in BOOLEAN :
          m = [slewing |-> FALSE, peeked |-> FALSE, lastFault |-> "",
               homeFound |-> homed /\ answered, home |-> "", unparked |-> FALSE,
               parking |-> FALSE, moving |-> FALSE, homeCapturePending |-> FALSE,
               parkStopPending |-> FALSE, pulsing |-> FALSE]
    BY Zenon DEF Init
  <2> QED BY <2>1
<1>3. Unread = {} /\ ~OnLine
  <2>1. Len(inbox) = 0
    BY <1>1
  <2> QED BY <2>1 DEF Unread, OnLine
<1>4. tok[c].k # "CHO"
  <2>1. NoFrame.k # "CHO"
    BY DEF NoFrame
  <2> QED BY <1>1, <2>1, Zenon
<1>5. ~Captures(todo[c]) /\ ~at(c, "captureHome")
  BY <1>1, CapIdle, Zenon
<1>6. Found(c) /\ FoundPast(c) /\ FoundAsked /\ Pending(c) /\ Capturing(c) /\ Captured(c)
  BY <1>2, <1>3, <1>4, <1>5, Zenon DEF Found, FoundPast, FoundAsked, Pending, Capturing, Captured
<1>7. HomeIsHome
  BY <1>2 DEF HomeIsHome
<1> QED BY <1>6, <1>7, Zenon DEF CaptureInv

(* Every step keeps it. *)
LEMMA NextCap ==
  ASSUME NEW c \in Callers, Lone(c), TypeOK, SessionInv(c), CaptureInv(c), [Next]_vars
  PROVE  CaptureInv(c)'
<1>0. SessionInv(c)'
  BY NextSession
<1>1. CASE run(c)
  BY <1>0, <1>1, DrainTokenCap, AwaitCap, ApplyCap, NeverSession, WriteCap, MatchCap, EchoCap,
     ReadByteCap, BlindCap, SlewNackCap, WindowCap, MaybeCaptureCap, FinishParkCap, CaptureHomeCap, SlewingCap,
     FlagsCap, ChecksCap, ReportCap, AlpacaCap, Zenon DEF run
<1>2. ASSUME NEW op \in Ops[c], call(c, op) PROVE CaptureInv(c)'
  BY <1>0, <1>2, CallCap, Zenon
<1>3. CASE pulseEnd \/ ttl \/ arrive \/ seekEnd \/ verdict
  BY <1>3, NeverSession, TtlCap, EndsCap, Zenon
<1>4. CASE UNCHANGED vars
  <2>1. /\ m'.slewing = m.slewing /\ m'.homeCapturePending = m.homeCapturePending /\ m'.home = m.home
        /\ fw' = fw /\ inbox' = inbox /\ todo' = todo /\ val' = val /\ tok' = tok
    BY <1>4 DEF vars
  <2> QED BY <2>1, SameCap
<1>5. \A d \in Callers : d = c
  BY DEF Lone
<1> QED BY <1>1, <1>2, <1>3, <1>4, <1>5, Zenon DEF Next

(* HomePosition is where the mount found its home, or not recorded. maybeCaptureHome  *)
(* reads the coordinates some calls after the home token, in any of the caller's      *)
(* operations, and captureHome stores them later still; a goto in between             *)
(* gives the capture up before the mount can have moved.                              *)
THEOREM HomePositionTheorem ==
  ASSUME NEW u \in Callers, Lone(u)
  PROVE  Spec => []HomeIsHome
<1>1. Init => CaptureInv(u)
  BY InitCap
<1>2. TypeOK /\ SessionInv(u) /\ CaptureInv(u) /\ [Next]_vars => CaptureInv(u)'
  BY NextCap
<1>3. CaptureInv(u) => HomeIsHome
  BY DEF CaptureInv
<1> QED BY <1>1, <1>2, <1>3, TypeTheorem, SessionInvariant, PTL DEF Spec
-----------------------------------------------------------------------------
(* What AlpacaAtPark and AlpacaAtHome find. The steps that use it, the steps   *)
(* that come before these, and the order in which it is asked for.             *)
Has(q, R) == \E i \in 1 .. Len(q) : q[i] \in R
By(D) == {s \in Step : s.do \in D}
Users == {"atPark", "atHome", "unlessParked", "ifParked"}
Chained == Users \cup {"axes", "notUnparked"}
Inquiring == {"drainToken", "Await", "applyToken", "maybeCaptureHome", "maybeFinishPark", "captureHome",
              "write", "match", "Get", "echo", "stopped", "notUnparked", "axes"}
Linked(a, b) ==
  /\ b.do \in Users => a.do = "axes" \/ Asks(a, "CY")
  /\ b.do = "axes" => a.do \in {"stopped", "notUnparked"}
  /\ b.do = "notUnparked" => a.do = "stopped"
  /\ a.do = "axes" => b.do \in Users
Story(q) ==
  /\ \A i \in 1 .. Len(q) - 1 : Linked(q[i], q[i + 1])
  /\ \A i, j \in 1 .. Len(q) : q[i].do \in Users /\ j < i => q[j].do \in Inquiring
  /\ \A i, j \in 1 .. Len(q) : q[i].do \in Users /\ i < j => q[j].do # "axes"

(* Once the driver's own state has been found to be that of a mount at rest,   *)
(* it is at rest until the answer is used, and the axes read are where it is.  *)
Checked(q) == q # <<>> /\ Has(Tail(q), By(Users)) /\ ~Has(q, By({"axes"}))
ParkReads == \A i \in Unread : inbox[i].k = "CY" => inbox[i].v = fw.pos
Settled(c) == at(c, "notUnparked") \/ at(c, "axes") => fw.motion = "idle" \/ val[c] = "0"
Standing(c) == Checked(todo[c]) => fw.motion = "idle" /\ ParkReads
Truly(c) == todo[c] # <<>> /\ Head(todo[c]).do \in Users => val[c] \in {"0", "err"} \/ (fw.motion = "idle" /\ val[c] = fw.pos)
AlpacaInv(c) == Story(todo[c]) /\ Settled(c) /\ Standing(c) /\ Truly(c)

(* What a list has is its head or in the rest. *)
LEMMA HasParts ==
  ASSUME NEW q \in Seq(Step), q # <<>>, NEW R
  PROVE  Has(q, R) <=> Head(q) \in R \/ Has(Tail(q), R)
<1> DEFINE t == Tail(q)
           n == Len(t)
<1>1. /\ Len(q) = n + 1 /\ n \in Nat /\ q[1] = Head(q)
      /\ \A i \in 1 .. n : t[i] = q[i + 1]
  <2>1. /\ Len(q) \in Nat /\ Len(q) >= 1 /\ n = Len(q) - 1 /\ q[1] = Head(q)
        /\ \A i \in 1 .. n : t[i] = q[i + 1]
    BY TailParts, Zenon
  <2> HIDE DEF t, n
  <2> QED BY <2>1
<1> HIDE DEF t
<1>2. \A i \in 1 .. n + 1 : i = 1 \/ (i - 1 \in 1 .. n /\ (i - 1) + 1 = i)
  <2> HIDE DEF n
  <2> QED BY <1>1
<1>3. 1 \in 1 .. n + 1 /\ \A i \in 1 .. n : i + 1 \in 1 .. n + 1
  <2> HIDE DEF n
  <2> QED BY <1>1
<1>4. ASSUME Has(q, R) PROVE Head(q) \in R \/ Has(t, R)
  <2>1. PICK i \in 1 .. n + 1 : q[i] \in R
    BY <1>1, <1>4 DEF Has
  <2>2. CASE i = 1
    BY <1>1, <2>1, <2>2
  <2>3. CASE i - 1 \in 1 .. n /\ (i - 1) + 1 = i
    <3>1. t[i - 1] = q[i]
      BY <1>1, <2>3
    <3> QED BY <2>1, <2>3, <3>1 DEF Has
  <2> QED BY <1>2, <2>1, <2>2, <2>3
<1>5. Head(q) \in R => Has(q, R)
  BY <1>1, <1>3 DEF Has
<1>6. ASSUME Has(t, R) PROVE Has(q, R)
  <2>1. PICK i \in 1 .. n : t[i] \in R
    BY <1>6 DEF Has
  <2>2. q[i + 1] \in R /\ i + 1 \in 1 .. Len(q)
    BY <1>1, <1>3, <2>1
  <2> QED BY <2>2 DEF Has
<1> QED BY <1>4, <1>5, <1>6 DEF t

(* The same of two lists, one after the other. *)
LEMMA HasJoin ==
  ASSUME NEW p \in Seq(Step), NEW q \in Seq(Step), NEW R
  PROVE  Has(p \o q, R) <=> Has(p, R) \/ Has(q, R)
<1> DEFINE t == p \o q
           a == Len(p)
           b == Len(q)
<1>1. /\ a \in Nat /\ b \in Nat /\ Len(t) = a + b
      /\ \A i \in 1 .. a : t[i] = p[i]
      /\ \A i \in 1 .. b : t[a + i] = q[i]
  BY JoinParts
<1> HIDE DEF t
<1>2. /\ \A i \in 1 .. a + b : i \in 1 .. a \/ (i - a \in 1 .. b /\ a + (i - a) = i)
      /\ \A i \in 1 .. a : i \in 1 .. a + b
      /\ \A i \in 1 .. b : a + i \in 1 .. a + b
  <2> HIDE DEF a, b
  <2> QED BY <1>1
<1>3. ASSUME Has(t, R) PROVE Has(p, R) \/ Has(q, R)
  <2>1. PICK i \in 1 .. a + b : t[i] \in R
    BY <1>1, <1>3 DEF Has
  <2>2. CASE i \in 1 .. a
    BY <1>1, <2>1, <2>2 DEF Has
  <2>3. CASE i - a \in 1 .. b /\ a + (i - a) = i
    <3>1. t[i] = q[i - a]
      BY <1>1, <2>3
    <3> QED BY <2>1, <2>3, <3>1 DEF Has
  <2> QED BY <1>2, <2>1, <2>2, <2>3
<1>4. ASSUME Has(p, R) PROVE Has(t, R)
  <2>1. PICK i \in 1 .. a : p[i] \in R
    BY <1>4 DEF Has
  <2>2. t[i] \in R /\ i \in 1 .. Len(t)
    BY <1>1, <1>2, <2>1
  <2> QED BY <2>2 DEF Has
<1>5. ASSUME Has(q, R) PROVE Has(t, R)
  <2>1. PICK i \in 1 .. b : q[i] \in R
    BY <1>5 DEF Has
  <2>2. t[a + i] \in R /\ a + i \in 1 .. Len(t)
    BY <1>1, <1>2, <2>1
  <2> QED BY <2>2 DEF Has
<1> QED BY <1>3, <1>4, <1>5 DEF t

(* A list of one step, and of none. *)
LEMMA HasOne ==
  ASSUME NEW x \in Step, NEW R
  PROVE  <<x>> \in Seq(Step) /\ (Has(<<x>>, R) <=> x \in R) /\ ~Has(<<>>, R)
<1>1. <<x>> \in Seq(Step) /\ Len(<<x>>) = 1 /\ <<x>>[1] = x
  BY Singleton
<1>2. Len(<<>>) = 0
  OBVIOUS
<1>3. Has(<<x>>, R) <=> x \in R
  BY <1>1 DEF Has
<1>4. ~Has(<<>>, R)
  BY <1>2 DEF Has
<1> QED BY <1>1, <1>3, <1>4


(* What a step may put in its own place. *)
Light == {"Await", "applyToken", "match", "echo", "byte", "window", "drainToken", "maybeCaptureHome", "maybeFinishPark",
          "write", "captureHome", "Get", "known"}
Heavy == By(Does \ Light)
Other == By({"byte", "window", "known"})
Fits(h, p) ==
  /\ p \in Seq(Step) /\ p # <<>> /\ ~Has(p, Heavy)
  /\ h.do \notin Users \cup {"stopped", "notUnparked"}
  /\ h.do \in Inquiring => ~Has(p, Other)
  /\ h.do \in {"write", "match"} => Asks(p[Len(p)], h.cmd)
  /\ h.do = "axes" => Asks(p[Len(p)], "CY")
  /\ p[1].do = "match" => h.do \in {"write", "match"}
Goes(q, r) == r = <<>> \/ r = Tail(q) \/ \E p : Fits(Head(q), p) /\ r = p \o Tail(q)

(* The rest of such a list is one. *)
LEMMA StoryTail ==
  ASSUME NEW q \in Seq(Step), q # <<>>, Story(q)
  PROVE  Story(Tail(q))
<1> DEFINE t == Tail(q)
           n == Len(t)
<1>1. Len(q) = n + 1 /\ n \in Nat /\ \A i \in 1 .. n : t[i] = q[i + 1]
  <2>1. Len(q) \in Nat /\ Len(q) >= 1 /\ n = Len(q) - 1 /\ \A i \in 1 .. n : t[i] = q[i + 1]
    BY TailParts, Zenon
  <2> HIDE DEF t, n
  <2> QED BY <2>1
<1> HIDE DEF t
<1>2. ASSUME NEW i \in 1 .. n - 1 PROVE Linked(t[i], t[i + 1])
  <2>1. i \in 1 .. n /\ i + 1 \in 1 .. n /\ i + 1 \in 1 .. Len(q) - 1
    <3> HIDE DEF n
    <3> QED BY <1>1
  <2>2. t[i] = q[i + 1] /\ t[i + 1] = q[(i + 1) + 1]
    BY <1>1, <2>1
  <2>3. Linked(q[i + 1], q[(i + 1) + 1])
    BY <2>1 DEF Story
  <2> QED BY <2>2, <2>3, Zenon
<1>3. ASSUME NEW i \in 1 .. n, NEW j \in 1 .. n, t[i].do \in Users, j < i PROVE t[j].do \in Inquiring
  <2>1. i + 1 \in 1 .. Len(q) /\ j + 1 \in 1 .. Len(q) /\ j + 1 < i + 1
    <3> HIDE DEF n
    <3> QED BY <1>1, <1>3
  <2>2. q[j + 1].do \in Inquiring
    BY <1>1, <1>3, <2>1 DEF Story
  <2> QED BY <1>1, <2>2
<1>4. ASSUME NEW i \in 1 .. n, NEW j \in 1 .. n, t[i].do \in Users, i < j PROVE t[j].do # "axes"
  <2>1. i + 1 \in 1 .. Len(q) /\ j + 1 \in 1 .. Len(q) /\ i + 1 < j + 1
    <3> HIDE DEF n
    <3> QED BY <1>1, <1>4
  <2>2. q[j + 1].do # "axes"
    BY <1>1, <1>4, <2>1 DEF Story
  <2> QED BY <1>1, <2>2
<1> QED BY <1>2, <1>3, <1>4 DEF Story, t

(* Steps put in front that fit the step they stand for. *)
LEMMA StoryFits ==
  ASSUME NEW q \in Seq(Step), q # <<>>, Story(q), NEW p, Fits(Head(q), p)
  PROVE  Story(p \o Tail(q))
<1> DEFINE t == Tail(q)
           r == p \o t
           a == Len(p)
           b == Len(t)
<1>0. p \in Seq(Step) /\ t \in Seq(Step)
  BY TailParts, Zenon DEF Fits
<1>1. Len(q) = b + 1 /\ b \in Nat /\ q[1] = Head(q) /\ \A i \in 1 .. b : t[i] = q[i + 1]
  <2>1. Len(q) \in Nat /\ Len(q) >= 1 /\ b = Len(q) - 1 /\ q[1] = Head(q) /\ \A i \in 1 .. b : t[i] = q[i + 1]
    BY TailParts, Zenon
  <2> HIDE DEF t, b
  <2> QED BY <2>1
<1> HIDE DEF t
<1>2. /\ a \in Nat /\ Len(r) = a + b
      /\ \A i \in 1 .. a : r[i] = p[i]
      /\ \A i \in 1 .. b : r[a + i] = t[i]
  BY <1>0, JoinParts
<1>3. a >= 1 /\ \A i \in 1 .. a : p[i] \in Step
  BY <1>0 DEF Fits
<1>4. \A i \in 1 .. a : p[i].do \in Light
  <2>1. \A i \in 1 .. a : p[i] \notin Heavy
    BY DEF Fits, Has
  <2> QED BY <1>3, <2>1 DEF Heavy, By, Step
<1>5. Head(q).do \in Inquiring => \A i \in 1 .. a : p[i].do \in Inquiring
  <2>1. ASSUME Head(q).do \in Inquiring PROVE \A i \in 1 .. a : p[i] \notin Other
    BY <2>1 DEF Fits, Has
  <2>2. ASSUME NEW i \in 1 .. a, p[i] \notin Other PROVE p[i].do \in Inquiring
    <3>1. p[i] \in Step /\ p[i].do \in Light /\ p[i].do \notin {"byte", "window", "known"}
      BY <1>3, <1>4, <2>2 DEF Other, By
    <3> QED BY <3>1 DEF Light, Inquiring
  <2> QED BY <2>1, <2>2
<1> HIDE DEF r
<1>6. /\ \A i \in 1 .. a + b : i \in 1 .. a \/ (i - a \in 1 .. b /\ a + (i - a) = i)
      /\ \A i \in 1 .. (a + b) - 1 : \/ i \in 1 .. a /\ i + 1 \in 1 .. a
                                     \/ i = a /\ i + 1 = a + 1 /\ 1 \in 1 .. b
                                     \/ /\ i - a \in 1 .. b /\ (i - a) + 1 \in 1 .. b /\ a + (i - a) = i
                                        /\ a + ((i - a) + 1) = i + 1 /\ (i - a) + 1 \in 1 .. (b + 1) - 1
  <2> HIDE DEF a, b
  <2> QED BY <1>1, <1>2, <1>3
<1>7. Light \cap Chained = {}
  BY DEF Light, Chained, Users
<1>8. ASSUME NEW i \in 1 .. Len(r) - 1 PROVE Linked(r[i], r[i + 1])
  <2>1. CASE i \in 1 .. a /\ i + 1 \in 1 .. a
    <3>1. r[i + 1].do \notin Chained /\ r[i].do \notin Chained
      BY <1>2, <1>4, <1>7, <2>1
    <3> QED BY <3>1 DEF Linked, Chained
  <2>2. CASE i = a /\ i + 1 = a + 1 /\ 1 \in 1 .. b
    <3>0. p[a].do \notin Chained
      <4>1. a \in 1 .. a
        <5> HIDE DEF a
        <5> QED BY <1>2, <1>3
      <4> QED BY <1>4, <1>7, <4>1
    <3>1. r[i] = p[a] /\ r[i + 1] = q[1 + 1] /\ 1 \in 1 .. Len(q) - 1
      <4>1. a \in 1 .. a /\ 1 \in 1 .. (b + 1) - 1
        <5> HIDE DEF a, b
        <5> QED BY <1>1, <1>2, <1>3, <2>2
      <4> QED BY <1>1, <1>2, <2>2, <4>1
    <3>2. Linked(Head(q), r[i + 1])
      BY <1>1, <3>1, Zenon DEF Story
    <3> QED BY <3>0, <3>1, <3>2 DEF Linked, Fits, Asks, Chained
  <2>3. CASE /\ i - a \in 1 .. b /\ (i - a) + 1 \in 1 .. b /\ a + (i - a) = i
             /\ a + ((i - a) + 1) = i + 1 /\ (i - a) + 1 \in 1 .. (b + 1) - 1
    <3> DEFINE k == i - a
    <3>1. r[i] = t[k] /\ r[i + 1] = t[k + 1]
      <4>1. r[a + k] = t[k] /\ r[a + (k + 1)] = t[k + 1]
        BY <1>2, <2>3, Zenon
      <4> QED BY <2>3, <4>1, Zenon
    <3>2. t[k] = q[k + 1] /\ t[k + 1] = q[(k + 1) + 1]
      BY <1>1, <2>3
    <3>3. Linked(q[k + 1], q[(k + 1) + 1])
      BY <1>1, <2>3 DEF Story
    <3> QED BY <3>1, <3>2, <3>3, Zenon
  <2> QED BY <1>2, <1>6, <2>1, <2>2, <2>3
<1>9. ASSUME NEW i \in 1 .. Len(r), NEW j \in 1 .. Len(r), r[i].do \in Users, j < i PROVE r[j].do \in Inquiring
  <2>1. ~(i \in 1 .. a)
    BY <1>2, <1>4, <1>7, <1>9 DEF Chained
  <2> DEFINE k == i - a
  <2>2. k \in 1 .. b /\ a + k = i
    BY <1>2, <1>6, <2>1
  <2>3. k + 1 \in 1 .. Len(q) /\ 1 \in 1 .. Len(q) /\ 1 < k + 1
    <3> HIDE DEF a, b, k
    <3> QED BY <1>1, <2>2
  <2>4. q[k + 1].do \in Users
    BY <1>1, <1>2, <1>9, <2>2
  <2>5. \A l \in 1 .. Len(q) : l < k + 1 => q[l].do \in Inquiring
    BY <2>3, <2>4 DEF Story
  <2>6. Head(q).do \in Inquiring
    BY <1>1, <2>3, <2>5
  <2>7. CASE j \in 1 .. a
    BY <1>2, <1>5, <2>6, <2>7
  <2>8. CASE j - a \in 1 .. b /\ a + (j - a) = j
    <3>1. (j - a) + 1 \in 1 .. Len(q) /\ (j - a) + 1 < k + 1
      <4> HIDE DEF a, b
      <4> QED BY <1>1, <1>2, <1>9, <2>8
    <3>2. r[j] = q[(j - a) + 1]
      BY <1>1, <1>2, <2>8
    <3> QED BY <2>5, <3>1, <3>2
  <2> QED BY <1>2, <1>6, <2>7, <2>8
<1>10. ASSUME NEW i \in 1 .. Len(r), NEW j \in 1 .. Len(r), r[i].do \in Users, i < j PROVE r[j].do # "axes"
  <2>1. ~(i \in 1 .. a)
    BY <1>2, <1>4, <1>7, <1>10 DEF Chained
  <2>2. i - a \in 1 .. b /\ a + (i - a) = i
    BY <1>2, <1>6, <2>1
  <2>3. j - a \in 1 .. b /\ a + (j - a) = j
    <3> HIDE DEF a, b
    <3> QED BY <1>1, <1>2, <1>10, <2>2
  <2>4. (i - a) + 1 \in 1 .. Len(q) /\ (j - a) + 1 \in 1 .. Len(q) /\ (i - a) + 1 < (j - a) + 1
    <3> HIDE DEF a, b
    <3> QED BY <1>1, <1>2, <1>10, <2>2, <2>3
  <2>5. r[i] = q[(i - a) + 1] /\ r[j] = q[(j - a) + 1]
    BY <1>1, <1>2, <2>2, <2>3
  <2> QED BY <1>10, <2>4, <2>5 DEF Story
<1> QED BY <1>8, <1>9, <1>10 DEF Story, r, t


(* One step put in front. *)
LEMMA FitOne ==
  ASSUME NEW h, NEW x \in Step, x.do \in Light, h.do \notin Users \cup {"stopped", "notUnparked", "axes"},
         h.do \in Inquiring => x.do \notin {"byte", "window", "known"},
         h.do \in {"write", "match"} => Asks(x, h.cmd), x.do = "match" => h.do \in {"write", "match"}
  PROVE  Fits(h, <<x>>)
<1>1. <<x>> \in Seq(Step) /\ <<x>> # <<>> /\ <<x>>[1] = x /\ Len(<<x>>) = 1
  BY Singleton
<1>2. x \notin Heavy
  BY DEF Heavy, By
<1>3. h.do \in Inquiring => x \notin Other
  BY DEF Other, By
<1>4. ~Has(<<x>>, Heavy) /\ (h.do \in Inquiring => ~Has(<<x>>, Other))
  BY <1>2, <1>3, HasOne, Zenon
<1> QED BY <1>1, <1>4 DEF Fits

(* A step that is light, as a list. *)
LEMMA LightStep ==
  /\ \A s \in Light : step(s) \in Seq(Step) /\ ~Has(step(s), Heavy) /\ (s # "known" => s \in {"byte", "window"} \/ ~Has(step(s), Other))
  /\ \A x \in Query : on("write", x) \in Seq(Step) /\ ~Has(on("write", x), Heavy) /\ ~Has(on("write", x), Other)
  /\ track("CtL") \in Seq(Step) /\ ~Has(track("CtL"), Heavy) /\ ~Has(track("CtL"), Other)
<1>1. ASSUME NEW x \in Step, x.do \in Light
      PROVE  <<x>> \in Seq(Step) /\ ~Has(<<x>>, Heavy) /\ (x.do \notin {"byte", "window", "known"} => ~Has(<<x>>, Other))
  <2>1. x \notin Heavy /\ (x.do \notin {"byte", "window", "known"} => x \notin Other)
    BY <1>1 DEF Heavy, Other, By
  <2> QED BY <2>1, HasOne, Zenon
<1>2. ASSUME NEW s \in Light
      PROVE  step(s) \in Seq(Step) /\ ~Has(step(s), Heavy) /\ (s # "known" => s \in {"byte", "window"} \/ ~Has(step(s), Other))
  <2> DEFINE x == rec(s, "")
  <2>1. x \in Step /\ x.do = s /\ step(s) = <<x>>
    BY DEF rec, Step, Does, Command, Gated, Ungated, step, Light
  <2> HIDE DEF x
  <2>2. <<x>> \in Seq(Step) /\ ~Has(<<x>>, Heavy) /\ (s \notin {"byte", "window", "known"} => ~Has(<<x>>, Other))
    BY <1>1, <2>1
  <2> QED BY <2>1, <2>2
<1>3. ASSUME NEW s \in {"write", "Get"}, NEW y, (s = "write" /\ y \in Query) \/ (s = "Get" /\ y = "CtL")
      PROVE  on(s, y) \in Seq(Step) /\ ~Has(on(s, y), Heavy) /\ ~Has(on(s, y), Other)
  <2> DEFINE x == rec(s, y)
  <2>1. x \in Step /\ x.do = s /\ on(s, y) = <<x>>
    BY <1>3 DEF rec, Step, Does, Command, Gated, Ungated, Query, on
  <2> HIDE DEF x
  <2>2. <<x>> \in Seq(Step) /\ ~Has(<<x>>, Heavy) /\ ~Has(<<x>>, Other)
    BY <1>1, <1>3, <2>1 DEF Light
  <2> QED BY <2>1, <2>2
<1> QED BY <1>2, <1>3 DEF track

(* The last entry of a list. *)
LEMMA LastParts ==
  ASSUME NEW S, NEW a \in Seq(S), NEW x \in S
  PROVE  (a \o <<x>>)[Len(a \o <<x>>)] = x
OBVIOUS

(* The lists that the driver's functions put in front. *)
LEMMA FitLists ==
  ASSUME NEW h
  PROVE  /\ h.do = "maybeCaptureHome" => Fits(h, coord("G") \o step("captureHome"))
         /\ h.do = "maybeFinishPark" => Fits(h, track("CtL"))
         /\ h.do = "polePosition" => Fits(h, get("G") \o step("known"))
         /\ h.do = "axes" => Fits(h, AtPark)
<1> DEFINE Gentle(p) == p \in Seq(Step) /\ ~Has(p, Heavy) /\ ~Has(p, Other)
<1>1. \A s \in {"drainToken", "maybeCaptureHome", "maybeFinishPark", "captureHome"} : Gentle(step(s))
  BY LightStep, Zenon DEF Light
<1>2. \A x \in Query : Gentle(on("write", x))
  BY LightStep, Zenon
<1>3. ASSUME NEW p, NEW q, Gentle(p), Gentle(q) PROVE Gentle(p \o q)
  BY <1>3, HasJoin, Concat, Zenon
<1> HIDE DEF Gentle
<1>4. \A x \in Query : Gentle(get(x)) /\ Gentle(coord(x))
  BY <1>1, <1>2, <1>3, Zenon DEF get, coord
<1>5. Gentle(coord("G") \o step("captureHome")) /\ Gentle(get("CY"))
  BY <1>1, <1>3, <1>4, Zenon DEF Query
<1>6. ~Has(get("G") \o step("known"), Heavy)
  <2>1. get("G") \in Seq(Step) /\ ~Has(get("G"), Heavy)
    BY <1>4, Zenon DEF Query, Gentle
  <2>2. step("known") \in Seq(Step) /\ ~Has(step("known"), Heavy)
    BY LightStep, Zenon DEF Light
  <2> QED BY <2>1, <2>2, HasJoin, Zenon
<1>7. Asks(get("CY")[Len(get("CY"))], "CY")
  <2> DEFINE a == step("maybeCaptureHome") \o step("maybeFinishPark")
             x == rec("write", "CY")
  <2>1. a \in Seq(Step)
    BY <1>1, <1>3, Zenon DEF Gentle
  <2>2. x \in Step /\ Asks(x, "CY")
    BY DEF rec, Step, Does, Command, Gated, Ungated, Query, Asks
  <2>3. get("CY") = a \o <<x>>
    BY DEF get, on, rec
  <2> HIDE DEF a, x
  <2> QED BY <2>1, <2>2, <2>3, LastParts
<1>8. h.do = "maybeCaptureHome" => Fits(h, coord("G") \o step("captureHome"))
  <2> DEFINE p == coord("G") \o step("captureHome")
  <2>1. p \in Seq(Step) /\ p # <<>> /\ p[1].do = "drainToken" /\ Gentle(p)
    BY <1>5, CaptureList, Zenon
  <2> HIDE DEF p
  <2>2. h.do = "maybeCaptureHome" => Fits(h, p)
    BY <2>1 DEF Fits, Users, Gentle
  <2> QED BY <2>2 DEF p
<1>9. h.do = "maybeFinishPark" => Fits(h, track("CtL"))
  <2> DEFINE p == track("CtL")
  <2>1. p \in Seq(Step) /\ p # <<>> /\ p[1].do = "Get" /\ ~Has(p, Heavy) /\ ~Has(p, Other)
    BY TrackList, LightStep, Zenon
  <2> HIDE DEF p
  <2>2. h.do = "maybeFinishPark" => Fits(h, p)
    BY <2>1 DEF Fits, Users
  <2> QED BY <2>2 DEF p
<1>10. h.do = "polePosition" => Fits(h, get("G") \o step("known"))
  <2> DEFINE p == get("G") \o step("known")
  <2>1. p \in Seq(Step) /\ p # <<>> /\ p[1].do = "maybeCaptureHome" /\ ~Has(p, Heavy)
    BY <1>6, LatitudeList, Zenon
  <2> HIDE DEF p
  <2>2. h.do = "polePosition" => Fits(h, p)
    BY <2>1 DEF Fits, Users, Inquiring
  <2> QED BY <2>2 DEF p
<1>11. h.do = "axes" => Fits(h, AtPark)
  <2> DEFINE p == get("CY")
  <2>1. p \in Seq(Step) /\ p # <<>> /\ p[1].do = "maybeCaptureHome" /\ Gentle(p) /\ Asks(p[Len(p)], "CY")
    BY <1>5, <1>7, QueryList, Zenon
  <2> HIDE DEF p
  <2>2. h.do = "axes" => Fits(h, p)
    BY <2>1 DEF Fits, Users, Gentle
  <2> QED BY <2>2 DEF p, AtPark
<1> QED BY <1>8, <1>9, <1>10, <1>11, Zenon


(* Where a list goes. *)
LEMMA GoesOn ==
  ASSUME TypeOK, NEW c \in Callers, NEW s, at(c, s)
  PROVE  /\ todo[c] \in Seq(Step) /\ todo[c] # <<>> /\ Head(todo[c]).do = s
         /\ proceed(c) \/ giveUp(c) => Goes(todo[c], todo'[c])
         /\ \A p : Fits(Head(todo[c]), p) /\ insert(c, p) => Goes(todo[c], todo'[c])
<1>1. todo[c] \in Seq(Step) /\ todo[c] # <<>> /\ Head(todo[c]).do = s /\ todo \in [Callers -> Seq(Step)]
  BY HeadTyped DEF at, TypeOK
<1>2. /\ proceed(c) => todo'[c] = Tail(todo[c])
      /\ giveUp(c) => todo'[c] = <<>>
      /\ \A p : insert(c, p) => todo'[c] = p \o Tail(todo[c])
  BY <1>1 DEF proceed, giveUp, insert
<1> QED BY <1>1, <1>2, Zenon DEF Goes

(* One step in the place of another. *)
LEMMA GoesInstead ==
  ASSUME TypeOK, NEW c \in Callers, NEW s, at(c, s), NEW d, NEW y, insert(c, on(d, y)),
         rec(d, y) \in Step, d \in Light, s \notin Users \cup {"stopped", "notUnparked", "axes"},
         s \in Inquiring => d \notin {"byte", "window", "known"},
         s \in {"write", "match"} => d = "match" /\ y = cmd(c), d = "match" => s \in {"write", "match"}
  PROVE  Goes(todo[c], todo'[c])
<1> DEFINE x == rec(d, y)
           h == Head(todo[c])
<1>1. x.do = d /\ x.cmd = y /\ on(d, y) = <<x>> /\ x \in Step
  BY DEF rec, on
<1>2. h.do = s /\ h.cmd = cmd(c)
  BY DEF at, cmd
<1> HIDE DEF x, h
<1>3. h.do \in {"write", "match"} => Asks(x, h.cmd)
  BY <1>1, <1>2 DEF Asks
<1>4. Fits(h, <<x>>)
  BY <1>1, <1>2, <1>3, FitOne
<1> QED BY <1>1, <1>4, GoesOn DEF h

(* A step ends its operation, goes on, or puts steps that fit in its own place. *)
LEMMA RunGoes ==
  ASSUME TypeOK, NEW c \in Callers, Lone(c), SessionInv(c), SessionInv(c)', run(c)
  PROVE  todo[c] \in Seq(Step) /\ todo[c] # <<>> /\ Goes(todo[c], todo'[c])
<1> DEFINE h == Head(todo[c])
<1>0. ASSUME NEW s, at(c, s) PROVE todo[c] \in Seq(Step) /\ todo[c] # <<>> /\ h.do = s /\ Proper(h) /\ h \in Step /\ h.cmd = cmd(c)
  <2>1. todo[c] \in Seq(Step) /\ todo[c] # <<>> /\ h.do = s /\ h.cmd = cmd(c) /\ Shape(todo[c])
    BY <1>0, HeadTyped DEF at, cmd, SessionInv
  <2> QED BY <2>1, Later
<1>1. SUFFICES \E s : at(c, s) /\ Goes(todo[c], todo'[c])
  BY <1>0, Zenon
<1>2. \A s : at(c, s) /\ (proceed(c) \/ giveUp(c)) => Goes(todo[c], todo'[c])
  BY GoesOn, Zenon
<1>3. rec("Await", "") \in Step /\ rec("applyToken", "") \in Step
  BY DEF rec, Step, Does, Command, Gated, Ungated, Query
<1>4. ASSUME NEW s, s \in {"drainToken", "Await", "window"}, at(c, s), insert(c, step("Await")) \/ insert(c, step("applyToken"))
      PROVE  Goes(todo[c], todo'[c])
  <2>1. PICK d : d \in {"Await", "applyToken"} /\ insert(c, on(d, ""))
    BY <1>4 DEF step, on
  <2>2. /\ d \in Light /\ s \notin Users \cup {"stopped", "notUnparked", "axes"}
        /\ s \notin {"write", "match"} /\ d \notin {"byte", "window", "known", "match"} /\ rec(d, "") \in Step
    BY <1>3, <1>4, <2>1 DEF Light, Users
  <2> QED BY <1>4, <2>1, <2>2, GoesInstead
<1>5. CASE drainToken(c)
  <2>1. at(c, "drainToken") /\ (proceed(c) \/ insert(c, step("Await")))
    BY <1>5 DEF drainToken
  <2> QED BY <1>2, <1>4, <2>1
<1>6. CASE Await(c)
  <2>1. at(c, "Await") /\ (proceed(c) \/ insert(c, step("applyToken")))
    BY <1>6 DEF Await
  <2> QED BY <1>2, <1>4, <2>1
<1>7. CASE window(c)
  <2>1. at(c, "window") /\ (proceed(c) \/ giveUp(c) \/ insert(c, step("applyToken")))
    BY <1>7 DEF window
  <2> QED BY <1>2, <1>4, <2>1
<1>8. CASE write(c)
  <2>1. PICK s \in DOMAIN reads : at(c, s) /\ insert(c, on(reads[s], cmd(c)))
    BY <1>8 DEF write
  <2>2. h.do = s /\ Proper(h) /\ h \in Step /\ h.cmd = cmd(c)
    BY <1>0, <2>1
  <2>3. \/ s = "write" /\ reads[s] = "match" /\ cmd(c) \in Query
        \/ s = "Get" /\ reads[s] = "echo" /\ cmd(c) \in {"CtL", "CtA", "CtU"}
        \/ s = "Ack" /\ reads[s] = "byte" /\ cmd(c) \in {"Sr", "Sd", "SrP", "SdP"}
    BY <2>1, <2>2 DEF reads, Proper
  <2> DEFINE r == reads[s]
  <2> HIDE DEF r
  <2>4. rec(r, cmd(c)) \in Step
    BY <2>3 DEF r, rec, Step, Does, Command, Gated, Ungated, Query
  <2>5. /\ insert(c, on(r, cmd(c))) /\ r \in Light /\ s \notin Users \cup {"stopped", "notUnparked", "axes"}
        /\ s \in Inquiring => r \notin {"byte", "window", "known"}
        /\ s \in {"write", "match"} => r = "match"
        /\ r = "match" => s \in {"write", "match"}
    BY <2>1, <2>3 DEF r, Light, Users, Inquiring
  <2>6. Goes(todo[c], todo'[c])
    BY <2>1, <2>4, <2>5, GoesInstead
  <2> QED BY <2>1, <2>6
<1>9. CASE match(c)
  <2>1. at(c, "match")
    <3>1. at(c, "match") \/ at(c, "rematch")
      BY <1>9 DEF match
    <3>2. ASSUME at(c, "rematch") PROVE FALSE
      <4>1. Proper(h) /\ h.do = "rematch"
        BY <1>0, <3>2
      <4> QED BY <4>1 DEF Proper
    <3> QED BY <3>1, <3>2
  <2>2. h \in Step /\ h.do = "match" /\ cmd(c) \in Query
    <3>1. h \in Step /\ h.do = "match" /\ Proper(h) /\ h.cmd = cmd(c)
      BY <1>0, <2>1
    <3> QED BY <3>1 DEF Proper
  <2>3. proceed(c) \/ again(c)
    <3>1. proceed(c) \/ again(c) \/ insert(c, step("drainStale") \o on("rewrite", cmd(c)))
      BY <1>9, <2>1 DEF match
    <3> QED BY <2>1, <2>2, <3>1, NeverStale
  <2>4. ASSUME again(c) PROVE Goes(todo[c], todo'[c])
    <3> DEFINE x == [h EXCEPT !.n = @ + 1]
    <3>1. x \in Step /\ x.do = "match" /\ x.cmd = h.cmd
      BY <2>2 DEF Step
    <3>2. insert(c, <<x>>)
      BY <2>4 DEF again
    <3> HIDE DEF x, h
    <3>3. Fits(h, <<x>>)
      BY <2>2, <3>1, FitOne DEF Light, Users, Asks
    <3> QED BY <2>1, <3>2, <3>3, GoesOn DEF h
  <2> QED BY <1>2, <2>1, <2>3, <2>4, Zenon
<1>10. CASE SlewNack(c)
  <2>1. at(c, "slewCmd") /\ (giveUp(c) \/ insert(c, on("window", cmd(c))))
    BY <1>10 DEF SlewNack
  <2>2. h.do = "slewCmd" /\ h \in Step /\ h.cmd = cmd(c)
    BY <1>0, <2>1
  <2>3. rec("window", cmd(c)) \in Step
    BY <2>2 DEF rec, Step, Does
  <2>4. ASSUME insert(c, on("window", cmd(c))) PROVE Goes(todo[c], todo'[c])
    BY <2>1, <2>3, <2>4, GoesInstead DEF Light, Users, Inquiring
  <2> QED BY <1>2, <2>1, <2>4, Zenon
<1>11. CASE maybeCaptureHome(c)
  <2>1. at(c, "maybeCaptureHome") /\ (proceed(c) \/ insert(c, coord("G") \o step("captureHome")))
    BY <1>11 DEF maybeCaptureHome
  <2>2. Fits(h, coord("G") \o step("captureHome"))
    BY <1>0, <2>1, FitLists, Zenon
  <2> QED BY <1>2, <2>1, <2>2, GoesOn, Zenon
<1>12. CASE maybeFinishPark(c)
  <2>1. at(c, "maybeFinishPark") /\ (proceed(c) \/ insert(c, track("CtL")))
    BY <1>12 DEF maybeFinishPark
  <2>2. Fits(h, track("CtL"))
    BY <1>0, <2>1, FitLists, Zenon
  <2> QED BY <1>2, <2>1, <2>2, GoesOn, Zenon
<1>13. CASE polePosition(c)
  <2>1. at(c, "polePosition") /\ (proceed(c) \/ insert(c, get("G") \o step("known")))
    BY <1>13 DEF polePosition
  <2>2. Fits(h, get("G") \o step("known"))
    BY <1>0, <2>1, FitLists, Zenon
  <2> QED BY <1>2, <2>1, <2>2, GoesOn, Zenon
<1>14. CASE parkState(c)
  <2>1. \/ (at(c, "stopped") \/ at(c, "notUnparked")) /\ proceed(c)
        \/ at(c, "axes") /\ (proceed(c) \/ insert(c, AtPark))
    BY <1>14 DEF parkState
  <2>2. at(c, "axes") => Fits(h, AtPark)
    BY <1>0, FitLists, Zenon
  <2> QED BY <1>2, <2>1, <2>2, GoesOn, Zenon
<1>15. CASE \/ apply(c) \/ echo(c) \/ readByte(c) \/ blind(c) \/ captureHome(c) \/ setSlewing(c) \/ flags(c) \/ checks(c)
            \/ parkedAlready(c) \/ report(c) \/ reportPark(c)
  <2>1. \E s : at(c, s) /\ (proceed(c) \/ giveUp(c))
    BY <1>15 DEF apply, echo, readByte, blind, captureHome, setSlewing, flags, checks, parkedAlready, report, reportPark, proceedIf
  <2> QED BY <1>2, <2>1, Zenon
<1>16. ~drainStale(c)
  BY NeverSession
<1> QED BY <1>5, <1>6, <1>7, <1>8, <1>9, <1>10, <1>11, <1>12, <1>13, <1>14, <1>15, <1>16 DEF run


(* The second place of a list. *)
LEMMA TwoIsNext == 2 = 1 + 1
OBVIOUS

(* Before an answer is used nothing but questions are asked. *)
LEMMA Earlier ==
  ASSUME NEW q \in Seq(Step), q # <<>>, Story(q), Has(Tail(q), By(Users))
  PROVE  Head(q).do \in Inquiring
<1> DEFINE t == Tail(q)
<1>1. /\ Len(q) \in Nat /\ Len(q) >= 1 /\ Len(t) = Len(q) - 1 /\ Head(q) = q[1]
      /\ \A i \in 1 .. Len(t) : t[i] = q[i + 1]
  BY TailParts, Zenon
<1>2. PICK i \in 1 .. Len(t) : t[i] \in By(Users)
  BY DEF Has
<1> HIDE DEF t
<1>3. i + 1 \in 1 .. Len(q) /\ 1 \in 1 .. Len(q) /\ 1 < i + 1
  BY <1>1
<1>4. q[i + 1].do \in Users
  BY <1>1, <1>2 DEF By
<1> QED BY <1>1, <1>3, <1>4 DEF Story

(* Where the list stands next, and what it has been asked. *)
LEMMA Onwards ==
  ASSUME NEW q \in Seq(Step), q # <<>>, Story(q), Shape(q), NEW r, Goes(q, r)
  PROVE  /\ r \in Seq(Step) /\ Story(r)
         /\ r # <<>> /\ Head(r).do \in Users => r = Tail(q) /\ (Head(q).do = "axes" \/ Asks(Head(q), "CY"))
         /\ r # <<>> /\ Head(r).do = "axes" => r = Tail(q) /\ Head(q).do \in {"stopped", "notUnparked"}
         /\ r # <<>> /\ Head(r).do = "notUnparked" => r = Tail(q) /\ Head(q).do = "stopped"
         /\ r # <<>> /\ Head(r).do = "match" => Head(q).do \in {"write", "match"}
         /\ Checked(r) => Checked(q) \/ (Head(q).do = "axes" /\ r # Tail(q))
<1> DEFINE h == Head(q)
           t == Tail(q)
<1>1. /\ t \in Seq(Step) /\ Story(t) /\ h \in Step
      /\ t # <<>> => Follows(h, Head(t)) /\ Linked(h, Head(t)) /\ Head(t) \in Step
  <2>1. t \in Seq(Step) /\ Story(t) /\ h \in Step /\ (t # <<>> => Follows(h, Head(t)) /\ Head(t) \in Step)
    BY StoryTail, Later
  <2>2. ASSUME t # <<>> PROVE Linked(h, Head(t))
    <3>1. h = q[1] /\ Len(q) \in Nat /\ Len(q) > 1 /\ Head(t) = q[1 + 1]
      <4>1. Len(q) \in Nat /\ Len(q) > 1 /\ h = q[1]
        BY <2>2
      <4> QED BY <4>1, SecondParts, TwoIsNext
    <3>2. 1 \in 1 .. Len(q) - 1
      BY <3>1
    <3>3. Linked(q[1], q[1 + 1])
      BY <3>2, Zenon DEF Story
    <3> QED BY <3>1, <3>3, Zenon
  <2> QED BY <2>1, <2>2
<1>2. \A R : Has(q, R) <=> h \in R \/ Has(t, R)
  BY HasParts, Zenon
<1>3. CASE r = <<>>
  <2>1. <<>> \in Seq(Step) /\ Story(<<>>)
    <3>1. Len(<<>>) = 0 /\ <<>> \in Seq(Step)
      OBVIOUS
    <3> QED BY <3>1 DEF Story
  <2> QED BY <1>3, <2>1, Zenon DEF Checked
<1>4. CASE r = t
  <2>1. t # <<>> /\ Head(t).do \in Users => h.do = "axes" \/ Asks(h, "CY")
    BY <1>1 DEF Linked
  <2>2. t # <<>> /\ Head(t).do = "axes" => h.do \in {"stopped", "notUnparked"}
    BY <1>1 DEF Linked
  <2>3. t # <<>> /\ Head(t).do = "notUnparked" => h.do = "stopped"
    BY <1>1 DEF Linked
  <2>4. t # <<>> => Head(t).do # "match"
    BY <1>1 DEF Follows, Reading
  <2>5. ASSUME Checked(t) PROVE Checked(q)
    <3>1. t # <<>> /\ Has(Tail(t), By(Users)) /\ ~Has(t, By({"axes"}))
      BY <2>5 DEF Checked
    <3>2. Has(t, By(Users))
      BY <1>1, <3>1, HasParts, Zenon
    <3>3. h.do # "axes"
      <4> SUFFICES ASSUME h.do = "axes" PROVE FALSE
        OBVIOUS
      <4>1. Head(t).do \in Users
        BY <1>1, <3>1 DEF Linked
      <4>2. Head(t).do \in Inquiring
        BY <1>1, <3>1, Earlier
      <4> QED BY <4>1, <4>2 DEF Users, Inquiring
    <3>4. h \notin By({"axes"})
      BY <3>3 DEF By
    <3> QED BY <1>2, <3>1, <3>2, <3>4, Zenon DEF Checked
  <2> QED BY <1>1, <1>4, <2>1, <2>2, <2>3, <2>4, <2>5
<1>5. ASSUME NEW p, Fits(h, p), r = p \o t
      PROVE  /\ r \in Seq(Step) /\ Story(r) /\ r # <<>> /\ Head(r).do \notin Chained
             /\ Head(r).do = "match" => Head(q).do \in {"write", "match"}
             /\ Checked(r) => Checked(q) \/ (h.do = "axes" /\ r # t)
  <2>1. p \in Seq(Step) /\ p # <<>> /\ ~Has(p, Heavy)
    BY <1>5 DEF Fits
  <2>2. r \in Seq(Step) /\ r # <<>> /\ Head(r) = p[1] /\ Len(r) > Len(t)
    <3> HIDE DEF t
    <3> QED BY <1>1, <1>5, <2>1
  <2>3. Story(r)
    BY <1>5, StoryFits
  <2>4. p[1] \in Step /\ p[1] \notin Heavy
    BY <2>1 DEF Has
  <2>5. p[1].do \in Light
    BY <2>4 DEF Heavy, By, Step
  <2>6. Head(r).do \notin Chained /\ (Head(r).do = "match" => Head(q).do \in {"write", "match"})
    BY <1>5, <2>2, <2>5 DEF Light, Chained, Users, Fits
  <2>7. ~Has(p, By(Users)) /\ ~Has(p, By({"axes"}))
    <3>1. By(Users) \subseteq Heavy /\ By({"axes"}) \subseteq Heavy
      BY DEF By, Heavy, Users, Light, Does
    <3> QED BY <2>1, <3>1 DEF Has
  <2>8. ASSUME Checked(r), h.do # "axes" PROVE Checked(q)
    <3>1. Has(r, By(Users)) /\ ~Has(r, By({"axes"}))
      BY <2>2, <2>8, HasParts, Zenon DEF Checked
    <3>2. Has(t, By(Users)) /\ ~Has(t, By({"axes"}))
      BY <1>1, <1>5, <2>1, <2>7, <3>1, HasJoin, Zenon
    <3>3. h \notin By({"axes"})
      BY <2>8 DEF By
    <3> QED BY <1>2, <3>2, <3>3, Zenon DEF Checked
  <2>9. r # t
    BY <2>2
  <2> QED BY <2>2, <2>3, <2>6, <2>8, <2>9
<1>6. CASE \E p : Fits(h, p) /\ r = p \o t
  <2>1. /\ r \in Seq(Step) /\ Story(r) /\ r # <<>> /\ Head(r).do \notin Chained
        /\ Head(r).do = "match" => Head(q).do \in {"write", "match"}
        /\ Checked(r) => Checked(q) \/ (h.do = "axes" /\ r # t)
    BY <1>5, <1>6, Zenon
  <2> QED BY <2>1 DEF Chained
<1> QED BY <1>3, <1>4, <1>6 DEF Goes

(* The answer that the next step uses is the one being asked for. *)
LEMMA AtLast ==
  ASSUME NEW q \in Seq(Step), q # <<>>, Story(q), Head(q).do # "axes", Tail(q) # <<>>, Head(Tail(q)).do \in Users
  PROVE  Checked(q)
<1> DEFINE t == Tail(q)
<1>1. /\ t \in Seq(Step) /\ Len(q) \in Nat /\ Len(q) >= 1 /\ Len(t) = Len(q) - 1 /\ Head(q) = q[1]
      /\ \A i \in 1 .. Len(t) : t[i] = q[i + 1]
  BY TailParts, Zenon
<1>2. Head(t) \in Step /\ Head(t) = t[1] /\ Len(t) >= 1 /\ Len(t) \in Nat
  <2> HIDE DEF t
  <2> QED BY <1>1 DEF t
<1>3. Head(t) \in By(Users) /\ Has(t, By(Users))
  <2>1. Head(t) \in By(Users)
    BY <1>2 DEF By
  <2> QED BY <1>1, <2>1, HasParts, Zenon
<1>4. ASSUME NEW j \in 1 .. Len(q) PROVE q[j] \notin By({"axes"})
  <2> HIDE DEF t
  <2>1. 1 + 1 \in 1 .. Len(q) /\ (j = 1 \/ j = 1 + 1 \/ 1 + 1 < j) /\ 1 \in 1 .. Len(t)
    BY <1>1, <1>2
  <2>2. q[1 + 1].do \in Users
    BY <1>1, <1>2, <2>1 DEF t
  <2>3. 1 + 1 < j => q[j].do # "axes"
    BY <2>1, <2>2 DEF Story
  <2>4. q[1 + 1].do # "axes"
    BY <2>2 DEF Users
  <2> QED BY <1>1, <2>1, <2>3, <2>4 DEF By
<1>5. ~Has(q, By({"axes"}))
  BY <1>4 DEF Has
<1> QED BY <1>3, <1>5, Zenon DEF Checked

(* A question does not move the mount. *)
LEMMA Unmoved ==
  ASSUME TypeOK, NEW c \in Callers, SessionInv(c), run(c), todo[c] # <<>>, Head(todo[c]).do \in Inquiring
  PROVE  fw'.motion = fw.motion /\ fw'.pos = fw.pos
<1> DEFINE h == Head(todo[c])
<1>1. Proper(h) /\ h.cmd = cmd(c)
  <2>1. todo[c] \in Seq(Step) /\ Shape(todo[c]) /\ h.cmd = cmd(c)
    BY DEF TypeOK, SessionInv, cmd
  <2> QED BY <2>1, Later
<1>2. ASSUME write(c) PROVE fw'.motion = fw.motion /\ fw'.pos = fw.pos
  <2>1. obey(cmd(c)) /\ h.do \in {"write", "rewrite", "Get", "Ack"}
    BY <1>2 DEF write, reads, at
  <2>2. cmd(c) \in Query \cup {"CtL", "CtA", "CtU"}
    BY <1>1, <2>1 DEF Proper, Inquiring
  <2> QED BY <2>1, <2>2 DEF obey, Query, Refusal, TypeOK, FirmwareType
<1>3. ~blind(c) /\ ~SlewNack(c)
  BY DEF blind, SlewNack, at, Inquiring
<1>4. write(c) \/ fw' = fw
  BY <1>3 DEF run, drainToken, Await, apply, drainStale, match, echo, readByte, window, maybeCaptureHome, maybeFinishPark,
              captureHome, setSlewing, flags, checks, parkedAlready, report, polePosition, parkState, reportPark
<1> QED BY <1>2, <1>4

(* With no query under way there is no answer that tells where the axes are. *)
LEMMA AskedNone ==
  ASSUME NEW c \in Callers
  PROVE  /\ SessionInv(c) /\ ~at(c, "match") => ParkReads
         /\ SessionInv(c)' /\ ~at(c, "match")' => ParkReads'
<1>1. ASSUME SessionInv(c), ~at(c, "match") PROVE ParkReads
  BY <1>1, Unanswered DEF NoQuery, Query, ParkReads
<1>2. ASSUME SessionInv(c)', ~at(c, "match")' PROVE ParkReads'
  BY <1>2, UnansweredNext DEF NoQuery, Query, ParkReads
<1> QED BY <1>1, <1>2

(* What the list has been through, when the answer is not at stake. *)
LEMMA AlpQuiet ==
  ASSUME TypeOK, NEW c \in Callers, Lone(c), SessionInv(c), SessionInv(c)', AlpacaInv(c), run(c),
         todo[c] \in Seq(Step), todo[c] # <<>>, Goes(todo[c], todo'[c]),
         Head(todo[c]).do \notin {"stopped", "notUnparked", "axes", "write", "match"}
  PROVE  AlpacaInv(c)'
<1> DEFINE q == todo[c]
           r == todo'[c]
<1>1. Story(q) /\ Shape(q) /\ Standing(c)
  BY DEF AlpacaInv, SessionInv
<1>2. ~Asks(Head(q), "CY")
  BY DEF Asks
<1>3. /\ Story(r) /\ (Checked(r) => Checked(q))
      /\ r # <<>> => Head(r).do \notin Users \cup {"axes", "notUnparked", "match"}
  <2>1. /\ Story(r)
        /\ r # <<>> /\ Head(r).do \in Users => Head(q).do = "axes" \/ Asks(Head(q), "CY")
        /\ r # <<>> /\ Head(r).do = "axes" => Head(q).do \in {"stopped", "notUnparked"}
        /\ r # <<>> /\ Head(r).do = "notUnparked" => Head(q).do = "stopped"
        /\ r # <<>> /\ Head(r).do = "match" => Head(q).do \in {"write", "match"}
        /\ Checked(r) => Checked(q) \/ Head(q).do = "axes"
    BY <1>1, Onwards, Zenon
  <2> HIDE DEF q, r
  <2> QED BY <1>2, <2>1 DEF q
<1>4. ~at(c, "match")' /\ ~at(c, "axes")' /\ ~at(c, "notUnparked")'
  BY <1>3 DEF at
<1>5. ParkReads'
  BY <1>4, AskedNone
<1>6. ASSUME Checked(r) PROVE fw'.motion = "idle"
  <2>1. Checked(q) /\ Has(Tail(q), By(Users))
    BY <1>3, <1>6 DEF Checked
  <2>2. fw.motion = "idle"
    BY <1>1, <2>1 DEF Standing
  <2>3. Head(q).do \in Inquiring
    BY <1>1, <2>1, Earlier
  <2> QED BY <2>2, <2>3, Unmoved
<1>7. Standing(c)' /\ Settled(c)' /\ Truly(c)'
  BY <1>3, <1>4, <1>5, <1>6 DEF Standing, Settled, Truly
<1> QED BY <1>3, <1>7 DEF AlpacaInv

(* The driver's own state: a mount that is neither latched nor being started is at rest. *)
LEMMA AlpState ==
  ASSUME TypeOK, NEW c \in Callers, Lone(c), SessionInv(c), SessionInv(c)', AlpacaInv(c), parkState(c),
         todo[c] \in Seq(Step), todo[c] # <<>>, Goes(todo[c], todo'[c])
  PROVE  AlpacaInv(c)'
<1> DEFINE q == todo[c]
           r == todo'[c]
           h == Head(q)
<1>1. Story(q) /\ Shape(q) /\ Standing(c) /\ Settled(c) /\ fw' = fw /\ inbox' = inbox /\ val \in [Callers -> Value]
      /\ h.do \in {"stopped", "notUnparked", "axes"}
  BY DEF AlpacaInv, SessionInv, parkState, TypeOK, at
<1>2. /\ Story(r)
      /\ r # <<>> /\ Head(r).do \in Users => r = Tail(q) /\ (h.do = "axes" \/ Asks(h, "CY"))
      /\ r # <<>> /\ Head(r).do = "axes" => h.do \in {"stopped", "notUnparked"}
      /\ r # <<>> /\ Head(r).do = "notUnparked" => h.do = "stopped"
      /\ r # <<>> /\ Head(r).do = "match" => h.do \in {"write", "match"}
      /\ Checked(r) => Checked(q) \/ (h.do = "axes" /\ r # Tail(q))
  BY <1>1, Onwards, Zenon
<1>3. ~at(c, "match")' /\ ParkReads'
  <2>1. ~at(c, "match")'
    BY <1>1, <1>2 DEF at
  <2> QED BY <2>1, AskedNone
<1>4. ~m.slewing /\ h.do = "stopped" => fw.motion = "idle"
  <2> SUFFICES ASSUME ~m.slewing, h.do = "stopped" PROVE fw.motion = "idle"
    OBVIOUS
  <2>1. ~Starts(c)
    <3>1. at(c, "stopped")
      BY DEF at
    <3> QED BY <3>1, NotStarting
  <2>2. ~Moving /\ Quiet
    BY <2>1 DEF SessionInv, Latched
  <2> QED BY <2>2 DEF Quiet, Moving
<1>5. Settled(c)'
  <2> SUFFICES ASSUME at(c, "notUnparked")' \/ at(c, "axes")' PROVE fw.motion = "idle" \/ val'[c] = "0"
    BY <1>1 DEF Settled
  <2>1. h.do \in {"stopped", "notUnparked"}
    BY <1>2 DEF at
  <2>2. CASE h.do = "stopped"
    <3>1. val'[c] = IF m.slewing \/ m.moving THEN "0" ELSE ""
      BY <1>1, <2>2 DEF parkState, at
    <3> QED BY <1>4, <2>2, <3>1
  <2>3. CASE h.do = "notUnparked"
    <3>1. val'[c] \in {"0", val[c]}
      BY <1>1, <2>3 DEF parkState, at
    <3>2. fw.motion = "idle" \/ val[c] = "0"
      BY <1>1, <2>3 DEF Settled, at
    <3> QED BY <3>1, <3>2
  <2> QED BY <2>1, <2>2, <2>3
<1>6. Truly(c)'
  <2> SUFFICES ASSUME r # <<>>, Head(r).do \in Users PROVE val'[c] = "0"
    BY DEF Truly
  <2>1. r = Tail(q) /\ h.do = "axes"
    BY <1>1, <1>2 DEF Asks
  <2>2. at(c, "axes") /\ ~at(c, "stopped") /\ ~at(c, "notUnparked")
    BY <2>1 DEF at
  <2>3. ~insert(c, AtPark)
    <3> SUFFICES ASSUME insert(c, AtPark) PROVE FALSE
      OBVIOUS
    <3> DEFINE p == AtPark
               t == Tail(q)
    <3>1. p \in Seq(Step) /\ p # <<>> /\ t \in Seq(Step)
      BY QueryList, TailParts, Zenon DEF AtPark
    <3>2. r = p \o t
      BY DEF insert, TypeOK
    <3> HIDE DEF p, t
    <3>3. p \o t # t
      BY <3>1
    <3> QED BY <2>1, <3>2, <3>3 DEF t
  <2>4. val' = [val EXCEPT ![c] = "0"]
    BY <2>2, <2>3 DEF parkState
  <2> QED BY <1>1, <2>4
<1>7. Standing(c)'
  <2> SUFFICES ASSUME Checked(r) PROVE fw.motion = "idle"
    BY <1>1, <1>3 DEF Standing
  <2>1. CASE Checked(q)
    BY <1>1, <2>1 DEF Standing
  <2>2. CASE h.do = "axes" /\ r # Tail(q)
    <3>1. at(c, "axes") /\ ~at(c, "stopped") /\ ~at(c, "notUnparked") /\ ~proceed(c)
      BY <2>2 DEF at, proceed, TypeOK
    <3>2. val[c] # "0"
      BY <3>1 DEF parkState
    <3> QED BY <1>1, <3>1, <3>2 DEF Settled
  <2> QED BY <1>2, <2>1, <2>2
<1> QED BY <1>2, <1>5, <1>6, <1>7 DEF AlpacaInv

(* A query is written: of a mount at rest, the axes it asks for are where it is. *)
LEMMA AlpWrite ==
  ASSUME TypeOK, NEW c \in Callers, Lone(c), SessionInv(c), SessionInv(c)', AlpacaInv(c), write(c), at(c, "write"),
         todo[c] \in Seq(Step), todo[c] # <<>>, Goes(todo[c], todo'[c])
  PROVE  AlpacaInv(c)'
<1> DEFINE q == todo[c]
           r == todo'[c]
           h == Head(q)
           x == rec("match", cmd(c))
<1>1. /\ Story(q) /\ Shape(q) /\ Standing(c) /\ h.do = "write" /\ h.cmd = cmd(c) /\ Proper(h)
  <2>1. Story(q) /\ Shape(q) /\ Standing(c) /\ h.do = "write" /\ h.cmd = cmd(c)
    BY DEF AlpacaInv, SessionInv, at, cmd
  <2> QED BY <2>1, Later
<1>2. cmd(c) \in Query
  BY <1>1 DEF Proper
<1>3. insert(c, <<x>>) /\ x \in Step /\ x.do = "match"
  <2>1. insert(c, on("match", cmd(c)))
    BY DEF write, at, reads
  <2>2. on("match", cmd(c)) = <<x>> /\ x.do = "match"
    BY DEF on, rec
  <2>3. x \in Step
    BY <1>2 DEF rec, Step, Does, Command, Gated, Ungated, Query
  <2> QED BY <2>1, <2>2, <2>3
<1> HIDE DEF x
<1>4. r # <<>> /\ Head(r).do = "match"
  <2>1. <<x>> \in Seq(Step) /\ <<x>> # <<>> /\ <<x>>[1] = x
    BY <1>3
  <2>2. r # <<>> /\ Head(r) = x
    BY <1>3, <2>1, Inserted
  <2> QED BY <1>3, <2>2
<1>5. Story(r) /\ (Checked(r) => Checked(q))
  <2>1. Story(r) /\ (Checked(r) => Checked(q) \/ h.do = "axes")
    BY <1>1, Onwards, Zenon
  <2> QED BY <1>1, <2>1
<1>6. Settled(c)' /\ Truly(c)'
  BY <1>4 DEF Settled, Truly, at, Users
<1>7. fw' = fw /\ \E v \in Value : inbox' = Append(inbox, [k |-> cmd(c), v |-> v]) /\ (cmd(c) = "CY" /\ fw.motion = "idle" => v = fw.pos)
  <2>0. obey(cmd(c))
    BY DEF write
  <2>1. CASE cmd(c) = "AH"
    <3> DEFINE v == IF fw.motion = "home" \/ fw.wedged THEN "1" ELSE "0"
    <3>1. inbox' = Append(inbox, [k |-> cmd(c), v |-> v]) /\ fw' = fw
      BY <2>0, <2>1 DEF obey, answer, Refusal
    <3>2. v \in Value
      BY DEF Value
    <3> QED BY <2>1, <3>1, <3>2
  <2>2. CASE cmd(c) = "G"
    <3>1. inbox' = Append(inbox, [k |-> cmd(c), v |-> fw.pos]) /\ fw' = fw
      BY <2>0, <2>2 DEF obey, answer, Refusal
    <3>2. fw.pos \in Value
      BY DEF Value, TypeOK, FirmwareType
    <3> QED BY <3>1, <3>2
  <2>3. CASE cmd(c) = "CY"
    <3>1. PICK p \in Place : inbox' = Append(inbox, [k |-> cmd(c), v |-> p]) /\ fw' = fw /\ (fw.motion = "idle" => p = fw.pos)
      BY <2>0, <2>3 DEF obey, answer, Refusal
    <3>2. p \in Value
      BY DEF Value
    <3> QED BY <3>1, <3>2
  <2> QED BY <1>2, <2>1, <2>2, <2>3 DEF Query
<1>8. Standing(c)'
  <2> SUFFICES ASSUME Checked(r) PROVE fw'.motion = "idle" /\ ParkReads'
    BY DEF Standing
  <2>1. fw.motion = "idle" /\ ParkReads
    BY <1>1, <1>5 DEF Standing
  <2>2. PICK v \in Value : inbox' = Append(inbox, [k |-> cmd(c), v |-> v]) /\ (cmd(c) = "CY" => v = fw.pos)
    BY <1>7, <2>1
  <2> DEFINE g == [k |-> cmd(c), v |-> v]
  <2>3. g \in Frame /\ g.k = cmd(c) /\ g.v = v /\ inbox' = Append(inbox, g)
    BY <1>2, <2>2 DEF Frame, Kind
  <2> HIDE DEF g
  <2>4. /\ Len(inbox) \in Nat /\ Len(inbox') = Len(inbox) + 1
        /\ \A i \in Unread : inbox'[i] = inbox[i]
        /\ inbox'[Len(inbox) + 1] = g
    <3>1. inbox \in Seq(Frame)
      BY DEF TypeOK
    <3> QED BY <2>3, <3>1, AppendParts DEF Unread
  <2>5. \A i \in Unread' : (i \in Unread /\ inbox'[i] = inbox[i]) \/ inbox'[i] = g
    BY <2>4 DEF Unread
  <2>6. g.k = "CY" => g.v = fw.pos
    BY <2>2, <2>3
  <2>7. \A i \in Unread' : inbox'[i].k = "CY" => inbox'[i].v = fw.pos
    BY <2>1, <2>5, <2>6, Zenon DEF ParkReads
  <2> QED BY <1>7, <2>1, <2>7 DEF ParkReads
<1> QED BY <1>5, <1>6, <1>8 DEF AlpacaInv

(* A query is answered, with the axes as they stand when the answer is used next. *)
LEMMA AlpMatch ==
  ASSUME TypeOK, NEW c \in Callers, Lone(c), SessionInv(c), SessionInv(c)', AlpacaInv(c), match(c), at(c, "match"),
         todo[c] \in Seq(Step), todo[c] # <<>>, Goes(todo[c], todo'[c])
  PROVE  AlpacaInv(c)' /\ (todo'[c] # <<>> /\ Head(todo'[c]).do \in Users => val'[c] # "0")
<1> DEFINE q == todo[c]
           r == todo'[c]
           h == Head(q)
<1>1. /\ fw' = fw /\ "lateReply" \notin Env /\ val \in [Callers -> Value] /\ Story(q) /\ Shape(q) /\ Standing(c)
      /\ Bytes /\ h.do = "match" /\ cmd(c) = h.cmd /\ cmd(c) \in Query
  <2>1. fw' = fw /\ "lateReply" \notin Env /\ val \in [Callers -> Value] /\ Story(q) /\ Shape(q) /\ Standing(c)
    BY DEF match, Lone, TypeOK, AlpacaInv, SessionInv
  <2>2. Bytes /\ h.do = "match" /\ cmd(c) = h.cmd /\ cmd(c) \in Query
    BY Waiting
  <2> QED BY <2>1, <2>2
<1>2. /\ Story(r) /\ (Checked(r) => Checked(q))
      /\ r # <<>> /\ Head(r).do \in Users => r = Tail(q) /\ Asks(h, "CY")
      /\ ~at(c, "axes")' /\ ~at(c, "notUnparked")'
  <2>1. /\ Story(r)
        /\ r # <<>> /\ Head(r).do \in Users => r = Tail(q) /\ (h.do = "axes" \/ Asks(h, "CY"))
        /\ r # <<>> /\ Head(r).do = "axes" => h.do \in {"stopped", "notUnparked"}
        /\ r # <<>> /\ Head(r).do = "notUnparked" => h.do = "stopped"
        /\ Checked(r) => Checked(q) \/ h.do = "axes"
    BY <1>1, Onwards, Zenon
  <2> QED BY <1>1, <2>1 DEF at
<1>3. PICK f \in Heard :
        /\ hear(f)
        /\ \/ /\ f = NoFrame \/ f.k = cmd(c)
              /\ val' = [val EXCEPT ![c] = IF f = NoFrame THEN "err" ELSE f.v]
              /\ proceed(c)
           \/ again(c)
           \/ insert(c, step("drainStale") \o on("rewrite", cmd(c)))
  BY DEF match
<1>4. PICK k \in Nat : Shift(k) /\ Takes(f, k)
  BY <1>1, <1>3, HearParts
<1>5. ParkReads => ParkReads'
  <2>1. \A j \in Unread' : j + k \in Unread /\ inbox'[j] = inbox[j + k]
    BY <1>4 DEF Shift
  <2> QED BY <1>1, <2>1 DEF ParkReads
<1>6. Standing(c)' /\ Settled(c)'
  BY <1>1, <1>2, <1>5 DEF Standing, Settled
<1>7. ~insert(c, step("drainStale") \o on("rewrite", cmd(c)))
  BY <1>1, NeverStale
<1>8. ASSUME r # <<>>, Head(r).do \in Users PROVE val'[c] = "err" \/ (fw.motion = "idle" /\ val'[c] = fw.pos)
  <2>1. r = Tail(q) /\ cmd(c) = "CY" /\ h.do # "axes"
    BY <1>1, <1>2, <1>8 DEF Asks
  <2>2. Checked(q)
    BY <1>1, <1>8, <2>1, AtLast
  <2>3. fw.motion = "idle" /\ ParkReads
    BY <1>1, <2>2 DEF Standing
  <2>4. ~again(c)
    <3> SUFFICES ASSUME again(c) PROVE FALSE
      OBVIOUS
    <3> DEFINE x == [h EXCEPT !.n = @ + 1]
               p == <<x>>
               t == Tail(q)
    <3>1. t \in Seq(Step) /\ h \in Step
      BY TailParts, Zenon
    <3>2. x \in Step
      BY <3>1 DEF Step
    <3>3. r = p \o t
      BY DEF again, insert, TypeOK
    <3> HIDE DEF x
    <3>4. p \in Seq(Step) /\ p # <<>>
      BY <3>2
    <3> HIDE DEF p, t
    <3>5. p \o t # t
      BY <3>1, <3>4
    <3> QED BY <2>1, <3>3, <3>5 DEF t
  <2>5. (f = NoFrame \/ f.k = cmd(c)) /\ val'[c] = IF f = NoFrame THEN "err" ELSE f.v
    BY <1>1, <1>3, <1>7, <2>4
  <2>6. f # NoFrame => f.k = "CY" /\ val'[c] = f.v
    BY <2>1, <2>5
  <2>7. f # NoFrame => k \in Unread /\ f = inbox[k]
    <3>1. frame("junk").k # "CY"
      BY DEF frame
    <3>2. f # NoFrame => k \in Unread /\ (IF k = 1 THEN f = inbox[1] ELSE f = frame("junk"))
      BY <1>4 DEF Takes
    <3> QED BY <2>6, <3>1, <3>2
  <2>8. f # NoFrame => val'[c] = fw.pos
    BY <2>3, <2>6, <2>7 DEF ParkReads
  <2> QED BY <2>3, <2>5, <2>8
<1>9. Truly(c)'
  BY <1>1, <1>8 DEF Truly
<1>10. fw.pos # "0"
  BY DEF TypeOK, FirmwareType, Place
<1> QED BY <1>2, <1>6, <1>8, <1>9, <1>10 DEF AlpacaInv

(* What a caller's lists are looked at for: steps that ask for the parked state *)
(* or use it, a home seek, and steps that park and unpark.                      *)
Lacks(q, R) == q \in Seq(Step) /\ ~Has(q, R)
Seeks == {s \in Step : Is(s, "Blind", "Ch")}
Parks == By({"parked", "parking"})
Marked == By(Chained \cup {"parked", "parking", "Unpark"}) \cup Seeks

(* A list made of two that lack such a step. *)
LEMMA LacksJoin ==
  ASSUME NEW a, NEW b, NEW R, Lacks(a, R), Lacks(b, R)
  PROVE  Lacks(a \o b, R)
BY HasJoin, Concat, Zenon DEF Lacks

(* A list of a step without a command. *)
LEMMA LacksStep ==
  ASSUME NEW s \in Does, NEW R, rec(s, "") \notin R
  PROVE  Lacks(step(s), R)
<1> DEFINE x == rec(s, "")
<1>1. x \in Step /\ step(s) = <<x>>
  BY DEF rec, Step, Command, Gated, Ungated, step
<1> HIDE DEF x
<1>2. Lacks(<<x>>, R)
  BY <1>1, HasOne, Zenon DEF Lacks, x
<1> QED BY <1>1, <1>2, Zenon

(* A list of a step with a command. *)
LEMMA LacksOn ==
  ASSUME NEW s \in Does, NEW x \in Command, NEW R, rec(s, x) \notin R,
         x \in Gated \cup Ungated => s \in {"slewCmd", "window"}, x \in Ungated => ~Careful
  PROVE  Lacks(on(s, x), R)
<1> DEFINE y == rec(s, x)
<1>1. y \in Step /\ on(s, x) = <<y>>
  BY DEF rec, Step, on
<1> HIDE DEF y
<1>2. Lacks(<<y>>, R)
  BY <1>1, HasOne, Zenon DEF Lacks, y
<1> QED BY <1>1, <1>2, Zenon

(* Steps that are none of these. *)
LEMMA Unmarked ==
  ASSUME NEW R, R \subseteq Marked
  PROVE  /\ \A s \in Does \ (Chained \cup {"parked", "parking", "Unpark"}) : Lacks(step(s), R)
         /\ \A x \in Query : Lacks(on("write", x), R)
         /\ \A x \in {"CtL", "CtA", "CtU"} : Lacks(on("Get", x), R)
         /\ \A x \in {"Sr", "Sd", "SrP", "SdP"} : Lacks(on("Ack", x), R)
         /\ \A x \in {"Q", "Sz", "Sa"} : Lacks(on("Blind", x), R)
         /\ \A x \in {"MS", "MA", "Ck"} : Lacks(on("slewCmd", x), R)
         /\ ~Careful => Lacks(on("slewCmd", "CM"), R)
<1>1. ASSUME NEW s, NEW x, s \notin Chained \cup {"parked", "parking", "Unpark"}, s # "Blind" \/ x # "Ch" PROVE rec(s, x) \notin R
  <2>1. rec(s, x).do = s /\ rec(s, x).cmd = x
    BY DEF rec
  <2> QED BY <1>1, <2>1 DEF Marked, By, Seeks, Is
<1>2. \A s \in Does \ (Chained \cup {"parked", "parking", "Unpark"}) : Lacks(step(s), R)
  BY <1>1, LacksStep
<1>3. \A s \in {"write", "Get", "Ack", "slewCmd", "Blind"} : s \in Does /\ s \notin Chained \cup {"parked", "parking", "Unpark"}
  BY DEF Does, Chained, Users
<1>4. \A x \in Query : Lacks(on("write", x), R)
  BY <1>1, <1>3, LacksOn DEF Command, Gated, Ungated, Query
<1>5. /\ \A x \in {"CtL", "CtA", "CtU"} : Lacks(on("Get", x), R)
      /\ \A x \in {"Sr", "Sd", "SrP", "SdP"} : Lacks(on("Ack", x), R)
      /\ \A x \in {"Q", "Sz", "Sa"} : Lacks(on("Blind", x), R)
  BY <1>1, <1>3, LacksOn DEF Command, Gated, Ungated
<1>6. /\ \A x \in {"MS", "MA", "Ck"} : Lacks(on("slewCmd", x), R)
      /\ ~Careful => Lacks(on("slewCmd", "CM"), R)
  BY <1>1, <1>3, LacksOn DEF Command, Gated, Ungated
<1> QED BY <1>2, <1>4, <1>5, <1>6

(* The lists of the driver's functions and operations. *)
LEMMA LacksLists ==
  ASSUME NEW R, R \subseteq Marked
  PROVE  /\ \A x \in Query : Lacks(get(x), R) /\ Lacks(coord(x), R)
         /\ \A x \in {"CtL", "CtA", "CtU"} : Lacks(track(x), R)
         /\ \A x \in {"Sr", "Sd", "SrP", "SdP"} : Lacks(Ack(x), R)
         /\ \A x \in {"Q", "Sz", "Sa"} : Lacks(Blind(x), R)
         /\ \A x \in {"MS", "MA"} : Lacks(slewCmd(x), R)
<1>1. /\ Lacks(step("maybeCaptureHome"), R) /\ Lacks(step("maybeFinishPark"), R) /\ Lacks(step("drainToken"), R)
      /\ Lacks(step("accepted"), R) /\ Lacks(step("slewing"), R)
  BY Unmarked DEF Does, Chained, Users
<1>2. /\ \A x \in Query : Lacks(on("write", x), R)
      /\ \A x \in {"CtL", "CtA", "CtU"} : Lacks(on("Get", x), R)
      /\ \A x \in {"Sr", "Sd", "SrP", "SdP"} : Lacks(on("Ack", x), R)
      /\ \A x \in {"Q", "Sz", "Sa"} : Lacks(on("Blind", x), R)
      /\ \A x \in {"MS", "MA"} : Lacks(on("slewCmd", x), R)
  BY Unmarked
<1>3. \A x \in Query : Lacks(get(x), R) /\ Lacks(coord(x), R)
  BY <1>1, <1>2, LacksJoin, Zenon DEF get, coord
<1>4. (\A x \in {"Sr", "Sd", "SrP", "SdP"} : Lacks(Ack(x), R)) /\ \A x \in {"MS", "MA"} : Lacks(slewCmd(x), R)
  BY <1>1, <1>2, LacksJoin, Zenon DEF Ack, slewCmd
<1> QED BY <1>2, <1>3, <1>4, Zenon DEF track, Blind

(* The operations. *)
LEMMA LacksOps ==
  ASSUME NEW R, R \subseteq Marked
  PROVE  /\ Lacks(SlewToAltAz, R) /\ Lacks(SlewToPole, R) /\ Lacks(Halt, R) /\ Lacks(Slewing, R)
         /\ Lacks(Blind("Ch"), R) => Lacks(FindHome, R)
         /\ Lacks(step("parked"), R) /\ Lacks(step("parking"), R) => Lacks(Park, R)
<1>1. /\ Lacks(step("requireHome"), R) /\ Lacks(step("polePosition"), R) /\ Lacks(step("refuseWhileHoming"), R)
      /\ Lacks(step("still"), R) /\ Lacks(step("unmoved"), R) /\ Lacks(step("notHoming"), R) /\ Lacks(step("slewing"), R)
      /\ Lacks(step("known"), R) /\ Lacks(step("drainToken"), R) /\ Lacks(step("maybeFinishPark"), R)
      /\ Lacks(step("Slewing"), R)
  BY Unmarked DEF Does, Chained, Users
<1>2. /\ Lacks(get("AH"), R) /\ Lacks(get("CY"), R) /\ Lacks(coord("G"), R) /\ Lacks(track("CtL"), R)
      /\ Lacks(Ack("SrP"), R) /\ Lacks(Ack("SdP"), R)
      /\ Lacks(Blind("Q"), R) /\ Lacks(Blind("Sz"), R) /\ Lacks(Blind("Sa"), R)
      /\ Lacks(slewCmd("MS"), R) /\ Lacks(slewCmd("MA"), R)
  BY LacksLists, Zenon DEF Query
<1>3. Lacks(SlewToAltAz, R)
  BY <1>1, <1>2, LacksJoin, Zenon DEF SlewToAltAz
<1>4. Lacks(SlewToPole, R)
  BY <1>1, <1>3, LacksJoin, Zenon DEF SlewToPole
<1>5. Lacks(Halt, R) /\ Lacks(Slewing, R) /\ (Lacks(Blind("Ch"), R) => Lacks(FindHome, R))
  BY <1>1, <1>2, LacksJoin, Zenon DEF Halt, FindHome, Homing, Slewing
<1>6. ASSUME Lacks(step("parked"), R), Lacks(step("parking"), R) PROVE Lacks(Park, R)
  <2> DEFINE p == step("requireHome") \o get("AH") \o step("refuseWhileHoming") \o track("CtL") \o get("CY")
             r == p \o step("parked") \o coord("G") \o step("known")
  <2>1. Park = r \o Ack("SrP") \o Ack("SdP") \o slewCmd("MS") \o step("parking")
    BY DEF Park, Homing, AtPark, SlewToTarget
  <2>2. Lacks(p, R)
    BY <1>1, <1>2, LacksJoin, Zenon
  <2> HIDE DEF p
  <2>3. Lacks(r, R)
    BY <1>1, <1>2, <1>6, <2>2, LacksJoin, Zenon
  <2> HIDE DEF r
  <2>4. Lacks(r \o Ack("SrP") \o Ack("SdP") \o slewCmd("MS") \o step("parking"), R)
    BY <1>1, <1>2, <1>6, <2>3, LacksJoin, Zenon
  <2> QED BY <2>1, <2>4
<1> QED BY <1>3, <1>4, <1>5, <1>6

(* Lists that neither ask for the parked state nor use it. *)
Bare(q) == Lacks(q, By(Chained))

(* The steps of an operation that does not ask. *)
LEMMA BareSteps ==
  /\ Bare(step("parked")) /\ Bare(step("parking")) /\ Bare(step("Unpark")) /\ Bare(Blind("Ch"))
<1>1. ASSUME NEW s \in {"parked", "parking", "Unpark", "Blind"}, NEW x PROVE rec(s, x) \notin By(Chained)
  <2>1. rec(s, x).do = s
    BY DEF rec
  <2> QED BY <2>1 DEF By, Chained, Users
<1>2. Bare(step("parked")) /\ Bare(step("parking")) /\ Bare(step("Unpark"))
  BY <1>1, LacksStep DEF Bare, Does
<1>3. Bare(Blind("Ch"))
  <2>1. "Blind" \in Does /\ "Ch" \in Command /\ "Ch" \notin Gated \cup Ungated /\ rec("Blind", "Ch") \notin By(Chained)
    BY <1>1 DEF Does, Command, Gated, Ungated
  <2>2. Lacks(on("Blind", "Ch"), By(Chained))
    BY <2>1, LacksOn
  <2> QED BY <2>2 DEF Bare, Blind
<1> QED BY <1>2, <1>3

(* What is marked includes what asks for the parked state or uses it. *)
LEMMA BareMarked ==
  By(Chained) \subseteq Marked
BY DEF By, Marked

(* Such a list, alone and behind another. *)
LEMMA BareStory ==
  ASSUME NEW b, Bare(b)
  PROVE  /\ Story(b) /\ ~Checked(b) /\ (b # <<>> => Head(b).do \notin Chained)
         /\ \A i \in 1 .. Len(b) : b[i].do \notin Chained
<1>1. b \in Seq(Step) /\ Len(b) \in Nat
  BY DEF Bare, Lacks
<1>2. \A i \in 1 .. Len(b) : b[i].do \notin Chained
  <2>1. \A i \in 1 .. Len(b) : b[i] \in Step /\ b[i] \notin By(Chained)
    BY <1>1 DEF Bare, Lacks, Has
  <2> QED BY <2>1 DEF By
<1>3. Story(b)
  <2>1. \A i \in 1 .. Len(b) - 1 : i \in 1 .. Len(b) /\ i + 1 \in 1 .. Len(b)
    BY <1>1
  <2>2. \A i \in 1 .. Len(b) - 1 : Linked(b[i], b[i + 1])
    BY <1>2, <2>1 DEF Linked, Chained
  <2>3. \A i \in 1 .. Len(b) : b[i].do \notin Users
    BY <1>2 DEF Chained
  <2> QED BY <2>2, <2>3 DEF Story
<1>4. ASSUME b # <<>> PROVE Head(b).do \notin Chained /\ ~Checked(b)
  <2>1. Head(b) = b[1] /\ 1 \in 1 .. Len(b)
    BY <1>1, <1>4
  <2>2. By(Users) \subseteq By(Chained)
    BY DEF By, Chained
  <2>3. ~Has(b, By(Users))
    BY <2>2 DEF Bare, Lacks, Has
  <2>4. ~Has(Tail(b), By(Users))
    BY <1>1, <1>4, <2>3, HasParts, Zenon
  <2> QED BY <1>2, <2>1, <2>4 DEF Checked
<1> QED BY <1>2, <1>3, <1>4 DEF Checked

(* A list that asks, followed by one that does not. *)
LEMMA StoryJoin ==
  ASSUME NEW a \in Seq(Step), a # <<>>, Story(a), a[Len(a)].do # "axes", NEW b, Bare(b)
  PROVE  Story(a \o b)
<1> DEFINE r == a \o b
           l == Len(a)
           n == Len(b)
<1>0. b \in Seq(Step)
  BY DEF Bare, Lacks
<1>1. /\ l \in Nat /\ l >= 1 /\ n \in Nat /\ Len(r) = l + n
      /\ \A i \in 1 .. l : r[i] = a[i]
      /\ \A i \in 1 .. n : r[l + i] = b[i]
  BY <1>0, JoinParts
<1>2. Story(b) /\ \A i \in 1 .. n : b[i].do \notin Chained
  BY BareStory
<1> HIDE DEF r
<1>3. /\ \A i \in 1 .. l + n : i \in 1 .. l \/ (i - l \in 1 .. n /\ l + (i - l) = i)
      /\ \A i \in 1 .. (l + n) - 1 : \/ i \in 1 .. l - 1 /\ i \in 1 .. l /\ i + 1 \in 1 .. l
                                     \/ i = l /\ l \in 1 .. l /\ i + 1 - l \in 1 .. n /\ l + (i + 1 - l) = i + 1
                                     \/ i - l \in 1 .. n /\ l + (i - l) = i /\ i + 1 - l \in 1 .. n /\ l + (i + 1 - l) = i + 1
  <2> HIDE DEF l, n
  <2> QED BY <1>1
<1>4. \A i \in 1 .. l + n : i \in 1 .. l \/ r[i].do \notin Chained
  <2> SUFFICES ASSUME NEW i \in 1 .. l + n, i \notin 1 .. l PROVE r[i].do \notin Chained
    OBVIOUS
  <2>1. i - l \in 1 .. n /\ l + (i - l) = i
    BY <1>3
  <2>2. r[l + (i - l)] = b[i - l]
    BY <1>1, <2>1
  <2> QED BY <1>2, <2>1, <2>2
<1>5. ASSUME NEW i \in 1 .. Len(r) - 1 PROVE Linked(r[i], r[i + 1])
  <2>1. CASE i \in 1 .. l - 1 /\ i \in 1 .. l /\ i + 1 \in 1 .. l
    BY <1>1, <2>1 DEF Story
  <2>2. CASE i = l /\ l \in 1 .. l /\ i + 1 - l \in 1 .. n /\ l + (i + 1 - l) = i + 1
    <3>1. r[i + 1] = b[i + 1 - l] /\ r[i] = a[l]
      BY <1>1, <2>2
    <3>2. r[i + 1].do \notin Chained /\ r[i].do # "axes"
      BY <1>2, <2>2, <3>1
    <3> QED BY <3>2 DEF Linked, Chained
  <2>3. CASE i - l \in 1 .. n /\ l + (i - l) = i /\ i + 1 - l \in 1 .. n /\ l + (i + 1 - l) = i + 1
    <3>1. r[i + 1] = b[i + 1 - l] /\ r[i] = b[i - l]
      BY <1>1, <2>3
    <3>2. r[i + 1].do \notin Chained /\ r[i].do \notin Chained
      BY <1>2, <2>3, <3>1
    <3> QED BY <3>2 DEF Linked, Chained
  <2> QED BY <1>1, <1>3, <2>1, <2>2, <2>3
<1>6. ASSUME NEW i \in 1 .. Len(r), NEW j \in 1 .. Len(r), r[i].do \in Users PROVE i \in 1 .. l /\ a[i].do \in Users
  <2>1. i \in 1 .. l
    BY <1>1, <1>4, <1>6 DEF Chained
  <2> QED BY <1>1, <1>6, <2>1
<1>7. ASSUME NEW i \in 1 .. Len(r), NEW j \in 1 .. Len(r), r[i].do \in Users, j < i PROVE r[j].do \in Inquiring
  <2>1. i \in 1 .. l /\ a[i].do \in Users
    BY <1>6, <1>7
  <2>2. j \in 1 .. l
    <3> HIDE DEF l
    <3> QED BY <1>1, <1>7, <2>1
  <2> QED BY <1>1, <1>7, <2>1, <2>2 DEF Story
<1>8. ASSUME NEW i \in 1 .. Len(r), NEW j \in 1 .. Len(r), r[i].do \in Users, i < j PROVE r[j].do # "axes"
  <2>1. i \in 1 .. l /\ a[i].do \in Users
    BY <1>6, <1>8
  <2>2. CASE j \in 1 .. l
    BY <1>1, <1>8, <2>1, <2>2 DEF Story
  <2>3. CASE r[j].do \notin Chained
    BY <2>3 DEF Chained
  <2> QED BY <1>1, <1>4, <2>2, <2>3
<1> QED BY <1>5, <1>7, <1>8 DEF Story, r

(* The question, and the step that uses the answer. *)
Begins(q) == q \in Seq(Step) /\ q # <<>> /\ Story(q) /\ Head(q).do \notin Chained /\ Has(q, By({"axes"}))

(* AlpacaAtPark and the step that uses its answer. *)
LEMMA BeginsPark ==
  ASSUME NEW s \in Users
  PROVE  LET q == AlpacaAtPark \o step(s) IN Begins(q) /\ q[Len(q)].do # "axes"
<1> DEFINE a == rec("drainToken", "")
           b == rec("maybeFinishPark", "")
           d == rec("stopped", "")
           e == rec("notUnparked", "")
           f == rec("axes", "")
           g == rec(s, "")
           q == <<a>> \o <<b>> \o <<d>> \o <<e>> \o <<f>> \o <<g>>
<1>1. /\ a \in Step /\ b \in Step /\ d \in Step /\ e \in Step /\ f \in Step /\ g \in Step
      /\ a.do = "drainToken" /\ b.do = "maybeFinishPark" /\ d.do = "stopped" /\ e.do = "notUnparked" /\ f.do = "axes" /\ g.do = s
  <2>1. {"drainToken", "maybeFinishPark", "stopped", "notUnparked", "axes"} \subseteq Does /\ s \in Does
    BY DEF Does, Users
  <2>2. "" \in Command /\ "" \notin Gated \cup Ungated
    BY DEF Command, Gated, Ungated
  <2>3. \A x \in Does : rec(x, "") \in Step /\ rec(x, "").do = x
    BY <2>2 DEF rec, Step
  <2> QED BY <2>1, <2>3
<1>2. AlpacaAtPark \o step(s) = q
  BY DEF AlpacaAtPark, step, rec
<1> HIDE DEF a, b, d, e, f, g
<1>3. q \in Seq(Step) /\ Len(q) = 6 /\ q[1] = a /\ q[2] = b /\ q[3] = d /\ q[4] = e /\ q[5] = f /\ q[6] = g /\ q # <<>>
  BY <1>1
<1> HIDE DEF q
<1>4. /\ \A i \in 1 .. Len(q) : i \in {1, 2, 3, 4, 5, 6}
      /\ \A i \in 1 .. Len(q) - 1 : i \in {1, 2, 3, 4, 5}
      /\ \A i \in {1, 2, 3, 4, 5, 6} : i # 6 => i \in {1, 2, 3, 4, 5}
  BY <1>3
<1>5. \A i \in {1, 2, 3, 4, 5} : Linked(q[i], q[i + 1])
  <2>1. Linked(a, b) /\ Linked(b, d) /\ Linked(d, e) /\ Linked(e, f) /\ Linked(f, g)
    BY <1>1 DEF Linked, Users
  <2> QED BY <1>3, <2>1
<1>6. \A i \in {1, 2, 3, 4, 5} : q[i].do \in Inquiring /\ q[i].do \notin Users
  BY <1>1, <1>3 DEF Inquiring, Users
<1>7. Story(q)
  <2>1. \A i, j \in 1 .. Len(q) : q[i].do \in Users => i = 6 /\ (j < i => j \in {1, 2, 3, 4, 5}) /\ ~(i < j)
    BY <1>4, <1>6
  <2> QED BY <1>4, <1>5, <1>6, <2>1 DEF Story
<1>8. f \in By({"axes"}) /\ 5 \in 1 .. Len(q) /\ Head(q) = a
  BY <1>1, <1>3 DEF By
<1>9. Begins(q) /\ q[Len(q)].do # "axes"
  BY <1>1, <1>3, <1>7, <1>8 DEF Begins, Has, Chained, Users
<1> QED BY <1>2, <1>9

(* AlpacaAtHome and the step that uses its answer. *)
LEMMA BeginsHome ==
  Begins(AlpacaAtHome \o step("atHome"))
<1> DEFINE a == rec("drainToken", "")
           b == rec("maybeFinishPark", "")
           d == rec("stopped", "")
           f == rec("axes", "")
           g == rec("atHome", "")
           q == <<a>> \o <<b>> \o <<d>> \o <<f>> \o <<g>>
<1>1. /\ a \in Step /\ b \in Step /\ d \in Step /\ f \in Step /\ g \in Step
      /\ a.do = "drainToken" /\ b.do = "maybeFinishPark" /\ d.do = "stopped" /\ f.do = "axes" /\ g.do = "atHome"
  BY DEF rec, Step, Does, Command, Gated, Ungated
<1>2. AlpacaAtHome \o step("atHome") = q
  BY DEF AlpacaAtHome, step, rec
<1> HIDE DEF a, b, d, f, g
<1>3. q \in Seq(Step) /\ Len(q) = 5 /\ q[1] = a /\ q[2] = b /\ q[3] = d /\ q[4] = f /\ q[5] = g /\ q # <<>>
  BY <1>1
<1> HIDE DEF q
<1>4. /\ \A i \in 1 .. Len(q) : i \in {1, 2, 3, 4, 5}
      /\ \A i \in 1 .. Len(q) - 1 : i \in {1, 2, 3, 4}
  BY <1>3
<1>5. \A i \in {1, 2, 3, 4} : Linked(q[i], q[i + 1])
  <2>1. Linked(a, b) /\ Linked(b, d) /\ Linked(d, f) /\ Linked(f, g)
    BY <1>1 DEF Linked, Users
  <2> QED BY <1>3, <2>1
<1>6. \A i \in {1, 2, 3, 4} : q[i].do \in Inquiring /\ q[i].do \notin Users
  BY <1>1, <1>3 DEF Inquiring, Users
<1>7. Story(q)
  <2>1. \A i, j \in 1 .. Len(q) : q[i].do \in Users => i = 5 /\ (j < i => j \in {1, 2, 3, 4}) /\ ~(i < j)
    BY <1>4, <1>6
  <2> QED BY <1>4, <1>5, <1>6, <2>1 DEF Story
<1>8. f \in By({"axes"}) /\ 4 \in 1 .. Len(q) /\ Head(q) = a
  BY <1>1, <1>3 DEF By
<1>9. Begins(q)
  BY <1>1, <1>3, <1>7, <1>8 DEF Begins, Has, Chained, Users
<1> QED BY <1>2, <1>9

(* Every operation of a lone caller asks before it uses the answer. *)
LEMMA ProgramStory ==
  ASSUME NEW c \in Callers, Lone(c), NEW op \in Ops[c]
  PROVE  LET q == program(op) IN Story(q) /\ ~Checked(q) /\ (q # <<>> => Head(q).do \notin Chained)
<1>0. op \in Operation \ {"MoveAxisRate", "Move", "StopAxis", "PulseGuide", "SlewToTargetAlt"}
  BY RstAssumption DEF Lone
<1>1. ASSUME NEW q, Bare(q) \/ Begins(q) PROVE Story(q) /\ ~Checked(q) /\ (q # <<>> => Head(q).do \notin Chained)
  BY <1>1, BareStory, Zenon DEF Begins, Checked
<1>2. ASSUME NEW s \in Users, NEW b, Bare(b) PROVE Begins(AlpacaAtPark \o step(s) \o b)
  <2> DEFINE a == AlpacaAtPark \o step(s)
  <2>1. Begins(a) /\ a[Len(a)].do # "axes"
    BY BeginsPark
  <2>2. b \in Seq(Step) /\ a \in Seq(Step) /\ a # <<>> /\ Story(a) /\ Has(a, By({"axes"})) /\ Head(a).do \notin Chained
    BY <1>2, <2>1 DEF Begins, Bare, Lacks
  <2> HIDE DEF a
  <2>3. Story(a \o b)
    BY <1>2, <2>1, <2>2, StoryJoin
  <2>4. a \o b \in Seq(Step) /\ a \o b # <<>> /\ Head(a \o b) = Head(a)
    BY <2>2
  <2>5. Has(a \o b, By({"axes"}))
    BY <2>2, HasJoin, Zenon
  <2>6. Begins(a \o b)
    BY <2>2, <2>3, <2>4, <2>5, Zenon DEF Begins
  <2> QED BY <2>6 DEF a
<1>3. /\ Bare(step("known")) /\ Bare(step("Unpark")) /\ Bare(SlewToAltAz) /\ Bare(SlewToPole) /\ Bare(Halt) /\ Bare(Slewing)
      /\ Bare(FindHome) /\ Bare(Park)
  <2>1. Bare(step("known"))
    BY BareMarked, Unmarked DEF Bare, Does, Chained, Users
  <2> QED BY <2>1, BareMarked, BareSteps, LacksOps, Zenon DEF Bare
<1>4. CASE op \in {"RA", "SiteLatitude", "SetTarget", "SlewToTarget", "SetTracking", "StopTracking", "TrackRate"}
  <2>1. /\ Bare(coord("G") \o step("known")) /\ Bare(get("G") \o step("known")) /\ Bare(Ack("Sr") \o Ack("Sd"))
        /\ Bare(slewCmd("MS"))
        /\ Bare(track("CtA") \o step("known")) /\ Bare(track("CtL") \o step("known")) /\ Bare(track("CtU") \o step("known"))
    <3>1. /\ Bare(coord("G")) /\ Bare(get("G")) /\ Bare(Ack("Sr")) /\ Bare(Ack("Sd")) /\ Bare(slewCmd("MS"))
          /\ Bare(track("CtA")) /\ Bare(track("CtL")) /\ Bare(track("CtU"))
      BY BareMarked, LacksLists, Zenon DEF Query, Bare
    <3> QED BY <1>3, <3>1, LacksJoin, Zenon DEF Bare
  <2>2. Bare(program(op))
    BY <1>4, <2>1 DEF program, SlewToTarget
  <2> QED BY <1>1, <2>2
<1>5. CASE op \in {"Slewing", "SlewToAltAz", "SlewToPole", "Halt", "FindHome", "Park", "Unpark"}
  <2>1. Bare(program(op))
    BY <1>3, <1>5 DEF program
  <2> QED BY <1>1, <2>1
<1>6. CASE op \in {"SyncToTarget", "SyncCurrent"}
  <2>1. Bare(on("slewCmd", "Ck")) /\ (op = "SyncCurrent" => Bare(on("slewCmd", "CM")))
    <3>1. op = "SyncCurrent" => ~Careful
      BY DEF Careful, Careless
    <3> QED BY <3>1, BareMarked, Unmarked, Zenon DEF Bare
  <2>2. Bare(program(op))
    BY <1>6, <2>1 DEF program, SyncCurrent
  <2> QED BY <1>1, <2>2
<1>7. CASE op \in {"AlpacaAtPark", "AlpacaAtHome"}
  <2>1. Begins(program(op))
    BY <1>7, BeginsPark, BeginsHome DEF program, Users
  <2> QED BY <1>1, <2>1
<1>8. CASE op \in {"AlpacaPark", "AlpacaUnpark", "AlpacaFindHome"}
  <2>1. Begins(AlpacaPark) /\ Begins(AlpacaUnpark) /\ Begins(AlpacaFindHome)
    BY <1>2, <1>3 DEF AlpacaPark, AlpacaUnpark, AlpacaFindHome, Users
  <2>2. Begins(program(op))
    BY <1>8, <2>1 DEF program
  <2> QED BY <1>1, <2>2
<1> QED BY <1>0, <1>4, <1>5, <1>6, <1>7, <1>8 DEF Operation

(* An operation begins. *)
LEMMA CallAlp ==
  ASSUME TypeOK, NEW c \in Callers, Lone(c), NEW op \in Ops[c], call(c, op)
  PROVE  AlpacaInv(c)'
<1>1. todo'[c] = program(op)
  BY DEF call, TypeOK
<1>2. Story(todo'[c]) /\ ~Checked(todo'[c]) /\ (todo'[c] # <<>> => Head(todo'[c]).do \notin Chained)
  BY <1>1, ProgramStory
<1>3. Settled(c)' /\ Standing(c)' /\ Truly(c)'
  BY <1>2 DEF Settled, Standing, Truly, at, Chained
<1> QED BY <1>2, <1>3 DEF AlpacaInv

(* A motion ends: nobody takes the mount to be at rest. *)
LEMMA EndsAlp ==
  ASSUME NEW c \in Callers, AlpacaInv(c), arrive \/ seekEnd
  PROVE  AlpacaInv(c)'
<1>1. todo' = todo /\ val' = val /\ fw.motion # "idle"
  BY DEF arrive, seekEnd
<1>2. Story(todo[c])' /\ ~Checked(todo[c]) /\ Settled(c)' /\ Truly(c)'
  BY <1>1 DEF AlpacaInv, Standing, Settled, Truly, at
<1>3. Standing(c)'
  BY <1>1, <1>2 DEF Standing
<1> QED BY <1>2, <1>3 DEF AlpacaInv

(* A step that changes nothing the invariant speaks of keeps it. *)
LEMMA SameAlp ==
  ASSUME NEW c \in Callers, AlpacaInv(c), fw' = fw, inbox' = inbox, todo' = todo, val' = val
  PROVE  AlpacaInv(c)'
<1>1. ParkReads' <=> ParkReads
  BY DEF ParkReads, Unread
<1>2. Story(todo[c]) /\ Settled(c) /\ Standing(c) /\ Truly(c)
  BY DEF AlpacaInv
<1>3. Story(todo[c])' /\ Settled(c)' /\ Truly(c)'
  BY <1>2 DEF Settled, Truly, at
<1>4. Standing(c)'
  BY <1>1, <1>2 DEF Standing
<1> QED BY <1>3, <1>4 DEF AlpacaInv

(* Which step the head of the list is. *)
LEMMA WhichRun ==
  ASSUME NEW c \in Callers, run(c)
  PROVE  /\ Head(todo[c]).do = "write" => write(c)
         /\ Head(todo[c]).do = "match" => match(c)
         /\ Head(todo[c]).do \in {"stopped", "notUnparked", "axes"} => parkState(c)
<1> DEFINE d == Head(todo[c]).do
           Five == {"write", "match", "stopped", "notUnparked", "axes"}
<1>1. write(c) => d \in {"write", "rewrite", "Get", "Ack"}
  BY DEF write, at, reads
<1>2. match(c) => d \in {"match", "rematch"}
  BY DEF match, at
<1>3. parkState(c) => d \in {"stopped", "notUnparked", "axes"}
  BY DEF parkState, at
<1>4. drainToken(c) \/ Await(c) \/ apply(c) \/ drainStale(c) \/ echo(c) \/ readByte(c) \/ blind(c) => d \notin Five
  BY DEF drainToken, Await, apply, drainStale, echo, readByte, blind, at
<1>5. SlewNack(c) \/ window(c) \/ maybeCaptureHome(c) \/ maybeFinishPark(c) \/ captureHome(c) \/ setSlewing(c) => d \notin Five
  BY DEF SlewNack, window, maybeCaptureHome, maybeFinishPark, captureHome, setSlewing, at
<1>6. flags(c) \/ checks(c) => d \notin Five
  BY DEF flags, checks, at
<1>7. parkedAlready(c) \/ report(c) \/ polePosition(c) \/ reportPark(c) => d \notin Five
  BY DEF parkedAlready, report, polePosition, reportPark, at
<1>8. write(c) \/ match(c) \/ parkState(c) \/ d \notin Five
  BY <1>4, <1>5, <1>6, <1>7, Zenon DEF run
<1> HIDE DEF d
<1>9. (d = "write" => write(c)) /\ (d = "match" => match(c)) /\ (d \in {"stopped", "notUnparked", "axes"} => parkState(c))
  BY <1>1, <1>2, <1>3, <1>8
<1> QED BY <1>9 DEF d

(* A step of the caller keeps it. *)
LEMMA RunAlp ==
  ASSUME TypeOK, NEW c \in Callers, Lone(c), SessionInv(c), SessionInv(c)', AlpacaInv(c), run(c)
  PROVE  AlpacaInv(c)'
<1>1. todo[c] \in Seq(Step) /\ todo[c] # <<>> /\ Goes(todo[c], todo'[c])
  BY RunGoes
<1>2. /\ Head(todo[c]).do = "write" => write(c)
      /\ Head(todo[c]).do = "match" => match(c)
      /\ Head(todo[c]).do \in {"stopped", "notUnparked", "axes"} => parkState(c)
  BY WhichRun
<1>3. CASE Head(todo[c]).do = "write"
  BY <1>1, <1>2, <1>3, AlpWrite DEF at
<1>4. CASE Head(todo[c]).do = "match"
  BY <1>1, <1>2, <1>4, AlpMatch DEF at
<1>5. CASE Head(todo[c]).do \in {"stopped", "notUnparked", "axes"}
  BY <1>1, <1>2, <1>5, AlpState
<1>6. CASE Head(todo[c]).do \notin {"stopped", "notUnparked", "axes", "write", "match"}
  BY <1>1, <1>6, AlpQuiet
<1> QED BY <1>3, <1>4, <1>5, <1>6

(* The invariant holds at the start. *)
LEMMA InitAlp ==
  ASSUME NEW c \in Callers, Init
  PROVE  AlpacaInv(c)
<1>1. todo[c] = <<>>
  BY DEF Init
<1>2. Story(<<>>)
  <2>1. Len(<<>>) = 0
    OBVIOUS
  <2> QED BY <2>1 DEF Story
<1> QED BY <1>1, <1>2, Zenon DEF AlpacaInv, Settled, Standing, Truly, Checked, at

(* Every step keeps the invariant. *)
LEMMA NextAlp ==
  ASSUME NEW c \in Callers, Lone(c), TypeOK, SessionInv(c), AlpacaInv(c), [Next]_vars
  PROVE  AlpacaInv(c)'
<1>0. SessionInv(c)'
  BY NextSession
<1>1. CASE run(c)
  BY <1>0, <1>1, RunAlp
<1>2. ASSUME NEW op \in Ops[c], call(c, op) PROVE AlpacaInv(c)'
  BY <1>2, CallAlp
<1>3. CASE arrive \/ seekEnd
  BY <1>3, EndsAlp
<1>4. CASE ttl \/ UNCHANGED vars
  <2>1. fw' = fw /\ inbox' = inbox /\ todo' = todo /\ val' = val
    BY <1>4 DEF ttl, vars
  <2> QED BY <2>1, SameAlp
<1>5. (\A d \in Callers : d = c) /\ ~pulseEnd /\ ~verdict
  BY NeverSession DEF Lone
<1> QED BY <1>1, <1>2, <1>3, <1>4, <1>5, Zenon DEF Next

(* What a caller is told of the parked state is so. *)
LEMMA TellingAlp ==
  ASSUME NEW c \in Callers, Lone(c), TypeOK, AlpacaInv(c), Next
  PROVE  /\ told'[c] = "parked" /\ told[c] # "parked" => fw.pos = "park" /\ fw.motion = "idle"
         /\ told'[c] = "home" /\ told[c] # "home" => fw.pos = "home" /\ fw.motion = "idle"
<1>1. told \in [Callers -> {"", "idle", "busy", "parked", "home"}] /\ \A d \in Callers : d = c
  BY DEF TypeOK, Lone
<1>2. CASE reportPark(c)
  <2>1. /\ todo[c] # <<>> /\ Head(todo[c]).do \in Users
        /\ told'[c] \in {"", IF val[c] = "park" THEN "parked" ELSE "", IF val[c] = "home" THEN "home" ELSE ""}
    BY <1>1, <1>2 DEF reportPark, at, Users
  <2>2. val[c] \in {"0", "err"} \/ (fw.motion = "idle" /\ val[c] = fw.pos)
    BY <2>1 DEF AlpacaInv, Truly
  <2> QED BY <2>1, <2>2
<1>3. CASE report(c)
  BY <1>1, <1>3 DEF report
<1>4. ASSUME NEW op \in Ops[c], call(c, op) PROVE told'[c] = ""
  BY <1>1, <1>4 DEF call
<1>5. CASE told' = told
  BY <1>5
<1>6. run(c) => reportPark(c) \/ report(c) \/ told' = told
  BY DEF run, drainToken, Await, apply, drainStale, write, match, echo, readByte, blind, SlewNack, window, maybeCaptureHome,
         maybeFinishPark, captureHome, setSlewing, flags, checks, parkedAlready, polePosition, parkState
<1>7. pulseEnd \/ ttl \/ arrive \/ seekEnd \/ verdict => told' = told
  BY DEF pulseEnd, ttl, arrive, seekEnd, verdict
<1>8. run(c) \/ (\E op \in Ops[c] : call(c, op)) \/ told' = told
  BY <1>1, <1>7, Zenon DEF Next
<1> QED BY <1>2, <1>3, <1>4, <1>5, <1>6, <1>8

(* What AlpacaInv says holds throughout. *)
LEMMA AlpacaAlways ==
  ASSUME NEW u \in Callers, Lone(u)
  PROVE  Spec => [](TypeOK /\ AlpacaInv(u))
<1>1. Init => AlpacaInv(u)
  BY InitAlp
<1>2. TypeOK /\ SessionInv(u) /\ AlpacaInv(u) /\ [Next]_vars => AlpacaInv(u)'
  BY NextAlp
<1> QED BY <1>1, <1>2, TypeTheorem, SessionInvariant, PTL DEF Spec

(* AlpacaAtPark says yes to a lone caller only of a mount that stands at its park     *)
(* position at rest. It looks at the driver's own state and then asks the mount for   *)
(* its axes, a token and a park stop handled in between, and the answer is used some  *)
(* reads later.                                                                       *)
THEOREM AlpacaTheorem ==
  ASSUME NEW u \in Callers, Lone(u)
  PROVE  Spec => AlpacaTruth
<1>1. \A c \in Callers : c = u
  BY DEF Lone
<1>2. TypeOK /\ AlpacaInv(u) /\ [Next]_vars =>
        [\A c \in Callers :
           told'[c] = "parked" /\ told[c] # "parked" => fw.pos = "park" /\ fw.motion = "idle"]_vars
  BY <1>1, TellingAlp
<1> QED BY <1>2, AlpacaAlways, PTL DEF Spec, AlpacaTruth

(* AlpacaAtHome, which asks the same questions but for Unpark, says yes to a lone     *)
(* caller only of a mount that stands at home at rest.                                *)
THEOREM AlpacaHomeTheorem ==
  ASSUME NEW u \in Callers, Lone(u)
  PROVE  Spec => AlpacaHomeTruth
<1>1. \A c \in Callers : c = u
  BY DEF Lone
<1>2. TypeOK /\ AlpacaInv(u) /\ [Next]_vars =>
        [\A c \in Callers :
           told'[c] = "home" /\ told[c] # "home" => fw.pos = "home" /\ fw.motion = "idle"]_vars
  BY <1>1, TellingAlp
<1> QED BY <1>2, AlpacaAlways, PTL DEF Spec, AlpacaHomeTruth
-----------------------------------------------------------------------------
(* What holds a parked mount. A Park that succeeds has passed requireHome and  *)
(* has ended an earlier Unpark, so that the driver's own state lets it ask for *)
(* the axes; and a seek that is planned with the mount on the park position    *)
(* waits for the answer.                                                       *)
Held == stowed = "parked" /\ fw.pos = "park"
Early(q) == \E i \in 1 .. Len(q) : q[i] \in Parks /\ \A j \in 1 .. Len(q) : j < i => q[j].do # "requireHome"
Homed(c) == (stowed = "parked" => ~m.unparked /\ m.homeFound) /\ (Early(todo[c]) => m.homeFound)
Stowing(c) ==
  Has(todo[c], By({"parking"})) =>
    ~Has(todo[c], By({"Unpark"})) /\ (Has(todo[c], By({"slewing"})) \/ ~m.unparked)
Seeking(c) ==
  Has(todo[c], Seeks) =>
    /\ ~Has(todo[c], Parks)
    /\ Held => /\ Has(todo[c], By({"unlessParked"}))
               /\ todo[c] # <<>> /\ Head(todo[c]).do \in {"notUnparked", "axes", "unlessParked"} => val[c] # "0"
HeldInv(c) == ~m.moving /\ Homed(c) /\ Stowing(c) /\ Seeking(c)


(* Steps before the first that parks. *)
LEMMA EarlyHead ==
  ASSUME NEW q \in Seq(Step), q # <<>>
  PROVE  /\ Head(q) \in Parks => Early(q)
         /\ Head(q).do = "requireHome" => ~Early(q)
         /\ Early(Tail(q)) => Early(q) \/ Head(q).do = "requireHome"
<1> DEFINE t == Tail(q)
           n == Len(t)
<1>1. /\ Len(q) = n + 1 /\ n \in Nat /\ q[1] = Head(q)
      /\ \A i \in 1 .. n : t[i] = q[i + 1]
  <2>1. /\ Len(q) \in Nat /\ Len(q) >= 1 /\ n = Len(q) - 1 /\ q[1] = Head(q)
        /\ \A i \in 1 .. n : t[i] = q[i + 1]
    BY TailParts, Zenon
  <2> HIDE DEF t, n
  <2> QED BY <2>1
<1> HIDE DEF t
<1>2. ASSUME Head(q) \in Parks PROVE Early(q)
  <2>1. 1 \in 1 .. Len(q) /\ \A j \in 1 .. Len(q) : ~(j < 1)
    <3> HIDE DEF n
    <3> QED BY <1>1
  <2> QED BY <1>1, <1>2, <2>1 DEF Early
<1>3. ASSUME Head(q).do = "requireHome" PROVE ~Early(q)
  <2>1. q[1] \notin Parks
    BY <1>1, <1>3 DEF Parks, By
  <2>2. 1 \in 1 .. Len(q) /\ \A i \in 1 .. Len(q) : i # 1 => 1 < i
    <3> HIDE DEF n
    <3> QED BY <1>1
  <2> QED BY <1>1, <1>3, <2>1, <2>2 DEF Early
<1>4. ASSUME Early(t), Head(q).do # "requireHome" PROVE Early(q)
  <2>1. PICK i \in 1 .. n : t[i] \in Parks /\ \A j \in 1 .. n : j < i => t[j].do # "requireHome"
    BY <1>4 DEF Early
  <2>2. i + 1 \in 1 .. Len(q) /\ \A j \in 1 .. Len(q) : j = 1 \/ (j - 1 \in 1 .. n /\ (j - 1) + 1 = j /\ (j < i + 1 => j - 1 < i))
    <3> HIDE DEF n
    <3> QED BY <1>1, <2>1
  <2>3. q[i + 1] \in Parks
    BY <1>1, <2>1
  <2>4. ASSUME NEW j \in 1 .. Len(q), j < i + 1 PROVE q[j].do # "requireHome"
    <3>1. CASE j = 1
      BY <1>1, <1>4, <3>1
    <3>2. CASE j # 1
      <4>1. j - 1 \in 1 .. n /\ (j - 1) + 1 = j /\ j - 1 < i
        BY <2>2, <2>4, <3>2
      <4>2. t[j - 1] = q[(j - 1) + 1]
        BY <1>1, <4>1
      <4> QED BY <2>1, <4>1, <4>2
    <3> QED BY <3>1, <3>2
  <2> QED BY <2>2, <2>3, <2>4 DEF Early
<1> QED BY <1>2, <1>3, <1>4 DEF t

(* Steps put in front that do not park. *)
LEMMA EarlyJoin ==
  ASSUME NEW p \in Seq(Step), NEW q \in Seq(Step), ~Has(p, Parks), Early(p \o q)
  PROVE  Early(q)
<1> DEFINE t == p \o q
           a == Len(p)
           b == Len(q)
<1>1. /\ a \in Nat /\ b \in Nat /\ Len(t) = a + b
      /\ \A i \in 1 .. a : t[i] = p[i]
      /\ \A i \in 1 .. b : t[a + i] = q[i]
  BY JoinParts
<1> HIDE DEF t, a, b
<1>2. PICK i \in 1 .. a + b : t[i] \in Parks /\ \A j \in 1 .. a + b : j < i => t[j].do # "requireHome"
  BY <1>1 DEF Early, t
<1>3. i \notin 1 .. a
  BY <1>1, <1>2 DEF Has, a
<1>4. i - a \in 1 .. b /\ a + (i - a) = i /\ \A j \in 1 .. b : j < i - a => a + j \in 1 .. a + b /\ a + j < i
  BY <1>1, <1>2, <1>3
<1>5. q[i - a] \in Parks
  BY <1>1, <1>2, <1>4
<1>6. \A j \in 1 .. b : j < i - a => q[j].do # "requireHome"
  BY <1>1, <1>2, <1>4
<1> QED BY <1>4, <1>5, <1>6 DEF Early, b

(* What is left of a list as it goes on. *)
LEMMA GoesHas ==
  ASSUME NEW q \in Seq(Step), q # <<>>, NEW r, Goes(q, r), NEW R
  PROVE  /\ R \subseteq Heavy /\ Has(r, R) => Has(q, R)
         /\ r # <<>> /\ Has(q, R) /\ Head(q) \notin R => Has(r, R)
         /\ Early(r) => Early(q) \/ Head(q).do = "requireHome"
<1> DEFINE t == Tail(q)
<1>1. t \in Seq(Step) /\ (Has(q, R) <=> Head(q) \in R \/ Has(t, R))
  BY TailParts, HasParts, Zenon
<1>2. Early(t) => Early(q) \/ Head(q).do = "requireHome"
  BY EarlyHead
<1>3. Parks \subseteq Heavy
  BY DEF Parks, Heavy, By, Does, Light
<1> HIDE DEF t
<1>4. CASE r = <<>>
  <2>1. ~Has(r, R) /\ ~Early(r)
    <3>1. Len(<<>>) = 0
      OBVIOUS
    <3> QED BY <1>4, <3>1 DEF Has, Early
  <2> QED BY <1>4, <2>1
<1>5. CASE r = t
  BY <1>1, <1>2, <1>5
<1>6. CASE \E p : Fits(Head(q), p) /\ r = p \o t
  <2>1. PICK p : p \in Seq(Step) /\ ~Has(p, Heavy) /\ r = p \o t
    BY <1>6 DEF Fits
  <2>2. Has(r, R) <=> Has(p, R) \/ Has(t, R)
    BY <1>1, <2>1, HasJoin, Zenon
  <2>3. R \subseteq Heavy => ~Has(p, R)
    BY <2>1 DEF Has
  <2>4. ~Has(p, Parks)
    BY <1>3, <2>1 DEF Has
  <2>5. Early(r) => Early(t)
    BY <1>1, <2>1, <2>4, EarlyJoin, Zenon
  <2> QED BY <1>1, <1>2, <2>2, <2>3, <2>5
<1> QED BY <1>4, <1>5, <1>6 DEF Goes, t


(* What a step does to the driver's flags and to the mount. *)
LEMMA RunFlags ==
  ASSUME TypeOK, NEW c \in Callers, Lone(c), SessionInv(c), run(c), todo[c] \in Seq(Step), todo[c] # <<>>
  PROVE  LET d == Head(todo[c]).do IN
         /\ m'.moving => m.moving
         /\ m.homeFound => m'.homeFound
         /\ m'.unparked => m.unparked \/ d = "Unpark"
         /\ d = "slewing" => ~m'.unparked
         /\ stowed' = "parked" =>
              (stowed = "parked" /\ d # "Unpark") \/ d = "parking" \/ (d = "parked" /\ ~m'.unparked)
         /\ fw'.pos \in {fw.pos, "sky"}
         /\ d = "requireHome" /\ todo'[c] # <<>> => m.homeFound
         /\ d = "unlessParked" /\ todo'[c] # <<>> => val[c] \notin {"err", "park"}
<1> DEFINE d == Head(todo[c]).do
           Flags == m'.moving = m.moving /\ (m.homeFound => m'.homeFound) /\ m'.unparked = m.unparked
           Some == {"Unpark", "slewing", "parking", "parked", "requireHome", "unlessParked"}
<1> SUFFICES /\ m'.moving => m.moving
             /\ m.homeFound => m'.homeFound
             /\ m'.unparked => m.unparked \/ d = "Unpark"
             /\ d = "slewing" => ~m'.unparked
             /\ stowed' = "parked" =>
                  (stowed = "parked" /\ d # "Unpark") \/ d = "parking" \/ (d = "parked" /\ ~m'.unparked)
             /\ fw'.pos \in {fw.pos, "sky"}
             /\ d = "requireHome" /\ todo'[c] # <<>> => m.homeFound
             /\ d = "unlessParked" /\ todo'[c] # <<>> => val[c] \notin {"err", "park"}
  OBVIOUS
<1>0. m \in MountType /\ fw \in FirmwareType /\ todo \in [Callers -> Seq(Step)] /\ Proper(Head(todo[c]))
  BY Later DEF TypeOK, SessionInv
<1>1. \A mm \in MountType : \A k : LET n == applyToken(mm, k) IN n.moving = mm.moving /\ (mm.homeFound => n.homeFound) /\ n.unparked = mm.unparked
  <2> SUFFICES ASSUME NEW mm \in MountType, NEW k
               PROVE  LET n == applyToken(mm, k)
                      IN  n.moving = mm.moving /\ (mm.homeFound => n.homeFound) /\ n.unparked = mm.unparked
    OBVIOUS
  <2>1. CASE k = "MM0"
    BY <2>1 DEF applyToken, MountType
  <2>2. CASE k = "CHO"
    BY <2>2 DEF applyToken, MountType
  <2>3. CASE k \in {"MMU", "CH<"}
    BY <2>3 DEF applyToken, MountType
  <2>4. CASE k \notin {"MM0", "CHO", "MMU", "CH<"}
    BY <2>4 DEF applyToken
  <2> QED BY <2>1, <2>2, <2>3, <2>4
<1>2. CASE apply(c) \/ match(c)
  <2>1. Flags
    BY <1>0, <1>1, <1>2 DEF apply, match
  <2>2. d \notin Some /\ fw' = fw /\ stowed' = stowed
    BY <1>2 DEF apply, match, at
  <2> QED BY <2>1, <2>2
<1>3. CASE write(c) \/ blind(c) \/ SlewNack(c)
  <2>1. d \notin Some /\ m' = m /\ stowed' = stowed
    BY <1>3 DEF write, reads, blind, SlewNack, at
  <2>2. fw' = fw \/ \E x : obey(x)
    BY <1>3 DEF write, blind, SlewNack
  <2>3. ASSUME NEW x, obey(x) PROVE fw'.pos \in {fw.pos, "sky"}
    BY <1>0, <2>3 DEF obey, FirmwareType
  <2> QED BY <2>1, <2>2, <2>3
<1>4. CASE drainToken(c) \/ maybeCaptureHome(c) \/ maybeFinishPark(c) \/ captureHome(c)
  <2>1. Flags
    BY <1>0, <1>4 DEF drainToken, maybeCaptureHome, maybeFinishPark, captureHome, MountType
  <2>2. d \notin Some /\ fw' = fw /\ stowed' = stowed
    BY <1>4 DEF drainToken, maybeCaptureHome, maybeFinishPark, captureHome, at
  <2> QED BY <2>1, <2>2
<1>5. CASE Await(c) \/ drainStale(c) \/ echo(c) \/ readByte(c) \/ window(c) \/ report(c) \/ polePosition(c) \/ parkState(c) \/ reportPark(c)
  <2>1. m' = m /\ fw' = fw /\ stowed' = stowed
    BY <1>5 DEF Await, drainStale, echo, readByte, window, report, polePosition, parkState, reportPark
  <2>2. d \notin Some
    BY <1>5 DEF Await, drainStale, echo, readByte, window, report, polePosition, parkState, reportPark, at
  <2> QED BY <2>1, <2>2
<1>6. CASE setSlewing(c)
  <2>1. /\ d = "slewing" /\ fw' = fw /\ stowed' = stowed
        /\ m'.moving = m.moving /\ m'.homeFound = m.homeFound /\ m'.unparked = FALSE
    BY <1>0, <1>6 DEF setSlewing, at, MountType
  <2> QED BY <2>1
<1>7. CASE flags(c)
  <2>1. fw' = fw /\ d \in {"still", "moved", "unmoved", "Unpark", "parking", "pulsing"} /\ d # "moved"
    BY <1>0, <1>7 DEF flags, at, Proper
  <2>2. /\ m'.homeFound = m.homeFound /\ (m'.moving => m.moving \/ d = "moved") /\ (m'.unparked => m.unparked \/ d = "Unpark")
    BY <1>0, <1>7 DEF flags, at, MountType
  <2>3. stowed' = "parked" => (stowed = "parked" /\ d # "Unpark") \/ d = "parking"
    BY <1>7 DEF flags, at
  <2> QED BY <2>1, <2>2, <2>3
<1>8. CASE checks(c)
  <2>1. m' = m /\ fw' = fw /\ stowed' = stowed /\ d \notin {"Unpark", "slewing", "parking", "parked"}
    BY <1>8 DEF checks, at
  <2>2. /\ d = "requireHome" => proceedIf(c, m.homeFound)
        /\ d = "unlessParked" => proceedIf(c, val[c] \notin {"err", "park"})
    BY <1>8 DEF checks, at
  <2>3. giveUp(c) => todo'[c] = <<>>
    BY <1>0 DEF giveUp
  <2> QED BY <2>1, <2>2, <2>3 DEF proceedIf
<1>9. CASE parkedAlready(c)
  <2>1. d = "parked" /\ fw' = fw
    BY <1>9 DEF parkedAlready, at
  <2>2. /\ m'.homeFound = m.homeFound /\ m'.moving = m.moving /\ (m'.unparked => m.unparked)
        /\ (stowed' = stowed \/ ~m'.unparked)
    BY <1>0, <1>9 DEF parkedAlready, MountType
  <2> QED BY <2>1, <2>2
<1> QED BY <1>2, <1>3, <1>4, <1>5, <1>6, <1>7, <1>8, <1>9, Zenon DEF run


(* The steps this is about are none that a step puts in its place. *)
LEMMA HeavyOnes ==
  /\ Seeks \subseteq Heavy /\ Parks \subseteq Heavy
  /\ \A s \in {"Unpark", "slewing", "unlessParked", "parking"} : By({s}) \subseteq Heavy
<1>1. Seeks \subseteq Heavy
  BY DEF Seeks, Is, Heavy, By, Does, Light
<1>2. Parks \subseteq Heavy
  BY DEF Parks, Heavy, By, Does, Light
<1>3. \A s \in {"Unpark", "slewing", "unlessParked", "parking"} : s \in Does \ Light
  BY DEF Does, Light
<1> QED BY <1>1, <1>2, <1>3 DEF Heavy, By

(* A home seek that is planned finds the mount at rest. *)
LEMMA SeekAtRest ==
  ASSUME NEW c \in Callers, SessionInv(c), Has(todo[c], Seeks)
  PROVE  fw.motion = "idle" /\ ~m.slewing
<1>1. ~Asking(todo[c])
  BY DEF Has, Seeks, Is, Asking, Commanding
<1> QED BY <1>1 DEF SessionInv, Calm

(* AlpacaAtPark of a mount that is held gets as far as asking for the axes. *)
LEMMA HeldAnswer ==
  ASSUME TypeOK, NEW c \in Callers, Lone(c), SessionInv(c), SessionInv(c)', AlpacaInv(c), run(c),
         todo[c] \in Seq(Step), todo[c] # <<>>, Goes(todo[c], todo'[c]),
         ~m.moving, ~m.slewing, ~m.unparked, m.homeFound,
         Head(todo[c]).do \in {"notUnparked", "axes", "unlessParked"} => val[c] # "0",
         todo'[c] # <<>>, Head(todo'[c]).do \in {"notUnparked", "axes", "unlessParked"}
  PROVE  val'[c] # "0"
<1> DEFINE q == todo[c]
           r == todo'[c]
           h == Head(q)
           n == Head(r).do
<1>1. /\ n = "unlessParked" => r = Tail(q) /\ (h.do = "axes" \/ Asks(h, "CY"))
      /\ n = "axes" => h.do \in {"stopped", "notUnparked"}
      /\ n = "notUnparked" => h.do = "stopped"
  <2>1. Story(q) /\ Shape(q)
    BY DEF AlpacaInv, SessionInv
  <2>2. n = "unlessParked" => n \in Users
    BY DEF Users
  <2> QED BY <2>1, <2>2, Onwards, Zenon
<1>2. h.do \in {"stopped", "notUnparked", "axes", "write", "match"}
  BY <1>1 DEF Asks
<1>3. val \in [Callers -> Value] /\ todo \in [Callers -> Seq(Step)]
  BY DEF TypeOK
<1>4. /\ h.do = "write" => write(c)
      /\ h.do = "match" => match(c)
      /\ h.do \in {"stopped", "notUnparked", "axes"} => parkState(c)
  BY WhichRun
<1>5. CASE h.do \in {"stopped", "notUnparked"}
  BY <1>3, <1>4, <1>5 DEF parkState, at
<1>6. CASE h.do = "axes"
  <2>1. insert(c, AtPark)
    BY <1>4, <1>6 DEF parkState, at
  <2> DEFINE p == AtPark
             t == Tail(q)
  <2>2. p \in Seq(Step) /\ p # <<>> /\ t \in Seq(Step)
    BY QueryList, TailParts, Zenon DEF AtPark
  <2>3. r = p \o t /\ r = t
    BY <1>1, <1>3, <1>6, <2>1 DEF insert
  <2> HIDE DEF p, t, r
  <2>4. Len(p \o t) = Len(p) + Len(t) /\ Len(p) > 0 /\ Len(p) \in Nat /\ Len(t) \in Nat
    BY <2>2
  <2>5. Len(p \o t) # Len(t)
    BY <2>4
  <2> QED BY <2>3, <2>5
<1>7. CASE h.do = "match"
  <2>1. n \in Users
    BY <1>1, <1>7 DEF Users
  <2> QED BY <1>4, <1>7, <2>1, AlpMatch DEF at
<1>8. CASE h.do = "write"
  <2>1. insert(c, on("match", cmd(c)))
    BY <1>4, <1>8 DEF write, at, reads
  <2>2. Head(r).do = "match"
    BY <1>3, <2>1 DEF insert, on
  <2> QED BY <2>2
<1> QED BY <1>2, <1>5, <1>6, <1>7, <1>8


(* Every step of the caller keeps the invariant. *)
LEMMA RunHeld ==
  ASSUME TypeOK, NEW c \in Callers, Lone(c), SessionInv(c), SessionInv(c)', AlpacaInv(c), HeldInv(c), run(c)
  PROVE  HeldInv(c)'
<1> DEFINE q == todo[c]
           r == todo'[c]
           d == Head(q).do
<1>1. q \in Seq(Step) /\ q # <<>> /\ Goes(q, r)
  BY RunGoes
<1>2. Head(q) \in Step /\ (d = "parking" => Tail(q) = <<>>)
  BY <1>1, Later DEF SessionInv
<1>3. /\ m'.moving => m.moving
      /\ m.homeFound => m'.homeFound
      /\ m'.unparked => m.unparked \/ d = "Unpark"
      /\ d = "slewing" => ~m'.unparked
      /\ stowed' = "parked" =>
           (stowed = "parked" /\ d # "Unpark") \/ d = "parking" \/ (d = "parked" /\ ~m'.unparked)
      /\ fw'.pos \in {fw.pos, "sky"}
      /\ d = "requireHome" /\ r # <<>> => m.homeFound
      /\ d = "unlessParked" /\ r # <<>> => val[c] \notin {"err", "park"}
  BY <1>1, RunFlags
<1>4. ~m.moving /\ Homed(c) /\ Stowing(c) /\ Seeking(c)
  BY DEF HeldInv
<1>5. \A R : R \subseteq Heavy /\ Has(r, R) => Has(q, R)
  BY <1>1, GoesHas, Zenon
<1>6. \A R : r # <<>> /\ Has(q, R) /\ Head(q) \notin R => Has(r, R)
  BY <1>1, GoesHas, Zenon
<1>7. Early(r) => Early(q) \/ d = "requireHome"
  BY <1>1, GoesHas, Zenon
<1>8. \A R : Head(q) \in R => Has(q, R)
  BY <1>1, HasParts, Zenon
<1>9. \A R : ~Has(<<>>, R)
  BY <1>2, HasOne, Zenon
<1>10. /\ Head(q) \in By({"parking"}) <=> d = "parking"
       /\ Head(q) \in By({"slewing"}) <=> d = "slewing"
       /\ Head(q) \in By({"Unpark"}) <=> d = "Unpark"
       /\ Head(q) \in By({"unlessParked"}) <=> d = "unlessParked"
  BY <1>2 DEF By
<1>11. Head(q) \in Parks <=> d \in {"parked", "parking"}
  BY <1>2 DEF Parks, By
<1>12. Early(r) => r # <<>>
  BY DEF Early
<1>13. \A R : Has(r, R) => r # <<>>
  BY <1>9, Zenon
<1>14. Head(q) \in Parks => Early(q)
  BY <1>1, EarlyHead
<1>18. By({"parking"}) \subseteq Heavy /\ By({"Unpark"}) \subseteq Heavy
  BY HeavyOnes
<1> HIDE DEF q, r, d
<1>15. Homed(c)'
  <2>1. Early(r) => m'.homeFound
    BY <1>3, <1>4, <1>7, <1>12 DEF Homed, q
  <2>2. ASSUME stowed' = "parked" PROVE ~m'.unparked /\ m'.homeFound
    <3>1. CASE stowed = "parked" /\ d # "Unpark"
      BY <1>3, <1>4, <3>1 DEF Homed
    <3>2. CASE d = "parking"
      <4>1. Has(q, By({"parking"})) /\ Early(q)
        BY <1>8, <1>10, <1>11, <1>14, <3>2, Zenon
      <4>2. Has(q, By({"slewing"})) <=> Head(q) \in By({"slewing"}) \/ Has(Tail(q), By({"slewing"}))
        BY <1>1, HasParts, Zenon
      <4>3. ~Has(q, By({"slewing"}))
        <5>1. d # "slewing" /\ Tail(q) = <<>>
          BY <1>2, <3>2
        <5> QED BY <1>9, <1>10, <4>2, <5>1, Zenon
      <4> QED BY <1>3, <1>4, <3>2, <4>1, <4>3 DEF Homed, Stowing, q
    <3>3. CASE d = "parked" /\ ~m'.unparked
      BY <1>3, <1>4, <1>11, <1>14, <3>3 DEF Homed, q
    <3> QED BY <1>3, <2>2, <3>1, <3>2, <3>3
  <2> QED BY <2>1, <2>2 DEF Homed, r
<1>16. Stowing(c)'
  <2> SUFFICES ASSUME Has(r, By({"parking"}))
               PROVE  ~Has(r, By({"Unpark"})) /\ (Has(r, By({"slewing"})) \/ ~m'.unparked)
    BY DEF Stowing, r
  <2>1. Has(q, By({"parking"})) /\ r # <<>>
    BY <1>5, <1>13, <1>18, Zenon
  <2>2. ~Has(q, By({"Unpark"})) /\ (Has(q, By({"slewing"})) \/ ~m.unparked)
    BY <1>4, <2>1 DEF Stowing, q
  <2>3. ~Has(r, By({"Unpark"})) /\ d # "Unpark"
    BY <1>5, <1>8, <1>10, <1>18, <2>2, Zenon
  <2>4. Has(q, By({"slewing"})) => Has(r, By({"slewing"})) \/ d = "slewing"
    BY <1>6, <1>10, <2>1, Zenon
  <2> QED BY <1>3, <2>2, <2>3, <2>4
<1>17. Seeking(c)'
  <2> SUFFICES ASSUME Has(r, Seeks)
               PROVE  /\ ~Has(r, Parks)
                      /\ Held' => /\ Has(r, By({"unlessParked"}))
                                  /\ r # <<>> /\ Head(r).do \in {"notUnparked", "axes", "unlessParked"} => val'[c] # "0"
    BY DEF Seeking, r
  <2>1. Has(q, Seeks) /\ r # <<>>
    BY <1>5, <1>13, HeavyOnes
  <2>2. ~Has(q, Parks) /\ ~Has(r, Parks) /\ d \notin {"parked", "parking"}
    BY <1>4, <1>5, <1>8, <1>11, <2>1, HeavyOnes DEF Seeking, q
  <2>3. ~m.slewing
    BY <2>1, SeekAtRest DEF q
  <2> SUFFICES ASSUME Held'
               PROVE  /\ Has(r, By({"unlessParked"}))
                      /\ Head(r).do \in {"notUnparked", "axes", "unlessParked"} => val'[c] # "0"
    BY <2>2
  <2>4. Held
    BY <1>3, <2>2 DEF Held
  <2>5. /\ Has(q, By({"unlessParked"}))
        /\ d \in {"notUnparked", "axes", "unlessParked"} => val[c] # "0"
    BY <1>1, <1>4, <2>1, <2>4 DEF Seeking, q, d
  <2>6. d # "unlessParked"
    <3> SUFFICES ASSUME d = "unlessParked" PROVE FALSE
      OBVIOUS
    <3>1. d \in Users /\ Truly(c)
      BY DEF Users, AlpacaInv
    <3>2. val[c] \in {"0", "err"} \/ val[c] = fw.pos
      BY <1>1, <3>1 DEF Truly, q, d
    <3> QED BY <1>3, <2>1, <2>4, <2>5, <3>2 DEF Held
  <2>7. Has(r, By({"unlessParked"}))
    BY <1>6, <1>10, <2>1, <2>5, <2>6, Zenon
  <2>8. ~m.unparked /\ m.homeFound
    BY <1>4, <2>4 DEF Held, Homed
  <2>9. ASSUME Head(r).do \in {"notUnparked", "axes", "unlessParked"} PROVE val'[c] # "0"
    BY <1>1, <1>4, <2>1, <2>3, <2>5, <2>8, <2>9, HeldAnswer DEF q, r, d
  <2> QED BY <2>7, <2>9
<1> QED BY <1>3, <1>4, <1>15, <1>16, <1>17 DEF HeldInv


(* Which operations have a step that seeks home, parks or unparks. *)
LEMMA OpLacks ==
  ASSUME NEW c \in Callers, Lone(c), NEW op \in Ops[c], NEW R, R \subseteq Marked, R \cap By(Chained) = {},
         op \in {"FindHome", "AlpacaFindHome"} => Lacks(Blind("Ch"), R),
         op \in {"Park", "AlpacaPark"} => Lacks(step("parked"), R) /\ Lacks(step("parking"), R),
         op \in {"Unpark", "AlpacaUnpark"} => Lacks(step("Unpark"), R)
  PROVE  Lacks(program(op), R)
<1>0. op \in Operation \ {"MoveAxisRate", "Move", "StopAxis", "PulseGuide", "SlewToTargetAlt"}
  BY RstAssumption DEF Lone
<1>1. ASSUME NEW s \in Chained PROVE Lacks(step(s), R)
  <2>1. s \in Does
    BY DEF Chained, Users, Does
  <2>2. rec(s, "").do = s
    BY DEF rec
  <2>3. rec(s, "") \in By(Chained)
    BY <2>1, <2>2 DEF By, rec, Step, Command, Gated, Ungated
  <2> QED BY <2>1, <2>3, LacksStep
<1>2. /\ Lacks(step("known"), R) /\ Lacks(step("drainToken"), R) /\ Lacks(step("maybeFinishPark"), R) /\ Lacks(step("stopped"), R)
  BY Unmarked DEF Does, Chained, Users
<1>3. /\ Lacks(step("notUnparked"), R) /\ Lacks(step("axes"), R) /\ Lacks(step("unlessParked"), R)
      /\ Lacks(step("ifParked"), R) /\ Lacks(step("atPark"), R) /\ Lacks(step("atHome"), R)
  BY <1>1 DEF Chained, Users
<1>4. Lacks(AlpacaAtPark, R) /\ Lacks(AlpacaAtHome, R)
  BY <1>2, <1>3, LacksJoin, Zenon DEF AlpacaAtPark, AlpacaAtHome
<1>5. CASE op \in {"RA", "SiteLatitude", "SetTarget", "SlewToTarget", "SetTracking", "StopTracking", "TrackRate"}
  <2>1. /\ Lacks(coord("G"), R) /\ Lacks(get("G"), R) /\ Lacks(Ack("Sr"), R) /\ Lacks(Ack("Sd"), R) /\ Lacks(slewCmd("MS"), R)
        /\ Lacks(track("CtA"), R) /\ Lacks(track("CtL"), R) /\ Lacks(track("CtU"), R)
    BY LacksLists, Zenon DEF Query
  <2>2. /\ Lacks(coord("G") \o step("known"), R) /\ Lacks(get("G") \o step("known"), R) /\ Lacks(Ack("Sr") \o Ack("Sd"), R)
        /\ Lacks(slewCmd("MS"), R)
        /\ Lacks(track("CtA") \o step("known"), R) /\ Lacks(track("CtL") \o step("known"), R)
        /\ Lacks(track("CtU") \o step("known"), R)
    BY <1>2, <2>1, LacksJoin, Zenon
  <2> QED BY <1>5, <2>2 DEF program, SlewToTarget
<1>6. CASE op \in {"Slewing", "SlewToAltAz", "SlewToPole", "Halt", "FindHome", "Park", "Unpark"}
  <2>1. /\ Lacks(SlewToAltAz, R) /\ Lacks(SlewToPole, R) /\ Lacks(Halt, R) /\ Lacks(Slewing, R)
        /\ op = "FindHome" => Lacks(FindHome, R)
        /\ op = "Park" => Lacks(Park, R)
    BY LacksOps
  <2> QED BY <1>6, <2>1 DEF program
<1>7. CASE op \in {"SyncToTarget", "SyncCurrent"}
  <2>1. op = "SyncCurrent" => ~Careful
    BY DEF Careful, Careless
  <2>2. Lacks(on("slewCmd", "Ck"), R) /\ (op = "SyncCurrent" => Lacks(on("slewCmd", "CM"), R))
    BY <2>1, Unmarked, Zenon
  <2> QED BY <1>7, <2>2 DEF program, SyncCurrent
<1>8. CASE op \in {"AlpacaAtPark", "AlpacaAtHome"}
  <2>1. Lacks(AlpacaAtPark \o step("atPark"), R) /\ Lacks(AlpacaAtHome \o step("atHome"), R)
    BY <1>3, <1>4, LacksJoin, Zenon
  <2> QED BY <1>8, <2>1 DEF program
<1>9. CASE op \in {"AlpacaPark", "AlpacaUnpark", "AlpacaFindHome"}
  <2>1. /\ op = "AlpacaPark" => Lacks(Park, R)
        /\ op = "AlpacaUnpark" => Lacks(step("Unpark"), R)
        /\ op = "AlpacaFindHome" => Lacks(FindHome, R)
    BY LacksOps
  <2>2. /\ op = "AlpacaPark" => Lacks(AlpacaPark, R)
        /\ op = "AlpacaUnpark" => Lacks(AlpacaUnpark, R)
        /\ op = "AlpacaFindHome" => Lacks(AlpacaFindHome, R)
    BY <1>3, <1>4, <2>1, LacksJoin, Zenon DEF AlpacaPark, AlpacaUnpark, AlpacaFindHome
  <2> QED BY <1>9, <2>2 DEF program
<1> QED BY <1>0, <1>5, <1>6, <1>7, <1>8, <1>9 DEF Operation


(* A list that begins with requireHome. *)
Opens(q) == q \in Seq(Step) /\ q # <<>> /\ Head(q).do = "requireHome"

(* What is joined to it does not change that. *)
LEMMA OpensJoin ==
  ASSUME NEW p, NEW q, Opens(p), Lacks(q, {})
  PROVE  Opens(p \o q)
BY DEF Opens, Lacks

(* Park begins with requireHome and has a slew. *)
LEMMA ParkParts ==
  Opens(Park) /\ Has(Park, By({"slewing"}))
<1> DEFINE x == rec("requireHome", "")
           y == rec("slewing", "")
<1>1. /\ x \in Step /\ step("requireHome") = <<x>> /\ x.do = "requireHome"
      /\ y \in By({"slewing"}) /\ y \in Step /\ step("slewing") = <<y>>
  BY DEF rec, step, Step, Does, Command, Gated, Ungated, By
<1> HIDE DEF x, y
<1>2. Opens(step("requireHome"))
  <2>1. <<x>> \in Seq(Step) /\ <<x>> # <<>> /\ Head(<<x>>) = x
    BY <1>1
  <2> QED BY <1>1, <2>1 DEF Opens
<1>3. {} \subseteq Marked /\ "AH" \in Query /\ "CY" \in Query /\ "G" \in Query
  BY DEF Query
<1>4. /\ Lacks(get("AH"), {}) /\ Lacks(get("CY"), {}) /\ Lacks(coord("G"), {}) /\ Lacks(track("CtL"), {})
      /\ Lacks(Ack("SrP"), {}) /\ Lacks(Ack("SdP"), {}) /\ Lacks(slewCmd("MS"), {})
  <2>1. /\ \A k \in Query : Lacks(get(k), {}) /\ Lacks(coord(k), {})
        /\ Lacks(track("CtL"), {}) /\ Lacks(Ack("SrP"), {}) /\ Lacks(Ack("SdP"), {}) /\ Lacks(slewCmd("MS"), {})
    BY <1>3, LacksLists
  <2> QED BY <1>3, <2>1
<1>5. \A s \in Does : Lacks(step(s), {})
  <2> DEFINE E == {}
  <2>1. \A s \in Does : rec(s, "") \notin E
    OBVIOUS
  <2> HIDE DEF E
  <2>2. \A s \in Does : Lacks(step(s), E)
    BY <2>1, LacksStep
  <2> QED BY <2>2 DEF E
<1>6. Lacks(step("refuseWhileHoming"), {}) /\ Lacks(step("parked"), {}) /\ Lacks(step("known"), {}) /\ Lacks(step("parking"), {})
  BY <1>5 DEF Does
<1> DEFINE p == step("requireHome") \o get("AH") \o step("refuseWhileHoming") \o track("CtL") \o get("CY")
           r == p \o step("parked") \o coord("G") \o step("known")
           a == r \o Ack("SrP") \o Ack("SdP")
<1>7. Park = a \o slewCmd("MS") \o step("parking")
  BY DEF Park, Homing, AtPark, SlewToTarget
<1>8. Opens(p)
  BY <1>2, <1>4, <1>6, OpensJoin, Zenon
<1> HIDE DEF p
<1>9. Opens(r)
  BY <1>4, <1>6, <1>8, OpensJoin, Zenon
<1> HIDE DEF r
<1>10. Opens(a)
  BY <1>4, <1>9, OpensJoin, Zenon
<1> HIDE DEF a
<1>11. Opens(a \o slewCmd("MS") \o step("parking")) /\ Opens(a \o slewCmd("MS"))
  BY <1>4, <1>6, <1>10, OpensJoin, Zenon
<1>12. slewCmd("MS") = on("slewCmd", "MS") \o step("slewing") /\ on("slewCmd", "MS") \in Seq(Step)
  <2>1. \A k \in {"MS", "MA", "Ck"} : Lacks(on("slewCmd", k), {})
    BY <1>3, Unmarked
  <2> QED BY <2>1 DEF slewCmd, Lacks
<1>13. Has(slewCmd("MS"), By({"slewing"}))
  <2>1. Has(<<y>>, By({"slewing"})) /\ <<y>> \in Seq(Step)
    BY <1>1, HasOne, Zenon
  <2> DEFINE o == on("slewCmd", "MS")
  <2>2. o \in Seq(Step) /\ slewCmd("MS") = o \o <<y>>
    BY <1>1, <1>12
  <2> HIDE DEF o
  <2>3. Has(o \o <<y>>, By({"slewing"}))
    BY <2>1, <2>2, HasJoin, Zenon
  <2> QED BY <2>2, <2>3
<1>14. Has(a \o slewCmd("MS"), By({"slewing"}))
  BY <1>4, <1>10, <1>13, HasJoin, Zenon DEF Opens, Lacks
<1>15. Has(a \o slewCmd("MS") \o step("parking"), By({"slewing"}))
  BY <1>6, <1>11, <1>14, HasJoin, Zenon DEF Opens, Lacks
<1> QED BY <1>7, <1>11, <1>15


(* What the operations that seek home and that park are made of. *)
LEMMA ProgramHeld ==
  ASSUME NEW c \in Callers, Lone(c), NEW op \in Ops[c]
  PROVE  /\ program(op) \in Seq(Step)
         /\ Has(program(op), Seeks) => op \in {"FindHome", "AlpacaFindHome"}
         /\ Has(program(op), Parks) => op \in {"Park", "AlpacaPark"}
         /\ op = "AlpacaFindHome" => Has(program(op), By({"unlessParked"}))
         /\ op \in {"Park", "AlpacaPark"} => Has(program(op), By({"slewing"})) /\ ~Has(program(op), By({"Unpark"})) /\ ~Early(program(op))
<1>1. \A s \in {"parked", "parking", "Unpark", "Blind"} : s \in Does
  BY DEF Does
<1>2. ASSUME NEW s, NEW x PROVE rec(s, x).do = s /\ rec(s, x).cmd = x
  BY DEF rec
<1>3. /\ Lacks(step("parked"), Seeks) /\ Lacks(step("parking"), Seeks) /\ Lacks(step("Unpark"), Seeks)
  <2>1. \A s \in {"parked", "parking", "Unpark"} : rec(s, "") \notin Seeks
    BY <1>2 DEF Seeks, Is
  <2> QED BY <1>1, <2>1, LacksStep
<1>4. /\ Lacks(step("parked"), By({"Unpark"})) /\ Lacks(step("parking"), By({"Unpark"})) /\ Lacks(step("Unpark"), Parks)
  <2>0. \A s : s # "Unpark" => rec(s, "") \notin By({"Unpark"})
    BY <1>2 DEF By
  <2>1. (\A s \in {"parked", "parking"} : rec(s, "") \notin By({"Unpark"})) /\ rec("Unpark", "") \notin Parks
    <3>1. rec("Unpark", "").do = "Unpark"
      BY <1>2
    <3>2. rec("Unpark", "") \notin Parks
      BY <3>1 DEF By, Parks
    <3> QED BY <2>0, <3>2
  <2>2. \A s \in {"parked", "parking"} : Lacks(step(s), By({"Unpark"}))
    BY <1>1, <2>1, LacksStep
  <2>3. Lacks(step("Unpark"), Parks)
    BY <1>1, <2>1, LacksStep
  <2> QED BY <2>2, <2>3
<1>5. Lacks(Blind("Ch"), Parks) /\ Lacks(Blind("Ch"), By({"Unpark"}))
  <2>1. "Ch" \in Command /\ "Ch" \notin Gated \cup Ungated
    BY DEF Command, Gated, Ungated
  <2>2. rec("Blind", "Ch") \notin By({"Unpark"}) /\ rec("Blind", "Ch") \notin Parks
    BY <1>2 DEF By, Parks
  <2> QED BY <1>1, <2>1, <2>2, LacksOn DEF Blind
<1>6. /\ Seeks \subseteq Marked /\ Parks \subseteq Marked /\ By({"Unpark"}) \subseteq Marked
      /\ Seeks \cap By(Chained) = {} /\ Parks \cap By(Chained) = {} /\ By({"Unpark"}) \cap By(Chained) = {}
  BY DEF Seeks, Is, Parks, By, Marked, Chained, Users
<1>7. Has(program(op), Seeks) => op \in {"FindHome", "AlpacaFindHome"}
  BY <1>3, <1>6, OpLacks DEF Lacks
<1>8. Has(program(op), Parks) => op \in {"Park", "AlpacaPark"}
  BY <1>4, <1>5, <1>6, OpLacks DEF Lacks
<1>9. op \in {"Park", "AlpacaPark"} => Lacks(program(op), By({"Unpark"}))
  BY <1>4, <1>5, <1>6, OpLacks
<1>10. program(op) \in Seq(Step)
  BY GoodProgram DEF Good
<1>11. Lacks(AlpacaAtPark, Parks) /\ Lacks(step("unlessParked"), Parks)
  <2>1. /\ Lacks(step("drainToken"), Parks) /\ Lacks(step("maybeFinishPark"), Parks) /\ Lacks(step("stopped"), Parks)
    BY <1>6, Unmarked DEF Does, Chained, Users
  <2>2. \A s \in {"notUnparked", "axes", "unlessParked"} : s \in Does /\ rec(s, "") \notin Parks
    BY <1>2 DEF Does, Parks, By
  <2>3. Lacks(step("notUnparked"), Parks) /\ Lacks(step("axes"), Parks) /\ Lacks(step("unlessParked"), Parks)
    BY <2>2, LacksStep
  <2> QED BY <2>1, <2>3, LacksJoin, Zenon DEF AlpacaAtPark
<1> DEFINE a == AlpacaAtPark \o step("unlessParked")
<1>12. a \in Seq(Step) /\ ~Has(a, Parks) /\ AlpacaPark = a \o Park /\ AlpacaFindHome = a \o FindHome
  BY <1>11, LacksJoin DEF Lacks, AlpacaPark, AlpacaFindHome
<1>13. Has(a, By({"unlessParked"}))
  <2> DEFINE x == rec("unlessParked", "")
  <2>1. x \in Step /\ x \in By({"unlessParked"}) /\ step("unlessParked") = <<x>>
    BY DEF rec, step, Step, Does, Command, Gated, Ungated, By
  <2> HIDE DEF x
  <2>2. Has(<<x>>, By({"unlessParked"})) /\ <<x>> \in Seq(Step)
    BY <2>1, HasOne, Zenon
  <2>3. AlpacaAtPark \in Seq(Step)
    BY <1>11 DEF Lacks
  <2>4. Has(AlpacaAtPark \o <<x>>, By({"unlessParked"}))
    BY <2>2, <2>3, HasJoin, Zenon
  <2> QED BY <2>1, <2>4
<1> HIDE DEF a
<1>14. Park \in Seq(Step) /\ FindHome \in Seq(Step) /\ Has(Park, By({"slewing"})) /\ ~Early(Park)
  <2>1. Park \in Seq(Step) /\ Park # <<>> /\ Head(Park).do = "requireHome" /\ Has(Park, By({"slewing"}))
    BY ParkParts DEF Opens
  <2>2. FindHome \in Seq(Step)
    BY GoodHalt DEF Good
  <2> QED BY <2>1, <2>2, EarlyHead, Zenon
<1>15. Has(AlpacaPark, By({"slewing"})) /\ ~Early(AlpacaPark) /\ Has(AlpacaFindHome, By({"unlessParked"}))
  <2>1. Has(a \o Park, By({"slewing"})) /\ Has(a \o FindHome, By({"unlessParked"}))
    BY <1>12, <1>13, <1>14, HasJoin, Zenon
  <2>2. ~Early(a \o Park)
    BY <1>12, <1>14, EarlyJoin, Zenon
  <2> QED BY <1>12, <2>1, <2>2
<1>16. op = "AlpacaFindHome" => Has(program(op), By({"unlessParked"}))
  BY <1>15 DEF program
<1>17. op \in {"Park", "AlpacaPark"} => Has(program(op), By({"slewing"})) /\ ~Early(program(op))
  BY <1>14, <1>15 DEF program
<1> QED BY <1>7, <1>8, <1>9, <1>10, <1>16, <1>17 DEF Lacks


(* An operation begins. *)
LEMMA CallHeld ==
  ASSUME TypeOK, NEW c \in Callers, Lone(c), HeldInv(c), NEW op \in Ops[c], call(c, op)
  PROVE  HeldInv(c)'
<1> DEFINE q == program(op)
<1>1. todo'[c] = q /\ m' = m /\ fw' = fw /\ stowed' = IF op \in Harmless THEN stowed ELSE "no"
  BY DEF call, TypeOK
<1>2. /\ q \in Seq(Step)
      /\ Has(q, Seeks) => op \in {"FindHome", "AlpacaFindHome"}
      /\ Has(q, Parks) => op \in {"Park", "AlpacaPark"}
      /\ op = "AlpacaFindHome" => Has(q, By({"unlessParked"}))
      /\ op \in {"Park", "AlpacaPark"} => Has(q, By({"slewing"})) /\ ~Has(q, By({"Unpark"})) /\ ~Early(q)
  BY ProgramHeld
<1>3. q # <<>> => Head(q).do \notin Chained
  BY ProgramStory
<1>4. By({"parking"}) \subseteq Parks
  BY DEF By, Parks
<1>5. Has(q, By({"parking"})) => Has(q, Parks)
  BY <1>4 DEF Has
<1>6. Early(q) => Has(q, Parks)
  BY DEF Early, Has
<1> HIDE DEF q
<1>7. ~m'.moving /\ Homed(c)'
  BY <1>1, <1>2, <1>6 DEF HeldInv, Homed
<1>8. Stowing(c)'
  BY <1>1, <1>2, <1>5 DEF Stowing
<1>9. Seeking(c)'
  <2>1. op = "FindHome" => stowed' # "parked"
    BY <1>1 DEF Harmless
  <2>2. \A s \in {"notUnparked", "axes", "unlessParked"} : s \in Chained
    BY DEF Chained, Users
  <2>3. q # <<>> => Head(q).do \notin {"notUnparked", "axes", "unlessParked"}
    BY <1>3, <2>2
  <2> QED BY <1>1, <1>2, <2>1, <2>3 DEF Seeking, Held
<1> QED BY <1>7, <1>8, <1>9 DEF HeldInv

(* Time passing, and the end of a motion, keep the invariant. *)
LEMMA WorldHeld ==
  ASSUME TypeOK, NEW c \in Callers, SessionInv(c), HeldInv(c), ttl \/ arrive \/ seekEnd \/ UNCHANGED vars
  PROVE  HeldInv(c)'
<1>1. /\ todo' = todo /\ val' = val /\ stowed' = stowed
      /\ m'.moving = m.moving /\ m'.homeFound = m.homeFound /\ m'.unparked = m.unparked
  <2>1. todo' = todo /\ val' = val /\ stowed' = stowed /\ (m' = m \/ m' = [m EXCEPT !.peeked = FALSE])
    BY DEF ttl, arrive, seekEnd, vars
  <2> QED BY <2>1 DEF TypeOK, MountType
<1>2. fw' = fw \/ fw.motion # "idle"
  BY DEF ttl, arrive, seekEnd, vars
<1>3. Has(todo[c], Seeks) => fw' = fw
  BY <1>2, SeekAtRest
<1>4. ~m'.moving /\ Homed(c)' /\ Stowing(c)'
  BY <1>1 DEF HeldInv, Homed, Stowing
<1>5. Seeking(c)'
  BY <1>1, <1>3 DEF HeldInv, Seeking, Held
<1> QED BY <1>4, <1>5 DEF HeldInv

(* The invariant holds at the start. *)
LEMMA InitHeld ==
  ASSUME NEW c \in Callers, Init
  PROVE  HeldInv(c)
<1>1. todo[c] = <<>> /\ stowed = "no" /\ ~m.moving
  <2>1. PICK homed, answered \in BOOLEAN :
          m = [slewing |-> FALSE, peeked |-> FALSE, lastFault |-> "",
               homeFound |-> homed /\ answered, home |-> "", unparked |-> FALSE,
               parking |-> FALSE, moving |-> FALSE, homeCapturePending |-> FALSE,
               parkStopPending |-> FALSE, pulsing |-> FALSE]
    BY Zenon DEF Init
  <2>2. ~m.moving
    BY <2>1
  <2> QED BY <2>2 DEF Init
<1>2. (\A R : ~Has(<<>>, R)) /\ ~Early(<<>>)
  <2>1. Len(<<>>) = 0
    OBVIOUS
  <2> QED BY <2>1 DEF Has, Early
<1> QED BY <1>1, <1>2 DEF HeldInv, Homed, Stowing, Seeking

(* Every step keeps it. *)
LEMMA NextHeld ==
  ASSUME NEW c \in Callers, Lone(c), TypeOK, SessionInv(c), AlpacaInv(c), HeldInv(c), [Next]_vars
  PROVE  HeldInv(c)'
<1>1. SessionInv(c)'
  BY NextSession
<1>2. CASE run(c)
  BY <1>1, <1>2, RunHeld
<1>3. ASSUME NEW op \in Ops[c], call(c, op) PROVE HeldInv(c)'
  BY <1>3, CallHeld
<1>4. CASE ttl \/ arrive \/ seekEnd \/ UNCHANGED vars
  BY <1>4, WorldHeld
<1>5. (\A d \in Callers : d = c) /\ ~pulseEnd /\ ~verdict
  BY NeverSession DEF Lone
<1> QED BY <1>2, <1>3, <1>4, <1>5, Zenon DEF Next


(* A home seek starts where its list ends, behind the check that would have stopped it. *)
LEMMA SeekingHeld ==
  ASSUME NEW c \in Callers, Lone(c), TypeOK, SessionInv(c), HeldInv(c), Next, fw.motion # "home", fw'.motion = "home"
  PROVE  ~Held
<1> DEFINE q == todo[c]
           h == Head(q)
<1>1. run(c)
  <2>1. ~arrive /\ ~seekEnd /\ ~ttl
    BY DEF arrive, seekEnd, ttl, TypeOK, FirmwareType
  <2>2. (\A d \in Callers : d = c) /\ ~pulseEnd /\ ~verdict
    BY NeverSession DEF Lone
  <2>3. \A op \in Ops[c] : ~call(c, op)
    BY DEF call
  <2> QED BY <2>1, <2>2, <2>3, Zenon DEF Next
<1>2. write(c) \/ blind(c) \/ SlewNack(c)
  <2>1. fw' # fw
    OBVIOUS
  <2> QED BY <1>1, <2>1 DEF run, drainToken, Await, apply, drainStale, match, echo, readByte, window, maybeCaptureHome, maybeFinishPark,
              captureHome, setSlewing, flags, checks, parkedAlready, report, polePosition, parkState, reportPark
<1>3. q \in Seq(Step) /\ q # <<>> /\ h.cmd = cmd(c) /\ h.do \in {"write", "rewrite", "Get", "Ack", "Blind", "slewCmd"} /\ obey(cmd(c))
  <2>1. q # <<>> /\ h.cmd = cmd(c) /\ h.do \in {"write", "rewrite", "Get", "Ack", "Blind", "slewCmd"}
    BY <1>2 DEF write, reads, blind, SlewNack, at, cmd
  <2>2. obey(cmd(c))
    BY <1>2 DEF write, blind, SlewNack
  <2> QED BY <2>1, <2>2 DEF TypeOK
<1>4. cmd(c) = "Ch"
  BY <1>3 DEF obey, TypeOK, FirmwareType
<1>5. /\ h \in Step /\ Proper(h) /\ Tail(q) \in Seq(Step)
      /\ Is(h, "Blind", "Ch") => Tail(q) # <<>> /\ Tail(Tail(q)) = <<>> /\ Head(Tail(q)).do = "slewing"
  BY <1>3, Later DEF SessionInv
<1>6. Is(h, "Blind", "Ch")
  BY <1>3, <1>4, <1>5 DEF Is, Proper, Query
<1>7. Has(q, Seeks)
  <2>1. h \in Seeks
    BY <1>5, <1>6 DEF Seeks
  <2> QED BY <1>3, <2>1, HasParts, Zenon
<1>8. ~Has(q, By({"unlessParked"}))
  <2> DEFINE R == By({"unlessParked"})
  <2>1. h \notin R /\ Head(Tail(q)) \notin R
    BY <1>5, <1>6 DEF Is, By
  <2> HIDE DEF R
  <2>2. Has(q, R) <=> h \in R \/ Has(Tail(q), R)
    BY <1>3, HasParts, Zenon
  <2>3. Has(Tail(q), R) <=> Head(Tail(q)) \in R \/ Has(Tail(Tail(q)), R)
    BY <1>5, <1>6, HasParts, Zenon
  <2>4. ~Has(<<>>, R)
    BY <1>5, HasOne, Zenon
  <2> QED BY <1>5, <1>6, <2>1, <2>2, <2>3, <2>4, Zenon DEF R
<1> QED BY <1>7, <1>8 DEF HeldInv, Seeking

(* AlpacaFindHome never sends a home seek to a mount that a Park left on its park     *)
(* position. That takes a Park that has cleared an earlier Unpark and found a home    *)
(* reference, so that AlpacaAtPark asks for the axes, an answer that is true and is   *)
(* looked at once, and no command between the answer and the seek.                    *)
THEOREM ParkHeldTheorem ==
  ASSUME NEW u \in Callers, Lone(u)
  PROVE  Spec => ParkHeld
<1>1. Init => AlpacaInv(u) /\ HeldInv(u)
  BY InitAlp, InitHeld
<1>2. TypeOK /\ SessionInv(u) /\ AlpacaInv(u) /\ HeldInv(u) /\ [Next]_vars => AlpacaInv(u)' /\ HeldInv(u)'
  BY NextAlp, NextHeld
<1>3. TypeOK /\ SessionInv(u) /\ HeldInv(u) /\ [Next]_vars =>
        [fw.motion # "home" /\ fw'.motion = "home" => ~(stowed = "parked" /\ fw.pos = "park")]_vars
  BY SeekingHeld DEF Held
<1> QED BY <1>1, <1>2, <1>3, TypeTheorem, SessionInvariant, PTL DEF Spec, ParkHeld
=============================================================================
