---------------------------- MODULE DriverProofs ----------------------------
(***************************************************************************)
(* Proofs about Driver, for any number of clients, calls and faults and    *)
(* for every set of drivers whose scripts keep the assumptions of Driver.  *)
(***************************************************************************)
EXTENDS Driver, SequenceTheorems, WellFoundedInduction, TLAPS

(***************************************************************************)
(* Sequences.                                                              *)
(***************************************************************************)

(* u is what is left of t without its first n elements. *)
Rest(u, t, n) ==
    /\ n \in 0..Len(t) /\ Len(u) = Len(t) - n
    /\ \A i \in 1..(Len(t) - n) : u[i] = t[i + n]

(* A suffix of a sequence, by its elements. *)
LEMMA Suffix ==
  ASSUME NEW S, NEW t \in Seq(S), NEW n \in 0..Len(t)
  PROVE  /\ SubSeq(t, n + 1, Len(t)) \in Seq(S)
         /\ Rest(SubSeq(t, n + 1, Len(t)), t, n)
  <1>1. Len(t) \in Nat /\ \A i \in (n + 1)..Len(t) : t[i] \in S
    OBVIOUS
  <1>2. n + 1 \in Int /\ Len(t) \in Int
    OBVIOUS
  <1>3. /\ SubSeq(t, n + 1, Len(t)) \in Seq(S)
        /\ Len(SubSeq(t, n + 1, Len(t))) = IF n + 1 <= Len(t) THEN Len(t) - (n + 1) + 1 ELSE 0
        /\ \A i \in 1..(Len(t) - (n + 1) + 1) : SubSeq(t, n + 1, Len(t))[i] = t[(n + 1) + i - 1]
    BY <1>1, <1>2, SubSeqProperties
  <1>4. \A i \in 1..(Len(t) - n) : SubSeq(t, n + 1, Len(t))[i] = t[i + n]
    <2> TAKE i \in 1..(Len(t) - n)
    <2>1. i \in 1..(Len(t) - (n + 1) + 1) /\ (n + 1) + i - 1 = i + n
      BY <1>1
    <2> QED BY <1>3, <2>1
  <1> QED BY <1>1, <1>3, <1>4 DEF Rest

(* A set of numbers that is not empty has a least element. *)
LEMMA Least ==
  ASSUME NEW T, T \subseteq Nat, T # {}
  PROVE  \E x \in T : \A y \in T : x <= y
  <1> DEFINE R == OpToRel(<, Nat)
  <1>1. \E x \in T : \A y \in T : ~(<<y, x>> \in R)
    <2> HIDE DEF R
    <2>1. IsWellFoundedOn(R, Nat)
      BY NatLessThanWellFounded DEF R
    <2> QED BY <2>1, WFMin
  <1>2. \A x, y \in Nat : y < x => <<y, x>> \in R
    BY DEF OpToRel
  <1> HIDE DEF R
  <1>3. PICK x \in T : \A y \in T : ~(<<y, x>> \in R)
    BY <1>1, Zenon
  <1>4. \A y \in T : ~(y < x)
    BY <1>2, <1>3, Zenon
  <1> QED BY <1>3, <1>4

(* The first terminator is a terminator, and none comes before it. *)
LEMMA FirstHash ==
  ASSUME line \in Seq(Char), NEW i \in Nat, i > 0, closed(i)
  PROVE  /\ firstHash(i) \in i..Len(line)
         /\ line[firstHash(i)].c = "#"
         /\ \A h \in i..(firstHash(i) - 1) : line[h].c # "#"
  <1> DEFINE T == {k \in i..Len(line) : line[k].c = "#"}
  <1>1. T \subseteq Nat /\ T # {}
    BY DEF closed
  <1>2. PICK k \in T : \A y \in T : k <= y
    BY <1>1, Least
  <1>3. k \in i..Len(line) /\ line[k].c = "#"
    OBVIOUS
  <1>4. \A h \in i..(k - 1) : line[h].c # "#"
    <2> SUFFICES ASSUME NEW h \in i..(k - 1), line[h].c = "#" PROVE FALSE
      OBVIOUS
    <2>1. Len(line) \in Nat
      OBVIOUS
    <2>2. h \in T
      BY <1>3, <2>1
    <2> QED BY <1>2, <1>3, <2>1, <2>2
  <1> QED BY <1>3, <1>4 DEF firstHash

(***************************************************************************)
(* The rest of a script.                                                   *)
(***************************************************************************)
Way(s, how) == CASE how = "yes" -> s.yes [] how = "no" -> s.no [] OTHER -> s.err

(* The script after its first step: a rest of it, which after an error that *)
(* stops is nothing.                                                        *)
Goes(u, t, way) ==
    /\ way = "go" => Rest(u, t, 1)
    /\ way = "skip" => \/ Rest(u, t, t[1].skip + 1)
                       \/ u = <<>> /\ Len(t) < t[1].skip + 1
    /\ way \notin {"go", "skip"} => u = <<>>

(* The first step of a script. *)
LEMMA First ==
  ASSUME NEW t \in Seq(StepType), t # <<>>
  PROVE  /\ Len(t) \in Nat /\ Len(t) >= 1
         /\ Head(t) = t[1] /\ t[1] \in StepType
         /\ Tail(t) \in Seq(StepType) /\ Rest(Tail(t), t, 1)
  <1>1. Len(t) \in Nat /\ Len(t) >= 1 /\ Head(t) = t[1] /\ t[1] \in StepType
    OBVIOUS
  <1>2. /\ Tail(t) \in Seq(StepType) /\ Len(Tail(t)) = Len(t) - 1
        /\ \A i \in 1..Len(Tail(t)) : Tail(t)[i] = t[i + 1]
    BY HeadTailProperties
  <1> QED BY <1>1, <1>2 DEF Rest

(* What a step leaves of a script is a script. *)
LEMMA GoesOn ==
  ASSUME NEW t \in Seq(StepType), t # <<>>, NEW way, NEW u,
         way = "go" => u = Tail(t),
         way = "skip" => u = SubSeq(t, 2 + t[1].skip, Len(t)),
         way \notin {"go", "skip"} => u = <<>>
  PROVE  u \in Seq(StepType) /\ Goes(u, t, way)
  <1>1. t[1].skip \in Nat /\ Len(t) \in Nat
    BY First DEF StepType
  <1>2. CASE way = "go"
    BY <1>2, First DEF Goes
  <1>3. CASE way = "skip" /\ t[1].skip + 1 <= Len(t)
    <2>1. t[1].skip + 1 \in 0..Len(t)
      BY <1>1, <1>3
    <2>2. 2 + t[1].skip = (t[1].skip + 1) + 1
      BY <1>1
    <2>3. u = SubSeq(t, (t[1].skip + 1) + 1, Len(t))
      BY <1>3, <2>2
    <2>4. u \in Seq(StepType) /\ Rest(u, t, t[1].skip + 1)
      BY <2>1, <2>3, Suffix
    <2> QED BY <1>3, <2>4 DEF Goes
  <1>4. CASE way = "skip" /\ Len(t) < t[1].skip + 1
    <2>1. u = <<>>
      BY <1>1, <1>4, SubSeqEmpty
    <2> QED BY <1>4, <2>1 DEF Goes
  <1>5. CASE way \notin {"go", "skip"}
    <2>1. u = <<>>
      BY <1>5
    <2> QED BY <1>5, <2>1 DEF Goes
  <1> QED BY <1>1, <1>2, <1>3, <1>4, <1>5

(* A call after its first step. *)
LEMMA After ==
  ASSUME call \in [Client -> CallType], NEW c \in Client, call[c].todo # <<>>, NEW how
  PROVE  /\ step(c) = call[c].todo[1] /\ step(c) \in StepType
         /\ after(c, how) \in CallType
         /\ Goes(after(c, how).todo, call[c].todo, Way(step(c), how))
         /\ after(c, how) = [call[c] EXCEPT !.todo = after(c, how).todo, !.sent = FALSE,
                                            !.failed = @ \/ Way(step(c), how) = "stop"]
  <1> DEFINE way == Way(step(c), how)
             t == call[c].todo
             u == CASE way = "go"   -> Tail(t)
                    [] way = "skip" -> SubSeq(t, 2 + t[1].skip, Len(t))
                    [] OTHER        -> <<>>
  <1>0. call[c] \in CallType
    OBVIOUS
  <1>1. t \in Seq(StepType) /\ call[c].failed \in BOOLEAN
    BY <1>0 DEF CallType
  <1>2. step(c) = t[1] /\ t[1] \in StepType
    BY <1>1, First DEF step
  <1>3. after(c, how) = [call[c] EXCEPT !.todo = u, !.sent = FALSE, !.failed = @ \/ way = "stop"]
    BY <1>2 DEF after, Way
  <1>4. u \in Seq(StepType) /\ Goes(u, t, way)
    <2> HIDE DEF way
    <2>1. way = "go" => u = Tail(t)
      OBVIOUS
    <2>2. way = "skip" => u = SubSeq(t, 2 + t[1].skip, Len(t))
      OBVIOUS
    <2>3. way \notin {"go", "skip"} => u = <<>>
      OBVIOUS
    <2> HIDE DEF u
    <2> QED BY <1>1, <2>1, <2>2, <2>3, GoesOn
  <1> HIDE DEF u, way
  <1>5. (call[c].failed \/ way = "stop") \in BOOLEAN
    OBVIOUS
  <1>6. after(c, how) \in CallType /\ after(c, how).todo = u
    BY <1>0, <1>3, <1>4, <1>5 DEF CallType
  <1> QED BY <1>2, <1>3, <1>4, <1>6 DEF way

(***************************************************************************)
(* Types.                                                                  *)
(***************************************************************************)
MountType == [ver : Nat, jog : [Axis -> BOOLEAN], pulse : 0..MaxPulse, corr : BOOLEAN, south : BOOLEAN,
              prec : 0..2, site : {"untold", "told", "gps"}]
MemType == [moving : [Axis -> BOOLEAN], pulse : 0..MaxPulse, south : BOOLEAN, parked : BOOLEAN]

(* An answer on the line, character by character. *)
LEMMA CharsTyped ==
  ASSUME NEW a \in Seq({"y", "n", "#"}), NEW v \in Nat
  PROVE  /\ Chars(a, v) \in Seq(Char) /\ Len(Chars(a, v)) = Len(a)
         /\ \A i \in 1..Len(a) : Chars(a, v)[i].c = a[i] /\ Chars(a, v)[i].v = v
  <1>1. \A i \in 1..Len(a) : [c |-> a[i], v |-> v] \in Char
    BY DEF Char
  <1> QED BY <1>1 DEF Chars

(* Short sequences. *)
LEMMA Tuples ==
  ASSUME NEW S, NEW x \in S, NEW y \in S, NEW z \in S
  PROVE  /\ <<>> \in Seq(S) /\ Len(<<>>) = 0
         /\ <<x>> \in Seq(S) /\ Len(<<x>>) = 1 /\ <<x>>[1] = x /\ Head(<<x>>) = x
         /\ <<x, y>> \in Seq(S) /\ Len(<<x, y>>) = 2 /\ <<x, y>>[1] = x /\ <<x, y>>[2] = y
         /\ Head(<<x, y>>) = x
         /\ <<x, y, z>> \in Seq(S) /\ Len(<<x, y, z>>) = 3 /\ <<x, y, z>>[1] = x
         /\ <<x, y, z>>[2] = y /\ <<x, y, z>>[3] = z /\ Head(<<x, y, z>>) = x
  OBVIOUS

(* Every answer is one of seven. *)
LEMMA AnswerShapes ==
  ASSUME NEW s \in StepType, NEW a \in Answer(s)
  PROVE  /\ \/ s.reply = "none" /\ a = <<>>
            \/ s.reply = "byte" /\ (a = <<"y">> \/ a = <<"n">>)
            \/ s.reply = "date" /\ (a = <<"y">> \/ a = <<"n">> \/ a = <<"y", "n", "#">>)
            \/ s.reply = "text" /\ (a = <<"y", "#">> \/ a = <<"n", "#">>)
            \/ s.reply = "slew" /\ (a = <<"y">> \/ a = <<"n", "n", "#">>)
         /\ a \in Seq({"y", "n", "#"})
  <1>1. s.reply \in {"none", "byte", "date", "text", "slew"} /\ a \in Answers(s)
    BY DEF StepType, Answer
  <1>2. \/ s.reply = "none" /\ a = <<>>
        \/ s.reply = "byte" /\ (a = <<"y">> \/ a = <<"n">>)
        \/ s.reply = "date" /\ (a = <<"y">> \/ a = <<"n">> \/ a = <<"y", "n", "#">>)
        \/ s.reply = "text" /\ (a = <<"y", "#">> \/ a = <<"n", "#">>)
        \/ s.reply = "slew" /\ (a = <<"y">> \/ a = <<"n", "n", "#">>)
    BY <1>1 DEF Answers
  <1>3. a = <<>> \/ a = <<"y">> \/ a = <<"n">> \/ a = <<"y", "#">> \/ a = <<"n", "#">> \/ a = <<"n", "n", "#">>
        \/ a = <<"y", "n", "#">>
    BY <1>2
  <1>4. a \in Seq({"y", "n", "#"})
    <2> DEFINE S == {"y", "n", "#"}
    <2>1. "y" \in S /\ "n" \in S /\ "#" \in S
      OBVIOUS
    <2> HIDE DEF S
    <2>2. <<>> \in Seq(S) /\ <<"y">> \in Seq(S) /\ <<"n">> \in Seq(S) /\ <<"y", "#">> \in Seq(S)
          /\ <<"n", "#">> \in Seq(S) /\ <<"n", "n", "#">> \in Seq(S) /\ <<"y", "n", "#">> \in Seq(S)
      BY <2>1, Tuples
    <2>3. a \in Seq(S)
      BY <1>3, <2>2
    <2> QED BY <2>3 DEF S
  <1> QED BY <1>2, <1>4

(* Whether an axis moves after a command that the mount carries out. *)
JogAfter(s, a) ==
    IF s.does \in {"halt", "stopAll"} THEN FALSE
    ELSE IF a = "P" THEN s.does = "jogP" \/ (mnt.jog[a] /\ s.does # "stopP")
    ELSE s.does = "jogS" \/ (mnt.jog[a] /\ s.does # "stopS")

(* A command that stops everything. *)
LEMMA Stops ==
  ASSUME mnt \in MountType, NEW j \in [Axis -> BOOLEAN], NEW m, m = [mnt EXCEPT !.ver = @ + 1, !.jog = j]
  PROVE  /\ m \in MountType /\ m.ver = mnt.ver + 1 /\ m.corr = mnt.corr
         /\ m.south = mnt.south /\ m.pulse = mnt.pulse /\ m.jog = j /\ m.site = mnt.site
  <1>1. mnt.ver + 1 \in Nat
    BY DEF MountType
  <1>2. m = [ver |-> mnt.ver + 1, jog |-> j, pulse |-> mnt.pulse, corr |-> mnt.corr, south |-> mnt.south,
            prec |-> mnt.prec, site |-> mnt.site]
    BY DEF MountType
  <1> QED BY <1>1, <1>2 DEF MountType

(* Commands that change what status() reports, and those of the GPS. *)
Shown == {"status", "setHome", "halt", "stopAll", "jogP", "jogS", "stopP", "stopS"}
ByGps == {"gpsSouth", "gpsNorth"}

(* Where the hemisphere comes from after a command. *)
SiteAfter(s) ==
    IF s.does \in {"south", "north"} \/ (s.does = "askSouth" /\ phase = "opening") THEN "told"
    ELSE IF s.does \in ByGps /\ mnt.site = "told" THEN "gps" ELSE mnt.site

(* What a command does to each part of the mount. *)
LEMMA Obeys ==
  ASSUME mnt \in MountType, NEW s \in StepType
  PROVE  /\ Obey(s) \in MountType
         /\ Obey(s).ver = IF s.does \in Shown THEN mnt.ver + 1 ELSE mnt.ver
         /\ Obey(s).corr = IF s.does = "corrOn" THEN TRUE ELSE IF s.does = "corrOff" THEN FALSE ELSE mnt.corr
         /\ Obey(s).south = IF s.does \in {"south", "gpsSouth"} THEN TRUE
                            ELSE IF s.does \in {"north", "gpsNorth"} THEN FALSE ELSE mnt.south
         /\ Obey(s).site = SiteAfter(s)
         /\ Obey(s).pulse = IF s.does = "pulse" /\ mnt.pulse < s.ticks THEN s.ticks ELSE mnt.pulse
         /\ \A a \in Axis : Obey(s).jog[a] = JogAfter(s, a)
  <1>1. s.ticks \in 0..MaxPulse /\ mnt.pulse \in 0..MaxPulse /\ MaxPulse \in Nat /\ mnt.ver \in Nat
        /\ s.does \in Effects /\ mnt.jog \in [Axis -> BOOLEAN] /\ mnt.prec \in 0..2
    BY ConstantTypes DEF StepType, MountType
  <1>2. CASE s.does \in {"status", "setHome"}
    <2>1. Obey(s) = [mnt EXCEPT !.ver = @ + 1]
      BY <1>2 DEF Obey
    <2>2. /\ Obey(s) \in MountType /\ Obey(s).ver = mnt.ver + 1 /\ Obey(s).corr = mnt.corr
          /\ Obey(s).south = mnt.south /\ Obey(s).pulse = mnt.pulse /\ Obey(s).jog = mnt.jog
          /\ Obey(s).site = mnt.site
      BY <1>1, <2>1 DEF MountType
    <2>3. /\ s.does \in Shown /\ SiteAfter(s) = mnt.site
          /\ s.does \notin {"corrOn", "corrOff", "south", "north", "gpsSouth", "gpsNorth", "pulse"}
      BY <1>2 DEF Shown, SiteAfter, ByGps
    <2>4. \A a \in Axis : JogAfter(s, a) = mnt.jog[a]
      BY <1>1, <1>2 DEF JogAfter
    <2> QED BY <2>2, <2>3, <2>4
  <1>4. ASSUME NEW j \in [Axis -> BOOLEAN], Obey(s) = [mnt EXCEPT !.ver = @ + 1, !.jog = j],
               s.does \in {"halt", "stopAll", "jogP", "jogS", "stopP", "stopS"}, \A a \in Axis : j[a] = JogAfter(s, a)
        PROVE  /\ Obey(s) \in MountType
               /\ Obey(s).ver = IF s.does \in Shown THEN mnt.ver + 1 ELSE mnt.ver
               /\ Obey(s).corr = IF s.does = "corrOn" THEN TRUE ELSE IF s.does = "corrOff" THEN FALSE ELSE mnt.corr
               /\ Obey(s).south = IF s.does \in {"south", "gpsSouth"} THEN TRUE
                                  ELSE IF s.does \in {"north", "gpsNorth"} THEN FALSE ELSE mnt.south
               /\ Obey(s).site = SiteAfter(s)
               /\ Obey(s).pulse = IF s.does = "pulse" /\ mnt.pulse < s.ticks THEN s.ticks ELSE mnt.pulse
               /\ \A a \in Axis : Obey(s).jog[a] = JogAfter(s, a)
    <2>3. /\ Obey(s) \in MountType /\ Obey(s).ver = mnt.ver + 1 /\ Obey(s).corr = mnt.corr
          /\ Obey(s).south = mnt.south /\ Obey(s).pulse = mnt.pulse /\ Obey(s).jog = j
          /\ Obey(s).site = mnt.site
      BY <1>4, Stops
    <2>5. SiteAfter(s) = mnt.site /\ s.does \in Shown
      BY <1>4 DEF SiteAfter, ByGps, Shown
    <2>6. s.does \notin {"corrOn", "corrOff", "south", "north", "gpsSouth", "gpsNorth", "pulse"}
      BY <1>4
    <2> QED BY <1>4, <2>3, <2>5, <2>6
  <1>3. CASE s.does \in {"halt", "stopAll"}
    <2> DEFINE j == [a \in Axis |-> FALSE]
    <2>1. Obey(s) = [mnt EXCEPT !.ver = @ + 1, !.jog = j]
      BY <1>3 DEF Obey
    <2>2. j \in [Axis -> BOOLEAN] /\ \A a \in Axis : j[a] = JogAfter(s, a)
      BY <1>3 DEF JogAfter
    <2> HIDE DEF j
    <2> QED BY <1>4, <1>3, <2>1, <2>2
  <1>5. CASE s.does = "jogP"
    <2> DEFINE j == [mnt.jog EXCEPT !["P"] = TRUE]
    <2>1. Obey(s) = [mnt EXCEPT !.ver = @ + 1, !.jog = j]
      BY <1>5 DEF Obey
    <2>2. j \in [Axis -> BOOLEAN] /\ \A a \in Axis : j[a] = JogAfter(s, a)
      BY <1>1, <1>5 DEF JogAfter, Axis
    <2> HIDE DEF j
    <2> QED BY <1>4, <1>5, <2>1, <2>2
  <1>6. CASE s.does = "jogS"
    <2> DEFINE j == [mnt.jog EXCEPT !["S"] = TRUE]
    <2>1. Obey(s) = [mnt EXCEPT !.ver = @ + 1, !.jog = j]
      BY <1>6 DEF Obey
    <2>2. j \in [Axis -> BOOLEAN] /\ \A a \in Axis : j[a] = JogAfter(s, a)
      BY <1>1, <1>6 DEF JogAfter, Axis
    <2> HIDE DEF j
    <2> QED BY <1>4, <1>6, <2>1, <2>2
  <1>7. CASE s.does = "stopP"
    <2> DEFINE j == [mnt.jog EXCEPT !["P"] = FALSE]
    <2>1. Obey(s) = [mnt EXCEPT !.ver = @ + 1, !.jog = j]
      BY <1>7 DEF Obey
    <2>2. j \in [Axis -> BOOLEAN] /\ \A a \in Axis : j[a] = JogAfter(s, a)
      BY <1>1, <1>7 DEF JogAfter, Axis
    <2> HIDE DEF j
    <2> QED BY <1>4, <1>7, <2>1, <2>2
  <1>8. CASE s.does = "stopS"
    <2> DEFINE j == [mnt.jog EXCEPT !["S"] = FALSE]
    <2>1. Obey(s) = [mnt EXCEPT !.ver = @ + 1, !.jog = j]
      BY <1>8 DEF Obey
    <2>2. j \in [Axis -> BOOLEAN] /\ \A a \in Axis : j[a] = JogAfter(s, a)
      BY <1>1, <1>8 DEF JogAfter, Axis
    <2> HIDE DEF j
    <2> QED BY <1>4, <1>8, <2>1, <2>2
  <1>9. CASE s.does = "pulse"
    BY <1>1, <1>9 DEF Obey, MountType, Axis, JogAfter, Shown, ByGps, SiteAfter
  <1>10. CASE s.does \in {"corrOn", "corrOff"}
    BY <1>1, <1>10 DEF Obey, MountType, Axis, JogAfter, Shown, ByGps, SiteAfter
  <1>12. CASE s.does \in {"south", "north"}
    BY <1>1, <1>12 DEF Obey, MountType, Axis, JogAfter, Shown, ByGps, SiteAfter
  <1>13. CASE s.does \in ByGps
    BY <1>1, <1>13 DEF Obey, MountType, Axis, JogAfter, Shown, ByGps, SiteAfter
  <1>14. CASE s.does = "askSouth"
    BY <1>1, <1>14 DEF Obey, MountType, Axis, JogAfter, Shown, ByGps, SiteAfter
  <1>15. CASE s.does \in {"prec0", "prec1", "prec2", "precNext"}
    <2>2. \E k \in 0..2 : Obey(s) = [mnt EXCEPT !.prec = k]
      <3>1. CASE s.does = "precNext"
        <4>1. Obey(s) = [mnt EXCEPT !.prec = IF @ = 2 THEN 0 ELSE @ + 1]
          BY <3>1 DEF Obey
        <4>2. (IF mnt.prec = 2 THEN 0 ELSE mnt.prec + 1) \in 0..2
          BY <1>1
        <4> QED BY <4>1, <4>2
      <3>2. CASE s.does = "prec0"
        <4>1. Obey(s) = [mnt EXCEPT !.prec = 0]
          BY <3>2 DEF Obey
        <4> QED BY <4>1
      <3>3. CASE s.does = "prec1"
        <4>1. Obey(s) = [mnt EXCEPT !.prec = 1]
          BY <3>3 DEF Obey
        <4> QED BY <4>1
      <3>4. CASE s.does = "prec2"
        <4>1. Obey(s) = [mnt EXCEPT !.prec = 2]
          BY <3>4 DEF Obey
        <4> QED BY <4>1
      <3> QED BY <1>15, <3>1, <3>2, <3>3, <3>4
    <2>3. PICK k \in 0..2 : Obey(s) = [mnt EXCEPT !.prec = k]
      BY <2>2
    <2>4. /\ Obey(s) \in MountType /\ Obey(s).ver = mnt.ver /\ Obey(s).corr = mnt.corr
          /\ Obey(s).south = mnt.south /\ Obey(s).pulse = mnt.pulse /\ Obey(s).jog = mnt.jog
          /\ Obey(s).site = mnt.site
      BY <2>3 DEF MountType
    <2>5. /\ s.does \notin Shown /\ SiteAfter(s) = mnt.site
          /\ s.does \notin {"corrOn", "corrOff", "south", "north", "gpsSouth", "gpsNorth", "pulse"}
      BY <1>15 DEF Shown, SiteAfter, ByGps
    <2>6. \A a \in Axis : JogAfter(s, a) = mnt.jog[a]
      BY <1>1, <1>15 DEF JogAfter
    <2> QED BY <2>4, <2>5, <2>6
  <1>16. CASE s.does \in {"nothing", "askCorr"}
    BY <1>1, <1>16 DEF Obey, MountType, Axis, JogAfter, Shown, ByGps, SiteAfter
  <1> QED BY <1>1, <1>2, <1>3, <1>5, <1>6, <1>7, <1>8, <1>9, <1>10, <1>12, <1>13, <1>14, <1>15, <1>16 DEF Effects, ByGps

(* A command that reaches the mount: one of its answers is chosen. *)
LEMMA Delivered ==
  ASSUME TypeOK, NEW c \in Client, call[c].todo # <<>>, NEW delay, deliver(c, delay)
  PROVE  \E a \in Answer(step(c)) :
            LET s == step(c)
                accepted == a = <<>> \/ Head(a) = "y"
                now == IF accepted \/ s.does = "askSouth" THEN Obey(s) ELSE mnt
                bytes == Chars(a, mnt.ver)
                next == IF s.op = "blind" THEN after(c, "yes") ELSE [call[c] EXCEPT !.sent = TRUE]
                did == IF accepted /\ s.does \in {"status", "halt"} THEN now.ver ELSE call[c].did
            IN  /\ mnt' = now /\ mnt' \in MountType
                /\ late' = (IF delay \/ late # <<>> THEN late \o bytes ELSE late) /\ late' \in Seq(Char)
                /\ line' = (IF delay \/ late # <<>> THEN line ELSE line \o bytes) /\ line' \in Seq(Char)
                /\ user' = (IF (accepted /\ s.arg = "user") \/ (~accepted /\ restores(s)) THEN now.corr ELSE user)
                /\ user' \in BOOLEAN
                /\ loose' = (loose \/ delay \/ (s.reply = "date" /\ Len(a) > 1))
                /\ call' = [call EXCEPT ![c] = [next EXCEPT !.did = did]]
                /\ next \in CallType /\ did \in Nat /\ [next EXCEPT !.did = did] \in CallType
  <1> DEFINE s == step(c)
             acc(a) == a = <<>> \/ Head(a) = "y"
             now(a) == IF acc(a) \/ s.does = "askSouth" THEN Obey(s) ELSE mnt
             bytes(a) == Chars(a, mnt.ver)
             next == IF s.op = "blind" THEN after(c, "yes") ELSE [call[c] EXCEPT !.sent = TRUE]
             did(a) == IF acc(a) /\ s.does \in {"status", "halt"} THEN now(a).ver ELSE call[c].did
  <1>1. PICK a \in Answer(s) :
           /\ mnt' = now(a)
           /\ IF delay \/ late # <<>> THEN late' = late \o bytes(a) /\ UNCHANGED line
                                      ELSE line' = line \o bytes(a) /\ UNCHANGED late
           /\ user' = IF (acc(a) /\ s.arg = "user") \/ (~acc(a) /\ restores(s)) THEN now(a).corr ELSE user
           /\ loose' = (loose \/ delay \/ (s.reply = "date" /\ Len(a) > 1))
           /\ call' = [call EXCEPT ![c] = [next EXCEPT !.did = IF acc(a) /\ s.does \in {"status", "halt"} THEN now(a).ver ELSE @]]
    BY DEF deliver
  <1>2. /\ mnt \in MountType /\ line \in Seq(Char) /\ late \in Seq(Char) /\ user \in BOOLEAN
        /\ call \in [Client -> CallType] /\ call[c] \in CallType
    BY DEF TypeOK, MountType
  <1>3. s \in StepType /\ after(c, "yes") \in CallType /\ after(c, "yes").did = call[c].did
    <2>1. /\ s \in StepType /\ after(c, "yes") \in CallType
          /\ after(c, "yes") = [call[c] EXCEPT !.todo = after(c, "yes").todo, !.sent = FALSE,
                                               !.failed = @ \/ Way(step(c), "yes") = "stop"]
      BY <1>2, After
    <2> QED BY <1>2, <2>1 DEF CallType
  <1>4. Obey(s) \in MountType
    BY <1>2, <1>3, Obeys
  <1>5. a \in Seq({"y", "n", "#"}) /\ mnt.ver \in Nat
    BY <1>2, <1>3, AnswerShapes DEF MountType
  <1>6. bytes(a) \in Seq(Char)
    BY <1>5, CharsTyped
  <1>7. next \in CallType /\ next.did = call[c].did
    BY <1>2, <1>3 DEF CallType
  <1>8. now(a) \in MountType
    BY <1>2, <1>4
  <1>9. did(a) \in Nat
    BY <1>2, <1>8 DEF MountType, CallType
  <1> HIDE DEF next, now, bytes, acc
  <1>10. call' = [call EXCEPT ![c] = [next EXCEPT !.did = did(a)]]
    BY <1>1, <1>7
  <1>11. [next EXCEPT !.did = did(a)] \in CallType
    <2> HIDE DEF did
    <2> QED BY <1>7, <1>9 DEF CallType
  <1>16. late \o bytes(a) \in Seq(Char) /\ line \o bytes(a) \in Seq(Char)
    BY <1>2, <1>6, ConcatProperties
  <1>12. late' = (IF delay \/ late # <<>> THEN late \o bytes(a) ELSE late) /\ late' \in Seq(Char)
    BY <1>1, <1>2, <1>16
  <1>13. line' = (IF delay \/ late # <<>> THEN line ELSE line \o bytes(a)) /\ line' \in Seq(Char)
    BY <1>1, <1>2, <1>16
  <1>14. user' \in BOOLEAN
    BY <1>1, <1>2, <1>8 DEF MountType
  <1>15. /\ mnt' = now(a) /\ mnt' \in MountType
         /\ user' = (IF (acc(a) /\ s.arg = "user") \/ (~acc(a) /\ restores(s)) THEN now(a).corr ELSE user)
         /\ loose' = (loose \/ delay \/ (s.reply = "date" /\ Len(a) > 1))
    BY <1>1, <1>8
  <1> WITNESS a \in Answer(step(c))
  <1> QED BY <1>7, <1>9, <1>10, <1>11, <1>12, <1>13, <1>14, <1>15 DEF next, now, bytes, acc, did

(***************************************************************************)
(* What a step of client c makes of its call.                              *)
(***************************************************************************)
Others(c) ==
    call' \in [Client -> CallType] /\ \A d \in Client : d # c => call'[d] = call[d]

(* r is the call of c after its first step; what else it carries is set aside. *)
Onward(c, how, r) ==
    /\ r \in CallType /\ Goes(r.todo, call[c].todo, Way(step(c), how)) /\ ~r.sent
    /\ r.on = call[c].on /\ r.base = call[c].base /\ r.left = call[c].left
    /\ r.failed <=> call[c].failed \/ Way(step(c), how) = "stop"

Carries(x, y) == x.fix = y.fix /\ x.got = y.got /\ x.seen = y.seen /\ x.did = y.did

(* A call changes, the others do not. *)
LEMMA Changed ==
  ASSUME call \in [Client -> CallType], NEW c \in Client, NEW r \in CallType,
         call' = [call EXCEPT ![c] = r]
  PROVE  Others(c) /\ call'[c] = r
  BY DEF Others

(* after, by its fields. *)
LEMMA AfterFields ==
  ASSUME call \in [Client -> CallType], NEW c \in Client, call[c].todo # <<>>, NEW how
  PROVE  Onward(c, how, after(c, how)) /\ Carries(after(c, how), call[c])
  <1> DEFINE stops == Way(step(c), how) = "stop"
             u == after(c, how).todo
             r == after(c, how)
  <1>1. r \in CallType /\ Goes(u, call[c].todo, Way(step(c), how))
    BY After
  <1>2. r = [call[c] EXCEPT !.todo = u, !.sent = FALSE, !.failed = @ \/ stops]
    BY After
  <1>3. call[c] \in CallType
    OBVIOUS
  <1>4. u \in Seq(StepType)
    BY <1>1 DEF CallType
  <1> HIDE DEF r, u, stops
  <1>5. /\ ~r.sent /\ r.on = call[c].on /\ r.base = call[c].base /\ r.left = call[c].left
        /\ r.fix = call[c].fix /\ r.got = call[c].got /\ r.seen = call[c].seen /\ r.did = call[c].did
        /\ r.todo = u
    BY <1>2, <1>3, <1>4 DEF CallType
  <1>6. r.failed <=> call[c].failed \/ stops
    BY <1>2, <1>3 DEF CallType
  <1> QED BY <1>1, <1>5, <1>6 DEF Onward, Carries, r, u, stops

(* A step that only moves on. *)
LEMMA Advanced ==
  ASSUME call \in [Client -> CallType], NEW c \in Client, call[c].todo # <<>>, NEW how,
         call' = [call EXCEPT ![c] = after(c, how)]
  PROVE  Others(c) /\ Onward(c, how, call'[c]) /\ Carries(call'[c], call[c])
  <1>1. Onward(c, how, after(c, how)) /\ Carries(after(c, how), call[c])
    BY AfterFields
  <1>2. after(c, how) \in CallType
    BY <1>1 DEF Onward
  <1>3. Others(c) /\ call'[c] = after(c, how)
    BY <1>2, Changed
  <1> QED BY <1>1, <1>3

(* A step that moves on and does something else to the call. *)
Like(x, y) ==
    /\ x.todo = y.todo /\ x.sent = y.sent /\ x.on = y.on /\ x.base = y.base
    /\ x.left = y.left /\ x.failed = y.failed /\ x.did = y.did

(* A call that goes on, with a note made on the way, has gone on. *)
LEMMA Noted ==
  ASSUME call \in [Client -> CallType], NEW c \in Client, call[c].todo # <<>>, NEW how,
         NEW a, a = after(c, how), NEW r \in CallType, Like(r, a), call' = [call EXCEPT ![c] = r]
  PROVE  Others(c) /\ Onward(c, how, call'[c]) /\ call'[c] = r /\ r.did = call[c].did
  <1>1. Onward(c, how, a) /\ Carries(a, call[c])
    BY AfterFields
  <1>2. Others(c) /\ call'[c] = r
    BY Changed
  <1>3. Onward(c, how, r) /\ r.did = call[c].did
    BY <1>1 DEF Onward, Like, Carries
  <1> QED BY <1>2, <1>3

(* An idle call, and one that begins. *)
LEMMA IdleTyped ==
  ASSUME NEW n \in Nat
  PROVE  /\ Idle(n) \in CallType /\ ~Idle(n).on /\ ~Idle(n).sent /\ ~Idle(n).got /\ Idle(n).todo = <<>>
         /\ ~Idle(n).fix /\ ~Idle(n).failed
         /\ Idle(n).seen = 0 /\ Idle(n).did = 0 /\ Idle(n).base = 0 /\ Idle(n).left = n
  <1>1. <<>> \in Seq(StepType)
    OBVIOUS
  <1> QED BY <1>1 DEF Idle, CallType

NewCall(n, t, f) == [Idle(n) EXCEPT !.on = TRUE, !.todo = t, !.base = f]

(* A call that begins has its script ahead of it and nothing behind it. *)
LEMMA BeginTyped ==
  ASSUME NEW n \in Nat, NEW t \in Seq(StepType), NEW f \in Nat, NEW b, b = NewCall(n, t, f)
  PROVE  /\ b \in CallType /\ b.on /\ b.todo = t /\ ~b.sent /\ ~b.fix /\ ~b.failed /\ ~b.got
         /\ b.seen = 0 /\ b.base = f /\ b.did = 0 /\ b.left = n
  <1>1. ASSUME NEW i \in CallType, NEW r, r = [i EXCEPT !.on = TRUE, !.todo = t, !.base = f]
        PROVE  /\ r \in CallType /\ r.on /\ r.todo = t /\ r.sent = i.sent /\ r.fix = i.fix
               /\ r.failed = i.failed /\ r.got = i.got /\ r.seen = i.seen /\ r.base = f /\ r.did = i.did
               /\ r.left = i.left
    BY <1>1 DEF CallType
  <1> DEFINE i == Idle(n)
  <1>2. /\ i \in CallType /\ ~i.sent /\ ~i.got /\ ~i.fix /\ ~i.failed
        /\ i.seen = 0 /\ i.did = 0 /\ i.left = n
    BY IdleTyped
  <1>3. b = [i EXCEPT !.on = TRUE, !.todo = t, !.base = f]
    BY DEF NewCall
  <1> HIDE DEF i
  <1>4. /\ b \in CallType /\ b.on /\ b.todo = t /\ b.sent = i.sent /\ b.fix = i.fix
        /\ b.failed = i.failed /\ b.got = i.got /\ b.seen = i.seen /\ b.base = f /\ b.did = i.did
        /\ b.left = i.left
    BY <1>1, <1>2, <1>3, Zenon
  <1> QED BY <1>2, <1>4, Zenon

(* The two tables the client of a driver takes a script from. *)
LEMMA ScriptTyped ==
  ASSUME NEW d \in Drivers, NEW t \in Open[d] \cup Calls[d] \cup Polls[d]
  PROVE  t \in Seq(StepType)
  BY ScriptTypes DEF Scripts

(* The initial states have the right types. *)
LEMMA InitTyped == Init => TypeOK
  <1> SUFFICES ASSUME Init PROVE TypeOK
    OBVIOUS
  <1>1. PICK j \in Junk[drv] : line = Chars(j, 0)
    BY DEF Init
  <1>2. j \in Seq({"y", "n"}) /\ drv \in Drivers
    BY ScriptTypes DEF Init
  <1>3. j \in Seq({"y", "n", "#"})
    <2>1. {"y", "n"} \subseteq {"y", "n", "#"}
      OBVIOUS
    <2> QED BY <1>2, <2>1, SeqMonotonic
  <1>4. line \in Seq(Char) /\ late \in Seq(Char)
    <2>1. Chars(j, 0) \in Seq(Char)
      BY <1>3, CharsTyped
    <2>2. late = <<>>
      BY DEF Init
    <2> QED BY <1>1, <2>1, <2>2
  <1>5. PICK c \in Commander, t \in Open[drv] :
           call = [d \in Client |->
                     IF d = c THEN [Idle(MaxCalls[d]) EXCEPT !.on = TRUE, !.todo = t]
                     ELSE Idle(MaxCalls[d])]
    BY DEF Init
  <1>6. t \in Seq(StepType)
    BY <1>2, <1>5, ScriptTyped
  <1>7. \A d \in Client : MaxCalls[d] \in Nat /\ Idle(MaxCalls[d]) \in CallType
    BY ConstantTypes, IdleTyped
  <1>8. \A d \in Client : [Idle(MaxCalls[d]) EXCEPT !.on = TRUE, !.todo = t] \in CallType
    <2>1. ASSUME NEW i \in CallType PROVE [i EXCEPT !.on = TRUE, !.todo = t] \in CallType
      BY <1>6, <2>1 DEF CallType
    <2> QED BY <1>7, <2>1
  <1>9. call \in [Client -> CallType]
    <2> HIDE DEF Idle
    <2>1. \A d \in Client : (IF d = c THEN [Idle(MaxCalls[d]) EXCEPT !.on = TRUE, !.todo = t]
                              ELSE Idle(MaxCalls[d])) \in CallType
      BY <1>7, <1>8
    <2> QED BY <1>5, <2>1, Zenon
  <1>10. mnt \in MountType /\ user \in BOOLEAN
    <2>1. PICK corr \in BOOLEAN, south \in BOOLEAN, prec \in 0..2 :
             mnt = [ver |-> 0, jog |-> [a \in Axis |-> FALSE], pulse |-> 0, corr |-> corr,
                    south |-> south, prec |-> prec, site |-> "untold"]
      BY DEF Init
    <2>2. [a \in Axis |-> FALSE] \in [Axis -> BOOLEAN] /\ 0 \in 0..MaxPulse
      BY ConstantTypes
    <2>3. mnt \in MountType
      BY <2>1, <2>2 DEF MountType
    <2>4. user = mnt.corr
      BY DEF Init
    <2> QED BY <2>3, <2>4 DEF MountType
  <1>11. mem \in MemType
    <2>1. mem = [moving |-> [a \in Axis |-> FALSE], pulse |-> 0, south |-> FALSE, parked |-> FALSE]
      BY Zenon DEF Init
    <2>2. [a \in Axis |-> FALSE] \in [Axis -> BOOLEAN] /\ 0 \in 0..MaxPulse
      BY ConstantTypes
    <2> QED BY <2>1, <2>2 DEF MemType
  <1>12. cache \in [left : 0..TTL, v : Nat] /\ faults \in 0..MaxFaults /\ floor \in Nat /\ loose \in BOOLEAN
    <2>1. cache = [left |-> 0, v |-> 0] /\ faults = 0 /\ floor = 0
      BY Zenon DEF Init
    <2>2. loose \in BOOLEAN
      BY Zenon DEF Init
    <2> QED BY <2>1, <2>2, ConstantTypes
  <1>13. phase = "opening" /\ conn = Nobody /\ mu = Nobody
    BY Zenon DEF Init
  <1> QED BY <1>2, <1>4, <1>9, <1>10, <1>11, <1>12, <1>13 DEF TypeOK, MountType, MemType

(***************************************************************************)
(* The steps, one by one: what each makes of the call it belongs to.       *)
(***************************************************************************)
LEMMA StartStep ==
  ASSUME TypeOK, NEW c \in Client, Start(c)
  PROVE  /\ Others(c) /\ ~call[c].on /\ phase = "open"
         /\ call'[c].todo \in Scripts(drv)
         /\ c \notin Commander => call'[c].todo \in Polls[drv]
         /\ call'[c].on /\ ~call'[c].sent /\ ~call'[c].fix /\ ~call'[c].failed /\ ~call'[c].got
         /\ call'[c].seen = 0 /\ call'[c].base = floor /\ call'[c].did = 0
  <1>1. /\ call \in [Client -> CallType] /\ call[c] \in CallType /\ floor \in Nat /\ drv \in Drivers
        /\ call[c].left \in Nat
    BY DEF TypeOK, CallType
  <1>2. PICK t \in (IF c \in Commander THEN Calls[drv] ELSE Polls[drv]) :
           call' = [call EXCEPT ![c] = Begin(t, call[c].left - 1)]
    BY DEF Start
  <1>3. t \in Scripts(drv) /\ (c \notin Commander => t \in Polls[drv])
    BY <1>2 DEF Scripts
  <1>4. t \in Seq(StepType) /\ call[c].left - 1 \in Nat
    <2>1. call[c].left > 0
      BY DEF Start
    <2> QED BY <1>1, <1>3, <2>1, ScriptTypes
  <1> DEFINE n == call[c].left - 1
             b == Begin(t, n)
  <1>9. n \in Nat
    BY <1>4
  <1> HIDE DEF n
  <1>5. b = NewCall(n, t, floor)
    BY DEF Begin, NewCall
  <1> HIDE DEF b
  <1>6. /\ b \in CallType /\ b.on /\ b.todo = t /\ ~b.sent /\ ~b.fix /\ ~b.failed /\ ~b.got
        /\ b.seen = 0 /\ b.base = floor /\ b.did = 0
    BY <1>1, <1>4, <1>5, <1>9, BeginTyped
  <1>7. Others(c) /\ call'[c] = b
    BY <1>1, <1>2, <1>6, Changed DEF b, n
  <1>8. ~call[c].on /\ phase = "open"
    BY DEF Start
  <1> QED BY <1>3, <1>6, <1>7, <1>8

(* Ack and AckByte take one byte and go on by what it says. *)
LEMMA ReadByteStep ==
  ASSUME TypeOK, NEW c \in Client, readByte(c)
  PROVE  /\ Others(c) /\ Carries(call'[c], call[c]) /\ line' \in Seq(Char)
         /\ Onward(c, IF Head(line).c = "y" THEN "yes" ELSE "no", call'[c])
  <1>1. call \in [Client -> CallType] /\ line \in Seq(Char) /\ line # <<>> /\ call[c].todo # <<>>
    BY DEF TypeOK, readByte, waits
  <1>2. line' \in Seq(Char)
    BY <1>1, HeadTailProperties DEF readByte
  <1> QED BY <1>1, <1>2, Advanced DEF readByte

(* What readUntil reads, the version that answer was made from. *)
LEMMA ReadUntilStep ==
  ASSUME TypeOK, NEW c \in Client, readUntil(c)
  PROVE  \E k \in 1..Len(line) :
            /\ line[k].c = "#" /\ \A h \in 1..(k - 1) : line[h].c # "#"
            /\ line' = SubSeq(line, k + 1, Len(line)) /\ line' \in Seq(Char)
            /\ Others(c)
            /\ Onward(c, IF k = 2 /\ line[1].c = "y" THEN "yes" ELSE "no", call'[c])
            /\ call'[c].got = call[c].got /\ call'[c].fix = call[c].fix /\ call'[c].did = call[c].did
            /\ call'[c].seen = IF mu = c THEN IF line[k].v < call[c].seen THEN line[k].v ELSE call[c].seen
                               ELSE call[c].seen
  <1>1. /\ call \in [Client -> CallType] /\ call[c] \in CallType /\ line \in Seq(Char) /\ closed(1)
        /\ call[c].todo # <<>> /\ call[c].seen \in Nat
    BY DEF TypeOK, readUntil, waits, CallType
  <1> DEFINE k == firstHash(1)
             how == IF k = 2 /\ line[1].c = "y" THEN "yes" ELSE "no"
             v == IF line[k].v < call[c].seen THEN line[k].v ELSE call[c].seen
             a == after(c, how)
             r == [a EXCEPT !.seen = IF mu = c THEN v ELSE @]
             w == IF mu = c THEN v ELSE a.seen
  <1>2. k \in 1..Len(line) /\ line[k].c = "#" /\ \A h \in 1..(k - 1) : line[h].c # "#"
    BY <1>1, FirstHash
  <1>3. line' = SubSeq(line, k + 1, Len(line)) /\ call' = [call EXCEPT ![c] = r]
    BY DEF readUntil
  <1>4. line[k].v \in Nat
    <2>1. line[k] \in Char
      BY <1>1, <1>2, ElementOfSeq
    <2> QED BY <2>1 DEF Char
  <1> HIDE DEF k, how
  <1>5. line' \in Seq(Char)
    <2>1. k \in 0..Len(line)
      BY <1>1, <1>2
    <2> QED BY <1>1, <1>3, <2>1, Suffix
  <1>6. a \in CallType /\ Carries(a, call[c])
    BY <1>1, AfterFields DEF Onward
  <1> HIDE DEF a
  <1>7. w \in Nat
    BY <1>1, <1>4, <1>6 DEF CallType
  <1>8. r = [a EXCEPT !.seen = w]
    OBVIOUS
  <1> HIDE DEF w, r
  <1>9. r \in CallType /\ Like(r, a) /\ r.seen = w /\ r.got = a.got /\ r.fix = a.fix
    BY <1>6, <1>7, <1>8 DEF CallType, Like
  <1>10. Others(c) /\ Onward(c, how, call'[c]) /\ call'[c] = r /\ r.did = call[c].did
    BY <1>1, <1>3, <1>9, Noted DEF a
  <1>11. call'[c].got = call[c].got /\ call'[c].fix = call[c].fix /\ call'[c].seen = IF mu = c THEN v ELSE call[c].seen
    BY <1>6, <1>9, <1>10 DEF Carries, w
  <1> QED BY <1>2, <1>3, <1>5, <1>10, <1>11 DEF how

(* Slew takes one byte, or a refusal up to its terminator. *)
LEMMA ReadSlewStep ==
  ASSUME TypeOK, NEW c \in Client, readSlew(c)
  PROVE  /\ Others(c) /\ Carries(call'[c], call[c]) /\ line' \in Seq(Char)
         /\ Onward(c, IF Head(line).c = "y" THEN "yes" ELSE "no", call'[c])
         /\ \/ Head(line).c = "y" /\ line' = Tail(line)
            \/ \E k \in 2..Len(line) :
                  /\ line[k].c = "#" /\ \A h \in 2..(k - 1) : line[h].c # "#"
                  /\ line' = SubSeq(line, k + 1, Len(line))
  <1>1. call \in [Client -> CallType] /\ line \in Seq(Char) /\ line # <<>> /\ call[c].todo # <<>>
    BY DEF TypeOK, readSlew, waits
  <1>2. CASE Head(line).c = "y"
    <2>1. line' = Tail(line) /\ call' = [call EXCEPT ![c] = after(c, "yes")]
      BY <1>2 DEF readSlew
    <2>2. line' \in Seq(Char)
      BY <1>1, <2>1, HeadTailProperties
    <2> QED BY <1>1, <1>2, <2>1, <2>2, Advanced
  <1>3. CASE Head(line).c # "y"
    <2> DEFINE k == firstHash(2)
    <2>1. /\ line' = SubSeq(line, k + 1, Len(line)) /\ call' = [call EXCEPT ![c] = after(c, "no")]
          /\ closed(2)
      BY <1>3 DEF readSlew
    <2>2. k \in 2..Len(line) /\ line[k].c = "#" /\ \A h \in 2..(k - 1) : line[h].c # "#"
      BY <1>1, <2>1, FirstHash
    <2> HIDE DEF k
    <2>3. k \in 0..Len(line)
      BY <1>1, <2>2
    <2>4. line' \in Seq(Char)
      BY <1>1, <2>1, <2>3, Suffix
    <2>5. Others(c) /\ Onward(c, "no", call'[c]) /\ Carries(call'[c], call[c])
      BY <1>1, <2>1, Advanced
    <2> QED BY <1>3, <2>1, <2>2, <2>4, <2>5
  <1> QED BY <1>2, <1>3

(* A read that times out, and a write that fails. *)
LEMMA ErrorStep ==
  ASSUME TypeOK, NEW c \in Client, timeout(c) \/ writeFails(c)
  PROVE  Others(c) /\ Onward(c, "err", call'[c]) /\ Carries(call'[c], call[c])
  <1>1. /\ call \in [Client -> CallType] /\ call[c].todo # <<>>
        /\ call' = [call EXCEPT ![c] = after(c, "err")]
    BY DEF TypeOK, timeout, writeFails, starved, waits, ready
  <1> QED BY <1>1, Advanced

(* status() with a cache that is good. *)
LEMMA HitStep ==
  ASSUME TypeOK, NEW c \in Client, status(c), cache.left > 0
  PROVE  /\ Others(c) /\ Onward(c, "yes", call'[c]) /\ mu' = mu
         /\ call'[c].got /\ call'[c].seen = cache.v
         /\ call'[c].fix = call[c].fix /\ call'[c].did = call[c].did
  <1> DEFINE a == after(c, "yes")
             r == [a EXCEPT !.got = TRUE, !.seen = cache.v]
  <1>1. call \in [Client -> CallType] /\ call[c].todo # <<>> /\ cache.v \in Nat /\ cache.left \in Nat
    BY ConstantTypes DEF TypeOK, status, ready
  <1>2. call' = [call EXCEPT ![c] = r] /\ mu' = mu
    <2>1. cache.left # 0
      BY <1>1
    <2> QED BY <2>1, Zenon DEF status
  <1>3. a \in CallType /\ Carries(a, call[c])
    BY <1>1, AfterFields DEF Onward
  <1> HIDE DEF a
  <1>4. r \in CallType /\ Like(r, a) /\ r.got /\ r.seen = cache.v /\ r.fix = a.fix
    BY <1>1, <1>3 DEF CallType, Like
  <1> HIDE DEF r
  <1>5. Others(c) /\ Onward(c, "yes", call'[c]) /\ call'[c] = r /\ r.did = call[c].did
    BY <1>1, <1>2, <1>4, Noted DEF a
  <1> QED BY <1>2, <1>3, <1>4, <1>5 DEF Carries

(* status() that sends its queries. *)
LEMMA MissStep ==
  ASSUME TypeOK, NEW c \in Client, status(c), ~(cache.left > 0)
  PROVE  /\ Others(c) /\ mu' = c
         /\ call'[c].todo = Fetch[drv] \o Tail(call[c].todo) /\ call'[c].seen = mnt.ver
         /\ call'[c].on = call[c].on /\ call'[c].sent = call[c].sent /\ call'[c].failed = call[c].failed
         /\ call'[c].base = call[c].base /\ call'[c].left = call[c].left /\ call'[c].got = call[c].got
         /\ call'[c].fix = call[c].fix /\ call'[c].did = call[c].did
  <1> DEFINE u == Fetch[drv] \o Tail(call[c].todo)
             r == [call[c] EXCEPT !.todo = u, !.seen = mnt.ver]
  <1>1. /\ call \in [Client -> CallType] /\ call[c] \in CallType /\ call[c].todo # <<>> /\ mnt.ver \in Nat
        /\ drv \in Drivers /\ call[c].todo \in Seq(StepType)
    <2>1. call \in [Client -> CallType] /\ call[c] \in CallType /\ mnt.ver \in Nat /\ drv \in Drivers
      BY DEF TypeOK
    <2>2. call[c].todo # <<>>
      BY DEF status, ready
    <2> QED BY <2>1, <2>2 DEF CallType
  <1>2. call' = [call EXCEPT ![c] = r] /\ mu' = c
    BY <1>1 DEF status
  <1>3. u \in Seq(StepType)
    <2>1. Fetch[drv] \in Seq(StepType) /\ Tail(call[c].todo) \in Seq(StepType)
      BY <1>1, ScriptTypes, First
    <2> QED BY <2>1, ConcatProperties
  <1> HIDE DEF u
  <1>4. /\ r \in CallType /\ r.todo = u /\ r.seen = mnt.ver /\ r.on = call[c].on /\ r.sent = call[c].sent
        /\ r.failed = call[c].failed /\ r.base = call[c].base /\ r.left = call[c].left
        /\ r.got = call[c].got /\ r.fix = call[c].fix /\ r.did = call[c].did
    BY <1>1, <1>3 DEF CallType
  <1> HIDE DEF r
  <1>5. Others(c) /\ call'[c] = r
    BY <1>1, <1>2, <1>4, Changed
  <1> QED BY <1>2, <1>4, <1>5 DEF u

(* The end of status(): the call has its status and goes on. *)
LEMMA StoreStep ==
  ASSUME TypeOK, NEW c \in Client, store(c)
  PROVE  /\ Others(c) /\ Onward(c, "yes", call'[c])
         /\ call'[c].got /\ call'[c].seen = call[c].seen
         /\ call'[c].fix = call[c].fix /\ call'[c].did = call[c].did
  <1> DEFINE a == after(c, "yes")
             r == [a EXCEPT !.got = TRUE]
  <1>1. call \in [Client -> CallType] /\ call[c].todo # <<>> /\ call' = [call EXCEPT ![c] = r]
    BY DEF TypeOK, store, ready
  <1>3. a \in CallType /\ Carries(a, call[c])
    BY <1>1, AfterFields DEF Onward
  <1> HIDE DEF a
  <1>4. r \in CallType /\ Like(r, a) /\ r.got /\ r.seen = a.seen /\ r.fix = a.fix
    BY <1>1, <1>3 DEF CallType, Like
  <1> HIDE DEF r
  <1>5. Others(c) /\ Onward(c, "yes", call'[c]) /\ call'[c] = r /\ r.did = call[c].did
    BY <1>1, <1>4, Noted DEF a
  <1> QED BY <1>3, <1>4, <1>5 DEF Carries

(* MoveAxisRate defers the restore of the correction and goes on. *)
LEMMA DeferStep ==
  ASSUME TypeOK, NEW c \in Client, defer(c)
  PROVE  /\ Others(c) /\ Onward(c, "yes", call'[c])
         /\ call'[c].fix /\ call'[c].got = call[c].got /\ call'[c].seen = call[c].seen
         /\ call'[c].did = call[c].did
  <1> DEFINE a == after(c, "yes")
             r == [a EXCEPT !.fix = TRUE]
  <1>1. call \in [Client -> CallType] /\ call[c].todo # <<>> /\ call' = [call EXCEPT ![c] = r]
    BY DEF TypeOK, defer, ready
  <1>3. a \in CallType /\ Carries(a, call[c])
    BY <1>1, AfterFields DEF Onward
  <1> HIDE DEF a
  <1>4. r \in CallType /\ Like(r, a) /\ r.got = a.got /\ r.seen = a.seen /\ r.fix
    BY <1>1, <1>3 DEF CallType, Like
  <1> HIDE DEF r
  <1>5. Others(c) /\ Onward(c, "yes", call'[c]) /\ call'[c] = r /\ r.did = call[c].did
    BY <1>1, <1>4, Noted DEF a
  <1> QED BY <1>3, <1>4, <1>5 DEF Carries

(* The steps that change what the driver remembers. *)
LEMMA DoneStep ==
  ASSUME TypeOK, NEW c \in Client, NEW op, ready(c, op), done(c)
  PROVE  /\ Others(c) /\ Onward(c, "yes", call'[c]) /\ Carries(call'[c], call[c])
         /\ step(c).op = op /\ call[c].todo # <<>> /\ call[c].on /\ ~call[c].sent
  <1>1. /\ call \in [Client -> CallType] /\ call[c].todo # <<>>
        /\ call' = [call EXCEPT ![c] = after(c, "yes")]
    BY DEF TypeOK, done, ready
  <1> QED BY <1>1, Advanced DEF ready

(* A value is found good or bad, and the call goes on accordingly. *)
LEMMA CheckStep ==
  ASSUME TypeOK, NEW c \in Client, check(c)
  PROVE  Others(c) /\ Carries(call'[c], call[c]) /\ \E how \in {"yes", "no"} : Onward(c, how, call'[c])
  <1>1. PICK ok \in BOOLEAN : call' = [call EXCEPT ![c] = after(c, IF ok THEN "yes" ELSE "no")]
    BY DEF check
  <1>2. call \in [Client -> CallType] /\ call[c].todo # <<>>
    BY DEF TypeOK, check, ready
  <1> QED BY <1>1, <1>2, Advanced

(* A move in progress ends the method here. *)
LEMMA AskMovingStep ==
  ASSUME TypeOK, NEW c \in Client, askMoving(c)
  PROVE  /\ Others(c) /\ Carries(call'[c], call[c])
         /\ \/ Onward(c, "yes", call'[c])
            \/ /\ call'[c].todo = <<>> /\ ~call'[c].sent /\ call'[c].on = call[c].on
               /\ call'[c].base = call[c].base /\ call'[c].left = call[c].left
               /\ (call'[c].failed <=> call[c].failed \/ Way(step(c), "yes") = "stop")
  <1>1. call \in [Client -> CallType] /\ call[c].todo # <<>>
    BY DEF TypeOK, askMoving, ready
  <1> DEFINE a == after(c, "yes")
             r == [a EXCEPT !.todo = <<>>]
  <1>2. call' = [call EXCEPT ![c] = a] \/ call' = [call EXCEPT ![c] = r]
    BY DEF askMoving
  <1>3. CASE call' = [call EXCEPT ![c] = a]
    BY <1>1, <1>3, Advanced
  <1>4. CASE call' = [call EXCEPT ![c] = r]
    <2>1. Onward(c, "yes", a) /\ Carries(a, call[c])
      BY <1>1, AfterFields
    <2>2. a \in CallType /\ <<>> \in Seq(StepType)
      BY <2>1 DEF Onward
    <2> HIDE DEF a
    <2>3. /\ r \in CallType /\ r.todo = <<>> /\ r.sent = a.sent /\ r.on = a.on /\ r.base = a.base
          /\ r.left = a.left /\ r.failed = a.failed /\ Carries(r, a)
      BY <2>2 DEF CallType, Carries
    <2> HIDE DEF r
    <2>4. Others(c) /\ call'[c] = r
      BY <1>1, <1>4, <2>3, Changed
    <2> QED BY <2>1, <2>3, <2>4 DEF Onward, Carries
  <1> QED BY <1>2, <1>3, <1>4

(* The restore is a script. *)
LEMMA RestoreTyped ==
  /\ SpeedCorrectionOn \in StepType /\ <<SpeedCorrectionOn>> \in Seq(StepType)
  /\ Len(<<SpeedCorrectionOn>>) = 1 /\ <<SpeedCorrectionOn>>[1] = SpeedCorrectionOn
  /\ <<SpeedCorrectionOn>> # <<>>
  <1>1. SpeedCorrectionOn \in StepType
    BY ConstantTypes DEF SpeedCorrectionOn, StepType, Ops, Wire, Effects
  <1> QED BY <1>1, Tuples

(* A call returns, or runs its deferred restore first. *)
LEMMA ReturnStep ==
  ASSUME TypeOK, NEW c \in Client, return(c)
  PROVE  /\ Others(c) /\ call[c].on /\ call[c].todo = <<>>
         /\ mu' = IF mu = c THEN Nobody ELSE mu
         /\ \/ /\ call[c].fix /\ phase' = phase /\ floor' = floor
               /\ call'[c].todo = <<SpeedCorrectionOn>> /\ ~call'[c].fix
               /\ call'[c].on = call[c].on /\ call'[c].sent = call[c].sent /\ call'[c].failed = call[c].failed
               /\ call'[c].base = call[c].base /\ call'[c].got = call[c].got /\ call'[c].seen = call[c].seen
               /\ call'[c].did = call[c].did
            \/ /\ ~call[c].fix /\ ~call'[c].on /\ ~call'[c].sent /\ ~call'[c].got /\ ~call'[c].fix
               /\ ~call'[c].failed /\ call'[c].todo = <<>>
               /\ call'[c].did = 0 /\ call'[c].base = 0 /\ call'[c].seen = 0
               /\ floor' = (IF ~call[c].failed /\ call[c].did > floor THEN call[c].did ELSE floor)
               /\ phase' = (IF phase # "opening" THEN phase ELSE IF call[c].failed THEN "closed" ELSE "open")
  <1>1. /\ call \in [Client -> CallType] /\ call[c] \in CallType /\ call[c].on /\ call[c].todo = <<>>
        /\ mu' = IF mu = c THEN Nobody ELSE mu
    BY DEF TypeOK, return
  <1>2. CASE call[c].fix
    <2> DEFINE u == <<SpeedCorrectionOn>>
               r == [call[c] EXCEPT !.todo = u, !.fix = FALSE]
    <2>1. call' = [call EXCEPT ![c] = r] /\ phase' = phase /\ floor' = floor
      BY <1>1, <1>2 DEF return
    <2>2. u \in Seq(StepType)
      BY RestoreTyped
    <2> HIDE DEF u
    <2>3. /\ r \in CallType /\ r.todo = u /\ ~r.fix /\ r.on = call[c].on /\ r.sent = call[c].sent
          /\ r.failed = call[c].failed /\ r.base = call[c].base /\ r.got = call[c].got
          /\ r.seen = call[c].seen /\ r.did = call[c].did
      BY <1>1, <2>2 DEF CallType
    <2> HIDE DEF r
    <2>4. Others(c) /\ call'[c] = r
      BY <1>1, <2>1, <2>3, Changed
    <2> QED BY <1>1, <1>2, <2>1, <2>3, <2>4 DEF u
  <1>3. CASE ~call[c].fix
    <2> DEFINE r == Idle(call[c].left)
    <2>1. /\ call' = [call EXCEPT ![c] = r]
          /\ floor' = (IF ~call[c].failed /\ call[c].did > floor THEN call[c].did ELSE floor)
          /\ phase' = (IF phase # "opening" THEN phase ELSE IF call[c].failed THEN "closed" ELSE "open")
      BY <1>1, <1>3 DEF return
    <2>2. /\ r \in CallType /\ ~r.on /\ ~r.sent /\ ~r.got /\ r.todo = <<>> /\ ~r.fix /\ ~r.failed
          /\ r.seen = 0 /\ r.did = 0 /\ r.base = 0
      BY <1>1, IdleTyped DEF CallType
    <2> HIDE DEF r
    <2>3. Others(c) /\ call'[c] = r
      BY <1>1, <2>1, <2>2, Changed
    <2> QED BY <1>1, <1>3, <2>1, <2>2, <2>3
  <1> QED BY <1>2, <1>3

(* A command that is written: the mount takes it, and a call that waits for  *)
(* an answer stays where it is.                                              *)
Taken(c, a, delay) ==
    LET s == step(c)
        accepted == a = <<>> \/ Head(a) = "y"
        now == IF accepted \/ s.does = "askSouth" THEN Obey(s) ELSE mnt
        bytes == Chars(a, mnt.ver)
    IN  /\ mnt' = now /\ mnt' \in MountType
        /\ late' = (IF delay \/ late # <<>> THEN late \o bytes ELSE late) /\ late' \in Seq(Char)
        /\ line' = (IF delay \/ late # <<>> THEN line ELSE line \o bytes) /\ line' \in Seq(Char)
        /\ user' = (IF (accepted /\ s.arg = "user") \/ (~accepted /\ restores(s)) THEN now.corr ELSE user)
        /\ user' \in BOOLEAN
        /\ loose' = (loose \/ delay \/ (s.reply = "date" /\ Len(a) > 1))
        /\ call'[c].did = (IF accepted /\ s.does \in {"status", "halt"} THEN now.ver ELSE call[c].did)

Stays(x, y) ==
    /\ x.todo = y.todo /\ x.on = y.on /\ x.base = y.base /\ x.left = y.left /\ x.failed = y.failed

(* A command is written under Conn.mu; what has an answer waits for it. *)
LEMMA WriteStep ==
  ASSUME TypeOK, NEW c \in Client, NEW op \in Wire, write(c, op)
  PROVE  /\ call[c].on /\ call[c].todo # <<>> /\ ~call[c].sent /\ step(c).op = op /\ conn = Nobody
         /\ conn' = (IF op = "blind" THEN Nobody ELSE c) /\ step(c) \in StepType
         /\ Others(c) /\ call'[c].fix = call[c].fix /\ call'[c].got = call[c].got
         /\ call'[c].seen = call[c].seen
         /\ IF op = "blind" THEN Onward(c, "yes", call'[c]) ELSE Stays(call'[c], call[c]) /\ call'[c].sent
         /\ \E a \in Answer(step(c)), delay \in BOOLEAN :
               /\ Taken(c, a, delay)
               /\ faults' = IF delay THEN faults + 1 ELSE faults
         /\ faults' \in 0..MaxFaults
  <1>1. /\ call[c].on /\ call[c].todo # <<>> /\ ~call[c].sent /\ step(c).op = op /\ conn = Nobody
        /\ conn' = (IF op = "blind" THEN Nobody ELSE c)
    BY DEF write, ready
  <1>2. PICK delay \in BOOLEAN : deliver(c, delay) /\ faults' = (IF delay THEN faults + 1 ELSE faults)
    BY DEF write
  <1>3. faults' \in 0..MaxFaults
    <2>1. faults \in 0..MaxFaults /\ (faults' = faults \/ (faults < MaxFaults /\ faults' = faults + 1))
      BY DEF write, TypeOK
    <2> QED BY <2>1, ConstantTypes
  <1> DEFINE s == step(c)
             acc(a) == a = <<>> \/ Head(a) = "y"
             now(a) == IF acc(a) \/ s.does = "askSouth" THEN Obey(s) ELSE mnt
             bytes(a) == Chars(a, mnt.ver)
             next == IF s.op = "blind" THEN after(c, "yes") ELSE [call[c] EXCEPT !.sent = TRUE]
             did(a) == IF acc(a) /\ s.does \in {"status", "halt"} THEN now(a).ver ELSE call[c].did
  <1>4. PICK a \in Answer(step(c)) :
           /\ mnt' = now(a) /\ mnt' \in MountType
           /\ late' = (IF delay \/ late # <<>> THEN late \o bytes(a) ELSE late) /\ late' \in Seq(Char)
           /\ line' = (IF delay \/ late # <<>> THEN line ELSE line \o bytes(a)) /\ line' \in Seq(Char)
           /\ user' = (IF (acc(a) /\ s.arg = "user") \/ (~acc(a) /\ restores(s)) THEN now(a).corr ELSE user)
           /\ user' \in BOOLEAN
           /\ loose' = (loose \/ delay \/ (s.reply = "date" /\ Len(a) > 1))
           /\ call' = [call EXCEPT ![c] = [next EXCEPT !.did = did(a)]]
           /\ next \in CallType /\ did(a) \in Nat /\ [next EXCEPT !.did = did(a)] \in CallType
    BY <1>1, <1>2, Delivered, Zenon
  <1>5. call \in [Client -> CallType] /\ call[c] \in CallType
    BY DEF TypeOK
  <1>6. s \in StepType
    BY <1>1, <1>5, After
  <1> HIDE DEF acc, now, bytes
  <1> DEFINE n == did(a)
             r == [next EXCEPT !.did = n]
  <1>7. /\ r.did = n /\ r.todo = next.todo /\ r.sent = next.sent /\ r.on = next.on /\ r.base = next.base
        /\ r.left = next.left /\ r.failed = next.failed /\ r.fix = next.fix /\ r.got = next.got
        /\ r.seen = next.seen
    <2>1. next \in CallType /\ n \in Nat
      BY <1>4
    <2> HIDE DEF next, n
    <2> QED BY <2>1 DEF CallType
  <1>8. /\ next.fix = call[c].fix /\ next.got = call[c].got /\ next.seen = call[c].seen
        /\ IF op = "blind" THEN Onward(c, "yes", next) ELSE Stays(next, call[c]) /\ next.sent
    <2>1. CASE op = "blind"
      <3>1. next = after(c, "yes")
        BY <1>1, <2>1
      <3>2. Onward(c, "yes", next) /\ Carries(next, call[c])
        BY <1>1, <1>5, <3>1, AfterFields
      <3> QED BY <2>1, <3>2 DEF Carries
    <2>2. CASE op # "blind"
      <3>1. next = [call[c] EXCEPT !.sent = TRUE]
        BY <1>1, <2>2
      <3> QED BY <1>5, <2>2, <3>1 DEF CallType, Stays
    <2> QED BY <2>1, <2>2
  <1>9. r \in CallType /\ call' = [call EXCEPT ![c] = r]
    BY <1>4
  <1> HIDE DEF next, r, n
  <1>10. Others(c) /\ call'[c] = r
    BY <1>5, <1>9, Changed
  <1>11. /\ call'[c].fix = call[c].fix /\ call'[c].got = call[c].got /\ call'[c].seen = call[c].seen
         /\ IF op = "blind" THEN Onward(c, "yes", call'[c]) ELSE Stays(call'[c], call[c]) /\ call'[c].sent
    BY <1>7, <1>8, <1>9, <1>10 DEF Onward, Stays
  <1>12. Taken(c, a, delay)
    BY <1>4, <1>7, <1>10 DEF Taken, n, now, bytes, acc
  <1> QED BY <1>1, <1>2, <1>3, <1>6, <1>10, <1>11, <1>12

(***************************************************************************)
(* Type correctness.                                                       *)
(***************************************************************************)

(* The writes, and the steps that read. *)
LEMMA TypeWire ==
  ASSUME TypeOK, NEW c \in Client,
         \/ \E op \in Wire : write(c, op)
         \/ writeFails(c) \/ readByte(c) \/ readUntil(c) \/ readSlew(c) \/ timeout(c)
  PROVE  TypeOK'
  <1>1. CASE \E op \in Wire : write(c, op)
    <2>1. PICK op \in Wire : write(c, op)
      BY <1>1
    <2>2. \E a \in Answer(step(c)), delay \in BOOLEAN : Taken(c, a, delay)
      BY <2>1, WriteStep
    <2>3. line' \in Seq(Char) /\ late' \in Seq(Char) /\ mnt' \in MountType /\ user' \in BOOLEAN
      BY <2>2 DEF Taken
    <2>6. loose' \in BOOLEAN
      BY <2>2, Zenon DEF Taken
    <2>4. /\ Others(c) /\ faults' \in 0..MaxFaults /\ conn' = (IF op = "blind" THEN Nobody ELSE c)
      BY <2>1, WriteStep
    <2>5. UNCHANGED <<drv, phase, mu, cache, mem, floor>>
      BY <2>1 DEF write
    <2> QED BY <2>3, <2>4, <2>5, <2>6 DEF TypeOK, Others, MountType
  <1>2. CASE writeFails(c)
    <2>1. Others(c)
      BY <1>2, ErrorStep
    <2>2. UNCHANGED <<drv, phase, conn, mu, line, late, cache, mem, mnt, floor>>
      BY <1>2 DEF writeFails
    <2>3. faults' \in 0..MaxFaults
      BY <1>2, ConstantTypes DEF writeFails, TypeOK
    <2>4. user' \in BOOLEAN
      <3>1. mnt.corr \in BOOLEAN /\ user \in BOOLEAN
        BY DEF TypeOK
      <3>2. user' = IF restores(step(c)) THEN mnt.corr ELSE user
        BY <1>2 DEF writeFails
      <3> QED BY <3>1, <3>2
    <2>5. loose' \in BOOLEAN
      BY <1>2, Zenon DEF writeFails
    <2> QED BY <2>1, <2>2, <2>3, <2>4, <2>5 DEF TypeOK, Others
  <1>3. CASE readByte(c)
    <2>1. Others(c) /\ line' \in Seq(Char)
      BY <1>3, ReadByteStep
    <2>2. conn' = Nobody /\ UNCHANGED <<drv, phase, mu, late, cache, mem, mnt, floor, user, faults, loose>>
      BY <1>3 DEF readByte
    <2> QED BY <2>1, <2>2 DEF TypeOK, Others
  <1>4. CASE readUntil(c)
    <2>1. Others(c) /\ line' \in Seq(Char)
      BY <1>4, ReadUntilStep
    <2>2. conn' = Nobody /\ UNCHANGED <<drv, phase, mu, late, cache, mem, mnt, floor, user, faults, loose>>
      BY <1>4 DEF readUntil
    <2> QED BY <2>1, <2>2 DEF TypeOK, Others
  <1>5. CASE readSlew(c)
    <2>1. Others(c) /\ line' \in Seq(Char)
      BY <1>5, ReadSlewStep
    <2>2. conn' = Nobody /\ UNCHANGED <<drv, phase, mu, late, cache, mem, mnt, floor, user, faults, loose>>
      BY <1>5 DEF readSlew
    <2> QED BY <2>1, <2>2 DEF TypeOK, Others
  <1>6. CASE timeout(c)
    <2>1. Others(c)
      BY <1>6, ErrorStep
    <2>2. conn' = Nobody /\ line' = <<>> /\ UNCHANGED <<drv, phase, mu, late, cache, mem, mnt, floor, user, faults, loose>>
      BY <1>6 DEF timeout
    <2>3. line' \in Seq(Char)
      BY <2>2
    <2> QED BY <2>1, <2>2, <2>3 DEF TypeOK, Others
  <1> QED BY <1>1, <1>2, <1>3, <1>4, <1>5, <1>6

(* The steps with Mount.mu, and the return. *)
LEMMA TypeStatus ==
  ASSUME TypeOK, NEW c \in Client,
         status(c) \/ store(c) \/ invalidate(c) \/ askMoving(c) \/ check(c) \/ defer(c) \/ return(c)
  PROVE  TypeOK'
  <1>1. CASE status(c)
    <2>1. Others(c) /\ mu' \in {mu, c}
      BY <1>1, HitStep, MissStep
    <2>2. UNCHANGED <<drv, phase, conn, line, late, cache, mem, mnt, floor, user, faults, loose>>
      BY <1>1 DEF status
    <2> QED BY <2>1, <2>2 DEF TypeOK, Others
  <1>2. CASE store(c)
    <2>1. Others(c)
      BY <1>2, StoreStep
    <2>2. /\ UNCHANGED <<drv, phase, conn, line, late, mem, mnt, floor, user, faults, loose>>
          /\ mu' = Nobody /\ cache' = [left |-> TTL, v |-> call[c].seen]
      BY <1>2 DEF store
    <2>3. call[c].seen \in Nat
      BY DEF TypeOK, CallType
    <2>4. cache' \in [left : 0..TTL, v : Nat]
      BY <2>2, <2>3, ConstantTypes
    <2> QED BY <2>1, <2>2, <2>4 DEF TypeOK, Others
  <1>3. CASE invalidate(c)
    <2>1. Others(c)
      BY <1>3, DoneStep DEF invalidate
    <2>2. /\ UNCHANGED <<drv, phase, conn, mu, line, late, mem, mnt, floor, user, faults, loose>>
          /\ cache' = [cache EXCEPT !.left = 0]
      BY <1>3 DEF invalidate
    <2>4. cache' \in [left : 0..TTL, v : Nat]
      <3>1. cache \in [left : 0..TTL, v : Nat] /\ 0 \in 0..TTL
        BY ConstantTypes DEF TypeOK
      <3> QED BY <2>2, <3>1
    <2> QED BY <2>1, <2>2, <2>4 DEF TypeOK, Others
  <1>4. CASE askMoving(c)
    <2>1. Others(c)
      BY <1>4, AskMovingStep
    <2>2. UNCHANGED <<drv, phase, conn, mu, line, late, cache, mem, mnt, floor, user, faults, loose>>
      BY <1>4 DEF askMoving
    <2> QED BY <2>1, <2>2 DEF TypeOK, Others
  <1>5. CASE check(c)
    <2>1. Others(c)
      BY <1>5, CheckStep
    <2>2. UNCHANGED <<drv, phase, conn, mu, line, late, cache, mem, mnt, floor, user, faults, loose>>
      BY <1>5 DEF check
    <2> QED BY <2>1, <2>2 DEF TypeOK, Others
  <1>6. CASE defer(c)
    <2>1. Others(c)
      BY <1>6, DeferStep
    <2>2. UNCHANGED <<drv, phase, conn, mu, line, late, cache, mem, mnt, floor, user, faults, loose>>
      BY <1>6 DEF defer
    <2> QED BY <2>1, <2>2 DEF TypeOK, Others
  <1>7. CASE return(c)
    <2>1. /\ Others(c) /\ mu' \in {Nobody, mu} /\ phase' \in {phase, "closed", "open"}
          /\ floor' \in {floor, call[c].did}
      BY <1>7, ReturnStep
    <2>2. UNCHANGED <<drv, conn, line, late, cache, mem, mnt, user, faults, loose>>
      BY <1>7 DEF return
    <2>3. floor' \in Nat
      <3>1. floor \in Nat /\ call[c] \in CallType
        BY DEF TypeOK
      <3> QED BY <2>1, <3>1 DEF CallType
    <2> QED BY <2>1, <2>2, <2>3 DEF TypeOK, Others
  <1> QED BY <1>1, <1>2, <1>3, <1>4, <1>5, <1>6, <1>7

(* The steps that only change what the driver remembers. *)
Remembers(c) ==
    \/ setMoving(c) \/ stopMoving(c) \/ clearMoving(c) \/ setPulse(c) \/ setSouth(c) \/ setParked(c)

(* What the driver remembers changes under Mount.mu, nothing else does. *)
LEMMA RememberStep ==
  ASSUME TypeOK, NEW c \in Client, Remembers(c)
  PROVE  /\ Others(c) /\ Onward(c, "yes", call'[c]) /\ Carries(call'[c], call[c])
         /\ call[c].todo # <<>> /\ call[c].on /\ ~call[c].sent /\ mu = Nobody
         /\ step(c).op \in {"setMoving", "stopMoving", "clearMoving", "setPulse", "setSouth", "setParked"}
         /\ mem' \in MemType
         /\ UNCHANGED <<drv, phase, conn, mu, line, late, cache, mnt, floor, user, faults, loose>>
  <1> DEFINE ops == {"setMoving", "stopMoving", "clearMoving", "setPulse", "setSouth", "setParked"}
  <1>1. PICK op \in ops : \E now : remember(c, op, now)
    BY DEF Remembers, setMoving, stopMoving, clearMoving, setPulse, setSouth, setParked
  <1>2. /\ ready(c, op) /\ done(c) /\ mu = Nobody
        /\ UNCHANGED <<drv, phase, conn, mu, line, late, cache, mnt, floor, user, faults, loose>>
    BY <1>1 DEF remember
  <1>3. /\ Others(c) /\ Onward(c, "yes", call'[c]) /\ Carries(call'[c], call[c])
        /\ step(c).op = op /\ call[c].todo # <<>> /\ call[c].on /\ ~call[c].sent
    BY <1>2, DoneStep
  <1>4. mem \in MemType /\ step(c) \in StepType
    BY <1>3, After DEF TypeOK, MemType
  <1>5. mem' \in MemType
    <2>1. CASE setMoving(c) \/ stopMoving(c)
      <3>1. PICK b \in BOOLEAN : mem' = [mem EXCEPT !.moving[step(c).arg] = b]
        BY <2>1 DEF setMoving, stopMoving, remember
      <3> QED BY <1>4, <3>1 DEF MemType
    <2>2. CASE clearMoving(c)
      <3> DEFINE still == [a \in Axis |-> FALSE]
      <3>1. mem' = [mem EXCEPT !.moving = still]
        BY <2>2 DEF clearMoving, remember
      <3>2. still \in [Axis -> BOOLEAN]
        OBVIOUS
      <3> HIDE DEF still
      <3> QED BY <1>4, <3>1, <3>2 DEF MemType
    <2>3. CASE setPulse(c)
      <3>1. mem' = [mem EXCEPT !.pulse = IF @ < step(c).ticks THEN step(c).ticks ELSE @]
        BY <2>3 DEF setPulse, remember
      <3>2. step(c).ticks \in 0..MaxPulse
        BY <1>4 DEF StepType
      <3> QED BY <1>4, <3>1, <3>2 DEF MemType
    <2>4. CASE setSouth(c)
      <3>1. mem' = [mem EXCEPT !.south = (step(c).arg = "south")]
        BY <2>4 DEF setSouth, remember
      <3> QED BY <1>4, <3>1 DEF MemType
    <2>5. CASE setParked(c)
      <3>1. mem' = [mem EXCEPT !.parked = (step(c).arg = "parked")]
        BY <2>5 DEF setParked, remember
      <3> QED BY <1>4, <3>1 DEF MemType
    <2> QED BY <2>1, <2>2, <2>3, <2>4, <2>5 DEF Remembers
  <1> QED BY <1>2, <1>3, <1>5

(* The steps of one client and of none, in the groups the proofs go through. *)
LEMMA Groups ==
  ASSUME NEW c \in Client, Act(c)
  PROVE  \/ \E op \in Wire : write(c, op)
         \/ writeFails(c) \/ readByte(c) \/ readUntil(c) \/ readSlew(c) \/ timeout(c)
         \/ status(c) \/ store(c) \/ invalidate(c) \/ askMoving(c) \/ check(c) \/ defer(c) \/ return(c)
         \/ Remembers(c)
  BY DEF Act, Blind, Ack, AckByte, Get, Slew, Wire, Remembers

(* Every step keeps the types. *)
LEMMA TypeStep == TypeOK /\ [Next]_vars => TypeOK'
  <1> SUFFICES ASSUME TypeOK, [Next]_vars PROVE TypeOK'
    OBVIOUS
  <1>1. ASSUME NEW c \in Client, Start(c) PROVE TypeOK'
    <2>1. Others(c)
      BY <1>1, StartStep
    <2>2. UNCHANGED <<drv, phase, conn, mu, line, late, cache, mem, mnt, floor, user, faults, loose>>
      BY <1>1 DEF Start
    <2> QED BY <2>1, <2>2 DEF TypeOK, Others
  <1>2. ASSUME NEW c \in Client, Act(c) PROVE TypeOK'
    <2>1. CASE Remembers(c)
      <3>1. Others(c) /\ mem' \in MemType /\ UNCHANGED <<drv, phase, conn, mu, line, late, cache, mnt, floor, user, faults, loose>>
        BY <2>1, RememberStep
      <3> QED BY <3>1 DEF TypeOK, Others, MemType
    <2> QED BY <1>2, <2>1, Groups, TypeWire, TypeStatus
  <1>3. CASE arrive
    <2>1. line \o late \in Seq(Char) /\ <<>> \in Seq(Char)
      BY ConcatProperties DEF TypeOK
    <2> QED BY <1>3, <2>1 DEF TypeOK, arrive
  <1>4. CASE tick
    <2>0. cache \in [left : 0..TTL, v : Nat] /\ mem \in MemType /\ mnt \in MountType
      BY DEF TypeOK, MemType, MountType
    <2>1. cache' \in [left : 0..TTL, v : Nat]
      <3> DEFINE n == IF cache.left > 0 THEN cache.left - 1 ELSE 0
      <3>1. cache' = [cache EXCEPT !.left = n]
        BY <1>4 DEF tick
      <3>2. n \in 0..TTL
        BY <2>0, ConstantTypes
      <3> HIDE DEF n
      <3> QED BY <2>0, <3>1, <3>2
    <2>2. mem' \in MemType
      <3> DEFINE n == IF mem.pulse > 0 THEN mem.pulse - 1 ELSE 0
      <3>1. mem' = [mem EXCEPT !.pulse = n]
        BY <1>4 DEF tick
      <3>2. n \in 0..MaxPulse
        BY <2>0, ConstantTypes DEF MemType
      <3> HIDE DEF n
      <3> QED BY <2>0, <3>1, <3>2 DEF MemType
    <2>3. mnt' \in MountType
      <3> DEFINE n == IF mnt.pulse > 0 THEN mnt.pulse - 1 ELSE 0
      <3>1. mnt' = [mnt EXCEPT !.pulse = n]
        BY <1>4 DEF tick
      <3>2. n \in 0..MaxPulse
        BY <2>0, ConstantTypes DEF MountType
      <3> HIDE DEF n
      <3> QED BY <2>0, <3>1, <3>2 DEF MountType
    <2> QED BY <1>4, <2>1, <2>2, <2>3 DEF TypeOK, tick, MemType, MountType
  <1>5. CASE UNCHANGED vars
    BY <1>5 DEF TypeOK, vars
  <1> QED BY <1>1, <1>2, <1>3, <1>4, <1>5 DEF Next

(* Whatever the scripts of a driver, the answers of its mount and the faults *)
(* of the line, what a call has left to do is a script, and the driver       *)
(* remembers values of the right kind.                                       *)
THEOREM TypeCorrect == Spec => []TypeOK
  BY InitTyped, TypeStep, PTL DEF Spec

(***************************************************************************)
(* The locks.                                                              *)
(***************************************************************************)

(* What is left of a script inside status(): queries and checks that may    *)
(* stop, and the store.                                                     *)
Inner(s) == s.op \in Wire \cup {"check"} /\ ~skips(s)
Inside(t) ==
    \/ t = <<>>
    \/ \E k \in 1..Len(t) : t[k].op = "store" /\ \A j \in 1..(k - 1) : Inner(t[j])

(* Conn.mu is held by the call that waits for an answer, Mount.mu by a call  *)
(* inside status().                                                          *)
LockInv ==
    \A c \in Client :
        /\ conn = c <=> call[c].sent
        /\ call[c].sent => call[c].on /\ call[c].todo # <<>> /\ call[c].todo[1].op \in Wire \ {"blind"}
        /\ mu = c => call[c].on /\ Inside(call[c].todo)

(* Inside status() a step that is not the store leads on inside it. *)
LEMMA InsideGoes ==
  ASSUME NEW t \in Seq(StepType), t # <<>>, Inside(t), t[1].op # "store",
         NEW u \in Seq(StepType), NEW how, Goes(u, t, Way(t[1], how))
  PROVE  Inside(u)
  <1>1. PICK k \in 1..Len(t) : t[k].op = "store" /\ \A j \in 1..(k - 1) : Inner(t[j])
    BY DEF Inside
  <1>2. k # 1 /\ k \in Nat /\ k >= 2 /\ Len(t) \in Nat /\ k <= Len(t)
    BY <1>1
  <1>3. Inner(t[1])
    BY <1>1, <1>2
  <1>4. Way(t[1], how) # "skip"
    BY <1>3 DEF Inner, skips, Way
  <1>5. CASE Way(t[1], how) = "go"
    <2>1. Rest(u, t, 1)
      BY <1>5 DEF Goes
    <2>2. Len(u) = Len(t) - 1 /\ \A i \in 1..(Len(t) - 1) : u[i] = t[i + 1]
      BY <2>1 DEF Rest
    <2>3. k - 1 \in 1..Len(u) /\ u[k - 1] = t[k]
      BY <1>2, <2>2
    <2>4. \A j \in 1..((k - 1) - 1) : Inner(u[j])
      <3> TAKE j \in 1..((k - 1) - 1)
      <3>1. j + 1 \in 1..(k - 1) /\ u[j] = t[j + 1]
        BY <1>2, <2>2
      <3> QED BY <1>1, <3>1
    <2>5. u[k - 1].op = "store"
      BY <1>1, <2>3
    <2> QED BY <2>3, <2>4, <2>5 DEF Inside
  <1>6. CASE Way(t[1], how) # "go"
    BY <1>4, <1>6 DEF Goes, Inside
  <1> QED BY <1>5, <1>6

(* The first step inside status(). *)
LEMMA InsideFirst ==
  ASSUME NEW t \in Seq(StepType), t # <<>>, Inside(t)
  PROVE  t[1].op \in Wire \cup {"check", "store"}
  <1>1. PICK k \in 1..Len(t) : t[k].op = "store" /\ \A j \in 1..(k - 1) : Inner(t[j])
    BY DEF Inside
  <1>2. CASE k = 1
    BY <1>1, <1>2
  <1>3. CASE k # 1
    <2>1. 1 \in 1..(k - 1)
      BY <1>3
    <2> QED BY <1>1, <2>1 DEF Inner
  <1> QED BY <1>2, <1>3

(* status() puts a script inside it. *)
LEMMA FetchInside ==
  ASSUME NEW d \in Drivers, NEW t \in Seq(StepType)
  PROVE  Inside(Fetch[d] \o t) /\ Fetch[d] \o t # <<>>
  <1> DEFINE f == Fetch[d]
             n == Len(f)
  <1>1. f \in Seq(StepType) /\ Fetches(f)
    BY ScriptTypes, FetchAssumption
  <1> HIDE DEF f
  <1>2. n \in Nat /\ n >= 1 /\ f[n].op = "store" /\ \A i \in 1..(n - 1) : Inner(f[i])
    BY <1>1 DEF Fetches, Inner
  <1>3. /\ f \o t \in Seq(StepType) /\ Len(f \o t) = n + Len(t)
        /\ \A i \in 1..(n + Len(t)) : (f \o t)[i] = IF i <= n THEN f[i] ELSE t[i - n]
    BY <1>1, ConcatProperties
  <1>4. Len(t) \in Nat
    OBVIOUS
  <1> HIDE DEF n
  <1>5. n \in 1..Len(f \o t) /\ (f \o t)[n] = f[n] /\ \A i \in 1..(n - 1) : (f \o t)[i] = f[i]
    BY <1>2, <1>3, <1>4
  <1>6. Inside(f \o t)
    BY <1>2, <1>5 DEF Inside
  <1>7. f \o t # <<>>
    BY <1>3, <1>5
  <1> QED BY <1>6, <1>7 DEF f

(* At the start nobody holds a lock. *)
LEMMA LockInit == Init => LockInv
  <1> SUFFICES ASSUME Init, NEW c \in Client
               PROVE  conn # c /\ mu # c /\ ~call[c].sent
    BY DEF LockInv
  <1>1. conn = Nobody /\ mu = Nobody /\ Nobody \notin Client
    BY ConstantTypes, Zenon DEF Init
  <1>2. PICK e \in Commander, t \in Open[drv] :
           call = [d \in Client |->
                     IF d = e THEN [Idle(MaxCalls[d]) EXCEPT !.on = TRUE, !.todo = t]
                     ELSE Idle(MaxCalls[d])]
    BY DEF Init
  <1>3. call[c] = Idle(MaxCalls[c]) \/ call[c] = [Idle(MaxCalls[c]) EXCEPT !.on = TRUE, !.todo = t]
    BY <1>2, Zenon
  <1>4. ~call[c].sent
    <2> DEFINE i == Idle(MaxCalls[c])
    <2>1. i \in CallType /\ ~i.sent
      BY ConstantTypes, IdleTyped
    <2> HIDE DEF i
    <2>2. call[c] = i \/ call[c] = [i EXCEPT !.on = TRUE, !.todo = t]
      BY <1>3 DEF i
    <2> QED BY <2>1, <2>2 DEF CallType
  <1> QED BY <1>1, <1>4

(* A step of one client leaves the others as they are. *)
LEMMA LockOthers ==
  ASSUME LockInv, NEW c \in Client, Others(c),
         \A d \in Client : d # c => (conn' = d <=> conn = d) /\ (mu' = d => mu = d),
         conn' = c <=> call'[c].sent,
         call'[c].sent => call'[c].on /\ call'[c].todo # <<>> /\ call'[c].todo[1].op \in Wire \ {"blind"},
         mu' = c => call'[c].on /\ Inside(call'[c].todo)
  PROVE  LockInv'
  BY DEF LockInv, Others

(* A step inside the script that takes or releases no lock of Mount. *)
LEMMA LockMoves ==
  ASSUME TypeOK, LockInv, NEW c \in Client, NEW how, Others(c), Onward(c, how, call'[c]),
         call[c].on, call[c].todo # <<>>, mu' = mu,
         mu = c => step(c).op # "store",
         (conn' = Nobody /\ conn \in {c, Nobody}) \/ (conn' = conn /\ ~call[c].sent)
  PROVE  LockInv'
  <1>0. Nobody \notin Client
    BY ConstantTypes
  <1>1. /\ call[c].todo \in Seq(StepType) /\ call'[c].todo \in Seq(StepType)
        /\ step(c) = call[c].todo[1] /\ Goes(call'[c].todo, call[c].todo, Way(step(c), how))
        /\ ~call'[c].sent /\ call'[c].on
    BY After DEF Onward, TypeOK, CallType
  <1>2. mu' = c => Inside(call'[c].todo)
    <2> SUFFICES ASSUME mu = c PROVE Inside(call'[c].todo)
      OBVIOUS
    <2>1. Inside(call[c].todo)
      BY DEF LockInv
    <2> QED BY <1>1, <2>1, InsideGoes
  <1>3. conn' # c
    BY <1>0 DEF LockInv
  <1>4. \A d \in Client : d # c => (conn' = d <=> conn = d)
    BY <1>0
  <1> QED BY <1>1, <1>2, <1>3, <1>4, LockOthers

(* Every step keeps LockInv. *)
LEMMA LockStep == TypeOK /\ LockInv /\ [Next]_vars => LockInv'
  <1> SUFFICES ASSUME TypeOK, LockInv, [Next]_vars PROVE LockInv'
    OBVIOUS
  <1>0. Nobody \notin Client
    BY ConstantTypes
  <1>1. ASSUME NEW c \in Client, Start(c) PROVE LockInv'
    <2>1. Others(c) /\ ~call[c].on /\ ~call'[c].sent
      BY <1>1, StartStep
    <2>2. conn' = conn /\ mu' = mu
      BY <1>1 DEF Start
    <2>3. conn # c /\ mu # c
      BY <2>1 DEF LockInv
    <2> QED BY <2>1, <2>2, <2>3, LockOthers
  <1>2. ASSUME NEW c \in Client, NEW op \in Wire, write(c, op) PROVE LockInv'
    <2>1. /\ Others(c) /\ call[c].on /\ call[c].todo # <<>> /\ ~call[c].sent /\ conn = Nobody
          /\ step(c).op = op /\ conn' = (IF op = "blind" THEN Nobody ELSE c)
          /\ IF op = "blind" THEN Onward(c, "yes", call'[c]) ELSE Stays(call'[c], call[c]) /\ call'[c].sent
      BY <1>2, WriteStep
    <2>2. mu' = mu /\ op # "store"
      BY <1>2 DEF write, Wire
    <2>3. CASE op = "blind"
      BY <2>1, <2>2, <2>3, LockMoves
    <2>4. CASE op # "blind"
      <3>1. conn' = c /\ call'[c].sent /\ call'[c].on /\ call'[c].todo = call[c].todo
        BY <2>1, <2>4 DEF Stays
      <3>4. call[c].todo[1].op = op
        BY <2>1, After DEF TypeOK
      <3>2. mu = c => Inside(call'[c].todo)
        BY <3>1 DEF LockInv
      <3>3. \A d \in Client : d # c => (conn' = d <=> conn = d)
        BY <1>0, <2>1, <3>1
      <3> QED BY <2>1, <2>2, <2>4, <3>1, <3>2, <3>3, <3>4, LockOthers
    <2> QED BY <2>3, <2>4
  <1>3. ASSUME NEW c \in Client, writeFails(c) PROVE LockInv'
    <2>1. Others(c) /\ Onward(c, "err", call'[c])
      BY <1>3, ErrorStep
    <2>2. /\ conn' = conn /\ mu' = mu /\ call[c].on /\ call[c].todo # <<>> /\ ~call[c].sent
          /\ step(c).op # "store"
      BY <1>3 DEF writeFails, ready, Wire
    <2> QED BY <2>1, <2>2, LockMoves
  <1>4. ASSUME NEW c \in Client, readByte(c) \/ readUntil(c) \/ readSlew(c) \/ timeout(c) PROVE LockInv'
    <2>1. Others(c) /\ \E how \in {"yes", "no", "err"} : Onward(c, how, call'[c])
      BY <1>4, ReadByteStep, ReadUntilStep, ReadSlewStep, ErrorStep
    <2>2. waits(c) /\ conn' = Nobody /\ mu' = mu
      BY <1>4 DEF readByte, readUntil, readSlew, timeout, starved
    <2>3. call[c].on /\ call[c].todo # <<>> /\ call[c].sent /\ conn = c
      BY <2>2 DEF waits, LockInv
    <2>4. step(c).op # "store"
      <3>1. step(c) = call[c].todo[1]
        BY <2>3, After DEF TypeOK
      <3> QED BY <2>3, <3>1 DEF LockInv, Wire
    <2>5. PICK how \in {"yes", "no", "err"} : Onward(c, how, call'[c])
      BY <2>1
    <2>6. conn' = Nobody /\ conn \in {c, Nobody}
      BY <2>2, <2>3
    <2>7. Others(c) /\ call[c].on /\ call[c].todo # <<>> /\ mu' = mu
      BY <2>1, <2>2, <2>3
    <2> QED BY <2>4, <2>5, <2>6, <2>7, LockMoves
  <1>5. ASSUME NEW c \in Client, status(c) PROVE LockInv'
    <2>1. call[c].on /\ call[c].todo # <<>> /\ ~call[c].sent /\ mu = Nobody /\ conn' = conn /\ step(c).op = "status"
      BY <1>5 DEF status, ready
    <2>2. CASE cache.left > 0
      <3>1. Others(c) /\ Onward(c, "yes", call'[c]) /\ mu' = mu
        BY <1>5, <2>2, HitStep
      <3> QED BY <2>1, <3>1, LockMoves
    <2>3. CASE ~(cache.left > 0)
      <3>1. /\ Others(c) /\ mu' = c /\ call'[c].todo = Fetch[drv] \o Tail(call[c].todo)
            /\ call'[c].on = call[c].on /\ call'[c].sent = call[c].sent
        BY <1>5, <2>3, MissStep
      <3>2. drv \in Drivers /\ Tail(call[c].todo) \in Seq(StepType)
        BY <2>1, First DEF TypeOK, CallType
      <3>3. Inside(call'[c].todo)
        BY <3>1, <3>2, FetchInside
      <3>4. conn # c
        BY <2>1 DEF LockInv
      <3>5. ~call'[c].sent /\ conn' # c /\ call'[c].on
        BY <2>1, <3>1, <3>4
      <3>6. \A d \in Client : d # c => (conn' = d <=> conn = d) /\ (mu' = d => mu = d)
        BY <2>1, <3>1
      <3> QED BY <3>1, <3>3, <3>5, <3>6, LockOthers
    <2> QED BY <2>2, <2>3
  <1>6. ASSUME NEW c \in Client, store(c) PROVE LockInv'
    <2>1. /\ Others(c) /\ Onward(c, "yes", call'[c]) /\ mu' = Nobody /\ conn' = conn /\ ~call[c].sent
      BY <1>6, StoreStep DEF store, ready
    <2>2. ~call'[c].sent /\ conn' # c
      BY <2>1 DEF Onward, LockInv
    <2> QED BY <1>0, <2>1, <2>2, LockOthers
  <1>7. ASSUME NEW c \in Client, invalidate(c) \/ Remembers(c) \/ check(c) \/ defer(c) PROVE LockInv'
    <2>1. /\ Others(c) /\ \E how \in {"yes", "no"} : Onward(c, how, call'[c])
          /\ call[c].on /\ call[c].todo # <<>> /\ ~call[c].sent /\ mu' = mu /\ conn' = conn
          /\ step(c).op # "store"
      <3>1. CASE invalidate(c)
        BY <3>1, DoneStep DEF invalidate
      <3>2. CASE Remembers(c)
        BY <3>2, RememberStep
      <3>3. CASE check(c)
        BY <3>3, CheckStep DEF check, ready
      <3>4. CASE defer(c)
        BY <3>4, DeferStep DEF defer, ready
      <3> QED BY <1>7, <3>1, <3>2, <3>3, <3>4
    <2> QED BY <2>1, LockMoves
  <1>8. ASSUME NEW c \in Client, askMoving(c) PROVE LockInv'
    <2>1. /\ call[c].on /\ call[c].todo # <<>> /\ ~call[c].sent /\ mu' = mu /\ conn' = conn
          /\ step(c).op # "store" /\ mu = Nobody
      BY <1>8 DEF askMoving, ready
    <2>2. Others(c) /\ (Onward(c, "yes", call'[c]) \/ ~call'[c].sent)
      BY <1>8, AskMovingStep
    <2>3. CASE Onward(c, "yes", call'[c])
      BY <2>1, <2>2, <2>3, LockMoves
    <2>4. CASE ~call'[c].sent
      <3>1. conn' # c /\ mu' # c
        BY <1>0, <2>1 DEF LockInv
      <3> QED BY <2>1, <2>2, <2>4, <3>1, LockOthers
    <2> QED BY <2>2, <2>3, <2>4
  <1>9. ASSUME NEW c \in Client, return(c) PROVE LockInv'
    <2>1. /\ Others(c) /\ call[c].todo = <<>> /\ mu' = (IF mu = c THEN Nobody ELSE mu)
          /\ (call'[c].sent = call[c].sent \/ ~call'[c].sent)
      BY <1>9, ReturnStep
    <2>2. ~call[c].sent /\ ~call'[c].sent /\ conn' = conn
      BY <1>9, <2>1 DEF LockInv, return
    <2>3. conn' # c /\ mu' # c
      BY <1>0, <2>1, <2>2 DEF LockInv
    <2>4. \A d \in Client : d # c => (mu' = d => mu = d)
      BY <1>0, <2>1
    <2> QED BY <2>1, <2>2, <2>3, <2>4, LockOthers
  <1>10. CASE arrive \/ tick \/ UNCHANGED vars
    BY <1>10 DEF arrive, tick, vars, LockInv
  <1>11. ASSUME NEW c \in Client, Act(c) PROVE LockInv'
    BY <1>2, <1>3, <1>4, <1>5, <1>6, <1>7, <1>8, <1>9, <1>11, Groups
  <1> QED BY <1>1, <1>10, <1>11 DEF Next

(* LockInv is an invariant. *)
LEMMA LockInvariant == Spec => [](TypeOK /\ LockInv)
  BY InitTyped, TypeStep, LockInit, LockStep, PTL DEF Spec

(* No lock is lost, and no holder of Mount.mu has to wait for Mount.mu: the  *)
(* calls of a driver cannot wait for each other, however many they are.      *)
THEOREM LocksSafe == Spec => []LocksPass
  <1>1. TypeOK /\ LockInv => LocksPass
    <2> SUFFICES ASSUME TypeOK, LockInv PROVE LocksPass
      OBVIOUS
    <2>1. conn # Nobody => waits(conn)
      BY DEF TypeOK, LockInv, waits
    <2>2. ASSUME mu # Nobody, call[mu].todo # <<>> PROVE step(mu).op \in Wire \cup {"check", "store"}
      <3>1. mu \in Client /\ Inside(call[mu].todo) /\ call[mu].todo \in Seq(StepType)
        BY <2>2 DEF TypeOK, LockInv, CallType
      <3>2. step(mu) = call[mu].todo[1]
        BY <2>2, <3>1, First DEF step
      <3> QED BY <2>2, <3>1, <3>2, InsideFirst
    <2>3. mu # Nobody => call[mu].on
      BY DEF TypeOK, LockInv
    <2> QED BY <2>1, <2>2, <2>3 DEF LocksPass
  <1> QED BY <1>1, LockInvariant, PTL

(***************************************************************************)
(* What becomes of the script of client d: it stays, it is a new one of    *)
(* the driver's, a rest of itself, one with the queries of status() in     *)
(* front, the restore that was deferred, or nothing.                       *)
(***************************************************************************)
Becomes(d, u, t) ==
    \/ u = t \/ u = <<>>
    \/ u \in (IF d \in Commander THEN Scripts(drv) ELSE Polls[drv]) /\ ~call[d].on
    \/ u = <<SpeedCorrectionOn>> /\ call[d].fix
    \/ t # <<>> /\ \E way : Goes(u, t, way)
    \/ t # <<>> /\ t[1].op = "status" /\ u = Fetch[drv] \o Tail(t)

(* A restore is due when one was, or when the call has just come to it. *)
Defers(d) == call[d].fix \/ (call[d].todo # <<>> /\ call[d].todo[1].op = "restore")

(* A step that moves on in its script. *)
LEMMA OnwardBecomes ==
  ASSUME NEW c \in Client, Others(c), call[c].todo # <<>>, NEW how, Onward(c, how, call'[c])
  PROVE  \A d \in Client : Becomes(d, call'[d].todo, call[d].todo)
  BY DEF Others, Onward, Becomes

(* What every step makes of every script. *)
LEMMA Scripted ==
  ASSUME TypeOK, [Next]_vars
  PROVE  /\ drv' = drv
         /\ \A d \in Client : /\ Becomes(d, call'[d].todo, call[d].todo)
                              /\ call'[d].fix => Defers(d)
  <1> DEFINE Goal == /\ drv' = drv
                     /\ \A d \in Client : /\ Becomes(d, call'[d].todo, call[d].todo)
                                          /\ call'[d].fix => Defers(d)
  <1>0. call \in [Client -> CallType]
    BY DEF TypeOK
  <1>1. ASSUME NEW c \in Client, Start(c) PROVE Goal
    <2>1. call'[c].todo \in (IF c \in Commander THEN Scripts(drv) ELSE Polls[drv])
      BY <1>1, StartStep
    <2> QED BY <1>1, <2>1, StartStep DEF Start, Others, Becomes, Defers
  <1>2. ASSUME NEW c \in Client, NEW op \in Wire, write(c, op) PROVE Goal
    <2>1. /\ Others(c) /\ call[c].todo # <<>> /\ drv' = drv /\ call'[c].fix = call[c].fix
          /\ IF op = "blind" THEN Onward(c, "yes", call'[c]) ELSE Stays(call'[c], call[c]) /\ call'[c].sent
      BY <1>2, WriteStep DEF write
    <2>2. \A d \in Client : call'[d].fix => Defers(d)
      BY <2>1 DEF Others, Defers
    <2> QED BY <2>1, <2>2, OnwardBecomes DEF Stays, Becomes, Others
  <1>3. ASSUME NEW c \in Client, writeFails(c) \/ timeout(c) PROVE Goal
    <2>1. Others(c) /\ Onward(c, "err", call'[c]) /\ call[c].todo # <<>> /\ drv' = drv
      BY <1>3, ErrorStep DEF writeFails, timeout, ready, starved, waits
    <2>2. \A d \in Client : call'[d].fix => Defers(d)
      BY <1>3, ErrorStep DEF Others, Carries, Defers
    <2> QED BY <2>1, <2>2, OnwardBecomes
  <1>4. ASSUME NEW c \in Client, readByte(c) \/ readUntil(c) \/ readSlew(c) PROVE Goal
    <2>1. Others(c) /\ call'[c].fix = call[c].fix /\ \E how \in {"yes", "no"} : Onward(c, how, call'[c])
      BY <1>4, ReadByteStep, ReadUntilStep, ReadSlewStep DEF Carries
    <2>2. call[c].todo # <<>> /\ drv' = drv
      BY <1>4 DEF readByte, readUntil, readSlew, waits
    <2>3. \A d \in Client : call'[d].fix => Defers(d)
      BY <2>1 DEF Others, Defers
    <2> QED BY <2>1, <2>2, <2>3, OnwardBecomes
  <1>5. ASSUME NEW c \in Client, status(c) PROVE Goal
    <2>1. call[c].todo # <<>> /\ drv' = drv /\ step(c).op = "status"
      BY <1>5 DEF status, ready
    <2>2. step(c) = call[c].todo[1]
      BY <1>0, <2>1, After
    <2>3. CASE cache.left > 0
      <3>1. \A d \in Client : call'[d].fix => Defers(d)
        BY <1>5, <2>3, HitStep DEF Others, Defers
      <3> QED BY <1>5, <2>1, <2>3, <3>1, HitStep, OnwardBecomes
    <2>4. CASE ~(cache.left > 0)
      BY <1>5, <2>1, <2>2, <2>4, MissStep DEF Others, Becomes, Defers
    <2> QED BY <2>3, <2>4
  <1>6. ASSUME NEW c \in Client, store(c) \/ invalidate(c) \/ Remembers(c) \/ check(c) \/ defer(c) PROVE Goal
    <2>1. Others(c) /\ \E how \in {"yes", "no"} : Onward(c, how, call'[c])
      BY <1>6, StoreStep, DoneStep, RememberStep, CheckStep, DeferStep DEF invalidate
    <2>2. call[c].todo # <<>>
      BY <1>6, RememberStep DEF store, invalidate, check, defer, ready
    <2>3. drv' = drv
      BY <1>6, RememberStep DEF store, invalidate, check, defer
    <2>4. call'[c].fix => Defers(c)
      <3>1. CASE defer(c)
        <4>1. step(c).op = "restore" /\ step(c) = call[c].todo[1]
          BY <1>0, <2>2, <3>1, After DEF defer, ready
        <4> QED BY <2>2, <4>1 DEF Defers
      <3>2. CASE ~defer(c)
        BY <1>6, <3>2, StoreStep, DoneStep, RememberStep, CheckStep DEF invalidate, Carries, Defers
      <3> QED BY <3>1, <3>2
    <2>5. \A d \in Client : call'[d].fix => Defers(d)
      BY <2>1, <2>4 DEF Others, Defers
    <2> QED BY <2>1, <2>2, <2>3, <2>5, OnwardBecomes
  <1>7. ASSUME NEW c \in Client, askMoving(c) PROVE Goal
    <2>1. call[c].todo # <<>> /\ drv' = drv
      BY <1>7 DEF askMoving, ready
    <2>2. Others(c) /\ Carries(call'[c], call[c]) /\ (Onward(c, "yes", call'[c]) \/ call'[c].todo = <<>>)
      BY <1>7, AskMovingStep
    <2>3. \A d \in Client : call'[d].fix => Defers(d)
      BY <2>2 DEF Others, Carries, Defers
    <2> QED BY <2>1, <2>2, <2>3, OnwardBecomes DEF Others, Becomes
  <1>8. ASSUME NEW c \in Client, return(c) PROVE Goal
    <2>1. /\ Others(c) /\ ~call'[c].fix
          /\ call'[c].todo = <<>> \/ (call'[c].todo = <<SpeedCorrectionOn>> /\ call[c].fix)
      BY <1>8, ReturnStep
    <2>2. drv' = drv
      BY <1>8 DEF return
    <2> QED BY <2>1, <2>2 DEF Others, Becomes, Defers
  <1>9. ASSUME NEW c \in Client, Act(c) PROVE Goal
    BY <1>2, <1>3, <1>4, <1>5, <1>6, <1>7, <1>8, <1>9, Groups
  <1>10. CASE arrive \/ tick \/ UNCHANGED vars
    BY <1>10 DEF arrive, tick, vars, Becomes, Defers
  <1> QED BY <1>1, <1>9, <1>10 DEF Next

(***************************************************************************)
(* Answers and their readers.                                              *)
(***************************************************************************)
FitInv == \A c \in Client : AllFit(call[c].todo)

(* A rest of a script whose steps fit has steps that fit. *)
LEMMA RestFits ==
  ASSUME NEW t \in Seq(StepType), NEW u, NEW way, AllFit(t), t # <<>>, Goes(u, t, way)
  PROVE  AllFit(u)
  <1>1. u = <<>> \/ \E n \in Nat : Rest(u, t, n)
    <2>1. t[1] \in StepType
      BY First
    <2>2. t[1].skip + 1 \in Nat
      BY <2>1 DEF StepType
    <2> QED BY <2>2 DEF Goes
  <1>2. CASE u = <<>>
    BY <1>2 DEF AllFit
  <1>3. ASSUME NEW n \in Nat, Rest(u, t, n) PROVE AllFit(u)
    <2> SUFFICES ASSUME NEW i \in 1..Len(u) PROVE Fits(u[i])
      BY DEF AllFit
    <2>1. Len(t) \in Nat /\ Len(u) = Len(t) - n /\ n <= Len(t) /\ \A j \in 1..(Len(t) - n) : u[j] = t[j + n]
      BY <1>3 DEF Rest
    <2>2. u[i] = t[i + n] /\ i + n \in 1..Len(t)
      BY <2>1
    <2> QED BY <2>2 DEF AllFit
  <1> QED BY <1>1, <1>2, <1>3

(* So has a script with the queries of status() in front. *)
LEMMA FetchFits ==
  ASSUME NEW d \in Drivers, NEW t \in Seq(StepType), AllFit(t)
  PROVE  AllFit(Fetch[d] \o t)
  <1> DEFINE f == Fetch[d]
  <1>1. f \in Seq(StepType) /\ AllFit(f)
    BY ScriptTypes, FitAssumption
  <1> HIDE DEF f
  <1>2. /\ Len(f \o t) = Len(f) + Len(t) /\ Len(f) \in Nat /\ Len(t) \in Nat
        /\ \A i \in 1..(Len(f) + Len(t)) : (f \o t)[i] = IF i <= Len(f) THEN f[i] ELSE t[i - Len(f)]
    BY <1>1, ConcatProperties
  <1>3. ASSUME NEW i \in 1..Len(f \o t) PROVE Fits((f \o t)[i])
    <2>1. CASE i <= Len(f)
      <3>1. i \in 1..Len(f) /\ (f \o t)[i] = f[i]
        BY <1>2, <1>3, <2>1
      <3> QED BY <1>1, <3>1 DEF AllFit
    <2>2. CASE ~(i <= Len(f))
      <3>1. i - Len(f) \in 1..Len(t) /\ (f \o t)[i] = t[i - Len(f)]
        BY <1>2, <1>3, <2>2
      <3> QED BY <3>1 DEF AllFit
    <2> QED BY <2>1, <2>2
  <1>4. AllFit(f \o t)
    BY <1>3 DEF AllFit
  <1> QED BY <1>4 DEF f

(* Every step keeps commands and primitives in agreement. *)
LEMMA FitStep == TypeOK /\ FitInv /\ [Next]_vars => FitInv'
  <1> SUFFICES ASSUME TypeOK, FitInv, [Next]_vars, NEW c \in Client PROVE AllFit(call'[c].todo)
    BY DEF FitInv
  <1> DEFINE t == call[c].todo
             u == call'[c].todo
  <1>1. t \in Seq(StepType) /\ AllFit(t) /\ drv \in Drivers
    BY DEF TypeOK, CallType, FitInv
  <1>2. Becomes(c, u, t)
    BY Scripted
  <1> SUFFICES AllFit(u)
    OBVIOUS
  <1> HIDE DEF u, t
  <1>3. CASE u = <<>>
    BY <1>3 DEF AllFit
  <1>4. CASE u \in Scripts(drv) \/ u \in Polls[drv]
    BY <1>1, <1>4, FitAssumption DEF Scripts
  <1>5. CASE u = <<SpeedCorrectionOn>>
    <2>1. Fits(SpeedCorrectionOn)
      BY DEF Fits, SpeedCorrectionOn
    <2> QED BY <1>5, <2>1, RestoreTyped DEF AllFit
  <1>6. ASSUME t # <<>>, NEW way, Goes(u, t, way) PROVE AllFit(u)
    BY <1>1, <1>6, RestFits
  <1>7. CASE t # <<>> /\ u = Fetch[drv] \o Tail(t)
    <2>1. Tail(t) \in Seq(StepType) /\ Rest(Tail(t), t, 1)
      BY <1>1, <1>7, First
    <2>2. AllFit(Tail(t))
      BY <1>1, <1>7, <2>1, RestFits DEF Goes
    <2> QED BY <1>1, <1>7, <2>1, <2>2, FetchFits
  <1> QED BY <1>1, <1>2, <1>3, <1>4, <1>5, <1>6, <1>7 DEF Becomes

(* q is exactly what the primitive of step s reads. *)
Whole(s, q) ==
    /\ s.op \in {"ack", "byte"} => Len(q) = 1
    /\ s.op = "get" => Len(q) >= 1 /\ q[Len(q)].c = "#" /\ \A i \in 1..(Len(q) - 1) : q[i].c # "#"
    /\ s.op = "slew" => \/ Len(q) = 1 /\ q[1].c = "y"
                        \/ Len(q) = 3 /\ q[1].c # "y" /\ q[2].c # "#" /\ q[3].c = "#"

(* What the mount printed before the driver was opened is still there, and  *)
(* the next thing the driver does is to read a text.                        *)
Printed ==
    /\ phase = "opening" /\ (\E j \in Junk[drv] : j # <<>>)
    /\ \A i \in 1..Len(line) : line[i].c # "#"
    /\ \A c \in Client : call[c].on => call[c].todo # <<>> /\ call[c].todo[1].op = "get"

(* While the stream is sound the line holds the answer that is being read, and nothing *)
(* when none is.                                                            *)
WireInv ==
    ~loose =>
        /\ late = <<>>
        /\ conn = Nobody => line = <<>> \/ Printed
        /\ \A c \in Client : call[c].sent => Whole(call[c].todo[1], line)

(* The answer to a command, after what was on the line, fits its reader. *)
LEMMA AnswerWhole ==
  ASSUME TypeOK, NEW s \in StepType, Fits(s), NEW a \in Answer(s), s.op \in Wire \ {"blind"},
         \/ line = <<>>
         \/ s.op = "get" /\ \A i \in 1..Len(line) : line[i].c # "#",
         ~(s.reply = "date" /\ Len(a) > 1), NEW q, q = line \o Chars(a, mnt.ver)
  PROVE  Whole(s, q)
  <1> DEFINE v == mnt.ver
             b == Chars(a, v)
  <1>1. a \in Seq({"y", "n", "#"}) /\ v \in Nat /\ line \in Seq(Char)
    BY AnswerShapes DEF TypeOK
  <1>3. q = line \o b
    OBVIOUS
  <1> HIDE DEF v
  <1>2. b \in Seq(Char) /\ Len(b) = Len(a) /\ \A i \in 1..Len(a) : b[i].c = a[i]
    <2>1. /\ Chars(a, v) \in Seq(Char) /\ Len(Chars(a, v)) = Len(a)
          /\ \A i \in 1..Len(a) : Chars(a, v)[i].c = a[i] /\ Chars(a, v)[i].v = v
      BY ONLY <1>1, CharsTyped, Zenon
    <2> QED BY ONLY <2>1, Zenon
  <1> HIDE DEF b
  <1>4. /\ Len(q) = Len(line) + Len(b) /\ Len(line) \in Nat
        /\ \A i \in 1..(Len(line) + Len(b)) : q[i] = IF i <= Len(line) THEN line[i] ELSE b[i - Len(line)]
    <2>1. line \in Seq(Char) /\ b \in Seq(Char)
      BY <1>1, <1>2
    <2> QED BY ONLY <1>3, <2>1, ConcatProperties
  <1>5. CASE s.op \in {"ack", "byte"}
    <2>1. line = <<>> /\ Len(line) = 0
      BY <1>5
    <2>2. a = <<"y">> \/ a = <<"n">> \/ a = <<"y", "n", "#">>
      BY <1>5, AnswerShapes DEF Fits
    <2>3. Len(a) = 1
      <3>1. CASE a = <<"y", "n", "#">>
        <4>1. s.reply = "date"
          BY <1>5, <3>1, AnswerShapes DEF Fits
        <4>2. Len(a) = 3
          BY <3>1
        <4> QED BY <4>1, <4>2
      <3> QED BY <2>2, <3>1
    <2> QED BY <1>2, <1>4, <1>5, <2>1, <2>3 DEF Whole
  <1>6. CASE s.op = "get"
    <2>1. a = <<"y", "#">> \/ a = <<"n", "#">>
      BY <1>6, AnswerShapes DEF Fits
    <2>2. Len(a) = 2 /\ a[1] # "#" /\ a[2] = "#"
      BY <2>1
    <2>3. Len(q) = Len(line) + 2 /\ q[Len(q)] = b[2] /\ q[Len(line) + 1] = b[1]
      BY <1>2, <1>4, <2>2
    <2>4. b[2].c = "#" /\ b[1].c # "#"
      BY <1>2, <2>2
    <2>5. \A i \in 1..Len(line) : line[i].c # "#"
      BY <1>6
    <2>6. ASSUME NEW i \in 1..(Len(q) - 1) PROVE q[i].c # "#"
      <3>1. CASE i <= Len(line)
        <4>1. i \in 1..Len(line) /\ q[i] = line[i]
          BY <1>2, <1>4, <2>2, <2>6, <3>1
        <4> QED BY <2>5, <4>1
      <3>2. CASE ~(i <= Len(line))
        <4>1. i = Len(line) + 1
          BY <1>4, <2>3, <2>6, <3>2
        <4> QED BY <2>3, <2>4, <4>1
      <3> QED BY <3>1, <3>2
    <2> QED BY <1>4, <1>6, <2>3, <2>4, <2>6 DEF Whole
  <1>7. CASE s.op = "slew"
    <2>1. line = <<>> /\ Len(line) = 0
      BY <1>7
    <2>2. a = <<"y">> \/ a = <<"n", "n", "#">>
      BY <1>7, AnswerShapes DEF Fits
    <2>3. (Len(a) = 1 /\ a[1] = "y") \/ (Len(a) = 3 /\ a[1] = "n" /\ a[2] = "n" /\ a[3] = "#")
      BY <2>2
    <2>4. \A i \in 1..Len(a) : q[i].c = a[i]
      BY <1>2, <1>4, <2>1
    <2>5. Len(q) = Len(a)
      BY <1>2, <1>4, <2>1, <2>3
    <2> QED BY <1>7, <2>3, <2>4, <2>5 DEF Whole
  <1> QED BY <1>5, <1>6, <1>7 DEF Wire

(* The line is empty at the start, or holds what the mount has printed. *)
LEMMA WireInit == Init => FitInv /\ WireInv
  <1> SUFFICES ASSUME Init PROVE FitInv /\ WireInv
    OBVIOUS
  <1>1. TypeOK /\ LockInv
    BY InitTyped, LockInit
  <1>2. PICK j \in Junk[drv] : line = Chars(j, 0)
    BY DEF Init
  <1>3. j \in Seq({"y", "n"}) /\ drv \in Drivers
    BY ScriptTypes DEF Init
  <1>4. late = <<>> /\ phase = "opening" /\ conn = Nobody
    BY Zenon DEF Init
  <1>5. PICK e \in Commander, t \in Open[drv] :
           call = [d \in Client |->
                     IF d = e THEN [Idle(MaxCalls[d]) EXCEPT !.on = TRUE, !.todo = t]
                     ELSE Idle(MaxCalls[d])]
    BY DEF Init
  <1>6. ASSUME NEW c \in Client
        PROVE  (~call[c].on /\ call[c].todo = <<>>) \/ call[c].todo = t
    <2> DEFINE i == Idle(MaxCalls[c])
    <2>1. i \in CallType /\ ~i.on /\ i.todo = <<>>
      BY ConstantTypes, IdleTyped
    <2>2. call[c] = i \/ call[c] = [i EXCEPT !.on = TRUE, !.todo = t]
      BY <1>5, Zenon
    <2> HIDE DEF i
    <2> QED BY <2>1, <2>2 DEF CallType
  <1>7. t \in Scripts(drv)
    BY DEF Scripts
  <1>8. AllFit(t) /\ (j # <<>> => t # <<>> /\ t[1].op = "get")
    BY <1>3, <1>7, FitAssumption
  <1>9. FitInv
    <2>1. AllFit(<<>>)
      BY DEF AllFit
    <2> QED BY <1>6, <1>8, <2>1 DEF FitInv
  <1>10. \A i \in 1..Len(line) : line[i].c # "#"
    <2>1. \A i \in 1..Len(j) : j[i] # "#"
      BY <1>3
    <2>2. j \in Seq({"y", "n", "#"})
      <3>1. {"y", "n"} \subseteq {"y", "n", "#"}
        OBVIOUS
      <3> QED BY <1>3, <3>1, SeqMonotonic
    <2>3. Len(line) = Len(j) /\ \A i \in 1..Len(j) : line[i].c = j[i]
      BY <1>2, <2>2, CharsTyped
    <2> QED BY <2>1, <2>3
  <1>11. line = <<>> \/ j # <<>>
    <2> SUFFICES ASSUME j = <<>> PROVE line = <<>>
      OBVIOUS
    <2> QED BY <1>2 DEF Chars
  <1>12. line = <<>> \/ Printed
    BY <1>4, <1>6, <1>8, <1>10, <1>11 DEF Printed
  <1>13. \A c \in Client : ~call[c].sent
    BY <1>1, <1>4, ConstantTypes DEF LockInv
  <1> QED BY <1>4, <1>9, <1>12, <1>13 DEF WireInv

(* The holder of Conn.mu is the only one that waits. *)
LEMMA OneWaits ==
  ASSUME LockInv, NEW c \in Client, waits(c)
  PROVE  conn = c /\ \A d \in Client : d # c => ~call[d].sent
  BY DEF LockInv, waits

(* A step that sends and reads nothing. *)
LEMMA WireSilent ==
  ASSUME WireInv, LockInv, NEW c \in Client, Others(c), ~call[c].sent, ~call'[c].sent,
         UNCHANGED <<conn, line, late, loose>>,
         \/ phase = "open"
         \/ call[c].on /\ (call[c].todo = <<>> \/ call[c].todo[1].op # "get")
  PROVE  WireInv'
  <1> SUFFICES ASSUME ~loose
               PROVE  /\ late' = <<>>
                      /\ conn' = Nobody => line' = <<>>
                      /\ \A d \in Client : call'[d].sent => Whole(call'[d].todo[1], line')
    BY DEF WireInv
  <1>1. conn = Nobody => line = <<>>
    <2>1. ~Printed
      BY DEF Printed
    <2> QED BY <2>1 DEF WireInv
  <1>2. late = <<>>
    BY DEF WireInv
  <1>3. \A d \in Client : call'[d].sent => Whole(call'[d].todo[1], line')
    BY DEF WireInv, Others
  <1> QED BY <1>1, <1>2, <1>3

(* A read that leaves nothing. *)
LEMMA WireRead ==
  ASSUME WireInv, LockInv, NEW c \in Client, Others(c), waits(c), ~call'[c].sent,
         UNCHANGED <<late, loose>>, ~loose => line' = <<>>
  PROVE  WireInv'
  <1>1. \A d \in Client : ~call'[d].sent
    BY OneWaits DEF Others
  <1> QED BY <1>1 DEF WireInv

(* A write puts the answer of its own command on an empty line. *)
LEMMA WireWrite ==
  ASSUME TypeOK, LockInv, FitInv, WireInv, NEW c \in Client, NEW op \in Wire, write(c, op)
  PROVE  WireInv'
  <1> SUFFICES ASSUME ~loose'
               PROVE  /\ late' = <<>>
                      /\ conn' = Nobody => line' = <<>>
                      /\ \A d \in Client : call'[d].sent => Whole(call'[d].todo[1], line')
    BY DEF WireInv
  <1>1. /\ call[c].on /\ call[c].todo # <<>> /\ ~call[c].sent /\ step(c).op = op /\ conn = Nobody
        /\ conn' = (IF op = "blind" THEN Nobody ELSE c) /\ step(c) \in StepType /\ Others(c)
        /\ IF op = "blind" THEN Onward(c, "yes", call'[c]) ELSE Stays(call'[c], call[c]) /\ call'[c].sent
    BY WriteStep
  <1>2. PICK a \in Answer(step(c)), delay \in BOOLEAN : Taken(c, a, delay)
    BY WriteStep
  <1>3. ~loose /\ ~delay /\ ~(step(c).reply = "date" /\ Len(a) > 1)
    BY <1>2 DEF Taken
  <1>4. late = <<>> /\ (line = <<>> \/ Printed)
    BY <1>1, <1>3 DEF WireInv
  <1>5. late' = <<>> /\ line' = line \o Chars(a, mnt.ver)
    BY <1>2, <1>3, <1>4 DEF Taken
  <1>6. step(c) = call[c].todo[1] /\ call[c].todo \in Seq(StepType)
    BY <1>1, After DEF TypeOK, CallType
  <1>7. Fits(step(c))
    <2>1. 1 \in 1..Len(call[c].todo)
      BY <1>1, <1>6
    <2> QED BY <1>6, <2>1 DEF FitInv, AllFit
  <1>8. line = <<>> \/ (op = "get" /\ \A i \in 1..Len(line) : line[i].c # "#")
    BY <1>1, <1>4, <1>6 DEF Printed
  <1>9. \A d \in Client : d # c => ~call'[d].sent
    BY <1>1, ConstantTypes DEF LockInv, Others
  <1>10. CASE op = "blind"
    <2>1. a = <<>> /\ line = <<>>
      BY <1>1, <1>7, <1>8, <1>10, AnswerShapes DEF Fits
    <2>2. line' = <<>>
      <3>1. Chars(<<>>, mnt.ver) = <<>>
        BY DEF Chars
      <3> QED BY <1>5, <2>1, <3>1
    <2>3. ~call'[c].sent
      BY <1>1, <1>10 DEF Onward
    <2> QED BY <1>5, <1>9, <2>2, <2>3
  <1>11. CASE op # "blind"
    <2>1. Whole(step(c), line')
      BY <1>1, <1>3, <1>5, <1>7, <1>8, <1>11, AnswerWhole
    <2>2. call'[c].todo[1] = step(c) /\ conn' = c
      BY <1>1, <1>6, <1>11 DEF Stays
    <2>3. c # Nobody
      BY ConstantTypes
    <2> QED BY <1>5, <1>9, <2>1, <2>2, <2>3
  <1> QED BY <1>10, <1>11

(* Every step keeps WireInv. *)
LEMMA WireStep ==
  ASSUME TypeOK, LockInv, FitInv, WireInv, [Next]_vars
  PROVE  WireInv'
  <1>1. ASSUME NEW c \in Client, Start(c) PROVE WireInv'
    <2>1. Others(c) /\ ~call[c].on /\ phase = "open" /\ ~call'[c].sent
      BY <1>1, StartStep
    <2>2. ~call[c].sent
      BY <2>1 DEF LockInv
    <2>3. UNCHANGED <<conn, line, late, loose>>
      BY <1>1 DEF Start
    <2> QED BY <2>1, <2>2, <2>3, WireSilent
  <1>2. ASSUME NEW c \in Client, writeFails(c) PROVE WireInv'
    <2>1. /\ conn = Nobody /\ UNCHANGED <<conn, line, late>> /\ loose' = (loose \/ line # <<>>)
          /\ ~call[c].sent
      BY <1>2 DEF writeFails, ready
    <2>2. Others(c) /\ ~call'[c].sent
      BY <1>2, ErrorStep DEF Onward
    <2>3. \A d \in Client : ~call'[d].sent
      BY <2>1, <2>2, ConstantTypes DEF LockInv, Others
    <2> QED BY <2>1, <2>3 DEF WireInv
  <1>3. ASSUME NEW c \in Client, readByte(c) \/ readUntil(c) \/ readSlew(c) \/ timeout(c) PROVE WireInv'
    <2>1. Others(c) /\ \E how \in {"yes", "no", "err"} : Onward(c, how, call'[c])
      BY <1>3, ReadByteStep, ReadUntilStep, ReadSlewStep, ErrorStep
    <2>2. waits(c) /\ UNCHANGED <<late, loose>>
      BY <1>3 DEF readByte, readUntil, readSlew, timeout, starved
    <2>3. ~call'[c].sent
      BY <2>1 DEF Onward
    <2>4. step(c) = call[c].todo[1] /\ line \in Seq(Char)
      BY <2>2, After DEF TypeOK, waits
    <2>5. ASSUME ~loose PROVE line' = <<>>
      <3>1. Whole(step(c), line)
        BY <2>2, <2>4, <2>5 DEF WireInv, waits
      <3>2. CASE readByte(c)
        <4>1. Len(line) = 1 /\ line' = Tail(line)
          BY <3>1, <3>2 DEF readByte, Whole
        <4> QED BY <2>4, <4>1
      <3>3. CASE readUntil(c)
        <4>1. /\ Len(line) >= 1 /\ line[Len(line)].c = "#" /\ \A i \in 1..(Len(line) - 1) : line[i].c # "#"
          BY <3>1, <3>3 DEF readUntil, Whole
        <4>2. PICK k \in 1..Len(line) : line[k].c = "#" /\ line' = SubSeq(line, k + 1, Len(line))
          BY <3>3, ReadUntilStep
        <4>3. k = Len(line) /\ k \in Int /\ Len(line) \in Int
          BY <2>4, <4>1, <4>2
        <4> QED BY <4>2, <4>3, SubSeqEmpty
      <3>4. CASE readSlew(c)
        <4>1. \/ Len(line) = 1 /\ line[1].c = "y"
              \/ Len(line) = 3 /\ line[1].c # "y" /\ line[2].c # "#" /\ line[3].c = "#"
          BY <3>1, <3>4 DEF readSlew, Whole
        <4>2. \/ Head(line).c = "y" /\ line' = Tail(line)
              \/ \E k \in 2..Len(line) : line[k].c = "#" /\ line' = SubSeq(line, k + 1, Len(line))
          BY <3>4, ReadSlewStep
        <4>3. CASE Head(line).c = "y" /\ line' = Tail(line)
          <5>1. Len(line) = 1
            BY <2>4, <4>1, <4>3
          <5> QED BY <2>4, <4>3, <5>1
        <4>4. ASSUME NEW k \in 2..Len(line), line[k].c = "#", line' = SubSeq(line, k + 1, Len(line))
              PROVE  line' = <<>>
          <5>1. k = 3 /\ Len(line) = 3
            BY <4>1, <4>4
          <5> QED BY <4>4, <5>1, SubSeqEmpty
        <4> QED BY <4>2, <4>3, <4>4
      <3>5. CASE timeout(c)
        BY <3>5 DEF timeout
      <3> QED BY <1>3, <3>2, <3>3, <3>4, <3>5
    <2> QED BY <2>1, <2>2, <2>3, <2>5, WireRead
  <1>4. ASSUME NEW c \in Client,
               \/ status(c) \/ store(c) \/ invalidate(c) \/ Remembers(c) \/ check(c)
               \/ defer(c) \/ askMoving(c)
        PROVE  WireInv'
    <2>1. UNCHANGED <<conn, line, late, loose>>
      BY <1>4, RememberStep DEF status, store, invalidate, check, defer, askMoving
    <2>2. call[c].on /\ call[c].todo # <<>> /\ ~call[c].sent /\ step(c).op # "get"
      BY <1>4, RememberStep DEF status, store, invalidate, check, defer, askMoving, ready
    <2>3. step(c) = call[c].todo[1]
      BY <2>2, After DEF TypeOK
    <2>4. Others(c) /\ ~call'[c].sent
      <3>1. CASE status(c)
        BY <2>2, <3>1, HitStep, MissStep DEF Onward
      <3>2. CASE ~status(c)
        BY <1>4, <2>2, <3>2, StoreStep, DoneStep, RememberStep, CheckStep, DeferStep, AskMovingStep
           DEF Onward, invalidate
      <3> QED BY <3>1, <3>2
    <2> QED BY <2>1, <2>2, <2>3, <2>4, WireSilent
  <1>5. ASSUME NEW c \in Client, return(c) PROVE WireInv'
    <2>1. Others(c) /\ call[c].on /\ call[c].todo = <<>> /\ (call'[c].sent = call[c].sent \/ ~call'[c].sent)
      BY <1>5, ReturnStep
    <2>2. ~call[c].sent
      BY <2>1 DEF LockInv
    <2>3. UNCHANGED <<conn, line, late, loose>>
      BY <1>5 DEF return
    <2> QED BY <2>1, <2>2, <2>3, WireSilent
  <1>6. CASE arrive
    BY <1>6 DEF arrive, WireInv
  <1>7. CASE tick \/ UNCHANGED vars
    BY <1>7 DEF tick, vars, WireInv, Printed
  <1>8. ASSUME NEW c \in Client, Act(c) PROVE WireInv'
    BY <1>2, <1>3, <1>4, <1>5, <1>8, WireWrite, Groups
  <1> QED BY <1>1, <1>6, <1>7, <1>8 DEF Next

(* What holds of every driver, for any number of clients. *)
Core == TypeOK /\ LockInv /\ FitInv /\ WireInv

(* Core holds at the start. *)
LEMMA CoreInit == Init => Core
  BY InitTyped, LockInit, WireInit DEF Core

(* Every step keeps Core. *)
LEMMA CoreStep == Core /\ [Next]_vars => Core'
  BY TypeStep, LockStep, FitStep, WireStep DEF Core

(* Core is an invariant. *)
LEMMA CoreInvariant == Spec => []Core
  BY CoreInit, CoreStep, PTL DEF Spec

(* While the stream is sound no reader waits for what does not come. *)
LEMMA NotStarved ==
  ASSUME Core, ~loose, NEW c \in Client
  PROVE  ~starved(c)
  <1> SUFFICES ASSUME starved(c) PROVE FALSE
    OBVIOUS
  <1>1. waits(c) /\ line \in Seq(Char)
    BY DEF starved, Core, TypeOK
  <1>2. step(c) = call[c].todo[1]
    BY <1>1, After DEF Core, TypeOK, waits
  <1>3. Whole(step(c), line) /\ step(c).op \in Wire \ {"blind"}
    BY <1>1, <1>2 DEF Core, WireInv, LockInv, waits
  <1>4. CASE step(c).op \in {"ack", "byte"}
    <2>1. Len(line) = 1 /\ line = <<>>
      BY <1>3, <1>4 DEF Whole, starved
    <2> QED BY <2>1
  <1>5. CASE step(c).op = "get"
    <2>1. Len(line) >= 1 /\ line[Len(line)].c = "#" /\ ~closed(1)
      BY <1>3, <1>5 DEF Whole, starved
    <2>2. Len(line) \in 1..Len(line)
      BY <1>1, <2>1
    <2> QED BY <2>1, <2>2 DEF closed
  <1>6. CASE step(c).op = "slew"
    <2>1. \/ Len(line) = 1 /\ line[1].c = "y"
          \/ Len(line) = 3 /\ line[1].c # "y" /\ line[2].c # "#" /\ line[3].c = "#"
      BY <1>3, <1>6 DEF Whole
    <2>2. line # <<>> => Head(line).c # "y" /\ ~closed(2)
      BY <1>6 DEF starved
    <2>3. line # <<>> /\ Head(line) = line[1]
      BY <1>1, <2>1
    <2>4. Len(line) = 3 /\ line[3].c = "#" /\ ~closed(2)
      BY <2>1, <2>2, <2>3
    <2> QED BY <2>4 DEF closed
  <1> QED BY <1>3, <1>4, <1>5, <1>6 DEF Wire

(* As long as every answer comes in time and dates are set in the mode that  *)
(* Connect sets, the stream stays in step, whatever writes fail: no reader   *)
(* waits for what does not come and none leaves a part of its answer, for    *)
(* any number of goroutines that share the connection.                       *)
THEOREM StreamInStep == Spec => []InStep
  <1>1. Core => InStep
    <2> SUFFICES ASSUME Core, ~loose, phase = "open"
                 PROVE  (\A c \in Client : ~starved(c)) /\ (conn = Nobody => line = <<>>)
      BY DEF InStep, Sound
    <2>1. conn = Nobody => line = <<>>
      BY DEF Core, WireInv, Printed
    <2> QED BY <2>1, NotStarved
  <1> QED BY <1>1, CoreInvariant, PTL
===========================================================================
