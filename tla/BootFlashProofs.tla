-------------------------- MODULE BootFlashProofs --------------------------
(***************************************************************************)
(* Proofs about BootFlash, for any images, any size of the flash and any   *)
(* number of attempts, faults and sessions.                                *)
(***************************************************************************)
EXTENDS BootFlash, TLAPS

CommandSet == [cmd : {"info", "erase", "program", "crc", "jump"},
               of : Image \cup {"none", "low", "135", "150"}, cell : Nat]

(* The number of program frames of an image. *)
Records(g) == N - Below(g)

(* An image has at least one record; its family says where it starts. *)
LEMMA Sizes ==
  ASSUME NEW g \in Image
  PROVE  /\ N \in Nat /\ K \in Nat /\ 1 <= K /\ K < N
         /\ Below(g) \in {0, K} /\ Records(g) \in Nat /\ Records(g) >= 1
         /\ FamilyOf[g] \in Families
         /\ FamilyOf[g] = "135" => Below(g) = 0
         /\ FamilyOf[g] = "150" => Below(g) = K
  BY BootAssumption DEF Below, Records, Families

(* Each command by its fields. *)
LEMMA Commands ==
  ASSUME NEW g \in Image, NEW c \in Nat, NEW r \in {"low", "135", "150"}
  PROVE  /\ ReadBootInfo \in CommandSet /\ ReadBootInfo.cmd = "info" /\ ReadBootInfo.of = "none"
         /\ EraseFlash \in CommandSet /\ EraseFlash.cmd = "erase" /\ EraseFlash.of = "none"
         /\ ProgramFlash(g, c) \in CommandSet /\ ProgramFlash(g, c).cmd = "program"
         /\ ProgramFlash(g, c).of = g /\ ProgramFlash(g, c).cell = c
         /\ ReadCRC(r) \in CommandSet /\ ReadCRC(r).cmd = "crc" /\ ReadCRC(r).of = r
         /\ JumpToApp \in CommandSet /\ JumpToApp.cmd = "jump" /\ JumpToApp.of = "none"
  BY DEF CommandSet, Command, ReadBootInfo, EraseFlash, ProgramFlash, ReadCRC, JumpToApp

(* The elements of a concatenation. *)
LEMMA Concat ==
  ASSUME NEW S, NEW s \in Seq(S), NEW t \in Seq(S)
  PROVE  /\ s \o t \in Seq(S)
         /\ Len(s \o t) = Len(s) + Len(t)
         /\ \A i \in 1..(Len(s) + Len(t)) : (s \o t)[i] = IF i <= Len(s) THEN s[i] ELSE t[i - Len(s)]
  OBVIOUS

(* The frames of a flash, by their places. *)
LEMMA FlashScript ==
  ASSUME NEW g \in Image
  PROVE  /\ flashes(g) \in Seq(CommandSet)
         /\ Len(flashes(g)) = Records(g) + 4
         /\ flashes(g)[1] = ReadBootInfo
         /\ flashes(g)[2] = ReadCRC("low")
         /\ flashes(g)[3] = EraseFlash
         /\ \A i \in 4..(Records(g) + 3) : flashes(g)[i] = ProgramFlash(g, Below(g) + (i - 3))
         /\ flashes(g)[Records(g) + 4] = ReadCRC(FamilyOf[g])
  <1> DEFINE n == Records(g)
             P == Program(g)
             A == <<ReadBootInfo>> \o <<ReadCRC("low")>>
             B == A \o <<EraseFlash>>
             C == B \o P
             v == ReadCRC(FamilyOf[g])
  <1>1. n \in Nat /\ n >= 1
    BY Sizes
  <1>2. /\ ReadBootInfo \in CommandSet /\ ReadCRC("low") \in CommandSet /\ EraseFlash \in CommandSet
        /\ v \in CommandSet
    <2>1. FamilyOf[g] \in {"low", "135", "150"}
      BY Sizes DEF Families
    <2> QED BY <2>1, Commands, BootAssumption
  <1>3. P \in Seq(CommandSet) /\ Len(P) = n /\ \A i \in 1..n : P[i] = ProgramFlash(g, Below(g) + i)
    <2>1. \A i \in 1..n : ProgramFlash(g, Below(g) + i) \in CommandSet
      BY Commands, Sizes, <1>1
    <2>2. P = [i \in 1..n |-> ProgramFlash(g, Below(g) + i)]
      BY DEF Program, Records
    <2> HIDE DEF P, n
    <2> QED BY <1>1, <2>1, <2>2
  <1> HIDE DEF n, P, v
  <1>4. A \in Seq(CommandSet) /\ Len(A) = 2 /\ A[1] = ReadBootInfo /\ A[2] = ReadCRC("low")
    BY <1>2
  <1> HIDE DEF A
  <1>5. B \in Seq(CommandSet) /\ Len(B) = 3 /\ B[1] = ReadBootInfo /\ B[2] = ReadCRC("low") /\ B[3] = EraseFlash
    <2>1. <<EraseFlash>> \in Seq(CommandSet) /\ Len(<<EraseFlash>>) = 1 /\ <<EraseFlash>>[1] = EraseFlash
      BY <1>2
    <2> DEFINE e == <<EraseFlash>>
    <2> HIDE DEF e
    <2>2. B = A \o e
      BY DEF e
    <2>3. /\ A \o e \in Seq(CommandSet) /\ Len(A \o e) = Len(A) + Len(e)
          /\ \A i \in 1..(Len(A) + Len(e)) : (A \o e)[i] = IF i <= Len(A) THEN A[i] ELSE e[i - Len(A)]
      BY <1>4, <2>1, Concat DEF e
    <2> QED BY <1>4, <2>1, <2>2, <2>3 DEF e
  <1> HIDE DEF B
  <1>6. C \in Seq(CommandSet) /\ Len(C) = n + 3 /\ \A i \in 1..(n + 3) : C[i] = IF i <= 3 THEN B[i] ELSE P[i - 3]
    <2>1. /\ C \in Seq(CommandSet) /\ Len(C) = Len(B) + Len(P)
          /\ \A i \in 1..(Len(B) + Len(P)) : C[i] = IF i <= Len(B) THEN B[i] ELSE P[i - Len(B)]
      BY <1>3, <1>5, Concat
    <2> QED BY <1>1, <1>3, <1>5, <2>1
  <1> HIDE DEF C
  <1>7. /\ C \o <<v>> \in Seq(CommandSet) /\ Len(C \o <<v>>) = n + 4
        /\ \A i \in 1..(n + 4) : (C \o <<v>>)[i] = IF i <= n + 3 THEN C[i] ELSE v
    BY <1>1, <1>2, <1>6
  <1>8. flashes(g) = C \o <<v>>
    BY DEF flashes, Connect, DetectAppBase, Verify, A, B, C, P, v
  <1>9. \A i \in 4..(n + 3) : (C \o <<v>>)[i] = ProgramFlash(g, Below(g) + (i - 3))
    <2> SUFFICES ASSUME NEW i \in 4..(n + 3)
                 PROVE  (C \o <<v>>)[i] = ProgramFlash(g, Below(g) + (i - 3))
      OBVIOUS
    <2>1. i \in 1..(n + 4) /\ i \in 1..(n + 3) /\ i - 3 \in 1..n /\ ~(i <= 3) /\ i <= n + 3
      BY <1>1
    <2>2. (C \o <<v>>)[i] = P[i - 3]
      BY <2>1, <1>6, <1>7
    <2> QED BY <2>1, <2>2, <1>3
  <1>10. /\ 1 \in 1..(n + 4) /\ 2 \in 1..(n + 4) /\ 3 \in 1..(n + 4) /\ n + 4 \in 1..(n + 4)
         /\ 1 \in 1..(n + 3) /\ 2 \in 1..(n + 3) /\ 3 \in 1..(n + 3)
         /\ 1 <= n + 3 /\ 2 <= n + 3 /\ 3 <= n + 3 /\ ~(n + 4 <= n + 3)
    BY <1>1
  <1>11. /\ (C \o <<v>>)[1] = ReadBootInfo /\ (C \o <<v>>)[2] = ReadCRC("low")
         /\ (C \o <<v>>)[3] = EraseFlash /\ (C \o <<v>>)[n + 4] = v
    BY <1>5, <1>6, <1>7, <1>10
  <1> QED BY <1>7, <1>8, <1>9, <1>11 DEF n, v

SessionType == [n : 1..(MaxSessions + 1), why : {"flash", "run", "crc", "identify", "info"}, img : Image]

(* The frames of a session that writes nothing. *)
LEMMA ReadScript ==
  ASSUME NEW s \in SessionType, s.why \notin {"flash", "run"}
  PROVE  /\ Script(s) \in Seq(CommandSet) /\ Len(Script(s)) >= 1
         /\ \A i \in 1..Len(Script(s)) :
               \/ Script(s)[i] = ReadBootInfo
               \/ \E r \in {"low", "135", "150"} : Script(s)[i] = ReadCRC(r)
  <1>1. /\ s.img \in Image /\ s.why \in {"crc", "identify", "info"}
        /\ FamilyOf[s.img] \in {"135", "150"}
    BY Sizes DEF SessionType, Families
  <1> DEFINE a == ReadBootInfo
             b == ReadCRC("low")
             f == ReadCRC(FamilyOf[s.img])
             d == ReadCRC("135")
             e == ReadCRC("150")
  <1>2. a \in CommandSet /\ b \in CommandSet /\ d \in CommandSet /\ e \in CommandSet /\ f \in CommandSet
    BY <1>1, Commands
  <1> HIDE DEF a, b, d, e, f
  <1>3. CASE s.why = "info"
    <2>1. Script(s) = <<a>>
      BY <1>3 DEF Script, doInfo, Connect, a
    <2> QED BY <1>2, <2>1 DEF a
  <1>4. CASE s.why = "crc"
    <2>1. Script(s) = <<a>> \o <<f>>
      BY <1>4 DEF Script, doCRC, Connect, Verify, a, f
    <2>2. Script(s) \in Seq(CommandSet) /\ Len(Script(s)) = 2 /\ Script(s)[1] = a /\ Script(s)[2] = f
      BY <1>2, <2>1
    <2> QED BY <1>1, <2>2 DEF a, f
  <1>5. CASE s.why = "identify"
    <2> DEFINE A == <<a>> \o <<b>>
               B == <<d, e>>
    <2>1. Script(s) = A \o B
      BY <1>5 DEF Script, doIdentify, Connect, DetectAppBase, a, b, d, e
    <2>2. A \in Seq(CommandSet) /\ Len(A) = 2 /\ A[1] = a /\ A[2] = b
      BY <1>2
    <2>3. B \in Seq(CommandSet) /\ Len(B) = 2 /\ B[1] = d /\ B[2] = e
      BY <1>2
    <2> HIDE DEF A, B
    <2>4. /\ A \o B \in Seq(CommandSet) /\ Len(A \o B) = 4
          /\ \A i \in 1..4 : (A \o B)[i] = IF i <= 2 THEN A[i] ELSE B[i - 2]
      <3>1. /\ A \o B \in Seq(CommandSet) /\ Len(A \o B) = Len(A) + Len(B)
            /\ \A i \in 1..(Len(A) + Len(B)) : (A \o B)[i] = IF i <= Len(A) THEN A[i] ELSE B[i - Len(A)]
        BY <2>2, <2>3, Concat, Zenon
      <3>2. Len(A) + Len(B) = 4
        BY <2>2, <2>3
      <3> QED BY <2>2, <3>1, <3>2, Zenon
    <2>5. \A i \in 1..4 : (A \o B)[i] \in {a, b, d, e}
      BY <2>2, <2>3, <2>4
    <2> QED BY <2>1, <2>4, <2>5 DEF a, b, d, e
  <1> QED BY <1>1, <1>3, <1>4, <1>5

(* Every session has a script of at least one command. *)
LEMMA Scripts ==
  ASSUME NEW s \in SessionType
  PROVE  Script(s) \in Seq(CommandSet) /\ Len(Script(s)) \in Nat /\ Len(Script(s)) >= 1
  <1>1. CASE s.why \in {"flash", "run"}
    <2>1. Script(s) = flashes(s.img) /\ s.img \in Image
      BY <1>1 DEF Script, SessionType
    <2> QED BY <2>1, FlashScript, Sizes
  <1>2. CASE s.why \notin {"flash", "run"}
    BY <1>2, ReadScript
  <1> QED BY <1>1, <1>2

(* What the place of a frame says about it. *)
LEMMA Frames ==
  ASSUME session \in SessionType, NEW i \in Nat \ {0}
  PROVE  /\ Last \in Nat /\ Last >= 1 /\ session.img \in Image /\ want \in {"135", "150"}
         /\ writing => Last >= 5
         /\ Frame(i) \in CommandSet
         /\ Frame(i).cmd = "jump" <=> i > Last
         /\ i > Last <=> Frame(i) = JumpToApp
         /\ writing /\ i = 2 => Frame(i) = ReadCRC("low")
         /\ writing /\ i = Last => Frame(i) = ReadCRC(want)
         /\ Frame(i).cmd = "crc" => /\ Frame(i).of \in {"low", "135", "150"}
                                    /\ writing => i = 2 \/ i = Last
         /\ Frame(i).cmd \in {"erase", "program"} => writing /\ i >= 3 /\ i < Last
         /\ Frame(i).cmd = "program" => /\ Frame(i).of = session.img
                                        /\ Frame(i).cell \in (Below(session.img) + 1)..N
  <1> DEFINE g == session.img
             S == Script(session)
  <1>1. g \in Image /\ want \in {"135", "150"}
    BY Sizes DEF SessionType, want, Families
  <1>2. S \in Seq(CommandSet) /\ Last = Len(S) /\ Last \in Nat /\ Last >= 1
    BY Scripts DEF Last
  <1>3. JumpToApp \in CommandSet /\ JumpToApp.cmd = "jump"
    BY <1>1, Commands
  <1>4. CASE i > Last
    <2>1. Frame(i) = JumpToApp
      BY <1>2, <1>4 DEF Frame
    <2>2. writing => Last >= 5
      BY <1>1, <1>2, FlashScript, Sizes DEF writing, Script
    <2>3. ~(writing /\ i = 2)
      BY <1>2, <1>4, <2>2
    <2> QED BY <1>1, <1>2, <1>3, <1>4, <2>1, <2>2, <2>3
  <1>5. CASE i <= Last /\ ~writing
    <2>1. Frame(i) = S[i] /\ i \in 1..Len(S)
      BY <1>2, <1>5 DEF Frame
    <2>2. S[i] = ReadBootInfo \/ \E r \in {"low", "135", "150"} : S[i] = ReadCRC(r)
      BY <1>5, <2>1, ReadScript DEF writing
    <2>3. S[i] \in CommandSet /\ S[i].cmd \in {"info", "crc"} /\ (S[i].cmd = "crc" => S[i].of \in {"low", "135", "150"})
      BY <1>1, <2>2, Commands
    <2> HIDE DEF S
    <2> QED BY <1>1, <1>2, <1>3, <1>5, <2>1, <2>3
  <1>6. CASE i <= Last /\ writing
    <2>1. S = flashes(g) /\ Frame(i) = S[i]
      BY <1>2, <1>6 DEF Frame, writing, Script
    <2>2. /\ Last = Records(g) + 4 /\ Records(g) \in Nat /\ Records(g) >= 1
          /\ Below(g) \in Nat /\ Records(g) = N - Below(g) /\ N \in Nat
      BY <1>1, <1>2, <2>1, FlashScript, Sizes DEF Records
    <2>3. CASE i = 1
      <3>1. Frame(i) = ReadBootInfo
        BY <1>1, <2>1, <2>3, FlashScript
      <3>2. Frame(i) \in CommandSet /\ Frame(i).cmd = "info"
        BY <1>1, <3>1, Commands
      <3> QED BY <1>1, <1>3, <1>6, <2>2, <2>3, <3>2
    <2>4. CASE i = 2
      <3>1. Frame(i) = ReadCRC("low")
        BY <1>1, <2>1, <2>4, FlashScript
      <3>2. Frame(i) \in CommandSet /\ Frame(i).cmd = "crc" /\ Frame(i).of = "low"
        BY <1>1, <3>1, Commands
      <3> QED BY <1>1, <1>3, <1>6, <2>2, <2>4, <3>1, <3>2
    <2>5. CASE i = 3
      <3>1. Frame(i) = EraseFlash
        BY <1>1, <2>1, <2>5, FlashScript
      <3>2. Frame(i) \in CommandSet /\ Frame(i).cmd = "erase"
        BY <1>1, <3>1, Commands
      <3> QED BY <1>1, <1>3, <1>6, <2>2, <2>5, <3>2
    <2>6. CASE i >= 4 /\ i < Last
      <3>1. i \in 4..(Records(g) + 3) /\ Below(g) + (i - 3) \in Nat
        BY <2>2, <2>6
      <3>2. Frame(i) = ProgramFlash(g, Below(g) + (i - 3))
        BY <1>1, <2>1, <3>1, FlashScript
      <3>3. /\ Frame(i) \in CommandSet /\ Frame(i).cmd = "program"
            /\ Frame(i).of = g /\ Frame(i).cell = Below(g) + (i - 3)
        BY <1>1, <3>1, <3>2, Commands
      <3>4. Below(g) + (i - 3) \in (Below(g) + 1)..N
        BY <2>2, <3>1
      <3> QED BY <1>1, <1>3, <1>6, <2>2, <2>6, <3>3, <3>4
    <2>7. CASE i = Last
      <3>1. Frame(i) = ReadCRC(want)
        BY <1>1, <2>1, <2>2, <2>7, FlashScript DEF want
      <3>2. Frame(i) \in CommandSet /\ Frame(i).cmd = "crc" /\ Frame(i).of = want
        BY <1>1, <3>1, Commands
      <3> QED BY <1>1, <1>3, <1>6, <2>2, <2>7, <3>1, <3>2
    <2> QED BY <1>6, <2>2, <2>3, <2>4, <2>5, <2>6, <2>7
  <1> QED BY <1>2, <1>4, <1>5, <1>6

(***************************************************************************)
(* The inductive invariant.                                                *)
(***************************************************************************)
Ranges == {"low", "135", "150"}
Contents == UNION {[Range(r) -> Tags] : r \in Ranges}
Reply == [place : Nat \ {0}, val : Contents \cup {<<>>}]

Typed ==
  /\ session \in SessionType
  /\ at \in 1..(Last + 1) /\ waiting \in BOOLEAN
  /\ tries \in Nat /\ tries <= retries /\ (~waiting => tries < retries)
  /\ outcome \in {"running", "ok", "failed", "mismatch", "broken"}
  /\ family \in Families /\ mode \in {"boot", "off", "app"}
  /\ flash \in [Cells -> Tags] /\ intact \in BOOLEAN /\ hasty \in BOOLEAN /\ faults \in 0..MaxFaults
  /\ toDev \in Seq(Nat \ {0}) /\ toHost \in Seq(Reply)

(* The frames on the wires are in the order of the script, the answers before *)
(* the commands, and none is ahead of the session.                            *)
Order ==
  /\ \A i \in 1..Len(toDev) : toDev[i] <= at
  /\ \A i, j \in 1..Len(toDev) : i <= j => toDev[i] <= toDev[j]
  /\ \A i \in 1..Len(toHost) : toHost[i].place <= at
  /\ \A i \in 1..Len(toHost), j \in 1..Len(toDev) : toHost[i].place <= toDev[j]

(* How far a session gets before it ends, and the controller runs. *)
Progress ==
  /\ outcome = "running" /\ at > Last => session.why = "run"
  /\ outcome = "ok" => at = Last + 1
  /\ outcome = "mismatch" => writing /\ at = 2
  /\ session.why # "run" => \A i \in 1..Len(toDev) : toDev[i] <= Last
  /\ mode = "app" => session.why = "run" /\ at = Last + 1

(* An answer to Verify is about what the flash holds now; an answer to *)
(* DetectAppBase is no answer to Verify; a session that is past Verify *)
(* has installed its image, and nothing on the wire changes it.        *)
Checksums ==
  writing =>
    /\ \A i \in 1..Len(toHost) : toHost[i].place = Last => toHost[i].val = crc16(want)
    /\ \A i \in 1..Len(toHost) : toHost[i].place = 2 => toHost[i].val \in [Range("low") -> Tags]
    /\ at = Last + 1 => Installed(session.img) /\ \A j \in 1..Len(toDev) : toDev[j] >= Last

Whole == \E g \in Image : FamilyOf[g] = family /\ Installed(g)

(* The low cells tell the families apart until DetectAppBase has seen them. *)
Guard ==
  /\ family = "150" => \A c \in 1..K : flash[c] = "erased"
  /\ writing /\ at >= 3 /\ (intact \/ family = "150") => want = family
  /\ intact /\ (~writing \/ at <= 2) => Whole
  /\ writing /\ at <= 2 =>
        \A i \in 1..Len(toHost) : toHost[i].place = 2 => toHost[i].val = crc16("low")

FlashInv == Typed /\ Order /\ Progress /\ Checksums /\ Guard

(* Within a session its script is the same. *)
LEMMA Same ==
  ASSUME UNCHANGED session
  PROVE  Last' = Last /\ writing' = writing /\ want' = want /\ \A i : (Frame(i))' = Frame(i)
  BY DEF Last, writing, want, Frame

(* Checksums and installation depend on the flash only. *)
LEMMA SameContent ==
  ASSUME UNCHANGED flash, NEW r, NEW g
  PROVE  (crc16(r))' = crc16(r) /\ (Installed(g))' = Installed(g)
  BY DEF crc16, Installed

(* Every command has at least one attempt. *)
LEMMA Retries == retries \in Nat /\ retries >= 1 /\ retries <= commandRetries + connectRetries
  BY BootAssumption DEF retries

(* A frame is sent, or not heard. *)
LEMMA Sending ==
  ASSUME Typed, toDev' = sent(at)
  PROVE  /\ toDev' \in Seq(Nat \ {0})
         /\ \/ toDev' = toDev
            \/ /\ Len(toDev') = Len(toDev) + 1
               /\ toDev'[Len(toDev) + 1] = at
               /\ \A i \in 1..Len(toDev) : toDev'[i] = toDev[i]
  <1>1. at \in Nat \ {0} /\ toDev \in Seq(Nat \ {0})
    BY Frames DEF Typed
  <1> QED BY <1>1 DEF sent

(* Sending keeps the order. *)
LEMMA SendingOrder ==
  ASSUME Typed, Order, toDev' = sent(at), UNCHANGED <<at, toHost>>
  PROVE  Order'
  <1>1. at \in Nat \ {0} /\ toDev \in Seq(Nat \ {0}) /\ toHost \in Seq(Reply) /\ Len(toDev) \in Nat
    BY Frames DEF Typed
  <1>2. CASE toDev' = toDev
    BY <1>2 DEF Order
  <1>3. CASE /\ Len(toDev') = Len(toDev) + 1
             /\ toDev'[Len(toDev) + 1] = at
             /\ \A i \in 1..Len(toDev) : toDev'[i] = toDev[i]
    <2>1. \A i \in 1..Len(toDev') : i \in 1..Len(toDev) \/ i = Len(toDev) + 1
      BY <1>1, <1>3
    <2>2. \A i \in 1..Len(toDev') : toDev'[i] <= at
      BY <1>1, <1>3, <2>1 DEF Order
    <2>3. \A i, j \in 1..Len(toDev') : i <= j => toDev'[i] <= toDev'[j]
      <3> SUFFICES ASSUME NEW i \in 1..Len(toDev'), NEW j \in 1..Len(toDev'), i <= j
                   PROVE  toDev'[i] <= toDev'[j]
        OBVIOUS
      <3>1. CASE j = Len(toDev) + 1
        BY <1>3, <2>2, <3>1
      <3>2. CASE j \in 1..Len(toDev)
        <4>1. i \in 1..Len(toDev)
          BY <1>1, <1>3, <2>1, <3>2
        <4> QED BY <1>3, <3>2, <4>1 DEF Order
      <3> QED BY <2>1, <3>1, <3>2
    <2>4. \A i \in 1..Len(toHost), j \in 1..Len(toDev') : toHost[i].place <= toDev'[j]
      <3> SUFFICES ASSUME NEW i \in 1..Len(toHost), NEW j \in 1..Len(toDev')
                   PROVE  toHost[i].place <= toDev'[j]
        OBVIOUS
      <3>1. CASE j = Len(toDev) + 1
        BY <1>3, <3>1 DEF Order
      <3>2. CASE j \in 1..Len(toDev)
        BY <1>3, <3>2 DEF Order
      <3> QED BY <2>1, <3>1, <3>2
    <2> QED BY <2>2, <2>3, <2>4 DEF Order
  <1> QED BY <1>2, <1>3, Sending

(* write keeps the invariant. *)
LEMMA writeInv ==
  ASSUME FlashInv, write
  PROVE  FlashInv'
  <1>0. /\ Typed /\ Order /\ Progress /\ Checksums /\ Guard /\ active /\ ~waiting /\ toDev' = sent(at)
        /\ waiting' = TRUE /\ tries' = tries + 1
        /\ UNCHANGED <<session, at, outcome, seen, toHost, family, mode, flash, intact, hasty, faults>>
    BY DEF FlashInv, write
  <1>1. at \in Nat \ {0} /\ at <= Last /\ Last \in Nat /\ Last' = Last /\ writing' = writing /\ want' = want
    BY <1>0, Same, Frames DEF Typed, active
  <1>2. toDev' \in Seq(Nat \ {0})
    BY <1>0, Sending
  <1>3. Typed'
    <2>1. retries' = retries
      BY <1>0, <1>1 DEF retries, current, Frame
    <2>2. tries' \in Nat /\ tries' <= retries'
      BY <1>0, <2>1, Retries DEF Typed
    <2> QED BY <1>0, <1>1, <1>2, <2>2 DEF Typed
  <1>4. Order'
    BY <1>0, SendingOrder
  <1>5. Progress'
    <2>1. session.why # "run" => \A i \in 1..Len(toDev') : toDev'[i] <= Last
      <3> SUFFICES ASSUME NEW i \in 1..Len(toDev')
                   PROVE  toDev'[i] <= Last
        OBVIOUS
      <3>1. toDev'[i] \in Nat /\ toDev'[i] <= at
        BY <1>0, <1>2, <1>4 DEF Order
      <3> QED BY <1>1, <3>1
    <2> QED BY <1>0, <1>1, <2>1 DEF Progress
  <1>6. Checksums'
    BY <1>0, <1>1 DEF Checksums, crc16
  <1>7. Guard'
    BY <1>0, <1>1 DEF Guard, Whole, Installed, crc16
  <1> QED BY <1>3, <1>4, <1>5, <1>6, <1>7 DEF FlashInv

(* Run keeps the invariant. *)
LEMMA RunInv ==
  ASSUME FlashInv, Run
  PROVE  FlashInv'
  <1>0. /\ Typed /\ Order /\ Progress /\ Checksums /\ Guard
        /\ outcome = "running" /\ at > Last /\ toDev' = sent(at) /\ outcome' = "ok"
        /\ UNCHANGED <<session, at, tries, waiting, seen, toHost, family, mode, flash, intact, hasty, faults>>
    BY DEF FlashInv, Run
  <1>1. /\ at \in Nat \ {0} /\ at = Last + 1 /\ Last \in Nat /\ Last' = Last
        /\ writing' = writing /\ want' = want /\ session.why = "run"
    BY <1>0, Same, Frames DEF Typed, Progress
  <1>2. toDev' \in Seq(Nat \ {0})
    BY <1>0, Sending
  <1>3. Typed'
    <2>1. retries' = retries
      BY <1>0, <1>1 DEF retries, current, Frame
    <2> QED BY <1>0, <1>1, <1>2, <2>1 DEF Typed
  <1>4. Order'
    BY <1>0, SendingOrder
  <1>5. Progress'
    BY <1>0, <1>1 DEF Progress
  <1>6. Checksums'
    <2>1. writing => \A j \in 1..Len(toDev') : toDev'[j] >= Last
      <3> SUFFICES ASSUME writing, NEW j \in 1..Len(toDev')
                   PROVE  toDev'[j] >= Last
        OBVIOUS
      <3>1. \A i \in 1..Len(toDev) : toDev[i] >= Last
        BY <1>0, <1>1 DEF Checksums
      <3>2. Len(toDev) \in Nat
        BY <1>0 DEF Typed
      <3> QED BY <1>0, <1>1, <3>1, <3>2, Sending
    <2> QED BY <1>0, <1>1, <2>1 DEF Checksums, crc16, Installed
  <1>7. Guard'
    BY <1>0, <1>1 DEF Guard, Whole, Installed, crc16
  <1> QED BY <1>3, <1>4, <1>5, <1>6, <1>7 DEF FlashInv

(* Frames that are taken or lost, and none that is new: the order stays. *)
LEMMA Shorter ==
  ASSUME NEW S, NEW s \in Seq(S), s # <<>>
  PROVE  /\ Tail(s) \in Seq(S) /\ Len(Tail(s)) = Len(s) - 1 /\ Len(s) \in Nat /\ Len(s) >= 1
         /\ \A i \in 1..Len(Tail(s)) : i + 1 \in 1..Len(s) /\ Tail(s)[i] = s[i + 1]
         /\ Head(s) = s[1] /\ s[1] \in S
  OBVIOUS

(* What is left of a sequence after its first n elements. *)
LEMMA Rest ==
  ASSUME NEW S, NEW s \in Seq(S), NEW n \in 1..Len(s)
  PROVE  /\ SubSeq(s, n + 1, Len(s)) \in Seq(S)
         /\ \A i \in 1..Len(SubSeq(s, n + 1, Len(s))) :
               i + n \in 1..Len(s) /\ SubSeq(s, n + 1, Len(s))[i] = s[i + n]
  OBVIOUS

(* A step within the session that loses frames and changes neither the *)
(* flash nor the place of the session.                                 *)
LEMMA LossInv ==
  ASSUME FlashInv, UNCHANGED <<session, at, family, flash, intact>>,
         \/ outcome' \in {"running", "failed", "broken"} \/ outcome' = outcome
         \/ outcome' = "mismatch" /\ writing /\ at = 2,
         outcome = "running" \/ outcome' = outcome,
         mode' \in {mode, "off"}, hasty' \in BOOLEAN, faults' \in 0..MaxFaults, waiting' \in BOOLEAN,
         tries' \in Nat, tries' <= retries, ~waiting' => tries' < retries,
         NEW a \in Nat, NEW b \in Nat,
         toDev' \in Seq(Nat \ {0}),
         \A i \in 1..Len(toDev') : i + a \in 1..Len(toDev) /\ toDev'[i] = toDev[i + a],
         toHost' \in Seq(Reply),
         \A i \in 1..Len(toHost') : i + b \in 1..Len(toHost) /\ toHost'[i] = toHost[i + b]
  PROVE  FlashInv'
  <1>0. Typed /\ Order /\ Progress /\ Checksums /\ Guard
    BY DEF FlashInv
  <1>1. /\ at \in Nat \ {0} /\ Last \in Nat /\ Last' = Last /\ writing' = writing /\ want' = want
    BY <1>0, Same, Frames DEF Typed
  <1>2. Typed'
    <2>1. retries' = retries
      BY <1>1 DEF retries, current, Frame
    <2> QED BY <1>0, <1>1, <2>1 DEF Typed
  <1>3. Order'
    <2>1. \A i \in 1..Len(toDev') : toDev'[i] <= at
      BY <1>0 DEF Order
    <2>2. ASSUME NEW i \in 1..Len(toDev'), NEW j \in 1..Len(toDev'), i <= j
          PROVE  toDev'[i] <= toDev'[j]
      <3>1. i + a \in 1..Len(toDev) /\ toDev'[i] = toDev[i + a]
        OBVIOUS
      <3>2. j + a \in 1..Len(toDev) /\ toDev'[j] = toDev[j + a]
        OBVIOUS
      <3>3. i \in Nat /\ j \in Nat
        OBVIOUS
      <3>4. i + a <= j + a
        BY <2>2, <3>3
      <3> QED BY <1>0, <3>1, <3>2, <3>4 DEF Order
    <2>3. \A i \in 1..Len(toHost') : toHost'[i].place <= at
      BY <1>0 DEF Order
    <2>4. ASSUME NEW i \in 1..Len(toHost'), NEW j \in 1..Len(toDev')
          PROVE  toHost'[i].place <= toDev'[j]
      BY <1>0 DEF Order
    <2> QED BY <2>1, <2>2, <2>3, <2>4 DEF Order
  <1>4. Progress'
    BY <1>0, <1>1 DEF Progress
  <1>5. /\ (crc16(want))' = crc16(want) /\ (crc16("low"))' = crc16("low")
        /\ (Installed(session.img))' = Installed(session.img) /\ Whole' = Whole
    BY <1>1 DEF crc16, Installed, Whole
  <1>6. Checksums'
    <2> SUFFICES ASSUME writing
                 PROVE  /\ \A i \in 1..Len(toHost') : toHost'[i].place = Last => toHost'[i].val = crc16(want)
                        /\ \A i \in 1..Len(toHost') : toHost'[i].place = 2 => toHost'[i].val \in [Range("low") -> Tags]
                        /\ at = Last + 1 => Installed(session.img) /\ \A j \in 1..Len(toDev') : toDev'[j] >= Last
      BY <1>1, <1>5 DEF Checksums
    <2>1. /\ \A i \in 1..Len(toHost) : toHost[i].place = Last => toHost[i].val = crc16(want)
          /\ \A i \in 1..Len(toHost) : toHost[i].place = 2 => toHost[i].val \in [Range("low") -> Tags]
          /\ at = Last + 1 => Installed(session.img) /\ \A j \in 1..Len(toDev) : toDev[j] >= Last
      BY <1>0 DEF Checksums
    <2>2. ASSUME NEW i \in 1..Len(toHost')
          PROVE  /\ toHost'[i].place = Last => toHost'[i].val = crc16(want)
                 /\ toHost'[i].place = 2 => toHost'[i].val \in [Range("low") -> Tags]
      <3>1. i + b \in 1..Len(toHost) /\ toHost'[i] = toHost[i + b]
        OBVIOUS
      <3> QED BY <2>1, <3>1
    <2>3. ASSUME at = Last + 1, NEW j \in 1..Len(toDev')
          PROVE  toDev'[j] >= Last
      <3>1. j + a \in 1..Len(toDev) /\ toDev'[j] = toDev[j + a]
        OBVIOUS
      <3> QED BY <2>1, <2>3, <3>1
    <2> QED BY <2>1, <2>2, <2>3
  <1>7. Guard'
    <2>1. writing /\ at <= 2 =>
             \A i \in 1..Len(toHost') : toHost'[i].place = 2 => toHost'[i].val = crc16("low")
      BY <1>0 DEF Guard
    <2> QED BY <1>0, <1>1, <1>5, <2>1 DEF Guard
  <1> QED BY <1>2, <1>3, <1>4, <1>6, <1>7 DEF FlashInv

(* transportFails, timeout, lose and powerCut keep the invariant. *)
LEMMA LineInv ==
  ASSUME FlashInv, transportFails \/ timeout \/ lose \/ powerCut
  PROVE  FlashInv'
  <1>0. Typed /\ retries \in Nat /\ retries >= 1 /\ 0 \in Nat /\ 1 \in Nat /\ MaxFaults \in Nat
    BY Retries, BootAssumption DEF FlashInv
  <1>1. /\ toDev \in Seq(Nat \ {0}) /\ toHost \in Seq(Reply) /\ Len(toDev) \in Nat /\ Len(toHost) \in Nat
        /\ faults \in Nat /\ faults <= MaxFaults /\ tries \in Nat /\ waiting \in BOOLEAN /\ hasty \in BOOLEAN
    BY <1>0 DEF Typed
  <1>2. CASE transportFails
    <2>1. /\ outcome' = "broken" /\ outcome = "running" /\ waiting' = FALSE
          /\ tries' \in Nat /\ tries' <= retries /\ tries' < retries
          /\ faults' \in 0..MaxFaults
          /\ UNCHANGED <<session, at, toDev, toHost, family, mode, flash, intact, hasty>>
      BY <1>0, <1>1, <1>2 DEF transportFails, end, active
    <2>2. /\ \A i \in 1..Len(toDev') : i + 0 \in 1..Len(toDev) /\ toDev'[i] = toDev[i + 0]
          /\ \A i \in 1..Len(toHost') : i + 0 \in 1..Len(toHost) /\ toHost'[i] = toHost[i + 0]
      BY <1>1, <2>1
    <2> QED BY <1>0, <1>1, <2>1, <2>2, LossInv
  <1>3. CASE timeout
    <2>1. /\ outcome = "running" /\ outcome' \in {"running", "failed"} /\ waiting' = FALSE
          /\ tries' \in Nat /\ tries' < retries /\ tries' <= retries
          /\ UNCHANGED <<session, at, toDev, toHost, family, mode, flash, intact>>
      BY <1>0, <1>1, <1>3 DEF timeout, end, active
    <2>2. faults' \in 0..MaxFaults /\ hasty' \in BOOLEAN
      <3>1. faults' = faults \/ (faults < MaxFaults /\ faults' = faults + 1)
        BY <1>3 DEF timeout
      <3>2. hasty' = hasty \/ hasty' = TRUE
        BY <1>3 DEF timeout
      <3>3. hasty' \in BOOLEAN
        BY <1>1, <3>2, Zenon
      <3> QED BY <1>0, <1>1, <3>1, <3>3
    <2>3. /\ \A i \in 1..Len(toDev') : i + 0 \in 1..Len(toDev) /\ toDev'[i] = toDev[i + 0]
          /\ \A i \in 1..Len(toHost') : i + 0 \in 1..Len(toHost) /\ toHost'[i] = toHost[i + 0]
      BY <1>1, <2>1
    <2> QED BY <1>0, <1>1, <2>1, <2>2, <2>3, LossInv
  <1>4. CASE lose
    <2>1. /\ UNCHANGED <<session, at, tries, waiting, outcome, family, mode, flash, intact, hasty>>
          /\ faults' \in 0..MaxFaults
      BY <1>0, <1>1, <1>4 DEF lose
    <2>2. ~waiting' => tries' < retries
      BY <1>0, <2>1 DEF Typed
    <2>3. tries' <= retries
      BY <1>0, <2>1 DEF Typed
    <2>4. CASE toDev # <<>> /\ toDev' = Tail(toDev) /\ UNCHANGED toHost
      <3>1. /\ toDev' \in Seq(Nat \ {0})
            /\ \A i \in 1..Len(toDev') : i + 1 \in 1..Len(toDev) /\ toDev'[i] = toDev[i + 1]
        BY <1>1, <2>4, Shorter
      <3>2. \A i \in 1..Len(toHost') : i + 0 \in 1..Len(toHost) /\ toHost'[i] = toHost[i + 0]
        BY <1>1, <2>4
      <3> QED BY <1>0, <1>1, <2>1, <2>2, <2>3, <2>4, <3>1, <3>2, LossInv
    <2>5. CASE toHost # <<>> /\ toHost' = Tail(toHost) /\ UNCHANGED toDev
      <3>1. /\ toHost' \in Seq(Reply)
            /\ \A i \in 1..Len(toHost') : i + 1 \in 1..Len(toHost) /\ toHost'[i] = toHost[i + 1]
        BY <1>1, <2>5, Shorter
      <3>2. \A i \in 1..Len(toDev') : i + 0 \in 1..Len(toDev) /\ toDev'[i] = toDev[i + 0]
        BY <1>1, <2>5
      <3> QED BY <1>0, <1>1, <2>1, <2>2, <2>3, <2>5, <3>1, <3>2, LossInv
    <2> QED BY <1>4, <2>4, <2>5 DEF lose
  <1>5. CASE powerCut
    <2>1. /\ UNCHANGED <<session, at, tries, waiting, outcome, family, flash, intact, hasty>>
          /\ faults' \in 0..MaxFaults /\ mode' = "off" /\ toDev' = <<>> /\ toHost' = <<>>
      BY <1>0, <1>1, <1>5 DEF powerCut
    <2>2. /\ tries' <= retries /\ (~waiting' => tries' < retries)
          /\ toDev' \in Seq(Nat \ {0}) /\ toHost' \in Seq(Reply)
      BY <1>0, <2>1 DEF Typed
    <2>3. /\ \A i \in 1..Len(toDev') : i + 0 \in 1..Len(toDev) /\ toDev'[i] = toDev[i + 0]
          /\ \A i \in 1..Len(toHost') : i + 0 \in 1..Len(toHost) /\ toHost'[i] = toHost[i + 0]
      BY <2>1
    <2> QED BY <1>0, <1>1, <2>1, <2>2, <2>3, LossInv
  <1> QED BY <1>2, <1>3, <1>4, <1>5

(* The ranges of flash, in cells. *)
LEMMA RangeFacts ==
  /\ N \in Nat /\ K \in Nat /\ 1 <= K /\ K < N
  /\ Range("low") = 1..K /\ Range("135") = 1..N /\ Range("150") = (K + 1)..N
  /\ \A r \in Ranges : Range(r) \subseteq Cells
  BY BootAssumption DEF Range, Cells, Ranges

(* A checksum is the content of its range. *)
LEMMA Content ==
  ASSUME flash \in [Cells -> Tags], NEW r \in Ranges
  PROVE  crc16(r) \in [Range(r) -> Tags] /\ crc16(r) \in Contents
  <1>1. Range(r) \subseteq Cells
    BY RangeFacts
  <1>2. crc16(r) \in [Range(r) -> Tags]
    BY <1>1 DEF crc16
  <1> QED BY <1>2 DEF Contents

(* The controller works through the first frame that is on its way to it. *)
LEMMA Served ==
  ASSUME Typed, serve
  PROVE  /\ toDev[1] \in Nat \ {0} /\ 1 \in 1..Len(toDev)
         /\ toDev' \in Seq(Nat \ {0})
         /\ \A i \in 1..Len(toDev') : i + 1 \in 1..Len(toDev) /\ toDev'[i] = toDev[i + 1]
         /\ toHost' \in Seq(Reply)
         /\ \A i \in 1..Len(toHost') :
               \/ i \in 1..Len(toHost) /\ toHost'[i] = toHost[i]
               \/ toHost'[i] = Answer(toDev[1]) /\ toDev[1] <= Last
         /\ Answer(toDev[1]).place = toDev[1]
         /\ Frame(toDev[1]).cmd = "crc" => Answer(toDev[1]).val = crc16(Frame(toDev[1]).of)
         /\ flash' \in [Cells -> Tags]
         /\ Frame(toDev[1]).cmd \notin {"erase", "program"} => flash' = flash
         /\ mode' = IF toDev[1] > Last THEN "app" ELSE mode
  <1> DEFINE h == toDev[1]
             f == Frame(h)
             a == Answer(h)
  <1>0. /\ session \in SessionType /\ toDev \in Seq(Nat \ {0}) /\ toHost \in Seq(Reply)
        /\ flash \in [Cells -> Tags] /\ toDev # <<>>
    BY DEF Typed, serve
  <1>1. /\ toDev' \in Seq(Nat \ {0}) /\ h \in Nat \ {0} /\ 1 \in 1..Len(toDev) /\ Head(toDev) = h
        /\ \A i \in 1..Len(toDev') : i + 1 \in 1..Len(toDev) /\ toDev'[i] = toDev[i + 1]
    BY <1>0, Shorter DEF serve
  <1>2. /\ f \in CommandSet /\ (h > Last <=> f = JumpToApp) /\ Last \in Nat
        /\ f.cmd = "crc" => f.of \in Ranges
        /\ f.cmd = "program" => f.of \in Image /\ f.cell \in Cells
    <2>1. /\ f \in CommandSet /\ (h > Last <=> f = JumpToApp) /\ Last \in Nat /\ session.img \in Image
          /\ f.cmd = "crc" => f.of \in Ranges
          /\ f.cmd = "program" => f.of = session.img /\ f.cell \in (Below(session.img) + 1)..N
      BY <1>0, <1>1, Frames DEF Ranges
    <2>2. (Below(session.img) + 1)..N \subseteq Cells
      BY <2>1, Sizes DEF Cells
    <2> QED BY <2>1, <2>2
  <1>3. a \in Reply /\ a.place = h /\ (f.cmd = "crc" => a.val = crc16(f.of))
    <2>1. f.cmd = "crc" => crc16(f.of) \in Contents
      BY <1>0, <1>2, Content
    <2>2. a = [place |-> h, val |-> IF f.cmd = "crc" THEN crc16(f.of) ELSE <<>>]
      BY DEF Answer
    <2> HIDE DEF h, f, a
    <2> QED BY <1>1, <2>1, <2>2 DEF Reply
  <1>4. flash' = Execute(f) /\ (f = JumpToApp => mode' = "app" /\ toHost' = toHost)
        /\ (f # JumpToApp => mode' = mode /\ toHost' = Append(toHost, a))
    BY <1>1 DEF serve
  <1> HIDE DEF h, f, a
  <1>5. toHost' \in Seq(Reply)
    BY <1>0, <1>3, <1>4
  <1>6. \A i \in 1..Len(toHost') :
           \/ i \in 1..Len(toHost) /\ toHost'[i] = toHost[i]
           \/ toHost'[i] = a /\ h <= Last
    BY <1>0, <1>1, <1>2, <1>3, <1>4
  <1>7. flash' \in [Cells -> Tags] /\ (f.cmd \notin {"erase", "program"} => flash' = flash)
    BY <1>0, <1>2, <1>4 DEF Execute, Tags
  <1>8. mode' = IF h > Last THEN "app" ELSE mode
    BY <1>1, <1>2, <1>4
  <1> QED BY <1>1, <1>3, <1>5, <1>6, <1>7, <1>8 DEF h, f, a

(* serve keeps the invariant. *)
LEMMA serveInv ==
  ASSUME FlashInv, serve
  PROVE  FlashInv'
  <1> DEFINE h == toDev[1]
             f == Frame(h)
             a == Answer(h)
  <1>0. /\ Typed /\ Order /\ Progress /\ Checksums /\ Guard
        /\ UNCHANGED <<session, at, tries, waiting, outcome, seen, family, intact, hasty, faults>>
    BY DEF FlashInv, serve
  <1>1. /\ at \in Nat \ {0} /\ at <= Last + 1 /\ Last \in Nat /\ Last' = Last /\ writing' = writing
        /\ want' = want /\ session.img \in Image /\ session \in SessionType
        /\ (writing => Last >= 5)
    BY <1>0, Same, Frames DEF Typed
  <1>2. /\ h \in Nat \ {0} /\ 1 \in 1..Len(toDev) /\ toDev' \in Seq(Nat \ {0})
        /\ toHost' \in Seq(Reply) /\ a.place = h /\ (f.cmd = "crc" => a.val = crc16(f.of))
        /\ flash' \in [Cells -> Tags]
        /\ (f.cmd \notin {"erase", "program"} => flash' = flash)
        /\ mode' = IF h > Last THEN "app" ELSE mode
    BY <1>0, Served
  <1>3. /\ \A i \in 1..Len(toDev') : i + 1 \in 1..Len(toDev) /\ toDev'[i] = toDev[i + 1]
        /\ \A i \in 1..Len(toHost') :
               \/ i \in 1..Len(toHost) /\ toHost'[i] = toHost[i]
               \/ toHost'[i] = a /\ h <= Last
    BY <1>0, Served
  <1>4. /\ (writing /\ h = 2 => f = ReadCRC("low"))
        /\ (writing /\ h = Last => f = ReadCRC(want))
        /\ (f.cmd \in {"erase", "program"} => writing /\ h >= 3 /\ h < Last)
        /\ (f.cmd = "program" => f.of = session.img /\ f.cell \in (Below(session.img) + 1)..N)
    BY <1>1, <1>2, Frames
  <1>5. h <= at /\ \A j \in 1..Len(toDev) : h <= toDev[j]
    BY <1>0, <1>2 DEF Order, Typed
  <1>6. \A i \in 1..Len(toHost) : toHost[i].place <= h
    BY <1>0, <1>2 DEF Order
  <1> HIDE DEF h, a
  <1>7. Typed'
    <2>1. retries' = retries
      BY <1>0, <1>1 DEF retries, current, Frame
    <2>2. mode' \in {"boot", "off", "app"}
      BY <1>0, <1>2 DEF Typed
    <2> QED BY <1>0, <1>1, <1>2, <2>1, <2>2 DEF Typed
  <1>8. Order'
    <2>1. \A i \in 1..Len(toDev') : toDev'[i] <= at
      BY <1>0, <1>3 DEF Order
    <2>2. ASSUME NEW i \in 1..Len(toDev'), NEW j \in 1..Len(toDev'), i <= j
          PROVE  toDev'[i] <= toDev'[j]
      <3>1. i + 1 \in 1..Len(toDev) /\ toDev'[i] = toDev[i + 1] /\ j + 1 \in 1..Len(toDev) /\ toDev'[j] = toDev[j + 1]
        BY <1>3
      <3>2. i + 1 <= j + 1
        BY <1>2, <2>2
      <3> QED BY <1>0, <3>1, <3>2 DEF Order
    <2>3. \A i \in 1..Len(toHost') : toHost'[i].place <= at
      BY <1>0, <1>2, <1>3, <1>5 DEF Order
    <2>4. ASSUME NEW i \in 1..Len(toHost'), NEW j \in 1..Len(toDev')
          PROVE  toHost'[i].place <= toDev'[j]
      <3>1. j + 1 \in 1..Len(toDev) /\ toDev'[j] = toDev[j + 1] /\ h <= toDev[j + 1]
        BY <1>3, <1>5
      <3>2. CASE i \in 1..Len(toHost) /\ toHost'[i] = toHost[i]
        BY <1>0, <3>1, <3>2 DEF Order
      <3>3. CASE toHost'[i] = a
        BY <1>2, <3>1, <3>3
      <3> QED BY <1>3, <3>2, <3>3
    <2> QED BY <1>0, <2>1, <2>2, <2>3, <2>4 DEF Order
  <1>9. Progress'
    <2>1. session.why # "run" => \A i \in 1..Len(toDev') : toDev'[i] <= Last
      BY <1>0, <1>3 DEF Progress
    <2>2. h > Last => session.why = "run" /\ at = Last + 1
      BY <1>0, <1>1, <1>2, <1>5 DEF Progress, h
    <2> QED BY <1>0, <1>1, <1>2, <2>1, <2>2 DEF Progress
  <1>10. Checksums'
    <2> SUFFICES ASSUME writing
                 PROVE  /\ \A i \in 1..Len(toHost') : toHost'[i].place = Last => toHost'[i].val = (crc16(want))'
                        /\ \A i \in 1..Len(toHost') : toHost'[i].place = 2 => toHost'[i].val \in [Range("low") -> Tags]
                        /\ at = Last + 1 => (Installed(session.img))' /\ \A j \in 1..Len(toDev') : toDev'[j] >= Last
      BY <1>0, <1>1 DEF Checksums
    <2>0. h >= Last => (crc16(want))' = crc16(want) /\ (Installed(session.img))' = Installed(session.img)
      BY <1>0, <1>1, <1>2, <1>4 DEF crc16, Installed
    <2>1. /\ \A i \in 1..Len(toHost) : toHost[i].place = Last => toHost[i].val = crc16(want)
          /\ \A i \in 1..Len(toHost) : toHost[i].place = 2 => toHost[i].val \in [Range("low") -> Tags]
          /\ at = Last + 1 => Installed(session.img) /\ \A j \in 1..Len(toDev) : toDev[j] >= Last
      BY <1>0 DEF Checksums
    <2>2. ReadCRC(want).cmd = "crc" /\ ReadCRC(want).of = want /\ ReadCRC("low").cmd = "crc" /\ ReadCRC("low").of = "low"
      BY DEF ReadCRC, Command
    <2>3. ASSUME NEW i \in 1..Len(toHost')
          PROVE  /\ toHost'[i].place = Last => toHost'[i].val = (crc16(want))'
                 /\ toHost'[i].place = 2 => toHost'[i].val \in [Range("low") -> Tags]
      <3>1. CASE i \in 1..Len(toHost) /\ toHost'[i] = toHost[i]
        BY <1>1, <1>2, <1>6, <2>0, <2>1, <3>1
      <3>2. CASE toHost'[i] = a
        <4>1. a.place = Last => a.val = (crc16(want))'
          BY <1>1, <1>2, <1>4, <2>0, <2>2
        <4>2. a.place = 2 => a.val = crc16("low")
          BY <1>1, <1>2, <1>4, <2>2
        <4>3. crc16("low") \in [Range("low") -> Tags]
          BY <1>0, Content DEF Typed, Ranges
        <4> QED BY <3>2, <4>1, <4>2, <4>3
      <3> QED BY <1>3, <3>1, <3>2
    <2>4. ASSUME at = Last + 1
          PROVE  (Installed(session.img))' /\ \A j \in 1..Len(toDev') : toDev'[j] >= Last
      <3>1. h >= Last
        BY <1>2, <2>1, <2>4 DEF h
      <3> QED BY <1>3, <2>0, <2>1, <2>4, <3>1
    <2> QED BY <2>3, <2>4
  <1>11. Guard'
    <2>1. family = "150" => \A c \in 1..K : flash'[c] = "erased"
      <3> SUFFICES ASSUME family = "150", NEW c \in 1..K
                   PROVE  flash'[c] = "erased"
        OBVIOUS
      <3>1. flash[c] = "erased" /\ c \in Cells /\ c \notin Range("150") /\ flash \in [Cells -> Tags]
        BY <1>0, RangeFacts DEF Guard, Cells, Typed
      <3>2. flash' = Execute(f)
        BY <1>0, Shorter DEF serve, h, Typed
      <3>3. CASE f.cmd = "erase"
        BY <3>1, <3>2, <3>3 DEF Execute
      <3>4. CASE f.cmd = "program"
        <4>1. writing /\ at >= 3
          BY <1>1, <1>2, <1>4, <1>5, <3>4
        <4>2. FamilyOf[session.img] = "150"
          BY <1>0, <4>1 DEF Guard, want
        <4>3. f.cell # c
          BY <1>1, <1>4, <3>4, <4>2, Sizes
        <4> QED BY <3>1, <3>2, <3>4, <4>3 DEF Execute
      <3>5. CASE f.cmd \notin {"erase", "program"}
        BY <1>2, <3>1, <3>5
      <3> QED BY <3>3, <3>4, <3>5
    <2>2. ~writing \/ at <= 2 => flash' = flash
      BY <1>1, <1>2, <1>4, <1>5
    <2>3. intact /\ (~writing \/ at <= 2) => Whole'
      BY <1>0, <2>2 DEF Guard, Whole, Installed
    <2>4. ASSUME writing, at <= 2, NEW i \in 1..Len(toHost'), toHost'[i].place = 2
          PROVE  toHost'[i].val = (crc16("low"))'
      <3>1. (crc16("low"))' = crc16("low")
        BY <2>2, <2>4 DEF crc16
      <3>2. CASE i \in 1..Len(toHost) /\ toHost'[i] = toHost[i]
        BY <1>0, <2>4, <3>1, <3>2 DEF Guard
      <3>3. CASE toHost'[i] = a
        BY <1>2, <1>4, <2>4, <3>1, <3>3 DEF ReadCRC, Command
      <3> QED BY <1>3, <3>2, <3>3
    <2> QED BY <1>0, <1>1, <2>1, <2>3, <2>4 DEF Guard
  <1> QED BY <1>7, <1>8, <1>9, <1>10, <1>11 DEF FlashInv

(* The answer that await takes: some frame that echoes the command. *)
LEMMA Awaited ==
  ASSUME Typed, await
  PROVE  \E n \in 1..Len(toHost) :
           /\ toHost' = SubSeq(toHost, n + 1, Len(toHost))
           /\ \/ UNCHANGED host
              \/ \E k \in 1..Len(toHost) : /\ Frame(toHost[k].place).cmd = current.cmd
                                           /\ accept(toHost[k])
  <1>1. PICK n \in 1..Len(toHost) :
           /\ toHost' = SubSeq(toHost, n + 1, Len(toHost))
           /\ \/ UNCHANGED host
              \/ \E k \in {i \in 1..n : Frame(toHost[i].place).cmd = current.cmd} : accept(toHost[k])
    BY DEF await
  <1>2. 1..n \subseteq 1..Len(toHost)
    BY DEF Typed
  <1> QED BY <1>1, <1>2

(* A session that goes on from DetectAppBase has the controller's family, *)
(* unless the low cells of a 135 were already gone.                       *)
LEMMA BaseDetected ==
  ASSUME FlashInv, writing, at = 2, intact \/ family = "150",
         base(crc16("low")) = want
  PROVE  want = family
  <1>0. flash \in [Cells -> Tags] /\ family \in {"135", "150"} /\ Guard
    BY DEF FlashInv, Typed, Families
  <1>1. CASE family = "150"
    <2>1. \A c \in Range("low") : flash[c] = "erased"
      BY <1>0, <1>1, RangeFacts DEF Guard
    <2>2. crc16("low") = ErasedCRC
      BY <2>1 DEF crc16, ErasedCRC
    <2> QED BY <1>1, <2>2 DEF base
  <1>2. CASE family = "135"
    <2>1. PICK g \in Image : FamilyOf[g] = family /\ Installed(g)
      BY <1>0, <1>2 DEF Guard, Whole
    <2>2. 1 \in Range("low") /\ flash[1] = g /\ g # "erased"
      BY <1>2, <2>1, RangeFacts, BootAssumption DEF Installed
    <2>3. crc16("low")[1] = g /\ ErasedCRC[1] = "erased"
      BY <2>2 DEF crc16, ErasedCRC
    <2>4. crc16("low") # ErasedCRC
      BY <2>2, <2>3
    <2> QED BY <1>2, <2>4 DEF base
  <1> QED BY <1>0, <1>1, <1>2

(* The content Verify compares, and the content of the low cells. *)
LEMMA Verified ==
  ASSUME session \in SessionType, flash \in [Cells -> Tags]
  PROVE  /\ crc16(want) = CRC(session.img) => Installed(session.img)
         /\ CRC(session.img) \notin [Range("low") -> Tags]
  <1>1. want \in {"135", "150"} /\ want = FamilyOf[session.img] /\ session.img \in Image
    BY Sizes DEF SessionType, want, Families
  <1>2. ASSUME crc16(want) = CRC(session.img), NEW c \in Range(want)
        PROVE  flash[c] = session.img
    <2>1. crc16(want)[c] = flash[c] /\ CRC(session.img)[c] = session.img
      BY <1>1 DEF crc16, CRC
    <2> QED BY <1>2, <2>1
  <1>3. Range(want) # Range("low")
    <2>1. N \in 1..N /\ N \in (K + 1)..N /\ N \notin 1..K
      BY RangeFacts
    <2> QED BY <1>1, <2>1, RangeFacts
  <1>4. DOMAIN CRC(session.img) = Range(want)
    BY <1>1 DEF CRC
  <1> QED BY <1>1, <1>2, <1>3, <1>4 DEF Installed

(* The answer is taken: the session goes on, or ends. *)
LEMMA AcceptInv ==
  ASSUME FlashInv, active, NEW k \in 1..Len(toHost), accept(toHost[k]),
         Frame(toHost[k].place).cmd = current.cmd,
         toHost' \in Seq(Reply), NEW n \in Nat,
         \A i \in 1..Len(toHost') : i + n \in 1..Len(toHost) /\ toHost'[i] = toHost[i + n],
         UNCHANGED <<toDev, family, mode, flash, intact, hasty, faults>>
  PROVE  FlashInv'
  <1> DEFINE v == toHost[k].val
             m == toHost[k].place
  <1>0. Typed /\ Order /\ Progress /\ Checksums /\ Guard
    BY DEF FlashInv
  <1>1. /\ at \in Nat \ {0} /\ at <= Last /\ Last \in Nat /\ session \in SessionType
        /\ outcome = "running" /\ Len(toHost) \in Nat /\ Len(toDev) \in Nat /\ toDev \in Seq(Nat \ {0})
        /\ flash \in [Cells -> Tags] /\ (writing => Last >= 5) /\ retries \in Nat /\ retries >= 1
        /\ m \in Nat \ {0} /\ waiting \in BOOLEAN /\ want \in {"135", "150"}
    <2>1. /\ at \in Nat \ {0} /\ session \in SessionType /\ toHost \in Seq(Reply) /\ toDev \in Seq(Nat \ {0})
          /\ flash \in [Cells -> Tags] /\ waiting \in BOOLEAN
      BY <1>0, Frames DEF Typed
    <2>2. /\ at <= Last /\ outcome = "running"
      BY DEF active
    <2>3. Last \in Nat /\ (writing => Last >= 5) /\ want \in {"135", "150"}
      BY <2>1, Frames
    <2>4. toHost[k] \in Reply
      BY <2>1
    <2>5. m \in Nat \ {0}
      BY <2>4 DEF Reply
    <2> QED BY <2>1, <2>2, <2>3, <2>5, Retries
  <1>2. current = Frame(at)
    BY DEF current
  <1>3. /\ (writing /\ at = 2 => current = ReadCRC("low"))
        /\ (writing /\ at = Last => current = ReadCRC(want))
        /\ (current.cmd = "crc" /\ writing => at = 2 \/ at = Last)
        /\ (Frame(m).cmd = "crc" /\ writing => m = 2 \/ m = Last)
    BY <1>1, <1>2, Frames
  <1>4. m <= at /\ \A j \in 1..Len(toDev) : m <= toDev[j]
    BY <1>0 DEF Order
  <1>5. /\ ReadCRC("low").cmd = "crc" /\ ReadCRC(want).cmd = "crc"
        /\ ReadCRC("low").of = "low" /\ ReadCRC(want).of = want /\ want # "low"
    BY <1>1 DEF ReadCRC, Command
  <1> HIDE DEF v, m
  <1>6. CASE \/ end("mismatch") /\ writing /\ current = ReadCRC("low")
             \/ end("failed")
    <2>1. \/ outcome' = "failed"
          \/ outcome' = "mismatch" /\ writing /\ at = 2
      BY <1>1, <1>3, <1>5, <1>6 DEF end
    <2>2. waiting' = FALSE /\ tries' \in Nat /\ tries' <= retries /\ tries' < retries /\ UNCHANGED <<session, at>>
      BY <1>1, <1>6 DEF end
    <2>3. \A i \in 1..Len(toDev') : i + 0 \in 1..Len(toDev) /\ toDev'[i] = toDev[i + 0]
      BY <1>1
    <2>4. faults' \in 0..MaxFaults /\ hasty' \in BOOLEAN /\ toDev' \in Seq(Nat \ {0})
      BY <1>0, <1>1 DEF Typed
    <2> QED BY <1>1, <2>1, <2>2, <2>3, <2>4, LossInv
  <1>7. CASE /\ advance
             /\ ~(writing /\ current = ReadCRC("low") /\ base(v) # want)
             /\ ~(writing /\ current = ReadCRC(want) /\ v # CRC(session.img))
    <2>1. /\ at' = at + 1 /\ waiting' = FALSE /\ tries' = 0 /\ UNCHANGED session
          /\ outcome' = IF at = Last /\ session.why # "run" THEN "ok" ELSE "running"
      BY <1>7 DEF advance
    <2>2. Last' = Last /\ writing' = writing /\ want' = want
      BY <2>1, Same
    <2>3. Typed'
      <3>1. retries' \in Nat /\ retries' >= 1
        BY BootAssumption DEF retries
      <3>2. at' \in 1..(Last' + 1)
        BY <1>1, <2>1, <2>2
      <3>3. outcome' \in {"running", "ok", "failed", "mismatch", "broken"} /\ waiting' \in BOOLEAN
        BY <2>1
      <3>4. tries' \in Nat /\ tries' <= retries' /\ tries' < retries'
        BY <2>1, <3>1
      <3>5. session' \in SessionType /\ toDev' \in Seq(Nat \ {0}) /\ flash' \in [Cells -> Tags]
        BY <1>1, <2>1
      <3>6. /\ family' \in Families /\ mode' \in {"boot", "off", "app"} /\ intact' \in BOOLEAN
            /\ hasty' \in BOOLEAN /\ faults' \in 0..MaxFaults
        BY <1>0 DEF Typed
      <3> QED BY <3>2, <3>3, <3>4, <3>5, <3>6 DEF Typed
    <2>4. Order'
      <3>1. \A i \in 1..Len(toDev) : toDev[i] <= at + 1
        BY <1>0, <1>1 DEF Order
      <3>2. ASSUME NEW i \in 1..Len(toHost')
            PROVE  toHost'[i].place <= at + 1
        <4>1. toHost'[i] \in Reply /\ i + n \in 1..Len(toHost) /\ toHost'[i] = toHost[i + n]
          OBVIOUS
        <4>2. toHost'[i].place \in Nat
          BY <4>1 DEF Reply
        <4>3. toHost'[i].place <= at
          BY <1>0, <4>1 DEF Order
        <4> QED BY <1>1, <4>2, <4>3
      <3>3. \A i \in 1..Len(toHost'), j \in 1..Len(toDev) : toHost'[i].place <= toDev[j]
        BY <1>0 DEF Order
      <3>4. \A i, j \in 1..Len(toDev) : i <= j => toDev[i] <= toDev[j]
        BY <1>0 DEF Order
      <3> QED BY <2>1, <3>1, <3>2, <3>3, <3>4 DEF Order
    <2>5. Progress'
      <3>1. mode # "app"
        BY <1>0, <1>1 DEF Progress
      <3>2. session.why # "run" => \A i \in 1..Len(toDev) : toDev[i] <= Last
        BY <1>0 DEF Progress
      <3> QED BY <1>1, <2>1, <2>2, <3>1, <3>2 DEF Progress
    <2>6. Checksums'
      <3> SUFFICES ASSUME writing
                   PROVE  /\ \A i \in 1..Len(toHost') : toHost'[i].place = Last => toHost'[i].val = crc16(want)
                          /\ \A i \in 1..Len(toHost') : toHost'[i].place = 2 => toHost'[i].val \in [Range("low") -> Tags]
                          /\ at + 1 = Last + 1 => Installed(session.img) /\ \A j \in 1..Len(toDev) : toDev[j] >= Last
        BY <2>1, <2>2 DEF Checksums, crc16, Installed
      <3>1. /\ \A i \in 1..Len(toHost) : toHost[i].place = Last => toHost[i].val = crc16(want)
            /\ \A i \in 1..Len(toHost) : toHost[i].place = 2 => toHost[i].val \in [Range("low") -> Tags]
        BY <1>0 DEF Checksums
      <3>2. /\ \A i \in 1..Len(toHost') : toHost'[i].place = Last => toHost'[i].val = crc16(want)
            /\ \A i \in 1..Len(toHost') : toHost'[i].place = 2 => toHost'[i].val \in [Range("low") -> Tags]
        BY <3>1
      <3>3. ASSUME at + 1 = Last + 1
            PROVE  Installed(session.img) /\ \A j \in 1..Len(toDev) : toDev[j] >= Last
        <4>1. at = Last /\ current = ReadCRC(want) /\ v = CRC(session.img)
          BY <1>1, <1>3, <1>7, <3>3
        <4>2. m = 2 \/ m = Last
          BY <1>3, <1>5, <4>1 DEF m
        <4>3. m # 2
          BY <1>1, <3>1, <4>1, Verified DEF m, v
        <4>4. v = crc16(want)
          BY <3>1, <4>2, <4>3 DEF m, v
        <4>5. Installed(session.img)
          BY <1>1, <4>1, <4>4, Verified
        <4>6. \A j \in 1..Len(toDev) : toDev[j] >= Last
          BY <1>1, <1>4, <4>2, <4>3
        <4> QED BY <4>5, <4>6
      <3> QED BY <3>2, <3>3
    <2>7. Guard'
      <3>1. ASSUME writing, at + 1 >= 3, intact \/ family = "150"
            PROVE  want = family
        <4>1. CASE at >= 3
          BY <1>0, <3>1, <4>1 DEF Guard
        <4>2. CASE at = 2
          <5>1. current = ReadCRC("low") /\ base(v) = want
            BY <1>3, <1>7, <3>1, <4>2
          <5>2. m = 2
            BY <1>1, <1>3, <1>4, <1>5, <3>1, <4>2, <5>1 DEF m
          <5>3. v = crc16("low")
            BY <1>0, <3>1, <4>2, <5>2 DEF Guard, m, v
          <5> QED BY <3>1, <4>2, <5>1, <5>3, BaseDetected
        <4> QED BY <1>1, <3>1, <4>1, <4>2
      <3>2. ASSUME intact, ~writing \/ at + 1 <= 2
            PROVE  Whole
        BY <1>0, <1>1, <3>2 DEF Guard
      <3>3. ASSUME writing, at + 1 <= 2, NEW i \in 1..Len(toHost'), toHost'[i].place = 2
            PROVE  toHost'[i].val = crc16("low")
        <4>1. i + n \in 1..Len(toHost) /\ toHost'[i] = toHost[i + n] /\ at <= 2
          BY <1>1, <3>3
        <4> QED BY <1>0, <3>3, <4>1 DEF Guard
      <3>4. family = "150" => \A c \in 1..K : flash[c] = "erased"
        BY <1>0 DEF Guard
      <3>5. (crc16("low"))' = crc16("low") /\ Whole' = Whole
        BY DEF crc16, Whole, Installed
      <3> QED BY <2>1, <2>2, <3>1, <3>2, <3>3, <3>4, <3>5 DEF Guard
    <2> QED BY <2>3, <2>4, <2>5, <2>6, <2>7 DEF FlashInv
  <1>8. \/ end("mismatch") /\ writing /\ current = ReadCRC("low")
        \/ end("failed")
        \/ /\ advance
           /\ ~(writing /\ current = ReadCRC("low") /\ base(v) # want)
           /\ ~(writing /\ current = ReadCRC(want) /\ v # CRC(session.img))
    <2>1. CASE writing /\ current = ReadCRC("low") /\ base(v) # want
      <3>1. ~(writing /\ current = ReadCRC(want) /\ toHost[k].val # CRC(session.img))
        BY <1>5, <2>1
      <3>2. ~(session.why = "identify" /\ current.of \in Families)
        BY <1>5, <2>1 DEF Families
      <3> QED BY <2>1, <3>1, <3>2 DEF accept, v
    <2>2. CASE writing /\ current = ReadCRC(want) /\ v # CRC(session.img)
      <3>1. ~(writing /\ current = ReadCRC("low") /\ base(toHost[k].val) # want)
        BY <1>5, <2>2
      <3>2. ~(session.why = "identify" /\ current.of \in Families)
        BY <2>2 DEF writing
      <3> QED BY <2>2, <3>1, <3>2 DEF accept, v
    <2>3. CASE /\ ~(writing /\ current = ReadCRC("low") /\ base(v) # want)
               /\ ~(writing /\ current = ReadCRC(want) /\ v # CRC(session.img))
      <3>1. advance
        BY <2>3 DEF accept, v
      <3> QED BY <2>3, <3>1
    <2> QED BY <2>1, <2>2, <2>3
  <1> QED BY <1>6, <1>7, <1>8

(* await keeps the invariant. *)
LEMMA awaitInv ==
  ASSUME FlashInv, await
  PROVE  FlashInv'
  <1>0. /\ Typed /\ active /\ UNCHANGED <<toDev, family, mode, flash, intact, hasty, faults>>
        /\ toHost \in Seq(Reply) /\ toDev \in Seq(Nat \ {0}) /\ Len(toDev) \in Nat /\ 0 \in Nat
    BY DEF FlashInv, await, Typed
  <1>1. PICK n \in 1..Len(toHost) :
           /\ toHost' = SubSeq(toHost, n + 1, Len(toHost))
           /\ \/ UNCHANGED host
              \/ \E k \in 1..Len(toHost) : /\ Frame(toHost[k].place).cmd = current.cmd
                                           /\ accept(toHost[k])
    BY <1>0, Awaited
  <1>2. /\ toHost' \in Seq(Reply) /\ n \in Nat
        /\ \A i \in 1..Len(toHost') : i + n \in 1..Len(toHost) /\ toHost'[i] = toHost[i + n]
    BY <1>0, <1>1, Rest
  <1>3. CASE UNCHANGED host
    <2>1. UNCHANGED <<session, at, tries, waiting, outcome>>
      BY <1>3 DEF host
    <2>2. /\ tries' \in Nat /\ tries' <= retries /\ (~waiting' => tries' < retries) /\ waiting' \in BOOLEAN
          /\ faults' \in 0..MaxFaults /\ hasty' \in BOOLEAN
      BY <1>0, <2>1 DEF Typed
    <2>3. \A i \in 1..Len(toDev') : i + 0 \in 1..Len(toDev) /\ toDev'[i] = toDev[i + 0]
      BY <1>0
    <2> QED BY <1>0, <1>2, <2>1, <2>2, <2>3, LossInv
  <1>4. CASE \E k \in 1..Len(toHost) : /\ Frame(toHost[k].place).cmd = current.cmd
                                       /\ accept(toHost[k])
    BY <1>0, <1>2, <1>4, AcceptInv
  <1> QED BY <1>1, <1>3, <1>4

(* The first place of a script is one of its places, and not its end. *)
LEMMA First ==
  ASSUME NEW n \in Nat, n >= 1
  PROVE  1 \in 1..(n + 1) /\ 1 # n + 1
  OBVIOUS

(* A session begins on quiet wires. *)
LEMMA BeginInv ==
  ASSUME session' \in SessionType, at' = 1, tries' = 0, waiting' = FALSE, outcome' = "running",
         toDev' = <<>>, toHost' = <<>>, faults' = 0, hasty' = FALSE, mode' = "boot",
         family' \in Families, flash' \in [Cells -> Tags], intact' \in BOOLEAN,
         intact' => Whole',
         family' = "150" => \A c \in 1..K : flash'[c] = "erased"
  PROVE  FlashInv'
  <1>1. Last' \in Nat /\ Last' >= 1
    BY Scripts DEF Last
  <1>2. Typed'
    <2>1. retries' \in Nat /\ retries' >= 1
      BY BootAssumption DEF retries
    <2>2. /\ at' \in 1..(Last' + 1) /\ faults' \in 0..MaxFaults
          /\ tries' \in Nat /\ tries' <= retries' /\ tries' < retries'
      <3>1. MaxFaults \in Nat
        BY BootAssumption
      <3>2. at' \in 1..(Last' + 1)
        BY <1>1, First, Zenon
      <3>3. faults' \in 0..MaxFaults
        BY <3>1
      <3>4. tries' \in Nat /\ tries' <= retries' /\ tries' < retries'
        BY <2>1
      <3> QED BY <3>2, <3>3, <3>4
    <2>3. toDev' \in Seq(Nat \ {0}) /\ toHost' \in Seq(Reply)
      OBVIOUS
    <2> QED BY <2>2, <2>3 DEF Typed
  <1>3. Order'
    BY DEF Order
  <1>4. Progress'
    BY <1>1 DEF Progress
  <1>5. Checksums'
    <2>1. at' # Last' + 1
      BY <1>1, First, Zenon
    <2>2. 1..Len(toHost') = {}
      OBVIOUS
    <2> QED BY <2>1, <2>2 DEF Checksums
  <1>6. Guard'
    BY DEF Guard
  <1> QED BY <1>2, <1>3, <1>4, <1>5, <1>6 DEF FlashInv

(* again keeps the invariant. *)
LEMMA againInv ==
  ASSUME FlashInv, again
  PROVE  FlashInv'
  <1>1. Typed /\ Guard
    BY DEF FlashInv
  <1>2. PICK s \in Purposes : Begin(session.n + 1, s)
    BY DEF again
  <1>3. session' \in SessionType
    <2>1. session.n \in 1..(MaxSessions + 1) /\ session.n < MaxSessions /\ MaxSessions \in Nat
      BY <1>1, BootAssumption DEF again, Typed, SessionType
    <2>2. session.n + 1 \in 1..(MaxSessions + 1)
      BY <2>1
    <2> QED BY <1>2, <2>2 DEF Begin, Purposes, SessionType
  <1>4. /\ at' = 1 /\ tries' = 0 /\ waiting' = FALSE /\ outcome' = "running"
        /\ toDev' = <<>> /\ toHost' = <<>> /\ faults' = 0 /\ hasty' = FALSE /\ mode' = "boot"
        /\ UNCHANGED <<family, flash>>
    BY <1>2 DEF again, Begin
  <1>5. intact' = Whole
    BY DEF again, Whole
  <1>6. Whole' = Whole
    BY <1>4 DEF Whole, Installed
  <1>7. intact' \in BOOLEAN
    BY <1>5 DEF Whole
  <1>8. family' \in Families /\ flash' \in [Cells -> Tags] /\ (family' = "150" => \A c \in 1..K : flash'[c] = "erased")
    BY <1>1, <1>4 DEF Typed, Guard
  <1>9. intact' => Whole'
    BY <1>5, <1>6
  <1> QED BY <1>3, <1>4, <1>7, <1>8, <1>9, BeginInv

(* The invariant holds when rstflash is first run. *)
LEMMA InitInv ==
  ASSUME Init
  PROVE  FlashInv
  <1>1. session \in SessionType /\ family \in {"135", "150"}
    <2>1. PICK s \in Purposes : session = [n |-> 1, why |-> s.why, img |-> s.img]
      BY DEF Init
    <2>2. 1 \in 1..(MaxSessions + 1)
      BY BootAssumption
    <2> QED BY <2>1, <2>2 DEF Init, Purposes, SessionType, Families
  <1>2. Last \in Nat /\ Last >= 1
    BY <1>1, Scripts DEF Last
  <1>3. PICK old \in Image : /\ FamilyOf[old] = family
                             /\ flash = [c \in Cells |-> IF c \in Range(family) THEN old ELSE "erased"]
    BY DEF Init
  <1>4. flash \in [Cells -> Tags] /\ Range(family) \subseteq Cells
    BY <1>1, <1>3, RangeFacts DEF Tags, Ranges
  <1>5. Whole
    BY <1>3, <1>4 DEF Whole, Installed
  <1>6. family = "150" => \A c \in 1..K : flash[c] = "erased"
    BY <1>3, RangeFacts DEF Cells
  <1>7. /\ at = 1 /\ tries = 0 /\ waiting = FALSE /\ outcome = "running" /\ toDev = <<>> /\ toHost = <<>>
        /\ faults = 0 /\ hasty = FALSE /\ mode = "boot" /\ intact = TRUE
    BY DEF Init
  <1>8. Typed
    <2>1. retries \in Nat /\ retries >= 1
      BY Retries
    <2>2. /\ at \in 1..(Last + 1) /\ faults \in 0..MaxFaults
          /\ tries \in Nat /\ tries <= retries /\ tries < retries
      BY <1>2, <1>7, <2>1, BootAssumption
    <2>3. toDev \in Seq(Nat \ {0}) /\ toHost \in Seq(Reply)
      BY <1>7
    <2> QED BY <1>1, <1>4, <1>7, <2>2, <2>3 DEF Typed, Families
  <1>9. Order /\ Progress /\ Checksums
    BY <1>2, <1>7 DEF Order, Progress, Checksums
  <1>10. Guard
    BY <1>5, <1>6, <1>7 DEF Guard
  <1> QED BY <1>8, <1>9, <1>10 DEF FlashInv

(* Every step keeps the invariant. *)
LEMMA NextInv ==
  ASSUME FlashInv, [Next]_vars
  PROVE  FlashInv'
  <1>1. CASE UNCHANGED vars
    <2>1. /\ UNCHANGED <<session, at, tries, waiting, outcome, toDev, toHost, family, mode, flash, intact, hasty, faults>>
          /\ Typed /\ 0 \in Nat
      BY <1>1 DEF vars, FlashInv
    <2>2. /\ tries' \in Nat /\ tries' <= retries /\ (~waiting' => tries' < retries) /\ waiting' \in BOOLEAN
          /\ faults' \in 0..MaxFaults /\ hasty' \in BOOLEAN
          /\ toDev' \in Seq(Nat \ {0}) /\ toHost' \in Seq(Reply)
      BY <2>1 DEF Typed
    <2>3. /\ \A i \in 1..Len(toDev') : i + 0 \in 1..Len(toDev) /\ toDev'[i] = toDev[i + 0]
          /\ \A i \in 1..Len(toHost') : i + 0 \in 1..Len(toHost) /\ toHost'[i] = toHost[i + 0]
      BY <2>1, <2>2
    <2> QED BY <2>1, <2>2, <2>3, LossInv
  <1>2. CASE write BY <1>2, writeInv
  <1>3. CASE transportFails \/ timeout \/ lose \/ powerCut BY <1>3, LineInv
  <1>4. CASE await BY <1>4, awaitInv
  <1>5. CASE Run BY <1>5, RunInv
  <1>6. CASE serve BY <1>6, serveInv
  <1>7. CASE again BY <1>7, againInv
  <1> QED BY <1>1, <1>2, <1>3, <1>4, <1>5, <1>6, <1>7 DEF Next, HostStep

(* For any images, any number of frames and attempts, and any faults: the *)
(* frames of a session stay in order, a checksum that passes Verify was   *)
(* computed behind all of them, and the family is known before the erase. *)
THEOREM FlashInvariant == Spec => []FlashInv
  <1>1. Init => FlashInv
    BY InitInv
  <1>2. FlashInv /\ [Next]_vars => FlashInv'
    BY NextInv
  <1> QED BY <1>1, <1>2, PTL DEF Spec

(* The state of rstflash and of the controller keeps its types; no command *)
(* is attempted more often than its retries allow.                         *)
THEOREM FlashTypes == Spec => []TypeOK
  <1>1. FlashInv => TypeOK
    <2> SUFFICES ASSUME FlashInv
                 PROVE  TypeOK
      OBVIOUS
    <2>1. tries \in 0..(commandRetries + connectRetries)
      BY Retries, BootAssumption DEF FlashInv, Typed
    <2> QED BY <2>1 DEF FlashInv, Typed, TypeOK, SessionType
  <1> QED BY <1>1, FlashInvariant, PTL

(* rstflash reports a flash as successful only when every cell of the *)
(* image's range holds the image, whatever the line did.              *)
THEOREM InstalledTheorem == Spec => []OkMeansInstalled
  <1>1. FlashInv => OkMeansInstalled
    BY DEF FlashInv, Progress, Checksums, OkMeansInstalled
  <1> QED BY <1>1, FlashInvariant, PTL

(* JUMP_TO_APP starts the controller only on a whole image. *)
THEOREM RunsTheorem == Spec => []RunsWhole
  <1>1. FlashInv => RunsWhole
    <2> SUFFICES ASSUME FlashInv, mode = "app"
                 PROVE  \E g \in Image : Installed(g)
      BY DEF RunsWhole
    <2>1. session.why = "run" /\ at = Last + 1 /\ session.img \in Image
      BY DEF FlashInv, Progress, Typed, SessionType
    <2> QED BY <2>1 DEF FlashInv, Checksums, writing
  <1> QED BY <1>1, FlashInvariant, PTL

(* A controller with a firmware is sent frames that erase or program it only *)
(* with an image of its own family.                                          *)
THEOREM GuardTheorem == Spec => []FamilyGuard
  <1>1. FlashInv => FamilyGuard
    <2> SUFFICES ASSUME FlashInv, intact, NEW i \in 1..Len(toDev), Frame(toDev[i]).cmd \in {"erase", "program"}
                 PROVE  writing /\ FamilyOf[session.img] = family
      BY DEF FamilyGuard
    <2>1. /\ session \in SessionType /\ toDev[i] \in Nat \ {0} /\ at \in Nat /\ toDev[i] <= at
      BY Frames DEF FlashInv, Typed, Order
    <2>2. writing /\ toDev[i] >= 3
      BY <2>1, Frames
    <2>3. at >= 3
      BY <2>1, <2>2
    <2> QED BY <2>2, <2>3 DEF FlashInv, Guard, want
  <1> QED BY <1>1, FlashInvariant, PTL

(* A session that only reads, or that refuses the file, leaves a controller *)
(* with the firmware it had.                                                *)
THEOREM UnharmedTheorem == Spec => []Unharmed
  <1>1. FlashInv => Unharmed
    <2> SUFFICES ASSUME FlashInv, intact, ~writing \/ outcome = "mismatch"
                 PROVE  Whole
      BY DEF Unharmed, Whole
    <2>1. ~writing \/ at = 2
      BY DEF FlashInv, Progress
    <2> QED BY <2>1 DEF FlashInv, Guard
  <1> QED BY <1>1, FlashInvariant, PTL
-----------------------------------------------------------------------------
(* A line that loses frames and whose answers come in time: what doIdentify has *)
(* read is what the flash holds, and one fault makes no flash fail.             *)

(* As long as no command has timed out before its answer, the command that *)
(* is waited for, or its answer, is alone on the wires.                    *)
Single ==
  ~hasty /\ active =>
    /\ ~waiting => toDev = <<>> /\ toHost = <<>>
    /\ Len(toDev) + Len(toHost) <= 1
    /\ \A i \in 1..Len(toDev) : toDev[i] = at
    /\ \A i \in 1..Len(toHost) : toHost[i].place = at

(* A controller that is off has nothing to hear. *)
Dead == mode = "off" => toDev = <<>>

(* What doIdentify has been sent, and what it has kept, is what the flash *)
(* holds: nothing of the session changes it.                              *)
Reads ==
  session.why = "identify" =>
    /\ \A i \in 1..Len(toHost) :
          Frame(toHost[i].place).cmd = "crc" => toHost[i].val = crc16(Frame(toHost[i].place).of)
    /\ DOMAIN seen = Families
    /\ ~hasty /\ at >= 4 => seen["135"] = crc16("135")
    /\ ~hasty /\ at >= 5 => seen["150"] = crc16("150")

(* The frames of doIdentify, by their places. *)
LEMMA IdentifyScript ==
  ASSUME session \in SessionType, session.why = "identify"
  PROVE  /\ Last = 4 /\ ~writing
         /\ Frame(1) = ReadBootInfo /\ Frame(2) = ReadCRC("low")
         /\ Frame(3) = ReadCRC("135") /\ Frame(4) = ReadCRC("150")
  <1> DEFINE a == ReadBootInfo
             b == ReadCRC("low")
             d == ReadCRC("135")
             e == ReadCRC("150")
             s == Script(session)
  <1>1. s = (<<a>> \o <<b>>) \o <<d, e>>
    BY DEF Script, doIdentify, Connect, DetectAppBase
  <1> HIDE DEF a, b, d, e, s
  <1>2. Len(s) = 4 /\ s[1] = a /\ s[2] = b /\ s[3] = d /\ s[4] = e
    BY <1>1
  <1>3. Last = 4
    BY <1>2 DEF Last, s
  <1>4. \A i \in 1..4 : Frame(i) = s[i]
    BY <1>3 DEF Frame, s
  <1> QED BY <1>2, <1>3, <1>4 DEF a, b, d, e, writing

(* Every step keeps the wire of a controller that is off empty. *)
LEMMA DeadStep ==
  ASSUME FlashInv, Dead, [Next]_vars
  PROVE  Dead'
  <1>1. CASE write \/ Run
    BY <1>1 DEF write, Run, sent, Dead
  <1>2. CASE serve
    BY <1>2 DEF serve, Dead
  <1>3. CASE lose
    <2>1. mode' = mode /\ (mode = "off" => toDev' = toDev)
      BY <1>3 DEF lose, Dead
    <2> QED BY <2>1 DEF Dead
  <1>4. CASE powerCut \/ again
    BY <1>4 DEF powerCut, again, Dead
  <1>5. CASE transportFails \/ timeout \/ await
    BY <1>5 DEF transportFails, timeout, await, Dead
  <1>6. CASE UNCHANGED vars
    BY <1>6 DEF vars, Dead
  <1> QED BY <1>1, <1>2, <1>3, <1>4, <1>5, <1>6 DEF Next, HostStep

(* At most one frame is on the wires: its answer, then nothing. *)
LEMMA SingleServed ==
  ASSUME FlashInv, Single, ~hasty, active, serve
  PROVE  /\ toDev' = <<>> /\ toHost = <<>> /\ waiting /\ Len(toDev) = 1
         /\ Len(toHost') = 1 /\ toHost'[1].place = at
  <1>1. toDev \in Seq(Nat \ {0}) /\ toHost \in Seq(Reply) /\ toDev # <<>> /\ Typed
    BY DEF serve, FlashInv, Typed
  <1>2. Len(toDev) \in Nat /\ Len(toHost) \in Nat /\ Len(toDev) >= 1
    BY <1>1
  <1>3. /\ waiting /\ Len(toDev) + Len(toHost) <= 1
        /\ \A i \in 1..Len(toDev) : toDev[i] = at
    BY <1>1 DEF Single
  <1>4. Len(toDev) = 1 /\ Len(toHost) = 0
    <2> DEFINE m == Len(toDev)
               n == Len(toHost)
    <2>1. m \in Nat /\ n \in Nat /\ m >= 1 /\ m + n <= 1
      BY <1>2, <1>3
    <2> HIDE DEF m, n
    <2>2. m = 1 /\ n = 0
      BY ONLY <2>1
    <2> QED BY <2>2 DEF m, n
  <1>5. toDev[1] = at /\ Head(toDev) = toDev[1]
    <2>1. 1 \in 1..Len(toDev)
      BY <1>4
    <2> QED BY <1>1, <1>3, <2>1, Shorter
  <1>6. toDev' = <<>>
    BY <1>1, <1>4 DEF serve
  <1>7. toHost = <<>>
    BY <1>1, <1>4
  <1>8. toHost' = <<Answer(at)>>
    <2>1. session \in SessionType /\ at \in Nat \ {0} /\ at <= Last
      BY Frames DEF FlashInv, Typed, active
    <2>2. Frame(at) # JumpToApp
      BY <2>1, Frames
    <2>3. toHost' = Append(toHost, Answer(at))
      BY <1>5, <2>2 DEF serve
    <2> QED BY <1>7, <2>3
  <1> DEFINE a == Answer(at)
  <1>9. a.place = at
    BY DEF Answer
  <1> HIDE DEF a
  <1>10. Len(toHost') = 1 /\ toHost'[1] = a
    BY <1>8 DEF a
  <1> QED BY <1>3, <1>4, <1>6, <1>7, <1>9, <1>10

(* The answer that is taken was alone: nothing is left on the wires. *)
LEMMA SingleTaken ==
  ASSUME FlashInv, Single, ~hasty, active, await
  PROVE  /\ UNCHANGED <<toDev, hasty>> /\ Len(toHost') = 0 /\ Len(toHost) = 1 /\ toDev = <<>>
         /\ toHost[1].place = at /\ accept(toHost[1]) /\ session' = session
  <1>1. toDev \in Seq(Nat \ {0}) /\ toHost \in Seq(Reply)
    BY DEF FlashInv, Typed
  <1>2. PICK n \in 1..Len(toHost) :
            LET match == {i \in 1..n : Frame(toHost[i].place).cmd = current.cmd}
            IN  /\ toHost' = SubSeq(toHost, n + 1, Len(toHost))
                /\ IF match = {} THEN UNCHANGED host
                   ELSE \E i \in match : (\A j \in match : i <= j) /\ accept(toHost[i])
    BY DEF await
  <1>3. Len(toDev) \in Nat /\ Len(toHost) \in Nat /\ Len(toDev) + Len(toHost) <= 1
    BY <1>1 DEF Single
  <1>4. Len(toHost) = 1 /\ Len(toDev) = 0 /\ n = 1
    BY <1>3
  <1>5. toDev = <<>> /\ toHost[1].place = at /\ toHost' = SubSeq(toHost, 2, 1)
    BY <1>1, <1>2, <1>4 DEF Single
  <1>6. Len(toHost') = 0
    BY <1>1, <1>5
  <1>7. Frame(toHost[1].place).cmd = current.cmd
    BY <1>5 DEF current
  <1>8. 1 \in {i \in 1..n : Frame(toHost[i].place).cmd = current.cmd}
    BY <1>4, <1>7
  <1>9. accept(toHost[1])
    <2>1. PICK i \in 1..n : accept(toHost[i])
      BY <1>2, <1>8
    <2>2. i = 1
      BY <1>4
    <2> QED BY <2>1, <2>2
  <1>10. session' = session
    BY <1>9 DEF accept, advance, end
  <1> QED BY <1>4, <1>5, <1>6, <1>9, <1>10 DEF await

(* A command that nothing answers any more has left nothing on the wires. *)
LEMMA LostEmpty ==
  ASSUME FlashInv, Dead, Single, ~hasty, active, lost
  PROVE  toDev = <<>> /\ toHost = <<>>
  <1>0. /\ toDev \in Seq(Nat \ {0}) /\ toHost \in Seq(Reply) /\ Progress /\ at \in Nat \ {0}
        /\ Last \in Nat /\ mode \in {"boot", "off", "app"}
    BY Frames DEF FlashInv, Typed
  <1>1. /\ \A i \in 1..Len(toDev) : toDev[i] = at
        /\ \A i \in 1..Len(toHost) : toHost[i].place = at
    BY DEF Single
  <1>2. toHost = <<>>
    <2> SUFFICES ASSUME toHost # <<>> PROVE FALSE
      OBVIOUS
    <2>1. 1 \in 1..Len(toHost)
      BY <1>0
    <2>2. Frame(toHost[1].place).cmd = current.cmd
      BY <1>1, <2>1 DEF current
    <2> QED BY <2>1, <2>2 DEF lost
  <1>3. CASE mode = "boot"
    <2> SUFFICES ASSUME toDev # <<>> PROVE FALSE
      BY <1>2
    <2>1. 1 \in 1..Len(toDev)
      BY <1>0
    <2>2. Frame(toDev[1]).cmd = current.cmd
      BY <1>1, <2>1 DEF current
    <2> QED BY <1>3, <2>1, <2>2 DEF lost
  <1>4. CASE mode = "off"
    BY <1>2, <1>4 DEF Dead
  <1>5. mode # "app"
    BY <1>0 DEF Progress, active
  <1> QED BY <1>0, <1>2, <1>3, <1>4, <1>5

(* Every step leaves at most one frame on the wires. *)
LEMMA SingleStep ==
  ASSUME FlashInv, Dead, Single, [Next]_vars
  PROVE  Single'
  <1> SUFFICES ASSUME ~hasty', active'
               PROVE  /\ ~waiting' => toDev' = <<>> /\ toHost' = <<>>
                      /\ Len(toDev') + Len(toHost') <= 1
                      /\ \A i \in 1..Len(toDev') : toDev'[i] = at'
                      /\ \A i \in 1..Len(toHost') : toHost'[i].place = at'
    BY DEF Single
  <1>0. /\ toDev \in Seq(Nat \ {0}) /\ toHost \in Seq(Reply) /\ at \in Nat \ {0} /\ Progress
        /\ Len(toDev) \in Nat /\ Len(toHost) \in Nat /\ session \in SessionType
        /\ outcome' = "running" /\ at' <= Last' /\ hasty \in BOOLEAN
        /\ mode \in {"boot", "off", "app"}
    BY Frames DEF FlashInv, Typed, active
  <1>1. CASE write
    <2>1. /\ ~hasty /\ active /\ ~waiting /\ waiting' /\ at' = at /\ toHost' = toHost /\ toDev' = sent(at)
      BY <1>1 DEF write
    <2>2. toDev = <<>> /\ toHost = <<>>
      BY <2>1 DEF Single
    <2>3. toDev' = <<>> \/ toDev' = <<at>>
      BY <2>1, <2>2 DEF sent
    <2> QED BY <2>1, <2>2, <2>3
  <1>2. CASE transportFails \/ Run
    BY <1>0, <1>2 DEF transportFails, Run, end
  <1>3. CASE timeout
    <2>1. ~hasty /\ active /\ lost /\ at' = at /\ UNCHANGED <<toDev, toHost, mode>>
      <3>1. active /\ UNCHANGED <<toDev, toHost, mode>> /\ (IF lost THEN UNCHANGED <<hasty, faults>> ELSE hasty' = TRUE)
        BY <1>3 DEF timeout
      <3>2. at' = at
        BY <1>3 DEF timeout, end
      <3> QED BY <3>1, <3>2
    <2>2. toDev = <<>> /\ toHost = <<>>
      BY <2>1, LostEmpty
    <2> QED BY <2>1, <2>2
  <1>4. CASE await
    <2>1. active /\ hasty' = hasty
      BY <1>4 DEF await
    <2>2. /\ UNCHANGED <<toDev, hasty>> /\ Len(toHost') = 0 /\ toDev = <<>>
      BY <1>4, <2>1, SingleTaken
    <2>3. toHost' \in Seq(Reply)
      BY <1>4, awaitInv DEF FlashInv, Typed
    <2>4. toHost' = <<>>
      BY <2>2, <2>3
    <2> QED BY <2>2, <2>4
  <1>5. CASE serve
    <2>1. UNCHANGED <<session, at, waiting, outcome, hasty>>
      BY <1>5 DEF serve
    <2>2. active /\ ~hasty
      BY <1>0, <2>1, Same DEF active
    <2>3. toDev' = <<>> /\ Len(toHost') = 1 /\ waiting /\ toHost'[1].place = at
      BY <1>5, <2>2, SingleServed
    <2> QED BY <2>1, <2>3
  <1>6. CASE lose
    <2>1. UNCHANGED <<session, at, waiting, outcome, hasty>>
      BY <1>6 DEF lose
    <2>2. active /\ ~hasty
      BY <1>0, <2>1, Same DEF active
    <2>3. /\ ~waiting => toDev = <<>> /\ toHost = <<>>
          /\ Len(toDev) + Len(toHost) <= 1
          /\ \A i \in 1..Len(toDev) : toDev[i] = at
          /\ \A i \in 1..Len(toHost) : toHost[i].place = at
      BY <2>2 DEF Single
    <2>4. CASE toDev # <<>> /\ toDev' = Tail(toDev) /\ UNCHANGED toHost
      <3>1. /\ Len(toDev') = Len(toDev) - 1
            /\ \A i \in 1..Len(toDev') : i + 1 \in 1..Len(toDev) /\ toDev'[i] = toDev[i + 1]
        BY <1>0, <2>4, Shorter
      <3> QED BY <1>0, <2>1, <2>3, <2>4, <3>1
    <2>5. CASE toHost # <<>> /\ toHost' = Tail(toHost) /\ UNCHANGED toDev
      <3>1. /\ Len(toHost') = Len(toHost) - 1
            /\ \A i \in 1..Len(toHost') : i + 1 \in 1..Len(toHost) /\ toHost'[i] = toHost[i + 1]
        BY <1>0, <2>5, Shorter
      <3> QED BY <1>0, <2>1, <2>3, <2>5, <3>1
    <2> QED BY <1>6, <2>4, <2>5 DEF lose
  <1>7. CASE powerCut \/ again
    <2>1. toDev' = <<>> /\ toHost' = <<>>
      BY <1>7 DEF powerCut, again
    <2> QED BY <2>1
  <1>8. CASE UNCHANGED vars
    <2>1. UNCHANGED <<session, at, waiting, outcome, hasty, toDev, toHost>>
      BY <1>8 DEF vars
    <2>2. active /\ ~hasty
      BY <1>0, <2>1, Same DEF active
    <2> QED BY <2>1, <2>2 DEF Single
  <1> QED BY <1>1, <1>2, <1>3, <1>4, <1>5, <1>6, <1>7, <1>8 DEF Next, HostStep

(* Nothing that doIdentify sends changes the flash. *)
LEMMA IdentifyKeeps ==
  ASSUME FlashInv, session.why = "identify", [Next]_vars
  PROVE  flash' = flash
  <1>1. CASE serve
    <2>1. Typed /\ session \in SessionType
      BY DEF FlashInv, Typed
    <2>2. toDev[1] \in Nat \ {0}
      BY <1>1, <2>1, Served
    <2>3. ~writing
      BY DEF writing
    <2>4. Frame(toDev[1]).cmd \notin {"erase", "program"}
      BY <2>1, <2>2, <2>3, Frames
    <2> QED BY <1>1, <2>1, <2>4, Served
  <1>2. CASE ~serve
    BY <1>2 DEF Next, HostStep, write, timeout, await, Run, transportFails, lose, powerCut, again, vars
  <1> QED BY <1>1, <1>2

(* A true answer to doIdentify. *)
True(reply) ==
  Frame(reply.place).cmd = "crc" => reply.val = crc16(Frame(reply.place).of)

(* An answer that is taken goes to its own range. *)
LEMMA Kept ==
  ASSUME FlashInv, Reads, session.why = "identify", active, ~hasty,
         NEW reply, reply.place = at, True(reply), accept(reply)
  PROVE  /\ DOMAIN seen' = Families /\ at' = at + 1
         /\ at' >= 4 => seen'["135"] = crc16("135")
         /\ at' >= 5 => seen'["150"] = crc16("150")
  <1>1. /\ session \in SessionType /\ Last = 4 /\ ~writing /\ at \in 1..4
        /\ Frame(1) = ReadBootInfo /\ Frame(2) = ReadCRC("low")
        /\ Frame(3) = ReadCRC("135") /\ Frame(4) = ReadCRC("150")
    <2>1. session \in SessionType /\ at \in 1..(Last + 1) /\ at <= Last
      BY DEF FlashInv, Typed, active
    <2>2. Last = 4
      BY <2>1, IdentifyScript
    <2>3. at \in 1..4
      BY <2>1, <2>2
    <2> QED BY <2>1, <2>3, IdentifyScript
  <1>2. /\ ReadBootInfo.of = "none" /\ ReadCRC("low").of = "low"
        /\ ReadCRC("135").of = "135" /\ ReadCRC("135").cmd = "crc"
        /\ ReadCRC("150").of = "150" /\ ReadCRC("150").cmd = "crc"
    BY DEF ReadBootInfo, ReadCRC, Command
  <1>3. IF current.of \in Families THEN advance /\ seen' = [seen EXCEPT ![current.of] = reply.val]
        ELSE advance /\ seen' = seen
    BY <1>1 DEF accept
  <1>4. at' = at + 1
    BY <1>3 DEF advance
  <1>5. /\ DOMAIN seen = Families
        /\ at >= 4 => seen["135"] = crc16("135")
    BY DEF Reads
  <1>6. current = Frame(at)
    BY DEF current
  <1>7. CASE at \in {1, 2}
    <2>1. current.of \notin Families
      BY <1>1, <1>2, <1>6, <1>7 DEF Families
    <2> QED BY <1>3, <1>4, <1>5, <1>7, <2>1
  <1>8. CASE at = 3
    <2>1. current.of = "135" /\ reply.val = crc16("135")
      BY <1>1, <1>2, <1>6, <1>8 DEF True
    <2>2. seen' = [seen EXCEPT !["135"] = crc16("135")]
      BY <1>3, <2>1 DEF Families
    <2> HIDE DEF crc16
    <2>3. DOMAIN seen' = Families /\ seen'["135"] = crc16("135")
      BY <1>5, <2>2 DEF Families
    <2> QED BY <1>4, <1>8, <2>3
  <1>9. CASE at = 4
    <2>1. current.of = "150" /\ reply.val = crc16("150")
      BY <1>1, <1>2, <1>6, <1>9 DEF True
    <2>2. seen' = [seen EXCEPT !["150"] = crc16("150")]
      BY <1>3, <2>1 DEF Families
    <2>3. DOMAIN seen' = Families /\ seen'["150"] = crc16("150") /\ seen'["135"] = seen["135"]
      BY <1>5, <2>2 DEF Families
    <2> QED BY <1>4, <1>5, <1>9, <2>3
  <1> QED BY <1>1, <1>7, <1>8, <1>9

(* Whatever answer is taken, the map has an entry for each family. *)
LEMMA KeptDomain ==
  ASSUME session.why = "identify", DOMAIN seen = Families, NEW reply, accept(reply)
  PROVE  DOMAIN seen' = Families /\ session' = session
  <1>1. ~writing
    BY DEF writing
  <1>2. session' = session /\ (seen' = seen \/ seen' = [seen EXCEPT ![current.of] = reply.val])
    BY <1>1 DEF accept, advance
  <1> QED BY <1>2

(* A checksum that doIdentify is sent is of the flash as it is; what it has *)
(* kept of a range stays true.                                              *)
LEMMA ReadsStep ==
  ASSUME FlashInv, Single, Reads, [Next]_vars
  PROVE  Reads'
  <1>0. /\ Typed /\ session \in SessionType /\ toHost \in Seq(Reply) /\ toDev \in Seq(Nat \ {0})
        /\ Len(toHost) \in Nat /\ hasty \in BOOLEAN /\ at \in Nat
    BY Frames DEF FlashInv, Typed
  <1>1. CASE again
    <2>1. PICK s \in Purposes : Begin(session.n + 1, s)
      BY <1>1 DEF again
    <2>2. toHost' = <<>> /\ at' = 1 /\ seen' = [r \in Families |-> <<>>]
      BY <1>1, <2>1 DEF again, Begin
    <2> QED BY <2>2 DEF Reads
  <1>2. CASE ~again
    <2> SUFFICES ASSUME session'.why = "identify"
                 PROVE  Reads'
      BY DEF Reads
    <2>1. session' = session
      BY <1>2 DEF Next, HostStep, write, timeout, await, accept, advance, end, Run, transportFails,
                  serve, lose, powerCut, host, vars
    <2>2. session.why = "identify" /\ flash' = flash
      BY <2>1, IdentifyKeeps
    <2>3. /\ \A i \in 1..Len(toHost) : True(toHost[i])
          /\ DOMAIN seen = Families
          /\ ~hasty /\ at >= 4 => seen["135"] = crc16("135")
          /\ ~hasty /\ at >= 5 => seen["150"] = crc16("150")
      BY <2>2 DEF Reads, True
    <2>4. ASSUME \A i \in 1..Len(toHost') : True(toHost'[i]),
                 DOMAIN seen' = Families,
                 ~hasty' /\ at' >= 4 => seen'["135"] = crc16("135"),
                 ~hasty' /\ at' >= 5 => seen'["150"] = crc16("150")
          PROVE  Reads'
      <3>1. \A x : (Frame(x))' = Frame(x)
        BY <2>1, Same
      <3>2. \A r : (crc16(r))' = crc16(r)
        BY <2>2 DEF crc16
      <3> QED BY <2>1, <2>2, <2>4 DEF Reads, True, Frame, Last, crc16
    <2>5. CASE write \/ transportFails \/ Run \/ UNCHANGED vars
      <3>1. UNCHANGED <<at, seen, toHost, hasty>>
        BY <2>5 DEF write, transportFails, Run, end, vars
      <3> QED BY <2>3, <2>4, <3>1
    <2>6. CASE timeout
      <3>1. UNCHANGED <<at, seen, toHost>> /\ (~hasty' => ~hasty)
        BY <1>0, <2>6 DEF timeout, end
      <3> QED BY <2>3, <2>4, <3>1
    <2>7. CASE lose
      <3>1. UNCHANGED <<at, seen, hasty>>
        BY <2>7 DEF lose
      <3>2. \A i \in 1..Len(toHost') : \E j \in 1..Len(toHost) : toHost'[i] = toHost[j]
        <4>1. toHost' = toHost \/ (toHost # <<>> /\ toHost' = Tail(toHost))
          BY <2>7 DEF lose
        <4>2. CASE toHost # <<>> /\ toHost' = Tail(toHost)
          <5>1. \A i \in 1..Len(toHost') : i + 1 \in 1..Len(toHost) /\ toHost'[i] = toHost[i + 1]
            BY <1>0, <4>2, Shorter
          <5> QED BY <5>1
        <4> QED BY <4>1, <4>2
      <3>3. \A i \in 1..Len(toHost') : True(toHost'[i])
        BY <2>3, <3>2
      <3> QED BY <2>3, <2>4, <3>1, <3>3
    <2>8. CASE powerCut
      <3>1. UNCHANGED <<at, seen, hasty>> /\ toHost' = <<>>
        BY <2>8 DEF powerCut
      <3>2. \A i \in 1..Len(toHost') : True(toHost'[i])
        BY <3>1
      <3> QED BY <2>3, <2>4, <3>1, <3>2
    <2>9. CASE serve
      <3>1. UNCHANGED <<at, seen, hasty>>
        BY <2>9 DEF serve
      <3> DEFINE a == Answer(toDev[1])
      <3>2. /\ \A i \in 1..Len(toHost') : (i \in 1..Len(toHost) /\ toHost'[i] = toHost[i]) \/ toHost'[i] = a
            /\ a.place = toDev[1]
            /\ Frame(toDev[1]).cmd = "crc" => a.val = crc16(Frame(toDev[1]).of)
        BY <1>0, <2>9, Served
      <3>3. True(a)
        BY <3>2 DEF True
      <3> HIDE DEF a
      <3>4. \A i \in 1..Len(toHost') : True(toHost'[i])
        BY <2>3, <3>2, <3>3
      <3> QED BY <2>3, <2>4, <3>1, <3>4
    <2>10. CASE await
      <3>1. PICK n \in 1..Len(toHost) :
               /\ toHost' = SubSeq(toHost, n + 1, Len(toHost))
               /\ \/ UNCHANGED host
                  \/ \E k \in 1..Len(toHost) : accept(toHost[k])
        BY <1>0, <2>10, Awaited
      <3>2. \A i \in 1..Len(toHost') : i + n \in 1..Len(toHost) /\ toHost'[i] = toHost[i + n]
        BY <1>0, <3>1, Rest
      <3>3. \A i \in 1..Len(toHost') : True(toHost'[i])
        BY <2>3, <3>2
      <3>4. DOMAIN seen' = Families
        BY <2>2, <2>3, <3>1, KeptDomain DEF host
      <3>5. active /\ hasty' = hasty
        BY <2>10 DEF await
      <3>6. CASE hasty
        BY <2>4, <3>3, <3>4, <3>5, <3>6
      <3>7. CASE ~hasty
        <4>1. Len(toHost) = 1 /\ toHost[1].place = at /\ accept(toHost[1])
          BY <2>10, <3>5, <3>7, SingleTaken
        <4>2. True(toHost[1])
          BY <2>3, <4>1
        <4>3. /\ at' >= 4 => seen'["135"] = crc16("135")
              /\ at' >= 5 => seen'["150"] = crc16("150")
          BY <2>2, <3>5, <3>7, <4>1, <4>2, Kept
        <4> QED BY <2>4, <3>3, <3>4, <4>3
      <3> QED BY <3>6, <3>7
    <2> QED BY <1>2, <2>5, <2>6, <2>7, <2>8, <2>9, <2>10 DEF Next, HostStep
  <1> QED BY <1>1, <1>2

(* rstflash -identify names the image that is installed: whatever frames   *)
(* were lost and repeated, as long as no answer came after its timeout, it *)
(* ends with the checksum of the controller's own range.                   *)
THEOREM IdentifyTheorem == Spec => []IdentifyFinds
  <1> DEFINE Inv == FlashInv /\ Dead /\ Single /\ Reads
  <1>1. Init => Inv
    <2> SUFFICES ASSUME Init PROVE Inv
      OBVIOUS
    <2>1. /\ toDev = <<>> /\ toHost = <<>> /\ at = 1 /\ mode = "boot" /\ seen = [r \in Families |-> <<>>]
      BY DEF Init
    <2>2. FlashInv
      BY InitInv
    <2> QED BY <2>1, <2>2 DEF Dead, Single, Reads
  <1>2. Inv /\ [Next]_vars => Inv'
    BY NextInv, DeadStep, SingleStep, ReadsStep
  <1>3. Inv => IdentifyFinds
    <2> SUFFICES ASSUME Inv, session.why = "identify", outcome = "ok", ~hasty,
                        NEW g \in Image, FamilyOf[g] = family, Installed(g)
                 PROVE  seen[family] = CRC(g)
      BY DEF IdentifyFinds
    <2>1. session \in SessionType /\ family \in {"135", "150"} /\ at = Last + 1
      BY DEF FlashInv, Typed, Progress, Families
    <2>2. at = 5
      BY <2>1, IdentifyScript
    <2>3. seen["135"] = crc16("135") /\ seen["150"] = crc16("150")
      BY <2>2 DEF Reads
    <2>4. seen[family] = crc16(family)
      BY <2>1, <2>3
    <2>5. crc16(family) = CRC(g)
      BY DEF crc16, CRC, Installed
    <2> QED BY <2>4, <2>5
  <1> QED BY <1>1, <1>2, <1>3, PTL DEF Spec

(***************************************************************************)
(* One fault.  Which attempt a command is at, and what is on the wires     *)
(* after a frame was lost or a command timed out early, but not both.      *)
(***************************************************************************)
Scope == active /\ faults <= 1 /\ mode # "off"

(* Without early timeouts an attempt beyond the first was made for a frame *)
(* that was lost.                                                          *)
Prompt == ~hasty /\ active /\ mode # "off" => tries <= faults + Len(toDev) + Len(toHost)

(* After one early timeout the session is one frame ahead of the answers: *)
(* the first frame on the wires may be of the command before, all others  *)
(* are of the one that is waited for, and one of those is there.          *)
Late ==
  hasty /\ Scope =>
    /\ faults = 1
    /\ Len(toDev) + Len(toHost) <= (IF waiting THEN 2 ELSE 1)
    /\ tries <= (IF waiting THEN 2 ELSE 1)
    /\ \A i \in 1..Len(toHost) : toHost[i].place >= at - 1 /\ (i > 1 => toHost[i].place = at)
    /\ \A j \in 1..Len(toDev) : toDev[j] >= at - 1 /\ (j > 1 \/ toHost # <<>> => toDev[j] = at)
    /\ waiting => \/ \E i \in 1..Len(toHost) : toHost[i].place = at
                  \/ \E j \in 1..Len(toDev) : toDev[j] = at

(* An answer ends the session or takes it to the next command. *)
LEMMA Accepted ==
  ASSUME NEW reply, accept(reply)
  PROVE  /\ session' = session
         /\ \/ outcome' \in {"failed", "mismatch"} /\ at' = at
            \/ advance
  BY DEF accept, advance, end

(* The frames that await takes: none that echoes the command, or one that does. *)
LEMMA AwaitedFirst ==
  ASSUME Typed, await
  PROVE  \E n \in 1..Len(toHost) :
           /\ toHost' = SubSeq(toHost, n + 1, Len(toHost))
           /\ \/ UNCHANGED host /\ \A i \in 1..n : Frame(toHost[i].place).cmd # current.cmd
              \/ \E k \in 1..n : Frame(toHost[k].place).cmd = current.cmd /\ accept(toHost[k])
  <1>1. PICK n \in 1..Len(toHost) :
            LET match == {i \in 1..n : Frame(toHost[i].place).cmd = current.cmd}
            IN  /\ toHost' = SubSeq(toHost, n + 1, Len(toHost))
                /\ IF match = {} THEN UNCHANGED host
                   ELSE \E i \in match : (\A j \in match : i <= j) /\ accept(toHost[i])
    BY DEF await
  <1> DEFINE match == {i \in 1..n : Frame(toHost[i].place).cmd = current.cmd}
  <1>2. CASE match = {}
    BY <1>1, <1>2
  <1>3. CASE match # {}
    <2>1. PICK k \in match : accept(toHost[k])
      BY <1>1, <1>3
    <2> QED BY <1>1, <2>1
  <1> QED BY <1>2, <1>3

(* A session in scope has been in scope since it began. *)
LEMMA ScopeBack ==
  ASSUME FlashInv, [Next]_vars, ~again
  PROVE  /\ session' = session /\ family' = family /\ Last' = Last
         /\ active' => active
         /\ mode' # "off" => mode # "off"
         /\ faults' \in Nat /\ faults \in Nat /\ faults <= faults'
         /\ Scope' => Scope
         /\ ~hasty' => ~hasty
  <1>0. faults \in Nat /\ at \in Nat /\ mode \in {"boot", "off", "app"} /\ hasty \in BOOLEAN
    BY Frames DEF FlashInv, Typed
  <1>1. /\ session' = session /\ family' = family /\ (mode' # "off" => mode # "off")
        /\ at' \in {at, at + 1} /\ (outcome' = "running" => outcome = "running")
        /\ faults' \in {faults, faults + 1} /\ (~hasty' => ~hasty)
    <2>1. CASE write \/ Run \/ transportFails \/ UNCHANGED vars
      BY <1>0, <2>1 DEF write, Run, transportFails, end, vars, active
    <2>2. CASE timeout
      BY <1>0, <2>2 DEF timeout, end, active
    <2>3. CASE serve
      BY <1>0, <2>3 DEF serve
    <2>4. CASE lose
      BY <1>0, <2>4 DEF lose
    <2>5. CASE powerCut
      BY <1>0, <2>5 DEF powerCut
    <2>6. CASE await
      <3>1. UNCHANGED <<family, mode, faults, hasty>> /\ outcome = "running"
        BY <2>6 DEF await, active
      <3>2. UNCHANGED host \/ \E reply : accept(reply)
        BY <2>6, Awaited DEF FlashInv
      <3>3. session' = session /\ at' \in {at, at + 1}
        BY <3>2, Accepted DEF host, advance
      <3> QED BY <1>0, <3>1, <3>3
    <2> QED BY <2>1, <2>2, <2>3, <2>4, <2>5, <2>6 DEF Next, HostStep
  <1>2. Last' = Last
    BY <1>1, Same
  <1>3. Last \in Nat
    BY Frames DEF FlashInv, Typed
  <1>4. active' => active
    BY <1>0, <1>1, <1>2, <1>3 DEF active
  <1>5. faults' \in Nat /\ faults <= faults'
    BY <1>0, <1>1
  <1>6. Scope' => Scope
    BY <1>0, <1>1, <1>4, <1>5 DEF Scope
  <1> QED BY <1>0, <1>1, <1>2, <1>4, <1>5, <1>6

(* Arithmetic on lengths. *)
LEMMA Sums ==
  ASSUME NEW a \in Nat, NEW b \in Nat, NEW c \in Nat
  PROVE  0 <= a + b + c /\ (a - 1) + (b + 1) = a + b
  OBVIOUS

(* Every step keeps the count of attempts. *)
LEMMA PromptStep ==
  ASSUME FlashInv, Single, Prompt, [Next]_vars
  PROVE  Prompt'
  <1> SUFFICES ASSUME ~hasty', active', mode' # "off"
               PROVE  tries' <= faults' + Len(toDev') + Len(toHost')
    BY DEF Prompt
  <1> DEFINE d == Len(toDev)
             h == Len(toHost)
             dd == Len(toDev')
             hh == Len(toHost')
  <1>0. /\ toDev \in Seq(Nat \ {0}) /\ toHost \in Seq(Reply) /\ faults \in Nat /\ tries \in Nat
        /\ at \in Nat /\ mode \in {"boot", "off", "app"} /\ Progress
    BY Frames DEF FlashInv, Typed
  <1>1. d \in Nat /\ h \in Nat
    BY <1>0
  <1>2. /\ dd \in Nat /\ hh \in Nat /\ faults' \in Nat
    <2>1. FlashInv'
      BY NextInv
    <2>2. toDev' \in Seq(Nat \ {0}) /\ toHost' \in Seq(Reply) /\ faults' \in Nat
      BY <2>1 DEF FlashInv, Typed
    <2> QED BY <2>2
  <1>3. CASE again
    <2>1. tries' = 0
      BY <1>3 DEF again, Begin
    <2> HIDE DEF dd, hh
    <2>2. 0 <= faults' + dd + hh
      BY <1>2, Sums
    <2> QED BY <2>1, <2>2 DEF dd, hh
  <1>4. CASE ~again
    <2>1. ~hasty /\ active /\ mode # "off" /\ mode # "app"
      <3>1. ~hasty /\ active /\ mode # "off"
        BY <1>4, ScopeBack
      <3>2. Last \in Nat
        BY Frames DEF FlashInv, Typed
      <3> QED BY <1>0, <3>1, <3>2 DEF Progress, active
    <2>2. tries <= faults + d + h
      BY <2>1 DEF Prompt
    <2>3. CASE write
      <3>1. toDev = <<>> /\ toHost = <<>> /\ toHost' = toHost /\ faults' = faults /\ tries' = tries + 1
        BY <2>1, <2>3 DEF write, Single
      <3>2. toDev' = <<at>>
        BY <1>0, <2>1, <2>3, <3>1 DEF write, sent
      <3>3. tries <= faults /\ dd = 1 /\ hh = 0
        BY <1>0, <2>2, <3>1, <3>2
      <3> HIDE DEF dd, hh
      <3>4. tries + 1 <= faults + dd + hh
        BY <1>0, <3>3
      <3> QED BY <3>1, <3>4 DEF dd, hh
    <2>4. CASE transportFails \/ Run
      BY <2>4 DEF transportFails, Run, end, active
    <2>5. CASE timeout
      <3>1. UNCHANGED <<toDev, toHost>> /\ (~hasty' => faults' = faults)
        BY <2>5 DEF timeout
      <3>2. tries' = tries \/ outcome' = "failed"
        BY <2>5 DEF timeout, end
      <3> QED BY <2>2, <3>1, <3>2 DEF active
    <2>6. CASE await
      <3>1. accept(toHost[1])
        BY <2>1, <2>6, SingleTaken
      <3>2. tries' = 0
        BY <3>1 DEF accept, advance, end
      <3> HIDE DEF dd, hh
      <3>3. 0 <= faults' + dd + hh
        BY <1>2, Sums
      <3> QED BY <3>2, <3>3 DEF dd, hh
    <2>7. CASE serve
      <3>1. toDev' = <<>> /\ toHost = <<>> /\ d = 1 /\ hh = 1
        BY <2>1, <2>7, SingleServed
      <3>2. tries' = tries /\ faults' = faults
        BY <2>7 DEF serve
      <3>3. dd = 0 /\ h = 0
        BY <3>1
      <3> QED BY <1>0, <2>2, <3>1, <3>2, <3>3
    <2>8. CASE lose
      <3>1. tries' = tries /\ faults' = faults + 1
        BY <2>8 DEF lose
      <3>2. dd + hh = d + h - 1
        <4>1. CASE toDev # <<>> /\ toDev' = Tail(toDev) /\ UNCHANGED toHost
          <5>1. dd = d - 1 /\ hh = h
            BY <1>0, <4>1, Shorter
          <5> HIDE DEF d, h, dd, hh
          <5> QED BY <1>1, <5>1
        <4>2. CASE toHost # <<>> /\ toHost' = Tail(toHost) /\ UNCHANGED toDev
          <5>1. hh = h - 1 /\ dd = d
            BY <1>0, <4>2, Shorter
          <5> HIDE DEF d, h, dd, hh
          <5> QED BY <1>1, <5>1
        <4> QED BY <2>8, <4>1, <4>2 DEF lose
      <3> HIDE DEF d, h, dd, hh
      <3>3. tries' <= faults' + dd + hh
        BY <1>0, <1>1, <1>2, <2>2, <3>1, <3>2
      <3> QED BY <3>3 DEF dd, hh
    <2>9. CASE powerCut
      BY <2>9 DEF powerCut
    <2>10. CASE UNCHANGED vars
      BY <2>2, <2>10 DEF vars
    <2> QED BY <1>4, <2>3, <2>4, <2>5, <2>6, <2>7, <2>8, <2>9, <2>10 DEF Next, HostStep
  <1> QED BY <1>3, <1>4

(* What Late says of the wires, for use with any of the state after a step. *)
Behind(q, r, a) ==
  /\ \A i \in 1..Len(r) : r[i].place >= a - 1 /\ (i > 1 => r[i].place = a)
  /\ \A j \in 1..Len(q) : q[j] >= a - 1 /\ (j > 1 \/ r # <<>> => q[j] = a)

Owed(q, r, a) ==
  (\E i \in 1..Len(r) : r[i].place = a) \/ (\E j \in 1..Len(q) : q[j] = a)

(* Another frame is sent. *)
LEMMA LateWrite ==
  ASSUME FlashInv, Late, hasty, Scope, write
  PROVE  /\ Len(toDev') + Len(toHost') <= 2 /\ tries' <= 2
         /\ Behind(toDev', toHost', at) /\ Owed(toDev', toHost', at)
  <1>0. /\ toDev \in Seq(Nat \ {0}) /\ toHost \in Seq(Reply) /\ at \in Nat \ {0} /\ tries \in Nat
        /\ mode = "boot" /\ ~waiting /\ toHost' = toHost /\ tries' = tries + 1 /\ toDev' = sent(at)
    <2>1. Last \in Nat /\ at \in Nat \ {0} /\ at <= Last
      BY Frames DEF FlashInv, Typed, Scope, active
    <2>2. mode # "off" /\ mode # "app" /\ mode \in {"boot", "off", "app"}
      BY <2>1 DEF Scope, FlashInv, Progress, Typed
    <2> QED BY <2>1, <2>2 DEF FlashInv, Typed, write
  <1>1. /\ Len(toDev) + Len(toHost) <= 1 /\ tries <= 1 /\ Behind(toDev, toHost, at)
    BY <1>0 DEF Late, Behind
  <1>2. toDev' = Append(toDev, at)
    BY <1>0 DEF sent
  <1>3. /\ Len(toDev') = Len(toDev) + 1 /\ toDev'[Len(toDev) + 1] = at /\ Len(toDev) \in Nat
        /\ \A i \in 1..Len(toDev) : toDev'[i] = toDev[i] /\ Len(toHost) \in Nat
    BY <1>0, <1>2
  <1>4. Len(toDev') + Len(toHost') <= 2 /\ tries' <= 2
    <2> DEFINE d == Len(toDev)
               h == Len(toHost)
    <2>1. d \in Nat /\ h \in Nat /\ d + h <= 1
      BY <1>0, <1>1
    <2> HIDE DEF d, h
    <2>2. (d + 1) + h <= 2
      BY <2>1
    <2> QED BY <1>0, <1>1, <1>3, <2>2 DEF d, h
  <1>5. Behind(toDev', toHost', at)
    <2>1. ASSUME NEW j \in 1..Len(toDev')
          PROVE  toDev'[j] >= at - 1 /\ (j > 1 \/ toHost # <<>> => toDev'[j] = at)
      <3>1. CASE j = Len(toDev) + 1
        BY <1>0, <1>3, <3>1
      <3>2. CASE j # Len(toDev) + 1
        <4>1. j \in 1..Len(toDev)
          BY <1>3, <3>2
        <4> QED BY <1>1, <1>3, <4>1 DEF Behind
      <3> QED BY <3>1, <3>2
    <2> QED BY <1>0, <1>1, <2>1 DEF Behind
  <1>6. Owed(toDev', toHost', at)
    <2>1. Len(toDev) + 1 \in 1..Len(toDev')
      BY <1>3
    <2> QED BY <1>3, <2>1 DEF Owed
  <1> QED BY <1>4, <1>5, <1>6

(* The controller answers the first frame: it moves from one wire to the other. *)
LEMMA LateServe ==
  ASSUME FlashInv, Late, hasty, Scope, serve
  PROVE  /\ Len(toDev') + Len(toHost') = Len(toDev) + Len(toHost)
         /\ Behind(toDev', toHost', at)
         /\ waiting => Owed(toDev', toHost', at)
  <1>0. /\ toDev \in Seq(Nat \ {0}) /\ toHost \in Seq(Reply) /\ at \in Nat \ {0} /\ toDev # <<>>
        /\ Last \in Nat /\ at <= Last /\ session \in SessionType /\ Order
    BY Frames DEF FlashInv, Typed, Scope, active, serve
  <1>1. Behind(toDev, toHost, at) /\ (waiting => Owed(toDev, toHost, at))
    BY DEF Late, Behind, Owed
  <1> DEFINE x == toDev[1]
             a == Answer(x)
             d == Len(toDev)
             h == Len(toHost)
  <1>2. /\ toDev' = Tail(toDev) /\ Head(toDev) = x /\ x \in Nat \ {0} /\ 1 \in 1..d /\ d \in Nat /\ h \in Nat
        /\ Len(toDev') = d - 1
        /\ \A i \in 1..Len(toDev') : i + 1 \in 1..d /\ toDev'[i] = toDev[i + 1]
    BY <1>0, Shorter DEF serve
  <1>3. toHost' = Append(toHost, a) /\ a.place = x
    <2>1. x <= at
      BY <1>0, <1>2 DEF Order
    <2>2. ~(x > Last)
      BY <1>0, <1>2, <2>1
    <2>3. Frame(x) # JumpToApp
      BY <1>0, <1>2, <2>2, Frames
    <2> QED BY <1>2, <2>3 DEF serve, Answer
  <1> HIDE DEF x, a
  <1>4. /\ Len(toHost') = h + 1 /\ toHost'[h + 1] = a
        /\ \A i \in 1..h : toHost'[i] = toHost[i]
    BY <1>0, <1>3
  <1>5. Len(toDev') + Len(toHost') = d + h
    <2>1. (d - 1) + (h + 1) = d + h
      BY <1>2, Sums
    <2> QED BY <1>2, <1>4, <2>1
  <1>6. Behind(toDev', toHost', at)
    <2>1. ASSUME NEW i \in 1..Len(toHost')
          PROVE  toHost'[i].place >= at - 1 /\ (i > 1 => toHost'[i].place = at)
      <3>1. CASE i \in 1..h
        BY <1>1, <1>4, <3>1 DEF Behind
      <3>2. CASE i = h + 1
        <4>1. toHost'[i].place = x
          BY <1>3, <1>4, <3>2
        <4>2. x >= at - 1 /\ (toHost # <<>> => x = at)
          BY <1>1, <1>2 DEF Behind, x
        <4>3. i > 1 => toHost # <<>>
          BY <1>0, <3>2
        <4> QED BY <4>1, <4>2, <4>3
      <3> QED BY <1>2, <1>4, <3>1, <3>2
    <2>2. ASSUME NEW j \in 1..Len(toDev')
          PROVE  toDev'[j] >= at - 1 /\ toDev'[j] = at
      <3>1. j + 1 \in 1..d /\ toDev'[j] = toDev[j + 1] /\ j + 1 > 1
        BY <1>2
      <3>2. toDev'[j] = at
        BY <1>1, <3>1 DEF Behind
      <3> QED BY <1>0, <3>2
    <2> QED BY <2>1, <2>2 DEF Behind
  <1>7. ASSUME waiting PROVE Owed(toDev', toHost', at)
    <2>1. CASE \E i \in 1..h : toHost[i].place = at
      <3>1. PICK i \in 1..h : toHost[i].place = at
        BY <2>1
      <3>2. i \in 1..Len(toHost') /\ toHost'[i].place = at
        BY <1>2, <1>4, <3>1
      <3> QED BY <3>2 DEF Owed
    <2>2. CASE \E j \in 1..d : toDev[j] = at
      <3>1. PICK j \in 1..d : toDev[j] = at
        BY <2>2
      <3>2. CASE j = 1
        <4>1. h + 1 \in 1..Len(toHost') /\ toHost'[h + 1].place = at
          BY <1>2, <1>3, <1>4, <3>1, <3>2 DEF x
        <4> QED BY <4>1 DEF Owed
      <3>3. CASE j # 1
        <4>1. j - 1 \in 1..Len(toDev') /\ (j - 1) + 1 = j
          BY <1>2, <3>3
        <4>2. toDev'[j - 1] = at
          BY <1>2, <3>1, <4>1
        <4> QED BY <4>1, <4>2 DEF Owed
      <3> QED BY <3>2, <3>3
    <2> QED BY <1>1, <1>7, <2>1, <2>2 DEF Owed
  <1> QED BY <1>5, <1>6, <1>7

(* Frames are read: the answer is taken, or is still to come. *)
LEMMA LateAwait ==
  ASSUME FlashInv, Late, hasty, Scope, await
  PROVE  \/ outcome' # "running"
         \/ /\ at' = at /\ waiting' = waiting /\ tries' = tries
            /\ Len(toDev') + Len(toHost') <= 2
            /\ Behind(toDev', toHost', at) /\ Owed(toDev', toHost', at)
         \/ /\ at' = at + 1 /\ ~waiting' /\ tries' = 0
            /\ Len(toDev') + Len(toHost') <= 1
            /\ Behind(toDev', toHost', at + 1)
  <1>0. /\ toDev \in Seq(Nat \ {0}) /\ toHost \in Seq(Reply) /\ at \in Nat \ {0} /\ Typed
        /\ waiting /\ toDev' = toDev
    BY Frames DEF FlashInv, Typed, await
  <1>1. /\ Len(toDev) + Len(toHost) <= 2 /\ tries <= 2
        /\ Behind(toDev, toHost, at) /\ Owed(toDev, toHost, at)
    BY <1>0 DEF Late, Behind, Owed
  <1>2. PICK n \in 1..Len(toHost) :
           /\ toHost' = SubSeq(toHost, n + 1, Len(toHost))
           /\ \/ UNCHANGED host /\ \A i \in 1..n : Frame(toHost[i].place).cmd # current.cmd
              \/ \E k \in 1..n : Frame(toHost[k].place).cmd = current.cmd /\ accept(toHost[k])
    BY <1>0, AwaitedFirst
  <1> DEFINE d == Len(toDev)
             h == Len(toHost)
  <1>3. /\ d \in Nat /\ h \in Nat /\ n \in Nat /\ n >= 1 /\ n <= h /\ Len(toHost') = h - n
        /\ \A i \in 1..Len(toHost') : i + n \in 1..h /\ toHost'[i] = toHost[i + n]
    <2>1. \A i \in 1..Len(toHost') : i + n \in 1..h /\ toHost'[i] = toHost[i + n]
      BY <1>0, <1>2, Rest
    <2>2. d \in Nat /\ h \in Nat /\ n \in Nat /\ n >= 1 /\ n <= h /\ Len(toHost') = h - n
      BY <1>0, <1>2
    <2> QED BY <2>1, <2>2
  <1>4. Len(toDev') + Len(toHost') <= 1
    <2> HIDE DEF d, h
    <2>1. d + h <= 2
      BY <1>1 DEF d, h
    <2>2. d + (h - n) <= 1
      BY ONLY <1>3, <2>1
    <2> QED BY <1>0, <1>3, <2>2 DEF d
  <1>5. ASSUME NEW i \in 1..Len(toHost') PROVE toHost'[i].place = at
    <2>1. i + n \in 1..h /\ i + n > 1 /\ toHost'[i] = toHost[i + n]
      BY <1>3
    <2> QED BY <1>1, <2>1 DEF Behind
  <1>6. ASSUME NEW j \in 1..Len(toDev) PROVE toDev[j] = at
    <2>1. toHost # <<>>
      BY <1>0, <1>3
    <2> QED BY <1>1, <2>1 DEF Behind
  <1>7. CASE UNCHANGED host /\ \A i \in 1..n : Frame(toHost[i].place).cmd # current.cmd
    <2>1. at' = at /\ waiting' = waiting /\ tries' = tries
      BY <1>7 DEF host
    <2>2. Behind(toDev', toHost', at)
      BY <1>0, <1>5, <1>6 DEF Behind
    <2>3. Owed(toDev', toHost', at)
      <3>1. CASE \E i \in 1..h : toHost[i].place = at
        <4>1. PICK i \in 1..h : toHost[i].place = at
          BY <3>1
        <4>2. Frame(toHost[i].place).cmd = current.cmd
          BY <4>1 DEF current
        <4>3. ~(i <= n)
          BY <1>3, <1>7, <4>1, <4>2
        <4>4. i - n \in 1..Len(toHost')
          BY <1>3, <4>1, <4>3
        <4>5. toHost'[i - n].place = at
          BY <1>5, <4>4
        <4> QED BY <4>4, <4>5 DEF Owed
      <3>2. CASE \E j \in 1..d : toDev[j] = at
        BY <1>0, <3>2 DEF Owed
      <3> QED BY <1>1, <3>1, <3>2 DEF Owed
    <2>4. Len(toDev') + Len(toHost') <= 2
      <3> DEFINE z == Len(toDev') + Len(toHost')
      <3>1. z <= 1 /\ z \in Nat
        BY <1>0, <1>3, <1>4
      <3> HIDE DEF z
      <3>2. z <= 2
        BY <3>1
      <3> QED BY <3>2 DEF z
    <2> QED BY <2>1, <2>2, <2>3, <2>4
  <1>8. CASE \E k \in 1..n : accept(toHost[k])
    <2>1. outcome' # "running" \/ advance
      BY <1>8, Accepted
    <2>2. CASE advance
      <3>1. at' = at + 1 /\ ~waiting' /\ tries' = 0
        BY <2>2 DEF advance
      <3>2. Behind(toDev', toHost', at + 1)
        <4> DEFINE e == Len(toDev')
                   g == Len(toHost')
        <4>1. e \in Nat /\ g \in Nat /\ e + g <= 1
          BY <1>0, <1>3, <1>4
        <4>2. (at + 1) - 1 = at /\ at >= at
          BY <1>0
        <4> HIDE DEF e, g
        <4>3. \A i \in 1..g : ~(i > 1)
          BY <4>1
        <4>4. \A j \in 1..e : ~(j > 1) /\ g = 0
          BY <4>1
        <4>5. ASSUME NEW j \in 1..Len(toDev') PROVE toHost' = <<>> /\ toDev'[j] = at /\ ~(j > 1)
          <5>1. Len(toHost') = 0 /\ toHost' \in Seq(Reply)
            BY <1>0, <1>2, <4>4, Rest DEF e, g
          <5>2. toHost' = <<>>
            BY <5>1
          <5> QED BY <1>0, <1>6, <4>4, <5>2 DEF e
        <4>6. ASSUME NEW i \in 1..Len(toHost') PROVE toHost'[i].place = at /\ ~(i > 1)
          BY <1>5, <4>3 DEF g
        <4> QED BY <4>2, <4>5, <4>6 DEF Behind
      <3> QED BY <1>4, <3>1, <3>2
    <2> QED BY <2>1, <2>2
  <1> QED BY <1>2, <1>7, <1>8

(* The first early timeout: what is on the wires is of the command. *)
LEMMA LateBegins ==
  ASSUME FlashInv, Single, Prompt, ~hasty, Scope, faults' <= 1, hasty', timeout
  PROVE  /\ faults' = 1 /\ UNCHANGED <<toDev, toHost, at>> /\ ~waiting'
         /\ Len(toDev) + Len(toHost) <= 1 /\ tries <= 1
         /\ Behind(toDev, toHost, at)
  <1>0. /\ toDev \in Seq(Nat \ {0}) /\ toHost \in Seq(Reply) /\ at \in Nat \ {0} /\ tries \in Nat
        /\ faults \in Nat
    BY Frames DEF FlashInv, Typed
  <1>1. /\ faults' = faults + 1 /\ ~waiting' /\ UNCHANGED <<toDev, toHost, at>>
    BY DEF timeout, end
  <1>2. faults = 0 /\ faults' = 1
    BY <1>0, <1>1
  <1>3. /\ Len(toDev) + Len(toHost) <= 1
        /\ \A i \in 1..Len(toDev) : toDev[i] = at
        /\ \A i \in 1..Len(toHost) : toHost[i].place = at
    BY DEF Single, Scope
  <1>4. tries <= 1
    <2> DEFINE d == Len(toDev)
               h == Len(toHost)
    <2>1. d \in Nat /\ h \in Nat /\ d + h <= 1 /\ tries <= faults + d + h
      BY <1>0, <1>3 DEF Prompt, Scope
    <2> HIDE DEF d, h
    <2>2. tries <= d + h
      BY <1>2, <2>1
    <2> QED BY <1>0, <2>1, <2>2
  <1>5. Behind(toDev, toHost, at)
    BY <1>0, <1>3 DEF Behind
  <1> QED BY <1>1, <1>2, <1>3, <1>4, <1>5

(* A session that is waited for in scope cannot have lost its frames. *)
LEMMA NotLost ==
  ASSUME FlashInv, Scope, Owed(toDev, toHost, at)
  PROVE  ~lost
  <1>1. mode = "boot"
    <2>1. Last \in Nat /\ at \in Nat \ {0} /\ at <= Last
      BY Frames DEF FlashInv, Typed, Scope, active
    <2> QED BY <2>1 DEF Scope, FlashInv, Progress, Typed
  <1>2. Frame(at).cmd = current.cmd
    BY DEF current
  <1> QED BY <1>1, <1>2 DEF lost, Owed

(* Every step keeps what is known after one early timeout. *)
LEMMA LateStep ==
  ASSUME FlashInv, Single, Prompt, Late, [Next]_vars
  PROVE  Late'
  <1> SUFFICES ASSUME hasty', Scope'
               PROVE  /\ faults' = 1
                      /\ Len(toDev') + Len(toHost') <= (IF waiting' THEN 2 ELSE 1)
                      /\ tries' <= (IF waiting' THEN 2 ELSE 1)
                      /\ Behind(toDev', toHost', at')
                      /\ waiting' => Owed(toDev', toHost', at')
    BY DEF Late, Behind, Owed
  <1>0. faults' <= 1 /\ active' /\ mode' # "off" /\ hasty \in BOOLEAN
    BY DEF Scope, FlashInv, Typed
  <1>1. ~again
    BY DEF again
  <1>2. Scope /\ faults \in Nat /\ faults' \in Nat /\ faults <= faults'
    BY <1>1, ScopeBack
  <1>3. ASSUME hasty
        PROVE  /\ faults = 1 /\ faults' = 1
               /\ Len(toDev) + Len(toHost) <= (IF waiting THEN 2 ELSE 1)
               /\ tries <= (IF waiting THEN 2 ELSE 1)
               /\ Behind(toDev, toHost, at)
               /\ waiting => Owed(toDev, toHost, at)
    <2>1. faults = 1
      BY <1>2, <1>3 DEF Late
    <2>2. faults' = 1
      BY <1>0, <1>2, <2>1
    <2> QED BY <1>2, <1>3, <2>1, <2>2 DEF Late, Behind, Owed
  <1>4. CASE write
    <2>1. hasty /\ waiting' /\ at' = at
      BY <1>4 DEF write
    <2> QED BY <1>2, <1>3, <1>4, <2>1, LateWrite
  <1>5. CASE transportFails \/ Run
    BY <1>0, <1>5 DEF transportFails, Run, end, active
  <1>6. CASE timeout
    <2>1. CASE hasty
      <3>1. ~lost
        <4>1. waiting
          BY <1>6 DEF timeout
        <4> QED BY <1>2, <1>3, <2>1, <4>1, NotLost
      <3>2. faults' = faults + 1
        BY <1>6, <3>1 DEF timeout
      <3> QED BY <1>3, <2>1, <3>2
    <2>2. CASE ~hasty
      <3>1. /\ faults' = 1 /\ UNCHANGED <<toDev, toHost, at>> /\ ~waiting'
            /\ Len(toDev) + Len(toHost) <= 1 /\ tries <= 1
            /\ Behind(toDev, toHost, at)
        BY <1>0, <1>2, <1>6, <2>2, LateBegins
      <3>2. tries' = tries \/ tries' = 0
        BY <1>6 DEF timeout, end
      <3> QED BY <3>1, <3>2
    <2> QED BY <1>0, <2>1, <2>2
  <1>7. CASE await
    <2>1. hasty
      BY <1>7 DEF await
    <2>2. outcome' = "running" /\ waiting
      BY <1>0, <1>7 DEF active, await
    <2>3. CASE /\ at' = at /\ waiting' = waiting /\ tries' = tries
               /\ Len(toDev') + Len(toHost') <= 2
               /\ Behind(toDev', toHost', at) /\ Owed(toDev', toHost', at)
      BY <1>3, <2>1, <2>2, <2>3
    <2>4. CASE /\ at' = at + 1 /\ ~waiting' /\ tries' = 0
               /\ Len(toDev') + Len(toHost') <= 1
               /\ Behind(toDev', toHost', at + 1)
      BY <1>3, <2>1, <2>4
    <2> QED BY <1>2, <1>7, <2>1, <2>2, <2>3, <2>4, LateAwait
  <1>8. CASE serve
    <2>1. UNCHANGED <<at, waiting, tries, hasty>>
      BY <1>8 DEF serve
    <2>2. /\ Len(toDev') + Len(toHost') = Len(toDev) + Len(toHost)
          /\ Behind(toDev', toHost', at)
          /\ waiting => Owed(toDev', toHost', at)
      BY <1>2, <1>8, <2>1, LateServe
    <2> QED BY <1>3, <2>1, <2>2
  <1>9. CASE lose
    <2>1. hasty /\ faults' = faults + 1
      BY <1>9 DEF lose
    <2> QED BY <1>3, <2>1
  <1>10. CASE powerCut
    BY <1>0, <1>10 DEF powerCut
  <1>11. CASE UNCHANGED vars
    <2>1. UNCHANGED <<at, waiting, tries, hasty, toDev, toHost>>
      BY <1>11 DEF vars
    <2> QED BY <1>3, <2>1
  <1> QED BY <1>1, <1>4, <1>5, <1>6, <1>7, <1>8, <1>9, <1>10, <1>11 DEF Next, HostStep

(***************************************************************************)
(* What a flash has written when its frames are answered.                  *)
(***************************************************************************)

(* After the erase every cell is free or has what belongs there, and every *)
(* record that the session has left behind is in the flash or about to be. *)
(* q and r are what is on the wires, a is the place of the session.        *)
Programmed(q, r, a, content) ==
  /\ a >= 4 \/ (\E i \in 1..Len(r) : r[i].place = 3) =>
        \A c \in Range(want) : content[c] \in {"erased", session.img}
  /\ \A p \in 4..(Last - 1) :
        p < a => content[Frame(p).cell] = session.img \/ \E j \in 1..Len(q) : q[j] = p
  /\ \A i \in 1..Len(r) :
        r[i].place \in 4..(Last - 1) => content[Frame(r[i].place).cell] = session.img

Programs == writing /\ want = family /\ Scope => Programmed(toDev, toHost, at, flash)

(* The frames of a flash: the erase, and a record for each cell. *)
LEMMA FlashFrames ==
  ASSUME session \in SessionType, writing
  PROVE  /\ Last \in Nat /\ Last >= 5 /\ session.img \in Image /\ want = FamilyOf[session.img]
         /\ Frame(3) = EraseFlash
         /\ \A p \in Nat \ {0} : Frame(p).cmd = "erase" => p = 3
         /\ \A p \in 4..(Last - 1) : Frame(p).cmd = "program" /\ Frame(p).of = session.img
                                     /\ Frame(p).cell \in Range(want) /\ Frame(p).cell \in Cells
         /\ \A p \in Nat \ {0} : Frame(p).cmd = "program" => p \in 4..(Last - 1)
         /\ \A c \in Range(want) : \E p \in 4..(Last - 1) : Frame(p).cell = c
  <1> DEFINE g == session.img
             n == Records(g)
             b == Below(g)
  <1>1. g \in Image /\ want = FamilyOf[g] /\ Script(session) = flashes(g)
    BY DEF SessionType, want, Script, writing
  <1>2. Last = n + 4 /\ n \in Nat /\ n >= 1 /\ n = N - b /\ b \in Nat /\ N \in Nat
    BY <1>1, FlashScript, Sizes DEF Last, Records
  <1>3. Range(want) = (b + 1)..N /\ Range(want) \subseteq Cells
    <2>1. want \in {"135", "150"} /\ (want = "135" => b = 0) /\ (want = "150" => b = K)
      BY <1>1, Sizes DEF Families
    <2> HIDE DEF b
    <2> QED BY <2>1, RangeFacts DEF Ranges
  <1>4. \A i \in 1..Last : Frame(i) = flashes(g)[i]
    BY <1>1, <1>2 DEF Frame
  <1>5. Frame(1) = ReadBootInfo /\ Frame(2) = ReadCRC("low") /\ Frame(3) = EraseFlash /\ Frame(Last) = ReadCRC(want)
    <2>1. 1 \in 1..Last /\ 2 \in 1..Last /\ 3 \in 1..Last /\ Last \in 1..Last
      BY <1>2
    <2> QED BY <1>1, <1>2, <1>4, <2>1, FlashScript
  <1>6. ASSUME NEW p \in 4..(Last - 1)
        PROVE  /\ Frame(p).cmd = "program" /\ Frame(p).of = g
               /\ Frame(p).cell = b + (p - 3) /\ Frame(p).cell \in Range(want)
    <2>1. p \in 1..Last /\ p \in 4..(n + 3) /\ b + (p - 3) \in Nat /\ b + (p - 3) \in (b + 1)..N
      BY <1>2
    <2>2. Frame(p) = ProgramFlash(g, b + (p - 3))
      BY <1>1, <1>4, <2>1, FlashScript
    <2> QED BY <1>1, <1>3, <2>1, <2>2, Commands
  <1>7. ASSUME NEW p \in Nat \ {0}
        PROVE  (Frame(p).cmd = "erase" => p = 3) /\ (Frame(p).cmd = "program" => p \in 4..(Last - 1))
    <2>1. p \in {1, 2, 3} \/ p \in 4..(Last - 1) \/ p = Last \/ p > Last
      BY <1>2
    <2>2. /\ ReadBootInfo.cmd = "info" /\ ReadCRC("low").cmd = "crc" /\ ReadCRC(want).cmd = "crc"
          /\ EraseFlash.cmd = "erase" /\ JumpToApp.cmd = "jump"
      BY DEF ReadBootInfo, ReadCRC, EraseFlash, JumpToApp, Command
    <2>3. p > Last => Frame(p) = JumpToApp
      BY <1>2 DEF Frame
    <2> QED BY <1>5, <1>6, <2>1, <2>2, <2>3
  <1>8. ASSUME NEW c \in Range(want) PROVE \E p \in 4..(Last - 1) : Frame(p).cell = c
    <2> DEFINE q == c - b + 3
    <2>1. q \in 4..(Last - 1) /\ b + (q - 3) = c
      BY <1>2, <1>3
    <2> HIDE DEF q
    <2> QED BY <1>6, <2>1
  <1> QED BY <1>1, <1>2, <1>3, <1>5, <1>6, <1>7, <1>8

(* With at most one fault no frame on the wires is older than the command *)
(* before the current one.                                                *)
LEMMA Near ==
  ASSUME FlashInv, Single, Late, Scope
  PROVE  /\ \A i \in 1..Len(toHost) : toHost[i].place >= at - 1
         /\ \A j \in 1..Len(toDev) : toDev[j] >= at - 1
  <1>1. CASE hasty
    BY <1>1 DEF Late
  <1>2. CASE ~hasty
    <2>1. at \in Nat
      BY Frames DEF FlashInv, Typed
    <2>2. /\ \A i \in 1..Len(toDev) : toDev[i] = at
          /\ \A i \in 1..Len(toHost) : toHost[i].place = at
      BY <1>2 DEF Single, Scope
    <2> QED BY <2>1, <2>2
  <1> QED BY <1>1, <1>2

(* The controller works through a frame of the flash. *)
LEMMA ProgramsServe ==
  ASSUME FlashInv, Single, Late, Scope, writing, want = family, serve,
         Programmed(toDev, toHost, at, flash)
  PROVE  Programmed(toDev', toHost', at, flash')
  <1> DEFINE x == toDev[1]
             f == Frame(x)
             g == session.img
  <1>0. /\ session \in SessionType /\ Typed /\ at \in Nat \ {0} /\ toDev \in Seq(Nat \ {0})
        /\ flash \in [Cells -> Tags] /\ Order /\ Len(toHost) \in Nat /\ family \in {"135", "150"}
        /\ at <= Last
    BY Frames DEF FlashInv, Typed, Families, Scope, active
  <1>1. /\ x \in Nat \ {0} /\ 1 \in 1..Len(toDev) /\ Head(toDev) = x
        /\ \A i \in 1..Len(toHost') :
               \/ i \in 1..Len(toHost) /\ toHost'[i] = toHost[i]
               \/ toHost'[i].place = x
    <2>1. toDev # <<>>
      BY DEF serve
    <2>2. Head(toDev) = x
      BY <1>0, <2>1, Shorter
    <2> QED BY <1>0, <2>2, Served
  <1>2. \A j \in 1..Len(toDev) : j = 1 \/ \E i \in 1..Len(toDev') : toDev'[i] = toDev[j]
    <2> SUFFICES ASSUME NEW j \in 1..Len(toDev), j # 1
                 PROVE  \E i \in 1..Len(toDev') : toDev'[i] = toDev[j]
      OBVIOUS
    <2>1. toDev # <<>> /\ toDev' = Tail(toDev)
      BY DEF serve
    <2>2. /\ Len(toDev') = Len(toDev) - 1 /\ Len(toDev) \in Nat
          /\ \A i \in 1..Len(toDev') : toDev'[i] = toDev[i + 1]
      BY <1>0, <2>1, Shorter
    <2>3. j - 1 \in 1..Len(toDev') /\ (j - 1) + 1 = j
      BY <2>2
    <2>4. toDev'[j - 1] = toDev[j]
      BY <2>2, <2>3
    <2> QED BY <2>3, <2>4
  <1>3. /\ x <= at /\ x >= at - 1 /\ \A i \in 1..Len(toHost) : toHost[i].place <= x
    BY <1>0, <1>1, Near DEF Order
  <1>4. /\ Last \in Nat /\ Last >= 5 /\ g \in Image
        /\ f.cmd = "erase" => x = 3
        /\ x = 3 => f.cmd = "erase"
        /\ f.cmd = "program" => x \in 4..(Last - 1)
        /\ \A p \in 4..(Last - 1) : Frame(p).cmd = "program" /\ Frame(p).of = g
                                     /\ Frame(p).cell \in Range(want) /\ Frame(p).cell \in Cells
    <2>1. EraseFlash.cmd = "erase"
      BY DEF EraseFlash, Command
    <2> QED BY <1>0, <1>1, <2>1, FlashFrames
  <1>5. Range(want) \subseteq Cells
    BY <1>0, RangeFacts DEF Ranges
  <1>6. flash' = Execute(f)
    BY <1>1 DEF serve
  <1>7. /\ at >= 4 \/ (\E i \in 1..Len(toHost) : toHost[i].place = 3) =>
              \A c \in Range(want) : flash[c] \in {"erased", g}
        /\ \A p \in 4..(Last - 1) :
              p < at => flash[Frame(p).cell] = g \/ \E j \in 1..Len(toDev) : toDev[j] = p
        /\ \A i \in 1..Len(toHost) :
              toHost[i].place \in 4..(Last - 1) => flash[Frame(toHost[i].place).cell] = g
    BY DEF Programmed
  <1> HIDE DEF x
  <1>8. CASE f.cmd \notin {"erase", "program"}
    <2>1. flash' = flash
      BY <1>6, <1>8 DEF Execute
    <2>2. x # 3 /\ x \notin 4..(Last - 1)
      BY <1>4, <1>8
    <2>3. at >= 4 \/ (\E i \in 1..Len(toHost') : toHost'[i].place = 3) =>
              \A c \in Range(want) : flash'[c] \in {"erased", g}
      BY <1>1, <1>7, <2>1, <2>2
    <2>4. ASSUME NEW p \in 4..(Last - 1), p < at
          PROVE  flash'[Frame(p).cell] = g \/ \E j \in 1..Len(toDev') : toDev'[j] = p
      <3>1. CASE flash[Frame(p).cell] = g
        BY <2>1, <3>1
      <3>2. CASE \E j \in 1..Len(toDev) : toDev[j] = p
        <4>1. PICK j \in 1..Len(toDev) : toDev[j] = p
          BY <3>2
        <4>2. j # 1
          BY <2>2, <4>1 DEF x
        <4> QED BY <1>2, <4>1, <4>2
      <3> QED BY <1>7, <2>4, <3>1, <3>2
    <2>5. ASSUME NEW i \in 1..Len(toHost'), toHost'[i].place \in 4..(Last - 1)
          PROVE  flash'[Frame(toHost'[i].place).cell] = g
      <3>1. i \in 1..Len(toHost) /\ toHost'[i] = toHost[i]
        BY <1>1, <2>2, <2>5
      <3> QED BY <1>7, <2>1, <2>5, <3>1
    <2> QED BY <2>3, <2>4, <2>5 DEF Programmed
  <1>9. CASE f.cmd = "erase"
    <2>1. x = 3
      BY <1>4, <1>9
    <2>2. at <= 4
      BY <1>0, <1>3, <2>1
    <2>3. \A c \in Range(want) : flash'[c] = "erased"
      BY <1>5, <1>6, <1>9 DEF Execute
    <2>4. \A p \in 4..(Last - 1) : ~(p < at)
      BY <1>0, <2>2
    <2>5. ASSUME NEW i \in 1..Len(toHost') PROVE toHost'[i].place \notin 4..(Last - 1)
      <3>1. toHost'[i].place = x \/ (i \in 1..Len(toHost) /\ toHost'[i] = toHost[i])
        BY <1>1
      <3>2. toHost'[i].place <= 3
        BY <1>3, <2>1, <3>1
      <3> QED BY <3>2
    <2> QED BY <2>3, <2>4, <2>5 DEF Programmed
  <1>10. CASE f.cmd = "program"
    <2> DEFINE k == f.cell
    <2>1. x \in 4..(Last - 1) /\ f.of = g /\ k \in Range(want) /\ k \in Cells
      BY <1>4, <1>10
    <2>2. at >= 4
      BY <1>0, <1>3, <2>1
    <2>3. flash[k] \in {"erased", g}
      BY <1>7, <2>1, <2>2
    <2>4. flash' = [flash EXCEPT ![k] = g]
      BY <1>6, <1>10, <2>1, <2>3 DEF Execute
    <2> HIDE DEF k
    <2>5. flash'[k] = g /\ \A c \in Cells : c # k => flash'[c] = flash[c]
      BY <1>0, <2>1, <2>4
    <2>6. \A c \in Range(want) : flash'[c] \in {"erased", g}
      BY <1>5, <1>7, <2>2, <2>5
    <2>7. ASSUME NEW p \in 4..(Last - 1), flash[Frame(p).cell] = g \/ p = x
          PROVE  flash'[Frame(p).cell] = g
      BY <1>4, <2>5, <2>7 DEF k
    <2>8. ASSUME NEW p \in 4..(Last - 1), p < at
          PROVE  flash'[Frame(p).cell] = g \/ \E j \in 1..Len(toDev') : toDev'[j] = p
      <3>1. CASE flash[Frame(p).cell] = g \/ p = x
        BY <2>7, <3>1
      <3>2. CASE p # x /\ \E j \in 1..Len(toDev) : toDev[j] = p
        <4>1. PICK j \in 1..Len(toDev) : toDev[j] = p
          BY <3>2
        <4>2. j # 1
          BY <3>2, <4>1 DEF x
        <4> QED BY <1>2, <4>1, <4>2
      <3> QED BY <1>7, <2>8, <3>1, <3>2
    <2>9. ASSUME NEW i \in 1..Len(toHost'), toHost'[i].place \in 4..(Last - 1)
          PROVE  flash'[Frame(toHost'[i].place).cell] = g
      BY <1>1, <1>7, <2>7, <2>9
    <2> QED BY <2>6, <2>8, <2>9 DEF Programmed
  <1> QED BY <1>8, <1>9, <1>10

(* The answer to a command of the flash is taken: what it was for is done. *)
LEMMA ProgramsAwait ==
  ASSUME FlashInv, Single, Late, Scope, writing, want = family, await,
         Programmed(toDev, toHost, at, flash)
  PROVE  outcome' # "running" \/ Programmed(toDev', toHost', at', flash')
  <1> DEFINE g == session.img
  <1>0. /\ session \in SessionType /\ Typed /\ at \in Nat \ {0} /\ toDev' = toDev /\ flash' = flash
        /\ toHost \in Seq(Reply) /\ active /\ waiting /\ at <= Last /\ hasty \in BOOLEAN
    BY Frames DEF FlashInv, Typed, await, active
  <1>1. PICK n \in 1..Len(toHost) :
           /\ toHost' = SubSeq(toHost, n + 1, Len(toHost))
           /\ \/ UNCHANGED host /\ \A i \in 1..n : Frame(toHost[i].place).cmd # current.cmd
              \/ \E k \in 1..n : Frame(toHost[k].place).cmd = current.cmd /\ accept(toHost[k])
    BY <1>0, AwaitedFirst
  <1>2. \A i \in 1..Len(toHost') : \E j \in 1..Len(toHost) : toHost'[i] = toHost[j]
    <2>1. \A i \in 1..Len(toHost') : i + n \in 1..Len(toHost) /\ toHost'[i] = toHost[i + n]
      BY <1>0, <1>1, Rest
    <2> QED BY <2>1
  <1>3. /\ at >= 4 \/ (\E i \in 1..Len(toHost) : toHost[i].place = 3) =>
              \A c \in Range(want) : flash[c] \in {"erased", g}
        /\ \A p \in 4..(Last - 1) :
              p < at => flash[Frame(p).cell] = g \/ \E j \in 1..Len(toDev) : toDev[j] = p
        /\ \A i \in 1..Len(toHost) :
              toHost[i].place \in 4..(Last - 1) => flash[Frame(toHost[i].place).cell] = g
    BY DEF Programmed
  <1>4. ASSUME NEW i \in 1..Len(toHost'), toHost'[i].place \in 4..(Last - 1)
        PROVE  flash[Frame(toHost'[i].place).cell] = g
    <2>1. PICK j \in 1..Len(toHost) : toHost'[i] = toHost[j]
      BY <1>2
    <2> QED BY <1>3, <1>4, <2>1
  <1>5. CASE UNCHANGED host
    <2>1. at' = at
      BY <1>5 DEF host
    <2>2. at >= 4 \/ (\E i \in 1..Len(toHost') : toHost'[i].place = 3) =>
              \A c \in Range(want) : flash[c] \in {"erased", g}
      BY <1>2, <1>3
    <2> QED BY <1>0, <1>3, <1>4, <2>1, <2>2 DEF Programmed
  <1>6. ASSUME NEW k \in 1..n, Frame(toHost[k].place).cmd = current.cmd, advance
        PROVE  Programmed(toDev', toHost', at', flash')
    <2>1. at' = at + 1
      BY <1>6 DEF advance
    <2>2. /\ k \in 1..Len(toHost) /\ toHost[k].place \in Nat \ {0} /\ Len(toHost) \in Nat
      <3>1. k \in 1..Len(toHost) /\ Len(toHost) \in Nat
        BY <1>0
      <3>2. toHost[k] \in Reply
        BY <1>0, <3>1
      <3> QED BY <3>1, <3>2 DEF Reply
    <2>3. ASSUME at + 1 >= 4 \/ \E i \in 1..Len(toHost') : toHost'[i].place = 3
          PROVE  \A c \in Range(want) : flash[c] \in {"erased", g}
      <3>1. CASE at = 3
        <4>1. current.cmd = "erase"
          BY <1>0, <3>1, FlashFrames DEF current, EraseFlash, Command
        <4>2. toHost[k].place = 3
          BY <1>0, <1>6, <2>2, <4>1, FlashFrames
        <4> QED BY <1>3, <2>2, <4>2
      <3>2. CASE at # 3
        <4>1. at >= 4 \/ \E i \in 1..Len(toHost) : toHost[i].place = 3
          BY <1>0, <1>2, <2>3, <3>2
        <4> QED BY <1>3, <4>1
      <3> QED BY <3>1, <3>2
    <2>4. ASSUME NEW p \in 4..(Last - 1), p < at + 1
          PROVE  flash[Frame(p).cell] = g \/ \E j \in 1..Len(toDev) : toDev[j] = p
      <3>1. p < at \/ p = at
        BY <1>0, <2>4
      <3>2. CASE p < at
        BY <1>3, <3>2
      <3>3. CASE p = at
        <4>1. Owed(toDev, toHost, at)
          <5>1. CASE hasty
            BY <1>0, <5>1 DEF Late, Owed
          <5>2. CASE ~hasty
            <6>1. Len(toHost) = 1 /\ toHost[1].place = at
              BY <1>0, <5>2, SingleTaken
            <6>2. 1 \in 1..Len(toHost)
              BY <6>1
            <6> QED BY <6>1, <6>2 DEF Owed
          <5> QED BY <1>0, <5>1, <5>2
        <4> QED BY <1>3, <3>3, <4>1 DEF Owed
      <3> QED BY <3>1, <3>2, <3>3
    <2> QED BY <1>0, <1>4, <2>1, <2>3, <2>4 DEF Programmed
  <1>7. CASE \E k \in 1..n : Frame(toHost[k].place).cmd = current.cmd /\ accept(toHost[k])
    <2>1. PICK k \in 1..n : Frame(toHost[k].place).cmd = current.cmd /\ accept(toHost[k])
      BY <1>7
    <2>2. outcome' \in {"failed", "mismatch"} \/ advance
      BY <2>1, Accepted
    <2> QED BY <1>6, <2>1, <2>2
  <1> QED BY <1>1, <1>5, <1>7

(* Every step keeps what a flash has written. *)
LEMMA ProgramsStep ==
  ASSUME FlashInv, Single, Late, Programs, [Next]_vars
  PROVE  Programs'
  <1>1. CASE again
    <2>1. at' = 1 /\ toHost' = <<>>
      BY <1>1 DEF again, Begin
    <2> QED BY <2>1 DEF Programs, Programmed
  <1>2. CASE ~again
    <2> SUFFICES ASSUME writing', want' = family', Scope'
                 PROVE  Programs'
      BY DEF Programs
    <2>1. session' = session /\ family' = family /\ Scope /\ faults \in Nat
      BY <1>2, ScopeBack
    <2>2. writing /\ want = family /\ outcome' = "running" /\ faults' <= 1 /\ mode' # "off"
      BY <2>1 DEF writing, want, Scope, active
    <2>3. Programmed(toDev, toHost, at, flash)
      BY <2>1, <2>2 DEF Programs
    <2>4. ASSUME Programmed(toDev', toHost', at', flash') PROVE Programs'
      BY <2>1, <2>4 DEF Programs, Programmed, Frame, Last, want
    <2>5. /\ Typed /\ toDev \in Seq(Nat \ {0}) /\ toHost \in Seq(Reply) /\ hasty \in BOOLEAN
          /\ Len(toDev) \in Nat
      BY DEF FlashInv, Typed
    <2>6. CASE write
      <3>1. UNCHANGED <<toHost, at, flash>> /\ toDev' = sent(at)
        BY <2>6 DEF write
      <3>2. \A j \in 1..Len(toDev) : j \in 1..Len(toDev') /\ toDev'[j] = toDev[j]
        BY <2>5, <3>1, Sending
      <3>3. Programmed(toDev', toHost', at', flash')
        BY <2>3, <3>1, <3>2 DEF Programmed
      <3> QED BY <2>4, <3>3
    <2>7. CASE transportFails \/ Run
      BY <2>2, <2>7 DEF transportFails, Run, end
    <2>8. CASE timeout \/ UNCHANGED vars
      <3>1. UNCHANGED <<toDev, toHost, at, flash>>
        BY <2>8 DEF timeout, end, vars
      <3> QED BY <2>3, <2>4, <3>1
    <2>9. CASE lose
      <3>1. UNCHANGED <<at, flash>> /\ faults' = faults + 1
        BY <2>9 DEF lose
      <3>2. ~hasty
        BY <2>1, <2>2, <2>5, <3>1 DEF Late
      <3>3. \A i \in 1..Len(toDev) : toDev[i] = at
        BY <2>1, <3>2 DEF Single, Scope
      <3>4. \A i \in 1..Len(toHost') : \E j \in 1..Len(toHost) : toHost'[i] = toHost[j]
        <4>1. toHost' = toHost \/ (toHost # <<>> /\ toHost' = Tail(toHost))
          BY <2>9 DEF lose
        <4>2. CASE toHost # <<>> /\ toHost' = Tail(toHost)
          <5>1. \A i \in 1..Len(toHost') : i + 1 \in 1..Len(toHost) /\ toHost'[i] = toHost[i + 1]
            BY <2>5, <4>2, Shorter
          <5> QED BY <5>1
        <4> QED BY <4>1, <4>2
      <3>5. at \in Nat
        BY Frames DEF FlashInv, Typed
      <3>6. \A p \in 4..(Last - 1) : p < at => flash[Frame(p).cell] = session.img
        BY <2>3, <3>3, <3>5 DEF Programmed
      <3>7. Programmed(toDev', toHost', at', flash')
        <4>1. at >= 4 \/ (\E i \in 1..Len(toHost') : toHost'[i].place = 3) =>
                  \A c \in Range(want) : flash[c] \in {"erased", session.img}
          BY <2>3, <3>4 DEF Programmed
        <4>2. ASSUME NEW i \in 1..Len(toHost'), toHost'[i].place \in 4..(Last - 1)
              PROVE  flash[Frame(toHost'[i].place).cell] = session.img
          <5>1. PICK j \in 1..Len(toHost) : toHost'[i] = toHost[j]
            BY <3>4
          <5> QED BY <2>3, <4>2, <5>1 DEF Programmed
        <4> QED BY <3>1, <3>6, <4>1, <4>2 DEF Programmed
      <3> QED BY <2>4, <3>7
    <2>10. CASE powerCut
      BY <2>2, <2>10 DEF powerCut
    <2>11. CASE serve
      <3>1. at' = at
        BY <2>11 DEF serve
      <3>2. Programmed(toDev', toHost', at, flash')
        BY <2>1, <2>2, <2>3, <2>11, ProgramsServe
      <3> QED BY <2>4, <3>1, <3>2
    <2>12. CASE await
      BY <2>1, <2>2, <2>3, <2>4, <2>12, ProgramsAwait
    <2> QED BY <1>2, <2>6, <2>7, <2>8, <2>9, <2>10, <2>11, <2>12 DEF Next, HostStep
  <1> QED BY <1>1, <1>2

(***************************************************************************)
(* Why one fault does not make a flash fail.                               *)
(***************************************************************************)

(* A controller that holds a firmware shows its family in the low cells. *)
LEMMA BaseTrue ==
  ASSUME FlashInv, writing, at <= 2, intact, want = family
  PROVE  base(crc16("low")) = want
  <1>0. flash \in [Cells -> Tags] /\ family \in {"135", "150"} /\ Guard
    BY DEF FlashInv, Typed, Families
  <1>1. CASE family = "150"
    <2>1. \A c \in Range("low") : flash[c] = "erased"
      BY <1>0, <1>1, RangeFacts DEF Guard
    <2>2. crc16("low") = ErasedCRC
      BY <2>1 DEF crc16, ErasedCRC
    <2> QED BY <1>1, <2>2 DEF base
  <1>2. CASE family = "135"
    <2>1. PICK g \in Image : FamilyOf[g] = "135" /\ Installed(g)
      BY <1>0, <1>2 DEF Guard, Whole
    <2>2. 1 \in Range("135") /\ 1 \in Range("low")
      BY RangeFacts
    <2>3. flash[1] # "erased"
      BY <2>1, <2>2, BootAssumption DEF Installed
    <2>4. crc16("low")[1] # ErasedCRC[1]
      BY <2>2, <2>3 DEF crc16, ErasedCRC
    <2> QED BY <1>2, <2>4 DEF base
  <1> QED BY <1>0, <1>1, <1>2

(* A timeout within one fault is not the last one that the command is given. *)
LEMMA TimeoutTolerated ==
  ASSUME commandRetries >= 2, connectRetries >= 2,
         FlashInv, Dead, Single, Prompt, Late, Scope, timeout, faults' <= 1
  PROVE  outcome' = outcome
  <1>0. /\ retries \in Nat /\ retries >= 2 /\ tries \in Nat /\ faults \in Nat /\ hasty \in BOOLEAN
    BY BootAssumption DEF retries, FlashInv, Typed
  <1>1. active /\ waiting /\ (tries < retries => outcome' = outcome)
        /\ IF lost THEN UNCHANGED <<hasty, faults>> ELSE faults' = faults + 1 /\ hasty' = TRUE
    BY DEF timeout
  <1>2. CASE hasty
    <2>1. faults = 1 /\ Owed(toDev, toHost, at)
      BY <1>1, <1>2 DEF Late, Owed
    <2>2. faults' = faults + 1
      BY <1>1, <2>1, NotLost
    <2> QED BY <2>1, <2>2
  <1>3. CASE ~hasty /\ lost
    <2>1. Len(toDev) = 0 /\ Len(toHost) = 0
      BY <1>1, <1>3, LostEmpty
    <2>2. tries <= faults + Len(toDev) + Len(toHost)
      BY <1>1, <1>3 DEF Prompt, Scope
    <2>3. tries <= faults
      BY <1>0, <2>1, <2>2
    <2>4. faults <= 1
      BY DEF Scope
    <2> QED BY <1>0, <1>1, <2>3, <2>4
  <1>4. CASE ~hasty /\ ~lost
    <2>1. tries <= 1
      BY <1>1, <1>4, LateBegins
    <2> QED BY <1>0, <1>1, <2>1
  <1> QED BY <1>0, <1>2, <1>3, <1>4

(* Within one fault the answer that is taken is one that the flash goes on *)
(* with: the base is the family's, and the checksum the image's.           *)
LEMMA AnswerTolerated ==
  ASSUME FlashInv, Single, Late, Programs, Scope, writing, intact, want = family,
         NEW k \in 1..Len(toHost), Frame(toHost[k].place).cmd = current.cmd, accept(toHost[k])
  PROVE  advance
  <1> DEFINE g == session.img
             x == toHost[k].place
             v == toHost[k].val
  <1>0. /\ session \in SessionType /\ at \in Nat \ {0} /\ Order /\ Checksums /\ Guard
        /\ toHost[k] \in Reply /\ x \in Nat \ {0}
    <2>1. toHost[k] \in Reply
      BY DEF FlashInv, Typed
    <2> QED BY <2>1, Frames DEF FlashInv, Typed, Reply
  <1>1. /\ Last \in Nat /\ Last >= 5 /\ want \in {"135", "150"} /\ x <= at /\ x >= at - 1
        /\ current.cmd = "crc" => at \in {2, Last} /\ x \in {2, Last}
        /\ at = 2 => current = ReadCRC("low")
        /\ at = Last => current = ReadCRC(want)
    <2>1. x <= at /\ x >= at - 1
      BY <1>0, Near DEF Order
    <2> QED BY <1>0, <2>1, Frames DEF current
  <1>2. /\ ReadCRC("low").cmd = "crc" /\ ReadCRC("low").of = "low"
        /\ ReadCRC(want).cmd = "crc" /\ ReadCRC(want).of = want
    BY DEF ReadCRC, Command
  <1>3. ASSUME current = ReadCRC("low") PROVE base(v) = want
    <2>1. at = 2
      BY <1>1, <1>2, <1>3
    <2>2. x = 2
      BY <1>1, <1>2, <1>3, <2>1
    <2>3. v = crc16("low")
      BY <1>0, <2>1, <2>2 DEF Guard
    <2>4. base(crc16("low")) = want
      BY <2>1, BaseTrue
    <2> QED BY <2>3, <2>4
  <1>4. ASSUME current = ReadCRC(want) PROVE v = CRC(g)
    <2>1. at = Last
      BY <1>1, <1>2, <1>4
    <2>2. x = Last
      BY <1>1, <1>2, <1>4, <2>1
    <2>3. v = crc16(want)
      BY <1>0, <2>2 DEF Checksums
    <2>4. ASSUME NEW p \in 4..(Last - 1) PROVE flash[Frame(p).cell] = g
      <3>1. p < at
        BY <1>1, <2>1
      <3>2. flash[Frame(p).cell] = g \/ \E j \in 1..Len(toDev) : toDev[j] = p
        BY <3>1 DEF Programs, Programmed
      <3>3. \A j \in 1..Len(toDev) : toDev[j] # p
        <4>1. \A j \in 1..Len(toDev) : Last <= toDev[j]
          BY <1>0, <2>2 DEF Order
        <4> QED BY <1>1, <4>1
      <3> QED BY <3>2, <3>3
    <2>5. \A c \in Range(want) : flash[c] = g
      <3>1. \A c \in Range(want) : \E p \in 4..(Last - 1) : Frame(p).cell = c
        BY <1>0, FlashFrames
      <3> QED BY <2>4, <3>1
    <2>6. crc16(want) = CRC(g)
      BY <2>5 DEF crc16, CRC, want
    <2> QED BY <2>3, <2>6
  <1> QED BY <1>3, <1>4 DEF accept

(* A step within one fault does not make the session fail. *)
LEMMA OneFaultStep ==
  ASSUME commandRetries >= 2, connectRetries >= 2,
         FlashInv, Dead, Single, Prompt, Late, Programs, OneFaultTolerated, [Next]_vars
  PROVE  OneFaultTolerated'
  <1> SUFFICES ASSUME writing', intact', want' = family', faults' <= 1, mode' # "off"
               PROVE  outcome' \notin {"failed", "mismatch"}
    BY DEF OneFaultTolerated, want
  <1>1. CASE again
    BY <1>1 DEF again, Begin
  <1>2. CASE ~again
    <2>1. /\ session' = session /\ family' = family /\ mode # "off" /\ faults <= 1
      <3>1. /\ session' = session /\ family' = family /\ mode # "off"
            /\ faults \in Nat /\ faults' \in Nat /\ faults <= faults'
        BY <1>2, ScopeBack
      <3>2. faults <= 1
        BY <3>1
      <3> QED BY <3>1, <3>2
    <2>2. intact' = intact
      BY <1>2 DEF Next, HostStep, write, timeout, await, Run, transportFails, serve, lose, powerCut, vars
    <2>3. writing /\ intact /\ want = family /\ Typed
      BY <2>1, <2>2 DEF writing, want, FlashInv
    <2>4. outcome \notin {"failed", "mismatch"}
      BY <2>1, <2>3 DEF OneFaultTolerated, want
    <2>5. active => Scope
      BY <2>1 DEF Scope
    <2>6. CASE timeout
      <3>1. active
        BY <2>6 DEF timeout
      <3> QED BY <2>4, <2>5, <2>6, <3>1, TimeoutTolerated
    <2>7. CASE await
      <3>1. active
        BY <2>7 DEF await
      <3>2. \/ UNCHANGED host
            \/ \E k \in 1..Len(toHost) : Frame(toHost[k].place).cmd = current.cmd /\ accept(toHost[k])
        BY <2>3, <2>7, Awaited
      <3>3. UNCHANGED host \/ advance
        BY <2>3, <2>5, <3>1, <3>2, AnswerTolerated
      <3> QED BY <2>4, <3>3 DEF host, advance
    <2>8. CASE transportFails
      BY <2>8 DEF transportFails, end
    <2>9. CASE write \/ Run
      BY <2>4, <2>9 DEF write, Run
    <2>10. CASE serve \/ lose \/ powerCut \/ UNCHANGED vars
      <3>1. outcome' = outcome
        BY <2>10 DEF serve, lose, powerCut, vars
      <3> QED BY <2>4, <3>1
    <2> QED BY <1>2, <2>6, <2>7, <2>8, <2>9, <2>10 DEF Next, HostStep
  <1> QED BY <1>1, <1>2

(* A flash of the right file onto a controller that held a firmware does   *)
(* not fail, and does not refuse the file, for one frame that was lost or  *)
(* one answer that came after its timeout: every command is attempted a    *)
(* second time, and no answer of the first attempt is taken for another's. *)
THEOREM OneFaultTheorem ==
  ASSUME commandRetries >= 2, connectRetries >= 2
  PROVE  Spec => []OneFaultTolerated
  <1> DEFINE Inv == FlashInv /\ Dead /\ Single /\ Prompt /\ Late /\ Programs /\ OneFaultTolerated
  <1>1. Init => Inv
    <2> SUFFICES ASSUME Init PROVE Inv
      OBVIOUS
    <2>1. /\ toDev = <<>> /\ toHost = <<>> /\ at = 1 /\ mode = "boot" /\ outcome = "running"
          /\ tries = 0 /\ faults = 0 /\ ~hasty /\ ~waiting
      BY DEF Init
    <2>2. FlashInv
      BY InitInv
    <2>3. Dead /\ Single /\ Late /\ OneFaultTolerated
      BY <2>1 DEF Dead, Single, Late, OneFaultTolerated
    <2>4. Prompt
      BY <2>1 DEF Prompt
    <2>5. Programs
      BY <2>1 DEF Programs, Programmed
    <2> QED BY <2>2, <2>3, <2>4, <2>5
  <1>2. Inv /\ [Next]_vars => Inv'
    BY NextInv, DeadStep, SingleStep, PromptStep, LateStep, ProgramsStep, OneFaultStep
  <1>3. Inv => OneFaultTolerated
    OBVIOUS
  <1> QED BY <1>1, <1>2, <1>3, PTL DEF Spec
=============================================================================
