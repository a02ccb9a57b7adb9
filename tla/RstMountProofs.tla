--------------------------- MODULE RstMountProofs ---------------------------
(***************************************************************************)
(* The home gate of the RST driver, for any number of callers, any         *)
(* operations, any events and any bounds: no goto and no sync reaches a    *)
(* mount without a home reference.                                         *)
(***************************************************************************)
EXTENDS RstMount, WellFoundedInduction, TLAPS

(* What is shown to be inductive: TypeOK, HomeInv and HomeGate, sorted by the
   variable they speak about. *)
MountOK == m \in MountType /\ (m.homeFound => fw.homed)
FwOK == fw \in FirmwareType /\ (Careful => ~fw.astray)
InboxOK == inbox \in Seq(Frame) /\ \A i \in DOMAIN inbox : inbox[i].k = "CHO" => fw.homed
TodoOK == todo \in [Callers -> Seq(Step)]
TokOK == tok \in [Callers -> Frame] /\ \A c \in Callers : tok[c].k = "CHO" => fw.homed
ValOK == val \in [Callers -> Value]
RestOK == /\ connMu \in Callers \cup {NoCaller}
          /\ told \in [Callers -> {"", "idle", "busy", "parked", "home"}]
          /\ stowed \in {"no", "parked", "unparked"}
          /\ pulses \in Nat
GateInv == MountOK /\ FwOK /\ InboxOK /\ TodoOK /\ TokOK /\ ValOK /\ RestOK

(* The parts of the invariant. *)
LEMMA GateParts ==
  GateInv => TypeOK /\ HomeInv /\ HomeGate
BY Zenon DEF GateInv, MountOK, FwOK, InboxOK, TodoOK, TokOK, ValOK, RestOK, TypeOK, HomeInv, HomeGate

-----------------------------------------------------------------------------
(* The operations are lists of well-formed steps. *)

(* A list of one step. *)
LEMMA Singleton ==
  ASSUME NEW S, NEW x \in S
  PROVE  <<x>> \in Seq(S)
OBVIOUS

(* A step that sends nothing. *)
LEMMA StepTyped ==
  ASSUME NEW s \in Does
  PROVE  step(s) \in Seq(Step)
<1>1. [do |-> s, cmd |-> "", n |-> 0] \in Step
  BY DEF Step, Gated, Ungated, Command
<1> QED BY <1>1, Singleton, Zenon DEF step

(* A step with a command. *)
LEMMA OnTyped ==
  ASSUME NEW s \in Does, NEW x \in Command,
         x \in Gated \cup Ungated => s \in {"slewCmd", "window"}, x \in Ungated => ~Careful
  PROVE  on(s, x) \in Seq(Step)
<1>1. [do |-> s, cmd |-> x, n |-> 0] \in Step
  BY DEF Step
<1> QED BY <1>1, Singleton, Zenon DEF on

(* Lists of steps joined are a list of steps. *)
LEMMA Concat ==
  ASSUME NEW a \in Seq(Step), NEW b \in Seq(Step)
  PROVE  a \o b \in Seq(Step)
OBVIOUS

(* get, with its retry and the work it puts off. *)
LEMMA QueryTyped ==
  ASSUME NEW x \in {"AH", "CY", "G"}
  PROVE  get(x) \in Seq(Step) /\ coord(x) \in Seq(Step)
<1>1. on("write", x) \in Seq(Step)
  BY OnTyped DEF Gated, Ungated, Does, Command, Query
<1> QED BY <1>1, StepTyped, Concat DEF Does, get, coord

(* The tracking commands. *)
LEMMA TrackTyped ==
  ASSUME NEW x \in {"CtL", "CtA", "CtU"}
  PROVE  track(x) \in Seq(Step)
BY OnTyped DEF track, Gated, Ungated, Does, Command

(* A blind command. *)
LEMMA BlindTyped ==
  ASSUME NEW x \in {"Q", "Ch", "Sz", "Sa", "Cu", "R", "M", "Mg"}
  PROVE  Blind(x) \in Seq(Step)
BY OnTyped DEF Blind, Gated, Ungated, Does, Command

(* A command with a status byte. *)
LEMMA AckTyped ==
  ASSUME NEW x \in {"Sr", "Sd", "SrP", "SdP"}
  PROVE  Ack(x) \in Seq(Step)
<1>1. on("Ack", x) \in Seq(Step)
  BY OnTyped DEF Gated, Ungated, Does, Command, Query
<1> QED BY <1>1, StepTyped, Concat DEF Does, Ack

(* slewCmd: the only list with a command that needs the gate. *)
LEMMA SlewTyped ==
  ASSUME NEW x \in {"MS", "MA"}
  PROVE  slewCmd(x) \in Seq(Step)
<1>1. on("slewCmd", x) \in Seq(Step)
  BY OnTyped DEF Gated, Ungated, Does, Command, Query
<1> QED BY <1>1, StepTyped, Concat DEF Does, slewCmd

(* The Alpaca members. *)
LEMMA AlpacaTyped ==
  /\ AlpacaAtPark \in Seq(Step) /\ AlpacaAtHome \in Seq(Step)
  /\ \A p \in Seq(Step) : AlpacaAtPark \o step("unlessParked") \o p \in Seq(Step)
  /\ AlpacaUnpark \in Seq(Step)
<1>1. /\ step("drainToken") \in Seq(Step) /\ step("maybeFinishPark") \in Seq(Step)
      /\ step("stopped") \in Seq(Step) /\ step("notUnparked") \in Seq(Step)
      /\ step("axes") \in Seq(Step) /\ step("unlessParked") \in Seq(Step)
      /\ step("ifParked") \in Seq(Step) /\ step("Unpark") \in Seq(Step)
  BY StepTyped DEF Does
<1>2. AlpacaAtPark \in Seq(Step) /\ AlpacaAtHome \in Seq(Step)
  BY <1>1, Concat, Zenon DEF AlpacaAtPark, AlpacaAtHome
<1>3. AlpacaUnpark \in Seq(Step)
  BY <1>1, <1>2, Concat, Zenon DEF AlpacaUnpark
<1> QED BY <1>1, <1>2, <1>3, Concat, Zenon

(* The operations without a gate are lists of steps when a caller uses them. *)
LEMMA CarelessTyped ==
  ASSUME ~Careful
  PROVE  SlewToTargetAlt \in Seq(Step) /\ SyncCurrent \in Seq(Step)
BY OnTyped DEF SlewToTargetAlt, SyncCurrent, Does, Command, Gated, Ungated

(* The list of every operation is a list of steps. *)
LEMMA ProgramTyped ==
  ASSUME NEW op \in Operation, op \in Careless => ~Careful
  PROVE  program(op) \in Seq(Step)
<1>1. Homing \in Seq(Step) /\ AtPark \in Seq(Step) /\ SlewToTarget \in Seq(Step)
  BY QueryTyped, SlewTyped DEF Homing, AtPark, SlewToTarget
<1>2. Slewing \in Seq(Step)
  BY StepTyped, Concat DEF Slewing, Does
<1>3. SlewToAltAz \in Seq(Step)
  BY StepTyped, BlindTyped, SlewTyped, Concat DEF SlewToAltAz, Does
<1>4. Halt \in Seq(Step)
  BY <1>1, StepTyped, BlindTyped, Concat DEF Halt, Does
<1>5. FindHome \in Seq(Step)
  BY <1>1, StepTyped, BlindTyped, TrackTyped, Concat DEF FindHome, Does
<1>6. Park \in Seq(Step)
  <2>1. /\ step("requireHome") \in Seq(Step) /\ step("refuseWhileHoming") \in Seq(Step)
        /\ step("parked") \in Seq(Step) /\ step("known") \in Seq(Step)
        /\ step("parking") \in Seq(Step)
    BY StepTyped DEF Does
  <2>2. /\ track("CtL") \in Seq(Step) /\ coord("G") \in Seq(Step)
        /\ Ack("SrP") \in Seq(Step) /\ Ack("SdP") \in Seq(Step)
    BY TrackTyped, QueryTyped, AckTyped
  <2> QED BY <1>1, <2>1, <2>2, Concat, Zenon DEF Park
<1>7. Move \in Seq(Step) /\ MoveAxisRate \in Seq(Step) /\ StopAxis \in Seq(Step)
  BY StepTyped, BlindTyped, Concat DEF MoveAxisRate, Move, StopAxis, Does
<1>8. PulseGuide \in Seq(Step)
  BY StepTyped, BlindTyped, TrackTyped, Concat DEF PulseGuide, Does
<1>9. /\ coord("G") \o step("known") \in Seq(Step)
      /\ Ack("Sr") \o Ack("Sd") \in Seq(Step)
      /\ track("CtA") \o step("known") \in Seq(Step)
      /\ track("CtL") \o step("known") \in Seq(Step)
      /\ track("CtU") \o step("known") \in Seq(Step)
  BY QueryTyped, AckTyped, TrackTyped, StepTyped, Concat DEF Does
<1>10. on("slewCmd", "Ck") \in Seq(Step) /\ step("Unpark") \in Seq(Step)
  BY OnTyped, StepTyped DEF Does, Command, Gated, Ungated
<1>11. SlewToPole \in Seq(Step) /\ get("G") \o step("known") \in Seq(Step)
  BY <1>3, QueryTyped, StepTyped, Concat DEF SlewToPole, Does
<1>12. /\ AlpacaPark \in Seq(Step) /\ AlpacaFindHome \in Seq(Step) /\ AlpacaUnpark \in Seq(Step)
       /\ AlpacaAtPark \o step("atPark") \in Seq(Step)
       /\ AlpacaAtHome \o step("atHome") \in Seq(Step)
  <2>1. step("atPark") \in Seq(Step) /\ step("atHome") \in Seq(Step)
    BY StepTyped DEF Does
  <2> QED BY <1>5, <1>6, <2>1, AlpacaTyped, Concat, Zenon DEF AlpacaPark, AlpacaFindHome
<1>13. CASE op \in Careless
  BY <1>13, CarelessTyped DEF program, Careless
<1>14. CASE op \notin Careless
  BY <1>1, <1>2, <1>3, <1>4, <1>5, <1>6, <1>7, <1>8, <1>9, <1>10, <1>11, <1>12, <1>14
     DEF program, Operation, Careless
<1> QED BY <1>13, <1>14

-----------------------------------------------------------------------------
(* The helpers that move the list of steps on keep it well-formed. *)

(* The head and the tail of a list. *)
LEMMA SeqParts ==
  ASSUME NEW S, NEW q \in Seq(S), q # <<>>
  PROVE  /\ Head(q) \in S /\ Tail(q) \in Seq(S) /\ Head(q) = q[1]
         /\ DOMAIN q = 1 .. Len(q) /\ 1 \in DOMAIN q
OBVIOUS

(* The step a caller is at. *)
LEMMA HeadTyped ==
  ASSUME TypeOK, NEW c \in Callers, NEW s, at(c, s)
  PROVE  /\ todo[c] \in Seq(Step) /\ todo[c] # <<>>
         /\ Head(todo[c]) \in Step /\ Tail(todo[c]) \in Seq(Step)
<1>1. todo[c] \in Seq(Step) /\ todo[c] # <<>>
  BY Zenon DEF TypeOK, at
<1> QED BY <1>1, SeqParts, Zenon

(* A step that puts further steps in front. *)
LEMMA InsertTyped ==
  ASSUME TypeOK, NEW c \in Callers, NEW s, at(c, s), NEW p \in Seq(Step), insert(c, p)
  PROVE  todo' \in [Callers -> Seq(Step)]
<1>1. p \o Tail(todo[c]) \in Seq(Step)
  BY HeadTyped, Concat
<1> QED BY <1>1 DEF insert, TypeOK

(* A step done. *)
LEMMA ProceedTyped ==
  ASSUME TypeOK, NEW c \in Callers, NEW s, at(c, s), proceed(c) \/ giveUp(c)
  PROVE  todo' \in [Callers -> Seq(Step)]
<1>1. Tail(todo[c]) \in Seq(Step) /\ <<>> \in Seq(Step)
  BY HeadTyped
<1> QED BY <1>1 DEF proceed, giveUp, TypeOK

(* A step repeated, counting the attempts. *)
LEMMA AgainTyped ==
  ASSUME TypeOK, NEW c \in Callers, NEW s, at(c, s), again(c)
  PROVE  todo' \in [Callers -> Seq(Step)]
<1> DEFINE h == [Head(todo[c]) EXCEPT !.n = @ + 1]
<1>1. ASSUME NEW g \in Step PROVE [g EXCEPT !.n = @ + 1] \in Step
  BY <1>1 DEF Step
<1>2. h \in Step
  BY <1>1, HeadTyped
<1>3. <<h>> \in Seq(Step)
  BY <1>2, Singleton, Zenon
<1> QED BY <1>3, InsertTyped DEF again

-----------------------------------------------------------------------------
(* Reading: what is read and what is left were in the inbox. *)

(* A set of numbers that is not empty has a least element. *)
LEMMA Least ==
  ASSUME NEW T, T \subseteq Nat, T # {}
  PROVE  \E n \in T : \A k \in T : n <= k
<1> DEFINE R == OpToRel(<, Nat)
<1>1. \E n \in T : \A k \in T : ~(<<k, n>> \in R)
  <2> HIDE DEF R
  <2>1. IsWellFoundedOn(R, Nat)
    BY NatLessThanWellFounded DEF R
  <2> QED BY <2>1, WFMin
<1>2. \A n, k \in Nat : k < n => <<k, n>> \in R
  BY DEF OpToRel
<1> HIDE DEF R
<1>3. PICK n \in T : \A k \in T : ~(<<k, n>> \in R)
  BY <1>1, Zenon
<1>4. \A k \in T : ~(k < n)
  BY <1>2, <1>3, Zenon
<1> QED BY <1>3, <1>4

(* The inbox after its first frames have been read. *)
LEMMA SuffixTyped ==
  ASSUME NEW S, NEW q \in Seq(S), NEW k \in 1 .. Len(q)
  PROVE  /\ SubSeq(q, k + 1, Len(q)) \in Seq(S)
         /\ \A j \in DOMAIN SubSeq(q, k + 1, Len(q)) :
              j + k \in DOMAIN q /\ SubSeq(q, k + 1, Len(q))[j] = q[j + k]
OBVIOUS

(* What a read of one frame leaves. *)
LEMMA ReadTyped ==
  ASSUME TypeOK
  PROVE  /\ readUntil \in Frame /\ NoFrame \in Frame
         /\ rest \in Seq(Frame)
         /\ readUntil.k = "CHO" => \E i \in DOMAIN inbox : inbox[i].k = "CHO"
         /\ \A j \in DOMAIN rest : \E i \in DOMAIN inbox : rest[j] = inbox[i]
<1>1. NoFrame \in Frame /\ frame("junk") \in Frame /\ frame("junk").k # "CHO" /\ NoFrame.k # "CHO"
  BY DEF NoFrame, frame, Frame, Kind, Value
<1>2. CASE frames = {}
  BY <1>1, <1>2 DEF readUntil, rest
<1>3. CASE frames # {}
  <2> DEFINE k == Min(frames)
  <2>0. inbox \in Seq(Frame)
    BY DEF TypeOK
  <2>1. frames \subseteq 1 .. Len(inbox)
    <3> HIDE DEF Frame
    <3> QED BY <2>0 DEF frames
  <2>2. \E n \in frames : \A j \in frames : n <= j
    <3>1. frames \subseteq Nat
      BY <2>1
    <3> QED BY <1>3, <3>1, Least, Zenon
  <2>3. k \in frames /\ k \in 1 .. Len(inbox)
    BY <2>1, <2>2 DEF Min
  <2>4. rest = SubSeq(inbox, k + 1, Len(inbox))
    BY <1>3 DEF rest
  <2>5. rest \in Seq(Frame) /\ \A j \in DOMAIN rest : j + k \in DOMAIN inbox /\ rest[j] = inbox[j + k]
    <3> HIDE DEF k
    <3> QED BY <2>0, <2>3, <2>4, SuffixTyped, Zenon
  <2>6. readUntil = Head(inbox) \/ readUntil = frame("junk")
    BY <1>3 DEF readUntil
  <2>7. inbox # <<>>
    <3> HIDE DEF k
    <3> QED BY <2>3, <2>0
  <2>8. Head(inbox) = inbox[1] /\ Head(inbox) \in Frame /\ 1 \in DOMAIN inbox
    BY <2>7, <2>0, SeqParts, Zenon
  <2> QED BY <1>1, <2>5, <2>6, <2>8, Zenon
<1> QED BY <1>2, <1>3
(* A home token that is heard was sent by a mount that had found its home. *)
LEMMA HearTyped ==
  ASSUME GateInv, NEW f \in Heard, hear(f)
  PROVE  /\ f \in Frame /\ f.k \in Kind /\ f.v \in Value
         /\ f.k = "CHO" => fw.homed
         /\ inbox' \in Seq(Frame)
         /\ \A i \in DOMAIN inbox' : inbox'[i].k = "CHO" => fw.homed
<1>1. TypeOK /\ InboxOK
  BY GateParts DEF GateInv
<1>2. NoFrame.k # "CHO"
  BY DEF NoFrame
<1>3. f \in Frame /\ (f.k = "CHO" => fw.homed)
  BY <1>1, <1>2, ReadTyped, Zenon DEF Heard, InboxOK
<1>4. f.k \in Kind /\ f.v \in Value
  BY <1>3 DEF Frame
<1>5. (inbox' = rest) \/ (inbox' = inbox)
  BY Zenon DEF hear
<1>6. inbox' \in Seq(Frame) /\ \A i \in DOMAIN inbox' : inbox'[i].k = "CHO" => fw.homed
  BY <1>1, <1>5, ReadTyped, Zenon DEF InboxOK
<1> QED BY <1>3, <1>4, <1>6

(* Only a home token sets homeFound. *)
LEMMA ApplyTyped ==
  ASSUME NEW mm \in MountType, NEW k \in Kind
  PROVE  /\ applyToken(mm, k) \in MountType
         /\ applyToken(mm, k).homeFound => mm.homeFound \/ k = "CHO"
<1>1. CASE k = "MM0"
  BY <1>1 DEF applyToken, MountType
<1>2. CASE k = "CHO"
  BY <1>2 DEF applyToken, MountType
<1>3. CASE k \in {"MMU", "CH<"}
  BY <1>3 DEF applyToken, MountType, Fault
<1>4. CASE k = "CMF"
  BY <1>4 DEF applyToken, MountType, Fault
<1>5. CASE k \notin {"MM0", "CHO", "MMU", "CH<", "CMF"}
  BY <1>5 DEF applyToken
<1> QED BY <1>1, <1>2, <1>3, <1>4, <1>5

(* The command of the step a caller is at. *)
LEMMA CmdTyped ==
  ASSUME TypeOK, NEW c \in Callers, NEW s, at(c, s)
  PROVE  /\ cmd(c) \in Command /\ s \in Does
         /\ cmd(c) \in Gated \cup Ungated => s \in {"slewCmd", "window"}
         /\ cmd(c) \in Ungated => ~Careful
<1>1. Head(todo[c]) \in Step
  BY HeadTyped
<1>2. ASSUME NEW g \in Step
      PROVE  /\ g.cmd \in Command /\ g.do \in Does
             /\ g.cmd \in Gated \cup Ungated => g.do \in {"slewCmd", "window"}
             /\ g.cmd \in Ungated => ~Careful
  BY DEF Step
<1> QED BY <1>1, <1>2, Zenon DEF cmd, at

-----------------------------------------------------------------------------
(* The mount obeys: it answers with no home token, and goes astray on a gated
   command only, which needs the home reference that homeFound vouches for. *)

(* The inbox with one more frame. *)
LEMMA AnswerTyped ==
  ASSUME NEW q \in Seq(Frame), NEW f \in Frame, NEW P \in BOOLEAN,
         \A i \in DOMAIN q : q[i].k = "CHO" => P, f.k = "CHO" => P
  PROVE  /\ Append(q, f) \in Seq(Frame)
         /\ \A i \in DOMAIN Append(q, f) : Append(q, f)[i].k = "CHO" => P
<1> HIDE DEF Frame
<1>1. Append(q, f) \in Seq(Frame)
  OBVIOUS
<1>2. \A i \in DOMAIN Append(q, f) : (i \in DOMAIN q /\ Append(q, f)[i] = q[i]) \/ Append(q, f)[i] = f
  OBVIOUS
<1> QED BY <1>1, <1>2, Zenon

(* A command the mount obeys: only the gated ones need its reference. *)
LEMMA ObeyTyped ==
  ASSUME GateInv, NEW x \in Command, x \in Gated => m.homeFound, x \in Ungated => ~Careful, obey(x)
  PROVE  /\ FwOK' /\ fw'.homed = fw.homed
         /\ InboxOK'
<1>1. /\ fw \in FirmwareType /\ (Careful => ~fw.astray) /\ fw.homed \in BOOLEAN
      /\ x \in Gated => fw.homed
      /\ x \in Ungated => ~Careful
  BY DEF GateInv, FwOK, MountOK, FirmwareType
<1>2. FwOK' /\ fw'.homed = fw.homed
  <2>1. CASE x \in {"AH", "CY", "G", "CtU", "Sz", "Sa", "Cu", "R"}
    <3>1. fw' = fw
      BY <2>1 DEF obey, Refusal
    <3> QED BY <1>1, <3>1, Zenon DEF FwOK
  <2>2. CASE x \in {"CtL", "CtA"}
    <3>1. fw' = [fw EXCEPT !.tracking = (x = "CtA")]
      BY <2>2 DEF obey, Refusal
    <3> QED BY <1>1, <3>1 DEF FwOK, FirmwareType
  <2>3. CASE x \in {"SrP", "SdP", "Sr", "Sd"}
    <3>1. \E t \in SUBSET {"Sr", "Sd"} : fw' = [fw EXCEPT !.target = t]
      BY <1>1, <2>3 DEF obey, Refusal, FirmwareType
    <3> QED BY <1>1, <3>1 DEF FwOK, FirmwareType
  <2>4. CASE x \in {"MS", "MA", "MD"}
    <3>1. (Careful => fw.homed) /\ destination(x) \in Place /\ "sky" \in Place /\ "goto" \in Motion
      BY <1>1, <2>4 DEF Gated, Ungated, pointed, destination, Place, Motion
    <3>2. \/ fw' = fw
          \/ fw' = [fw EXCEPT !.motion = "goto", !.pos = "sky", !.astray = @ \/ ~fw.homed,
                              !.dest = destination(x), !.mute = FALSE]
          \/ fw' = [fw EXCEPT !.tracking = TRUE, !.astray = @ \/ ~fw.homed, !.mute = TRUE]
      BY <2>4 DEF obey, Refusal
    <3> HIDE DEF destination
    <3>3. CASE fw' = fw
      BY <1>1, <3>3, Zenon DEF FwOK
    <3>4. CASE fw' = [fw EXCEPT !.motion = "goto", !.pos = "sky", !.astray = @ \/ ~fw.homed,
                                !.dest = destination(x), !.mute = FALSE]
      BY <1>1, <3>1, <3>4 DEF FwOK, FirmwareType
    <3>5. CASE fw' = [fw EXCEPT !.tracking = TRUE, !.astray = @ \/ ~fw.homed, !.mute = TRUE]
      BY <1>1, <3>1, <3>5 DEF FwOK, FirmwareType
    <3> QED BY <3>2, <3>3, <3>4, <3>5
  <2>5. CASE x \in {"Ck", "CM"}
    <3>1. Careful => fw.homed
      BY <1>1, <2>5 DEF Gated, Ungated
    <3>2. \/ fw' = fw
          \/ fw' = [fw EXCEPT !.astray = @ \/ ~fw.homed]
          \/ fw' = [fw EXCEPT !.astray = @ \/ ~fw.homed, !.verdict = TRUE]
      BY <2>5 DEF obey, Refusal
    <3> QED BY <1>1, <3>1, <3>2 DEF FwOK, FirmwareType
  <2>6. CASE x = "Ch"
    <3>1. fw' = fw \/ fw' = [fw EXCEPT !.motion = "home", !.pos = "sky", !.mute = FALSE]
      BY <2>6 DEF obey, Refusal
    <3>2. "home" \in Motion /\ "sky" \in Place
      BY DEF Motion, Place
    <3> QED BY <1>1, <3>1, <3>2 DEF FwOK, FirmwareType
  <2>7. CASE x = "Q"
    <3>1. fw' = [fw EXCEPT !.motion = "idle", !.dest = "sky", !.mute = FALSE,
                           !.wedged = @ \/ fw.motion = "home"]
      BY <2>7 DEF obey, Refusal
    <3>2. "idle" \in Motion /\ "sky" \in Place
      BY DEF Motion, Place
    <3> QED BY <1>1, <3>1, <3>2 DEF FwOK, FirmwareType
  <2>8. CASE x \in {"M", "Mg"}
    <3>1. fw' = fw \/ \E a \in {"move", "pulse"} : fw' = [fw EXCEPT !.motion = a, !.pos = "sky"]
      BY <2>8 DEF obey, Refusal
    <3>2. {"move", "pulse"} \subseteq Motion /\ "sky" \in Place
      BY DEF Motion, Place
    <3>3. CASE fw' = fw
      BY <1>1, <3>3, Zenon DEF FwOK
    <3>4. ASSUME NEW a \in Motion, fw' = [fw EXCEPT !.motion = a, !.pos = "sky"]
          PROVE  FwOK' /\ fw'.homed = fw.homed
      BY <1>1, <3>2, <3>4 DEF FwOK, FirmwareType
    <3> QED BY <3>1, <3>2, <3>3, <3>4
  <2>9. x # ""
    BY DEF obey, Refusal
  <2> QED BY <2>1, <2>2, <2>3, <2>4, <2>5, <2>6, <2>7, <2>8, <2>9 DEF Command, Gated, Ungated, Query
<1>3. (inbox' = inbox) \/ \E f \in Frame : f.k # "CHO" /\ inbox' = Append(inbox, f)
  BY <1>1 DEF obey, answer, silent, Frame, frame, Kind, Value, Query, Refusal, Token, Fault,
              FirmwareType, Place
<1>4. InboxOK'
  BY <1>1, <1>2, <1>3, AnswerTyped, Zenon DEF GateInv, InboxOK
<1> QED BY <1>2, <1>4
-----------------------------------------------------------------------------
(* One lemma per action. *)

USE DEF GateInv

(* call keeps the invariant. *)
LEMMA CallGate ==
  ASSUME GateInv, NEW c \in Callers, NEW op \in Ops[c], call(c, op)
  PROVE  GateInv'
<1>1. op \in Operation /\ (op \in Careless => ~Careful)
  BY RstAssumption DEF Careful
<1>2. TodoOK'
  BY <1>1, ProgramTyped, Zenon DEF call, TodoOK
<1>3. RestOK'
  BY DEF call, RestOK
<1> QED
  BY <1>2, <1>3 DEF call, MountOK, FwOK, InboxOK, TokOK, ValOK

(* drainToken keeps the invariant. *)
LEMMA DrainTokenGate ==
  ASSUME GateInv, NEW c \in Callers, drainToken(c)
  PROVE  GateInv'
<1>0. TypeOK
  BY GateParts
<1>1. TodoOK'
  BY <1>0, StepTyped, InsertTyped, ProceedTyped DEF drainToken, TodoOK, Does
<1>2. MountOK'
  BY DEF drainToken, MountOK, MountType
<1> QED
  BY <1>1, <1>2 DEF drainToken, FwOK, InboxOK, TokOK, ValOK, RestOK

(* Await keeps the invariant. *)
LEMMA AwaitGate ==
  ASSUME GateInv, NEW c \in Callers, Await(c)
  PROVE  GateInv'
<1>0. TypeOK
  BY GateParts
<1>1. TodoOK'
  BY <1>0, StepTyped, InsertTyped, ProceedTyped DEF Await, TodoOK, Does
<1>2. InboxOK'
  BY HearTyped, Zenon DEF Await, InboxOK
<1>3. TokOK'
  BY HearTyped, Zenon DEF Await, TokOK
<1> QED
  BY <1>1, <1>2, <1>3 DEF Await, MountOK, FwOK, ValOK, RestOK

(* apply keeps the invariant: a home token was sent by a mount at home. *)
LEMMA ApplyGate ==
  ASSUME GateInv, NEW c \in Callers, apply(c)
  PROVE  GateInv'
<1>0. TypeOK
  BY GateParts
<1>1. TodoOK'
  BY <1>0, ProceedTyped DEF apply, TodoOK
<1>2. tok[c].k \in Kind /\ (tok[c].k = "CHO" => fw.homed)
  BY DEF TokOK, Frame
<1>3. MountOK'
  BY <1>2, ApplyTyped, Zenon DEF apply, MountOK
<1>4. TokOK'
  <2>1. NoFrame \in Frame /\ NoFrame.k # "CHO"
    BY DEF NoFrame, Frame, Kind, Value
  <2> QED BY <2>1, Zenon DEF apply, TokOK
<1> QED
  BY <1>1, <1>3, <1>4 DEF apply, FwOK, InboxOK, ValOK, RestOK

(* drainStale keeps the invariant. *)
LEMMA DrainStaleGate ==
  ASSUME GateInv, NEW c \in Callers, drainStale(c)
  PROVE  GateInv'
<1>0. TypeOK
  BY GateParts
<1>1. TodoOK'
  BY <1>0, ProceedTyped, AgainTyped DEF drainStale, TodoOK
<1>2. InboxOK'
  BY HearTyped, Zenon DEF drainStale, InboxOK
<1> QED
  BY <1>1, <1>2 DEF drainStale, MountOK, FwOK, TokOK, ValOK, RestOK

(* write keeps the invariant. *)
LEMMA WriteGate ==
  ASSUME GateInv, NEW c \in Callers, write(c)
  PROVE  GateInv'
<1>0. TypeOK
  BY GateParts
<1>1. PICK s \in DOMAIN reads : at(c, s) /\ insert(c, on(reads[s], cmd(c)))
  BY DEF write
<1>2. s \in {"write", "rewrite", "Get", "Ack"} /\ reads[s] \in Does
  BY DEF reads, Does
<1>3. cmd(c) \in Command /\ cmd(c) \notin Gated /\ cmd(c) \notin Ungated
  BY <1>0, <1>1, <1>2, CmdTyped
<1>4. on(reads[s], cmd(c)) \in Seq(Step)
  BY <1>2, <1>3, OnTyped
<1>5. TodoOK'
  BY <1>0, <1>1, <1>4, InsertTyped DEF TodoOK
<1>6. FwOK' /\ fw'.homed = fw.homed /\ InboxOK'
  BY <1>3, ObeyTyped DEF write
<1>7. MountOK' /\ TokOK'
  BY <1>6, Zenon DEF write, MountOK, TokOK
<1> QED
  BY <1>5, <1>6, <1>7 DEF write, ValOK, RestOK

(* match keeps the invariant. *)
LEMMA MatchGate ==
  ASSUME GateInv, NEW c \in Callers, match(c)
  PROVE  GateInv'
<1>0. TypeOK
  BY GateParts
<1>1. PICK s \in {"match", "rematch"} : at(c, s)
  BY DEF match
<1>2. cmd(c) \in Command /\ cmd(c) \notin Gated /\ cmd(c) \notin Ungated
  BY <1>0, <1>1, CmdTyped
<1>3. PICK f \in Heard :
        /\ hear(f)
        /\ \/ proceed(c) /\ m' = m
           \/ again(c) /\ m' = applyToken(m, f.k)
           \/ /\ insert(c, step("drainStale")
                           \o (IF at(c, "match") THEN on("rewrite", cmd(c)) ELSE <<>>))
              /\ m' = m
        /\ val' = val \/ val' = [val EXCEPT ![c] = "err"] \/ val' = [val EXCEPT ![c] = f.v]
        /\ connMu' \in {connMu, NoCaller}
  BY Zenon DEF match
<1>4. /\ f.k \in Kind /\ f.v \in Value /\ (f.k = "CHO" => fw.homed)
      /\ inbox' \in Seq(Frame)
      /\ \A i \in DOMAIN inbox' : inbox'[i].k = "CHO" => fw.homed
  BY <1>3, HearTyped, Zenon
<1>5. TodoOK'
  <2>1. /\ step("drainStale") \in Seq(Step) /\ on("rewrite", cmd(c)) \in Seq(Step)
        /\ <<>> \in Seq(Step)
    BY <1>2, StepTyped, OnTyped DEF Does
  <2>2. step("drainStale") \o (IF at(c, "match") THEN on("rewrite", cmd(c)) ELSE <<>>) \in Seq(Step)
    BY <2>1, Concat, Zenon
  <2> QED BY <1>0, <1>1, <1>3, <2>2, InsertTyped, ProceedTyped, AgainTyped, Zenon DEF TodoOK
<1>6. MountOK'
  <2>1. fw' = fw
    BY Zenon DEF match
  <2>2. CASE m' = applyToken(m, f.k)
    BY <1>4, <2>1, <2>2, ApplyTyped, Zenon DEF MountOK
  <2>3. CASE m' = m
    BY <2>1, <2>3, Zenon DEF MountOK
  <2> QED BY <1>3, <2>2, <2>3, Zenon
<1>7. ValOK'
  BY <1>3, <1>4 DEF ValOK, Value
<1>8. InboxOK'
  BY <1>4, Zenon DEF InboxOK, match
<1> QED
  BY <1>3, <1>5, <1>6, <1>7, <1>8 DEF match, FwOK, TokOK, RestOK

(* echo keeps the invariant. *)
LEMMA EchoGate ==
  ASSUME GateInv, NEW c \in Callers, echo(c)
  PROVE  GateInv'
<1>0. TypeOK
  BY GateParts
<1>1. TodoOK'
  BY <1>0, ProceedTyped DEF echo, TodoOK
<1>2. InboxOK'
  BY HearTyped, Zenon DEF echo, InboxOK
<1>3. ValOK'
  BY DEF echo, ValOK, Value
<1> QED
  BY <1>1, <1>2, <1>3 DEF echo, MountOK, FwOK, TokOK, RestOK

(* readByte keeps the invariant. *)
LEMMA ReadByteGate ==
  ASSUME GateInv, NEW c \in Callers, readByte(c)
  PROVE  GateInv'
<1>0. TypeOK
  BY GateParts
<1>1. TodoOK'
  BY <1>0, ProceedTyped DEF readByte, TodoOK
<1>2. inbox \in Seq(Frame) /\ \A i \in DOMAIN inbox : inbox[i].k = "CHO" => fw.homed
  BY DEF InboxOK
<1>3. ASSUME NEW f \in Frame PROVE cut(f) \in Frame /\ (cut(f).k = "CHO" => f.k = "CHO") /\ f.v \in Value
  <2>1. CASE f.k \in Token /\ f.v # "cut"
    BY <2>1 DEF cut, Frame, Value
  <2>2. CASE ~(f.k \in Token /\ f.v # "cut")
    BY <2>2 DEF cut, Frame, frame, Kind, Value
  <2> QED BY <2>1, <2>2
<1>4. CASE inbox' = inbox /\ val' = [val EXCEPT ![c] = "err"]
  <2>1. InboxOK' /\ ValOK'
    BY <1>4 DEF InboxOK, ValOK, Value, readByte
  <2> QED BY <1>1, <2>1 DEF readByte, MountOK, FwOK, TokOK, RestOK
<1>5. CASE inbox # <<>> /\ inbox' = Tail(inbox) /\ val' = [val EXCEPT ![c] = Head(inbox).v]
  <2>1. Head(inbox) \in Frame /\ Tail(inbox) \in Seq(Frame)
    BY <1>2, <1>5, SeqParts, Zenon
  <2>2. \A i \in DOMAIN Tail(inbox) : i + 1 \in DOMAIN inbox /\ Tail(inbox)[i] = inbox[i + 1]
    BY <1>2, <1>5
  <2>3. InboxOK'
    <3>1. \A i \in DOMAIN inbox' : inbox'[i].k = "CHO" => fw.homed
      BY <1>2, <1>5, <2>2, Zenon
    <3>2. inbox' \in Seq(Frame) /\ fw' = fw
      BY <1>5, <2>1, Zenon DEF readByte
    <3> QED BY <3>1, <3>2, Zenon DEF InboxOK
  <2>4. ValOK'
    BY <1>3, <1>5, <2>1 DEF ValOK
  <2> QED BY <1>1, <2>3, <2>4 DEF readByte, MountOK, FwOK, TokOK, RestOK
<1>6. CASE inbox # <<>> /\ inbox' = [inbox EXCEPT ![1] = cut(@)] /\ val' = [val EXCEPT ![c] = "0"]
  <2>1. inbox[1] \in Frame /\ 1 \in DOMAIN inbox
    BY <1>2, <1>6, SeqParts, Zenon
  <2> DEFINE g == cut(inbox[1])
  <2>2. g \in Frame /\ (g.k = "CHO" => fw.homed)
    BY <1>2, <1>3, <2>1, Zenon
  <2>3. inbox' = [inbox EXCEPT ![1] = g]
    BY <1>6
  <2> HIDE DEF g
  <2>4. inbox' \in Seq(Frame) /\ \A i \in DOMAIN inbox' : (i \in DOMAIN inbox /\ inbox'[i] = inbox[i]) \/ inbox'[i] = g
    BY <1>2, <2>1, <2>2, <2>3
  <2>5. InboxOK'
    BY <1>2, <2>2, <2>4, Zenon DEF InboxOK, readByte
  <2>6. ValOK'
    BY <1>6 DEF ValOK, Value
  <2> QED BY <1>1, <2>5, <2>6 DEF readByte, MountOK, FwOK, TokOK, RestOK
<1> QED
  BY <1>4, <1>5, <1>6, Zenon DEF readByte

(* blind keeps the invariant. *)
LEMMA BlindGate ==
  ASSUME GateInv, NEW c \in Callers, blind(c)
  PROVE  GateInv'
<1>0. TypeOK
  BY GateParts
<1>1. TodoOK'
  BY <1>0, ProceedTyped DEF blind, TodoOK
<1>2. cmd(c) \in Command /\ cmd(c) \notin Gated /\ cmd(c) \notin Ungated
  BY <1>0, CmdTyped DEF blind
<1>3. FwOK' /\ fw'.homed = fw.homed /\ InboxOK'
  BY <1>2, ObeyTyped DEF blind
<1>4. MountOK' /\ TokOK'
  BY <1>3, Zenon DEF blind, MountOK, TokOK
<1> QED
  BY <1>1, <1>3, <1>4 DEF blind, ValOK, RestOK

(* The gate itself: the command is sent under homeFound. *)
LEMMA SlewNackGate ==
  ASSUME GateInv, NEW c \in Callers, SlewNack(c)
  PROVE  GateInv'
<1>0. TypeOK /\ at(c, "slewCmd")
  BY GateParts DEF SlewNack
<1>1. cmd(c) \in Command /\ (cmd(c) \in Ungated => ~Careful)
  BY <1>0, CmdTyped
<1>2. CASE m.homeFound \/ cmd(c) \in Ungated
  <2>1. on("window", cmd(c)) \in Seq(Step)
    BY <1>1, OnTyped DEF Does
  <2>2. TodoOK'
    BY <1>0, <1>2, <2>1, InsertTyped DEF SlewNack, TodoOK
  <2>3. FwOK' /\ fw'.homed = fw.homed /\ InboxOK'
    <3>1. cmd(c) \in Gated => m.homeFound
      BY <1>2 DEF Gated, Ungated
    <3> QED BY <1>1, <1>2, <3>1, ObeyTyped DEF SlewNack
  <2>4. MountOK' /\ TokOK'
    BY <2>3, Zenon DEF SlewNack, MountOK, TokOK
  <2> QED BY <1>2, <2>2, <2>3, <2>4 DEF SlewNack, ValOK, RestOK
<1>3. CASE ~(m.homeFound \/ cmd(c) \in Ungated)
  <2>1. TodoOK'
    BY <1>0, <1>3, ProceedTyped DEF SlewNack, TodoOK
  <2> QED BY <1>3, <2>1 DEF SlewNack, MountOK, FwOK, InboxOK, TokOK, ValOK, RestOK
<1> QED BY <1>2, <1>3

(* window keeps the invariant. *)
LEMMA WindowGate ==
  ASSUME GateInv, NEW c \in Callers, window(c)
  PROVE  GateInv'
<1>0. TypeOK
  BY GateParts
<1>1. TodoOK'
  BY <1>0, StepTyped, InsertTyped, ProceedTyped, Zenon DEF window, TodoOK, Does
<1>2. InboxOK'
  BY HearTyped, Zenon DEF window, InboxOK
<1>3. TokOK'
  BY HearTyped, Zenon DEF window, TokOK
<1> QED
  BY <1>1, <1>2, <1>3 DEF window, MountOK, FwOK, ValOK, RestOK

(* The work a token put off keeps the invariant. *)
LEMMA MaybeGate ==
  ASSUME GateInv, NEW c \in Callers, maybeCaptureHome(c) \/ maybeFinishPark(c)
  PROVE  GateInv'
<1>0. TypeOK
  BY GateParts
<1>1. coord("G") \o step("captureHome") \in Seq(Step) /\ track("CtL") \in Seq(Step)
  BY QueryTyped, StepTyped, TrackTyped, Concat DEF Does
<1>2. TodoOK'
  BY <1>0, <1>1, InsertTyped, ProceedTyped DEF maybeCaptureHome, maybeFinishPark, TodoOK
<1>3. MountOK'
  BY DEF maybeCaptureHome, maybeFinishPark, MountOK, MountType
<1> QED
  BY <1>2, <1>3 DEF maybeCaptureHome, maybeFinishPark, FwOK, InboxOK, TokOK, ValOK, RestOK

(* Sections under Mount.mu: none of them sets homeFound. *)
LEMMA SectionGate ==
  ASSUME GateInv, NEW c \in Callers,
         captureHome(c) \/ setSlewing(c) \/ flags(c) \/ checks(c) \/ parkedAlready(c) \/ report(c)
  PROVE  GateInv'
<1>0. TypeOK
  BY GateParts
<1>1. CASE captureHome(c)
  <2>1. TodoOK'
    BY <1>0, <1>1, ProceedTyped DEF captureHome, TodoOK
  <2>2. val[c] \in Value
    BY DEF ValOK
  <2>3. MountOK'
    BY <1>1, <2>2 DEF captureHome, MountOK, MountType
  <2>4. ValOK'
    BY <1>1 DEF captureHome, consumed, ValOK, Value
  <2> QED BY <1>1, <2>1, <2>3, <2>4 DEF captureHome, FwOK, InboxOK, TokOK, RestOK
<1>2. CASE setSlewing(c)
  <2>1. TodoOK'
    BY <1>0, <1>2, ProceedTyped DEF setSlewing, TodoOK
  <2>2. MountOK'
    BY <1>2 DEF setSlewing, MountOK, MountType
  <2> QED BY <1>2, <2>1, <2>2 DEF setSlewing, FwOK, InboxOK, TokOK, ValOK, RestOK
<1>3. CASE flags(c)
  <2>1. TodoOK'
    BY <1>0, <1>3, ProceedTyped, Zenon DEF flags, TodoOK
  <2>2. MountOK'
    BY <1>3 DEF flags, MountOK, MountType
  <2>3. RestOK'
    <3>1. stowed' \in {"no", "parked", "unparked"} /\ connMu' = connMu /\ told' = told
      BY <1>3, Zenon DEF flags, RestOK
    <3>2. pulses' \in Nat
      <4>1. pulses' = pulses \/ pulses' = pulses + 1
        BY <1>3, Zenon DEF flags
      <4>2. pulses \in Nat
        BY DEF RestOK
      <4> QED BY <4>1, <4>2
    <3> QED BY <3>1, <3>2, Zenon DEF RestOK
  <2> QED BY <1>3, <2>1, <2>2, <2>3 DEF flags, FwOK, InboxOK, TokOK, ValOK
<1>4. CASE checks(c)
  <2>1. TodoOK'
    BY <1>0, <1>4, ProceedTyped, Zenon DEF checks, proceedIf, TodoOK
  <2>2. ValOK'
    BY <1>4 DEF checks, consumed, ValOK, Value
  <2> QED BY <1>4, <2>1, <2>2 DEF checks, MountOK, FwOK, InboxOK, TokOK, RestOK
<1>5. CASE parkedAlready(c)
  <2>1. TodoOK'
    BY <1>0, <1>5, ProceedTyped, Zenon DEF parkedAlready, TodoOK
  <2>2. MountOK'
    BY <1>5 DEF parkedAlready, MountOK, MountType
  <2>3. ValOK'
    BY <1>5 DEF parkedAlready, consumed, ValOK, Value
  <2> QED BY <1>5, <2>1, <2>2, <2>3 DEF parkedAlready, FwOK, InboxOK, TokOK, RestOK
<1>6. CASE report(c)
  <2>1. TodoOK'
    BY <1>0, <1>6, ProceedTyped DEF report, TodoOK
  <2> QED BY <1>6, <2>1 DEF report, MountOK, FwOK, InboxOK, TokOK, ValOK, RestOK
<1> QED
  BY <1>1, <1>2, <1>3, <1>4, <1>5, <1>6

(* The Alpaca members and polePosition ask, and change nothing of the mount. *)
LEMMA AlpacaGate ==
  ASSUME GateInv, NEW c \in Callers, polePosition(c) \/ parkState(c) \/ reportPark(c)
  PROVE  GateInv'
<1>0. TypeOK
  BY GateParts
<1>1. get("G") \o step("known") \in Seq(Step) /\ AtPark \in Seq(Step)
  BY QueryTyped, StepTyped, Concat DEF AtPark, Does
<1>2. TodoOK'
  BY <1>0, <1>1, InsertTyped, ProceedTyped, Zenon DEF polePosition, parkState, reportPark, TodoOK
<1>3. ValOK'
  BY DEF polePosition, parkState, reportPark, consumed, ValOK, Value
<1>4. RestOK'
  BY DEF polePosition, parkState, reportPark, RestOK
<1> QED
  BY <1>2, <1>3, <1>4, Zenon DEF polePosition, parkState, reportPark, MountOK, FwOK, InboxOK, TokOK

-----------------------------------------------------------------------------
(* The mount on its own, the pulse goroutine, and time. *)

(* A frame the mount sends of its own accord. *)
LEMMA PushTyped ==
  ASSUME GateInv, NEW k \in Kind, push(k), fw'.homed \in BOOLEAN,
         fw.homed => fw'.homed, k = "CHO" => fw'.homed
  PROVE  InboxOK'
<1>1. frame(k) \in Frame /\ frame(k).k = k
  BY DEF frame, Frame, Value
<1>2. inbox' = Append(inbox, frame(k))
  BY DEF push
<1> QED BY <1>1, <1>2, AnswerTyped, Zenon DEF InboxOK

(* arrive, seekEnd and verdict keep the invariant. *)
LEMMA MountGate ==
  ASSUME GateInv, arrive \/ seekEnd \/ verdict
  PROVE  GateInv'
<1>1. FwOK' /\ (fw.homed => fw'.homed) /\ fw'.homed \in BOOLEAN
  <2>1. "idle" \in Motion /\ "home" \in Place /\ "sky" \in Place
    BY DEF Motion, Place
  <2>2. fw \in FirmwareType /\ (Careful => ~fw.astray)
    BY DEF FwOK
  <2>3. CASE arrive
    <3>1. \/ fw' = [fw EXCEPT !.motion = "idle", !.pos = fw.dest, !.dest = "sky", !.tracking = TRUE]
          \/ fw' = [fw EXCEPT !.motion = "idle", !.dest = "sky"]
      BY <2>3 DEF arrive
    <3>2. CASE fw' = [fw EXCEPT !.motion = "idle", !.pos = fw.dest, !.dest = "sky", !.tracking = TRUE]
      BY <2>1, <2>2, <3>2 DEF FwOK, FirmwareType
    <3>3. CASE fw' = [fw EXCEPT !.motion = "idle", !.dest = "sky"]
      BY <2>1, <2>2, <3>3 DEF FwOK, FirmwareType
    <3> QED BY <3>1, <3>2, <3>3
  <2>4. CASE seekEnd
    BY <2>1, <2>2, <2>4 DEF seekEnd, FwOK, FirmwareType
  <2>5. CASE verdict
    BY <2>2, <2>5 DEF verdict, FwOK, FirmwareType
  <2> QED BY <2>3, <2>4, <2>5
<1>2. {"MM0", "MMU", "CH<", "CM", "CMF", "CHO"} \subseteq Kind
  BY DEF Kind, Token, Fault
<1>3. PICK k \in {"MM0", "MMU", "CH<", "CM", "CMF", "CHO"} : push(k) /\ (k = "CHO" => fw'.homed)
  BY DEF arrive, seekEnd, verdict, FwOK, FirmwareType
<1>4. InboxOK'
  BY <1>1, <1>2, <1>3, PushTyped
<1>5. MountOK' /\ TokOK'
  BY <1>1, Zenon DEF arrive, seekEnd, verdict, MountOK, TokOK
<1> QED
  BY <1>1, <1>4, <1>5 DEF arrive, seekEnd, verdict, TodoOK, ValOK, RestOK

(* pulseEnd keeps the invariant. *)
LEMMA PulseGate ==
  ASSUME GateInv, pulseEnd
  PROVE  GateInv'
<1>1. "Q" \in Command /\ "Q" \notin Gated /\ "Q" \notin Ungated
  BY DEF Command, Gated, Ungated
<1>2. FwOK' /\ fw'.homed = fw.homed /\ InboxOK'
  BY <1>1, ObeyTyped DEF pulseEnd
<1>3. MountOK'
  BY <1>2 DEF pulseEnd, MountOK, MountType
<1>4. RestOK'
  <2>1. pulses \in Nat /\ pulses > 0 /\ pulses' = pulses - 1
    BY DEF pulseEnd, RestOK
  <2>2. pulses' \in Nat
    BY <2>1
  <2> QED BY <2>2, Zenon DEF pulseEnd, RestOK
<1>5. TokOK'
  BY <1>2, Zenon DEF pulseEnd, TokOK
<1> QED
  BY <1>2, <1>3, <1>4, <1>5 DEF pulseEnd, TodoOK, ValOK

(* ttl keeps the invariant. *)
LEMMA TtlGate ==
  ASSUME GateInv, ttl
  PROVE  GateInv'
<1>1. MountOK'
  BY DEF ttl, MountOK, MountType
<1> QED
  BY <1>1 DEF ttl, FwOK, InboxOK, TodoOK, TokOK, ValOK, RestOK

(* The invariant holds at first. *)
LEMMA InitGate ==
  Init => GateInv
<1> SUFFICES ASSUME Init PROVE GateInv
  OBVIOUS
<1>1. MountOK /\ FwOK
  <2>1. PICK homed, answered \in BOOLEAN :
          /\ m = [slewing |-> FALSE, peeked |-> FALSE, lastFault |-> "",
                  homeFound |-> homed /\ answered, home |-> "", unparked |-> FALSE,
                  parking |-> FALSE, moving |-> FALSE, homeCapturePending |-> FALSE,
                  parkStopPending |-> FALSE, pulsing |-> FALSE]
          /\ fw = [motion |-> "idle", homed |-> homed, pos |-> "sky", dest |-> "sky",
                   target |-> {}, tracking |-> FALSE, wedged |-> FALSE, astray |-> FALSE,
                   verdict |-> FALSE, mute |-> FALSE]
    BY Zenon DEF Init
  <2>2. fw \in FirmwareType /\ ~fw.astray /\ fw.homed = homed
    BY <2>1 DEF FirmwareType, Motion, Place
  <2>3. m \in MountType /\ (m.homeFound => homed)
    BY <2>1 DEF MountType, Value
  <2> QED BY <2>2, <2>3 DEF MountOK, FwOK
<1>2. InboxOK /\ TodoOK
  <2>1. \A S : <<>> \in Seq(S)
    OBVIOUS
  <2>2. \A i \in DOMAIN <<>> : FALSE
    OBVIOUS
  <2> QED BY <2>1, <2>2, Zenon DEF Init, InboxOK, TodoOK
<1>3. TokOK /\ ValOK /\ RestOK
  BY DEF Init, TokOK, ValOK, RestOK, NoFrame, Frame, Kind, Value
<1> QED BY <1>1, <1>2, <1>3

(* Every step keeps the invariant. *)
LEMMA NextGate ==
  GateInv /\ [Next]_vars => GateInv'
<1> SUFFICES ASSUME GateInv, [Next]_vars PROVE GateInv'
  OBVIOUS
<1>1. ASSUME NEW c \in Callers, run(c) PROVE GateInv'
  BY <1>1, DrainTokenGate, AwaitGate, ApplyGate, DrainStaleGate, WriteGate, MatchGate, EchoGate,
     ReadByteGate, BlindGate, SlewNackGate, WindowGate, MaybeGate, SectionGate, AlpacaGate, Zenon DEF run
<1>2. ASSUME NEW c \in Callers, NEW op \in Ops[c], call(c, op) PROVE GateInv'
  BY <1>2, CallGate, Zenon
<1>3. CASE pulseEnd \/ ttl \/ arrive \/ seekEnd \/ verdict
  BY <1>3, PulseGate, TtlGate, MountGate, Zenon
<1>4. CASE UNCHANGED vars
  BY <1>4 DEF vars, MountOK, FwOK, InboxOK, TodoOK, TokOK, ValOK, RestOK
<1> QED BY <1>1, <1>2, <1>3, <1>4, Zenon DEF Next

(* The invariant holds throughout. *)
LEMMA GateInvariant ==
  Spec => []GateInv
<1> HIDE DEF GateInv
<1> QED BY InitGate, NextGate, PTL DEF Spec

(* The types of the driver's state, of the callers' lists of steps and of what
   the mount sends; in particular :MS#, :MA# and :Ck# are sent by slewCmd and
   syncAck and no other step. *)
THEOREM TypeTheorem ==
  Spec => []TypeOK
BY GateInvariant, GateParts, PTL

(* homeFound, and a home token on its way, vouch for the mount's reference. *)
THEOREM HomeTheorem ==
  Spec => []HomeInv
BY GateInvariant, GateParts, PTL

(* requireHome works: for any number of goroutines, any mix of operations other
   than SlewToTargetAlt and SyncCurrent, any loss of time between check, command,
   reply and token, no goto and no sync reaches a mount without a home reference. *)
THEOREM HomeGateTheorem ==
  Spec => []HomeGate
BY GateInvariant, GateParts, PTL
=============================================================================
