------------------------------ MODULE RstMount ------------------------------
(***************************************************************************)
(* The Rainbow RST driver (rst/rst.go) on its command channel (lx200.go):  *)
(* the motion state the driver keeps, the operations that command the      *)
(* mount, and the tokens the mount pushes, unasked, into the stream the    *)
(* replies come back on.                                                   *)
(*                                                                         *)
(* A caller (a goroutine) in an operation has a list of steps to do.  A    *)
(* step is one command on the channel, one read from it, or one section    *)
(* under Mount.mu, so every interleaving of callers and mount is there.    *)
(* A step may put further steps in front of the list, the way a call does, *)
(* or drop the list, the way an early return does.                         *)
(***************************************************************************)
EXTENDS Naturals, Sequences, FiniteSetsExt

CONSTANTS Callers,    \* goroutines that use the mount
          Ops,        \* Ops[c]: the operations caller c calls
          Patient,    \* callers wait for the mount to stop before they command
          Env,        \* what else may happen: a subset of Events
          NoCaller,   \* nobody holds Conn.mu
          MaxSkip,    \* frames GetMatching skips (3 in get)
          MaxDrain,   \* frames drainStale discards (8)
          MaxInbox,   \* bound: unread frames when a push or a call happens
          MaxPulses,  \* bound: pulse goroutines at once
          MaxNest     \* bound: steps a caller has left when another starts a seek
                      \* (a seek that ends inside captureHome nests a second one in it)

Events == {"refusal", "fault", "shortSlew", "zeroGoto", "lateVerdict", "lateReply"}

Fault == {"MMU", "CH<", "CMF"}
Token == {"MM0", "CHO", "CM"} \cup Fault
Query == {"AH", "CY", "G"}
Refusal == {"MS", "MA", "MD"}
Place == {"home", "park", "sky"}

Motion == {"idle", "goto", "home", "move", "pulse"}
Value == Place \cup {"", "0", "1", "err", "cut"}
Kind == Token \cup Query \cup Refusal \cup {"CT", "byte", "junk", "none"}
Frame == [k : Kind, v : Value]

Operation == {"Slewing", "RA", "SiteLatitude", "SetTarget", "SlewToTarget", "SlewToAltAz",
              "SlewToPole", "SlewToTargetAlt", "SyncToTarget", "SyncCurrent", "SetTracking",
              "StopTracking", "TrackRate", "Halt", "FindHome", "Park", "Unpark", "MoveAxisRate",
              "Move", "StopAxis", "PulseGuide", "AlpacaAtPark", "AlpacaAtHome", "AlpacaPark",
              "AlpacaUnpark", "AlpacaFindHome"}

(* The slew and the sync that the driver does not gate on HomeFound, and callers
   that leave them alone. *)
Careless == {"SlewToTargetAlt", "SyncCurrent"}
Careful == \A c \in Callers : Ops[c] \cap Careless = {}

ASSUME RstAssumption ==
  /\ \A c \in Callers : Ops[c] \subseteq Operation
  /\ Env \subseteq Events
  /\ NoCaller \notin Callers
  /\ Patient \in BOOLEAN
  /\ {MaxSkip, MaxDrain, MaxInbox, MaxPulses, MaxNest} \subseteq Nat

VARIABLES m,      \* the Mount struct
          fw,     \* the mount itself
          inbox,  \* frames the mount has sent and nobody has read
          connMu, \* holder of Conn.mu
          todo,   \* todo[c]: what is left of c's operation
          val,    \* val[c]: the last reply c read
          tok,    \* tok[c]: a frame c has read and not yet applied
          told,   \* told[c]: what Slewing, AlpacaAtPark or AlpacaAtHome last told c,
                  \* "" once c calls something else
          stowed, \* "parked" once a Park has succeeded, "unparked" once Unpark has
                  \* been called since, "no" after any other command
          pulses  \* goroutines of PulseGuide still asleep

vars == <<m, fw, inbox, connMu, todo, val, tok, told, stowed, pulses>>

NoFrame == [k |-> "none", v |-> ""]
frame(k) == [k |-> k, v |-> ""]

(* The mount may have been homed before this session; init asks it (:GH#) and
   believes it, or gets no answer.  selectDialect leaves the inbox empty. *)
Init ==
  /\ \E homed, answered \in BOOLEAN :
       /\ m = [slewing |-> FALSE, peeked |-> FALSE, lastFault |-> "",
               homeFound |-> homed /\ answered, home |-> "", unparked |-> FALSE,
               parking |-> FALSE, moving |-> FALSE, homeCapturePending |-> FALSE,
               parkStopPending |-> FALSE, pulsing |-> FALSE]
       /\ fw = [motion |-> "idle", homed |-> homed, pos |-> "sky", dest |-> "sky",
                target |-> {}, tracking |-> FALSE, wedged |-> FALSE, astray |-> FALSE,
                verdict |-> FALSE, mute |-> FALSE]
  /\ inbox = <<>>
  /\ connMu = NoCaller
  /\ todo = [c \in Callers |-> <<>>]
  /\ val = [c \in Callers |-> ""]
  /\ tok = [c \in Callers |-> NoFrame]
  /\ told = [c \in Callers |-> ""]
  /\ stowed = "no"
  /\ pulses = 0

-----------------------------------------------------------------------------
(* The operations, as lists of steps. *)

step(s) == <<[do |-> s, cmd |-> "", n |-> 0]>>
on(s, cmd) == <<[do |-> s, cmd |-> cmd, n |-> 0]>>

get(cmd) == step("maybeCaptureHome") \o step("maybeFinishPark") \o on("write", cmd)
coord(cmd) == step("drainToken") \o get(cmd)
Homing == get("AH")
AtPark == get("CY")
track(cmd) == on("Get", cmd)
Blind(cmd) == on("Blind", cmd)

(* Variant for mutation: an accepted slew is not latched. *)
slewCmdUnlatched(cmd) == on("slewCmd", cmd)

(* The slew, with the latch of the operations that send it. *)
slewCmd(cmd) == on("slewCmd", cmd) \o step("slewing")
Ack(cmd) == on("Ack", cmd) \o step("accepted")
Slewing == step("drainToken") \o step("maybeFinishPark") \o step("Slewing")
SlewToTarget == slewCmd("MS")
SlewToAltAz == step("requireHome") \o Blind("Sz") \o Blind("Sa") \o slewCmd("MA")


(* polePosition uses the cached latitude, or asks for it first. *)
SlewToPole == step("requireHome") \o step("polePosition") \o SlewToAltAz

(* :MD# and :CM# are sent without requireHome, and :MD# without the latch. *)
SlewToTargetAlt == on("slewCmd", "MD")
SyncCurrent == on("slewCmd", "CM")

(* Variant for mutation: a home seek does not stop a halt. *)
HaltUnguarded == Homing \o Blind("Q") \o step("still") \o step("unmoved")

Halt == Homing \o step("refuseWhileHoming") \o Blind("Q") \o step("still") \o step("unmoved")

FindHome == Homing \o step("notHoming") \o track("CtL") \o Blind("Ch") \o step("slewing")

(* Park asks for the sidereal time (a plain query here) to place the target
   it then sets: SrP and SdP stand for :Sr and :Sd with that target. *)
Park == step("requireHome") \o Homing \o step("refuseWhileHoming") \o track("CtL")
        \o AtPark \o step("parked") \o coord("G") \o step("known")
        \o Ack("SrP") \o Ack("SdP") \o SlewToTarget \o step("parking")

(* Move is Conn's: the driver does not override it, the bridge calls it. *)
Move == Blind("M")
MoveAxisRate == Blind("Cu") \o Blind("R") \o Move \o step("moved")
StopAxis == step("unmoved") \o Blind("Q")

PulseGuide == track("CtU") \o step("known") \o Blind("R") \o Blind("Mg") \o step("pulsing")

(* Variant for mutation: the parked state is read off the axes of a moving mount. *)
AlpacaAtParkMoving == step("drainToken") \o step("maybeFinishPark") \o step("notUnparked") \o step("axes")

(* Variant for mutation: home is read off the axes of a moving mount. *)
AlpacaAtHomeMoving == step("drainToken") \o step("maybeFinishPark") \o step("axes")

(* The Alpaca members: each asks for the parked state and then acts on it. *)
AlpacaAtPark == step("drainToken") \o step("maybeFinishPark") \o step("stopped")
                \o step("notUnparked") \o step("axes")
AlpacaAtHome == step("drainToken") \o step("maybeFinishPark") \o step("stopped") \o step("axes")
AlpacaPark == AlpacaAtPark \o step("unlessParked") \o Park
AlpacaUnpark == AlpacaAtPark \o step("ifParked") \o step("Unpark")
AlpacaFindHome == AlpacaAtPark \o step("unlessParked") \o FindHome

program(op) ==
  CASE op = "Slewing" -> Slewing
    [] op = "RA" -> coord("G") \o step("known")
    [] op = "SiteLatitude" -> get("G") \o step("known")
    [] op = "SetTarget" -> Ack("Sr") \o Ack("Sd")
    [] op = "SlewToTarget" -> SlewToTarget
    [] op = "SlewToAltAz" -> SlewToAltAz
    [] op = "SlewToPole" -> SlewToPole
    [] op = "SlewToTargetAlt" -> SlewToTargetAlt
    [] op = "SyncToTarget" -> on("slewCmd", "Ck")
    [] op = "SyncCurrent" -> SyncCurrent
    [] op = "SetTracking" -> track("CtA") \o step("known")
    [] op = "StopTracking" -> track("CtL") \o step("known")  \* SetTracking(false)
    [] op = "TrackRate" -> track("CtU") \o step("known")     \* TrackSidereal, Solar, Lunar
    [] op = "Halt" -> Halt
    [] op = "FindHome" -> FindHome
    [] op = "Park" -> Park
    [] op = "Unpark" -> step("Unpark")
    [] op = "MoveAxisRate" -> MoveAxisRate
    [] op = "Move" -> Move
    [] op = "StopAxis" -> StopAxis
    [] op = "PulseGuide" -> PulseGuide
    [] op = "AlpacaAtPark" -> AlpacaAtPark \o step("atPark")
    [] op = "AlpacaAtHome" -> AlpacaAtHome \o step("atHome")
    [] op = "AlpacaPark" -> AlpacaPark
    [] op = "AlpacaUnpark" -> AlpacaUnpark
    [] op = "AlpacaFindHome" -> AlpacaFindHome

(* Operations that set the mount moving or tracking, or prepare it. *)
Commands == {"SetTarget", "SlewToTarget", "SlewToAltAz", "SlewToPole", "SlewToTargetAlt",
             "SyncToTarget", "SyncCurrent", "SetTracking", "StopTracking", "TrackRate", "FindHome",
             "Park", "MoveAxisRate", "Move", "PulseGuide", "AlpacaPark", "AlpacaFindHome"}

(* Operations that leave a parked mount where it is. *)
Harmless == {"Slewing", "RA", "SiteLatitude", "SetTarget", "StopTracking", "TrackRate", "Unpark", "AlpacaAtPark",
             "AlpacaAtHome", "AlpacaUnpark", "AlpacaFindHome"}

(* What a patient caller waits for: it starts a command once Slewing and
   IsPulseGuiding have told it that the mount is not moving, and stops an axis
   it has set moving. *)
fitting(c, op) ==
  /\ op \in Commands => told[c] = "idle" /\ ~m.pulsing
  /\ op = "StopAxis" => m.moving

(* A caller starts an operation. *)
call(c, op) ==
  /\ todo[c] = <<>>
  /\ op # "Slewing" => Len(inbox) <= MaxInbox
  /\ Patient => fitting(c, op)
  /\ op = "PulseGuide" => pulses < MaxPulses
  /\ op \in {"FindHome", "AlpacaFindHome"} => \A d \in Callers : Len(todo[d]) <= MaxNest
  /\ todo' = [todo EXCEPT ![c] = program(op)]
  /\ told' = [told EXCEPT ![c] = ""]
  /\ stowed' = IF op \in Harmless THEN stowed ELSE "no"
  /\ UNCHANGED <<m, fw, inbox, connMu, val, tok, pulses>>

at(c, s) == todo[c] # <<>> /\ Head(todo[c]).do = s
cmd(c) == Head(todo[c]).cmd
proceed(c) == todo' = [todo EXCEPT ![c] = Tail(@)]
insert(c, steps) == todo' = [todo EXCEPT ![c] = steps \o Tail(@)]
nth(c) == Head(todo[c]).n
again(c) == insert(c, <<[Head(todo[c]) EXCEPT !.n = @ + 1]>>)
giveUp(c) == todo' = [todo EXCEPT ![c] = <<>>]
proceedIf(c, ok) == IF ok THEN proceed(c) ELSE giveUp(c)

-----------------------------------------------------------------------------
(* The mount: what a command does to it and what it answers.  External,
   from the driver's comments and tests. *)

answer(f) == inbox' = Append(inbox, f)
silent == inbox' = inbox

pointed == IF fw.target = {"Sr", "Sd"} THEN "park" ELSE "sky"
destination(x) == IF x = "MS" THEN pointed ELSE "sky"

obey(x) ==
  \/ x = "AH" /\ UNCHANGED fw
     /\ answer([k |-> x, v |-> IF fw.motion = "home" \/ fw.wedged THEN "1" ELSE "0"])
  \/ x = "G" /\ UNCHANGED fw /\ answer([k |-> x, v |-> fw.pos])
  \/ x = "CY" /\ UNCHANGED fw    \* on the way the axes may stand anywhere
     /\ \E p \in Place : (fw.motion \in {"idle", "pulse"} => p = fw.pos) /\ answer([k |-> x, v |-> p])
  \/ x \in {"CtL", "CtA"} /\ fw' = [fw EXCEPT !.tracking = (x = "CtA")] /\ answer(frame("CT"))
  \/ x = "CtU" /\ UNCHANGED fw /\ answer(frame("CT"))
  \/ x \in {"SrP", "SdP"} /\ fw' = [fw EXCEPT !.target = @ \cup {IF x = "SrP" THEN "Sr" ELSE "Sd"}]
     /\ answer([k |-> "byte", v |-> "1"])
  \/ x \in {"Sr", "Sd"} /\ fw' = [fw EXCEPT !.target = @ \ {x}]
     /\ answer([k |-> "byte", v |-> "1"])
  \/ x \in Refusal /\ fw.motion = "home" /\ UNCHANGED fw /\ silent
  \/ x \in Refusal /\ fw.motion # "home" /\ silent
     /\ fw' = [fw EXCEPT !.motion = "goto", !.pos = "sky", !.astray = @ \/ ~fw.homed,
                         !.dest = destination(x), !.mute = FALSE]
  \/ x \in Refusal /\ "zeroGoto" \in Env /\ silent    \* there already: it arrives without a token
     /\ fw.motion = "idle" /\ fw.pos = destination(x)
     /\ fw' = [fw EXCEPT !.tracking = TRUE, !.astray = @ \/ ~fw.homed, !.mute = TRUE]
  \/ x \in Refusal /\ "refusal" \in Env /\ UNCHANGED fw /\ answer(frame(x))
  \/ x \in {"Ck", "CM"} /\ fw' = [fw EXCEPT !.astray = @ \/ ~fw.homed] /\ answer(frame("CM"))
  \/ x \in {"Ck", "CM"} /\ "refusal" \in Env /\ UNCHANGED fw /\ answer(frame("CMF"))
  \/ x \in {"Ck", "CM"} /\ "lateVerdict" \in Env /\ silent
     /\ fw' = [fw EXCEPT !.astray = @ \/ ~fw.homed, !.verdict = TRUE]
  \/ x = "Ch" /\ ~fw.tracking /\ silent
     /\ fw' = IF fw.motion = "home" \/ fw.wedged THEN fw
              ELSE [fw EXCEPT !.motion = "home", !.pos = "sky", !.mute = FALSE]
  \/ x = "Ch" /\ fw.tracking /\ UNCHANGED fw /\ answer(frame("CH<"))
  \/ x = "Q" /\ silent
     /\ fw' = [fw EXCEPT !.motion = "idle", !.dest = "sky", !.mute = FALSE,
                         !.wedged = @ \/ fw.motion = "home"]
  \/ x \in {"M", "Mg"} /\ silent
     /\ fw' = IF fw.motion \in {"goto", "home"} THEN fw
              ELSE [fw EXCEPT !.motion = IF x = "M" THEN "move" ELSE "pulse", !.pos = "sky"]
  \/ x \in {"Sz", "Sa", "Cu", "R"} /\ UNCHANGED fw /\ silent

(* Conn.mu is free: nobody is between a write and the read that goes with it. *)
free == connMu = NoCaller

(* readUntil: the next frame, and what is left behind it.  A status byte
   nobody read has no terminator: it is read as part of the frame after it. *)
frames == {i \in DOMAIN inbox : inbox[i].k # "byte"}
readUntil ==
  IF frames = {} THEN NoFrame
  ELSE IF Min(frames) = 1 THEN Head(inbox) ELSE frame("junk")
rest == IF frames = {} THEN <<>> ELSE SubSeq(inbox, Min(frames) + 1, Len(inbox))

(* A read returns the next frame, or runs out of time: there is none, or it
   comes too late and stays for the next reader. *)
late == "lateReply" \in Env
hear(f) ==
  \/ f = readUntil /\ inbox' = rest
  \/ late /\ readUntil # NoFrame /\ f = NoFrame /\ UNCHANGED inbox
Heard == {readUntil, NoFrame}

(* Variants for mutation: a token that is no fault is recorded as one; a failed
   home counts as a home; an arrival does not end a park. *)
applyTokenAsFault(mm, k) ==
  CASE k = "CHO" -> [mm EXCEPT !.slewing = FALSE, !.homeFound = TRUE, !.homeCapturePending = TRUE]
    [] OTHER -> [mm EXCEPT !.slewing = FALSE, !.lastFault = k]
applyTokenHomes(mm, k) ==
  IF k \in {"CHO", "CH<"} THEN [mm EXCEPT !.slewing = FALSE, !.homeFound = TRUE] ELSE mm
applyTokenNoPark(mm, k) ==
  CASE k = "MM0" -> [mm EXCEPT !.slewing = FALSE]
    [] k = "CHO" -> [mm EXCEPT !.slewing = FALSE, !.homeFound = TRUE, !.homeCapturePending = TRUE]
    [] k \in {"MMU", "CH<"} -> [mm EXCEPT !.slewing = FALSE, !.lastFault = k]
    [] OTHER -> mm

(* applyToken: MMU stands for the limit and error aborts of a goto (MML, MMU,
   MME), CH< for the failures of a home seek (CH0, CH<). *)
applyToken(mm, k) ==
  CASE k = "MM0" -> [mm EXCEPT !.slewing = FALSE, !.parking = FALSE,
                               !.parkStopPending = @ \/ mm.parking]
    [] k = "CHO" -> [mm EXCEPT !.slewing = FALSE, !.homeFound = TRUE,
                               !.homeCapturePending = TRUE]
    [] k \in {"MMU", "CH<"} -> [mm EXCEPT !.slewing = FALSE, !.lastFault = k]
    [] k = "CMF" -> [mm EXCEPT !.lastFault = k]
    [] OTHER -> mm

-----------------------------------------------------------------------------
(* Steps on the channel. *)

(* drainToken: a peek, only while a move is in flight and the last peek is
   older than peekTTL. *)
drainToken(c) ==
  /\ at(c, "drainToken")
  /\ IF m.slewing /\ ~m.peeked
     THEN m' = [m EXCEPT !.peeked = TRUE] /\ insert(c, step("Await"))
     ELSE proceed(c) /\ UNCHANGED m
  /\ UNCHANGED <<fw, inbox, connMu, val, tok, told, stowed, pulses>>

(* Await, for drainToken: what it reads is applied in a step of its own. *)
Await(c) ==
  /\ at(c, "Await") /\ free
  /\ \E f \in Heard :
       /\ hear(f)
       /\ IF f = NoFrame THEN proceed(c) /\ UNCHANGED tok
          ELSE tok' = [tok EXCEPT ![c] = f] /\ insert(c, step("applyToken"))
  /\ UNCHANGED <<m, fw, connMu, val, told, stowed, pulses>>

(* Variant for mutation: what the peek reads is dropped. *)
applyNothing(c) ==
  /\ at(c, "applyToken")
  /\ tok' = [tok EXCEPT ![c] = NoFrame]
  /\ proceed(c)
  /\ UNCHANGED <<m, fw, inbox, connMu, val, told, stowed, pulses>>

apply(c) ==
  /\ at(c, "applyToken")
  /\ m' = applyToken(m, tok[c].k)
  /\ tok' = [tok EXCEPT ![c] = NoFrame]
  /\ proceed(c)
  /\ UNCHANGED <<fw, inbox, connMu, val, told, stowed, pulses>>

(* drainStale discards what it reads, up to MaxDrain frames. *)
drainStale(c) ==
  /\ at(c, "drainStale") /\ free
  /\ \E f \in Heard :
       /\ hear(f)
       /\ IF f = NoFrame \/ nth(c) + 1 >= MaxDrain THEN proceed(c) ELSE again(c)
  /\ UNCHANGED <<m, fw, connMu, val, tok, told, stowed, pulses>>

(* The write of a command whose answer is read under the same Conn.mu, and
   the read that follows it: GetMatching, Get, Ack. *)
reads == [write |-> "match", rewrite |-> "rematch", Get |-> "echo", Ack |-> "byte"]
write(c) ==
  /\ \E s \in DOMAIN reads : at(c, s) /\ insert(c, on(reads[s], cmd(c)))
  /\ free
  /\ obey(cmd(c))
  /\ connMu' = c
  /\ UNCHANGED <<m, val, tok, told, stowed, pulses>>

(* Variant for mutation: skipped frames are thrown away. *)
matchDiscarding(c) ==
  /\ at(c, "match") \/ at(c, "rematch")
  /\ \E f \in Heard :
       /\ hear(f)
       /\ IF f = NoFrame \/ f.k = cmd(c)
          THEN /\ connMu' = NoCaller
               /\ val' = [val EXCEPT ![c] = IF f = NoFrame THEN "err" ELSE f.v]
               /\ proceed(c)
          ELSE UNCHANGED <<connMu, val, todo>>
  /\ UNCHANGED <<m, fw, tok, told, stowed, pulses>>

(* GetMatching's loop, one frame at a time; get repeats the query once. *)
match(c) ==
  /\ at(c, "match") \/ at(c, "rematch")
  /\ \E f \in Heard :
       /\ hear(f)
       /\ \/ /\ f = NoFrame \/ f.k = cmd(c)
             /\ connMu' = NoCaller
             /\ val' = [val EXCEPT ![c] = IF f = NoFrame THEN "err" ELSE f.v]
             /\ proceed(c)
             /\ UNCHANGED m
          \/ /\ f # NoFrame /\ f.k # cmd(c) /\ nth(c) < MaxSkip
             /\ m' = applyToken(m, f.k)
             /\ again(c)
             /\ UNCHANGED <<connMu, val>>
          \/ /\ f # NoFrame /\ f.k # cmd(c) /\ nth(c) >= MaxSkip
             /\ connMu' = NoCaller
             /\ val' = [val EXCEPT ![c] = "err"]
             /\ insert(c, step("drainStale")
                          \o (IF at(c, "match") THEN on("rewrite", cmd(c)) ELSE <<>>))
             /\ UNCHANGED m
  /\ UNCHANGED <<fw, tok, told, stowed, pulses>>

(* track: the next frame is taken for the echo, whatever it is. *)
echo(c) ==
  /\ at(c, "echo")
  /\ \E f \in Heard :
       hear(f) /\ val' = [val EXCEPT ![c] = IF f = NoFrame THEN "err" ELSE ""]
  /\ connMu' = NoCaller
  /\ proceed(c)
  /\ UNCHANGED <<m, fw, tok, told, stowed, pulses>>

(* readByte, for Ack: the next byte is taken for the verdict; from a frame it
   takes the leading ':', which a token can do without. *)
cut(f) == IF f.k \in Token /\ f.v # "cut" THEN [f EXCEPT !.v = "cut"] ELSE frame("junk")
readByte(c) ==
  /\ at(c, "byte")
  /\ \/ /\ inbox = <<>> \/ late
        /\ val' = [val EXCEPT ![c] = "err"] /\ UNCHANGED inbox
     \/ /\ inbox # <<>> /\ Head(inbox).k = "byte"
        /\ val' = [val EXCEPT ![c] = Head(inbox).v]
        /\ inbox' = Tail(inbox)
     \/ /\ inbox # <<>> /\ Head(inbox).k # "byte"
        /\ val' = [val EXCEPT ![c] = "0"]
        /\ inbox' = [inbox EXCEPT ![1] = cut(@)]
  /\ connMu' = NoCaller
  /\ proceed(c)
  /\ UNCHANGED <<m, fw, tok, told, stowed, pulses>>

(* Blind *)
blind(c) ==
  /\ at(c, "Blind") /\ free
  /\ obey(cmd(c))
  /\ proceed(c)
  /\ UNCHANGED <<m, connMu, val, tok, told, stowed, pulses>>

(* Variant for mutation: no requireHome. *)
SlewNackUngated(c) ==
  /\ at(c, "slewCmd") /\ free
  /\ obey(cmd(c)) /\ connMu' = c /\ insert(c, on("window", cmd(c)))
  /\ UNCHANGED <<m, val, tok, told, stowed, pulses>>

(* SlewNack's write, for slewCmd and syncAck, behind the requireHome of those of
   their callers that have one (homeFound is never reset, so the check can be
   part of this step). *)
Ungated == {"MD", "CM"}
SlewNack(c) ==
  /\ at(c, "slewCmd") /\ free
  /\ IF m.homeFound \/ cmd(c) \in Ungated
     THEN obey(cmd(c)) /\ connMu' = c /\ insert(c, on("window", cmd(c)))
     ELSE giveUp(c) /\ UNCHANGED <<fw, inbox, connMu>>
  /\ UNCHANGED <<m, val, tok, told, stowed, pulses>>

(* The end of SlewNack's window: silence is consent, the verb echoed a
   refusal; any other frame is applied as a token and the slew taken as
   accepted.  syncAck likewise, with CM frames for verdicts. *)
settles(x) == IF x \in {"Ck", "CM"} THEN {"CM", "CMF"} ELSE {x}
window(c) ==
  /\ at(c, "window")
  /\ connMu' = NoCaller
  /\ \E f \in Heard :
       /\ hear(f)
       /\ \/ f = NoFrame /\ proceed(c) /\ UNCHANGED tok
          \/ f.k \in settles(cmd(c)) /\ giveUp(c) /\ UNCHANGED tok
          \/ /\ f # NoFrame /\ f.k \notin settles(cmd(c))
             /\ tok' = [tok EXCEPT ![c] = f]
             /\ insert(c, step("applyToken"))
  /\ UNCHANGED <<m, fw, val, told, stowed, pulses>>

-----------------------------------------------------------------------------
(* Sections under Mount.mu, and what follows a reply. *)

maybeCaptureHome(c) ==
  /\ at(c, "maybeCaptureHome")
  /\ m' = [m EXCEPT !.homeCapturePending = FALSE]
  /\ IF m.homeCapturePending THEN insert(c, coord("G") \o step("captureHome")) ELSE proceed(c)
  /\ UNCHANGED <<fw, inbox, connMu, val, tok, told, stowed, pulses>>

maybeFinishPark(c) ==
  /\ at(c, "maybeFinishPark")
  /\ m' = [m EXCEPT !.parkStopPending = FALSE]
  /\ IF m.parkStopPending THEN insert(c, track("CtL")) ELSE proceed(c)
  /\ UNCHANGED <<fw, inbox, connMu, val, tok, told, stowed, pulses>>

(* A reply is looked at once. *)
consumed(c) == val' = [val EXCEPT ![c] = ""]

(* captureHome: its four coordinate reads are alike and one stands for them. *)
captureHome(c) ==
  /\ at(c, "captureHome")
  /\ m' = IF val[c] = "err" THEN m ELSE [m EXCEPT !.home = val[c]]
  /\ proceed(c) /\ consumed(c)
  /\ UNCHANGED <<fw, inbox, connMu, tok, told, stowed, pulses>>

(* Variant for mutation: a new move does not cancel a pending home capture. *)
setSlewingOnly(c) ==
  /\ at(c, "slewing")
  /\ m' = [m EXCEPT !.slewing = TRUE, !.peeked = FALSE, !.lastFault = "", !.unparked = FALSE,
                    !.parking = FALSE, !.parkStopPending = FALSE]
  /\ proceed(c)
  /\ UNCHANGED <<fw, inbox, connMu, val, tok, told, stowed, pulses>>

(* Variant for mutation: an Unpark outlives the next move. *)
setSlewingUnparked(c) ==
  /\ at(c, "slewing")
  /\ m' = [m EXCEPT !.slewing = TRUE, !.peeked = FALSE, !.lastFault = "",
                    !.homeCapturePending = FALSE, !.parking = FALSE, !.parkStopPending = FALSE]
  /\ proceed(c)
  /\ UNCHANGED <<fw, inbox, connMu, val, tok, told, stowed, pulses>>

(* setSlewing(true) *)
setSlewing(c) ==
  /\ at(c, "slewing")
  /\ m' = [m EXCEPT !.slewing = TRUE, !.peeked = FALSE, !.lastFault = "", !.unparked = FALSE,
                    !.homeCapturePending = FALSE, !.parking = FALSE, !.parkStopPending = FALSE]
  /\ proceed(c)
  /\ UNCHANGED <<fw, inbox, connMu, val, tok, told, stowed, pulses>>

(* setSlewing(false), setMoving, and the flags the operations set inline. *)
flags(c) ==
  /\ \/ at(c, "still") /\ m' = [m EXCEPT !.slewing = FALSE, !.peeked = FALSE] /\ UNCHANGED <<stowed, pulses>>
     \/ at(c, "moved") /\ m' = [m EXCEPT !.moving = TRUE] /\ UNCHANGED <<stowed, pulses>>
     \/ at(c, "unmoved") /\ m' = [m EXCEPT !.moving = FALSE] /\ UNCHANGED <<stowed, pulses>>
     \/ at(c, "Unpark") /\ m' = [m EXCEPT !.unparked = TRUE] /\ UNCHANGED pulses
        /\ stowed' = IF stowed = "parked" THEN "unparked" ELSE stowed
     \/ at(c, "parking") /\ m' = [m EXCEPT !.parking = TRUE] /\ stowed' = "parked" /\ UNCHANGED pulses
     \/ at(c, "pulsing") /\ m' = [m EXCEPT !.pulsing = TRUE] /\ pulses' = pulses + 1 /\ UNCHANGED stowed
  /\ proceed(c)
  /\ UNCHANGED <<fw, inbox, connMu, val, tok, told>>

(* Early returns. *)
checks(c) ==
  /\ \/ at(c, "requireHome") /\ proceedIf(c, m.homeFound)
     \/ at(c, "refuseWhileHoming") /\ proceedIf(c, val[c] # "1")
     \/ at(c, "notHoming") /\ proceedIf(c, val[c] = "0")
     \/ at(c, "known") /\ proceedIf(c, val[c] # "err")
     \/ at(c, "accepted") /\ proceedIf(c, val[c] = "1")
     \/ at(c, "unlessParked") /\ proceedIf(c, val[c] \notin {"err", "park"})
     \/ at(c, "ifParked") /\ proceedIf(c, val[c] = "park")
  /\ consumed(c)
  /\ UNCHANGED <<m, fw, inbox, connMu, tok, told, stowed, pulses>>

(* Park's test for being there already. *)
parkedAlready(c) ==
  /\ at(c, "parked")
  /\ IF val[c] = "park"
     THEN m' = [m EXCEPT !.unparked = FALSE] /\ stowed' = "parked" /\ giveUp(c)
     ELSE proceed(c) /\ UNCHANGED <<m, stowed>>
  /\ consumed(c)
  /\ UNCHANGED <<fw, inbox, connMu, tok, told, pulses>>

(* polePosition: whether the latitude is cached is left open. *)
polePosition(c) ==
  /\ at(c, "polePosition")
  /\ proceed(c) \/ insert(c, get("G") \o step("known"))
  /\ UNCHANGED <<m, fw, inbox, connMu, val, tok, told, stowed, pulses>>

(* AlpacaAtPark's three questions: slewing, unparked, and AtPark, which asks the
   mount only when it has a home reference; "0" is an answer that ends it. *)
parkState(c) ==
  /\ \/ at(c, "stopped") /\ proceed(c)
        /\ val' = [val EXCEPT ![c] = IF m.slewing \/ m.moving THEN "0" ELSE ""]
     \/ at(c, "notUnparked") /\ proceed(c)
        /\ val' = [val EXCEPT ![c] = IF m.unparked THEN "0" ELSE @]
     \/ at(c, "axes") /\ (val[c] = "0" \/ ~m.homeFound) /\ proceed(c)
        /\ val' = [val EXCEPT ![c] = "0"]
     \/ at(c, "axes") /\ val[c] # "0" /\ m.homeFound /\ insert(c, AtPark)
        /\ UNCHANGED val
  /\ UNCHANGED <<m, fw, inbox, connMu, tok, told, stowed, pulses>>

(* What AlpacaAtPark and AlpacaAtHome return. *)
reportPark(c) ==
  /\ \/ at(c, "atPark") /\ told' = [told EXCEPT ![c] = IF val[c] = "park" THEN "parked" ELSE ""]
     \/ at(c, "atHome") /\ told' = [told EXCEPT ![c] = IF val[c] = "home" THEN "home" ELSE ""]
  /\ proceed(c) /\ consumed(c)
  /\ UNCHANGED <<m, fw, inbox, connMu, tok, stowed, pulses>>

(* Variant for mutation: a continuous move is forgotten. *)
reportSlewing(c) ==
  /\ at(c, "Slewing")
  /\ told' = [told EXCEPT ![c] = IF m.slewing THEN "busy" ELSE "idle"]
  /\ proceed(c)
  /\ UNCHANGED <<m, fw, inbox, connMu, val, tok, stowed, pulses>>

(* What Slewing returns. *)
report(c) ==
  /\ at(c, "Slewing")
  /\ told' = [told EXCEPT ![c] = IF m.slewing \/ m.moving THEN "busy" ELSE "idle"]
  /\ proceed(c)
  /\ UNCHANGED <<m, fw, inbox, connMu, val, tok, stowed, pulses>>

(* The goroutine PulseGuide leaves behind: :Q#, and then pulsing is cleared.  The
   two are one step here: only patient callers look at pulsing, and all that they
   do while it is set is wait. *)
pulseEnd ==
  /\ pulses > 0 /\ free
  /\ obey("Q")
  /\ m' = [m EXCEPT !.pulsing = FALSE]
  /\ pulses' = pulses - 1
  /\ UNCHANGED <<connMu, todo, val, tok, told, stowed>>

(* peekTTL runs out. *)
ttl ==
  /\ m.peeked
  /\ m' = [m EXCEPT !.peeked = FALSE]
  /\ UNCHANGED <<fw, inbox, connMu, todo, val, tok, told, stowed, pulses>>

-----------------------------------------------------------------------------
(* The mount, on its own. *)

push(k) == Len(inbox) < MaxInbox /\ inbox' = Append(inbox, frame(k))

(* Unless it is short, a motion outlasts the call that starts it. *)
starting(c) ==
  \/ at(c, "window") /\ cmd(c) \in Refusal
  \/ at(c, "applyToken") /\ Len(todo[c]) > 1 /\ todo[c][2].do = "slewing"
  \/ at(c, "slewing") \/ at(c, "parking")
outlasts == "shortSlew" \in Env \/ \A c \in Callers : ~starting(c)

(* A goto arrives, tracking, or hits a limit. *)
arrive ==
  /\ fw.motion = "goto" /\ outlasts
  /\ \/ push("MM0") /\ fw' = [fw EXCEPT !.motion = "idle", !.pos = fw.dest, !.dest = "sky", !.tracking = TRUE]
     \/ "fault" \in Env /\ push("MMU") /\ fw' = [fw EXCEPT !.motion = "idle", !.dest = "sky"]
  /\ UNCHANGED <<m, connMu, todo, val, tok, told, stowed, pulses>>

(* A home seek ends at home, or fails. *)
seekEnd ==
  /\ fw.motion = "home" /\ outlasts
  /\ \/ push("CHO") /\ fw' = [fw EXCEPT !.motion = "idle", !.pos = "home", !.homed = TRUE]
     \/ "fault" \in Env /\ push("CH<") /\ fw' = [fw EXCEPT !.motion = "idle"]
  /\ UNCHANGED <<m, connMu, todo, val, tok, told, stowed, pulses>>

verdict ==
  /\ fw.verdict
  /\ \E k \in {"CM", "CMF"} : push(k)
  /\ fw' = [fw EXCEPT !.verdict = FALSE]
  /\ UNCHANGED <<m, connMu, todo, val, tok, told, stowed, pulses>>

run(c) ==
  \/ drainToken(c) \/ Await(c) \/ apply(c) \/ drainStale(c)
  \/ write(c) \/ match(c) \/ echo(c) \/ readByte(c) \/ blind(c)
  \/ SlewNack(c) \/ window(c)
  \/ maybeCaptureHome(c) \/ maybeFinishPark(c) \/ captureHome(c)
  \/ setSlewing(c) \/ flags(c) \/ checks(c) \/ parkedAlready(c) \/ report(c)
  \/ polePosition(c) \/ parkState(c) \/ reportPark(c)

Next ==
  \/ \E c \in Callers : run(c) \/ \E op \in Ops[c] : call(c, op)
  \/ pulseEnd \/ ttl \/ arrive \/ seekEnd \/ verdict

Spec == Init /\ [][Next]_vars

(* A goroutine in an operation goes on, time passes, the mount ends what it
   has begun, and every caller keeps polling Slewing. *)
FairSpec ==
  /\ Spec
  /\ \A c \in Callers : WF_vars(run(c)) /\ SF_vars(call(c, "Slewing"))
  /\ WF_vars(ttl) /\ WF_vars(arrive) /\ WF_vars(seekEnd)

-----------------------------------------------------------------------------
MountType == [slewing : BOOLEAN, peeked : BOOLEAN, lastFault : Fault \cup {""},
              homeFound : BOOLEAN, home : Value, unparked : BOOLEAN, parking : BOOLEAN,
              moving : BOOLEAN, homeCapturePending : BOOLEAN, parkStopPending : BOOLEAN,
              pulsing : BOOLEAN]
FirmwareType == [motion : Motion, homed : BOOLEAN, pos : Place, dest : Place,
                 target : SUBSET {"Sr", "Sd"}, tracking : BOOLEAN, wedged : BOOLEAN,
                 astray : BOOLEAN, verdict : BOOLEAN, mute : BOOLEAN]
(* The commands that need a home reference are sent by slewCmd and syncAck only,
   those without a gate only for callers that use them. *)
Gated == {"MS", "MA", "Ck"}
Command == Gated \cup Ungated \cup Query \cup {"", "CtL", "CtA", "CtU", "Sr", "Sd", "SrP", "SdP", "Ch", "Q",
                                   "M", "Mg", "Sz", "Sa", "Cu", "R"}
Does == {"drainToken", "Await", "applyToken", "drainStale", "write", "rewrite", "match",
         "rematch", "Get", "echo", "Ack", "byte", "Blind", "slewCmd", "window",
         "maybeCaptureHome", "maybeFinishPark", "captureHome", "slewing", "still", "moved",
         "unmoved", "Unpark", "parking", "pulsing", "requireHome", "refuseWhileHoming",
         "notHoming", "known", "accepted", "parked", "Slewing", "polePosition",
         "stopped", "notUnparked", "axes", "unlessParked", "ifParked", "atPark", "atHome"}
Step == {s \in [do : Does, cmd : Command, n : Nat] :
           /\ s.cmd \in Gated \cup Ungated => s.do \in {"slewCmd", "window"}
           /\ s.cmd \in Ungated => ~Careful}
TypeOK ==
  /\ m \in MountType
  /\ fw \in FirmwareType
  /\ inbox \in Seq(Frame)
  /\ connMu \in Callers \cup {NoCaller}
  /\ todo \in [Callers -> Seq(Step)]
  /\ val \in [Callers -> Value]
  /\ tok \in [Callers -> Frame]
  /\ told \in [Callers -> {"", "idle", "busy", "parked", "home"}]
  /\ stowed \in {"no", "parked", "unparked"}
  /\ pulses \in Nat

(* requireHome, against the mount: homeFound is believed only when the mount
   really has its reference, and so is a home token on its way to be applied. *)
HomeInv ==
  /\ m.homeFound => fw.homed
  /\ \A i \in DOMAIN inbox : inbox[i].k = "CHO" => fw.homed
  /\ \A c \in Callers : tok[c].k = "CHO" => fw.homed

(* Slews and syncs are gated on HomeFound: whatever callers, tokens and late
   replies do, no goto or sync reaches a mount that has no home reference, as
   long as no caller uses the two operations that have no gate (Careful). *)
HomeGate == Careful => ~fw.astray

(* Halt, Park and FindHome are refused while a home seek runs: :Q# never
   reaches the mount during one, which could wedge it until a power cycle. *)
SeekUninterrupted == ~fw.wedged

(* Slewing says no only of a mount that is in no goto, home seek, park or
   continuous move, unless another caller is in the middle of starting one. *)
PollTruth ==
  [][\A c \in Callers :
       /\ told[c] # "idle" /\ told'[c] = "idle"
       /\ \A d \in Callers \ {c} : todo[d] = <<>>
       => fw.motion \in {"idle", "pulse"}]_vars

(* Park stows the mount and stops tracking on arrival: a caller that has parked
   and is told that the mount is still finds it not tracking (or a fault). *)
ParkStops ==
  [][\A c \in Callers :
       told[c] # "idle" /\ told'[c] = "idle" /\ stowed # "no" /\ m.lastFault = "" => ~fw.tracking]_vars

(* AlpacaAtPark "reports whether the mount is parked and stopped": yes only of a
   mount that stands at its park position, in no goto or seek. *)
AlpacaTruth ==
  [][\A c \in Callers :
       told'[c] = "parked" /\ told[c] # "parked" => fw.pos = "park" /\ fw.motion = "idle"]_vars

(* AlpacaAtHome, as its code has it (Slewing, then AtHome): yes only of a mount
   that stands at home, in no goto or seek.  (Its comment, rst/alpaca.go:29, says
   something else: "reports that the mount has homed this power-cycle".) *)
AlpacaHomeTruth ==
  [][\A c \in Callers :
       told'[c] = "home" /\ told[c] # "home" => fw.pos = "home" /\ fw.motion = "idle"]_vars

(* AlpacaFindHome is refused while the mount is parked: a seek never starts from
   the park position before Unpark has been called, however often the mount has
   been parked, unparked and moved before. *)
ParkHeld ==
  [][fw.motion # "home" /\ fw'.motion = "home" => ~(stowed = "parked" /\ fw.pos = "park")]_vars

(* HomePosition returns the coordinates recorded at the last successful home:
   what captureHome stored, when it did, was read with the mount at home. *)
HomeIsHome == m.home \in {"", "home"}

(* The slewing latch is cleared by a token: with no call in progress, a latched
   slew is one the mount is making, or one whose token waits to be read, or a
   goto to where the mount stood, which "may produce no completion token"
   (rst/rst.go:944). *)
NoPhantomSlew ==
  m.slewing /\ (\A c \in Callers : todo[c] = <<>>) =>
    \/ fw.motion \in {"goto", "home"} \/ fw.mute
    \/ \E i \in DOMAIN inbox : inbox[i].k \in {"MM0", "CHO", "MMU", "CH<"}

(* A latched slew ends, unless it is such a goto. *)
SlewingEnds == m.slewing ~> ~m.slewing \/ fw.mute
=============================================================================
