------------------------------ MODULE BootFlash ------------------------------
(***************************************************************************)
(* rstflash and the AN1388 bootloader of the RST controllers: the sessions *)
(* of cmd/rstflash (flash, identify, crc, info) as the commands they send, *)
(* boot.Client.do, which retries an exchange until a frame that echoes its *)
(* command arrives, and the controller, which works through the frames it  *)
(* receives in order.  The controller is external.                         *)
(*                                                                         *)
(* Flash is a row of cells, each programmed by one frame of an image.  The *)
(* cells below AppBase150 are used by the images of the 135 family only.   *)
(* A checksum stands for the content it was computed from.                 *)
(***************************************************************************)
EXTENDS Naturals, Sequences

CONSTANTS Image,           \* firmware images
          FamilyOf,        \* the family an image's start address is in
          N,               \* cells of flash
          K,               \* cells below AppBase150
          commandRetries,  \* attempts of a command
          connectRetries,  \* attempts of ReadBootInfo: timeout / connectRetryEvery
          MaxFaults,       \* bound: frames lost, answers late, transports that fail, power cuts
          MaxSessions      \* bound: runs of rstflash

Families == {"135", "150"}
Tags == Image \cup {"erased", "spoilt"}

ASSUME BootAssumption ==
    /\ N \in Nat /\ K \in 1..(N - 1)
    /\ FamilyOf \in [Image -> Families]
    /\ "erased" \notin Image /\ "spoilt" \notin Image /\ "none" \notin Image
    /\ commandRetries \in Nat \ {0} /\ connectRetries \in Nat \ {0}
    /\ MaxFaults \in Nat /\ MaxSessions \in Nat

VARIABLES session,  \* which run of rstflash this is, what for, and with which image
          at,       \* place in the session's script of the command it is at
          tries,    \* attempts made of it
          waiting,  \* await: it has been written
          outcome,  \* "running", or how the session ended
          seen,     \* doIdentify's map from ranges to checksums
          toDev,    \* frames on their way to the controller, by their place in the script
          toHost,   \* frames on their way back: the place, and the checksum if it is one
          family,   \* the family the controller belongs to
          mode,     \* the controller is in its bootloader, off, or runs its application
          flash,    \* what its cells hold
          intact,   \* whether it held a whole firmware when the session began
          hasty,    \* whether a command timed out before its answer in this session
          faults    \* faults of the session so far

host == <<session, at, tries, waiting, outcome, seen>>
vars == <<session, at, tries, waiting, outcome, seen, toDev, toHost, family, mode, flash, intact, hasty, faults>>

Cells == 1..N
Range(r) == CASE r = "low" -> 1..K
              [] r = "135" -> 1..N
              [] OTHER     -> (K + 1)..N

\* The content of a range of flash; an image; a range that is erased.
crc16(r) == [c \in Range(r) |-> flash[c]]
CRC(g) == [c \in Range(FamilyOf[g]) |-> g]
ErasedCRC == [c \in Range("low") |-> "erased"]

Installed(g) == \A c \in Range(FamilyOf[g]) : flash[c] = g

\* Commands.  of is the image or the range a command is about, cell a cell.
Command(cmd, of, cell) == [cmd |-> cmd, of |-> of, cell |-> cell]
ReadBootInfo == Command("info", "none", 0)
EraseFlash == Command("erase", "none", 0)
ProgramFlash(g, c) == Command("program", g, c)
ReadCRC(r) == Command("crc", r, 0)
JumpToApp == Command("jump", "none", 0)

(***************************************************************************)
(* What a session sends.  Program sends the records in the file's order.   *)
(***************************************************************************)
Below(g) == IF FamilyOf[g] = "135" THEN 0 ELSE K
Program(g) == [i \in 1..(N - Below(g)) |-> ProgramFlash(g, Below(g) + i)]

Connect == <<ReadBootInfo>>
DetectAppBase == <<ReadCRC("low")>>
Verify(g) == <<ReadCRC(FamilyOf[g])>>

\* Mutant: the flash is erased before the family is known.
flashesEagerly(g) == Connect \o <<EraseFlash>> \o DetectAppBase \o Program(g) \o Verify(g)

flashes(g) == Connect \o DetectAppBase \o <<EraseFlash>> \o Program(g) \o Verify(g)
doInfo == Connect
doCRC(g) == Connect \o Verify(g)

\* doIdentify: one ReadCRC for each distinct range of the candidates.
doIdentify == Connect \o DetectAppBase \o <<ReadCRC("135"), ReadCRC("150")>>

Script(s) ==
    CASE s.why \in {"flash", "run"} -> flashes(s.img)
      [] s.why = "crc"              -> doCRC(s.img)
      [] s.why = "identify"         -> doIdentify
      [] OTHER                      -> doInfo

writing == session.why \in {"flash", "run"}
Last == Len(Script(session))

\* JUMP_TO_APP comes behind the script.
Frame(i) == IF i <= Last THEN Script(session)[i] ELSE JumpToApp
current == Frame(at)

Begin(n, s) ==
    /\ session' = [n |-> n, why |-> s.why, img |-> s.img]
    /\ at' = 1 /\ tries' = 0 /\ waiting' = FALSE
    /\ outcome' = "running"
    /\ seen' = [r \in Families |-> <<>>]

Purposes == [why : {"flash", "run", "crc", "identify", "info"}, img : Image]

Init ==
    /\ family \in Families
    /\ \E old \in {g \in Image : FamilyOf[g] = family} :
          flash = [c \in Cells |-> IF c \in Range(family) THEN old ELSE "erased"]
    /\ mode = "boot" /\ intact = TRUE
    /\ toDev = <<>> /\ toHost = <<>> /\ faults = 0 /\ hasty = FALSE
    /\ \E s \in Purposes : session = [n |-> 1, why |-> s.why, img |-> s.img]
    /\ at = 1 /\ tries = 0 /\ waiting = FALSE /\ outcome = "running"
    /\ seen = [r \in Families |-> <<>>]

\* The user runs rstflash again: the controller is power-cycled with PREV and
\* NEXT held, as the messages of a failed flash ask for, and the port is opened
\* anew.  (After -info, -crc or -identify one may do without the power cycle; an
\* answer of the old session that is still under way is then not modelled.)
again ==
    /\ outcome # "running" /\ session.n < MaxSessions
    /\ \E s \in Purposes : Begin(session.n + 1, s)
    /\ mode' = "boot" /\ toDev' = <<>> /\ toHost' = <<>> /\ faults' = 0 /\ hasty' = FALSE
    /\ intact' = \E g \in Image : FamilyOf[g] = family /\ Installed(g)
    /\ UNCHANGED <<family, flash>>

(***************************************************************************)
(* The host: do, write and await.                                          *)
(***************************************************************************)
active == outcome = "running" /\ at <= Last

\* Mutant: a command is tried once.
retriesShort == IF current.cmd = "info" THEN connectRetries ELSE commandRetries - 2

retries == IF current.cmd = "info" THEN connectRetries ELSE commandRetries

end(how) ==
    /\ outcome' = how
    /\ waiting' = FALSE /\ tries' = 0
    /\ UNCHANGED <<session, at, seen>>

\* A controller that is off hears nothing.
sent(i) == IF mode = "boot" THEN Append(toDev, i) ELSE toDev

\* Mutant: attempts are not counted.
writeUncounted ==
    /\ active /\ ~waiting
    /\ toDev' = sent(at)
    /\ waiting' = TRUE /\ tries' = 1
    /\ UNCHANGED <<session, at, outcome, seen, toHost, family, mode, flash, intact, hasty, faults>>

\* One attempt of the command: it is written, and waited for.
write ==
    /\ active /\ ~waiting
    /\ toDev' = sent(at)
    /\ waiting' = TRUE /\ tries' = tries + 1
    /\ UNCHANGED <<session, at, outcome, seen, toHost, family, mode, flash, intact, hasty, faults>>

\* A write or a read that fails ends the command, and the session, at once.
transportFails ==
    /\ active /\ faults < MaxFaults /\ faults' = faults + 1
    /\ end("broken")
    /\ UNCHANGED <<toDev, toHost, family, mode, flash, intact, hasty>>

\* Nothing that answers the command is on its way any more.
lost == /\ \A i \in 1..Len(toHost) : Frame(toHost[i].place).cmd # current.cmd
        /\ mode = "boot" => \A i \in 1..Len(toDev) : Frame(toDev[i]).cmd # current.cmd

\* ErrTimeout.  It comes too early, for an answer that is only late, at most
\* MaxFaults times.
timeout ==
    /\ active /\ waiting
    /\ IF lost THEN UNCHANGED <<hasty, faults>>
       ELSE faults < MaxFaults /\ faults' = faults + 1 /\ hasty' = TRUE
    /\ IF tries < retries THEN waiting' = FALSE /\ UNCHANGED <<session, at, tries, outcome, seen>>
       ELSE end("failed")
    /\ UNCHANGED <<toDev, toHost, family, mode, flash, intact>>

\* Mutant: the attempts of the last command are held against the next one.
advanceTired ==
    /\ at' = at + 1 /\ waiting' = FALSE /\ UNCHANGED tries
    /\ outcome' = IF at = Last /\ session.why # "run" THEN "ok" ELSE "running"
    /\ UNCHANGED session

\* The command is done, and the session with the last one.
advance ==
    /\ at' = at + 1 /\ waiting' = FALSE /\ tries' = 0
    /\ outcome' = IF at = Last /\ session.why # "run" THEN "ok" ELSE "running"
    /\ UNCHANGED session

\* The check of the family in flash.
want == FamilyOf[session.img]
base(val) == IF val = ErasedCRC THEN "150" ELSE "135"

\* Mutant: the checksum is read and not compared.
acceptAny(reply) ==
    CASE current = ReadCRC("low") /\ base(reply.val) # want -> end("mismatch")
      [] OTHER -> advance /\ UNCHANGED seen

\* Mutant: the base is detected and not compared.
acceptFamily(reply) ==
    CASE writing /\ current = ReadCRC(want) /\ reply.val # CRC(session.img) -> end("failed")
      [] OTHER -> advance /\ UNCHANGED seen

\* Mutant: one checksum stands for all ranges.
acceptOnce(reply) ==
    CASE writing -> advance /\ UNCHANGED seen
      [] OTHER -> advance /\ seen' = [r \in Families |-> IF seen[r] = <<>> THEN reply.val ELSE seen[r]]

\* What the session does with the answer it was waiting for.
accept(reply) ==
    CASE writing /\ current = ReadCRC("low") /\ base(reply.val) # want -> end("mismatch")
      [] writing /\ current = ReadCRC(want) /\ reply.val # CRC(session.img) -> end("failed")
      [] session.why = "identify" /\ current.of \in Families ->
             advance /\ seen' = [seen EXCEPT ![current.of] = reply.val]
      [] OTHER -> advance /\ UNCHANGED seen

\* A read of n frames: the first that echoes the command is its answer, and the
\* frames before it and behind it in the same read are thrown away.
await ==
    /\ active /\ waiting
    /\ \E n \in 1..Len(toHost) :
          LET match == {i \in 1..n : Frame(toHost[i].place).cmd = current.cmd}
          IN  /\ toHost' = SubSeq(toHost, n + 1, Len(toHost))
              /\ IF match = {} THEN UNCHANGED host
                 ELSE \E i \in match : (\A j \in match : i <= j) /\ accept(toHost[i])
    /\ UNCHANGED <<toDev, family, mode, flash, intact, hasty, faults>>

\* Run: JUMP_TO_APP after a verify that went well, and no answer.
Run ==
    /\ outcome = "running" /\ at > Last
    /\ toDev' = sent(at)
    /\ outcome' = "ok"
    /\ UNCHANGED <<session, at, tries, waiting, seen, toHost, family, mode, flash, intact, hasty, faults>>

(***************************************************************************)
(* The controller and the wires.                                           *)
(***************************************************************************)

\* What a frame does to the flash: erase wipes the application range of the
\* family; a cell is programmed once after an erase, and again only with what
\* it holds.
Execute(f) ==
    CASE f.cmd = "erase" -> [c \in Cells |-> IF c \in Range(family) THEN "erased" ELSE flash[c]]
      [] f.cmd = "program" ->
             [flash EXCEPT ![f.cell] = IF @ \in {"erased", f.of} THEN f.of ELSE "spoilt"]
      [] OTHER -> flash

Answer(i) == [place |-> i, val |-> IF Frame(i).cmd = "crc" THEN crc16(Frame(i).of) ELSE <<>>]

serve ==
    /\ mode = "boot" /\ toDev # <<>>
    /\ flash' = Execute(Frame(Head(toDev)))
    /\ IF Frame(Head(toDev)) = JumpToApp THEN mode' = "app" /\ UNCHANGED toHost
       ELSE toHost' = Append(toHost, Answer(Head(toDev))) /\ UNCHANGED mode
    /\ toDev' = Tail(toDev)
    /\ UNCHANGED <<session, at, tries, waiting, outcome, seen, family, intact, hasty, faults>>

\* A damaged frame is dropped by whoever receives it (decoder.feed).
lose ==
    /\ faults < MaxFaults /\ faults' = faults + 1
    /\ \/ toDev # <<>> /\ toDev' = Tail(toDev) /\ UNCHANGED toHost
       \/ toHost # <<>> /\ toHost' = Tail(toHost) /\ UNCHANGED toDev
    /\ UNCHANGED <<session, at, tries, waiting, outcome, seen, family, mode, flash, intact, hasty>>

powerCut ==
    /\ mode # "off" /\ outcome = "running" /\ faults < MaxFaults /\ faults' = faults + 1
    /\ mode' = "off" /\ toDev' = <<>> /\ toHost' = <<>>
    /\ UNCHANGED <<session, at, tries, waiting, outcome, seen, family, flash, intact, hasty>>

HostStep == write \/ timeout \/ await \/ Run \/ transportFails
Next == HostStep \/ serve \/ lose \/ powerCut \/ again

\* The host's reads have deadlines, so it always gets on.  The controller's
\* fairness is needed only because early timeouts are bounded: it answers, or
\* the command times out.
Spec == Init /\ [][Next]_vars /\ WF_vars(HostStep) /\ WF_vars(serve)

(***************************************************************************)
(* Properties.                                                             *)
(***************************************************************************)
\* The types of the state.
TypeOK ==
    /\ session \in [n : 1..(MaxSessions + 1), why : {"flash", "run", "crc", "identify", "info"}, img : Image]
    /\ at \in 1..(Last + 1) /\ tries \in 0..(commandRetries + connectRetries) /\ waiting \in BOOLEAN
    /\ outcome \in {"running", "ok", "failed", "mismatch", "broken"}
    /\ family \in Families /\ mode \in {"boot", "off", "app"}
    /\ flash \in [Cells -> Tags] /\ intact \in BOOLEAN /\ hasty \in BOOLEAN /\ faults \in 0..MaxFaults

\* rstflash reports success only when the whole image is on the controller,
\* whatever was lost, repeated or answered late: Verify's checksum was
\* computed behind every frame of the session.
OkMeansInstalled == writing /\ outcome = "ok" => Installed(session.img)

\* The controller is started only on a whole image.
RunsWhole == mode = "app" => \E g \in Image : Installed(g)

\* A controller that held a firmware when the session began gets frames that
\* erase or program it only in sessions with an image of its own family.
FamilyGuard ==
    intact /\ (\E i \in 1..Len(toDev) : Frame(toDev[i]).cmd \in {"erase", "program"})
        => writing /\ FamilyOf[session.img] = family

\* A session that only reads, and one that refuses the file, leaves a
\* controller that held a firmware with it.
Unharmed ==
    intact /\ (~writing \/ outcome = "mismatch")
        => \E g \in Image : FamilyOf[g] = family /\ Installed(g)

\* doIdentify finds the image that is installed, however many frames were lost,
\* as long as no answer was later than its timeout: await takes any frame that
\* echoes ReadCRC, and a late one is the checksum of another range.
IdentifyFinds ==
    session.why = "identify" /\ outcome = "ok" /\ ~hasty
        => \A g \in Image : FamilyOf[g] = family /\ Installed(g) => seen[family] = CRC(g)

\* One fault of the line (a frame lost, or an answer later than the timeout)
\* does not make the session fail.
OneFaultTolerated ==
    writing /\ intact /\ FamilyOf[session.img] = family /\ faults <= 1 /\ mode # "off"
        => outcome \notin {"failed", "mismatch"}

\* After a session that failed, rstflash can be run again with the right file.
Recoverable ==
    writing /\ FamilyOf[session.img] = family => outcome # "mismatch"

\* Every session ends.
SessionsEnd == (outcome = "running") ~> (outcome # "running")
=============================================================================
