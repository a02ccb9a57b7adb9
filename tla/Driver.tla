------------------------------- MODULE Driver -------------------------------
(***************************************************************************)
(* The drivers of the AM series, of OnStep and of the 10Micron mounts on   *)
(* one lx200.Conn: any number of goroutines run methods (scripts of Steps) *)
(* against a mount that answers on one byte stream.                        *)
(*                                                                         *)
(* Two locks are modelled: Conn.mu, held from the write of a command to    *)
(* the end of its answer, and Mount.mu, which guards what the driver       *)
(* remembers and which status() holds across the queries it sends.         *)
(*                                                                         *)
(* The mount is external.  Its status (motion, tracking, park, home, mode) *)
(* is a version number that grows with every command that changes it, and  *)
(* an answer carries the version it was made from; what it is doing on     *)
(* each axis, its speed correction, guide pulse and hemisphere are what    *)
(* the drivers keep a copy of or bracket.  prec is its precision mode (2:  *)
(* :U2#).  site is history: where the hemisphere comes from, "told" when   *)
(* Connect or SetSiteLatitude passed it through the driver, "gps" when     *)
(* the mount took it from its receiver (:gT#).                             *)
(***************************************************************************)
EXTENDS Naturals, Sequences

CONSTANTS Client,      \* goroutines that use the mount
          Commander,   \* those of them that run methods other than the getters
          Drivers,     \* names of drivers
          Open,        \* per driver: the scripts of opening it
          Calls,       \* per driver: the scripts of its methods
          Polls,       \* per driver: the scripts of its getters
          Fetch,       \* per driver: the queries status() sends
          Junk,        \* per driver: what may be on the line at the start
          MaxCalls,    \* bound: methods a client runs, per client
          MaxFaults,   \* bound: answers delayed and writes failed
          TTL,         \* lifetime of the status cache, in ticks
          MaxPulse     \* longest guide pulse, in ticks

Nobody == "nobody"
Axis == {"P", "S"}

VARIABLES drv,    \* the driver in use
          phase,  \* "opening", "open", or "closed" when Connect gave up
          conn,   \* holder of Conn.mu
          mu,     \* holder of Mount.mu
          line,   \* what can be read from the transport
          late,   \* answers still under way: they come in order, after line
          call,   \* what each client is doing
          cache,  \* Mount.cached: ticks it is still good for, and its version
          mem,    \* the rest of what Mount remembers
          mnt,    \* the mount
          floor,  \* version reached by the methods that have returned
          user,   \* speed correction as its user, or a restore that failed, left it
          faults, \* faults so far
          loose   \* history: the stream may be out of step (see Sound)

vars == <<drv, phase, conn, mu, line, late, call, cache, mem, mnt, floor, user, faults, loose>>

(***************************************************************************)
(* The stream.  A character is 'y' or 'n' (an answer, or the body of one,  *)
(* that accepts or refuses) or the terminator; v is the version of the     *)
(* status the answer was made from.                                        *)
(***************************************************************************)
Chars(s, v) == [i \in 1..Len(s) |-> [c |-> s[i], v |-> v]]
Char == [c : {"y", "n", "#"}, v : Nat]

Wire == {"blind", "ack", "byte", "get", "slew"}
Effects == {"nothing", "status", "halt", "stopAll", "setHome", "jogP", "jogS", "stopP", "stopS",
            "pulse", "corrOn", "corrOff", "askCorr", "south", "north", "askSouth", "gpsSouth",
            "gpsNorth", "prec0", "prec1", "prec2", "precNext"}

Ops == Wire \cup {"check", "invalidate", "status", "store", "setMoving", "stopMoving", "clearMoving",
                  "askMoving", "setPulse", "setSouth", "setParked", "restore"}
StepType ==
    [op : Ops, reply : {"none", "byte", "date", "text", "slew"}, does : Effects,
     arg : {"-", "user", "P", "S", "south", "north", "parked", "unparked"}, ticks : 0..MaxPulse,
     yes : {"go", "skip"}, no : {"go", "skip", "stop"}, err : {"go", "skip", "stop"}, skip : Nat]

(***************************************************************************)
(* What the scripts of a driver have in common.  These are facts about the *)
(* tables (Am5, OnStep, TenMicron), evaluated on all of them; the theorems *)
(* about Driver rest on these facts and not on the tables.                 *)
(***************************************************************************)
Scripts(d) == Open[d] \cup Calls[d] \cup Polls[d]

ASSUME ConstantTypes ==
    /\ Commander \subseteq Client /\ Nobody \notin Client
    /\ MaxCalls \in [Client -> Nat]
    /\ MaxFaults \in Nat /\ TTL \in Nat /\ MaxPulse \in Nat

ASSUME ScriptTypes ==
    \A d \in Drivers :
        /\ \A t \in Scripts(d) : t \in Seq(StepType)
        /\ Fetch[d] \in Seq(StepType)
        /\ \A j \in Junk[d] : j \in Seq({"y", "n"})

skips(s) == "skip" \in {s.yes, s.no, s.err}

\* status() sends queries, may stop at each of them, and ends by storing.
Fetches(t) ==
    /\ t # <<>> /\ t[Len(t)].op = "store"
    /\ \A i \in 1..(Len(t) - 1) : t[i].op \in Wire \cup {"check"}
    /\ \A i \in 1..Len(t) : t[i].does = "nothing" /\ t[i].arg = "-" /\ ~skips(t[i])

ASSUME FetchAssumption == \A d \in Drivers : Fetches(Fetch[d])

\* A command is sent with the primitive that reads what the mount answers
\* (:SC# in the mode Connect sets).
Fits(s) ==
    /\ s.op = "blind" => s.reply = "none"
    /\ s.op \in {"ack", "byte"} => s.reply \in {"byte", "date"}
    /\ s.op = "get" => s.reply = "text"
    /\ s.op = "slew" => s.reply = "slew"

AllFit(t) == \A i \in 1..Len(t) : Fits(t[i])

\* Whatever a mount has printed by itself, opening the driver reads a text first.
ASSUME FitAssumption ==
    \A d \in Drivers :
        /\ \A t \in Scripts(d) : AllFit(t)
        /\ AllFit(Fetch[d])
        /\ \A j \in Junk[d], t \in Open[d] : j # <<>> => t # <<>> /\ t[1].op = "get"

\* A method that changes what status() reports, Halt, SetHome and the moves by
\* hand aside (on AM and OnStep mounts no invalidation follows these), ends by
\* invalidating the cache, and no branch of it, early returns with an error
\* aside, leads around that.
alters(s) == s.does \in {"status", "halt"}
Pending(t) ==
    /\ t # <<>> /\ t[Len(t)].op = "invalidate"
    /\ \A i \in 1..Len(t) : t[i].op # "askMoving" /\ (skips(t[i]) => i + t[i].skip < Len(t))
Settles(t) == (\E i \in 1..Len(t) : alters(t[i])) => Pending(t)

ASSUME SettleAssumption == \A d \in Drivers : \A t \in Scripts(d) : Settles(t)

\* The getters change nothing, neither on the mount nor in what is remembered.
Reads(s) ==
    /\ s.does = "nothing" /\ s.arg = "-"
    /\ s.op \in Wire \cup {"check", "status", "store", "askMoving"}

ASSUME ReadAssumption == \A d \in Drivers : \A t \in Polls[d] : \A i \in 1..Len(t) : Reads(t[i])

\* A command that changes what the driver keeps a copy of is followed by the
\* step that records it; the speed correction, turned off for a while, by the
\* restore.
brackets(s) == s.does = "corrOff" /\ s.arg # "user"
owes(s) == s.does \in {"pulse", "south", "north"} \/ brackets(s)
pays(r, s) ==
    /\ r.yes = "go"
    /\ r.does = "pulse" => r.op = "blind" /\ s.op = "setPulse" /\ s.ticks = r.ticks
    /\ r.does \in {"south", "north"} => r.op = "ack" /\ s.op = "setSouth" /\ s.arg = r.does
    /\ brackets(r) => r.op = "ack" /\ s.op = "restore"

\* And the other way round: these steps are reached only from the step that
\* makes them right, and only when it went the way that does.
guarded(s) == s.op \in {"stopMoving", "clearMoving", "setSouth", "restore"} \/ brackets(s)
backs(r, s) ==
    /\ s.op \in {"stopMoving", "clearMoving"} =>
           /\ r.op = "blind" /\ r.err # "go"
           /\ \/ r.does \in {"halt", "stopAll"}
              \/ s.op = "stopMoving" /\ s.arg = "P" /\ r.does = "stopP"
              \/ s.op = "stopMoving" /\ s.arg = "S" /\ r.does = "stopS"
    /\ s.op = "setSouth" =>
           /\ r.err # "go"
           /\ \/ r.op = "ack" /\ r.does \in {"south", "north"} /\ s.arg = r.does /\ r.no # "go"
              \/ r.op = "get" /\ r.does = "askSouth" /\ s.arg = "south" /\ r.yes # "go"
    /\ s.op = "restore" => r.op = "ack" /\ brackets(r)
    /\ brackets(s) => r.op = "byte" /\ r.does = "askCorr" /\ r.no # "go" /\ r.err # "go"

Follows(t) ==
    /\ \A i \in 1..Len(t) : owes(t[i]) => i < Len(t) /\ pays(t[i], t[i + 1])
    /\ \A i \in 2..Len(t) : guarded(t[i]) => backs(t[i - 1], t[i])
    /\ \A i, j \in 1..Len(t) : skips(t[i]) /\ j = i + t[i].skip + 1 => ~guarded(t[j])
    /\ \A i, j \in 1..Len(t) : t[i].op = "restore" /\ i < j =>
                                   t[j].arg # "user" /\ t[j].does # "corrOff"
    /\ \A i \in 1..Len(t) : t[i].does = "corrOn" => t[i].arg = "user"

\* A move by hand of a 10Micron mount is recorded as well.
Watched(t) ==
    \A i \in 1..Len(t) : t[i].does \in {"jogP", "jogS"} =>
        /\ t[i].op = "blind" /\ t[i].yes = "go" /\ i < Len(t) /\ t[i + 1].op = "setMoving"
        /\ t[i + 1].arg = IF t[i].does = "jogP" THEN "P" ELSE "S"

\* Opening a 10Micron mount ends with the question for its hemisphere.
Inquires(t) ==
    /\ Len(t) >= 2 /\ t[Len(t)].op = "setSouth"
    /\ LET ask == t[Len(t) - 1]
       IN  /\ ask.op = "get" /\ ask.does = "askSouth" /\ ask.no = "go" /\ ask.err # "go"
           /\ ask.yes = "skip" /\ ask.skip > 0
    /\ \A i \in 1..(Len(t) - 2) :
          /\ ~skips(t[i]) /\ t[i].op \notin {"status", "askMoving", "setSouth", "restore"}
          /\ t[i].does \notin {"south", "north", "askSouth"}

ASSUME FollowAssumption ==
    \A d \in Drivers : \A t \in Scripts(d) :
        /\ Follows(t) /\ (t # <<>> => ~guarded(t[1]))
        /\ d = "tenmicron" => Watched(t)

ASSUME InquireAssumption ==
    \A d \in Drivers : d = "tenmicron" => /\ \A t \in Open[d] : Inquires(t)
                                          /\ \A j \in Junk[d] : j = <<>>

\* What the mount may answer.
Answers(s) ==
    CASE s.reply = "none" -> {<<>>}
      [] s.reply = "byte" -> {<<"y">>, <<"n">>}
      [] s.reply = "date" -> {<<"y">>, <<"n">>, <<"y", "n", "#">>}
      [] s.reply = "text" -> {<<"y", "#">>, <<"n", "#">>}
      [] s.reply = "slew" -> {<<"y">>, <<"n", "n", "#">>}

\* A query is answered by what the mount has; outside :U2# a date it accepts is
\* answered by a text as well ("Updating Planetary Data").
Answer(s) ==
    {a \in Answers(s) :
        /\ s.does = "askCorr" => (Head(a) = "y") = mnt.corr
        /\ s.does = "askSouth" => (Head(a) = "n") = mnt.south
        /\ s.reply = "date" => (Len(a) = 1) = (Head(a) = "n" \/ mnt.prec = 2)}

\* What a command the mount accepts does to it.
Obey(s) ==
    CASE s.does \in {"status", "setHome"} -> [mnt EXCEPT !.ver = @ + 1]
      [] s.does \in {"halt", "stopAll"} ->
             [mnt EXCEPT !.ver = @ + 1, !.jog = [a \in Axis |-> FALSE]]
      [] s.does = "jogP"    -> [mnt EXCEPT !.ver = @ + 1, !.jog = [@ EXCEPT !["P"] = TRUE]]
      [] s.does = "jogS"    -> [mnt EXCEPT !.ver = @ + 1, !.jog = [@ EXCEPT !["S"] = TRUE]]
      [] s.does = "stopP"   -> [mnt EXCEPT !.ver = @ + 1, !.jog = [@ EXCEPT !["P"] = FALSE]]
      [] s.does = "stopS"   -> [mnt EXCEPT !.ver = @ + 1, !.jog = [@ EXCEPT !["S"] = FALSE]]
      [] s.does = "pulse"   -> [mnt EXCEPT !.pulse = IF @ < s.ticks THEN s.ticks ELSE @]
      [] s.does = "corrOn"  -> [mnt EXCEPT !.corr = TRUE]
      [] s.does = "corrOff" -> [mnt EXCEPT !.corr = FALSE]
      [] s.does \in {"south", "north"} ->
             [mnt EXCEPT !.south = (s.does = "south"), !.site = "told"]
      [] s.does \in {"gpsSouth", "gpsNorth"} ->
             [mnt EXCEPT !.south = (s.does = "gpsSouth"), !.site = IF @ = "told" THEN "gps" ELSE @]
      [] s.does = "askSouth" -> [mnt EXCEPT !.site = IF phase = "opening" THEN "told" ELSE @]
      [] s.does = "prec0"   -> [mnt EXCEPT !.prec = 0]
      [] s.does = "prec1"   -> [mnt EXCEPT !.prec = 1]
      [] s.does = "prec2"   -> [mnt EXCEPT !.prec = 2]
      [] s.does = "precNext" -> [mnt EXCEPT !.prec = IF @ = 2 THEN 0 ELSE @ + 1]
      [] OTHER              -> mnt

(***************************************************************************)
(* Calls.  todo is what is left of the script, sent that its first step    *)
(* has been written and waits for the answer; fix that a deferred restore  *)
(* is due; failed that the method returns an error.  seen is the version   *)
(* of the status the call was given (got), base the floor when it began,   *)
(* did the version its own commands led to.                                *)
(***************************************************************************)
Idle(n) == [on |-> FALSE, todo |-> <<>>, sent |-> FALSE, fix |-> FALSE, failed |-> FALSE,
            got |-> FALSE, seen |-> 0, base |-> 0, did |-> 0, left |-> n]

Begin(script, n) == [Idle(n) EXCEPT !.on = TRUE, !.todo = script, !.base = floor]

step(c) == Head(call[c].todo)
ready(c, op) == call[c].on /\ call[c].todo # <<>> /\ ~call[c].sent /\ step(c).op = op

\* What is left of the script after its first step went well, was refused or failed.
after(c, how) ==
    LET way == CASE how = "yes" -> step(c).yes [] how = "no" -> step(c).no [] OTHER -> step(c).err
        rest == CASE way = "go"   -> Tail(call[c].todo)
                  [] way = "skip" -> SubSeq(call[c].todo, 2 + step(c).skip, Len(call[c].todo))
                  [] OTHER        -> <<>>
    IN  [call[c] EXCEPT !.todo = rest, !.sent = FALSE, !.failed = @ \/ way = "stop"]

done(c) == call' = [call EXCEPT ![c] = after(c, "yes")]

Init ==
    /\ drv \in Drivers
    /\ phase = "opening"
    /\ conn = Nobody /\ mu = Nobody
    /\ line \in {Chars(j, 0) : j \in Junk[drv]} /\ late = <<>>
    /\ cache = [left |-> 0, v |-> 0]
    /\ mem = [moving |-> [a \in Axis |-> FALSE], pulse |-> 0, south |-> FALSE, parked |-> FALSE]
    /\ \E corr, south \in BOOLEAN, prec \in 0..2 :
          /\ drv # "tenmicron" => ~corr /\ ~south /\ prec = 2    \* the others look at none
          /\ mnt = [ver |-> 0, jog |-> [a \in Axis |-> FALSE], pulse |-> 0, corr |-> corr,
                    south |-> south, prec |-> prec, site |-> "untold"]
    /\ floor = 0 /\ user = mnt.corr /\ faults = 0 /\ loose = FALSE
    /\ \E c \in Commander, script \in Open[drv] :
          call = [d \in Client |->
                     IF d = c THEN [Idle(MaxCalls[d]) EXCEPT !.on = TRUE, !.todo = script]
                     ELSE Idle(MaxCalls[d])]

\* A client calls a method.
Start(c) ==
    /\ phase = "open" /\ ~call[c].on /\ call[c].left > 0
    /\ \E script \in (IF c \in Commander THEN Calls[drv] ELSE Polls[drv]) :
          call' = [call EXCEPT ![c] = Begin(script, call[c].left - 1)]
    /\ UNCHANGED <<drv, phase, conn, mu, line, late, cache, mem, mnt, floor, user, faults, loose>>

(***************************************************************************)
(* Conn: the write, and the answer under the same lock.                    *)
(***************************************************************************)

\* The deferred :SSC1#, whose error and verdict the code throws away.
restores(s) == s.does = "corrOn" /\ s.arg # "user"

\* The mount gets the command, obeys or refuses it, and answers; while an
\* earlier answer is under way this one comes after it.
deliver(c, delay) ==
    \E a \in Answer(step(c)) :
       LET s == step(c)
           accepted == a = <<>> \/ Head(a) = "y"
           now == IF accepted \/ s.does = "askSouth" THEN Obey(s) ELSE mnt
           bytes == Chars(a, mnt.ver)
       IN  /\ mnt' = now
           /\ IF delay \/ late # <<>>
              THEN late' = late \o bytes /\ UNCHANGED line
              ELSE line' = line \o bytes /\ UNCHANGED late
           /\ loose' = (loose \/ delay \/ (s.reply = "date" /\ Len(a) > 1))
           /\ user' = IF (accepted /\ s.arg = "user") \/ (~accepted /\ restores(s)) THEN now.corr ELSE user
           /\ call' = [call EXCEPT ![c] =
                 [IF s.op = "blind" THEN after(c, "yes") ELSE [call[c] EXCEPT !.sent = TRUE]
                   EXCEPT !.did = IF accepted /\ s.does \in {"status", "halt"} THEN now.ver ELSE @]]

write(c, op) ==
    /\ ready(c, op) /\ conn = Nobody
    /\ \/ deliver(c, FALSE) /\ UNCHANGED faults
       \/ op # "blind" /\ faults < MaxFaults /\ faults' = faults + 1 /\ deliver(c, TRUE)
    /\ conn' = IF op = "blind" THEN Nobody ELSE c
    /\ UNCHANGED <<drv, phase, mu, cache, mem, floor>>

\* The transport refuses the write: nothing reaches the mount, and nothing
\* that was printed before is read.
writeFails(c) ==
    /\ \E op \in Wire : ready(c, op)
    /\ conn = Nobody /\ faults < MaxFaults /\ faults' = faults + 1
    /\ call' = [call EXCEPT ![c] = after(c, "err")]
    /\ user' = IF restores(step(c)) THEN mnt.corr ELSE user
    /\ loose' = (loose \/ line # <<>>)
    /\ UNCHANGED <<drv, phase, conn, mu, line, late, cache, mem, mnt, floor>>

Blind(c) == write(c, "blind")
Ack(c)   == write(c, "ack")
AckByte(c) == write(c, "byte")
Get(c)   == write(c, "get")
Slew(c)  == write(c, "slew")

waits(c) == call[c].on /\ call[c].todo # <<>> /\ call[c].sent

\* The first terminator on the line, and whether there is one from i on.
closed(i) == \E k \in i..Len(line) : line[k].c = "#"
firstHash(i) == CHOOSE k \in i..Len(line) :
                   line[k].c = "#" /\ \A h \in i..(k - 1) : line[h].c # "#"

\* readByte: the next character, whatever it is.
readByte(c) ==
    /\ waits(c) /\ step(c).op \in {"ack", "byte"} /\ line # <<>>
    /\ call' = [call EXCEPT ![c] = after(c, IF Head(line).c = "y" THEN "yes" ELSE "no")]
    /\ line' = Tail(line) /\ conn' = Nobody
    /\ UNCHANGED <<drv, phase, mu, late, cache, mem, mnt, floor, user, faults, loose>>

\* readUntil: everything up to the next terminator.
readUntil(c) ==
    /\ waits(c) /\ step(c).op = "get" /\ closed(1)
    /\ LET k == firstHash(1)
           v == IF line[k].v < call[c].seen THEN line[k].v ELSE call[c].seen
       IN  /\ call' = [call EXCEPT ![c] =
                 [after(c, IF k = 2 /\ line[1].c = "y" THEN "yes" ELSE "no")
                   EXCEPT !.seen = IF mu = c THEN v ELSE @]]
           /\ line' = SubSeq(line, k + 1, Len(line))
    /\ conn' = Nobody
    /\ UNCHANGED <<drv, phase, mu, late, cache, mem, mnt, floor, user, faults, loose>>

\* Mutant: the reason is not read.
readSlewDigit(c) ==
    /\ waits(c) /\ step(c).op = "slew" /\ line # <<>>
    /\ call' = [call EXCEPT ![c] = after(c, IF Head(line).c = "y" THEN "yes" ELSE "no")]
    /\ line' = Tail(line) /\ conn' = Nobody
    /\ UNCHANGED <<drv, phase, mu, late, cache, mem, mnt, floor, user, faults, loose>>

\* Slew: a digit, and after any but '0' the reason.
readSlew(c) ==
    /\ waits(c) /\ step(c).op = "slew" /\ line # <<>>
    /\ \/ /\ Head(line).c = "y"
          /\ line' = Tail(line)
          /\ call' = [call EXCEPT ![c] = after(c, "yes")]
       \/ /\ Head(line).c # "y" /\ closed(2)
          /\ line' = SubSeq(line, firstHash(2) + 1, Len(line))
          /\ call' = [call EXCEPT ![c] = after(c, "no")]
    /\ conn' = Nobody
    /\ UNCHANGED <<drv, phase, mu, late, cache, mem, mnt, floor, user, faults, loose>>

\* What the reader waits for is not on the line.
starved(c) ==
    /\ waits(c)
    /\ CASE step(c).op \in {"ack", "byte"} -> line = <<>>
         [] step(c).op = "get"  -> ~closed(1)
         [] OTHER -> line # <<>> => Head(line).c # "y" /\ ~closed(2)

\* Mutant: the error path of a read keeps Conn.mu.
timeoutKeeps(c) ==
    /\ starved(c)
    /\ call' = [call EXCEPT ![c] = after(c, "err")]
    /\ line' = <<>>
    /\ UNCHANGED <<drv, phase, conn, mu, late, cache, mem, mnt, floor, user, faults, loose>>

\* ErrTimeout: what was read of the answer is thrown away.
timeout(c) ==
    /\ starved(c)
    /\ call' = [call EXCEPT ![c] = after(c, "err")]
    /\ line' = <<>> /\ conn' = Nobody
    /\ UNCHANGED <<drv, phase, mu, late, cache, mem, mnt, floor, user, faults, loose>>

\* The answers under way arrive.
arrive ==
    /\ late # <<>> /\ line' = line \o late /\ late' = <<>>
    /\ UNCHANGED <<drv, phase, conn, mu, call, cache, mem, mnt, floor, user, faults, loose>>

(***************************************************************************)
(* Mount.mu: the status cache and the rest of what the driver remembers.   *)
(***************************************************************************)

\* status(): the cache while it is good, or the queries with the lock held.
status(c) ==
    /\ ready(c, "status") /\ mu = Nobody
    /\ \/ /\ cache.left > 0
          /\ call' = [call EXCEPT ![c] = [after(c, "yes") EXCEPT !.got = TRUE, !.seen = cache.v]]
          /\ UNCHANGED mu
       \/ /\ cache.left = 0
          /\ call' = [call EXCEPT ![c].todo = Fetch[drv] \o Tail(call[c].todo), ![c].seen = mnt.ver]
          /\ mu' = c
    /\ UNCHANGED <<drv, phase, conn, line, late, cache, mem, mnt, floor, user, faults, loose>>

\* The end of status(): the answers are stored and the lock is released.
store(c) ==
    /\ ready(c, "store") /\ mu = c
    /\ cache' = [left |-> TTL, v |-> call[c].seen]
    /\ call' = [call EXCEPT ![c] = [after(c, "yes") EXCEPT !.got = TRUE]]
    /\ mu' = Nobody
    /\ UNCHANGED <<drv, phase, conn, line, late, mem, mnt, floor, user, faults, loose>>

\* Mutant: the cache is cleared without waiting for a read in progress.
invalidateUnlocked(c) ==
    /\ ready(c, "invalidate")
    /\ cache' = [cache EXCEPT !.left = 0]
    /\ done(c)
    /\ UNCHANGED <<drv, phase, conn, mu, line, late, mem, mnt, floor, user, faults, loose>>

invalidate(c) ==
    /\ ready(c, "invalidate") /\ mu = Nobody
    /\ cache' = [cache EXCEPT !.left = 0]
    /\ done(c)
    /\ UNCHANGED <<drv, phase, conn, mu, line, late, mem, mnt, floor, user, faults, loose>>

remember(c, op, now) ==
    /\ ready(c, op) /\ mu = Nobody
    /\ mem' = now
    /\ done(c)
    /\ UNCHANGED <<drv, phase, conn, mu, line, late, cache, mnt, floor, user, faults, loose>>

\* Mutant: the move is recorded for the other axis.
setMovingOther(c) ==
    /\ ready(c, "setMoving")
    /\ remember(c, "setMoving", [mem EXCEPT !.moving[IF step(c).arg = "P" THEN "S" ELSE "P"] = TRUE])

setMoving(c) == ready(c, "setMoving") /\ remember(c, "setMoving", [mem EXCEPT !.moving[step(c).arg] = TRUE])
stopMoving(c) == ready(c, "stopMoving") /\ remember(c, "stopMoving", [mem EXCEPT !.moving[step(c).arg] = FALSE])
clearMoving(c) == remember(c, "clearMoving", [mem EXCEPT !.moving = [a \in Axis |-> FALSE]])

\* Mutant: a northern latitude is not recorded.
setSouthOnly(c) ==
    /\ ready(c, "setSouth")
    /\ remember(c, "setSouth", [mem EXCEPT !.south = @ \/ step(c).arg = "south"])

setSouth(c) == ready(c, "setSouth") /\ remember(c, "setSouth", [mem EXCEPT !.south = step(c).arg = "south"])
setParked(c) == ready(c, "setParked") /\ remember(c, "setParked", [mem EXCEPT !.parked = step(c).arg = "parked"])

\* Mutant: the end of the pulse is assigned.
setPulsePlain(c) ==
    /\ ready(c, "setPulse")
    /\ remember(c, "setPulse", [mem EXCEPT !.pulse = step(c).ticks])

\* Mutant: pulses add up.
setPulseSum(c) ==
    /\ ready(c, "setPulse")
    /\ remember(c, "setPulse", [mem EXCEPT !.pulse = @ + step(c).ticks])

\* pulseUntil moves only forward.
setPulse(c) ==
    /\ ready(c, "setPulse")
    /\ remember(c, "setPulse", [mem EXCEPT !.pulse = IF @ < step(c).ticks THEN step(c).ticks ELSE @])

\* manuallyMoving(): a move in progress answers without a query.
askMoving(c) ==
    /\ ready(c, "askMoving") /\ mu = Nobody
    /\ call' = [call EXCEPT ![c] = IF \E a \in Axis : mem.moving[a]
                                   THEN [after(c, "yes") EXCEPT !.todo = <<>>]
                                   ELSE after(c, "yes")]
    /\ UNCHANGED <<drv, phase, conn, mu, line, late, cache, mem, mnt, floor, user, faults, loose>>

\* An early return that depends on the arguments or on what an answer says.
check(c) ==
    /\ ready(c, "check")
    /\ \E ok \in BOOLEAN : call' = [call EXCEPT ![c] = after(c, IF ok THEN "yes" ELSE "no")]
    /\ UNCHANGED <<drv, phase, conn, mu, line, late, cache, mem, mnt, floor, user, faults, loose>>

\* defer: the speed correction is turned on again when the method returns.
defer(c) ==
    /\ ready(c, "restore")
    /\ call' = [call EXCEPT ![c] = [after(c, "yes") EXCEPT !.fix = TRUE]]
    /\ UNCHANGED <<drv, phase, conn, mu, line, late, cache, mem, mnt, floor, user, faults, loose>>

(***************************************************************************)
(* The return of a method, with the unlock of Mount.mu and the restore     *)
(* that are deferred to it.                                                *)
(***************************************************************************)
SpeedCorrectionOn ==
    [op |-> "ack", reply |-> "byte", does |-> "corrOn", arg |-> "-", ticks |-> 0,
     yes |-> "go", no |-> "go", err |-> "go", skip |-> 0]

\* Mutant: no unlock is deferred, so that a status() that fails keeps Mount.mu.
returnLocked(c) ==
    /\ call[c].on /\ call[c].todo = <<>>
    /\ IF call[c].fix
       THEN /\ call' = [call EXCEPT ![c].todo = <<SpeedCorrectionOn>>, ![c].fix = FALSE]
            /\ UNCHANGED <<phase, floor>>
       ELSE /\ call' = [call EXCEPT ![c] = Idle(call[c].left)]
            /\ phase' = IF phase # "opening" THEN phase ELSE IF call[c].failed THEN "closed" ELSE "open"
            /\ floor' = IF ~call[c].failed /\ call[c].did > floor THEN call[c].did ELSE floor
    /\ UNCHANGED <<drv, conn, mu, line, late, cache, mem, mnt, user, faults, loose>>

\* Mutant: the restore is not deferred, only a move that went well is followed by it.
returnUnrestored(c) ==
    /\ call[c].on /\ call[c].todo = <<>>
    /\ mu' = IF mu = c THEN Nobody ELSE mu
    /\ IF call[c].fix /\ ~call[c].failed
       THEN /\ call' = [call EXCEPT ![c].todo = <<SpeedCorrectionOn>>, ![c].fix = FALSE]
            /\ UNCHANGED <<phase, floor>>
       ELSE /\ call' = [call EXCEPT ![c] = Idle(call[c].left)]
            /\ phase' = IF phase # "opening" THEN phase ELSE IF call[c].failed THEN "closed" ELSE "open"
            /\ floor' = IF ~call[c].failed /\ call[c].did > floor THEN call[c].did ELSE floor
    /\ UNCHANGED <<drv, conn, line, late, cache, mem, mnt, user, faults, loose>>

return(c) ==
    /\ call[c].on /\ call[c].todo = <<>>
    /\ mu' = IF mu = c THEN Nobody ELSE mu
    /\ IF call[c].fix
       THEN /\ call' = [call EXCEPT ![c].todo = <<SpeedCorrectionOn>>, ![c].fix = FALSE]
            /\ UNCHANGED <<phase, floor>>
       ELSE /\ call' = [call EXCEPT ![c] = Idle(call[c].left)]
            /\ phase' = IF phase # "opening" THEN phase ELSE IF call[c].failed THEN "closed" ELSE "open"
            /\ floor' = IF ~call[c].failed /\ call[c].did > floor THEN call[c].did ELSE floor
    /\ UNCHANGED <<drv, conn, line, late, cache, mem, mnt, user, faults, loose>>

\* Time passes: the cache ages, guide pulses run out.
tick ==
    /\ cache.left > 0 \/ mem.pulse > 0 \/ mnt.pulse > 0
    /\ cache' = [cache EXCEPT !.left = IF @ > 0 THEN @ - 1 ELSE 0]
    /\ mem' = [mem EXCEPT !.pulse = IF @ > 0 THEN @ - 1 ELSE 0]
    /\ mnt' = [mnt EXCEPT !.pulse = IF @ > 0 THEN @ - 1 ELSE 0]
    /\ UNCHANGED <<drv, phase, conn, mu, line, late, call, floor, user, faults, loose>>

\* Steps of a client that do not wait for anybody but the holder of a lock.
Act(c) ==
    \/ Blind(c) \/ Ack(c) \/ AckByte(c) \/ Get(c) \/ Slew(c) \/ writeFails(c)
    \/ readByte(c) \/ readUntil(c) \/ readSlew(c) \/ timeout(c)
    \/ status(c) \/ store(c) \/ invalidate(c)
    \/ setMoving(c) \/ stopMoving(c) \/ clearMoving(c) \/ askMoving(c)
    \/ setPulse(c) \/ setSouth(c) \/ setParked(c)
    \/ check(c) \/ defer(c) \/ return(c)

Next == (\E c \in Client : Start(c) \/ Act(c)) \/ arrive \/ tick

Spec == Init /\ [][Next]_vars /\ \A c \in Client : SF_vars(Act(c))

(***************************************************************************)
(* Properties.                                                             *)
(***************************************************************************)
CallType ==
    [on : BOOLEAN, todo : Seq(StepType), sent : BOOLEAN, fix : BOOLEAN, failed : BOOLEAN,
     got : BOOLEAN, seen : Nat, base : Nat, did : Nat, left : Nat]

\* The types of the state: in particular what is left of a script is a script,
\* whatever the driver skipped, fetched or deferred.
TypeOK ==
    /\ drv \in Drivers /\ phase \in {"opening", "open", "closed"}
    /\ conn \in Client \cup {Nobody} /\ mu \in Client \cup {Nobody}
    /\ line \in Seq(Char) /\ late \in Seq(Char)
    /\ call \in [Client -> CallType]
    /\ cache \in [left : 0..TTL, v : Nat]
    /\ mem \in [moving : [Axis -> BOOLEAN], pulse : 0..MaxPulse, south : BOOLEAN, parked : BOOLEAN]
    /\ mnt \in [ver : Nat, jog : [Axis -> BOOLEAN], pulse : 0..MaxPulse, corr : BOOLEAN, south : BOOLEAN,
                prec : 0..2, site : {"untold", "told", "gps"}]
    /\ floor \in Nat /\ user \in BOOLEAN /\ faults \in 0..MaxFaults /\ loose \in BOOLEAN

quiet == phase = "open" /\ \A c \in Commander : ~call[c].on

\* The stream can be trusted: no answer came late, SetDate was not used after
\* the precision selectors had left :U2#, the mode it relies on, and no write
\* failed with a line of the start-up still to be read.
Sound == ~loose

\* As long as the stream can be trusted, no method waits for an answer that
\* the mount does not give, and none leaves a part of its answer on the line
\* for the next one to read, whatever writes fail: each method uses the
\* primitive (Blind, Ack, AckByte, Get, Slew) that fits what its command is
\* answered with, and Connect sets the mode in which :SC# is answered so.
InStep ==
    Sound /\ phase = "open" =>
        /\ \A c \in Client : ~starved(c)
        /\ conn = Nobody => line = <<>>

\* A status given to a call is never older than a goto, sync, park, home,
\* tracking or mode command that had returned when the call began: these
\* commands invalidate the cache after they are sent, and status() keeps
\* Mount.mu while it reads.  Halt, SetHome and the moves by hand are not
\* counted: those of the AM and OnStep drivers do not invalidate.
FreshAfterCommand ==
    Sound => \A c \in Client : call[c].got => call[c].seen >= call[c].base

\* While no command is under way, an axis that moves by MoveAxis or
\* MoveAxisRate is known to move, so that Slewing reports it.
JogSeen ==
    quiet /\ drv = "tenmicron" => \A a \in Axis : mnt.jog[a] => mem.moving[a]

\* While no command is under way IsPulseGuiding covers the pulses the mount is
\* carrying out.
PulseCovered ==
    quiet /\ drv = "tenmicron" => mnt.pulse <= mem.pulse

\* While no command is under way, the hemisphere the pier side is corrected for
\* is the one that Connect read or SetSiteLatitude set last.  (Not one that the
\* mount took from its GPS since: UpdateFromGPS leaves southern as it was.)
HemisphereKept ==
    quiet /\ drv = "tenmicron" /\ Sound /\ mnt.site = "told" => mem.south = mnt.south

\* MoveAxisRate turns the speed correction off for the move only: once the
\* call has returned it is as its user set it, even when the commands of the
\* move could not be written.  (What a restore that is itself refused or not
\* written leaves, user takes over: the code throws its error away.)
CorrectionRestored ==
    quiet /\ Sound => mnt.corr = user

\* No lock is lost and no two calls wait for each other: whoever holds Conn.mu
\* is reading an answer, and whoever holds Mount.mu is inside status() and has
\* nothing left to do there that needs Mount.mu again.
LocksPass ==
    /\ conn # Nobody => waits(conn)
    /\ mu # Nobody => /\ call[mu].on
                      /\ call[mu].todo # <<>> => step(mu).op \in Wire \cup {"check", "store"}

\* Every call returns, whatever the transport does.
CallsEnd == \A c \in Client : call[c].on ~> ~call[c].on
=============================================================================
