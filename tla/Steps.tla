------------------------------- MODULE Steps -------------------------------
(***************************************************************************)
(* The vocabulary in which the methods of the drivers are written down: a  *)
(* method is the sequence of the commands it sends and of the changes it   *)
(* makes to what the driver remembers (a script).  Driver runs scripts.    *)
(*                                                                         *)
(* What a mount sends back is a fact about the mount, not about the        *)
(* driver: it is given by the four sets of commands below (any other       *)
(* command is answered with a text closed by '#'), and what a command does *)
(* to the mount by Does.  The primitive a method reads the answer with is  *)
(* the driver's choice.                                                    *)
(***************************************************************************)
EXTENDS Naturals, Sequences

CONSTANTS Silent,   \* commands the mount does not answer
          Bare,     \* commands answered by one character and no '#'
          Dated,    \* commands whose answer has a tail in some modes of the mount
          Goes,     \* commands answered '0', or a digit and a text with '#'
          Does(_)   \* what a command does to the mount

ReplyOf(c) == CASE c \in Silent -> "none"
                [] c \in Bare   -> "byte"
                [] c \in Dated  -> "date"
                [] c \in Goes   -> "slew"
                [] OTHER        -> "text"

(***************************************************************************)
(* A step.  yes, no and err say how the method goes on after an answer     *)
(* that accepts, an answer that refuses and no answer: "go" to the next    *)
(* step, "skip" the next skip steps, or "stop", the early return.          *)
(***************************************************************************)
Step(op, reply, does, arg) ==
    [op |-> op, reply |-> reply, does |-> does, arg |-> arg, ticks |-> 0,
     yes |-> "go", no |-> "stop", err |-> "stop", skip |-> 0]

\* The primitives of lx200.Conn.
Blind(c)   == Step("blind", ReplyOf(c), Does(c), "-")
Ack(c)     == Step("ack",   ReplyOf(c), Does(c), "-")
AckByte(c) == Step("byte",  ReplyOf(c), Does(c), "-")
Get(c)     == Step("get",   ReplyOf(c), Does(c), "-")
Slew(c)    == Step("slew",  ReplyOf(c), Does(c), "-")

\* An answer whose content is not looked at before the method goes on.
Any(s) == [s EXCEPT !.no = "go"]

\* A best-effort command: neither a refusal nor an error ends the method.
Try(s) == [s EXCEPT !.no = "go", !.err = "go"]

\* A setting its user makes, as opposed to one a method makes for a while.
ByUser(s) == [s EXCEPT !.arg = "user"]

\* A guide pulse of n ticks.
Lasting(s, n) == [s EXCEPT !.ticks = n]

\* The next n steps only after an answer that accepts.
IfYes(s, n) == [s EXCEPT !.no = "skip", !.err = "skip", !.skip = n]

\* The next n steps only after an answer that refuses.
IfNo(s, n) == [s EXCEPT !.yes = "skip", !.no = "go", !.skip = n]

(***************************************************************************)
(* Steps that send nothing.  Check is an early return that depends on the  *)
(* arguments or on the content of an answer; the others change what the    *)
(* driver remembers, under Mount.mu.                                       *)
(***************************************************************************)
Local(op, arg) == Step(op, "none", "nothing", arg)

Check        == Local("check", "-")
Invalidate   == Local("invalidate", "-")
ReadStatus   == Local("status", "-")
Store        == Local("store", "-")
SetMoving(a) == Local("setMoving", a)
StopMoving(a) == Local("stopMoving", a)
ClearMoving  == Local("clearMoving", "-")
AskMoving    == Local("askMoving", "-")
SetPulse(n)  == [Local("setPulse", "-") EXCEPT !.ticks = n]
SetSouth(h)  == Local("setSouth", h)    \* "south" or "north"
SetParked(p) == Local("setParked", p)   \* "parked" or "unparked"
Restore      == Local("restore", "-")

\* Families of methods that are one command, or one command and a refetch.
Blinds(S)  == {<<Blind(c)>> : c \in S}
Acks(S)    == {<<Ack(c)>> : c \in S}
Bytes(S)   == {<<AckByte(c)>> : c \in S}
Queries(S) == {<<Get(c)>> : c \in S}
Moves(S)   == {<<Slew(c), Invalidate>> : c \in S}
Orders(S)  == {<<Blind(c), Invalidate>> : c \in S}
Changes(S) == {<<Get(c), Invalidate>> : c \in S}

\* A method that checks its arguments before it sends anything.
Guarded(S) == {<<Check>> \o s : s \in S}
=============================================================================
