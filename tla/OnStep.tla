------------------------------- MODULE OnStep -------------------------------
(***************************************************************************)
(* The methods of onstep.Mount as scripts of Steps.                        *)
(***************************************************************************)
EXTENDS Naturals, Sequences

\* The controller: what it answers and does.
Silent == {":Q#", ":Mn#", ":Ms#", ":Me#", ":Mw#", ":Qn#", ":Qs#", ":Qe#", ":Qw#", ":Mg#",
           ":TQ#", ":TL#", ":TS#", ":hP#", ":hC#", ":hF#", ":R#"}
Bare == {":Sr#", ":Sd#", ":Te#", ":Td#", ":hR#", ":hQ#", ":St#", ":Sg#", ":Sev#",
         ":SG#", ":SC#", ":SL#", ":RA#", ":RE#"}
Dated == {}
Goes == {":MS#"}

\* :Q# ends a goto as well, but Halt is Conn's and does not invalidate; nor does
\* SetHome (:hF#), which makes the mount be at home.
Does(c) ==
    CASE c \in {":MS#", ":CM#", ":Te#", ":Td#", ":hP#", ":hR#", ":hC#"} -> "status"
      [] c = ":Q#" -> "stopAll"
      [] c = ":hF#" -> "setHome"
      [] c \in {":Me#", ":Mw#"} -> "jogP"
      [] c \in {":Mn#", ":Ms#"} -> "jogS"
      [] c \in {":Qe#", ":Qw#"} -> "stopP"
      [] c \in {":Qn#", ":Qs#"} -> "stopS"
      [] OTHER -> "nothing"

INSTANCE Steps

\* newMount: two pokes swallow what the controller prints when it starts.
Opening == {<<Try(Get(":GVP#")), Try(Get(":GVP#"))>>}

Fetching == <<Any(Get(":GU#")), Store>>

\* Slewing, Tracking, AtPark, AtHome and PierSide.
Getters == {<<ReadStatus>>, <<ReadStatus, Check, Get(":Gm#")>>}

\* What Mount takes over from lx200.Conn.
Core == Queries({":GR#", ":GD#", ":GA#", ":GZ#", ":GS#", ":GVN#"})
   \cup Acks({":Sr#", ":Sd#"})
   \cup Blinds({":Q#", ":Me#", ":Mn#", ":Qe#", ":Qn#", ":TQ#", ":TL#", ":TS#"})
   \cup {<<Blind(":Qe#"), Blind(":Qw#")>>, <<Blind(":Qn#"), Blind(":Qs#")>>}
   \cup Guarded(Blinds({":Mg#"}))

\* SetTracking, SlewToTarget, SyncToTarget, Park, Unpark, FindHome.
Motion == {<<AckByte(c), Invalidate>> : c \in {":Te#", ":Td#", ":hR#"}}
     \cup Moves({":MS#"})
     \cup {<<Any(Get(":CM#")), Invalidate>>}
     \cup Orders({":hP#", ":hC#"})

SetHome == <<Blind(":hF#")>>

\* Site, clock, rates, MoveAxis, home and park positions, custom rates.
Settings == Acks({":St#", ":Sg#", ":Sev#"})
       \cup {<<Ack(":SG#"), Ack(":SC#"), Ack(":SL#")>>}
       \cup {SetHome}
       \cup Blinds({":R#"})
       \cup {<<Blind(":R#"), Blind(":Me#")>>, <<Blind(":R#"), Blind(":Mn#")>>}
       \cup Queries({":GVP#", ":GXEM#"})
       \cup Bytes({":hQ#"})
       \cup {<<AckByte(":RA#"), AckByte(":RE#")>>}

Methods == Core \cup Motion \cup Settings \cup Getters
=============================================================================
