-------------------------------- MODULE Am5 --------------------------------
(***************************************************************************)
(* The methods of am5.Mount as scripts of Steps.  A command is named by    *)
(* the text the code sends, without its arguments.                         *)
(***************************************************************************)
EXTENDS Naturals, Sequences

(***************************************************************************)
(* The mount: what it answers and does.  Commands not listed are answered  *)
(* with a text.                                                            *)
(***************************************************************************)
Silent == {":Q#", ":Mn#", ":Ms#", ":Me#", ":Mw#", ":Qn#", ":Qs#", ":Qe#", ":Qw#", ":Mg#",
           ":TQ#", ":TL#", ":TS#", ":hC#", ":AP#", ":AA#", ":R#", ":Rg#", ":Rv#", ":SBu#", ":SRl#"}
Bare == {":Sr#", ":Sd#", ":Te#", ":Td#", ":SOa#", ":St#", ":Sg#", ":SG#", ":SC#", ":SL#",
         ":NSC#", ":STa#", ":SMGE#"}
Dated == {}
Goes == {":MS#"}

\* :Q# ends a goto as well, but Halt is Conn's and does not invalidate; nor does
\* SetHome (:SOa#), which makes the mount be at home.
Does(c) ==
    CASE c \in {":MS#", ":CM#", ":Te#", ":Td#", ":hC#", ":AP#", ":AA#"} -> "status"
      [] c = ":Q#" -> "stopAll"
      [] c = ":SOa#" -> "setHome"
      [] c \in {":Me#", ":Mw#"} -> "jogP"
      [] c \in {":Mn#", ":Ms#"} -> "jogS"
      [] c \in {":Qe#", ":Qw#"} -> "stopP"
      [] c \in {":Qn#", ":Qs#"} -> "stopS"
      [] OTHER -> "nothing"

INSTANCE Steps

\* Open and Dial send nothing.
Opening == {<<>>}

\* status(): two queries under one lock.
Fetching == <<Any(Get(":GU#")), Any(Get(":GAT#")), Store>>

\* Slewing, Tracking, AtHome, AtPark, PierSide and MountMode.
Getters == {<<ReadStatus>>, <<>>, <<ReadStatus, Check, Get(":Gm#")>>, <<ReadStatus, Check>>}

\* What Mount takes over from lx200.Conn.
Core == Queries({":GR#", ":GD#", ":GA#", ":GZ#", ":GS#"})
   \cup Acks({":Sr#", ":Sd#"})
   \cup Blinds({":Q#", ":Me#", ":Mn#", ":Qe#", ":Qn#", ":TQ#", ":TL#", ":TS#"})
   \cup {<<Blind(":Qe#"), Blind(":Qw#")>>, <<Blind(":Qn#"), Blind(":Qs#")>>}
   \cup Guarded(Blinds({":Mg#"}))

\* SetTracking, SlewToTarget, SyncToTarget, Park, Unpark, FindHome.
Motion == {<<Ack(c), Invalidate>> : c \in {":Te#", ":Td#"}}
     \cup Moves({":MS#"})
     \cup {<<Any(Get(":CM#")), Invalidate>>,
           <<Blind(":hC#"), SetParked("parked"), Invalidate>>,
           <<SetParked("unparked"), Invalidate>>}
     \cup Orders({":hC#"})

SetHome == <<Ack(":SOa#")>>

\* SetHome, the site, the clock, the rates, MoveAxis and the mount mode.
Settings == {SetHome} \cup Acks({":St#", ":Sg#"})
       \cup {<<>>, <<Ack(":SG#"), Ack(":SC#"), Ack(":SL#")>>}
       \cup Blinds({":R#"})
       \cup {<<Blind(":R#"), Blind(":Me#")>>, <<Blind(":R#"), Blind(":Mn#")>>}
       \cup Orders({":AP#", ":AA#"})

\* Guide rate, slew speed, buzzer, alignment and meridian flip.
Options == Blinds({":Rg#", ":Rv#", ":SBu#"})
      \cup Queries({":GVP#", ":GV#", ":Ggr#", ":GBu#", ":GTa#"})
      \cup Acks({":NSC#", ":STa#"})

\* MAC, site, clock, tracking rate and heavy-duty mode; Clock asks three times.
Readback == Queries({":GMA#", ":Gt#", ":Gg#", ":GG#", ":GC#", ":GL#", ":GT#", ":GRl#"})
       \cup Acks({":SMGE#", ":SL#"})
       \cup {<<Get(":GC#"), Get(":GL#"), Get(":GG#")>>}
       \cup Blinds({":SRl#"})

Methods == Core \cup Motion \cup Settings \cup Options \cup Readback \cup Getters
=============================================================================
