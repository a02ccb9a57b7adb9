----------------------------- MODULE TenMicron -----------------------------
(***************************************************************************)
(* The methods of tenmicron.Mount as scripts of Steps, one definition per  *)
(* file of the package or per part of a long one.  A command is named by   *)
(* the text the code sends, without its arguments; what a getter makes of  *)
(* the text it gets is left out.                                           *)
(***************************************************************************)
EXTENDS Naturals, Sequences

CONSTANT MaxPulse

\* The mount: what it answers and does.
Silent == {":U0#", ":U1#", ":U2#", ":U#", ":Q#", ":Mn#", ":Ms#", ":Me#", ":Mw#", ":Qn#", ":Qs#",
           ":Qe#", ":Qw#", ":Mg#", ":RG#", ":RC#", ":RM#", ":RS#", ":RA#", ":RE#", ":hP#", ":PO#",
           ":hF#", ":hS#", ":STOP#", ":P#", ":STOPPH#", ":USERWAIT#", ":USEROK#", ":EW#", ":NS#",
           ":SDT#", ":SDR#", ":SDU#", ":SDXM#", ":SDYM#", ":SDZM#", ":SDX#", ":SDY#", ":SDAr#",
           ":FocSq#", ":F+#", ":F-#", ":FF#", ":FS#", ":FQ#", ":F#", ":RotSq#", ":startlog#",
           ":stoplog#", ":p#", ":pP#", ":pR#", ":pRa#", ":pRz#", ":Rc#", ":Rs#", ":Rg#", ":Sge#",
           ":Suaf#", ":EMULX#", ":EMUAP#", ":AL#", ":AP#", ":RT#", ":TM#", ":T+#", ":T-#"}
Bare == {":Sr#", ":Sd#", ":Sa#", ":Sz#", ":SaXa#", ":SaXb#", ":PyX#", ":Bd#", ":Br#", ":SRPRS#",
         ":SRTMP#", ":SREF#", ":GREF#", ":SSC0#", ":SSC1#", ":GSC#", ":GTMPLT#", ":STMPOH#",
         ":STMPTH#", ":WSS#", ":FocSuF#", ":FocSS#", ":FocSms#", ":FocSZ#", ":FocHS#", ":FocSs#",
         ":h?#", ":SWOL#", ":Sw#", ":RMs#", ":Gge#", ":GRLY#", ":SRLY#", ":RotS#", ":RotSms#",
         ":RotSof#", ":RotHS#", ":St+#", ":St-#", ":Sg#", ":Sev#", ":SUDT#", ":SLDT#", ":SJD#",
         ":SG#", ":SL#", ":GTTRK#", ":Sstm#", ":SDstm#", ":Sh#", ":So#", ":SMF#", ":Slmt#",
         ":Slms#", ":Guaf#", ":FLIP#", ":GTsid#", ":shutdown#", ":SB#", ":SAPO#", ":Sdat#",
         ":Gdat#", ":RR#", ":RD#", ":T#", ":ST#", ":GTRK#"}
Dated == {":SC#"}    \* one character in the :U2# mode, else also a text with '#'
Goes == {":MS#", ":MSnf#", ":MSfs#", ":MA#", ":MaX#", ":NUDGE#", ":MSap#", ":MSao#"}

Does(c) ==
    CASE c \in Goes -> "status"
      [] c \in {":CM#", ":CMR#", ":CMS#", ":PsX#", ":PaX#", ":PiP#", ":PO#", ":hP#", ":hF#", ":hS#",
                ":USERWAIT#", ":USEROK#", ":FLIP#", ":AL#", ":AP#", ":RT#", ":TM#", ":ST#", ":TLES#",
                ":endalig#", ":delalig#", ":delalst#", ":modelld0#"} -> "status"
      [] c \in {":Q#", ":STOP#"} -> "halt"
      [] c \in {":Me#", ":Mw#"} -> "jogP"
      [] c \in {":Mn#", ":Ms#"} -> "jogS"
      [] c \in {":Qe#", ":Qw#"} -> "stopP"
      [] c \in {":Qn#", ":Qs#"} -> "stopS"
      [] c = ":Mg#"   -> "pulse"
      [] c = ":SSC1#" -> "corrOn"
      [] c = ":SSC0#" -> "corrOff"
      [] c = ":GSC#"  -> "askCorr"
      [] c = ":St-#"  -> "south"
      [] c = ":St+#"  -> "north"
      [] c = ":Gt#"   -> "askSouth"
      [] c = ":gT-#"  -> "gpsSouth"
      [] c = ":gT+#"  -> "gpsNorth"
      [] c = ":U0#"   -> "prec0"
      [] c = ":U1#"   -> "prec1"
      [] c = ":U2#"   -> "prec2"
      [] c = ":U#"    -> "precNext"
      [] OTHER -> "nothing"

INSTANCE Steps

(***************************************************************************)
(* tenmicron.go                                                            *)
(***************************************************************************)

\* Connect: a firmware that is too old ends it; no latitude leaves "northern".
Opening ==
    {<<Blind(":U2#"), Try(Get(":GVN#")), Check, Try(Get(":GVP#")),
       [IfNo(Get(":Gt#"), 1) EXCEPT !.err = "skip"], SetSouth("south")>>}

\* status(): one query, and a reply that must parse.
Fetching == <<Any(Get(":Ginfo#")), Check, Store>>

\* Refresh.
Refresh == <<Invalidate, ReadStatus>>

\* Slewing, and the getters that are status() alone.
Slewing == <<AskMoving, ReadStatus>>
Getters == {Slewing, <<ReadStatus>>}

\* SlewToTarget, SlewToTargetFineLimit, SyncToTarget.
Gotos == Moves({":MSnf#", ":MS#"}) \cup {<<Any(Get(":CM#")), Invalidate>>}

\* Halt.
Halt == <<Blind(":Q#"), ClearMoving, Invalidate>>

\* MoveAxis and StopAxis on one axis.
MoveAxis(a) == <<Blind(":RC#"), Blind(IF a = "P" THEN ":Me#" ELSE ":Mn#"), SetMoving(a), Invalidate>>
StopAxis(a) ==
    IF a = "P" THEN <<Blind(":Qe#"), Blind(":Qw#"), StopMoving(a), Invalidate>>
               ELSE <<Blind(":Qn#"), Blind(":Qs#"), StopMoving(a), Invalidate>>

\* MoveAxisRate: on the primary axis the speed correction, when it is on, is
\* turned off and a deferred call turns it on again.
MoveAxisRate(a) ==
    IF a = "P"
    THEN <<Check, IfYes(AckByte(":GSC#"), 2), Any(Ack(":SSC0#")), Restore,
           Blind(":RA#"), Blind(":Me#"), SetMoving(a), Invalidate>>
    ELSE <<Check, Blind(":RE#"), Blind(":Mn#"), SetMoving(a), Invalidate>>

\* What Mount takes over from lx200.Conn; Move and HaltMove are there too, but
\* they leave the moving flags alone and are not counted as MoveAxis.
Core == Queries({":GS#", ":GVN#"})
   \cup Blinds({":RG#", ":RC#", ":RM#", ":RS#", ":Qe#", ":Qn#"})

(***************************************************************************)
(* The other files.                                                        *)
(***************************************************************************)
Alarms == Queries({":alarmlistact#", ":alarmlistunack#"}) \cup Guarded(Queries({":alarmlack#"}))

AltAz == Acks({":Sa#", ":Sz#"})
    \cup {<<Ack(":Sa#"), Ack(":Sz#"), Slew(":MA#"), Invalidate>>,
          <<Ack(":Sa#"), Ack(":Sz#"), Any(Get(":CM#")), Invalidate>>}
    \cup Queries({":Gr#", ":Gd#", ":Ga#", ":Gz#"})

\* Park: the saved position, or the keypad's when the mount has none.
Park == {<<IfNo(Get(":PsX#"), 2), Check, Blind(":hP#"), Invalidate>>}

Axes == Orders({":hP#", ":PO#"})
   \cup Queries({":GaXa#", ":GaXb#", ":QaXa#", ":QaXb#"})
   \cup Acks({":SaXa#", ":SaXb#"})
   \cup Moves({":MaX#"})
   \cup Changes({":PaX#", ":PiP#", ":PsX#"})
   \cup {<<Ack(":SaXa#"), Ack(":SaXb#"), Slew(":MaX#"), Invalidate>>,
         <<Get(":GaXb#"), Ack(":SaXa#"), Ack(":SaXb#"), Slew(":MaX#"), Invalidate>>,
         <<AckByte(":PyX#"), Invalidate>>}

Backlash == Acks({":Bd#", ":Br#"})

Coords == Acks({":Sr#", ":Sd#"})

Dither == Queries({":SditS#", ":SditQ#", ":SditN#", ":GditS#", ":SditM#", ":GditP#"})
     \cup Guarded(Queries({":SditT#"}))

Dome == Queries({":GDA#", ":GDF#", ":GDS#", ":GDH#", ":GDW#", ":GDw#", ":GDstm#", ":SDF#", ":SDS#",
                 ":SDH#", ":SDM#"})
   \cup Guarded(Acks({":SDstm#"}) \cup Queries({":SDA#"}))
   \cup Blinds({":SDT#", ":SDR#", ":SDU#", ":SDAr#"})
   \cup {<<Blind(":SDXM#"), Blind(":SDYM#"), Blind(":SDZM#")>>, <<Blind(":SDX#"), Blind(":SDY#")>>}

\* SetSpeedCorrection, called by the user of the driver.
UserCorrection == {<<ByUser(Ack(":SSC0#"))>>, <<ByUser(Ack(":SSC1#"))>>}
Environment == {<<Ack(":SRPRS#"), Ack(":SRTMP#")>>, <<Get(":GRPRS#"), Get(":GRTMP#")>>}
   \cup Acks({":SRPRS#", ":SRTMP#", ":SREF#"})
   \cup UserCorrection
   \cup Bytes({":GREF#", ":GSC#"})
   \cup Queries({":GTMP#"})

Weather == Bytes({":GTMPLT#"})
      \cup Guarded(Queries({":GTMPOH#", ":GTMPTH#"}) \cup Acks({":STMPOH#", ":STMPTH#"}))
      \cup Queries({":WSP#", ":WST#", ":WSH#", ":WSD#", ":WSG#"})
      \cup Acks({":WSS#"})

FinalApproach == Queries({":GFAtc#", ":GFAlm#", ":GFAmd#", ":SFAmd#"})
            \cup Guarded(Queries({":SFAlm#", ":SFAtc#"}))

Focuser == Queries({":FocQmax#", ":FocQ#", ":FocI#", ":FocGuF#", ":FocGuf#", ":FocD#", ":Focd#",
                    ":FocT#", ":FocGms#", ":FocGmsr#", ":FocGv#", ":FocGZ#", ":FocHG#"})
      \cup Acks({":FocSuF#", ":FocSS#", ":FocSms#", ":FocSZ#", ":FocHS#", ":FocSs#"})
      \cup Blinds({":FocSq#", ":F+#", ":F-#", ":FF#", ":FS#", ":FQ#", ":F#"})

\* HomeStatus: a bare digit, read as one byte.
HomeStatus == <<AckByte(":h?#")>>
Homing == Orders({":hF#", ":hS#"}) \cup {HomeStatus}

Misc == Queries({":GPA#", ":GPAS#", ":GPAZ#", ":GPASZ#", ":getlog#", ":evlog#"})
   \cup Blinds({":startlog#", ":stoplog#"})

Model == Queries({":newalig#", ":newalpt#", ":getalst#", ":getalstm#", ":getain#"})
    \cup Changes({":endalig#"})
    \cup {<<Any(Get(":delalig#")), Invalidate>>}
SavedModels == Queries({":getali#", ":getalp#", ":modelcnt#", ":modelnam#", ":modelsv0#", ":modeldel0#"})
          \cup Changes({":delalst#", ":modelld0#"})

Motion == Moves({":MSfs#", ":MSnf#", ":NUDGE#", ":MSap#", ":MSao#"})
     \cup {<<Any(Get(":CMR#")), Invalidate>>}
     \cup Changes({":CMS#"})
     \cup Blinds({":EW#", ":NS#", ":P#", ":STOPPH#"})
     \cup {<<Blind(":STOP#"), ClearMoving, Invalidate>>}
     \cup Orders({":USERWAIT#", ":USEROK#"})
     \cup Queries({":D#", ":pS#"})

Network == Queries({":GMAC#", ":GMACW#", ":SIP1#", ":SIP0#", ":SWRLC#", ":GWOL#", ":GWRSC#", ":GWRAP#",
                    ":SWRL1#", ":SWRL0#", ":NTGdisc#", ":NTSdisc#", ":NTGweb#", ":NTSweb#"})
      \cup Acks({":SWOL#"})

Pec == Blinds({":p#", ":pP#", ":pR#", ":pRa#", ":pRz#"})

\* PulseGuide: pulseUntil only ever moves forward.
PulseGuide(n) == <<Check, Lasting(Blind(":Mg#"), n), SetPulse(n)>>
Rates == Blinds({":RG#", ":RC#", ":RS#", ":Sge#"})
    \cup Guarded(Blinds({":Rc#", ":Rs#", ":Rg#"}))
    \cup Acks({":Sw#"})
    \cup Bytes({":RMs#", ":Gge#"})
    \cup Queries({":GMs#", ":GMsa#", ":GMsb#", ":Ggui#", ":Gpgc#"})
    \cup {PulseGuide(n) : n \in 1..MaxPulse}
    \cup {<<>>}

Relays == Bytes({":GRLY#"}) \cup Guarded(Acks({":SRLY#"}))

Rotator == Queries({":RotQ#", ":RotI#", ":RotG#", ":RotD#", ":Rotd#", ":RotGms#", ":RotGmsr#", ":RotGv#",
                    ":RotGof#", ":RotSmZ#", ":RotSeZ#", ":RotHG#"})
      \cup Acks({":RotS#", ":RotSms#", ":RotSof#", ":RotHS#"})
      \cup Blinds({":RotSq#"})

Satellites == Queries({":TLEL0#", ":TLEG#", ":TLEGEQ#", ":TLEGAZ#", ":TLEP#", ":TLESCK#"})
         \cup Changes({":TLES#"})
Trajectories == Queries({":TRNEW#", ":TRADD#", ":TRP#", ":TLEDN#", ":TLEDL#", ":TRREPLAY#", ":TROFFADD#",
                         ":TROFFSET#", ":TROFFGET#", ":TROFFCLR#"})

\* UpdateFromGPS, with a receiver south or north of the equator.
UpdateFromGPS == Queries({":gT-#", ":gT+#"})

\* SetSiteLatitude keeps the hemisphere current.
SetSiteLatitude == {<<Ack(":St-#"), SetSouth("south")>>, <<Ack(":St+#"), SetSouth("north")>>}
Site == SetSiteLatitude
   \cup Acks({":Sg#", ":Sev#", ":SUDT#", ":SLDT#", ":SJD#"})
   \cup Queries({":Gt#", ":Gg#", ":Gev#", ":GULEAP#", ":GDUTV#", ":GDGPS#", ":gtgpps#", ":GGPSRW#", ":SGPSRW#"})
Time == Guarded(Queries({":NUtim#"}))
   \cup Acks({":SG#", ":SC#", ":SL#"})
   \cup Queries({":GG#", ":GDUT#", ":GJD#", ":GUDT#", ":GLDT#", ":GC#", ":GL#", ":gps#", ":gtg#"})
   \cup UpdateFromGPS

Statuses == Queries({":Gstat#", ":Gmte#", ":Gstm#", ":Gh#", ":Go#", ":GMF#", ":Glmt#", ":Glms#"})
       \cup Bytes({":GTTRK#", ":Guaf#", ":GTsid#"})
       \cup Guarded(Acks({":Sstm#"}))
       \cup Acks({":Sh#", ":So#", ":SMF#", ":Slmt#", ":Slms#"})
       \cup Blinds({":Suaf#"})
       \cup {<<Ack(":FLIP#"), Invalidate>>}

System == Blinds({":U0#", ":U1#", ":U2#", ":U#", ":EMULX#", ":EMUAP#"})
     \cup Queries({":GVP#", ":GETID#", ":GVD#", ":GVT#", ":GVZ#", ":V#", ":GINQ#", ":GIP#", ":GIPW#",
                   ":GWAV#", ":GWID#", ":GWUP#"})
     \cup Acks({":shutdown#", ":SB#"})
Features == Queries({":GAPO#", ":GCFG#"}) \cup Acks({":SAPO#"})

Tracking == Orders({":AL#", ":AP#", ":RT#", ":TM#"})
       \cup Acks({":Sdat#", ":RR#", ":RD#"})
       \cup Bytes({":Gdat#", ":GTRK#"})
       \cup Guarded(Acks({":T#"}) \cup {<<Ack(":ST#"), Invalidate>>})
       \cup Blinds({":T+#", ":T-#"})
       \cup Queries({":GT#"})

Manual == {Halt, Refresh} \cup UNION {{MoveAxis(a), StopAxis(a), MoveAxisRate(a)} : a \in {"P", "S"}}

Families == Alarms \cup AltAz \cup Backlash \cup Coords \cup Dither \cup Dome \cup Environment \cup Weather
       \cup FinalApproach \cup Focuser \cup Misc \cup Model \cup SavedModels \cup Network \cup Pec
       \cup Relays \cup Rotator \cup Satellites \cup Trajectories \cup Time \cup Statuses \cup System \cup Features

Methods == Getters \cup Gotos \cup Manual \cup Core \cup Park \cup Axes \cup Homing \cup Motion
      \cup Rates \cup Site \cup Tracking \cup Families
=============================================================================
