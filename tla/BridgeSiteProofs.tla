-------------------------- MODULE BridgeSiteProofs --------------------------
(***************************************************************************)
(* Proofs about BridgeSite, for any clients, requests and values: types,   *)
(* the agreement of the caches with the mount, and the read-only server.   *)
(***************************************************************************)
EXTENDS BridgeSite, TLAPS

ReqType == [f : {"lat", "lon"}, v : Opt, lat : Opt, lon : Opt, then : {"reply", "push"}]
PcType == {"idle", "push"} \cup SiteFill \cup SiteSet \cup OffFill \cup OffSet
TimeType == [SC : BOOLEAN, SL : BOOLEAN, SG : Opt]

(* What Filled asks of one handler. *)
FilledAt(p, r) ==
  /\ p \in {"readLon", "fillSite"} => r.lat \in Val
  /\ p = "fillSite" => r.lon \in Val
  /\ p \in {"writeSite", "keepSite", "fillOff", "writeOff", "keepOff"} => r.v \in Val

(* The constants of the model have the types of the variables they are assigned to. *)
LEMMA Constants ==
  /\ NoReq \in ReqType /\ NoTime \in TimeType
  /\ {"idle", "push", "readLat", "readLon", "fillSite", "writeSite", "keepSite",
      "readOff", "fillOff", "writeOff", "keepOff"} = PcType
  BY DEF NoReq, NoTime, ReqType, TimeType, PcType, Opt, SiteFill, SiteSet, OffFill, OffSet

(* Assignments to the fields of a handler's locals. *)
LEMMA Fields ==
  ASSUME NEW r \in ReqType, NEW v \in Opt
  PROVE  /\ [r EXCEPT !.lat = v] \in ReqType /\ [r EXCEPT !.lat = v].lat = v
         /\ [r EXCEPT !.lon = v] \in ReqType /\ [r EXCEPT !.lon = v].lon = v
         /\ [r EXCEPT !.lon = v].lat = r.lat
         /\ [r EXCEPT !.v = v] \in ReqType /\ [r EXCEPT !.v = v].v = v
         /\ [r EXCEPT !.then = "push"] \in ReqType /\ [r EXCEPT !.then = "push"].v = r.v
  BY DEF ReqType

(* A handler goes on at p with locals r. *)
LEMMA Moves ==
  ASSUME TypeOK, Filled, NEW c \in Client, NEW p \in PcType, NEW r \in ReqType,
         FilledAt(p, r), goto(c, p, r)
  PROVE  /\ pc' \in [Client -> PcType] /\ req' \in [Client -> ReqType]
         /\ raced' \in BOOLEAN
         /\ Filled'
         /\ pc'[c] = p /\ req'[c] = r
         /\ \A d \in Client \ {c} : pc'[d] = pc[d] /\ req'[d] = req[d]
  <1>1. pc \in [Client -> PcType] /\ req \in [Client -> ReqType] /\ raced \in BOOLEAN
    BY DEF TypeOK, PcType, ReqType
  <1>2. pc' \in [Client -> PcType] /\ pc'[c] = p /\ \A d \in Client \ {c} : pc'[d] = pc[d]
    BY <1>1 DEF goto
  <1>3. req' \in [Client -> ReqType] /\ req'[c] = r /\ \A d \in Client \ {c} : req'[d] = req[d]
    BY <1>1 DEF goto
  <1>4. raced' \in BOOLEAN
    BY <1>1, Zenon DEF goto
  <1>5. Filled'
    BY <1>2, <1>3 DEF Filled, FilledAt
  <1> QED BY <1>2, <1>3, <1>4, <1>5

(* The variables that the handlers' moves leave alone. *)
Rest ==
  /\ roSite \in ReadOnly
  /\ mnt \in [lat : Val, lon : Val, off : Val, clock : Opt]
  /\ cache \in [lat : Opt, lon : Opt, off : Opt] /\ (cache.lat = None <=> cache.lon = None)
  /\ st \in [Client -> TimeType] /\ bare \in [Client -> BOOLEAN]
  /\ refused \in BOOLEAN

(* TypeOK, apart. *)
LEMMA Split ==
  TypeOK <=> Rest /\ pc \in [Client -> PcType] /\ req \in [Client -> ReqType] /\ raced \in BOOLEAN
  BY Zenon DEF TypeOK, Rest, PcType, ReqType, TimeType

(* The step of a handler keeps the types. *)
LEMMA MoveTypes ==
  ASSUME TypeOK, Filled, NEW c \in Client, NEW p \in PcType, NEW r \in ReqType,
         FilledAt(p, r), goto(c, p, r), Rest'
  PROVE  TypeOK' /\ Filled'
  <1>1. /\ pc' \in [Client -> PcType] /\ req' \in [Client -> ReqType] /\ raced' \in BOOLEAN /\ Filled'
    BY Moves, Zenon
  <1>2. TypeOK'
    BY <1>1, Zenon DEF TypeOK, Rest, PcType, ReqType, TimeType
  <1> QED BY <1>1, <1>2

(* Replying at once keeps the types. *)
LEMMA ReplyTypes ==
  ASSUME TypeOK, Filled, NEW c \in Client, reply(c), Rest'
  PROVE  TypeOK' /\ Filled'
  <1>1. FilledAt("idle", NoReq) /\ "idle" \in PcType /\ NoReq \in ReqType
    BY Constants DEF FilledAt
  <1>2. goto(c, "idle", NoReq)
    BY DEF reply
  <1> QED BY <1>1, <1>2, MoveTypes

(* A handler that starts, or replies at once, keeps the types. *)
LEMMA EnterTypes ==
  ASSUME TypeOK, Filled, NEW c \in Client, NEW op, NEW p \in PcType, NEW r \in ReqType,
         FilledAt(p, r), enter(c, op, p, r), Rest'
  PROVE  TypeOK' /\ Filled'
  <1>1. CASE p = "idle"
    <2>1. reply(c)
      BY <1>1 DEF enter, reply
    <2> QED BY <2>1, ReplyTypes
  <1>2. CASE p # "idle"
    <2>1. goto(c, p, r)
      BY <1>2 DEF enter
    <2> QED BY <2>1, MoveTypes
  <1> QED BY <1>1, <1>2

(* handle keeps the types. *)
LEMMA handleTypes ==
  ASSUME TypeOK, Filled, NEW c \in Client, handle(c)
  PROVE  TypeOK' /\ Filled'
  <1>1. Rest /\ Rest'
    BY Split, Constants DEF handle, Rest
  <1>2. UNCHANGED <<pc, req, raced>>
    BY DEF handle
  <1> QED BY <1>1, <1>2 DEF TypeOK, Rest, Filled, TimeType

(* site keeps the types. *)
LEMMA siteTypes ==
  ASSUME TypeOK, Filled, NEW c \in Client, site(c)
  PROVE  TypeOK' /\ Filled'
  <1>0. Rest /\ pc[c] \in PcType /\ req[c] \in ReqType /\ st[c] \in TimeType
    BY Split DEF Rest
  <1>1. Rest'
    BY <1>0 DEF site, Rest
  <1> DEFINE p == IF cache.lat # None THEN "idle" ELSE "readLat"
  <1>2. p \in PcType /\ NoReq \in ReqType /\ FilledAt(p, NoReq)
    BY Constants DEF FilledAt
  <1>3. enter(c, "site", p, NoReq)
    BY DEF site
  <1> HIDE DEF p
  <1> QED BY <1>1, <1>2, <1>3, EnterTypes

(* offset keeps the types. *)
LEMMA offsetTypes ==
  ASSUME TypeOK, Filled, NEW c \in Client, offset(c)
  PROVE  TypeOK' /\ Filled'
  <1>0. Rest /\ pc[c] \in PcType /\ req[c] \in ReqType /\ st[c] \in TimeType
    BY Split DEF Rest
  <1>1. Rest'
    BY <1>0 DEF offset, Rest
  <1> DEFINE p == IF cache.off # None THEN "idle" ELSE "readOff"
  <1>2. p \in PcType /\ NoReq \in ReqType /\ FilledAt(p, NoReq)
    BY Constants DEF FilledAt
  <1>3. enter(c, "offset", p, NoReq)
    BY DEF offset
  <1> HIDE DEF p
  <1> QED BY <1>1, <1>2, <1>3, EnterTypes

(* readLat keeps the types. *)
LEMMA readLatTypes ==
  ASSUME TypeOK, Filled, NEW c \in Client, readLat(c)
  PROVE  TypeOK' /\ Filled'
  <1>0. Rest /\ pc[c] \in PcType /\ req[c] \in ReqType /\ st[c] \in TimeType
    BY Split DEF Rest
  <1>1. Rest'
    BY <1>0 DEF readLat, Rest
  <1>2. CASE goto(c, "readLon", [req[c] EXCEPT !.lat = mnt.lat])
    <2>1. mnt.lat \in Val /\ mnt.lat \in Opt
      BY <1>0 DEF Rest, Opt
    <2> DEFINE r == [req[c] EXCEPT !.lat = mnt.lat]
    <2>2. r \in ReqType /\ r.lat = mnt.lat
      BY <1>0, <2>1, Fields, Zenon
    <2>3. "readLon" \in PcType /\ goto(c, "readLon", r)
      BY <1>2, Constants
    <2> HIDE DEF r
    <2>4. FilledAt("readLon", r)
      BY <2>1, <2>2 DEF FilledAt
    <2> QED BY <1>1, <2>2, <2>3, <2>4, MoveTypes
  <1>3. CASE reply(c)
    BY <1>1, <1>3, ReplyTypes
  <1> QED BY <1>2, <1>3 DEF readLat

(* readLon keeps the types. *)
LEMMA readLonTypes ==
  ASSUME TypeOK, Filled, NEW c \in Client, readLon(c)
  PROVE  TypeOK' /\ Filled'
  <1>0. Rest /\ pc[c] \in PcType /\ req[c] \in ReqType /\ st[c] \in TimeType
    BY Split DEF Rest
  <1>1. Rest'
    BY <1>0 DEF readLon, Rest
  <1>2. CASE goto(c, "fillSite", [req[c] EXCEPT !.lon = mnt.lon])
    <2>1. mnt.lon \in Val /\ mnt.lon \in Opt /\ req[c].lat \in Val
      BY <1>0 DEF Rest, Opt, readLon, Filled
    <2> DEFINE r == [req[c] EXCEPT !.lon = mnt.lon]
    <2>2. r \in ReqType /\ r.lon = mnt.lon /\ r.lat = req[c].lat
      BY <1>0, <2>1, Fields, Zenon
    <2>3. "fillSite" \in PcType /\ goto(c, "fillSite", r)
      BY <1>2, Constants
    <2> HIDE DEF r
    <2>4. FilledAt("fillSite", r)
      BY <2>1, <2>2 DEF FilledAt
    <2> QED BY <1>1, <2>2, <2>3, <2>4, MoveTypes
  <1>3. CASE reply(c)
    BY <1>1, <1>3, ReplyTypes
  <1> QED BY <1>2, <1>3 DEF readLon

(* fillSite keeps the types. *)
LEMMA fillSiteTypes ==
  ASSUME TypeOK, Filled, NEW c \in Client, fillSite(c)
  PROVE  TypeOK' /\ Filled'
  <1>0. Rest /\ pc[c] \in PcType /\ req[c] \in ReqType /\ st[c] \in TimeType
    BY Split DEF Rest
  <1>1. req[c].lat \in Val /\ req[c].lon \in Val
    BY DEF fillSite, Filled
  <1>2. Rest'
    BY <1>0, <1>1, SiteAssumption DEF fillSite, Rest, Opt
  <1>3. reply(c)
    BY DEF fillSite
  <1> QED BY <1>2, <1>3, ReplyTypes

(* Using an offset, for the reply or for the clock, keeps the types. *)
LEMMA useOffsetTypes ==
  ASSUME TypeOK, Filled, NEW c \in Client, NEW v \in Opt, useOffset(c, v), Rest'
  PROVE  TypeOK' /\ Filled'
  <1>0. req[c] \in ReqType
    BY Split
  <1>1. CASE req[c].then = "reply"
    <2>1. reply(c)
      BY <1>1 DEF useOffset
    <2> QED BY <2>1, ReplyTypes
  <1>2. CASE req[c].then # "reply"
    <2> DEFINE r == [req[c] EXCEPT !.v = v]
    <2>1. r \in ReqType
      BY <1>0, Fields, Zenon
    <2>2. "push" \in PcType /\ goto(c, "push", r)
      BY <1>2, Constants DEF useOffset
    <2> HIDE DEF r
    <2>3. FilledAt("push", r)
      BY DEF FilledAt
    <2> QED BY <2>1, <2>2, <2>3, MoveTypes
  <1> QED BY <1>1, <1>2

(* readOff keeps the types. *)
LEMMA readOffTypes ==
  ASSUME TypeOK, Filled, NEW c \in Client, readOff(c)
  PROVE  TypeOK' /\ Filled'
  <1>0. Rest /\ pc[c] \in PcType /\ req[c] \in ReqType
    BY Split
  <1>1. Rest'
    BY <1>0 DEF readOff, Rest
  <1>2. CASE goto(c, "fillOff", [req[c] EXCEPT !.v = mnt.off])
    <2>1. mnt.off \in Val /\ mnt.off \in Opt
      BY <1>0 DEF Rest, Opt
    <2> DEFINE r == [req[c] EXCEPT !.v = mnt.off]
    <2>2. r \in ReqType /\ r.v = mnt.off
      BY <1>0, <2>1, Fields, Zenon
    <2>3. "fillOff" \in PcType /\ goto(c, "fillOff", r)
      BY <1>2, Constants
    <2> HIDE DEF r
    <2>4. FilledAt("fillOff", r)
      BY <2>1, <2>2 DEF FilledAt
    <2> QED BY <1>1, <2>2, <2>3, <2>4, MoveTypes
  <1>3. CASE useOffset(c, None)
    BY <1>1, <1>3, useOffsetTypes DEF Opt
  <1> QED BY <1>2, <1>3 DEF readOff

(* fillOff keeps the types. *)
LEMMA fillOffTypes ==
  ASSUME TypeOK, Filled, NEW c \in Client, fillOff(c)
  PROVE  TypeOK' /\ Filled'
  <1>0. Rest /\ req[c].v \in Opt
    BY Split DEF ReqType
  <1>1. Rest'
    BY <1>0 DEF fillOff, Rest
  <1>2. useOffset(c, req[c].v)
    BY DEF fillOff
  <1> QED BY <1>0, <1>1, <1>2, useOffsetTypes, Zenon

(* setSite keeps the types. *)
LEMMA setSiteTypes ==
  ASSUME TypeOK, Filled, NEW c \in Client, NEW f \in {"lat", "lon"}, setSite(c, f)
  PROVE  TypeOK' /\ Filled'
  <1>1. Rest'
    BY Split DEF setSite, Rest
  <1> DEFINE p == IF roSite THEN "idle" ELSE "writeSite"
             q(v) == [NoReq EXCEPT !.f = f, !.v = v]
  <1>2. PICK v \in Val : enter(c, "setSite", p, q(v))
    BY DEF setSite
  <1> DEFINE r == q(v)
  <1>3. p \in PcType /\ r \in ReqType /\ r.v \in Val
    BY Constants DEF NoReq, ReqType, Opt
  <1>4. enter(c, "setSite", p, r)
    BY <1>2
  <1> HIDE DEF p, r
  <1>5. FilledAt(p, r)
    BY <1>3 DEF FilledAt, p
  <1> QED BY <1>1, <1>3, <1>4, <1>5, EnterTypes

(* writeSite keeps the types. *)
LEMMA writeSiteTypes ==
  ASSUME TypeOK, Filled, NEW c \in Client, writeSite(c)
  PROVE  TypeOK' /\ Filled'
  <1>0. Rest /\ req[c] \in ReqType /\ req[c].v \in Val
    BY Split DEF writeSite, Filled
  <1>1. Rest'
    BY <1>0 DEF writeSite, Rest, put
  <1>2. CASE goto(c, "keepSite", req[c])
    <2>1. FilledAt("keepSite", req[c]) /\ "keepSite" \in PcType
      BY <1>0, Constants DEF FilledAt
    <2> QED BY <1>0, <1>1, <1>2, <2>1, MoveTypes
  <1>3. CASE reply(c)
    BY <1>1, <1>3, ReplyTypes
  <1> QED BY <1>2, <1>3 DEF writeSite

(* keepSite keeps the types. *)
LEMMA keepSiteTypes ==
  ASSUME TypeOK, Filled, NEW c \in Client, keepSite(c)
  PROVE  TypeOK' /\ Filled'
  <1>0. Rest /\ req[c] \in ReqType /\ req[c].v \in Val
    BY Split DEF keepSite, Filled
  <1>1. Rest'
    BY <1>0, SiteAssumption DEF keepSite, Rest, put, Opt
  <1>2. reply(c)
    BY DEF keepSite
  <1> QED BY <1>1, <1>2, ReplyTypes

(* setUTCOffset keeps the types. *)
LEMMA setUTCOffsetTypes ==
  ASSUME TypeOK, Filled, NEW c \in Client, setUTCOffset(c)
  PROVE  TypeOK' /\ Filled'
  <1> DEFINE p == IF roSite THEN "idle" ELSE "writeOff"
             q(v) == [NoReq EXCEPT !.v = v]
  <1>1. PICK v \in Val : /\ enter(c, "clock", p, q(v))
                         /\ st' = st \/ st' = [st EXCEPT ![c].SG = v]
    BY DEF setUTCOffset
  <1>2. Rest
    BY Split
  <1>3. st' \in [Client -> TimeType]
    BY <1>1, <1>2 DEF Rest, TimeType, Opt
  <1>4. Rest'
    BY <1>2, <1>3 DEF setUTCOffset, Rest
  <1> DEFINE r == q(v)
  <1>5. p \in PcType /\ r \in ReqType /\ r.v \in Val
    BY Constants DEF NoReq, ReqType, Opt
  <1>6. enter(c, "clock", p, r)
    BY <1>1
  <1> HIDE DEF p, r
  <1>7. FilledAt(p, r)
    BY <1>5 DEF FilledAt, p
  <1> QED BY <1>4, <1>5, <1>6, <1>7, EnterTypes

(* writeOff keeps the types. *)
LEMMA writeOffTypes ==
  ASSUME TypeOK, Filled, NEW c \in Client, writeOff(c)
  PROVE  TypeOK' /\ Filled'
  <1>0. Rest /\ req[c] \in ReqType /\ req[c].v \in Val
    BY Split DEF writeOff, Filled
  <1>1. Rest'
    BY <1>0 DEF writeOff, Rest
  <1>2. FilledAt("keepOff", req[c]) /\ "keepOff" \in PcType /\ goto(c, "keepOff", req[c])
    BY <1>0, Constants DEF FilledAt, writeOff
  <1> QED BY <1>0, <1>1, <1>2, MoveTypes

(* keepOff keeps the types. *)
LEMMA keepOffTypes ==
  ASSUME TypeOK, Filled, NEW c \in Client, keepOff(c)
  PROVE  TypeOK' /\ Filled'
  <1>0. Rest /\ req[c] \in ReqType /\ req[c].v \in Opt
    BY Split DEF ReqType
  <1>1. Rest'
    BY <1>0 DEF keepOff, Rest
  <1> DEFINE p == tryApplyTime(c, st[c])
             q == [req[c] EXCEPT !.then = "push"]
             r == IF p = "idle" THEN NoReq ELSE q
  <1>2. p \in PcType /\ p \in {"idle", "push", "readOff"}
    BY Constants DEF tryApplyTime
  <1>3. q \in ReqType
    BY <1>0, Fields, Zenon
  <1>4. goto(c, p, r)
    BY DEF keepOff
  <1> HIDE DEF p, q
  <1>5. r \in ReqType
    BY <1>3, Constants
  <1> HIDE DEF r
  <1>6. FilledAt(p, r)
    BY <1>2 DEF FilledAt
  <1> QED BY <1>1, <1>2, <1>4, <1>5, <1>6, MoveTypes

(* setTime keeps the types. *)
LEMMA setTimeTypes ==
  ASSUME TypeOK, Filled, NEW c \in Client, NEW t \in TimeType, setTime(c, t)
  PROVE  TypeOK' /\ Filled'
  <1>0. Rest
    BY Split
  <1>1. st' \in [Client -> TimeType]
    BY <1>0 DEF setTime, Rest
  <1>2. Rest'
    BY <1>0, <1>1 DEF setTime, Rest
  <1> DEFINE p == IF roSite THEN "idle" ELSE tryApplyTime(c, t)
             r == [NoReq EXCEPT !.v = offUsed(c, t), !.then = "push"]
  <1>3. p \in PcType /\ p \in {"idle", "push", "readOff"}
    BY Constants DEF tryApplyTime
  <1>4. offUsed(c, t) \in Opt
    BY <1>0 DEF offUsed, Rest, TimeType
  <1>5. r \in ReqType
    BY <1>4 DEF ReqType, NoReq, Opt
  <1>6. enter(c, "clock", p, r)
    BY DEF setTime
  <1> HIDE DEF p, r
  <1>7. FilledAt(p, r)
    BY <1>3 DEF FilledAt
  <1> QED BY <1>2, <1>3, <1>5, <1>6, <1>7, EnterTypes

(* push keeps the types. *)
LEMMA pushTypes ==
  ASSUME TypeOK, Filled, NEW c \in Client, push(c)
  PROVE  TypeOK' /\ Filled'
  <1>0. Rest /\ req[c].v \in Opt /\ st[c] \in TimeType
    BY Split DEF Rest, ReqType
  <1>1. st' \in [Client -> TimeType]
    BY <1>0, Constants DEF push, Rest
  <1>2. bare' \in [Client -> BOOLEAN]
    BY <1>0 DEF push, Rest
  <1>3. mnt' \in [lat : Val, lon : Val, off : Val, clock : Opt] /\ refused' \in BOOLEAN
    BY <1>0 DEF push, Rest
  <1>4. Rest'
    BY <1>0, <1>1, <1>2, <1>3 DEF push, Rest
  <1>5. reply(c)
    BY DEF push
  <1> QED BY <1>4, <1>5, ReplyTypes

(* Every step keeps the types and what the handlers have filled in. *)
LEMMA NextTypes ==
  ASSUME TypeOK, Filled, [Next]_vars
  PROVE  TypeOK' /\ Filled'
  <1>1. CASE UNCHANGED vars
    BY <1>1 DEF vars, TypeOK, Filled
  <1>2. CASE Next
    <2>1. PICK c \in Client : Request(c) \/ Act(c)
      BY <1>2 DEF Next
    <2>2. st[c] \in TimeType
      BY Split DEF Rest
    <2>3. [st[c] EXCEPT !.SL = TRUE] \in TimeType /\ [st[c] EXCEPT !.SC = TRUE] \in TimeType
      BY <2>2 DEF TimeType
    <2>4. CASE Request(c)
      <3>1. CASE handle(c) BY <3>1, handleTypes
      <3>2. CASE site(c) BY <3>2, siteTypes
      <3>3. CASE offset(c) BY <3>3, offsetTypes
      <3>4. CASE setLatitude(c) BY <3>4, setSiteTypes DEF setLatitude
      <3>5. CASE setLongitude(c) BY <3>5, setSiteTypes DEF setLongitude
      <3>6. CASE setUTCOffset(c) BY <3>6, setUTCOffsetTypes
      <3>7. CASE setLocalTime(c) BY <3>7, <2>3, setTimeTypes, Zenon DEF setLocalTime
      <3>8. CASE setCalendarDate(c) BY <3>8, <2>3, setTimeTypes, Zenon DEF setCalendarDate
      <3> QED BY <2>4, <3>1, <3>2, <3>3, <3>4, <3>5, <3>6, <3>7, <3>8 DEF Request
    <2>5. CASE Act(c)
      <3>1. CASE readLat(c) BY <3>1, readLatTypes
      <3>2. CASE readLon(c) BY <3>2, readLonTypes
      <3>3. CASE fillSite(c) BY <3>3, fillSiteTypes
      <3>4. CASE readOff(c) BY <3>4, readOffTypes
      <3>5. CASE fillOff(c) BY <3>5, fillOffTypes
      <3>6. CASE writeSite(c) BY <3>6, writeSiteTypes
      <3>7. CASE keepSite(c) BY <3>7, keepSiteTypes
      <3>8. CASE writeOff(c) BY <3>8, writeOffTypes
      <3>9. CASE keepOff(c) BY <3>9, keepOffTypes
      <3>10. CASE push(c) BY <3>10, pushTypes
      <3> QED BY <2>5, <3>1, <3>2, <3>3, <3>4, <3>5, <3>6, <3>7, <3>8, <3>9, <3>10 DEF Act
    <2> QED BY <2>1, <2>4, <2>5
  <1> QED BY <1>1, <1>2

(***************************************************************************)
(* The caches.  While nothing has raced:                                   *)
(***************************************************************************)
Held == Apart /\ ReadHolds /\ SiteHolds /\ OffHolds

(* What ReadHolds asks of one handler, of the mount m. *)
HoldsAt(p, r, m, f) ==
  /\ p \in {"readLon", "fillSite"} => r.lat = m.lat
  /\ p = "fillSite" => r.lon = m.lon
  /\ p = "keepSite" => /\ r.f = "lat" => r.v = m.lat
                       /\ r.f = "lon" => r.v = m.lon
  /\ p = "fillOff" => r.v = m.off
  /\ p = "keepOff" /\ ~f => r.v = m.off

(* A handler that goes on without a race is in nobody's way, and was in nobody's way. *)
LEMMA StaysApart ==
  ASSUME TypeOK, ~raced => Apart, NEW c \in Client, NEW p, NEW r, goto(c, p, r), ~raced'
  PROVE  /\ ~raced /\ Apart /\ Apart'
         /\ pc'[c] = p /\ req'[c] = r
         /\ \A d \in Client \ {c} : pc'[d] = pc[d] /\ req'[d] = req[d]
  <1>1. pc \in [Client -> PcType] /\ req \in [Client -> ReqType]
    BY Split
  <1>2. pc'[c] = p /\ \A d \in Client \ {c} : pc'[d] = pc[d]
    BY <1>1 DEF goto
  <1>3. req'[c] = r /\ \A d \in Client \ {c} : req'[d] = req[d]
    BY <1>1 DEF goto
  <1>4. ~raced /\ \A d \in Client \ {c} : ~conflict(p, pc[d]) /\ ~conflict(pc[d], p)
    BY Zenon DEF goto
  <1>5. Apart
    BY <1>4
  <1>6. Apart'
    <2> SUFFICES ASSUME NEW a \in Client, NEW b \in Client, a # b
                 PROVE  ~conflict(pc'[a], pc'[b])
      BY DEF Apart, conflict
    <2>1. CASE a = c
      BY <1>2, <1>4, <2>1
    <2>2. CASE b = c
      BY <1>2, <1>4, <2>2
    <2>3. CASE a # c /\ b # c
      BY <1>2, <1>5, <2>3 DEF Apart
    <2> QED BY <2>1, <2>2, <2>3
  <1> QED BY <1>2, <1>3, <1>4, <1>5, <1>6

(* What the other handlers hold still holds, since only a handler that is in *)
(* their way writes what they have read.                                     *)
LEMMA ReadStays ==
  ASSUME TypeOK, ~raced => Held, NEW c \in Client, NEW p, NEW r, goto(c, p, r), ~raced',
         HoldsAt(p, r, mnt', refused'), refused => refused',
         pc[c] = "writeSite" \/ (mnt'.lat = mnt.lat /\ mnt'.lon = mnt.lon),
         pc[c] = "writeOff" \/ mnt'.off = mnt.off
  PROVE  ReadHolds'
  <1>1. /\ ~raced /\ Apart /\ pc'[c] = p /\ req'[c] = r
        /\ \A d \in Client \ {c} : pc'[d] = pc[d] /\ req'[d] = req[d]
    BY StaysApart DEF Held
  <1>2. ReadHolds
    BY <1>1 DEF Held
  <1> SUFFICES ASSUME NEW d \in Client
               PROVE  HoldsAt(pc'[d], req'[d], mnt', refused')
    BY DEF ReadHolds, HoldsAt
  <1>3. CASE d = c
    BY <1>1, <1>3
  <1>4. CASE d # c
    <2>1. pc'[d] = pc[d] /\ req'[d] = req[d] /\ HoldsAt(pc[d], req[d], mnt, refused)
      BY <1>1, <1>2, <1>4 DEF ReadHolds, HoldsAt
    <2>2. pc[d] \in SiteFill \cup SiteSet => mnt'.lat = mnt.lat /\ mnt'.lon = mnt.lon
      BY <1>1, <1>4 DEF Apart, conflict, SiteSet
    <2>3. pc[d] \in OffFill \cup OffSet => mnt'.off = mnt.off
      BY <1>1, <1>4 DEF Apart, conflict, OffSet
    <2> QED BY <2>1, <2>2, <2>3 DEF HoldsAt, SiteFill, SiteSet, OffFill, OffSet
  <1> QED BY <1>3, <1>4

(* A step that writes neither the site nor its cache. *)
LEMMA SiteStays ==
  ASSUME TypeOK, ~raced => Held, NEW c \in Client, NEW p, NEW r, goto(c, p, r), ~raced',
         pc[c] # "keepSite", mnt'.lat = mnt.lat /\ mnt'.lon = mnt.lon,
         cache'.lat = cache.lat /\ cache'.lon = cache.lon
  PROVE  SiteHolds'
  <1>1. /\ ~raced /\ \A d \in Client \ {c} : pc'[d] = pc[d] /\ req'[d] = req[d]
    BY StaysApart DEF Held
  <1>2. SiteHolds
    BY <1>1 DEF Held
  <1>3. stored("lat")' => stored("lat")
    BY <1>1 DEF stored
  <1>4. stored("lon")' => stored("lon")
    BY <1>1 DEF stored
  <1> QED BY <1>2, <1>3, <1>4 DEF SiteHolds

(* A step that writes neither the offset nor its cache. *)
LEMMA OffStays ==
  ASSUME TypeOK, ~raced => Held, NEW c \in Client, NEW p, NEW r, goto(c, p, r), ~raced',
         pc[c] # "keepOff", mnt'.off = mnt.off, cache'.off = cache.off, refused => refused'
  PROVE  OffHolds'
  <1>1. /\ ~raced /\ \A d \in Client \ {c} : pc'[d] = pc[d]
    BY StaysApart DEF Held
  <1>2. OffHolds
    BY <1>1 DEF Held
  <1>3. (\A d \in Client : pc'[d] # "keepOff") => \A d \in Client : pc[d] # "keepOff"
    BY <1>1
  <1> QED BY <1>2, <1>3 DEF OffHolds

(* A step that writes none of them. *)
LEMMA QuietHolds ==
  ASSUME TypeOK, ~raced => Held, NEW c \in Client, NEW p, NEW r, goto(c, p, r), ~raced',
         HoldsAt(p, r, mnt', refused'), refused => refused',
         pc[c] \notin {"keepSite", "keepOff"}, UNCHANGED cache,
         mnt'.lat = mnt.lat /\ mnt'.lon = mnt.lon /\ mnt'.off = mnt.off
  PROVE  Held'
  <1>1. Apart'
    BY StaysApart DEF Held
  <1>2. ReadHolds'
    BY ReadStays
  <1>3. SiteHolds'
    BY SiteStays
  <1>4. OffHolds'
    BY OffStays
  <1> QED BY <1>1, <1>2, <1>3, <1>4 DEF Held

(* A handler that has read and written nothing yet. *)
LEMMA FreshHolds ==
  ASSUME NEW p \in {"idle", "push", "readLat", "readOff", "writeSite", "writeOff"}, NEW r, NEW m, NEW f
  PROVE  HoldsAt(p, r, m, f)
  BY DEF HoldsAt

(* The steps that start a handler, or end it with a reply. *)
LEMMA EnterHolds ==
  ASSUME TypeOK, ~raced => Held, NEW c \in Client, NEW op, NEW r,
         NEW p \in {"idle", "push", "readLat", "readOff", "writeSite", "writeOff"},
         enter(c, op, p, r), ~raced', UNCHANGED <<mnt, cache, refused>>
  PROVE  Held'
  <1> DEFINE q == IF p = "idle" THEN NoReq ELSE r
  <1>1. goto(c, p, q) /\ pc[c] = "idle"
    BY DEF enter
  <1> HIDE DEF q
  <1>2. HoldsAt(p, q, mnt', refused')
    BY FreshHolds
  <1> QED BY <1>1, <1>2, QuietHolds

(* A reply. *)
LEMMA ReplyHolds ==
  ASSUME TypeOK, ~raced => Held, NEW c \in Client, reply(c), ~raced', UNCHANGED cache,
         mnt'.lat = mnt.lat /\ mnt'.lon = mnt.lon /\ mnt'.off = mnt.off, refused => refused',
         pc[c] \notin {"keepSite", "keepOff"}
  PROVE  Held'
  <1>1. goto(c, "idle", NoReq) /\ HoldsAt("idle", NoReq, mnt', refused')
    BY FreshHolds DEF reply
  <1> QED BY <1>1, QuietHolds

(* site keeps what is held. *)
LEMMA siteHolds ==
  ASSUME TypeOK, ~raced => Held, NEW c \in Client, site(c), ~raced'
  PROVE  Held'
  <1> DEFINE p == IF cache.lat # None THEN "idle" ELSE "readLat"
  <1>1. p \in {"idle", "push", "readLat", "readOff", "writeSite", "writeOff"}
    OBVIOUS
  <1>2. enter(c, "site", p, NoReq) /\ UNCHANGED <<mnt, cache, refused>>
    BY DEF site
  <1> HIDE DEF p
  <1> QED BY <1>1, <1>2, EnterHolds

(* offset keeps what is held. *)
LEMMA offsetHolds ==
  ASSUME TypeOK, ~raced => Held, NEW c \in Client, offset(c), ~raced'
  PROVE  Held'
  <1> DEFINE p == IF cache.off # None THEN "idle" ELSE "readOff"
  <1>1. p \in {"idle", "push", "readLat", "readOff", "writeSite", "writeOff"}
    OBVIOUS
  <1>2. enter(c, "offset", p, NoReq) /\ UNCHANGED <<mnt, cache, refused>>
    BY DEF offset
  <1> HIDE DEF p
  <1> QED BY <1>1, <1>2, EnterHolds

(* setSite keeps what is held. *)
LEMMA setSiteHolds ==
  ASSUME TypeOK, ~raced => Held, NEW c \in Client, NEW f, setSite(c, f), ~raced'
  PROVE  Held'
  <1> DEFINE p == IF roSite THEN "idle" ELSE "writeSite"
             q(v) == [NoReq EXCEPT !.f = f, !.v = v]
  <1>1. PICK v \in Val : enter(c, "setSite", p, q(v))
    BY DEF setSite
  <1>2. p \in {"idle", "push", "readLat", "readOff", "writeSite", "writeOff"}
    OBVIOUS
  <1>3. UNCHANGED <<mnt, cache, refused>>
    BY DEF setSite
  <1> HIDE DEF p, q
  <1> QED BY <1>1, <1>2, <1>3, EnterHolds

(* setUTCOffset keeps what is held. *)
LEMMA setUTCOffsetHolds ==
  ASSUME TypeOK, ~raced => Held, NEW c \in Client, setUTCOffset(c), ~raced'
  PROVE  Held'
  <1> DEFINE p == IF roSite THEN "idle" ELSE "writeOff"
             q(v) == [NoReq EXCEPT !.v = v]
  <1>1. PICK v \in Val : enter(c, "clock", p, q(v))
    BY DEF setUTCOffset
  <1>2. p \in {"idle", "push", "readLat", "readOff", "writeSite", "writeOff"}
    OBVIOUS
  <1>3. UNCHANGED <<mnt, cache, refused>>
    BY DEF setUTCOffset
  <1> HIDE DEF p, q
  <1> QED BY <1>1, <1>2, <1>3, EnterHolds

(* setTime keeps what is held. *)
LEMMA setTimeHolds ==
  ASSUME TypeOK, ~raced => Held, NEW c \in Client, NEW t, setTime(c, t), ~raced'
  PROVE  Held'
  <1> DEFINE p == IF roSite THEN "idle" ELSE tryApplyTime(c, t)
             r == [NoReq EXCEPT !.v = offUsed(c, t), !.then = "push"]
  <1>1. p \in {"idle", "push", "readLat", "readOff", "writeSite", "writeOff"}
    BY DEF tryApplyTime
  <1>2. enter(c, "clock", p, r) /\ UNCHANGED <<mnt, cache, refused>>
    BY DEF setTime
  <1> HIDE DEF p, r
  <1> QED BY <1>1, <1>2, EnterHolds

(* handle keeps what is held. *)
LEMMA handleHolds ==
  ASSUME ~raced => Held, NEW c \in Client, handle(c), ~raced'
  PROVE  Held'
  BY DEF handle, Held, Apart, ReadHolds, SiteHolds, OffHolds, stored

(* readLat keeps what is held. *)
LEMMA readLatHolds ==
  ASSUME TypeOK, ~raced => Held, NEW c \in Client, readLat(c), ~raced'
  PROVE  Held'
  <1>0. pc[c] = "readLat" /\ UNCHANGED <<mnt, cache, refused>> /\ req[c] \in ReqType /\ mnt.lat \in Opt
    BY Split DEF readLat, Rest, Opt
  <1>1. CASE goto(c, "readLon", [req[c] EXCEPT !.lat = mnt.lat])
    <2> DEFINE r == [req[c] EXCEPT !.lat = mnt.lat]
    <2>1. r.lat = mnt.lat
      BY <1>0, Fields, Zenon
    <2>2. goto(c, "readLon", r)
      BY <1>1
    <2> HIDE DEF r
    <2>3. HoldsAt("readLon", r, mnt', refused')
      BY <1>0, <2>1 DEF HoldsAt
    <2> QED BY <1>0, <2>2, <2>3, QuietHolds
  <1>2. CASE reply(c)
    BY <1>0, <1>2, ReplyHolds
  <1> QED BY <1>1, <1>2 DEF readLat

(* readLon keeps what is held. *)
LEMMA readLonHolds ==
  ASSUME TypeOK, ~raced => Held, NEW c \in Client, readLon(c), ~raced'
  PROVE  Held'
  <1>0. pc[c] = "readLon" /\ UNCHANGED <<mnt, cache, refused>> /\ req[c] \in ReqType /\ mnt.lon \in Opt
    BY Split DEF readLon, Rest, Opt
  <1>1. CASE goto(c, "fillSite", [req[c] EXCEPT !.lon = mnt.lon])
    <2> DEFINE r == [req[c] EXCEPT !.lon = mnt.lon]
    <2>1. r.lat = req[c].lat /\ r.lon = mnt.lon
      BY <1>0, Fields, Zenon
    <2>2. goto(c, "fillSite", r)
      BY <1>1
    <2> HIDE DEF r
    <2>3. ~raced
      BY <2>2, StaysApart DEF Held
    <2>4. req[c].lat = mnt.lat
      BY <1>0, <2>3 DEF Held, ReadHolds
    <2>5. HoldsAt("fillSite", r, mnt', refused')
      BY <1>0, <2>1, <2>4 DEF HoldsAt
    <2> QED BY <1>0, <2>2, <2>5, QuietHolds
  <1>2. CASE reply(c)
    BY <1>0, <1>2, ReplyHolds
  <1> QED BY <1>1, <1>2 DEF readLon

(* fillSite keeps what is held. *)
LEMMA fillSiteHolds ==
  ASSUME TypeOK, ~raced => Held, NEW c \in Client, fillSite(c), ~raced'
  PROVE  Held'
  <1>1. /\ pc[c] = "fillSite" /\ UNCHANGED <<mnt, refused>>
        /\ cache' = [cache EXCEPT !.lat = req[c].lat, !.lon = req[c].lon]
        /\ cache \in [lat : Opt, lon : Opt, off : Opt]
    BY Split DEF fillSite, Rest
  <1>2. goto(c, "idle", NoReq) /\ HoldsAt("idle", NoReq, mnt', refused')
    BY FreshHolds DEF fillSite, reply
  <1>3. ~raced /\ Apart'
    BY <1>2, StaysApart DEF Held
  <1>4. req[c].lat = mnt.lat /\ req[c].lon = mnt.lon
    BY <1>1, <1>3 DEF Held, ReadHolds
  <1>5. ReadHolds'
    BY <1>1, <1>2, ReadStays
  <1>6. SiteHolds'
    BY <1>1, <1>4 DEF SiteHolds
  <1>7. OffHolds'
    BY <1>1, <1>2, OffStays
  <1> QED BY <1>3, <1>5, <1>6, <1>7 DEF Held

(* Using an offset writes nothing but, for fillOff, the cached offset. *)
LEMMA useOffsetGoes ==
  ASSUME NEW c \in Client, NEW v, useOffset(c, v), NEW m, NEW f
  PROVE  \E p, r : goto(c, p, r) /\ HoldsAt(p, r, m, f) /\ p # "keepOff"
  <1>1. CASE req[c].then = "reply"
    <2>1. goto(c, "idle", NoReq) /\ HoldsAt("idle", NoReq, m, f)
      BY <1>1, FreshHolds DEF useOffset, reply
    <2> QED BY <2>1
  <1>2. CASE req[c].then # "reply"
    <2> DEFINE r == [req[c] EXCEPT !.v = v]
    <2>1. goto(c, "push", r)
      BY <1>2 DEF useOffset
    <2> HIDE DEF r
    <2>2. HoldsAt("push", r, m, f)
      BY FreshHolds
    <2> QED BY <2>1, <2>2
  <1> QED BY <1>1, <1>2

(* readOff keeps what is held. *)
LEMMA readOffHolds ==
  ASSUME TypeOK, ~raced => Held, NEW c \in Client, readOff(c), ~raced'
  PROVE  Held'
  <1>0. /\ pc[c] = "readOff" /\ UNCHANGED <<mnt, cache>> /\ (refused => refused')
        /\ req[c] \in ReqType /\ mnt.off \in Opt
    BY Split DEF readOff, Rest, Opt
  <1>1. CASE goto(c, "fillOff", [req[c] EXCEPT !.v = mnt.off])
    <2> DEFINE r == [req[c] EXCEPT !.v = mnt.off]
    <2>1. r.v = mnt.off
      BY <1>0, Fields, Zenon
    <2>2. goto(c, "fillOff", r)
      BY <1>1
    <2> HIDE DEF r
    <2>3. HoldsAt("fillOff", r, mnt', refused')
      BY <1>0, <2>1 DEF HoldsAt
    <2> QED BY <1>0, <2>2, <2>3, QuietHolds
  <1>2. CASE useOffset(c, None)
    <2>1. PICK p, r : goto(c, p, r) /\ HoldsAt(p, r, mnt', refused')
      BY <1>2, useOffsetGoes
    <2> QED BY <1>0, <2>1, QuietHolds
  <1> QED BY <1>1, <1>2 DEF readOff

(* fillOff keeps what is held. *)
LEMMA fillOffHolds ==
  ASSUME TypeOK, ~raced => Held, NEW c \in Client, fillOff(c), ~raced'
  PROVE  Held'
  <1>1. /\ pc[c] = "fillOff" /\ UNCHANGED <<mnt, refused>>
        /\ cache' = [cache EXCEPT !.off = req[c].v]
        /\ cache \in [lat : Opt, lon : Opt, off : Opt]
    BY Split DEF fillOff, Rest
  <1>2. PICK p, r : goto(c, p, r) /\ HoldsAt(p, r, mnt', refused')
    BY useOffsetGoes DEF fillOff
  <1>3. ~raced /\ Apart'
    BY <1>2, StaysApart DEF Held
  <1>4. req[c].v = mnt.off
    BY <1>1, <1>3 DEF Held, ReadHolds
  <1>5. ReadHolds'
    BY <1>1, <1>2, ReadStays
  <1>6. SiteHolds'
    BY <1>1, <1>2, SiteStays
  <1>7. OffHolds'
    BY <1>1, <1>4 DEF OffHolds
  <1> QED BY <1>3, <1>5, <1>6, <1>7 DEF Held

(* writeSite keeps what is held. *)
LEMMA writeSiteHolds ==
  ASSUME TypeOK, ~raced => Held, NEW c \in Client, writeSite(c), ~raced'
  PROVE  Held'
  <1>0. /\ pc[c] = "writeSite" /\ UNCHANGED <<cache, refused>> /\ req[c] \in ReqType
        /\ mnt \in [lat : Val, lon : Val, off : Val, clock : Opt]
    BY Split DEF writeSite, Rest
  <1>1. CASE mnt' = put(mnt, req[c].f, req[c].v) /\ goto(c, "keepSite", req[c])
    <2>1. /\ req[c].f = "lat" => mnt'.lat = req[c].v /\ mnt'.lon = mnt.lon
          /\ req[c].f = "lon" => mnt'.lon = req[c].v /\ mnt'.lat = mnt.lat
          /\ mnt'.off = mnt.off /\ req[c].f \in {"lat", "lon"}
      BY <1>0, <1>1 DEF put, ReqType
    <2>2. HoldsAt("keepSite", req[c], mnt', refused')
      BY <2>1 DEF HoldsAt
    <2>3. /\ ~raced /\ Apart' /\ pc'[c] = "keepSite" /\ req'[c] = req[c]
          /\ \A d \in Client \ {c} : pc'[d] = pc[d] /\ req'[d] = req[d]
      BY <1>1, StaysApart DEF Held
    <2>4. ReadHolds'
      BY <1>0, <1>1, <2>1, <2>2, ReadStays
    <2>5. SiteHolds'
      <3>1. /\ stored("lat")' => stored("lat") /\ req[c].f # "lat"
            /\ stored("lon")' => stored("lon") /\ req[c].f # "lon"
        BY <1>0, <2>3 DEF stored
      <3>2. SiteHolds
        BY <2>3 DEF Held
      <3> QED BY <1>0, <2>1, <3>1, <3>2 DEF SiteHolds
    <2>6. OffHolds'
      BY <1>0, <1>1, <2>1, OffStays
    <2> QED BY <2>3, <2>4, <2>5, <2>6 DEF Held
  <1>2. CASE UNCHANGED mnt /\ reply(c)
    BY <1>0, <1>2, ReplyHolds
  <1> QED BY <1>1, <1>2 DEF writeSite

(* keepSite keeps what is held. *)
LEMMA keepSiteHolds ==
  ASSUME TypeOK, ~raced => Held, NEW c \in Client, keepSite(c), ~raced'
  PROVE  Held'
  <1>0. /\ pc[c] = "keepSite" /\ UNCHANGED <<mnt, refused>> /\ req[c] \in ReqType
        /\ cache' = IF cache.lat # None THEN put(cache, req[c].f, req[c].v) ELSE cache
        /\ cache \in [lat : Opt, lon : Opt, off : Opt]
    BY Split DEF keepSite, Rest
  <1>1. goto(c, "idle", NoReq) /\ HoldsAt("idle", NoReq, mnt', refused')
    BY FreshHolds DEF keepSite, reply
  <1>2. ~raced /\ Apart /\ Apart' /\ \A d \in Client \ {c} : pc'[d] = pc[d] /\ req'[d] = req[d]
    BY <1>1, StaysApart DEF Held
  <1>3. SiteHolds /\ ReadHolds
    BY <1>2 DEF Held
  <1>4. ReadHolds'
    BY <1>0, <1>1, ReadStays
  <1>5. cache'.off = cache.off
    BY <1>0 DEF put, ReqType
  <1>6. OffHolds'
    BY <1>0, <1>1, <1>5, OffStays
  <1>7. SiteHolds'
    <2>1. \A d \in Client \ {c} : pc[d] # "keepSite"
      BY <1>0, <1>2 DEF Apart, conflict, SiteSet
    <2>2. CASE req[c].f = "lat"
      <3>1. stored("lon") /\ req[c].v = mnt.lat
        BY <1>0, <1>3, <2>1, <2>2 DEF stored, ReadHolds
      <3> QED BY <1>0, <1>3, <2>2, <3>1 DEF SiteHolds, put
    <2>3. CASE req[c].f = "lon"
      <3>1. stored("lat") /\ req[c].v = mnt.lon
        BY <1>0, <1>3, <2>1, <2>3 DEF stored, ReadHolds
      <3> QED BY <1>0, <1>3, <2>3, <3>1 DEF SiteHolds, put
    <2> QED BY <1>0, <2>2, <2>3 DEF ReqType
  <1> QED BY <1>2, <1>4, <1>6, <1>7 DEF Held

(* writeOff keeps what is held. *)
LEMMA writeOffHolds ==
  ASSUME TypeOK, ~raced => Held, NEW c \in Client, writeOff(c), ~raced'
  PROVE  Held'
  <1>0. /\ pc[c] = "writeOff" /\ UNCHANGED cache /\ goto(c, "keepOff", req[c])
        /\ mnt'.lat = mnt.lat /\ mnt'.lon = mnt.lon
        /\ (refused => refused') /\ (~refused' => mnt'.off = req[c].v)
    BY Split DEF writeOff, Rest
  <1>1. HoldsAt("keepOff", req[c], mnt', refused')
    BY <1>0 DEF HoldsAt
  <1>2. Apart' /\ pc'[c] = "keepOff"
    BY <1>0, StaysApart DEF Held
  <1>3. ReadHolds'
    BY <1>0, <1>1, ReadStays
  <1>4. SiteHolds'
    BY <1>0, SiteStays
  <1>5. OffHolds'
    BY <1>2 DEF OffHolds
  <1> QED BY <1>2, <1>3, <1>4, <1>5 DEF Held

(* keepOff keeps what is held. *)
LEMMA keepOffHolds ==
  ASSUME TypeOK, ~raced => Held, NEW c \in Client, keepOff(c), ~raced'
  PROVE  Held'
  <1>0. /\ pc[c] = "keepOff" /\ UNCHANGED <<mnt, refused>>
        /\ cache' = [cache EXCEPT !.off = req[c].v]
        /\ cache \in [lat : Opt, lon : Opt, off : Opt]
    BY Split DEF keepOff, Rest
  <1> DEFINE p == tryApplyTime(c, st[c])
             r == IF p = "idle" THEN NoReq ELSE [req[c] EXCEPT !.then = "push"]
  <1>1. goto(c, p, r) /\ p \in {"idle", "push", "readOff"}
    BY DEF keepOff, tryApplyTime
  <1> HIDE DEF p, r
  <1>2. HoldsAt(p, r, mnt', refused')
    BY <1>1, FreshHolds
  <1>3. ~raced /\ Apart'
    BY <1>1, StaysApart DEF Held
  <1>4. ~refused => req[c].v = mnt.off
    BY <1>0, <1>3 DEF Held, ReadHolds
  <1>5. ReadHolds'
    BY <1>0, <1>1, <1>2, ReadStays
  <1>6. SiteHolds'
    BY <1>0, <1>1, SiteStays
  <1>7. OffHolds'
    BY <1>0, <1>4 DEF OffHolds
  <1> QED BY <1>3, <1>5, <1>6, <1>7 DEF Held

(* push keeps what is held. *)
LEMMA pushHolds ==
  ASSUME TypeOK, ~raced => Held, NEW c \in Client, push(c), ~raced'
  PROVE  Held'
  <1>1. /\ pc[c] = "push" /\ reply(c) /\ UNCHANGED cache /\ (refused => refused')
        /\ mnt'.lat = mnt.lat /\ mnt'.lon = mnt.lon /\ mnt'.off = mnt.off
    BY Split DEF push, Rest
  <1> QED BY <1>1, ReplyHolds

(* Every step that does not race keeps what is held. *)
LEMMA NextHolds ==
  ASSUME TypeOK, ~raced => Held, [Next]_vars, ~raced'
  PROVE  Held'
  <1>1. CASE UNCHANGED vars
    BY <1>1 DEF vars, Held, Apart, ReadHolds, SiteHolds, OffHolds, stored
  <1>2. CASE Next
    <2>1. PICK c \in Client : Request(c) \/ Act(c)
      BY <1>2 DEF Next
    <2>2. CASE Request(c)
      <3>1. CASE handle(c) BY <3>1, handleHolds
      <3>2. CASE site(c) BY <3>2, siteHolds
      <3>3. CASE offset(c) BY <3>3, offsetHolds
      <3>4. CASE setLatitude(c) BY <3>4, setSiteHolds DEF setLatitude
      <3>5. CASE setLongitude(c) BY <3>5, setSiteHolds DEF setLongitude
      <3>6. CASE setUTCOffset(c) BY <3>6, setUTCOffsetHolds
      <3>7. CASE setLocalTime(c) BY <3>7, setTimeHolds, Zenon DEF setLocalTime
      <3>8. CASE setCalendarDate(c) BY <3>8, setTimeHolds, Zenon DEF setCalendarDate
      <3> QED BY <2>2, <3>1, <3>2, <3>3, <3>4, <3>5, <3>6, <3>7, <3>8 DEF Request
    <2>3. CASE Act(c)
      <3>1. CASE readLat(c) BY <3>1, readLatHolds
      <3>2. CASE readLon(c) BY <3>2, readLonHolds
      <3>3. CASE fillSite(c) BY <3>3, fillSiteHolds
      <3>4. CASE readOff(c) BY <3>4, readOffHolds
      <3>5. CASE fillOff(c) BY <3>5, fillOffHolds
      <3>6. CASE writeSite(c) BY <3>6, writeSiteHolds
      <3>7. CASE keepSite(c) BY <3>7, keepSiteHolds
      <3>8. CASE writeOff(c) BY <3>8, writeOffHolds
      <3>9. CASE keepOff(c) BY <3>9, keepOffHolds
      <3>10. CASE push(c) BY <3>10, pushHolds
      <3> QED BY <2>3, <3>1, <3>2, <3>3, <3>4, <3>5, <3>6, <3>7, <3>8, <3>9, <3>10 DEF Act
    <2> QED BY <2>1, <2>2, <2>3
  <1> QED BY <1>1, <1>2

(* The server starts with empty caches and no handler under way. *)
LEMMA InitCache ==
  ASSUME Init
  PROVE  CacheInv
  <1>1. pc = [c \in Client |-> "idle"] /\ req = [c \in Client |-> NoReq] /\ raced = FALSE
    BY DEF Init
  <1>2. Rest
    <2>1. mnt \in [lat : Val, lon : Val, off : Val, clock : Opt] /\ roSite \in ReadOnly
      BY DEF Init, Opt
    <2>2. cache \in [lat : Opt, lon : Opt, off : Opt] /\ (cache.lat = None <=> cache.lon = None)
      BY DEF Init, Opt
    <2>3. st \in [Client -> TimeType] /\ bare \in [Client -> BOOLEAN] /\ refused \in BOOLEAN
      BY Constants DEF Init
    <2> QED BY <2>1, <2>2, <2>3 DEF Rest
  <1>3. TypeOK
    BY <1>1, <1>2, Split, Constants
  <1>4. Filled
    BY <1>1 DEF Filled
  <1>5. Apart
    BY <1>1 DEF Apart, conflict, SiteSet, OffSet
  <1>6. ReadHolds
    BY <1>1 DEF ReadHolds
  <1>7. SiteHolds /\ OffHolds
    BY DEF Init, SiteHolds, OffHolds
  <1> QED BY <1>3, <1>4, <1>5, <1>6, <1>7 DEF CacheInv

(* Every step keeps the invariant. *)
LEMMA NextCache ==
  ASSUME CacheInv, [Next]_vars
  PROVE  CacheInv'
  <1>1. TypeOK /\ Filled /\ (~raced => Held)
    BY DEF CacheInv, Held
  <1>2. TypeOK' /\ Filled'
    BY <1>1, NextTypes
  <1>3. ~raced' => Held'
    BY <1>1, NextHolds
  <1> QED BY <1>2, <1>3 DEF CacheInv, Held

(* In every state of the bridge, whatever fails and however the handlers of *)
(* its clients interleave, each handler's locals and the caches relate to   *)
(* the mount as site(), offset() and the set handlers intend, until a set   *)
(* overlaps a set or a first read of the same value.                        *)
THEOREM CacheInvariant == Spec => []CacheInv
  <1>1. Init => CacheInv
    BY InitCache
  <1>2. CacheInv /\ [Next]_vars => CacheInv'
    BY NextCache
  <1> QED BY <1>1, <1>2, PTL DEF Spec

(* The state of the bridge's site and clock handlers keeps its types; the   *)
(* cached site always has both coordinates or neither.                      *)
THEOREM SiteTypes == Spec => []TypeOK
  <1>1. CacheInv => TypeOK
    BY DEF CacheInv
  <1> QED BY <1>1, CacheInvariant, PTL

(* Between requests the site and the offset that site() and offset() answer *)
(* from their caches are the mount's, unless a set was overlapped or the    *)
(* mount refused an offset.                                                 *)
THEOREM CacheTheorem == Spec => []CacheAgrees
  <1>1. CacheInv => CacheAgrees
    <2> SUFFICES ASSUME CacheInv, idle, ~raced
                 PROVE  /\ cache.lat # None => cache.lat = mnt.lat /\ cache.lon = mnt.lon
                        /\ cache.off # None /\ ~refused => cache.off = mnt.off
      BY DEF CacheAgrees
    <2>1. SiteHolds /\ OffHolds
      BY DEF CacheInv
    <2>2. stored("lat") /\ stored("lon") /\ \A c \in Client : pc[c] # "keepOff"
      BY DEF idle, stored
    <2> QED BY <2>1, <2>2 DEF SiteHolds, OffHolds
  <1> QED BY <1>1, CacheInvariant, PTL

(***************************************************************************)
(* The read-only server: its handlers never get to a write.                *)
(***************************************************************************)
NoWrites ==
  roSite => \A c \in Client : /\ pc[c] \notin SiteSet \cup OffSet \cup {"push"}
                              /\ req[c].then = "reply"

(* The step of a handler that goes on at a place that writes nothing. *)
LEMMA NoWriteMoves ==
  ASSUME TypeOK, NoWrites, NEW c \in Client, NEW p, NEW r, goto(c, p, r), UNCHANGED roSite,
         roSite => p \notin SiteSet \cup OffSet \cup {"push"} /\ r.then = "reply"
  PROVE  NoWrites'
  <1>1. pc \in [Client -> PcType] /\ req \in [Client -> ReqType]
    BY Split
  <1>2. pc'[c] = p /\ \A d \in Client \ {c} : pc'[d] = pc[d]
    BY <1>1 DEF goto
  <1>3. req'[c] = r /\ \A d \in Client \ {c} : req'[d] = req[d]
    BY <1>1 DEF goto
  <1> QED BY <1>2, <1>3 DEF NoWrites

(* Starting a handler of a read-only server: the sets reply at once. *)
LEMMA NoWriteEnters ==
  ASSUME TypeOK, NoWrites, NEW c \in Client, NEW op, NEW p, NEW r, enter(c, op, p, r), UNCHANGED roSite,
         roSite => p = "idle" \/ (p \in {"readLat", "readOff"} /\ r = NoReq)
  PROVE  NoWrites'
  <1> DEFINE q == IF p = "idle" THEN NoReq ELSE r
  <1>1. goto(c, p, q)
    BY DEF enter
  <1>2. roSite => p \in {"idle", "readLat", "readOff"} /\ q = NoReq
    OBVIOUS
  <1>3. NoReq.then = "reply"
    BY DEF NoReq
  <1> HIDE DEF q
  <1>4. roSite => p \notin SiteSet \cup OffSet \cup {"push"} /\ q.then = "reply"
    BY <1>2, <1>3 DEF SiteSet, OffSet
  <1> QED BY <1>1, <1>4, NoWriteMoves

(* A reply of a read-only server. *)
LEMMA NoWriteReplies ==
  ASSUME TypeOK, NoWrites, NEW c \in Client, reply(c), UNCHANGED roSite
  PROVE  NoWrites'
  <1>1. goto(c, "idle", NoReq)
    BY DEF reply
  <1>2. "idle" \notin SiteSet \cup OffSet \cup {"push"} /\ NoReq.then = "reply"
    BY DEF NoReq, SiteSet, OffSet
  <1> QED BY <1>1, <1>2, NoWriteMoves

(* The requests of a client. *)
LEMMA NoWriteRequests ==
  ASSUME TypeOK, NoWrites, NEW c \in Client, Request(c)
  PROVE  NoWrites'
  <1>1. CASE handle(c)
    BY <1>1 DEF handle, NoWrites
  <1>2. CASE site(c)
    <2> DEFINE p == IF cache.lat # None THEN "idle" ELSE "readLat"
    <2>1. enter(c, "site", p, NoReq) /\ UNCHANGED roSite /\ p \in {"idle", "readLat"}
      BY <1>2 DEF site
    <2> HIDE DEF p
    <2> QED BY <2>1, NoWriteEnters
  <1>3. CASE offset(c)
    <2> DEFINE p == IF cache.off # None THEN "idle" ELSE "readOff"
    <2>1. enter(c, "offset", p, NoReq) /\ UNCHANGED roSite /\ p \in {"idle", "readOff"}
      BY <1>3 DEF offset
    <2> HIDE DEF p
    <2> QED BY <2>1, NoWriteEnters
  <1>4. ASSUME NEW f, setSite(c, f)
        PROVE  NoWrites'
    <2> DEFINE p == IF roSite THEN "idle" ELSE "writeSite"
               q(v) == [NoReq EXCEPT !.f = f, !.v = v]
    <2>1. PICK v \in Val : enter(c, "setSite", p, q(v))
      BY <1>4 DEF setSite
    <2>2. UNCHANGED roSite /\ (roSite => p = "idle")
      BY <1>4 DEF setSite
    <2> HIDE DEF p, q
    <2> QED BY <2>1, <2>2, NoWriteEnters
  <1>5. CASE setUTCOffset(c)
    <2> DEFINE p == IF roSite THEN "idle" ELSE "writeOff"
               q(v) == [NoReq EXCEPT !.v = v]
    <2>1. PICK v \in Val : enter(c, "clock", p, q(v))
      BY <1>5 DEF setUTCOffset
    <2>2. UNCHANGED roSite /\ (roSite => p = "idle")
      BY <1>5 DEF setUTCOffset
    <2> HIDE DEF p, q
    <2> QED BY <2>1, <2>2, NoWriteEnters
  <1>6. ASSUME NEW t, setTime(c, t)
        PROVE  NoWrites'
    <2> DEFINE p == IF roSite THEN "idle" ELSE tryApplyTime(c, t)
               r == [NoReq EXCEPT !.v = offUsed(c, t), !.then = "push"]
    <2>1. enter(c, "clock", p, r) /\ UNCHANGED roSite /\ (roSite => p = "idle")
      BY <1>6 DEF setTime
    <2> HIDE DEF p, r
    <2> QED BY <2>1, NoWriteEnters
  <1>7. CASE setLatitude(c) BY <1>4, <1>7 DEF setLatitude
  <1>8. CASE setLongitude(c) BY <1>4, <1>8 DEF setLongitude
  <1>9. CASE setLocalTime(c) BY <1>6, <1>9, Zenon DEF setLocalTime
  <1>10. CASE setCalendarDate(c) BY <1>6, <1>10, Zenon DEF setCalendarDate
  <1> QED BY <1>1, <1>2, <1>3, <1>5, <1>7, <1>8, <1>9, <1>10 DEF Request

(* The steps of a handler: on a read-only server only the reads are there. *)
LEMMA NoWriteActs ==
  ASSUME TypeOK, NoWrites, NEW c \in Client, Act(c)
  PROVE  NoWrites' /\ (roSite => UNCHANGED mnt)
  <1>0. UNCHANGED roSite
    BY DEF Act, readLat, readLon, fillSite, readOff, fillOff, writeSite, keepSite, writeOff, keepOff, push
  <1>1. CASE ~roSite
    BY <1>0, <1>1 DEF NoWrites
  <1>2. CASE roSite
    <2>1. /\ pc[c] \notin {"writeSite", "keepSite", "writeOff", "keepOff", "push"}
          /\ req[c].then = "reply" /\ req[c] \in ReqType
          /\ mnt.lat \in Opt /\ mnt.lon \in Opt /\ mnt.off \in Opt
      BY <1>2, Split DEF NoWrites, SiteSet, OffSet, Rest, Opt
    <2>2. ASSUME NEW r \in ReqType, NEW v \in Opt
          PROVE  /\ [r EXCEPT !.lat = v].then = r.then /\ [r EXCEPT !.lon = v].then = r.then
                 /\ [r EXCEPT !.v = v].then = r.then
      BY DEF ReqType
    <2>3. ASSUME NEW p \in SiteFill \cup OffFill, NEW r, goto(c, p, r), r.then = "reply"
          PROVE  NoWrites'
      <3>1. p \notin SiteSet \cup OffSet \cup {"push"}
        BY DEF SiteSet, OffSet, SiteFill, OffFill
      <3> QED BY <1>0, <2>3, <3>1, NoWriteMoves
    <2>4. CASE readLat(c)
      <3> DEFINE r == [req[c] EXCEPT !.lat = mnt.lat]
      <3>1. r.then = "reply" /\ UNCHANGED mnt
        BY <2>1, <2>2, <2>4, Zenon DEF readLat
      <3>2. goto(c, "readLon", r) \/ reply(c)
        BY <2>4 DEF readLat
      <3> HIDE DEF r
      <3> QED BY <1>0, <2>3, <3>1, <3>2, NoWriteReplies DEF SiteFill
    <2>5. CASE readLon(c)
      <3> DEFINE r == [req[c] EXCEPT !.lon = mnt.lon]
      <3>1. r.then = "reply" /\ UNCHANGED mnt
        BY <2>1, <2>2, <2>5, Zenon DEF readLon
      <3>2. goto(c, "fillSite", r) \/ reply(c)
        BY <2>5 DEF readLon
      <3> HIDE DEF r
      <3> QED BY <1>0, <2>3, <3>1, <3>2, NoWriteReplies DEF SiteFill
    <2>6. CASE fillSite(c)
      BY <1>0, <2>6, NoWriteReplies DEF fillSite
    <2>7. CASE readOff(c)
      <3> DEFINE r == [req[c] EXCEPT !.v = mnt.off]
      <3>1. r.then = "reply" /\ UNCHANGED mnt
        BY <2>1, <2>2, <2>7, Zenon DEF readOff
      <3>2. goto(c, "fillOff", r) \/ reply(c)
        BY <2>1, <2>7 DEF readOff, useOffset
      <3> HIDE DEF r
      <3> QED BY <1>0, <2>3, <3>1, <3>2, NoWriteReplies DEF OffFill
    <2>8. CASE fillOff(c)
      <3>1. reply(c) /\ UNCHANGED mnt
        BY <2>1, <2>8 DEF fillOff, useOffset
      <3> QED BY <1>0, <3>1, NoWriteReplies
    <2> QED BY <2>1, <2>4, <2>5, <2>6, <2>7, <2>8
            DEF Act, writeSite, keepSite, writeOff, keepOff, push
  <1> QED BY <1>1, <1>2

(* However its clients interleave, a server built WithReadOnlySite leaves   *)
(* the mount's site, offset and clock alone: no handler of it ever gets to  *)
(* a write, not even through a value it read itself.                        *)
THEOREM ReadOnlyTheorem == Spec => ReadOnlyKeeps
  <1>1. Init => NoWrites
    <2> SUFFICES ASSUME Init
                 PROVE  NoWrites
      OBVIOUS
    <2>1. pc = [c \in Client |-> "idle"] /\ req = [c \in Client |-> NoReq] /\ NoReq.then = "reply"
      BY DEF Init, NoReq
    <2> QED BY <2>1 DEF NoWrites, SiteSet, OffSet
  <1>2. TypeOK /\ NoWrites /\ [Next]_vars => NoWrites' /\ [roSite => UNCHANGED mnt]_mnt
    <2> SUFFICES ASSUME TypeOK, NoWrites, [Next]_vars
                 PROVE  NoWrites' /\ (roSite => UNCHANGED mnt)
      OBVIOUS
    <2>1. CASE UNCHANGED vars
      BY <2>1 DEF vars, NoWrites
    <2>2. CASE Next
      <3>1. PICK c \in Client : Request(c) \/ Act(c)
        BY <2>2 DEF Next
      <3>2. CASE Request(c)
        <4>1. UNCHANGED mnt
          BY <3>2 DEF Request, handle, site, offset, setLatitude, setLongitude, setSite,
                      setUTCOffset, setLocalTime, setCalendarDate, setTime
        <4> QED BY <3>2, <4>1, NoWriteRequests
      <3>3. CASE Act(c)
        BY <3>3, NoWriteActs
      <3> QED BY <3>1, <3>2, <3>3
    <2> QED BY <2>1, <2>2
  <1> QED BY <1>1, <1>2, SiteTypes, PTL DEF Spec, ReadOnlyKeeps
=============================================================================
