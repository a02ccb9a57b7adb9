----------------------------- MODULE BridgeSite -----------------------------
(***************************************************************************)
(* The site, the UTC offset and the clock in the LX200 TCP bridge          *)
(* (bridge/bridge.go).  The handlers of the clients run side by side; each *)
(* call on the mount is a step, and so is each critical section of         *)
(* Server.mu.  A call finds the mount gone or is refused at any time.      *)
(*                                                                         *)
(* The mount is external: it holds what was last written to it.            *)
(***************************************************************************)
EXTENDS Naturals

CONSTANTS Client,
          Val,      \* latitudes, longitudes, offsets
          None,     \* a value that is not there
          Ops,      \* per client: the requests it makes
          ReadOnly  \* whether the server is built WithReadOnlySite

ASSUME SiteAssumption == None \notin Val /\ ReadOnly \subseteq BOOLEAN /\ ReadOnly # {}

VARIABLES roSite,   \* Server.roSite
          mnt,      \* the mount: lat, lon, off, and the offset its clock was set with
          cache,    \* Server.siteLat/siteLon (None: not haveSite), utcOff (None: not haveOff)
          pc,       \* where the goroutine of each connection is
          req,      \* locals of its handler
          st,       \* its connState: whether date and time are buffered, and the offset
          bare,     \* whether it has set the clock without an offset of its own
          raced,    \* whether a set has overlapped a set or a first read of the same value
          refused   \* whether an error of the mount has been dropped

vars == <<roSite, mnt, cache, pc, req, st, bare, raced, refused>>

Opt == Val \cup {None}
idle == \A c \in Client : pc[c] = "idle"
NoReq == [f |-> "lat", v |-> None, lat |-> None, lon |-> None, then |-> "reply"]
NoTime == [SC |-> FALSE, SL |-> FALSE, SG |-> None]

Init ==
    /\ roSite \in ReadOnly
    /\ \E v \in Val : mnt = [lat |-> v, lon |-> v, off |-> v, clock |-> None]
    /\ cache = [lat |-> None, lon |-> None, off |-> None]
    /\ pc = [c \in Client |-> "idle"] /\ req = [c \in Client |-> NoReq]
    /\ st = [c \in Client |-> NoTime] /\ bare = [c \in Client |-> FALSE]
    /\ raced = FALSE /\ refused = FALSE

\* Handlers at p and at q that are in each other's way.
SiteFill == {"readLat", "readLon", "fillSite"}
SiteSet == {"writeSite", "keepSite"}
OffFill == {"readOff", "fillOff"}
OffSet == {"writeOff", "keepOff"}
conflict(p, q) == \/ p \in SiteSet /\ q \in SiteSet \cup SiteFill
                  \/ p \in OffSet /\ q \in OffSet \cup OffFill

\* The handler of c goes on at p with locals r.
goto(c, p, r) ==
    /\ pc' = [pc EXCEPT ![c] = p]
    /\ req' = [req EXCEPT ![c] = r]
    /\ raced' = (raced \/ \E d \in Client \ {c} : conflict(p, pc[d]) \/ conflict(pc[d], p))

\* A handler starts, and goes on at p with locals r unless it replies at once.
enter(c, op, p, r) ==
    /\ pc[c] = "idle" /\ op \in Ops[c]
    /\ goto(c, p, IF p = "idle" THEN NoReq ELSE r)

\* The handler writes its reply; its locals are gone.
reply(c) == goto(c, "idle", NoReq)

\* The client goes away, and the next connection starts with an empty connState.
handle(c) ==
    /\ pc[c] = "idle" /\ st' = [st EXCEPT ![c] = NoTime] /\ bare' = [bare EXCEPT ![c] = FALSE]
    /\ st[c] # NoTime \/ bare[c]
    /\ UNCHANGED <<roSite, mnt, cache, pc, req, raced, refused>>

(***************************************************************************)
(* :Gt# and :Gg#: site().                                                  *)
(***************************************************************************)
site(c) ==
    /\ enter(c, "site", IF cache.lat # None THEN "idle" ELSE "readLat", NoReq)
    /\ UNCHANGED <<roSite, mnt, cache, st, bare, refused>>

readLat(c) ==
    /\ pc[c] = "readLat"
    /\ \/ goto(c, "readLon", [req[c] EXCEPT !.lat = mnt.lat])
       \/ reply(c)
    /\ UNCHANGED <<roSite, mnt, cache, st, bare, refused>>

\* Mutant: the error of the second read is not looked at.
readLonUnchecked(c) ==
    /\ pc[c] = "readLon"
    /\ \/ goto(c, "fillSite", [req[c] EXCEPT !.lon = mnt.lon])
       \/ goto(c, "fillSite", req[c])
    /\ UNCHANGED <<roSite, mnt, cache, st, bare, refused>>

readLon(c) ==
    /\ pc[c] = "readLon"
    /\ \/ goto(c, "fillSite", [req[c] EXCEPT !.lon = mnt.lon])
       \/ reply(c)
    /\ UNCHANGED <<roSite, mnt, cache, st, bare, refused>>

fillSite(c) ==
    /\ pc[c] = "fillSite" /\ reply(c)
    /\ cache' = [cache EXCEPT !.lat = req[c].lat, !.lon = req[c].lon]
    /\ UNCHANGED <<roSite, mnt, st, bare, refused>>

(***************************************************************************)
(* offset(), for :GG#, :GL# and :GC#, and for a clock set without :SG.     *)
(***************************************************************************)
offset(c) ==
    /\ enter(c, "offset", IF cache.off # None THEN "idle" ELSE "readOff", NoReq)
    /\ UNCHANGED <<roSite, mnt, cache, st, bare, refused>>

\* What offset() returned is used: for the reply, or for the clock.
useOffset(c, v) ==
    IF req[c].then = "reply" THEN reply(c)
    ELSE goto(c, "push", [req[c] EXCEPT !.v = v])

readOff(c) ==
    /\ pc[c] = "readOff"
    /\ \/ goto(c, "fillOff", [req[c] EXCEPT !.v = mnt.off]) /\ UNCHANGED refused
       \/ useOffset(c, None) /\ refused' = TRUE    \* 0 is used instead
    /\ UNCHANGED <<roSite, mnt, cache, st, bare>>

fillOff(c) ==
    /\ pc[c] = "fillOff" /\ useOffset(c, req[c].v)
    /\ cache' = [cache EXCEPT !.off = req[c].v]
    /\ UNCHANGED <<roSite, mnt, st, bare, refused>>

(***************************************************************************)
(* :St and :Sg: the mount first, and then the cache if it is filled.  A    *)
(* value that does not parse or is out of range is refused at once.        *)
(***************************************************************************)

\* Mutant: a read-only server applies the set.
setSiteAlways(c, f) ==
    /\ \E v \in Val : enter(c, "setSite", "writeSite", [NoReq EXCEPT !.f = f, !.v = v])
    /\ UNCHANGED <<roSite, mnt, cache, st, bare, refused>>

setSite(c, f) ==
    /\ \E v \in Val : enter(c, "setSite", IF roSite THEN "idle" ELSE "writeSite", [NoReq EXCEPT !.f = f, !.v = v])
    /\ UNCHANGED <<roSite, mnt, cache, st, bare, refused>>

\* The record r with v for its latitude or its longitude.
put(r, f, v) == IF f = "lat" THEN [r EXCEPT !.lat = v] ELSE [r EXCEPT !.lon = v]

setLatitude(c) == setSite(c, "lat")
setLongitude(c) == setSite(c, "lon")

\* Mutant: the error of the mount is not looked at.
writeSiteBlindly(c) ==
    /\ pc[c] = "writeSite" /\ goto(c, "keepSite", req[c])
    /\ \/ mnt' = put(mnt, req[c].f, req[c].v)
       \/ UNCHANGED mnt
    /\ UNCHANGED <<roSite, cache, st, bare, refused>>

writeSite(c) ==
    /\ pc[c] = "writeSite"
    /\ \/ mnt' = put(mnt, req[c].f, req[c].v) /\ goto(c, "keepSite", req[c])
       \/ UNCHANGED mnt /\ reply(c)
    /\ UNCHANGED <<roSite, cache, st, bare, refused>>

keepSite(c) ==
    /\ pc[c] = "keepSite" /\ reply(c)
    /\ cache' = IF cache.lat # None THEN put(cache, req[c].f, req[c].v) ELSE cache
    /\ UNCHANGED <<roSite, mnt, st, bare, refused>>

(***************************************************************************)
(* The clock: :SG, :SL and :SC, and tryApplyTime behind each.              *)
(***************************************************************************)

\* tryApplyTime: with the date and the time of day the clock is set, with the
\* client's own offset or with offset().
tryApplyTime(c, t) ==
    IF ~t.SC \/ ~t.SL THEN "idle"
    ELSE IF t.SG # None \/ cache.off # None THEN "push" ELSE "readOff"

offUsed(c, t) == IF t.SG # None THEN t.SG ELSE cache.off

setUTCOffset(c) ==
    /\ \E v \in Val :
          /\ enter(c, "clock", IF roSite THEN "idle" ELSE "writeOff", [NoReq EXCEPT !.v = v])
          /\ IF roSite THEN UNCHANGED st
             ELSE st' = [st EXCEPT ![c].SG = v]
    /\ UNCHANGED <<roSite, mnt, cache, bare, refused>>

writeOff(c) ==
    /\ pc[c] = "writeOff" /\ goto(c, "keepOff", req[c])
    /\ \/ mnt' = [mnt EXCEPT !.off = req[c].v] /\ UNCHANGED refused
       \/ refused' = TRUE /\ UNCHANGED mnt
    /\ UNCHANGED <<roSite, cache, st, bare>>

keepOff(c) ==
    /\ pc[c] = "keepOff"
    /\ cache' = [cache EXCEPT !.off = req[c].v]
    /\ LET p == tryApplyTime(c, st[c])
       IN  goto(c, p, IF p = "idle" THEN NoReq ELSE [req[c] EXCEPT !.then = "push"])
    /\ UNCHANGED <<roSite, mnt, st, bare, refused>>

\* setLocalTime and setCalendarDate leave the buffer as t.
setTime(c, t) ==
    /\ enter(c, "clock", IF roSite THEN "idle" ELSE tryApplyTime(c, t),
             [NoReq EXCEPT !.v = offUsed(c, t), !.then = "push"])
    /\ IF roSite THEN UNCHANGED st ELSE st' = [st EXCEPT ![c] = t]
    /\ UNCHANGED <<roSite, mnt, cache, bare, refused>>

setLocalTime(c) == setTime(c, [st[c] EXCEPT !.SL = TRUE])
setCalendarDate(c) == setTime(c, [st[c] EXCEPT !.SC = TRUE])

\* SetUTC, and the buffer is emptied whether the mount took it or not.
push(c) ==
    /\ pc[c] = "push" /\ reply(c)
    /\ \/ mnt' = [mnt EXCEPT !.clock = req[c].v] /\ UNCHANGED refused
       \/ refused' = TRUE /\ UNCHANGED mnt
    /\ bare' = [bare EXCEPT ![c] = st[c].SG = None]
    /\ st' = [st EXCEPT ![c] = NoTime]
    /\ UNCHANGED <<roSite, cache>>

Act(c) == \/ readLat(c) \/ readLon(c) \/ fillSite(c) \/ readOff(c) \/ fillOff(c)
          \/ writeSite(c) \/ keepSite(c) \/ writeOff(c) \/ keepOff(c) \/ push(c)

Request(c) == \/ handle(c) \/ site(c) \/ offset(c) \/ setLatitude(c) \/ setLongitude(c)
              \/ setUTCOffset(c) \/ setLocalTime(c) \/ setCalendarDate(c)

Next == \E c \in Client : Request(c) \/ Act(c)

Spec == Init /\ [][Next]_vars

(***************************************************************************)
(* Properties.                                                             *)
(***************************************************************************)

\* The types of the state.
TypeOK ==
    /\ roSite \in ReadOnly
    /\ mnt \in [lat : Val, lon : Val, off : Val, clock : Opt]
    /\ cache \in [lat : Opt, lon : Opt, off : Opt] /\ (cache.lat = None <=> cache.lon = None)
    /\ pc \in [Client -> {"idle", "push"} \cup SiteFill \cup SiteSet \cup OffFill \cup OffSet]
    /\ req \in [Client -> [f : {"lat", "lon"}, v : Opt, lat : Opt, lon : Opt, then : {"reply", "push"}]]
    /\ st \in [Client -> [SC : BOOLEAN, SL : BOOLEAN, SG : Opt]]
    /\ bare \in [Client -> BOOLEAN]
    /\ raced \in BOOLEAN /\ refused \in BOOLEAN

\* Between requests the cached site is the mount's, and so is the cached offset
\* unless the mount refused it, whatever failed, as long as no set overlapped a
\* set or a first read of the same value.
CacheAgrees ==
    idle /\ ~raced =>
        /\ cache.lat # None => cache.lat = mnt.lat /\ cache.lon = mnt.lon
        /\ cache.off # None /\ ~refused => cache.off = mnt.off

(***************************************************************************)
(* The inductive invariant behind CacheAgrees: while nothing has raced, no *)
(* two handlers are in each other's way, what a handler has read or        *)
(* written is still what the mount holds, and the cache is behind by no    *)
(* more than the write of the one handler that is about to store it.       *)
(***************************************************************************)
Filled ==
    \A c \in Client :
        /\ pc[c] \in {"readLon", "fillSite"} => req[c].lat \in Val
        /\ pc[c] = "fillSite" => req[c].lon \in Val
        /\ pc[c] \in {"writeSite", "keepSite", "fillOff", "writeOff", "keepOff"} => req[c].v \in Val

Apart == \A c, d \in Client : c # d => ~conflict(pc[c], pc[d])

ReadHolds ==
    \A c \in Client :
        /\ pc[c] \in {"readLon", "fillSite"} => req[c].lat = mnt.lat
        /\ pc[c] = "fillSite" => req[c].lon = mnt.lon
        /\ pc[c] = "keepSite" => /\ req[c].f = "lat" => req[c].v = mnt.lat
                                 /\ req[c].f = "lon" => req[c].v = mnt.lon
        /\ pc[c] = "fillOff" => req[c].v = mnt.off
        /\ pc[c] = "keepOff" /\ ~refused => req[c].v = mnt.off

stored(f) == \A c \in Client : ~(pc[c] = "keepSite" /\ req[c].f = f)

SiteHolds ==
    /\ cache.lat # None /\ stored("lat") => cache.lat = mnt.lat
    /\ cache.lat # None /\ stored("lon") => cache.lon = mnt.lon

OffHolds ==
    cache.off # None /\ ~refused /\ (\A c \in Client : pc[c] # "keepOff") => cache.off = mnt.off

CacheInv == TypeOK /\ Filled /\ (~raced => Apart /\ ReadHolds /\ SiteHolds /\ OffHolds)

\* A server built WithReadOnlySite never changes the mount's site or clock.
ReadOnlyKeeps == [][roSite => UNCHANGED mnt]_mnt

\* A client that has sent date, time of day and then the offset has set the
\* clock with that offset.
ClockOffset ==
    idle /\ ~refused => \A c \in Client : bare[c] /\ st[c].SG # None => mnt.clock = st[c].SG
=============================================================================
