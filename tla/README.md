# A TLA+ model of the lx200 library

The repository is a Go library for telescope mounts that speak the Meade LX200
command family, with drivers for four vendors, a TCP bridge that lets planetarium
programs use a mount, and a firmware loader for one of the vendors. This directory
holds TLA+ modules of the parts in which something can go wrong that a unit test would
hardly reach, the TLC configurations that check them, and TLAPS proofs of the main
results.

## The system

| part | state it keeps | operations | hard because |
|---|---|---|---|
| command channel (`lx200.go`, `commands.go`) | `Conn.mu`, `Conn.opMu`, whatever the mount has sent and nobody has read | `Blind`, `Ack`, `AckByte`, `Get`, `Await`, `GetMatching`, `SlewNack`, `Slew`, `OpLock` | replies and unsolicited tokens share one stream; a command is atomic, a sequence of them is not; a read that times out leaves its reply for the next |
| RST driver (`rst/rst.go`, `rst/misc.go`) | `slewing`, `lastPeek`, `lastFault`, `homeFound`, `home`, `unparked`, `parking`, `moving`, `homeCapturePending`, `parkStopPending`, `pulsing`, the target, the cached latitude | coordinates, `SetTarget*`, the slews, the syncs, `Halt`, `Slewing`, tracking, `FindHome`, `Park`, `Unpark`, `MoveAxisRate`, `StopAxis`, `PulseGuide` | the end of a motion is a pushed token that whichever read comes first must route; work a token implies is put off to a later read; no lock spans a check and the command it guards |
| RST Alpaca members (`rst/alpaca.go`) | `unparked` | `AlpacaAtPark`, `AlpacaAtHome`, `AlpacaPark`, `AlpacaUnpark`, `AlpacaFindHome` | check-then-act over the driver |
| AM-series and OnStep drivers (`am5`, `onstep`) | `cached`, `cachedAt`, `parked` | status reads, commands that invalidate | a status read before a command and used after it; the primitive must fit the answer |
| 10Micron driver (`tenmicron`) | the status cache, `moving`, `pulseUntil`, `south` | some 200 methods, `MoveAxisRate` with its deferred restore | a lock held across a query; a bracket around a move that may fail half-way |
| RST firmware loader (`rst/boot`, `cmd/rstflash`) | the frame decoder | `Connect`, `DetectAppBase`, `Erase`, `Program`, `ReadCRC`, `Verify`, `Run`; the sessions flash, identify, crc, info | retries after a timeout, stale acknowledgements, erased flash, power |
| bridge, targets (`bridge/bridge.go`) | `connState` per client | `setTarget`, `gotoTarget`, `syncTarget` | clients in parallel on one target register; the mount reconnects |
| bridge, site and clock (`bridge/bridge.go`) | `siteLat`, `siteLon`, `utcOff`, `haveSite`, `haveOff`, buffered date, time and offset | `site`, `offset`, `setLatitude`, `setLongitude`, `setUTCOffset`, `setLocalTime`, `setCalendarDate`, `tryApplyTime` | a cache filled by one client while another sets; a clock set in three messages |
| bridge, reads and dispatch; discovery; sexagesimal formats; serial ports; tools | none between calls | pass-through, sweeps, conversions | see "Not modelled" |

The bridge calls a mount through `MountFunc`, once per operation, and takes the
mount's `OpLock` around a target and the slew that goes with it. The drivers send
every command through `Conn`, which holds `Conn.mu` from the write to the end of
the read that belongs to it. Mount state is under each driver's own `mu`, which the RST
driver never holds across a read and the others hold for a whole status read.

What makes the parts correct: the device executes only whole targets of one
client; a success reply is true; a goto or sync never reaches an RST that has no
home reference; nothing interrupts a home seek; `Slewing` tells the truth and ends;
a park ends not tracking, and a parked mount does not home; the recorded home is home;
caches are not older than what a client was told; every method reads exactly the answer
its command gets; what the loader reports is what the flash holds.

## The modules

### The bridge

* `AtomicTarget` - what a shared mount promises: a device that takes a client's
  whole target in one step.
* `BridgeGoto` - the goto and sync path. `tgt` is `connState`'s
  target, `pc` the place of each client's goroutine between `gotoTarget` and the
  reply, `hnd` the mount it got from `MountFunc`, `opMu` the `OpLock` of each
  connection (a reconnect makes a new one), `reg` the device's target register.
  Each device command may succeed, be refused, or be executed and lose its reply.
  `syncTarget` differs from `gotoTarget` in its last command and in its wording, so
  one action, `act`, stands for both verbs. Success of the last command is taken as
  the driver reports it.
* `BridgeSite` - the site, offset and clock handlers. `cache` is what `Server` keeps,
  `st` the date, time and offset buffered in `connState`, `req` the locals of a
  handler. Each call on the mount and each critical section of `Server.mu` is a step; a
  call may find the mount gone or be refused. `raced` records that a set has overlapped a
  set or a first read of the same value, `refused` that an error was dropped: the
  properties are stated relative to these, so they also say that there is no other way to
  go wrong.
* `MCBridgeGoto`, `MCBridgeSite` - instances for TLC; `BridgeGotoProofs`,
  `BridgeSiteProofs` - theorems.

### The RST driver

* `RstMount` - the driver and its Alpaca members on their channel. `m` is the `Mount`
  struct (without the target), `connMu` is `Conn.mu`, `inbox` the unread frames,
  `fw` the mount. A caller is a goroutine; the operation it is in is a list of steps,
  `todo[c]`, each one command, one read or one critical section, so that callers,
  the mount, the pulse goroutine and time interleave everywhere the code lets them.
  `program` gives the list for each operation; a step may put further steps in front
  (`maybeCaptureHome` puts a whole coordinate read there, and that read a `get` with its
  own `maybeCaptureHome`) or drop the list (an early return). `told` is what `Slewing`,
  `AlpacaAtPark` or `AlpacaAtHome` last returned to a caller.
* `MCRstMount` - the callers of each run. `RstMountProofs`, `RstSessionProofs` - the theorems.

Data is abstracted to what the properties tell apart: a position is home, park or
elsewhere; a frame is its verb and a value; the faults `:MML#`, `:MMU#`, `:MME#` are
one (`MMU`), `:CH0#` and `:CH<#` another (`CH<`); the four coordinates of a home
capture are one read; `Park`'s target is the pair `SrP`, `SdP`; the cached latitude is
there or has to be asked for. A status byte has no
terminator, so one that nobody read is read as part of the next frame, and an `Ack`
that finds a frame takes its colon for the verdict, as the code does.

The mount itself is not in the repository. Its behaviour (`obey`, `arrive`, `seekEnd`,
`verdict`) is taken from the driver's comments and tests: `:MS#` and `:MA#` are silent
when accepted and echo their verb when refused, a goto ends tracking with `:MM0#`, a goto
to where the mount stands may end at once with no token at all (`zeroGoto`; `rst/rst.go:943`,
`rst/rst_test.go:1029`), a seek ends with `:CHO#`, `:Ch#` with tracking on fails, `:Q#` during a seek wedges
the mount, manual moves and pulses push nothing, the axes of a mount on its way may
read like any position. `fw.mute` says that the last motion was such a goto without a
token. The pulse goroutine's `:Q#` and its clearing of `pulsing` are one step
(`pulseEnd`): `pulsing` is looked at by patient callers only, who wait while it is set.

### The other drivers

* `Steps` - the vocabulary: a method is a script of commands, each with the primitive
  of `Conn` that reads its answer and with where the method goes on after an
  acceptance, a refusal or an error, and of changes to what the driver remembers.
* `Am5`, `OnStep`, `TenMicron` - the methods of the three drivers as scripts, with the
  facts about the mounts they talk to: which commands are silent, which are answered by a
  bare byte, which by a byte and, outside the `:U2#` mode, a text as well (`Dated`: the 10Micron's
  `:SC#`), and what they do.
* `Driver` - goroutines running scripts on one connection. `conn` and `mu` are the two
  locks, `line` and `late` the bytes that can and that cannot yet be read, `cache` the
  status cache with the version of the status it was made from, `mem` the manual-move
  flags, `pulseUntil`, the hemisphere and the park flag, `mnt` the mount (with its precision mode and
  where it has its site from), `floor` the status version the methods that
  have returned have led to, `user` the speed correction as its user set it. `loose` is set when the
  stream can no longer be trusted: an answer came after its timeout, `SetDate` was used after the
  precision selectors had left the mode `Connect` sets, or a write failed with a start-up line of
  the controller still unread. `Sound`, its negation, is a condition of most properties, each of which is
  false after such an event: the primitives have no means to tell whose answer they read.
* `MCDriver` - the three drivers as instances. `DriverProofs`, `DriverCacheProofs`,
  `DriverMemoryProofs` - theorems.

What the scripts of all three drivers have in common is stated in `Driver` as assumptions,
which TLC evaluates on the tables in the `driver` runs: a command is sent with
the primitive that reads its answer (`FitAssumption`), `status()` ends by storing
(`FetchAssumption`), what changes the status ends by invalidating the cache on every branch
but an error (`SettleAssumption`; it leaves out `Halt`, `SetHome` and the moves by hand, which in
the AM-series and OnStep drivers no invalidation follows), a getter changes nothing (`ReadAssumption`), what
changes a value the driver keeps a copy of is followed by the step that records it
(`FollowAssumption`), and opening a 10Micron asks for the hemisphere
(`InquireAssumption`).

What an answer says, beyond accepting and refusing, is left out, so a getter is its
command and its primitive. Methods that send the same kind of command the same way are one
line of a script set; each command is named.

### The loader

* `BootFlash` - a session of `rstflash` as the commands it sends, `boot.Client.do` and
  `await` with their retries, the two wires, and the controller. Flash is a row of cells, a
  checksum stands for the content it was computed from, a frame is its place in
  the script. A frame may be lost (a damaged one is dropped by the decoder), an answer may
  come after its timeout and be taken for the answer of a later command, the port may fail,
  the power may be cut, and the user runs the program again, after a power cycle, as its
  messages ask for (`again`; a rerun after `-info`, `-crc` or `-identify` without one, with an
  answer of the old session still on the wire, is not modelled).
* `MCBootFlash` - three images of two families. `BootFlashProofs` - the
  theorems.

## The runs

| run | instance | shows |
|---|---|---|
| `bridge_goto` | 2 clients, 2 RAs, 2 Decs, 1 reconnect | `WholeTarget`, `ToldMeansMoved`, `EveryGotoAnswered`, the refinement `Atomic`, and the invariant the proof uses |
| `bridge_site` | 2 clients, 2 values, with and without `WithReadOnlySite` | `CacheAgrees`, `ReadOnlyKeeps`, and the invariant the proof uses |
| `bridge_clock` | 1 client that sets the clock | violates `ClockOffset` |
| `rst_session` | 1 patient caller, all operations but manual moves, refusals, faults and gotos without a token | `PollTruth`, `ParkStops`, `AlpacaTruth`, `AlpacaHomeTruth`, `ParkHeld`, `HomeIsHome`, `SeekUninterrupted` |
| `rst_shared` | a patient caller with moves and pulses, and a poller | `NoPhantomSlew`, `PollTruth`, `SlewingEnds` |
| `rst_gate` | 2 impatient callers, late replies and verdicts, failed seeks | `HomeGate`, `HomeInv` |
| `rst_stop_axis` | `StopAxis` in a seek | violates `SeekUninterrupted` |
| `rst_home_capture` | `MoveAxisRate` after a home | violates `HomeIsHome` |
| `driver` | every method of three drivers, two in a row, beside a reader of the status | `InStep`, `FreshAfterCommand`, `PulseCovered`, `HemisphereKept` |
| `driver_faults` | the 10Micron methods with a half-way point and a status reader, any refusals and one failed write or late answer | `LocksPass`, `JogSeen`, `CorrectionRestored`, `CallsEnd` |
| `boot_flash` | 2 sessions, 3 faults each, 3 images, 3 cells | `OkMeansInstalled`, `RunsWhole`, `FamilyGuard`, `Unharmed`, `IdentifyFinds`, `OneFaultTolerated`, `SessionsEnd` |
| `boot_recover` | the same | violates `Recoverable` |

A *patient* caller commands the mount only after `Slewing` and `IsPulseGuiding` have
told it that it stands, which is how `README.md` of the repository says to use an RST
("Poll `Slewing` for completion"). What the passing RST runs assume beyond that is in
`Env`, and each assumption has its own reason: a goto outlasts the call that starts it
(`shortSlew` lifts this; no run does), replies are
in time in the runs other than `rst_gate` (a late `:AH#` reply lets `Halt` through by
design), one caller commands (the driver has no lock across a check and its command;
the hazards list the races two callers have). A goto without a token is in all of them;
`NoPhantomSlew` and `SlewingEnds` make an exception of it (`fw.mute`), without which TLC finds both
violated: `Slewing` may say yes for ever.

Some properties of the drivers make exceptions too, all stated in the formulas. `FreshAfterCommand` counts the
commands that an invalidation follows, which `SetHome` of the AM-series and OnStep drivers is not.
`HemisphereKept` is about a site that `Connect` read or `SetSiteLatitude` set, not one that the mount took from
its GPS. In `CorrectionRestored` a restore that is itself refused or not written makes what it leaves
the user's setting, as the code throws its error away; a move that fails or is refused before that is
no exception. And all but `PulseCovered`, `JogSeen`, `LocksPass` and `CallsEnd` are for a `Sound` stream.

**Bounds.** `MaxSkip` 3 and `MaxDrain` 8 are the code's; `rst_gate` lowers them to 1 so
that the retry of `get` and the end of `drainStale` happen with few frames. `MaxInbox` 2
leaves room for a token and a reply, or two tokens, when a call starts; one more
frame would differ only in how often the loop of `GetMatching` turns. `MaxPulses` 1 is one
pulse at a time. `MaxNest` bounds how deep home captures nest when a seek ends inside the
capture of the one before: each seek needs a caller that starts it. In `BridgeGoto` two
clients and one reconnect are the smallest instance in which targets mix and a handle
goes stale. In `BridgeSite` one client sets everything and the other reads and sets the
site; two values tell a stale one from a current one. In `Driver` two calls in a row let what the
first leaves on the line meet the second; `TTL` 1 lets the cache be good and run out,
`MaxPulse` 2 lets a short pulse overlap a long one; in `driver_faults` one fault is one place at which
a method breaks off, and a second call meets what it has left behind. In `BootFlash` `commandRetries` 3 is the
code's, three cells with one below `AppBase150` give both families more than one record,
and three faults exhaust the retries of one command or spread over several. The theorems
remove the bounds. No run uses symmetry: several check liveness, and the callers of the others
differ.

**Deadlock** is checked in the bridge and RST runs, where some caller or client can always
call something. The `driver` and `boot` runs say `CHECK_DEADLOCK FALSE`, since the number of
calls and of sessions is bounded and the system then rests; that no call gets stuck is
`CallsEnd` and `SessionsEnd` there.

**Fairness.** `BridgeGoto`: Go's `sync.Mutex` hands the lock to its longest waiter
after a millisecond, hence strong fairness of `withOp`; every command ends by a reply or a
timeout, hence weak fairness of the steps under the lock. `RstMount`: a goroutine in an
operation goes on, time passes, the mount ends a motion it has begun, and callers keep
polling `Slewing` (strong fairness of that call, as other calls may keep a caller busy).
`Driver`: strong fairness of each client's steps, for the same mutexes; the mount owes
nothing, as a read times out. `BootFlash`: weak fairness of the host, whose reads have
deadlines, and of the controller, because early timeouts are bounded: it answers, or the
command times out.

## The proofs

All are for every value of the constants: any number of clients, callers, values, images,
cells, retries, faults and sessions.

`BridgeGotoProofs`, from `ConstAssumption` (the markers for "none" are not members):
`GotoInv` is inductive. `WholeTarget` is not inductive by itself: that the register holds
the client's RA when its Dec is written needs that nobody else can write in between
(`HoldersHold`), that a client with a stale handle cannot reach the device
(`HandleNotAhead` with `reachable`), that the target does not change while its client
waits (`Buffered`), and what the register holds at each step of the holder
(`RegisterMine`). `WholeTargetTheorem`, `ToldTheorem`, `GotoTypes` and `Refinement` follow from it: `act`
is a `Commit`, `setTarget` and `handle` are `Buffer` steps, the rest stutter.

`BridgeSiteProofs`, from `SiteAssumption`: `CacheInv` is inductive. `CacheAgrees` speaks of
moments at which no handler is under way; in between, a handler carries a value it has read
or written and not yet stored. The invariant says that until something has raced no two
handlers are in each other's way (`Apart`), that what a handler carries is what the mount
holds (`ReadHolds`), and that the cache differs from the mount by at most the one write
about to be stored (`SiteHolds`, `OffHolds`). `ReadOnlyTheorem` needs only that a read-only
server never enters a handler that writes.

`RstMountProofs`, from `RstAssumption`:
`HomeGateTheorem`. The argument: a step that sends `:MS#`, `:MA#` or `:Ck#` is `slewCmd`'s
(part of the type of the step lists, so `TypeOK` must be proved along with it, for every
list `program` builds and every way a step rewrites a list); `slewCmd` sends only under
`homeFound`; `homeFound` is set by a `:CHO#` token only, and every such token,
in the inbox or read and not yet applied, was sent by a mount that had found its home
(`HomeInv`). The inductive invariant is `GateInv`, these facts sorted by variable. It covers late
replies, lost tokens, retries and races between callers, since none of them makes a token.
`HomeGate` is conditional on `Careful`: no caller uses `SlewToTargetAlt` or `SyncCurrent`,
which send a goto and a sync without `requireHome`. The theorems cover all operations,
including the four no passing run uses (`Move`, `SlewToTargetAlt`, `SyncCurrent`, and gotos
shorter than the call that starts them).

`RstSessionProofs`, from `RstAssumption`: `SeekTheorem`, `PollTheorem`, `HomePositionTheorem`,
`AlpacaTheorem`, `AlpacaHomeTheorem` and `ParkHeldTheorem`, for one caller in the setting `Lone`, which the `rst_session` run is an instance of. It has the patient caller,
refusals, faults, gotos without a token, unsolicited tokens and lost answers; it leaves out the operations that move
an axis by hand, `SlewToTargetAlt`, late replies and late verdicts, each of which breaks one of the
properties (TLC has the counterexamples; the findings are among them), and slews shorter than
the call that starts them, which leave a latch no token clears; and it bounds the unread frames
below the three that `get` skips. None of the properties is inductive. That `:Q#` finds no seek
depends on the answer to `:AH#` two steps before, which `GetMatching` picks out of other
frames; that no seek starts meanwhile, on the list of steps the caller is in; that `Slewing`
is right, on which token is where. `SessionInv` is therefore in two parts. `Shape` says how
the list of steps of any operation is put together, at every point of it: a
check of `Homing` directly behind its query, a stop directly behind its check, a goto
followed by the latch and by nothing more than a park. `GoodProgram` shows it of every
operation and `ShapeTail`, `ShapeJoin` and `ShapeHead` of every step. The rest relates the
line, the latch and the mount: a mount that moves is latched or about to be (`Latched`), at
most one token that ends a slew exists, on the line or read and not yet applied, and the slew
it ends is the last one (`Unique`, `Terms`, `Token1`), refusals are read by the slew they are
for or with nothing moving (`Refused`), an answer that a query waits for is on the line behind
no more frames than it will skip and says of a seeking mount that it seeks (`Answer`, `Bound`),
and where a stop or a seek is about to be sent nothing unread can contradict the check (`PastOK`,
`Seek`). There is a lemma per action, and a plainer form of the invariant (`Plain`) for the
many steps at which nothing is relied on.

For `HomeIsHome` a second invariant, `CaptureInv`, is kept on top of the first. The token that
ends a seek is read by any later call, sets a flag, and the coordinates are read and stored by
another: until the token is applied the mount stands where the seek left it, with its latch
set, and nothing has been asked that would let a caller send it away (`Found`, `FoundPast`,
`FoundAsked`); while the flag is up the mount is at home, or a start is under way whose next
step takes the flag down (`Pending`); and a list of steps with a capture in it finds
the mount at home until the capture is done, so the coordinates on the line are those of home
(`Capturing`, `Captured`).

For `AlpacaTruth` and `AlpacaHomeTruth` a third, `AlpacaInv`, also on top of the first. `AlpacaAtPark` looks at the driver's own flags,
then asks for the axes, and the step that uses the answer comes some reads
later. `Story` says of every list of steps that an answer is used directly behind the question,
that nothing but questions stand before a step that uses one, and that the flags are looked at first;
it is kept because a step only ever gives up, goes on, or puts questions in its own place (`RunGoes`).
`Settled` says that flags found down are those of a mount at rest, which is `Latched` of the first
invariant; `Standing` that it stays at rest until the answer is used, with the axes on the line
where it is; `Truly` that the answer is then so, or none.

`ParkHeld` needs besides that `AlpacaAtPark` does ask, which is a matter of earlier calls. `HeldInv`
says that a `Park` that has succeeded found a home reference and ended an `Unpark` of before (`Homed`,
`Stowing`: a park still to be recorded is behind its own `requireHome` and its own slew), and that a seek
that is planned while the mount is held is still behind the check, with no "not parked" found so far
(`Seeking`). The check then finds "park" or no answer and gives up, so a list that has come
to its `:Ch#` is one of a mount that is not held.

`BootFlashProofs`, from `BootAssumption`: `FlashInv` is inductive. `OkMeansInstalled` says of
the end of a session what must be known of every frame on the wires before it: frames keep
the order of the script in both directions (`Order`), so no program frame, first try or
retry, is behind the `ReadCRC` of `Verify`, and therefore an answer to it, early or late, is about the flash as it
still is (`Checksums`). `Guard` says the same of the first checksum and the family. `Progress`
ties outcomes to places in the script. `InstalledTheorem`, `RunsTheorem`, `GuardTheorem`,
`UnharmedTheorem` and `FlashTypes` follow.

The second part of the module counts what is on the wires. As long as no command has timed out before its
answer, the frame that is waited for, or its answer, is alone there (`Single`): an attempt is
repeated only when nothing of it is left. So `doIdentify`, whose three checksums echo the
same command, is never given one for another (`Reads`, `IdentifyTheorem`).
`OneFaultTheorem` covers a lost frame and an early timeout. After the first `Single` still
holds and the attempts made are bounded by the faults and the frames on the wires (`Prompt`).
After the second the session is one frame ahead of the answers: the first frame on the wires
may be a second answer to the command before, every other one is of the command that is
waited for, and one of those is there (`Late`), so it cannot be lost without a second fault.
An answer that is taken for that of a later record is then the acknowledgement of
the record before, while the later one is still on its way; `Programs` says that
every record the session has left behind is in the flash or ahead of the checksum on the
wire, and that no cell is programmed twice with different contents. The theorem assumes two
attempts of each command; the code makes three (`commandRetries`), and of `ReadBootInfo`
`timeout / connectRetryEvery`, 300 by default and one when `-wait` is below 400 ms.

The three modules about `Driver` rest on the assumptions above and not on the tables, so
they hold for every driver whose scripts keep them, with any number of goroutines and calls.
The assumptions are about scripts as written; the invariants are about what interleaving,
errors and skips leave of them, so each starts with lemmas on the rest of a script
(`Suffix`, `Goes`, `RestFits`, `PendingRest`, `RestFollows`).

* `DriverProofs`: `TypeCorrect`, `LocksSafe` and `StreamInStep`. `LocksPass` is not inductive:
  that the holder of `Mount.mu` has only queries and the store ahead of it needs that it
  is inside `status()` and that every branch there leads to the store or out (`LockInv`). `InStep`
  needs `WireInv`: while the stream is sound the line holds the whole answer to the one command that is
  being read, and nothing, or what the mount printed before the driver was opened, when none
  is. `Core` is the conjunction of these with the types; the other two modules build on it.
* `DriverCacheProofs`: `StatusFresh`. A version of the status is *covered* when the cache is
  empty or no older, and the same holds of the answer a reader of the status has on the line or in
  its hands. `FreshInv` says that what has returned is covered, and what a method under way has
  changed is covered or has its invalidation still ahead (`SettleInv`). A status read
  that began before the command is kept from filling the cache after the invalidation by
  `Mount.mu`, which the invalidation must wait for.
* `DriverMemoryProofs`: `JogsSeen`, `PulsesCovered`, `HemisphereTold` and `CorrectionReturns`. The
  properties speak of moments with no command under way; `JogInv`, `PulseInv`, `SouthInv` and `CorrInv`
  say at which place of a script, and with which answer on the line, the driver may be behind its mount.
  The first two hold with every fault: the commands that move and stop an axis and the pulses are
  blind, so one that was sent is followed by its record with no answer in between. The other two are for
  a sound stream, as an acceptance that comes late changes the mount and not the driver. `CorrInv`
  follows a bracketed move over its refusals and failed writes: from the `:SSC0#` on, the restore is the next step
  or is due when the call returns, and nothing in between touches the correction. These theorems assume one commanding goroutine,
  with any number of readers: no lock spans a command and the step that records it, so two
  commands may be recorded in the other order.

Only model-checked: liveness (`EveryGotoAnswered`, `SlewingEnds`, `CallsEnd`, `SessionsEnd`),
which is beyond the prover; `NoPhantomSlew` and, of the action properties of
`RstMount`, `ParkStops`, and the properties of `RstSessionProofs` for more than one caller.
`NoPhantomSlew` is false in the setting `Lone` (an old token in the window of a refused goto) and
`ParkStops` would take a further invariant on which bytes may stand before the token of a park's arrival.

## What the checks found

Four violations, each with a run, quoted in `PROJECT.json`: `StopAxis` and the end of a
pulse interrupt a home seek; a manual move does not cancel a home capture; an interrupted
flash of a 135-family controller cannot be repeated, as its erased flash is taken for the
other family; a clock set whose offset comes last uses the offset from before.

Met while modelling, without a run of their own; where a property makes an exception for one of these,
TLC finds the property violated without it:

* A goto to where an RST stands gives no token, as `rst/rst.go:943` ("a zero-distance move may produce no
  completion token") and `rst/rst_test.go:1046` ("a zero-distance goto never completes") say, and
  `Slewing` then stays true until `Halt` or the token of a later slew, although the README says "Poll `Slewing` for
  completion". `Park` avoids such a goto; `SlewToTarget`, `SlewToAltAz` and `SlewToPole` do not.
  (`NoPhantomSlew`, `SlewingEnds`: `fw.mute`.)
* `AlpacaAtHome` "reports that the mount has homed this power-cycle" by its comment (`rst/alpaca.go:29`) and
  whether the mount stands at home by its code: of one that has homed and has been slewed since it says no.
  `AlpacaHomeTruth` is what the code promises.
* `SetHome` of the AM-series and OnStep drivers (`am5/am5.go:168`, `onstep/onstep.go:260`) does not invalidate the
  status that `AtHome` is answered from, against "invalidate it after commands that change it"
  (`DRIVERS.md:43`). (`FreshAfterCommand`: the commands that count.)
* `UpdateFromGPS` of the 10Micron driver (`tenmicron/sitetime.go:269`) leaves `southern` as it was, which is to say that
  the "site is in the southern hemisphere" (`tenmicron/tenmicron.go:35`) and which `SetSiteLatitude` keeps
  current. (`HemisphereKept`: `mnt.site`.)

* `SlewToTargetAlt` and `SyncCurrent` have no `requireHome`, while `rst/rst.go:198` says that
  slews are gated, and the goto is not latched, so `Slewing` says no while it runs.
* `Move` is `Conn`'s: after the bridge's `:Mn#` `Slewing` of an RST says no.
* A goto shorter than the window in which a refusal is awaited, and an old token in that
  window, latch `slewing` for good.
* `AlpacaUnpark` "resumes tracking" by its comment (`rst/alpaca.go:77`) and sends nothing.
* `AlpacaPark` of a mount that is parked and has been set tracking returns without stopping it.
* `Halt` and the manual moves of the AM-series and OnStep drivers are `Conn`'s and do not invalidate the status
  cache.
* `SetDate` of the 10Micron driver reads one byte, which is the whole answer in the `:U2#` mode only
  (`tenmicron/sitetime.go:168`): after `SetPrecisionLow`, `SetPrecisionHigh` or `TogglePrecision`, which say "use these
  with care" (`tenmicron/system.go:9`), the rest of the answer meets the next command.
* A start-up line of an OnStep controller stays on the line when the pokes that would flush it cannot be written.
* An erase whose acknowledgements are all lost is reported as "the mount still has its old
  firmware" (`cmd/rstflash/main.go:121`).

## Not modelled

* RST getters, tables and sites, and the satellite and catalogue families: one command, one
  reply, nothing kept. `SiteLatitude` stands for the getters that go through `get`.
  `StarAlign`, `MotionP` and the debug commands have effects on the mount that the code
  itself calls not established.
* The bridge's reads, manual motion and dispatch pass one call through.
* Discovery (`FindMatching`, `Discover`, the sweep of `am5`), serial ports, the command-line
  tools other than `rstflash`, the test doubles: input and output, no state between calls.
* Sexagesimal formats: floating-point rounding, which TLA+ has no numbers for.
* In the loader the parsing of hex files, the addresses inside an image and the byte stuffing of frames.
* Wording, logging and number formatting.

## Plan

1. `ParkStops` for one patient caller, on top of `SessionInv`.
2. Two commanding RST callers under `OpLock` (park stop against a new goto, `Halt` against
   `FindHome`), and what the driver guarantees them.
3. The bridge on top of the RST driver: `BridgeGoto`'s device replaced by `RstMount`.
