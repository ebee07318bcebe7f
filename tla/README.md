# Conference operator: TLA+ specifications

Conference operator runs the rooms of a conference day. A **hub** (`apps/hub-server`) holds the
programme, the state of the talks, the commands, the social wall, the registers of what was filmed
and edited. Each room has a **room client** (`apps/room-client`, an Electron shell around a core in
`src/core`) that drives OBS, the projector and the operator's panel, and that must go on working when
the hub cannot be reached. **Workers** (`apps/vod-montage`) edit the films. Phones (`apps/control-web`)
and the console (`apps/hub-admin`) call the hub.

These modules specify the parts of it where several actors, failures and orders of events meet. They are
checked with TLC on small instances; the safety properties of the two paths between a room and the hub, of the montage queue,
of the uploads and of the social wall, and the main ones of the rooms' day, are also proved with TLAPS, for every value of their constants. Paths are relative to `src/`; `RC` stands for `apps/room-client/src/core` and `HS`
for `apps/hub-server/src/services`.

## Inventory

| Part | State it keeps | Operations | Talks to | What makes it correct |
|---|---|---|---|---|
| Upward delivery: `RC/outbox.ts`, `RC/outbox-pump.ts`, `HS/ingest.ts` | SQLite queue of numbered events; the pump's batch; the hub's `ingest_event`, `room_state`, `session_consent`, `wall_impressions` | enqueue (collapse, saturation), claim, push, ack, reject, defer, expire; ingest; pair, disconnect | HTTP, at least once | nothing required is lost; a replay changes nothing; an older answer never replaces a later one |
| Command stream: `HS/commands.ts`, `RC/hub-link.ts`, `RC/runtime.ts`, `RC/store.ts` | the hub's numbered table; the room's applied set and last number; the outcome of a phone's last gesture | publish, backlog then live, apply, mark, expire, forget, report | one websocket, resumed from the last number | no command skipped, in order, once; the outcome told is that of the last gesture |
| Montage queue: `HS/montage.ts` | jobs, leases, workers | enqueue, claim, heartbeat, upload, complete, fail, analyse, validate, cancel, expire, revoke | workers that poll, the object storage | an old lease has no effect; a fatal job stops; what is finished is there |
| VOD upload: `RC/upload.ts`, `HS/vod.ts` | the room's queue of rushes and its pass; the hub's register; multiparts | request, cancel, begin, sign, put, progress, complete, abort, housekeeping, sweep | hub and storage, both failing | what is shown as finished is at the storage, whole |
| Control lock: `HS/control.ts` | a row per room | hold, renew, force, release, sweep | phones | one phone at a time; the badge follows the lock |
| Sessions and pins: `HS/sessions.ts`, `HS/pins.ts`, `packages/room-state` | status and dates of talks, forced talk, swapped slots, the room's copy | start, end, reset, pin, swap, undo the swaps, automatic end | commands, sync | a talk runs in one room, its state reaches the room, a pin never outlives its talk |
| Programme and position: `packages/program`, `packages/room-state` | none: functions of the programme, the clock, the talks' states and the forced talk | position, badge, target of the buttons, shared breaks, effective end; the questions and steps of a start and an end | every surface reads them | what is shown and what the buttons reach agree; a break fits where it is inherited |
| Recording: `RC/recording.ts`, `RC/room-app.ts`, `RC/obs.ts` | the open take and its segments, markers; who waits for OBS's path | start, split, stop, stop from OBS, close, adopt | OBS | an open take is one OBS records; every file of it that the disk has in one sidecar |
| OBS drivers: `RC/obs.ts`, `RC/obs-transport.ts`, `RC/obs-canvas.ts` | link, scene on air, transition, switches that wait, watchdog | connect, switch, hear, look, repair | OBS websocket | no transition cut short; the last scene asked stays; a frozen source is repaired |
| Social wall: `HS/wall.ts`, `HS/wallsio.ts`, `HS/social.ts`, `RC/room-app.ts` | rows and their moderation, cursor of the poll, the screen and its revision; the room's copy and its feed | poll, ingest, post, moderate, force, notify, fetch, stream | walls.io, rooms | what is rejected does not come back, nothing unvetted is shown, every copy catches up |
| Pairing: `RC/pairing.ts`, `auth.ts`, `HS/rooms.ts` | device code, token, client id | request, poll, slow down, approve, revoke | hub | a machine ends with the token of the room it was given |
| Others: upload regulator, VOD index, assets, themes, displays, integrations, audit, consoles, shared packages | | | | pure transformations, I/O or user interface; see "What is not modelled" |

Where it is hard:

* **At least once, out of order.** The pump defers a failed batch for a delay drawn per row; newer events pass it.
  A request the room gave up on may still reach the hub.
* **Two numberings.** The hub can be reinstalled or restored: its command numbers start over while the room remembers the old ones.
* **Await between read and write.** `montage.ts` and `vod.ts` read a row, wait for the storage and write the row; any other call may come between.
* **Silent clients.** Leases, housekeeping and locks run out on a clock while the holder is merely slow.
* **Restarts of one side** while the other keeps what it read.
* **Answers and events on one socket.** OBS answers requests and reports what it does by itself, in an order that no code controls; a stop, a
  split and a fade may come from its own buttons.
* **Two rules for one day.** The badge, the buttons, the countdown and the sweep each read the programme, with gaps, implied ends, inherited breaks and forced talks.

## Modules

| Module | Role |
|---|---|
| `DeliveryPromise` | what a room promises of the events it emits, without queue or network |
| `UpwardDelivery` | queue, pump, network, ingestion, pairing and restarts; refines `DeliveryPromise` |
| `MCUpwardDelivery` | its instances for TLC |
| `UpwardDeliveryProofs` | theorems on `UpwardDelivery` |
| `CommandStream`, `MCCommandStream` | commands, stream, record, forgetting, outcomes |
| `MontageQueue`, `MCMontageQueue` | jobs, leases, calls that wait for the storage |
| `VodUpload`, `MCVodUpload` | the room's pass, the hub's register, the storage |
| `RoomDay`, `MCRoomDay` | the talks' lifecycle, forced talks, swapped slots, the control lock, and a room's copy of them |
| `Capture`, `MCCapture` | a room's takes and the OBS that records them |
| `SceneSwitch`, `MCSceneSwitch` | the scene on air, the switches that wait, the watchdog |
| `SocialWall`, `MCSocialWall` | walls.io and the audience, moderation, the hub's wall, a room's screens |
| `Timeline` | the position of a room in its programme, the effective ends, the shared breaks: functions, without state |
| `TalkDriving`, `MCTalkDriving` | a day of one room on top of `Timeline`: the clock, the sequences of a start and an end, the sweep, corrections |
| `UpwardDeliveryProofs`, `CommandStreamProofs`, `MontageQueueProofs`, `VodUploadProofs`, `RoomDayProofs`, `SocialWallProofs`, `SceneSwitchProofs`, `CaptureProofs` | theorems on the module they are named for; `CommandStreamProofs` also holds those on `TalkDriving`, which it extends beside `CommandStream` (hence `DrivingInit`, `DrivingSpec` and the like) |

The modules meet where the code does: the events `UpwardDelivery` carries and the commands `CommandStream` carries are those the others
emit and undergo; `RoomDay` takes from `CommandStream` that commands are neither skipped nor reordered; `TalkDriving` takes the statuses `RoomDay` keeps in step
as one table, and of a take only what `Capture` establishes (one is open or not). They share no variable and are checked apart.

Operators named `Definition_Variant` and marked *mutant* are wrong variants of the definition that follows them; no
specification uses them. Each is a plausible slip of the code and breaks the property it is meant for: they are there
to show that the properties can tell.

### UpwardDelivery

An event is named by its `seq`, which the store persists and never reuses: `written[s]` is event `s`, the queue is a set of
numbers. `Enqueue` is `Outbox.enqueue` with the collapse by `dedupKey` and the saturation check every `BackpressureEvery`
calls; `Drain` is the start of a pass (expiry, journal, claim); `Receive` is the hub's handler (validation, insertion, projection in one transaction)
and `Settle` what the pump does of the answer; `Fail` is the push that throws, before or after the hub applied it.
`GiveUp` leaves the request either lost or in `late`, from where `ReceiveLate` lets it reach the hub after newer ones.
`Connect`, `Repair` and `Restart` are the room application's handlers: `queueRoom` is the room of the `Outbox` object, `settingsRoom`
the one on the disk and `tokenRoom` the one of the credentials, which the code keeps apart.
Time is reduced to what is compared: rows are due or deferred, and expired rows are the oldest of their policy.

### CommandStream

A command has an identity (order of issue) and a number (rank in the table). They part when `Restore` cuts the table. `Open`
and `Take` are the loop of `hub-link.ts`: `Skip` is the hub leaving out an expired command, `SetAside` the room marking an
expired or unknown one, `Drop` a redelivery, `Run` an effect and its mark in one go (they run in the same turn of the event
loop), `Begin`/`Finish` the one kind the loop waits for (`scene.force`, on OBS), `Announce` the gestures whose outcome comes later.
`SyncRead`/`SyncAnswer` are the sync whose answer may make the room forget; stream and answers share one socket and keep their order.
A crash interrupts at most the command that waits for OBS.

### MontageQueue

Rows are records of what decides (state, phase, worker, lease, attempts, multipart). A worker's call is an action
under any lease it was ever granted, at any time, which includes a replica that lost it: replicas of the deployment's worker share one
worker id. A call that waits is a record in `calls` with what it read; `Storage` answers it, `Return` writes. Lapse of a lease
is a step of its own and only `expireLeases`, run by `claim` and `list`, looks at it.

### VodUpload

`rows` is the room's table, `hub` the hub's, `mps` and `objects` the storage. `job` is the pass in flight. `calls` are
the hub's calls waiting, each with what it read; a call whose caller gave up (`heard = FALSE`) goes on. Part sizes are named by
how many parts they cut a rush into; one part means the direct mode. `Put` and `Progress` may lose their answer after their effect.
`overtaken` is set when a call nobody waits for changes the plan the room is following.

### RoomDay

`states`, `pins`, `slots` and `locks` are the hub's tables, functions on the keys that have a row. `Decide` is a gesture of the lifecycle as the router carries it
out: the shared table of transitions, the write, the pin it lifts, then the announcements in their order (`room.pins`, `session.state`), and the answer if the
machine asked. `ConsoleDecides`, `RoomDecides` and `PhoneDecides` differ by the room the decision is filed under: the talk's own for the first two, the room
the phone holds for the third, which may decide any talk its page has listed. `AutoEnd` is the 30-second sweep, `TakeHold`, `Renew`, `Release` and `SweepLocks` the
lock; a row whose lifetime is over is no lock, swept or not (`Live`). A tab is a lock's session and `Owner` its operator: the room
is told of operators only.

`channel` is what goes down to one room: commands, which survive outages (they have no lifetime, and `CommandStream` shows that they are resumed), and answers to the machine's
own calls, which do not. Both are sent by the hub in one order, but `Arrive` reads an answer at once while `Apply` takes commands in turn, as the loop may be
waiting for OBS: an answer overtakes older commands, never a newer one. `Restart` keeps what is on the disk (the pins) and forgets the rest.
The programme itself is read on the hub only: what a room makes of `program.invalidate` is not followed.

### Capture

`obs` and `parts` are OBS's; `open`, `segments` and `announced` the session's (`recording.ts`); `recording`, `pending` and `closing` the room application's. `asked` is what the room sent, `wire` what
OBS sends, replies and events in one order. A call of the control room is a record `[phase, path, take]`: `StartRecording` dictates a name (`naming`), `AskStart`
sends the request, `HearStart` and `HearStop` read the reply. `Hear` also reads `RecordStateChanged` (`HearRecord`) and `RecordFileChanged` (`HearFile`): a stop nobody asked for is `CloseStopFromObs`, a call of its own (`ByObs`).
A call waits for OBS's path (`Armed`) for five seconds (`PathTimesOut`), then locates the files on the disk (`TakePath`) and writes the sidecar (`Close`): the files that are found are named; if none is, the one that bears the dictated name, if there is one; with nothing to name, or if the write fails, there is no sidecar. A sidecar is a record `[named, unfound]`, so that a property can tell a file that was looked for from one that was forgotten (`FilesKnown`). `ObsStop`, `ObsSplit` and `ObsStart` are also the operator's hands in
OBS. `LinkLost`, `ObsDies`, `Restart`, `Reconnect` and `Reattach` are counted by `MaxBreaks`; `missed` remembers which takes an exchange about was cut, and only those are excused.
`Crossings` says whether a start or a stop may be asked, or happen in OBS, while another is under way; the run sets it to FALSE and says so.

### SceneSwitch

`program`, `fade` and `frozen` are OBS's. `switching` is the queue of `switchTo`, `sent` whether its head was sent, `transition` what the events said, `current` the last scene announced.
`Proceed` is the wait: a switch is sent only when no transition runs. `GiveUp` is the five-second limit of that wait. `WatchTick`, `Confirm`, `HearSources` and `Rest` are
the watchdog: a look, a second look one second later, a switch to the scene on air, a last look, then `unrepairable`.
OBS freezes a scene that it is asked for while it is leaving it (`Leave`). `HandSwitches` is somebody at OBS's own window.

### SocialWall

`live` and `news` are walls.io's; `poll` the phase of a poll (the cursor is recorded before the posts are ingested, as in `wallsio.ts`); `status`, `active`, `forced` and `order` the hub's rows; `screen` the wall
it last published, `notice` the announcement due. In the room: `told`, `fetch`, `held` (the social wall, fetched), `feed` and `comments` (the audience's, streamed). `ComputeScreen` is the selection of
the social wall. History variables: `decided` (rejected last), `vetted` (approved once at least), `missed` (changes the hub will not be told again), `passed` (messages approved after one that came in later was sent), `overlooked` (approved messages the last stream to open left out).

### Timeline and TalkDriving

`RoomPosition`, `StateOfSlots`, `TargetAt`, `EffectiveEnd`, `Served` and their helpers are translations of the selectors of `packages/program` and `packages/room-state`, over a programme given
as a sequence of slots sorted by start. The slots of a room (`SessionsForRoom`, `Served`) keep the rank they have in the programme: the array the code builds is a function on some of its ranks, whose order is that of the ranks,
and the copy of a break stands where the break does, which is where the code's second sort puts it. `TalkDriving` lets a clock run over a day: `Tick` recomputes the slots, `Sweep` closes overruns, `Press`, `Confirm`, `AnswerTake` and `Cancel` are the questions of `stores/talk.ts`, and
the steps (`StartTake`, `StopTake`, `DecideTarget`, `SetScene`) are carried out one by one by the machine, on the talk it aims at **then**. `Override` turns a talk into a break and back.

## Runs

| Run | Specification and bounds | What it shows |
|---|---|---|
| `UpwardQueue` | 1 room, 2 events of 5 types, batches of 2, a ceiling of 1, a check every 2, one late request; fair | nothing required vanishes; exact counter; last seq; consents; refinement of `DeliveryPromise`; every required event reaches the hub or the journal |
| `CommandRecord` | 2 commands (immediate, OBS, announced), one renumbering, one forgetting, one crash; fair | no command skipped; order and once; outcomes, at the room and in what the phone reads; every command settles |
| `MontageLease` | 1 worker id, 1 job, 2 leases, 2 calls at a time, 2 multiparts, 2 attempts | old leases start nothing; no endless retry; the video of a finished job is there |
| `VodShipping` | 1 rush, part sizes that cut it in 1 or 2, 2 multiparts, 2 calls at a time | finished means whole at the storage; parts skipped were received |
| `RoomDay` | 2 rooms, 3 talks (2 in the room followed), 2 operators with 3 tabs, 3 gestures, 2 ticks; a lock lasts 2, the grace is 1 | the room's copies catch up; slots stay a permutation; pins end with their talk; the badge follows the lock; a hold is as old as it says |
| `Capture` | 1 call besides OBS's own stop, 2 takes of 2 files, 2 breaks, no crossings; fair | an open take is recorded, and is not closed while it is; a take has one sidecar, which names no other take's files and all of its own but those looked for on the disk in vain; calls return |
| `SceneSwitch` | 2 scenes, 2 switches, 2 hands, 1 fault; fair | no other switch is sent into a fade of the room's, announced before or after its answer, but in the case `mark` names; the last scene asked stays; a frozen source is repaired or said unrepairable; switches return |
| `SocialWall` | 1 post of walls.io, 2 messages, 2 changes at the source, 2 gestures, 1 fault, a stream that opens with 1; fair | what is rejected stays off; nothing that was never approved is shown; the hub follows the source, the room the hub, and what is approved is seen unless it is `passed` or `overlooked` |
| `TalkDriving` | 2 programmes of 4 and 6 slots, 11 units of five minutes, 3 gestures, 1 fault; fair | badge and buttons agree; what is announced next stays announced until its turn; inherited breaks fit; the take goes first; overruns end |
| `MontageLateWrite` | 1 job, 2 leases, one call at a time, 3 attempts | fails: see "Disagreements" |
| `VodFalseFinish` | as `VodShipping`, without the constraint | fails: see "Disagreements" |
| `WallRejected` | 1 message, 2 gestures; fair | fails: see "Disagreements" |

Why these bounds are enough to meet the cases. A replay overtaken by a newer event, a batch that a collapse crosses, and a ceiling of 1
checked every 2 calls need two events; what more of them could do is what the theorems on `UpwardDelivery` answer, for any number. A renumbering that hides a command needs one command before and one after, a crash
one under way.
One worker id and two leases make two replicas; two attempts make a first death and a last one. Two calls at a time are
what it takes to cross a begin with an abort or a completion, two multiparts an old one and a new one. Three
gestures make a pin, a start and a swap, or a hold, a lapse and a takeover; two ticks let a lock lapse and a talk of the hall overrun its grace, while the studio's
does not; two rooms and two tabs of one operator are what moves a talk away and changes a holder without changing the badge. The two talks of the hall, and the two
tabs of one operator, are interchangeable and no property names one: the run's symmetry is sound. Two takes make an old file and a new one, two files a split, two
breaks a link lost and a restart. Two switches make one that waits; a hand in OBS in the middle of a fade and a second one freeze a scene. One post of walls.io and two messages of the audience make two provenances and an order among messages, and one more message than a stream opens with. The two
programmes have what the rules differ on: edge to edge slots, a slot closed by its duration, by the next or by nothing, gaps, the same break held twice, breaks of other rooms that would cover a talk.

Bounds on counters
(`MaxEvents`, `MaxLate`, `MaxCommands`, `MaxRestores`, `MaxForgets`, `MaxCrashes`, `MaxJobs`, `MaxTakes`, `MaxLeases`, `MaxCalls`,
`MaxUploads`, `MaxMultiparts`, `MaxTime`, `MaxGestures`, `MaxParts`, `MaxBreaks`, `MaxSwitches`, `MaxHands`, `MaxChanges`, `MaxFaults`) are guards in the modules and exist nowhere in the code. `MaxDepth`, `BatchSize`,
`BackpressureEvery`, `MaxAttempts`, `PartBatch`, `SnapshotSize`, `RoomLimit` and the durations of `Timeline` are constants of the code, made small.

`VodShipping` explores, through the constraint `NotOvertaken`, the states in which no call given up by the room has changed the plan it
follows: past that point the code makes no promise that holds, as `VodFalseFinish` shows.
Its properties carry the same condition, so the constraint removes no state they speak of. Deadlock is checked except by `Capture`, `SceneSwitch`, `SocialWall`, `TalkDriving` and `WallRejected`:
there the system rests once the bounds on people and faults are used up, or the day is over.

`TypeOK` is an invariant of every module. It is proved for `UpwardDelivery`, `CommandStream`, `MontageQueue`, `VodUpload`, `SocialWall`, `SceneSwitch`, `Capture`, `RoomDay` and `TalkDriving` (`DrivingTypeOK`), and no run spends time on it there; it was checked
with TLC on all the instances above.

### Fairness

`UpwardDelivery!Fairness`: the pump's interval timer fires for as long as the process lives (`outbox-pump.ts`, `start`), so a drain is
attempted again and again: strong fairness on `Drain`, since a restart may disable it. Deferral is bounded (the back-off has a ceiling): weak fairness on `ComeDue`.
`connectHub` is retried by the room application: weak fairness on `Connect`. The network is assumed to carry a request and an answer
infinitely often if they are sent infinitely often: strong fairness on `Receive` and `Settle`. No assumption is made of one given request.

`CommandStream!Fairness`: the stream's loop reconnects after every disconnection and the hub delivers what is due when the
stream is up: strong fairness on `Open` and on taking the next number. OBS calls end within five seconds
and syncs within eight, by the code's own timeouts: strong fairness on `Finish` (a crash may come first), weak on the sync's end. The outcome goes up with the heartbeat, sent every ten seconds (`room-app.ts`): weak fairness on `Hear` of what the room reports.

`Capture!Fairness` and `SceneSwitch!Fairness`: the socket delivers what was sent, OBS answers and ends what it began, and the room's own timers (the wait for a path, the
wait for a transition, the watchdog) fire. All of it is weak, and none of it is about the link coming back or people acting. OBS may refuse, lose an event (a fault) or die.

`SocialWall!Fairness`: the poll, the notice, the room's periodic sync and the streams are driven by timers that run for as long as the process lives, and each call has a timeout:
weak fairness on each. Failures are bounded faults.

`DrivingSpec`: the clock goes on and the hub's sweep runs every thirty seconds. Nothing is assumed of people, nor of the hub coming back.

`MontageQueue`, `VodUpload` and `RoomDay` have safety properties only, and assume nothing.

## Disagreements between the code and what it says

Three runs check a sentence of the repository and find it does not hold. Each quotes its line in `PROJECT.json`.

* `MontageLateWrite` / `WritesUnderItsLease` (`HS/montage.ts`, `fail`, `openUpload`, `complete`). The lease is checked before the await and the row is written after it.
* `VodFalseFinish` / `FinishedIsAtTheStorage` (`HS/vod.ts`, `complete`). A row whose multipart was replaced by a direct plan, by a late begin after a change of part size,
  is completed without anything having been assembled.
* `WallRejected` / `RejectedLeaves` (`HS/wall.ts`, `moderate`). "A rejected one leaves them": a message a room already received by the feed stays on its screen.

`VideoIsThere`, `SafeIsWhole`, `RejectedStaysOff` and the other safety properties of these modules hold all the same, and their runs and theorems say so.

Others were met while modelling. The modules keep the steps that lead to them, and the properties say what they need; no run is spent on them.

Upward path:

* `ingest.ts` 434 says "Last answer wins, on the room's clock and not on arrival". A withdrawal deletes the row and its date with it (458); a grant whose push timed out, sent again after the
  withdrawal, is filed as new.
* The `Outbox` object keeps the room it was built for (`room-app.ts` 486): after pairing the same
  process to another room (801), events go out under the first one, the hub refuses them and the pump deletes them.

Commands: a command that waits for OBS while the room forgets writes its mark afterwards and brings the last number back (`store.ts` 423). After a renumbering every outcome bears a smaller number than the one
remembered (`runtime.ts` 556). Both are in `CommandStream`; its properties are about the time before (`misled`, `restores`).

Montage and VOD:

* `progress` writes `en-cours` over an abandoned row (`vod.ts` 603, against 493): every later begin resumes a multipart that is gone and every part fails.
* A cancel during `begin` is overwritten by the plan (`upload.ts` 493); a rush that is finished but whose sidecar failed is sent again (375).

The day of a room (`RoomDay`):

* `strayed`. `HS/pins.ts` 165-172 says "A talk already started or ended keeps its place", and the swap refuses it; `resetSlots` (`pins.ts` 189) moves every talk
  back whatever its state, and the lifecycle then points to a room the talk has left. A phone has the same effect: `controlCommand` (`HS/control.ts` 309) files
  the decision under the room the phone holds without looking where the talk is, so a page whose list is older than a swap decides a talk of another room, which is
  never told.
* `read`. `RC/room-app.ts` 891-892 says of `loadSessionStates` "without it, a restart mid-talk would show "upcoming" on a talk that has already been launched". It is called once the
  connection is made; when the hub is out of reach at that moment the call fails, and the sync that restores the link later does not repeat it.
* `told`. Who drives the room is neither on the machine's disk nor read back, so after a restart the badge stays off until the holder changes.

Takes and scenes:

* `obs-transport.ts` 43-47 says "OBS can be … restarted during the day: not retrying would force the operator to relaunch the application", and `RUNBOOK.md` that the application reconnects by itself. `keepObsConnected` returns at
  the first success and nothing starts it again: a link lost after that stays lost until somebody presses connect.
* With `Crossings`, a stop asked while OBS closes the take by itself leaves a take open that nothing records, and two stops write two sidecars (`room-app.ts` 1903-1929; `CONCEPTION.md` 635 promises that a stop from OBS closes the take).
* With `Overtaking`, the watchdog, which looks a second time but not after its await on OBS, puts back a scene that was just left (`obs.ts` 864-869).
* `mark`. `obs.ts` 748 says of a switch "never while a transition is still running", and 761-762 that one queued behind another "must already wait" though OBS announces the transition after its reply. A transition ends on two
  events, and `transitionEnded` makes no difference between them. The first releases the next switch, which marks itself as running; the second takes that mark away. If OBS then answers this switch before it announces it, the room believes that nothing runs and
  sends the next one into the fade; and if OBS refuses that one, the refusal calls `transitionEnded` in its turn. `NeverHurried` excuses this case and no other, by the history variable `mark`.

Social wall: the feed numbers messages by insertion, so one approved after a later one was sent is skipped until the next stream (`passed`). Every stream is opened from the first message (`hub-link.ts` 432, which gives no number) and the backlog is the oldest fifty approved ones (`wall.ts` 666-680): past fifty, a message approved while no stream is open is
never sent, although "an approved message leaves for the screens immediately" (`wall.ts` 600) (`overlooked`; the run opens streams with one message so that it happens). The cursor of walls.io is recorded before its posts are ingested, and a restart in
between loses them until they change again (`missed`).

Driving a talk:

* With the hub lost, `session.start` fails and, its guard being off, the scene is changed all the same: on air without a talk under way (`talk-flow.ts`, `startSteps`, and `CONCEPTION.md` around 2298).
* The take bears the slot the clock is on, not the talk that is being started (`room-app.ts`, `startRecording`; `CONCEPTION.md` 2361-2381).
* "Terminer" does not reach a talk that overruns once another talk's slot has begun (`CONCEPTION.md` around 2715): the last part of `BadgeAgreesWithTarget` says so.
* A room may inherit two different breaks that overlap each other: `InheritedBreaksFit` speaks of the room's own slots only.

## Proofs

`UpwardDeliveryProofs` proves, for any rooms, types, batch size, ceiling, check period and bounds satisfying the module's three assumptions
(`RoomsAssumption`, `TypesAssumption`, `BoundsAssumption`):

| Theorem | Property | Argument |
|---|---|---|
| `TypeCorrect` | `TypeOK` | inductive as it stands; one lemma per family of actions |
| `NothingRequiredVanishes` | `NothingVanishes` | strengthened by `DeliveryInv`: an answer on its way says "held" only of what the log has, and names as held or refused only what is in the batch; so what `Settle` removes is at the hub or goes to the journal |
| `LastSeqFollowsTheNewest` | `LastSeqIsNewest` | through `SeqIsNewest`, which bounds the log of each room by its last seq and says the last seq is in it, without CHOOSE |
| `ConsentIsGuarded` | `ConsentNeverOlder` | an action property, from the guard in `ConsentAfter` and the type invariant |
| `ImpressionsAreExact` | `ImpressionsCountedOnce` | the fresh part of a batch is disjoint from the log; cardinalities add up |
| `KeysAreCollapsed` | `AtMostOneRowPerKey` | a new row removes those of its key, and no other action adds rows |
| `PromiseIsKept` | `PromiseKept` | refinement: each action is a step of `DeliveryPromise` or a stutter, under `TypeOK` and `DeliveryInv` |

`RoomDayProofs` proves, for any rooms, any finite set of talks, any tabs, export, lifetime, grace and bounds:

| Theorem | Property | Argument |
|---|---|---|
| `SlotsAlwaysPermuted` | `SlotsArePermuted` | `SlotsInv` adds that slots are talks' slots; `ExchangedIs` says what an exchange does to every talk, whether it was already moved or comes back home; injectivity and surjectivity follow by exchanging the two talks |
| `HeldSinceIsHonest` | `HeldWithoutAGap` | an action property that needs no invariant: only four actions touch the locks (`LocksMove`), and in each a row that changes bears the date the property gives |
| `PinsEndWithTheirTalk` | `PinEndsWithItsTalk` | not inductive alone: when every talk goes back to the export's slot, a forced talk could come back to the room it ended in. `PinInv` adds that, unless a talk strayed, a talk decided is in the room it was decided for (`InItsRoom`), which excludes it; a swap keeps that because the talks it moves have no state |
| `DayTypes` | `TypeOK` | with what the copies need (`CatchInv`), and `Rest` for the clock, the rows of the lock and the counters |
| `LifecycleIsCaughtUp` | `LifecycleCatchesUp` | `LifecycleTold`, see below; it needs `PinInv`, by which a decision is filed in the room its talk is in |
| `PinsAreCaughtUp` | `PinsCatchUp` | `PinsTold` |
| `BadgeIsTheLocks` | `BadgeFollowsTheLock` | `HoldTold` |

The last three share one argument. A copy is a register that commands write in their turn and answers as they arrive. `Tells` says of what is on its way that the last command on the
register is right, and so is an answer no command follows; and with no command on its way, the copy is right (`Silent`). Every gesture that changes the hub's table says so behind what was sent before (`TellsSent`); taking a command (`TellsTaken`), reading an
answer ahead of the commands, or losing it (`TellsPicked`) keeps it. There is one register for the lock, one for the forced talks and one for each talk.

`CommandStreamProofs` proves, for any kinds of commands and bounds:

| Theorem | Property | Argument |
|---|---|---|
| `StreamTypes` | `TypeOK` | `Shape`, which also says that the record is bounded by its last number and that the command under way is where the stream is, and `Rest` for the restart's counters |
| `ResumeSkipsNothing` | `NothingSkipped` | `SkipInv`: as long as no renumbering misled the room, every command of this room below the last number, or below the stream's cursor and not under way, is settled. It needs the cursor because `Open` resumes from the record |
| `CarriedOutInOrder` | `InOrderAndOnce` | `OrderInv`: what was carried out is behind the record, under way, or was cut by a crash; what the record has not reached and the stream has passed is out of time |
| `OutcomesAreTheLatest` | `OutcomeIsTheLatest` | `NumInv`: while the hub has not numbered afresh, a number is the rank of its command, so comparing numbers compares gestures |
| `NothingIsDropped` | | the refusal of a number already applied (`runtime.ts` 520) is never taken: from `Shape`, what is due is past the record |

`CommandStreamProofs` also proves, of `TalkDriving`, for any programmes sorted by start whose identifiers are of one slot each (`ProgrammesAssumption`), any thresholds (`TimelineAssumption`) and, for the types, any bounds
(`DrivingAssumption`):

| Theorem | Property | Argument |
|---|---|---|
| `DrivingTypes` | `DrivingTypeOK` | with `DrivingInv`; `TargetIs`: what the buttons aim at is a talk of the programme, so what the hub writes is of its slots |
| `BadgeAlwaysAgrees` | `BadgeAgreesWithTarget` | from `DayInv` (the room is served what the corrected programme gives it), by the branch the badge and the buttons take. The hard one is a free room with a talk still running: no overrun means its slot is not over, and `TalksAreClear` says a slot is over before the next begins, so that talk begins later |
| `NextIsAnnouncedUntilItsTurn` | `AnnouncedUntilItsTurn` | an action property from `DayInv`. Without a pin (`ClockKeepsNext`): what the clock has behind it stays behind it. With one (`PinKeepsNext`): the slots that can be announced (`Announceable`) only get fewer as time passes, so an earlier one comes in only if its talk is put back, and the one announced goes out only if it is decided or over, and not even then if the forced talk jumped over it. Talks have distinct identifiers, so the slot announced is one rank |
| `BreaksAlwaysFit` | `InheritedBreaksFit` | `ServedFits`: an inherited slot put between a slot and the one that follows starts when that slot is over, so it moves the end of none, given or not; `CorrectedIs`: a decision changes the kind of a slot, never its times |
| `TakeAlwaysGoesFirst` | `TakeGoesFirst` | an action property from `FlowInv`: the steps left are a tail of one of the sequences, and once the take's step is behind, something records in a start and nothing does in an end, until a hand takes the recording over, which clears `taken` |

`BadgeAlwaysAgrees` and `BreaksAlwaysFit` also take as a hypothesis that every programme is `Clear`: its slots last and do not overlap in one room. Nothing in the code checks that; it is what a programme is for. The programmes of
the run satisfy it (`TwoDaysAreClear`, which TLC evaluates). A break of no duration shows why it is needed: at its place in another room it takes the duration of the gap it falls in.

The argument about slots rests on `FirstIs` and `LastIs` (the first and the last of a set of ranks), `AfterIs` (the slot that follows) and `EndIs` (the three ways an end is read).

`MontageQueueProofs` proves, for any workers, talks, number of attempts and bounds, from `Inv`: the types with the numbering of leases (`Shape`); for each job, that a row under way bears the lease granted for it (`Linked`),
that deaths are counted by its attempts (`Counted`) and that a finished one has its video (`Filmed`); and that a call waiting to write `termine` has its assembly done (`CallsFilm`):

| Theorem | Property | Argument |
|---|---|---|
| `QueueTypes` | `TypeOK` | part of `Inv` |
| `RetriesEnd` | `NoEndlessRetry` | `Counted`, as long as no call wrote too late: `MontageLateWrite` shows that one may put the count back |
| `FinishedIsFilmed` | `VideoIsThere` | `Filmed`, which holds even through late writes, because `CallsFilm` goes with the call and not with the lease |
| `LostLeasesStayLost` | `OldLeaseIsPowerless` | `NoneComesBack`: a step that puts a job under way gives it a lease nobody held, so what a lease lost is never its own again |

`VodUploadProofs` proves, for any files, part sizes, batch of parts and bounds, from `Inv`: the types; `Awaited`, that the room waits for one call at most, that of its pass; `Named`, that plans and waiting calls name multiparts opened for their
file and part size; `Safe`, that unless the pass was overtaken, what a room counts as received is in the multipart its plan names (`Received`, `Follows`) and a completion that will succeed has everything (`Assembled`):

| Theorem | Property | Argument |
|---|---|---|
| `PlansNameTheirMultipart` | `TypeOK` | `Types` and `Named` |
| `FinishedIsWhole` | `SafeIsWhole` | `Safe`: `Awaited` is what makes an answer that arrives the one the pass waits for |
| `NothingToResend` | `ResumedPartsArrived` | `Safe` |

`SocialWallProofs` proves, for any posts, sizes and bounds:

| Theorem | Property | Argument |
|---|---|---|
| `TypeCorrect` | `TypeOK` | one invariant per part of the state |
| `RejectionHolds` | `RejectedStaysOff` | `RowsInv`: a post rejected last has a row that says so, and the wall is always recomputed from such rows in the step that changes them |
| `NothingUnvettedEver` | `NothingUnvetted` | `FeedInv`: what travels to a room, waits in a stream, is held or is projected is a post of walls.io or was approved once (`Cleared`), and what was cleared stays so (`ClearedStay`); a row is approved by an operator only, unless its source is trusted |
| `MessagesShownOnce` | `NoMessageTwice` | `addComment` looks for the message before adding it; backlog and stream overlap |

`SceneSwitchProofs` proves, for any scenes and bounds:

| Theorem | Property | Argument |
|---|---|---|
| `SceneTypes` | `TypeOK` | part of `Shape`, which also says that a switch or its answer is out only while it is sent, that nothing is out without a link, and that the watchdog has one look or one switch at a time |
| `TransitionsAreWaitedFor` | `NeverHurried` | `OursIsHeld`: while OBS fades for the room, no other switch is asked and nothing on the wire after the answer tells the room that the fade is over (`Held`), so the next switch waits (`Waited`), or the mark of that fade was taken away (`Blind`). `MarkInv` says what the mark remembers. No condition on the order of OBS's events |
| `TheLastAskedStays` | `LastAskedStays` | `AskedInv`, as long as the watchdog crosses no gesture (`Overtaking`). `Asking`: what is asked of OBS, its answer and the queue go together, and a switch that waits has something to wait for. `Kept`: nothing is asked while OBS's inventory is read (`Reads`); what OBS has on air or fades to, or the last switch that waits, is the scene wanted (`Promised`); the watchdog switches to that scene only (`Minded`); and once all that was asked is done, either the room will hear the fade end or the wire tells it, in the end, what is on air (`Told`) |

TLC, asked about three hands and three faults, found that `LastAskedStays` did not hold of an earlier form of the module: a room deaf to the end of a transition while the watchdog itself waits for it gives up with a stale `current`, and
the watchdog later puts that scene back over the one a hand chose. The code does so (`obs.ts`, the five-second limit of `switchTo`); `GiveUp` now says that nothing is promised of a scene chosen while the room was deaf, and the run, the larger bounds and the theorem agree.

`CaptureProofs` proves, for any number of calls, takes, files of a take (at least one: `BoundsAssumption`) and breaks:

| Theorem | Property | Argument |
|---|---|---|
| `CaptureTypes` | `TypeOK` | inductive, with the types of the messages (`Types`) |
| `TakesAreClosedOnce` | `OneSidecarPerTake` | `Guard`: one call at work at a time, a start with no take open or a closing known as one (`OneAtATime`); who starts is answered about its own request only (`OwnReplies`); the open take and those to come have no sidecar (`Written`). Only without `Crossings`, where two stops do write two sidecars |
| `TheOpenTakeIsRecorded` | `OpenTakeIsRecorded` | `KeptInv` and, for the half that says a recorded take is not closed, `Finish`, under the same condition. `Exchange`: what is asked of OBS is what some call waits for, and not answered yet. `Starts`: while a take is being started no recording ends. `Opens`: who is told yes opens the take OBS has begun. `Followed`: when what OBS records stops being the open take, the end of it is on the wire or some call closes it. `Ended` and `Held`: who closes a take does so once OBS is no longer recording it, so a take that is recorded and has a file stays open |
| `TheTakesKeepTheirFiles` | `TakesKeepTheirFiles` | `KeptInv` and `Finish`. `Armings`: a path OBS names goes to the call that waits for it, and a closing is some call's. `Own`: whatever names a file, on the wire, with a call, in the session or in a sidecar, names a file of its own recording. `Known`: the files the session knows are the first of the take, and the wire names the rest in order. `Ended`: nothing names a file of a take after its end is said, so whoever closes it knows them all (`Whole`); `Stored`: a sidecar, once written, is whole, because OBS no longer splits what it has stopped recording |

`KeptInv` with `Finish` is `WholeInv`, which the last two theorems come from. TLC checked it on larger instances as well: 3 takes of 2 files with 3 breaks, and 2 calls with 3 breaks.

Each invariant was checked with TLC on the module's instance before it was proved.

The proofs rest on nothing but the named assumptions on constants of the modules (`RoomsAssumption`, `TypesAssumption`, `BoundsAssumption`, `LimitsAssumption`…), which every run evaluates, and, where a table above says so, on the
programmes being `Clear`.

Only model-checked: liveness (`RequiredArrives`, `PhoneReadsTheLatest`, `EveryCommandSettles`, `CallsReturn`, `FrozenIsRepaired`, `SwitchesReturn`, `SourceIsFollowed`, `RoomSettles`, `ApprovedIsSeen`, `OverrunsEnd`), which the prover does not reach.

## What the models assume

* The clock only goes forward. The hub can simulate a date; going back would make expired commands fresh again.
* SQLite transactions are atomic and durable.
* An effect on the screens and the mark that follows it in the same turn of the event loop are one step.
* One websocket delivers in order; after a disconnection nothing more of it arrives.
* In `MontageQueue` the output's object key is left out: completing and aborting go by the multipart alone.
* In `VodUpload`, sizes of rushes do not change, no rush is being written, and the order in which due rows are elected is free. The
  sidecar of a rush is a step of its pass.
* The room's abort call reads the hub's row when the cancel is made.
* In `RoomDay` the machine has one call out at a time, a swap and its announcement are one step (they run in one turn of the hub's event loop), and the export is
  not imported again during the day.
* In `Capture`, OBS and the room see one disk, no two takes are of one talk (they would share the dictated name, and the search by name, `recording.ts` 550, could find the file of the first), and the console reconnects a capture only when no call is out.
* In `SceneSwitch`, no transition lasts as long as a reconnection.
* In `SocialWall`, there is one room and one wall at walls.io; sizes beyond the feed's, and the age limit, are left out.
* In `TalkDriving`, the hub's copy of the lifecycle and the room's are one: `RoomDay` is about how they part. The export gives each slot an identifier of its own (the normalizer keeps duplicates of slots), and is not
  imported again during the day.

## What is not modelled, and why

* **Pure input and output, and layout**: the displays and overlays (`display-server.ts`, `room-display.ts`), assets, themes, the index of the disk (`vod-index.ts`), the S3 client (its effects are in `MontageQueue` and
  `VodUpload` as an external party), ffmpeg.
* **Declarations**: `packages/contract` is schemas and types; of it, only the policies of events matter to a property.
* **Wiring**: most of `router.ts` and `server.ts` names a procedure, checks the caller and calls one service. What has an order of its own (the announcements after a decision, the hold and its badge) is mapped with the
  action it belongs to.
* **Read side**: statistics, supervision, logs. No state of their own.
* **User interfaces**: the web applications and the Stream Deck plugin, but for the sequence that starts and ends a talk.
* **Integrations** (YouTube, OpenFeedback, push): calls with no state the rest depends on. **Access rules**: not a subject of these specifications.
* **The upload regulator**: a function of the moment's load; `VodUpload` leaves free when a pass starts, which covers every verdict it could give.

## Plan

1. *Done*: `UpwardDelivery` and its abstract specification, `CommandStream`, `MontageQueue`, `VodUpload`, `RoomDay`, `Capture`, `SceneSwitch`, `SocialWall`, `Timeline` and `TalkDriving`; the proofs above.
2. `Pairing`: the device grant, its polling and the hub's approval and revocation.
3. The projection of the other columns of `room_state` in `ingest.ts`, whose replays can go back.
