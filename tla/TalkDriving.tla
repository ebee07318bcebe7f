----------------------------- MODULE TalkDriving -----------------------------
(***************************************************************************)
(* Driving the talks of one room through its day: the clock that turns the *)
(* schedule (Timeline), the questions a surface asks before it starts or   *)
(* ends a talk and the steps it then sends (talk-flow.ts, stores/talk.ts), *)
(* the machine that carries them out on the talk it aims at by then        *)
(* (room-app.ts), and the hub's rules on the lifecycle, the forced talk    *)
(* and the corrections of the programme.                                   *)
(*                                                                         *)
(* The hub's copy of the lifecycle and the room's are one here: RoomDay    *)
(* models the way they diverge.  Of a take, only the talk it bears is      *)
(* kept: Capture models how it is opened and closed.                       *)
(*                                                                         *)
(* The operators that every module has (Init, Next...) bear its name here: *)
(* CommandStreamProofs extends it beside CommandStream.                    *)
(***************************************************************************)
EXTENDS Timeline

CONSTANTS
    Here,           \* the room
    Programmes,     \* the exports the day may start from
    TooEarly,       \* TOO_EARLY_MS
    MaxTime,        \* bound: the end of the day
    MaxGestures,    \* bound: what people do
    MaxFaults       \* bound: the hub lost, OBS refusing

ASSUME DrivingAssumption ==
    {TooEarly, MaxTime, MaxGestures, MaxFaults} \subseteq Nat

\* What an import gives (normalize.ts): slots by their start. An identifier, the
\* exporter's, is of one slot.
Scheduled(program) ==
    /\ program \in Seq(Slot)
    /\ \A i, j \in DOMAIN program : i < j =>
          program[i].start <= program[j].start /\ program[i].id # program[j].id
ASSUME ProgrammesAssumption ==
    NoSlot \notin Slot /\ \A program \in Programmes : Scheduled(program)

VARIABLES
    export,     \* the programme imported
    flipped,    \* the slots the console declared otherwise than the export
    slots,      \* the room's day, as it is served: decisions and shared breaks in
    now,
    statuses,   \* of the talks that have one, the lifecycle
    pin,        \* the talk forced into the room
    hub,        \* the room reaches the hub
    take,       \* OBS-B's recording: [on, of], the talk its sidecar bears
    scene,      \* what OBS-A has on air: "live" after a start
    flow,       \* the surface's sequence: [at, way, steps, taken], taken while
                \* the take is the one it asked about
    gestures, faults

dayVars == <<export, flipped, slots, statuses, pin>>
obsVars == <<take, scene>>
drivingVars == <<dayVars, now, hub, obsVars, flow, gestures, faults>>

Idle == [at |-> "idle", way |-> "start", steps |-> <<>>, taken |-> FALSE]

DrivingInit ==
    /\ export \in Programmes
    /\ flipped = {} /\ slots = Served(export, Here)
    /\ statuses = <<>> /\ pin = NoSlot
    /\ now = 0 /\ hub = TRUE
    /\ take = [on |-> FALSE, of |-> NoSlot] /\ scene = "other"
    /\ flow = Idle
    /\ gestures = 0 /\ faults = 0

-----------------------------------------------------------------------------
(* What the room is served, and what it makes of it. *)

Other(kind) == IF kind = "talk" THEN "break" ELSE "talk"

\* The served programme: the console's decisions, then the shared breaks.
Corrected(decided) ==
    [i \in DOMAIN export |->
                IF export[i].id \in decided THEN [export[i] EXCEPT !.kind = Other(@)]
                ELSE export[i]]

SlotIds == {export[i].id : i \in DOMAIN export}
Own == {export[i].id : i \in {j \in DOMAIN export : export[j].room = Here}}
Position == RoomPosition(slots, now, statuses, pin)
Target == Position.target
State == StateOfSlots(slots, now, statuses, pin)
TargetStatus == StatusIn(statuses, Target.id)

Gesture == gestures < MaxGestures /\ gestures' = gestures + 1
Fault == faults < MaxFaults /\ faults' = faults + 1

\* What the hub writes of a gesture on a talk, and the pin it makes moot.
Write(t, status) ==
    /\ statuses' = IF status = "scheduled"
                   THEN [u \in DOMAIN statuses \ {t} |-> statuses[u]]
                   ELSE [u \in DOMAIN statuses \cup {t} |-> IF u = t THEN status ELSE statuses[u]]
    /\ pin' = IF \/ status = "ended" /\ pin = t
                 \/ status = "running" /\ pin # t
              THEN NoSlot ELSE pin

\* The lifecycle's table refuses a start of what runs, an end of what does not.
Allowed(status, way) == (way = "start") <=> (status # "running")

-----------------------------------------------------------------------------
(* The clock, the hub's sweep, and what others do. *)

Tick ==
    /\ now < MaxTime
    /\ now' = now + 1
    /\ UNCHANGED <<dayVars, hub, obsVars, flow, gestures, faults>>

\* Mutant: the sweep reads the end the export gives, not the effective one.
ToAutoEnd_GivenEnds ==
    {t \in SlotIds \ {pin} :
        \E i \in DOMAIN slots :
            /\ slots[i].id = t
            /\ ShouldAutoEnd(slots[i].end, StatusIn(statuses, t), now)}

\* sweep: the talks whose slot is over for long enough are ended, except the
\* forced one.
ToAutoEnd ==
    {t \in SlotIds \ {pin} :
        \E i \in DOMAIN slots :
            /\ slots[i].id = t
            /\ ShouldAutoEnd(EffectiveEnd(slots, i), StatusIn(statuses, t), now)}
Sweep ==
    /\ ToAutoEnd # {}
    /\ statuses' = [t \in DOMAIN statuses |-> IF t \in ToAutoEnd THEN "ended" ELSE statuses[t]]
    /\ UNCHANGED <<export, flipped, slots, pin, now, hub, obsVars, flow, gestures, faults>>

\* sessions.start, end, reset from the console, which names the talk.
Decide(t, way) ==
    /\ Gesture
    /\ Allowed(StatusIn(statuses, t), way)
    /\ Write(t, IF way = "start" THEN "running" ELSE "ended")
    /\ UNCHANGED <<export, flipped, slots, now, hub, obsVars, flow, faults>>
Reset(t) ==
    /\ Gesture
    /\ t \in DOMAIN statuses
    /\ Write(t, "scheduled")
    /\ UNCHANGED <<export, flipped, slots, now, hub, obsVars, flow, faults>>

\* pinTalk: a talk of the room that has not ended; or the pin is lifted.
PinTalk(t) ==
    /\ Gesture
    /\ \E i \in DOMAIN slots : slots[i].id = t /\ slots[i].kind = "talk"
    /\ StatusIn(statuses, t) # "ended"
    /\ pin' = t
    /\ UNCHANGED <<export, flipped, slots, statuses, now, hub, obsVars, flow, faults>>
Lift ==
    /\ Gesture
    /\ pin # NoSlot
    /\ pin' = NoSlot
    /\ UNCHANGED <<export, flipped, slots, statuses, now, hub, obsVars, flow, faults>>

\* sessions.override: a slot becomes a break, or a talk, during the day.
Override(t) ==
    /\ Gesture
    /\ flipped' = IF t \in flipped THEN flipped \ {t} ELSE flipped \cup {t}
    /\ slots' = Served(Corrected(flipped'), Here)
    /\ UNCHANGED <<export, statuses, pin, now, hub, obsVars, flow, faults>>

HubLost ==
    /\ hub /\ Fault
    /\ hub' = FALSE
    /\ UNCHANGED <<dayVars, now, obsVars, flow, gestures>>
HubBack ==
    /\ ~hub
    /\ hub' = TRUE
    /\ UNCHANGED <<dayVars, now, obsVars, flow, gestures, faults>>

\* The recording buttons, and OBS's own: what records is then no longer what the
\* sequence asked for.
RecordByHand ==
    /\ Gesture
    /\ flow' = [flow EXCEPT !.taken = FALSE]
    /\ take' = IF take.on THEN [on |-> FALSE, of |-> NoSlot]
               ELSE [on |-> TRUE, of |-> IF Position.current = NoSlot THEN NoSlot
                                         ELSE Position.current.id]
    /\ UNCHANGED <<dayVars, now, hub, scene, faults>>

-----------------------------------------------------------------------------
(* The surface: its questions, in the order the talk, then the take. *)

TargetForced == pin # NoSlot /\ Position.pinned # NoSlot
StartTooEarly == ~TargetForced /\ Target.start - now > TooEarly
EndEarly == Target.end # NoTime /\ Target.end > now

StartSteps(record) ==
    IF record THEN <<"recording.start", "session.start", "scene.set">>
    ELSE <<"session.start", "scene.set">>
EndSteps(stop) == IF stop THEN <<"recording.stop", "session.end">> ELSE <<"session.end">>

Launch(way, withTake) ==
    flow' = [at |-> "steps", way |-> way, taken |-> withTake,
             steps |-> IF way = "start" THEN StartSteps(withTake) ELSE EndSteps(withTake)]

\* The take's question: nothing records at a start, something does at an end.
AsksTake(way) == IF way = "start" THEN ~take.on ELSE take.on
Proceed(way) ==
    IF AsksTake(way) THEN flow' = [Idle EXCEPT !.at = "take", !.way = way]
    ELSE Launch(way, FALSE)

\* askStart, askEnd: the button is offered for what the lifecycle allows.
Press(way) ==
    /\ flow.at = "idle" /\ Gesture
    /\ Target # NoSlot /\ Allowed(TargetStatus, way)
    /\ IF (way = "start" /\ StartTooEarly) \/ (way = "end" /\ EndEarly)
       THEN flow' = [Idle EXCEPT !.at = "early", !.way = way]
       ELSE Proceed(way)
    /\ UNCHANGED <<dayVars, now, hub, obsVars, faults>>

Confirm ==
    /\ flow.at = "early"
    /\ Proceed(flow.way)
    /\ UNCHANGED <<dayVars, now, hub, obsVars, gestures, faults>>
AnswerTake(yes) ==
    /\ flow.at = "take"
    /\ Launch(flow.way, yes)
    /\ UNCHANGED <<dayVars, now, hub, obsVars, gestures, faults>>
Cancel ==
    /\ flow.at \in {"early", "take"}
    /\ flow' = Idle
    /\ UNCHANGED <<dayVars, now, hub, obsVars, gestures, faults>>

-----------------------------------------------------------------------------
(* The steps, as the room carries them out. *)

Step(name) == flow.at = "steps" /\ Head(flow.steps) = name

\* runTalkSteps: on to the next one; a guard that failed stops the rest.
Proceeds ==
    flow' = IF Len(flow.steps) = 1 THEN Idle ELSE [flow EXCEPT !.steps = Tail(@)]
Stops == flow' = Idle

\* Mutant: the rest goes whether or not the take started.
StartTake_Regardless ==
    /\ Step("recording.start")
    /\ \/ /\ ~take.on
          /\ take' = [on |-> TRUE, of |-> IF Position.current = NoSlot THEN NoSlot
                                          ELSE Position.current.id]
          /\ Proceeds
          /\ UNCHANGED faults
       \/ /\ IF take.on THEN UNCHANGED faults ELSE Fault
          /\ Proceeds
          /\ UNCHANGED take
    /\ UNCHANGED <<dayVars, now, hub, scene, gestures>>

\* startRecording: the take bears the slot the clock is on.
StartTake ==
    /\ Step("recording.start")
    /\ \/ /\ ~take.on
          /\ take' = [on |-> TRUE, of |-> IF Position.current = NoSlot THEN NoSlot
                                          ELSE Position.current.id]
          /\ Proceeds
          /\ UNCHANGED faults
       \/ /\ IF take.on THEN UNCHANGED faults ELSE Fault
          /\ Stops
          /\ UNCHANGED take
    /\ UNCHANGED <<dayVars, now, hub, scene, gestures>>

StopTake ==
    /\ Step("recording.stop")
    /\ \/ /\ take.on
          /\ take' = [on |-> FALSE, of |-> NoSlot]
          /\ Proceeds
          /\ UNCHANGED faults
       \/ /\ IF ~take.on THEN UNCHANGED faults ELSE Fault
          /\ Stops
          /\ UNCHANGED take
    /\ UNCHANGED <<dayVars, now, hub, scene, gestures>>

\* decideSession: the talk aimed at by now, if the hub is there and allows it.
DecideTarget(way) ==
    /\ Step(IF way = "start" THEN "session.start" ELSE "session.end")
    /\ IF hub /\ Target # NoSlot /\ Allowed(TargetStatus, way)
       THEN Write(Target.id, IF way = "start" THEN "running" ELSE "ended")
       ELSE UNCHANGED <<statuses, pin>>
    /\ Proceeds
    /\ UNCHANGED <<export, flipped, slots, now, hub, obsVars, gestures, faults>>

SetScene ==
    /\ Step("scene.set")
    /\ scene' = "live"
    /\ Proceeds
    /\ UNCHANGED <<dayVars, now, hub, take, gestures, faults>>

\* Between two talks, the operator puts something else on air.
LeaveAir ==
    /\ scene = "live" /\ flow.at = "idle" /\ Gesture
    /\ scene' = "other"
    /\ UNCHANGED <<dayVars, now, hub, take, flow, faults>>

-----------------------------------------------------------------------------
Others ==
    \/ \E t \in Own : Reset(t) \/ PinTalk(t) \/ \E way \in {"start", "end"} : Decide(t, way)
    \/ \E t \in SlotIds : Override(t)
    \/ Lift \/ HubLost \/ HubBack \/ RecordByHand \/ LeaveAir
Surface ==
    \/ \E way \in {"start", "end"} : Press(way) \/ DecideTarget(way)
    \/ Confirm \/ Cancel \/ \E yes \in BOOLEAN : AnswerTake(yes)
    \/ StartTake \/ StopTake \/ SetScene

DrivingNext == Tick \/ Sweep \/ Others \/ Surface

\* Time passes, and the hub's sweep runs every few seconds.
DrivingSpec == DrivingInit /\ [][DrivingNext]_drivingVars /\ WF_drivingVars(Tick) /\ WF_drivingVars(Sweep)

-----------------------------------------------------------------------------
(* Properties. *)

DrivingTypeOK ==
    /\ flipped \subseteq SlotIds /\ now \in 0 .. MaxTime
    /\ DOMAIN statuses \subseteq SlotIds
    /\ \A t \in DOMAIN statuses : statuses[t] \in {"running", "ended"}
    /\ pin \in SlotIds \cup {NoSlot} /\ hub \in BOOLEAN
    /\ take.on \in BOOLEAN /\ (~take.on => take.of = NoSlot)
    /\ flow.at \in {"idle", "early", "take", "steps"}
    /\ (flow.at = "steps") <=> (flow.steps # <<>>)

\* What the people who write a programme see to, and no code checks: a slot
\* lasts, and those of one room do not overlap.
Clear(program) ==
    \A i \in DOMAIN program : EndInRoom(program, i) # NoTime =>
        /\ program[i].start < EndInRoom(program, i)
        /\ \A j \in RanksOf(program, program[i].room) :
              i < j => EndInRoom(program, i) <= program[j].start

\* The badge of the room and the buttons of its control app say the same thing:
\* on air means the talk aimed at runs, waiting or late that it can be started,
\* ended early that it was ended.  "It holds during a break too: a talk
\* overrunning into lunch is still on air, so it stays drivable": End reaches a
\* talk that overruns, unless another talk's slot has begun
\* (stateOfslots, talkToControl, roomPosition).
BadgeAgreesWithTarget ==
    /\ State \in {"en-cours", "fin-proche"} => TargetStatus = "running"
    /\ State = "depassement" =>
            \/ TargetStatus = "running"
            \/ Position.pinned # NoSlot
            \/ Position.current # NoSlot /\ Position.current.kind # "break"
    /\ State \in {"pas-commencee", "retard"} => TargetStatus = "scheduled"
    /\ State = "terminee" => TargetStatus = "ended"
    /\ State \in {"pause", "aucune"} /\ Target # NoSlot /\ TargetStatus = "running"
            => Target.start > now

\* What a room announces next stays announced until it has begun.  With a talk
\* forced, until it is started or ended, or an earlier one is put back before it;
\* its slot running out takes it away too, but never from the talk the forced
\* one jumped over: that one "is exactly what comes after, even once its own
\* slot has run out".  On the same slots, whatever the clock, the console, the
\* sweep and the surface do (roomPosition).
JumpedOver(i) ==
    \E p \in DOMAIN slots :
        /\ slots[p] = Position.pinned /\ i < p
        /\ \A k \in DOMAIN slots : i < k /\ k < p => slots[k].kind # "talk"
PutBack(j) ==
    /\ StatusIn(statuses, slots[j].id) # "scheduled"
    /\ StatusIn(statuses', slots[j].id) = "scheduled"
AnnouncedUntilItsTurn ==
    [][LET after == RoomPosition(slots, now', statuses', pin') IN
       slots' = slots /\ after.next # Position.next /\ after.pinned = Position.pinned
        => \A i \in DOMAIN slots : Position.next # NoSlot /\ slots[i] = Position.next =>
              IF Position.pinned = NoSlot THEN slots[i].start <= now'
              ELSE \/ StatusIn(statuses', slots[i].id) # "scheduled"
                   \/ \E j \in DOMAIN slots : j < i /\ PutBack(j)
                   \/ Over(slots, i, now') /\ ~JumpedOver(i)]_drivingVars

\* A room inherits a break only while it is free: no inherited slot covers one
\* of its own, and none moves the end of one of its own (applySharedBreaks).
InheritedBreaksFit ==
    LET own == SessionsForRoom(Corrected(flipped), Here)
    IN  \A i \in DOMAIN own : \E j \in DOMAIN slots :
            /\ slots[j] = own[i]
            /\ EffectiveEnd(slots, j) = EffectiveEnd(own, i)
            /\ \A k \in DOMAIN slots :
                  slots[k].id \notin SlotIds =>
                      \/ slots[j].start >= EffectiveEnd(slots, k)
                      \/ Over(slots, j, slots[k].start)

\* Through a sequence the operator asked the take with, the talk starts only
\* once something records, and ends only once nothing does: "beginning anyway
\* would make the warning a lie the next time round" (startSteps, endSteps).
TakeGoesFirst ==
    [][flow.at = "steps" /\ flow.taken /\ statuses' # statuses /\ flow' # flow
        => take.on = (flow.way = "start")]_drivingVars

\* An overrun nobody closes ends by itself: the sweep reads the end the overrun
\* is read from (shouldAutoEnd, effectiveEndInProgram).
OverrunsEnd ==
    (State = "depassement") ~> (State # "depassement")
=============================================================================
