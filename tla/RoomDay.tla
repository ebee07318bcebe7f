------------------------------- MODULE RoomDay -------------------------------
(***************************************************************************)
(* The day of the rooms: the talks' lifecycle (sessions.ts), the forced    *)
(* talks and the swapped slots (pins.ts), the lock of the mobile control   *)
(* apps (control.ts), the router that announces what they change, and the  *)
(* copy one room's machine keeps of it (runtime.ts, room-app.ts).          *)
(*                                                                         *)
(* Every change is published as a command without lifetime, so what the    *)
(* machine has not yet carried out survives outages; the answers to its    *)
(* own calls travel on the same socket, and are read as they arrive, even  *)
(* while the loop that carries out the commands waits for OBS.             *)
(* CommandStream models how the commands are resumed; here they are one    *)
(* channel, whose answers an outage takes away.                            *)
(***************************************************************************)
EXTENDS Naturals, Sequences, FiniteSets, SequencesExt

CONSTANTS
    Rooms,
    Here,          \* the room whose machine is modelled
    Talks,
    Export,        \* of each talk, [room, end]: its slot in the export
    Tabs,          \* the tabs of the mobile control apps
    Owner,         \* of each tab, its operator
    NoOne,
    Ttl,           \* CONTROL_LOCK_TTL_MS
    Grace,         \* autoEndGraceMinutes
    MaxTime,       \* bound of the model: the end of the day
    MaxGestures    \* bound of the model: gestures of the operators

ASSUME RoomsAssumption == Here \in Rooms
ASSUME TalksAssumption == IsFiniteSet(Talks)
ASSUME ExportAssumption == Export \in [Talks -> [room : Rooms, end : Nat]]
ASSUME OwnerAssumption == \A tab \in Tabs : Owner[tab] # NoOne
ASSUME TimeAssumption == Ttl \in Nat \ {0} /\ Grace \in Nat
ASSUME BoundsAssumption == {MaxTime, MaxGestures} \subseteq Nat

VARIABLES
    now,
    states,        \* session_state: of the talks that have one, [status, room]
    pins,          \* room_pin: of the rooms that have one, the forced talk
    slots,         \* session_slot: of the talks moved, whose slot they take
    locks,         \* regie_lock: of the rooms that have one, [tab, since, seen]
    channel,       \* commands and answers on their way to the machine
    sessionStates, \* the machine's copy of the lifecycle
    roomPins,      \* its copy of the pins
    remoteHolder,  \* who it says is driving it
    gestures,      \* gestures made so far
    listed,        \* history: the talks each room has shown
    strayed,       \* history: a talk was decided for a room it is not in
    read,          \* history: the machine has read the lifecycle since it started
    told           \* history: and been told of a holder

hubVars == <<states, pins, slots>>
roomVars == <<sessionStates, roomPins, remoteHolder, read, told>>
historyVars == <<listed, strayed>>
vars == <<now, hubVars, locks, channel, roomVars, gestures, historyVars>>
-----------------------------------------------------------------------------
(***************************************************************************)
(* The tables, and the served programme.                                   *)
(***************************************************************************)

With(table, key, row) ==
    [k \in DOMAIN table \cup {key} |-> IF k = key THEN row ELSE table[k]]
Without(table, keys) == [k \in DOMAIN table \ keys |-> table[k]]

StatusOf(t) == IF t \in DOMAIN states THEN states[t].status ELSE "scheduled"

\* A scheduled talk has no state, on the hub as in the room.
Marked(copy, t, status) ==
    IF status = "scheduled" THEN Without(copy, {t}) ELSE With(copy, t, status)

\* A talk takes the slot it was given as the export has it.
SlotOf(t) == IF t \in DOMAIN slots THEN slots[t] ELSE t
RoomOf(t) == Export[SlotOf(t)].room
EndOf(t) == Export[SlotOf(t)].end

\* sessions.states of a room.
StatesIn(room) ==
    [t \in {u \in DOMAIN states : states[u].room = room} |-> states[t].status]

\* The shared table of the gestures.
TRANSITIONS ==
    [scheduled |-> [start |-> "running", end |-> "refused", reset |-> "scheduled"],
     running   |-> [start |-> "refused", end |-> "ended", reset |-> "scheduled"],
     ended     |-> [start |-> "running", end |-> "refused", reset |-> "scheduled"]]
Actions == {"start", "end", "reset"}
-----------------------------------------------------------------------------
(***************************************************************************)
(* What goes down to the machine: commands, and answers to its calls.      *)
(***************************************************************************)

State(t, room, status) ==
    [type |-> "session.state", talk |-> t, room |-> room, status |-> status]
Pins(map) == [type |-> "room.pins", pins |-> map]
Hold(holder) == [type |-> "regie.hold", holder |-> holder]

Decided(t, status) == [type |-> "decided", talk |-> t, status |-> status]
Synced(map) == [type |-> "synced", pins |-> map]
ReadBack(copy) == [type |-> "states", states |-> copy]

IsAnswer(m) == m.type \in {"decided", "synced", "states"}
Answers == {i \in DOMAIN channel : IsAnswer(channel[i])}

Send(messages) == channel' = channel \o messages

\* The lock's command is for its room alone.
ToTheRoom(room, command) == IF room = Here THEN <<command>> ELSE <<>>
Reply(asked, answer) == IF asked THEN <<answer>> ELSE <<>>

\* Bound of the model: one call of the machine is out at a time.
MayAsk == Answers = {}

Gesture ==
    /\ gestures < MaxGestures
    /\ gestures' = gestures + 1

Init ==
    /\ now = 0
    /\ states = <<>> /\ pins = <<>> /\ slots = <<>> /\ locks = <<>>
    /\ channel = <<>>
    /\ sessionStates = <<>> /\ roomPins = <<>> /\ remoteHolder = NoOne
    /\ gestures = 0
    /\ listed = [room \in Rooms |-> {t \in Talks : RoomOf(t) = room}]
    /\ strayed = FALSE
    /\ read = TRUE /\ told = TRUE
-----------------------------------------------------------------------------
(***************************************************************************)
(* The lifecycle.                                                          *)
(***************************************************************************)

\* The pins a gesture on t makes moot: the talk forced is over, or the room has
\* moved on to another.
Moot(t, room, status) ==
    {r \in {room} \cap DOMAIN pins :
        \/ status = "ended" /\ pins[r] = t
        \/ status = "running" /\ pins[r] # t}

Decide_NotToTheAsker(t, room, action, asked) ==    \* mutant: the answer will do
    LET status == TRANSITIONS[StatusOf(t)][action]
        moot == Moot(t, room, status)
    IN  /\ status # "refused"
        /\ Gesture
        /\ states' = IF status = "scheduled"
                     THEN Without(states, {t})
                     ELSE With(states, t, [status |-> status, room |-> room])
        /\ pins' = Without(pins, moot)
        /\ Send((IF moot = {} THEN <<>> ELSE <<Pins(pins')>>)
                \o IF asked THEN <<Decided(t, status)>> ELSE <<State(t, room, status)>>)
        /\ strayed' = (strayed \/ RoomOf(t) # room)
        /\ UNCHANGED <<now, slots, locks, roomVars, listed>>

\* A gesture on a talk, written, then announced to every room after the pin it
\* lifts.
Decide(t, room, action, asked) ==
    LET status == TRANSITIONS[StatusOf(t)][action]
        moot == Moot(t, room, status)
    IN  /\ status # "refused"
        /\ Gesture
        /\ states' = IF status = "scheduled"
                     THEN Without(states, {t})
                     ELSE With(states, t, [status |-> status, room |-> room])
        /\ pins' = Without(pins, moot)
        /\ Send((IF moot = {} THEN <<>> ELSE <<Pins(pins')>>)
                \o <<State(t, room, status)>>
                \o Reply(asked, Decided(t, status)))
        /\ strayed' = (strayed \/ RoomOf(t) # room)
        /\ UNCHANGED <<now, slots, locks, roomVars, listed>>

\* The console: whatever the room.
ConsoleDecides(t, action) == Decide(t, RoomOf(t), action, FALSE)

\* The machine: a talk of its room.
RoomDecides(t, action) ==
    /\ MayAsk
    /\ RoomOf(t) = Here
    /\ Decide(t, Here, action, TRUE)

\* A row whose lifetime is over is no lock, swept or not.
Live(room) == room \in DOMAIN locks /\ now < locks[room].seen + Ttl
Holds(tab, room) == Live(room) /\ locks[room].tab = tab

\* A mobile control app: any talk its page may still list, for the room it holds.
PhoneDecides(tab, room, t, action) ==
    /\ Holds(tab, room)
    /\ t \in listed[room]
    /\ Decide(t, room, action, FALSE)

Overrunning(t) ==
    /\ StatusOf(t) = "running"
    /\ EndOf(t) + Grace <= now

AutoEnd_Forced ==    \* mutant: a forced talk is closed like another
    LET ended == {t \in Talks : Overrunning(t)}
    IN  /\ ended # {}
        /\ states' = [t \in DOMAIN states |->
                        IF t \in ended THEN [states[t] EXCEPT !.status = "ended"]
                        ELSE states[t]]
        /\ \E order \in SetToSeqs(ended) :
               Send([i \in DOMAIN order |->
                        State(order[i], states[order[i]].room, "ended")])
        /\ UNCHANGED <<now, pins, slots, locks, roomVars, gestures, historyVars>>

\* The scheduling rule closes what is running past its slot, and not forced.
AutoEnd ==
    LET ended == {t \in Talks : Overrunning(t) /\ \A r \in DOMAIN pins : pins[r] # t}
    IN  /\ ended # {}
        /\ states' = [t \in DOMAIN states |->
                        IF t \in ended THEN [states[t] EXCEPT !.status = "ended"]
                        ELSE states[t]]
        /\ \E order \in SetToSeqs(ended) :
               Send([i \in DOMAIN order |->
                        State(order[i], states[order[i]].room, "ended")])
        /\ UNCHANGED <<now, pins, slots, locks, roomVars, gestures, historyVars>>
-----------------------------------------------------------------------------
(***************************************************************************)
(* The forced talk, and the swapped slots.                                 *)
(***************************************************************************)

\* From the console, from the phone that holds the room, or from its machine.
Pin(room, t, asked) ==
    /\ asked => room = Here /\ MayAsk
    /\ RoomOf(t) = room
    /\ StatusOf(t) # "ended"
    /\ Gesture
    /\ pins' = With(pins, room, t)
    /\ Send((IF pins' = pins THEN <<>> ELSE <<Pins(pins')>>)
            \o Reply(asked, Synced(pins')))
    /\ UNCHANGED <<now, states, slots, locks, roomVars, historyVars>>

Unpin(room, asked) ==
    /\ asked => room = Here /\ MayAsk
    /\ room \in DOMAIN pins
    /\ Gesture
    /\ pins' = Without(pins, {room})
    /\ Send(<<Pins(pins')>> \o Reply(asked, Synced(pins')))
    /\ UNCHANGED <<now, states, slots, locks, roomVars, historyVars>>

Exchanged_Exports(a, b) ==    \* mutant: each takes the slot the export gave the other
    With(With(slots, a, b), b, a)

\* Each talk takes the slot the other has; a talk back in its own has no row.
Exchanged(a, b) ==
    LET moved == With(With(slots, a, SlotOf(b)), b, SlotOf(a))
    IN  Without(moved, {t \in DOMAIN moved : moved[t] = t})

Swap_Quietly(a, b) ==    \* mutant: the pins lifted are not announced
    /\ a # b
    /\ StatusOf(a) = "scheduled" /\ StatusOf(b) = "scheduled"
    /\ Gesture
    /\ slots' = Exchanged(a, b)
    /\ pins' = Without(pins, {r \in DOMAIN pins : pins[r] \in {a, b}})
    /\ listed' = [room \in Rooms |-> listed[room] \cup {t \in Talks : RoomOf(t)' = room}]
    /\ UNCHANGED <<now, states, locks, channel, roomVars, strayed>>

\* Two scheduled talks; a pin on one of them is lifted.
Swap(a, b) ==
    LET lifted == {r \in DOMAIN pins : pins[r] \in {a, b}}
    IN  /\ a # b
        /\ StatusOf(a) = "scheduled" /\ StatusOf(b) = "scheduled"
        /\ Gesture
        /\ slots' = Exchanged(a, b)
        /\ pins' = Without(pins, lifted)
        /\ Send(IF lifted = {} THEN <<>> ELSE <<Pins(pins')>>)
        /\ listed' = [room \in Rooms |-> listed[room] \cup {t \in Talks : RoomOf(t)' = room}]
        /\ UNCHANGED <<now, states, locks, roomVars, strayed>>

\* Every talk goes back to the export's slot, whatever its state.
ResetSlots ==
    /\ slots # <<>>
    /\ Gesture
    /\ slots' = <<>>
    /\ strayed' = (strayed \/ \E t \in DOMAIN states : Export[t].room # states[t].room)
    /\ UNCHANGED <<now, states, pins, locks, channel, roomVars, listed>>
-----------------------------------------------------------------------------
(***************************************************************************)
(* The lock of the mobile control apps.                                    *)
(***************************************************************************)

TakeHold_SinceTheRow(tab, room, force) ==    \* mutant: a lapsed row still counts
    LET old == room \in DOMAIN locks /\ locks[room].tab = tab
        before == IF Live(room) THEN Owner[locks[room].tab] ELSE NoOne
    IN  /\ Live(room) /\ ~old => force
        /\ Gesture
        /\ locks' = With(locks, room,
                         [tab |-> tab, seen |-> now,
                          since |-> IF old THEN locks[room].since ELSE now])
        /\ Send(IF before = Owner[tab] THEN <<>> ELSE ToTheRoom(room, Hold(Owner[tab])))
        /\ UNCHANGED <<now, hubVars, roomVars, historyVars>>

\* A tab takes the room, by force from another, or renews.  The room is told
\* when the operator changes.
TakeHold(tab, room, force) ==
    LET mine == Holds(tab, room)
        before == IF Live(room) THEN Owner[locks[room].tab] ELSE NoOne
    IN  /\ Live(room) /\ ~mine => force
        /\ Gesture
        /\ locks' = With(locks, room,
                         [tab |-> tab, seen |-> now,
                          since |-> IF mine THEN locks[room].since ELSE now])
        /\ Send(IF before = Owner[tab] THEN <<>> ELSE ToTheRoom(room, Hold(Owner[tab])))
        /\ UNCHANGED <<now, hubVars, roomVars, historyVars>>

\* The holder's page reads the room's view: its heartbeat.
Renew(tab, room) ==
    /\ Holds(tab, room)
    /\ locks' = With(locks, room, [tab |-> tab, seen |-> now, since |-> locks[room].since])
    /\ UNCHANGED <<now, hubVars, channel, roomVars, gestures, historyVars>>

Release(tab, room) ==
    /\ Holds(tab, room)
    /\ Gesture
    /\ locks' = Without(locks, {room})
    /\ Send(ToTheRoom(room, Hold(NoOne)))
    /\ UNCHANGED <<now, hubVars, roomVars, historyVars>>

SweepLocks_Quietly ==    \* mutant: the room is not told
    LET expired == {room \in DOMAIN locks : ~Live(room)}
    IN  /\ expired # {}
        /\ locks' = Without(locks, expired)
        /\ UNCHANGED <<now, hubVars, channel, roomVars, gestures, historyVars>>

SweepLocks ==
    LET expired == {room \in DOMAIN locks : ~Live(room)}
    IN  /\ expired # {}
        /\ locks' = Without(locks, expired)
        /\ Send(IF Here \in expired THEN <<Hold(NoOne)>> ELSE <<>>)
        /\ UNCHANGED <<now, hubVars, roomVars, gestures, historyVars>>

Tick ==
    /\ now < MaxTime
    /\ now' = now + 1
    /\ UNCHANGED <<hubVars, locks, channel, roomVars, gestures, historyVars>>
-----------------------------------------------------------------------------
(***************************************************************************)
(* The room's machine.                                                     *)
(***************************************************************************)

\* A command is carried out in its turn, once the answers that came before it
\* are read.
Apply ==
    /\ channel # <<>>
    /\ LET m == Head(channel)
           ours == m.type = "session.state" /\ m.room = Here
       IN  /\ ~IsAnswer(m)
           /\ sessionStates' = IF ours THEN Marked(sessionStates, m.talk, m.status)
                               ELSE sessionStates
           /\ roomPins' = IF m.type = "room.pins" THEN m.pins ELSE roomPins
           /\ remoteHolder' = IF m.type = "regie.hold" THEN m.holder ELSE remoteHolder
           /\ told' = (told \/ m.type = "regie.hold")
    /\ channel' = Tail(channel)
    /\ UNCHANGED <<now, hubVars, locks, gestures, historyVars, read>>

\* An answer is read as it arrives, ahead of the commands that wait.
Arrive ==
    /\ \E i \in Answers :
       LET m == channel[i]
       IN  /\ sessionStates' =
                CASE m.type = "decided" -> Marked(sessionStates, m.talk, m.status)
                  [] m.type = "states"  -> m.states
                  [] m.type = "synced"  -> sessionStates
           /\ roomPins' = IF m.type = "synced" THEN m.pins ELSE roomPins
           /\ read' = (read \/ m.type = "states")
           /\ channel' = RemoveAt(channel, i)
    /\ UNCHANGED <<now, hubVars, locks, gestures, historyVars, remoteHolder, told>>

\* A sync, for any of its reasons.
AskSync ==
    /\ MayAsk
    /\ Send(<<Synced(pins)>>)
    /\ UNCHANGED <<now, hubVars, locks, roomVars, gestures, historyVars>>

\* loadSessionStates: at the start, on a full resync, when the clock is moved.
AskStates ==
    /\ MayAsk
    /\ Send(<<ReadBack(StatesIn(Here))>>)
    /\ UNCHANGED <<now, hubVars, locks, roomVars, gestures, historyVars>>

\* An outage takes the answer that is awaited, not the commands.
LoseAnswers ==
    IF MayAsk THEN UNCHANGED channel
    ELSE \E i \in Answers : channel' = RemoveAt(channel, i)

Disconnect ==
    /\ ~MayAsk
    /\ LoseAnswers
    /\ UNCHANGED <<now, hubVars, locks, roomVars, gestures, historyVars>>

\* The machine starts again: the pins are on its disk, the rest is not.
Restart ==
    /\ LoseAnswers
    /\ sessionStates' = <<>> /\ remoteHolder' = NoOne
    /\ read' = FALSE /\ told' = FALSE
    /\ UNCHANGED <<now, hubVars, locks, gestures, historyVars, roomPins>>
-----------------------------------------------------------------------------
Next ==
    \/ \E t \in Talks, action \in Actions :
          \/ ConsoleDecides(t, action)
          \/ RoomDecides(t, action)
          \/ \E tab \in Tabs, room \in Rooms : PhoneDecides(tab, room, t, action)
    \/ AutoEnd
    \/ \E room \in Rooms, asked \in BOOLEAN :
          Unpin(room, asked) \/ \E t \in Talks : Pin(room, t, asked)
    \/ \E a, b \in Talks : Swap(a, b)
    \/ ResetSlots
    \/ \E tab \in Tabs, room \in Rooms :
          \/ \E force \in BOOLEAN : TakeHold(tab, room, force)
          \/ Renew(tab, room)
          \/ Release(tab, room)
    \/ SweepLocks
    \/ Tick
    \/ Apply
    \/ Arrive
    \/ AskSync
    \/ AskStates
    \/ Disconnect
    \/ Restart

Spec == Init /\ [][Next]_vars
-----------------------------------------------------------------------------
(***************************************************************************)
(* Properties.                                                             *)
(***************************************************************************)

Statuses == {"running", "ended"}
Table(table, keys, rows) ==
    /\ DOMAIN table \subseteq keys
    /\ \A k \in DOMAIN table : table[k] \in rows

TypeOK ==
    /\ now \in 0..MaxTime
    /\ Table(states, Talks, [status : Statuses, room : Rooms])
    /\ Table(pins, Rooms, Talks)
    /\ Table(slots, Talks, Talks)
    /\ Table(locks, Rooms, [tab : Tabs, since : 0..now, seen : 0..now])
    /\ \A i, j \in Answers : i = j
    /\ Table(sessionStates, Talks, Statuses)
    /\ Table(roomPins, Rooms, Talks)
    /\ remoteHolder \in {Owner[tab] : tab \in Tabs} \cup {NoOne}
    /\ gestures \in 0..MaxGestures
    /\ listed \in [Rooms -> SUBSET Talks]
    /\ {strayed, read, told} \subseteq BOOLEAN

\* With nothing left on its way, the room's copy of the lifecycle is the hub's,
\* whoever decided and in whatever order commands and answers were read; once it
\* has read the lifecycle since it started, and as long as no talk was decided
\* for a room that is not its own, nor moved once it was.
LifecycleCatchesUp ==
    channel = <<>> /\ read /\ ~strayed => sessionStates = StatesIn(Here)

\* With nothing left on its way, the room knows the forced talks, restarted or
\* not.
PinsCatchUp == channel = <<>> => roomPins = pins

\* With nothing left on its way, a room that was told of a holder since it
\* started shows the operator of the lock that is kept, and none once the lock is
\* released or swept.
BadgeFollowsTheLock ==
    channel = <<>> /\ told =>
        remoteHolder = IF Here \in DOMAIN locks THEN Owner[locks[Here].tab] ELSE NoOne

\* "Held since" is when that tab took the room, and it kept it ever since: a
\* renewal keeps it, and neither a takeover nor a lock that lapsed hands it on.
HeldWithoutAGap ==
    [][\A room \in DOMAIN locks \cap DOMAIN locks' :
            LET old == locks[room]
                new == locks'[room]
            IN  new # old =>
                    new.since = IF Live(room) /\ new.tab = old.tab THEN old.since
                                ELSE now]_vars

\* However swaps are chained, every talk has one slot and every slot one talk,
\* and a talk back in its own slot leaves no trace in the table.
SlotsArePermuted ==
    /\ \A s \in Talks : \E t \in Talks : SlotOf(t) = s
    /\ \A t, u \in Talks : SlotOf(t) = SlotOf(u) => t = u
    /\ \A t \in DOMAIN slots : slots[t] # t

\* A pin never outlives its talk: from whatever screen, or by the scheduling
\* rule, the talk a room is forced on is not one that ended.
PinEndsWithItsTalk ==
    ~strayed =>
        \A room \in DOMAIN pins :
            RoomOf(pins[room]) = room => StatusOf(pins[room]) # "ended"
=============================================================================
