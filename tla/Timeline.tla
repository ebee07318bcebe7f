------------------------------ MODULE Timeline ------------------------------
(***************************************************************************)
(* The schedule rules every screen shares: where a room stands in its      *)
(* programme, which talk its buttons reach, and the breaks a free room     *)
(* inherits (packages/program, packages/room-state).  Pure: no clock is    *)
(* read here, no state kept.                                               *)
(*                                                                         *)
(* A programme is a sequence of slots [id, room, kind, start, end,         *)
(* duration, title], sorted by start then identifier; an identifier is a   *)
(* sequence of names, times are whole units.  The slots of a room keep the *)
(* rank they have in the programme: slots is a function on some of its     *)
(* ranks.  statuses gives the talks that have a state, pin the talk forced *)
(* into the room.                                                          *)
(***************************************************************************)
EXTENDS Integers, Sequences, FiniteSetsExt, Functions

CONSTANTS
    NoTime,         \* null, of a time
    NoSlot,         \* null, of a slot or of a talk
    EndingSoon,     \* ENDING_SOON_MS
    Late,           \* LATE_MS
    BreakSoon,      \* BREAK_SOON_MS
    Grace           \* graceMinutes

ASSUME TimelineAssumption ==
    {EndingSoon, Late, BreakSoon, Grace} \subseteq Nat /\ NoTime \notin Nat

Slot == [id : Seq(STRING), room : STRING, kind : {"talk", "break"}, start : Nat,
         end : Nat \cup {NoTime}, duration : Nat \cup {NoTime}, title : STRING]

StatusIn(statuses, id) == IF id \in DOMAIN statuses THEN statuses[id] ELSE "scheduled"

\* The first, or last, of these ranks; 0 for none.
First(ranks) == IF ranks = {} THEN 0 ELSE Min(ranks)
Last(ranks) == IF ranks = {} THEN 0 ELSE Max(ranks)
At(slots, i) == IF i \in DOMAIN slots THEN slots[i] ELSE NoSlot

\* sessionsForRoom: the room's slots, in the programme's order.
RanksOf(program, room) == {i \in DOMAIN program : program[i].room = room}
SessionsForRoom(program, room) == Restrict(program, RanksOf(program, room))

-----------------------------------------------------------------------------
(* selectors.ts *)

After(slots, i) == First({j \in DOMAIN slots : j > i})

\* effectiveEndMs, effectiveEndAt: the end given, else the duration, else the
\* start of the slot that follows.
EffectiveEnd(slots, i) ==
    CASE slots[i].end # NoTime -> slots[i].end
      [] slots[i].end = NoTime /\ slots[i].duration # NoTime -> slots[i].start + slots[i].duration
      [] OTHER -> IF After(slots, i) # 0 THEN slots[After(slots, i)].start ELSE NoTime

Over(slots, i, now) == EffectiveEnd(slots, i) # NoTime /\ EffectiveEnd(slots, i) <= now

\* timelinePosition: the first slot begun and not over, unless one that has not
\* begun comes before it.
StopAt(slots, now) == First({i \in DOMAIN slots : slots[i].start > now \/ ~Over(slots, i, now)})
CurrentAt(slots, now) ==
    LET stop == StopAt(slots, now) IN
    IF stop # 0 /\ slots[stop].start <= now THEN stop ELSE 0
NextAt(slots, now) ==
    LET stop == StopAt(slots, now) IN
    IF stop # 0 /\ slots[stop].start <= now THEN After(slots, stop) ELSE stop

Current(slots, now) == At(slots, CurrentAt(slots, now))

-----------------------------------------------------------------------------
(* state.ts *)

\* pinnedSlot: a talk of these slots that has not ended; else the pin is inert.
PinnedAt(slots, statuses, pin) ==
    First({i \in DOMAIN slots : /\ slots[i].id = pin /\ slots[i].kind = "talk"
                                /\ StatusIn(statuses, pin) # "ended"})

OverrunningAt(slots, now, statuses, pin) ==
    {i \in DOMAIN slots :
        /\ StatusIn(statuses, slots[i].id) = "running"
        /\ slots[i].kind # "break"
        /\ i # PinnedAt(slots, statuses, pin)
        /\ Over(slots, i, now)}

\* stateOfSlots: the first that holds.
StateOfSlots(slots, now, statuses, pin) ==
    LET pinned == PinnedAt(slots, statuses, pin)
        cur == CurrentAt(slots, now)
        status == StatusIn(statuses, slots[cur].id)
        end == EffectiveEnd(slots, cur)
    IN  IF OverrunningAt(slots, now, statuses, pin) # {} THEN "depassement"
        ELSE IF pinned # 0
             THEN IF StatusIn(statuses, pin) = "running" THEN "en-cours" ELSE "pas-commencee"
        ELSE IF cur = 0 THEN "aucune"
        ELSE IF slots[cur].kind = "break" THEN "pause"
        ELSE IF status = "ended" THEN "terminee"
        ELSE IF status = "running"
             THEN IF end # NoTime /\ end - now <= EndingSoon THEN "fin-proche" ELSE "en-cours"
        ELSE IF now - slots[cur].start > Late THEN "retard" ELSE "pas-commencee"

\* breakOfSlots: the break that runs, or the next slot if it is a break near
\* enough, with the time the room resumes.
BreakOfSlots(slots, now) ==
    LET cur == CurrentAt(slots, now)
        next == NextAt(slots, now)
        Badge(state, i) == [state |-> state, slot |-> slots[i], ends |-> EffectiveEnd(slots, i)]
    IN  IF cur # 0 /\ slots[cur].kind = "break" THEN Badge("en-cours", cur)
        ELSE IF next # 0 /\ slots[next].kind = "break" /\ slots[next].start - now <= BreakSoon
        THEN Badge("a-venir", next)
        ELSE NoSlot

\* nextTalk: the first talk to come that has not already been given.
NextTalkAt(slots, now, statuses) ==
    First({i \in DOMAIN slots : /\ slots[i].kind = "talk" /\ slots[i].start > now
                                /\ StatusIn(statuses, slots[i].id) # "ended"})

\* talkOnAir: the last talk started and not ended, whatever the schedule.
OnAirAt(slots, statuses) ==
    Last({i \in DOMAIN slots :
            slots[i].kind = "talk" /\ StatusIn(statuses, slots[i].id) = "running"})

\* Mutant: the talk left running is aimed at before the one whose slot has begun.
TargetAt_OnAirFirst(slots, now, statuses, pin) ==
    LET pinned == PinnedAt(slots, statuses, pin)
        cur == CurrentAt(slots, now)
        onAir == OnAirAt(slots, statuses)
    IN  IF pinned # 0 THEN pinned
        ELSE IF onAir # 0 THEN onAir
        ELSE IF cur # 0 /\ slots[cur].kind = "talk" THEN cur
        ELSE NextTalkAt(slots, now, statuses)

\* talkToControl: the forced talk, the slot that runs if it is a talk, the last
\* talk still running, the next one.
TargetAt(slots, now, statuses, pin) ==
    LET pinned == PinnedAt(slots, statuses, pin)
        cur == CurrentAt(slots, now)
        onAir == OnAirAt(slots, statuses)
    IN  IF pinned # 0 THEN pinned
        ELSE IF cur # 0 /\ slots[cur].kind = "talk" THEN cur
        ELSE IF onAir # 0 THEN onAir
        ELSE NextTalkAt(slots, now, statuses)

\* Mutant: the clock drops the talk the forced one jumped over.
NextWithPinAt_OnTheClock(slots, now, statuses, pin) ==
    LET pinned == PinnedAt(slots, statuses, pin)
    IN  First({i \in DOMAIN slots : /\ i # pinned /\ slots[i].kind = "talk"
                                    /\ StatusIn(statuses, slots[i].id) = "scheduled"
                                    /\ ~Over(slots, i, now)})

\* roomPosition, with a pin: the first talk still to be given, the one the
\* forced talk jumped over included.
NextWithPinAt(slots, now, statuses, pin) ==
    LET pinned == PinnedAt(slots, statuses, pin)
        jumpedOver == Last({i \in DOMAIN slots : i < pinned /\ slots[i].kind = "talk"})
    IN  First({i \in DOMAIN slots : /\ i # pinned /\ slots[i].kind = "talk"
                                    /\ StatusIn(statuses, slots[i].id) = "scheduled"
                                    /\ i = jumpedOver \/ ~Over(slots, i, now)})

\* roomPosition.
RoomPosition(slots, now, statuses, pin) ==
    LET pinned == PinnedAt(slots, statuses, pin) IN
    IF pinned = 0
    THEN [current |-> Current(slots, now), next |-> At(slots, NextAt(slots, now)),
          target |-> At(slots, TargetAt(slots, now, statuses, pin)), pinned |-> NoSlot]
    ELSE [current |-> slots[pinned], next |-> At(slots, NextWithPinAt(slots, now, statuses, pin)),
          target |-> slots[pinned], pinned |-> slots[pinned]]

\* shouldAutoEnd.
ShouldAutoEnd(end, status, now) == status = "running" /\ end # NoTime /\ end <= now - Grace

-----------------------------------------------------------------------------
(* shared-breaks.ts *)

\* Mutant: free at the break's start is free enough.
Overlaps_AtItsStart(slots, i, start, end) ==
    /\ slots[i].start <= start
    /\ EffectiveEnd(slots, i) = NoTime \/ EffectiveEnd(slots, i) > start

\* overlaps: right-open intervals; a slot nothing closes occupies its room.
Overlaps(slots, i, start, end) ==
    /\ slots[i].start < end
    /\ EffectiveEnd(slots, i) = NoTime \/ EffectiveEnd(slots, i) > start

\* endOf: the end of a slot, read in its own room.
EndInRoom(program, i) == EffectiveEnd(SessionsForRoom(program, program[i].room), i)

\* The breaks of the other rooms a room inherits: it is free all along, and has
\* not inherited the same one already.
Inherited(program, room) ==
    LET own == SessionsForRoom(program, room)
        Held(i) == program[i].kind = "break" /\ program[i].room # room
        Same(i, j) == /\ program[i].start = program[j].start /\ program[i].title = program[j].title
                      /\ EndInRoom(program, i) = EndInRoom(program, j)
    IN  {i \in DOMAIN program :
            /\ Held(i)
            /\ EndInRoom(program, i) # NoTime
            /\ \A k \in DOMAIN own : ~Overlaps(own, k, program[i].start, EndInRoom(program, i))
            /\ \A j \in 1 .. i - 1 : ~(Held(j) /\ Same(i, j))}

\* applySharedBreaks, as one room is served it: its slots, and a copy of each
\* inherited one, which comes where it does in the programme.
Copy(slot, room) == [slot EXCEPT !.id = Append(@, room), !.room = room]
Served(program, room) ==
    [i \in RanksOf(program, room) \cup Inherited(program, room) |->
        IF program[i].room = room THEN program[i] ELSE Copy(program[i], room)]
=============================================================================
