--------------------------- MODULE RoomDayProofs ---------------------------
(***************************************************************************)
(* Theorems about RoomDay, for every set of rooms, of talks and of tabs,   *)
(* every export, every lifetime and every bound.                           *)
(***************************************************************************)
EXTENDS RoomDay, FiniteSetTheorems, TLAPS

-----------------------------------------------------------------------------
(***************************************************************************)
(* The tables.                                                             *)
(***************************************************************************)

\* An exchange gives each of two talks the slot of the other, and no other talk
\* a new one.
LEMMA ExchangedIs ==
    ASSUME NEW a, NEW b, a # b
    PROVE  LET moved == Exchanged(a, b)
               At(t) == IF t \in DOMAIN moved THEN moved[t] ELSE t
           IN  /\ At(a) = SlotOf(b)
               /\ At(b) = SlotOf(a)
               /\ \A t : t # a /\ t # b /\ (t \in DOMAIN slots => slots[t] # t) => At(t) = SlotOf(t)
               /\ DOMAIN moved \subseteq DOMAIN slots \cup {a, b}
               /\ \A t \in DOMAIN moved : moved[t] # t
<1> DEFINE one == With(slots, a, SlotOf(b))
           two == With(one, b, SlotOf(a))
           own == {t \in DOMAIN two : two[t] = t}
           moved == Without(two, own)
<1>1. /\ DOMAIN one = DOMAIN slots \cup {a}
      /\ one[a] = SlotOf(b)
      /\ \A t \in DOMAIN slots \ {a} : one[t] = slots[t]
  BY DEF With
<1>2. /\ DOMAIN two = DOMAIN one \cup {b}
      /\ two[b] = SlotOf(a)
      /\ \A t \in DOMAIN one \ {b} : two[t] = one[t]
  <2> HIDE DEF one
  <2> QED BY DEF With
<1>3. /\ DOMAIN two = DOMAIN slots \cup {a, b}
      /\ two[a] = SlotOf(b)
      /\ two[b] = SlotOf(a)
      /\ \A t \in DOMAIN slots \ {a, b} : two[t] = slots[t]
  <2> HIDE DEF one, two
  <2> QED BY <1>1, <1>2
<1>4. /\ DOMAIN moved = DOMAIN two \ own
      /\ \A t \in DOMAIN two \ own : moved[t] = two[t]
  <2> HIDE DEF two, own
  <2> QED BY DEF Without
<1>5. moved = Exchanged(a, b)
  BY DEF Exchanged
<1> HIDE DEF one, two, moved
<1> QED BY <1>3, <1>4, <1>5 DEF SlotOf

-----------------------------------------------------------------------------
(***************************************************************************)
(* The swapped slots.                                                      *)
(***************************************************************************)

\* What an exchange needs of the table: its rows are of talks, and permute them.
SlotsInv ==
    /\ DOMAIN slots \subseteq Talks
    /\ \A t \in Talks : SlotOf(t) \in Talks
    /\ SlotsArePermuted

LEMMA SlotsInvInit == Init => SlotsInv
BY DEF Init, SlotsInv, SlotsArePermuted, SlotOf

LEMMA SwapKeepsSlots ==
    ASSUME SlotsInv, NEW a \in Talks, NEW b \in Talks, Swap(a, b)
    PROVE  SlotsInv'
<1> DEFINE At(t) == IF t \in DOMAIN slots' THEN slots'[t] ELSE t
<1>1. a # b /\ slots' = Exchanged(a, b)
  BY DEF Swap
<1>2. /\ At(a) = SlotOf(b)
      /\ At(b) = SlotOf(a)
      /\ \A t \in Talks \ {a, b} : At(t) = SlotOf(t)
      /\ DOMAIN slots' \subseteq Talks
      /\ \A t \in DOMAIN slots' : slots'[t] # t
      /\ \A t \in Talks : At(t) \in Talks
  BY <1>1, ExchangedIs DEF SlotsInv, SlotsArePermuted
<1>3. \A t : SlotOf(t)' = At(t)
  BY DEF SlotOf
<1> HIDE DEF At
<1>4. \A s \in Talks : \E t \in Talks : At(t) = s
  <2> SUFFICES ASSUME NEW s \in Talks PROVE \E t \in Talks : At(t) = s
    OBVIOUS
  <2>1. PICK u \in Talks : SlotOf(u) = s
    BY DEF SlotsInv, SlotsArePermuted
  <2>2. CASE u = a
    BY <2>1, <2>2, <1>2
  <2>3. CASE u = b
    BY <2>1, <2>3, <1>2
  <2>4. CASE u # a /\ u # b
    BY <2>1, <2>4, <1>2
  <2> QED BY <2>2, <2>3, <2>4
<1>5. \A t, u \in Talks : At(t) = At(u) => t = u
  <2> SUFFICES ASSUME NEW t \in Talks, NEW u \in Talks, At(t) = At(u)
               PROVE  t = u
    OBVIOUS
  <2> DEFINE Other(v) == IF v = a THEN b ELSE IF v = b THEN a ELSE v
  <2>1. \A v \in Talks : Other(v) \in Talks /\ At(v) = SlotOf(Other(v))
    BY <1>2
  <2>2. Other(t) = Other(u)
    BY <2>1 DEF SlotsInv, SlotsArePermuted
  <2> QED BY <2>2, <1>1
<1> QED BY <1>2, <1>3, <1>4, <1>5 DEF SlotsInv, SlotsArePermuted

\* Only an exchange and the return to the export touch the slots.
LEMMA SlotsMove ==
    ASSUME Next
    PROVE  \/ UNCHANGED slots
           \/ \E a, b \in Talks : Swap(a, b)
           \/ ResetSlots
<1>1. ASSUME NEW t, NEW room, NEW action, NEW asked, Decide(t, room, action, asked)
      PROVE  UNCHANGED slots
  BY <1>1 DEF Decide
<1>2. CASE \E t \in Talks, action \in Actions :
              \/ ConsoleDecides(t, action)
              \/ RoomDecides(t, action)
              \/ \E tab \in Tabs, room \in Rooms : PhoneDecides(tab, room, t, action)
  BY <1>1, <1>2 DEF ConsoleDecides, RoomDecides, PhoneDecides
<1>3. CASE AutoEnd
  BY <1>3 DEF AutoEnd
<1>4. CASE \E room \in Rooms, asked \in BOOLEAN :
              Unpin(room, asked) \/ \E t \in Talks : Pin(room, t, asked)
  BY <1>4 DEF Unpin, Pin
<1>5. CASE \E tab \in Tabs, room \in Rooms :
              \/ \E force \in BOOLEAN : TakeHold(tab, room, force)
              \/ Renew(tab, room)
              \/ Release(tab, room)
  BY <1>5 DEF TakeHold, Renew, Release, hubVars
<1>6. CASE SweepLocks \/ Tick
  BY <1>6 DEF SweepLocks, Tick, hubVars
<1>7. CASE Apply \/ Arrive \/ AskSync \/ AskStates \/ Disconnect \/ Restart
  BY <1>7 DEF Apply, Arrive, AskSync, AskStates, Disconnect, Restart, hubVars
<1> QED BY <1>2, <1>3, <1>4, <1>5, <1>6, <1>7 DEF Next

LEMMA SlotsInvNext == SlotsInv /\ [Next]_vars => SlotsInv'
<1> SUFFICES ASSUME SlotsInv, [Next]_vars PROVE SlotsInv'
  OBVIOUS
<1>1. CASE UNCHANGED slots
  BY <1>1 DEF SlotsInv, SlotsArePermuted, SlotOf
<1>2. CASE \E a, b \in Talks : Swap(a, b)
  BY <1>2, SwapKeepsSlots
<1>3. CASE ResetSlots
  <2>1. slots' = <<>>
    BY <1>3 DEF ResetSlots
  <2> QED BY <2>1 DEF SlotsInv, SlotsArePermuted, SlotOf
<1> QED BY <1>1, <1>2, <1>3, SlotsMove DEF vars, hubVars

\* However swaps and returns to the export are chained, whatever the programme:
\* every slot has one talk, every talk one slot, and no row is left behind.
THEOREM SlotsAlwaysPermuted == Spec => []SlotsArePermuted
<1>1. SlotsInv => SlotsArePermuted
  BY DEF SlotsInv
<1> QED BY <1>1, SlotsInvInit, SlotsInvNext, PTL DEF Spec
-----------------------------------------------------------------------------
(***************************************************************************)
(* The lock.                                                               *)
(***************************************************************************)

\* Only the four calls on the lock touch it.
LEMMA LocksMove ==
    ASSUME Next
    PROVE  \/ UNCHANGED locks
           \/ \E tab \in Tabs, r \in Rooms, force \in BOOLEAN : TakeHold(tab, r, force)
           \/ \E tab \in Tabs, r \in Rooms : Renew(tab, r) \/ Release(tab, r)
           \/ SweepLocks
<1>1. ASSUME NEW t, NEW room, NEW action, NEW asked, Decide(t, room, action, asked)
      PROVE  UNCHANGED locks
  BY <1>1 DEF Decide
<1>2. CASE \E t \in Talks, action \in Actions :
              \/ ConsoleDecides(t, action)
              \/ RoomDecides(t, action)
              \/ \E tab \in Tabs, room \in Rooms : PhoneDecides(tab, room, t, action)
  BY <1>1, <1>2 DEF ConsoleDecides, RoomDecides, PhoneDecides
<1>3. CASE AutoEnd
  BY <1>3 DEF AutoEnd
<1>4. CASE \E room \in Rooms, asked \in BOOLEAN :
              Unpin(room, asked) \/ \E t \in Talks : Pin(room, t, asked)
  BY <1>4 DEF Unpin, Pin
<1>5. CASE (\E a, b \in Talks : Swap(a, b)) \/ ResetSlots
  BY <1>5 DEF Swap, ResetSlots
<1>6. CASE Tick
  BY <1>6 DEF Tick
<1>7. CASE Apply \/ Arrive \/ AskSync \/ AskStates \/ Disconnect \/ Restart
  BY <1>7 DEF Apply, Arrive, AskSync, AskStates, Disconnect, Restart
<1> QED BY <1>2, <1>3, <1>4, <1>5, <1>6, <1>7 DEF Next

LEMMA HeldStep ==
    ASSUME Next, NEW room \in DOMAIN locks \cap DOMAIN locks',
           locks'[room] # locks[room]
    PROVE  locks'[room].since =
               IF Live(room) /\ locks'[room].tab = locks[room].tab
               THEN locks[room].since ELSE now
<1>1. CASE \E tab \in Tabs, r \in Rooms, force \in BOOLEAN : TakeHold(tab, r, force)
  <2>1. PICK tab \in Tabs, r \in Rooms, force \in BOOLEAN : TakeHold(tab, r, force)
    BY <1>1
  <2> DEFINE row == [tab |-> tab, seen |-> now,
                     since |-> IF Holds(tab, r) THEN locks[r].since ELSE now]
  <2>2. locks' = With(locks, r, row)
    BY <2>1 DEF TakeHold
  <2>3. room = r /\ locks'[room] = row
    <3> HIDE DEF row
    <3> QED BY <2>2 DEF With
  <2> QED BY <2>3 DEF Holds
<1>2. CASE \E tab \in Tabs, r \in Rooms : Renew(tab, r)
  <2>1. PICK tab \in Tabs, r \in Rooms : Renew(tab, r)
    BY <1>2
  <2> DEFINE row == [tab |-> tab, seen |-> now, since |-> locks[r].since]
  <2>2. Live(r) /\ locks[r].tab = tab /\ locks' = With(locks, r, row)
    BY <2>1 DEF Renew, Holds
  <2>3. room = r /\ locks'[room] = row
    <3> HIDE DEF row
    <3> QED BY <2>2 DEF With
  <2> QED BY <2>2, <2>3
<1>3. CASE \E tab \in Tabs, r \in Rooms : Release(tab, r)
  BY <1>3 DEF Release, Without
<1>4. CASE SweepLocks
  BY <1>4 DEF SweepLocks, Without
<1> QED BY <1>1, <1>2, <1>3, <1>4, LocksMove

\* "Held since" is honest, for every number of rooms and tabs and whatever the
\* lifetime of a lock.
THEOREM HeldSinceIsHonest == Spec => HeldWithoutAGap
<1> DEFINE Honest(room) ==
              locks'[room] # locks[room] =>
                  locks'[room].since =
                      IF Live(room) /\ locks'[room].tab = locks[room].tab
                      THEN locks[room].since ELSE now
<1>1. ASSUME [Next]_vars PROVE \A room \in DOMAIN locks \cap DOMAIN locks' : Honest(room)
  <2>1. CASE Next
    BY <2>1, HeldStep
  <2>2. CASE UNCHANGED vars
    BY <2>2 DEF vars
  <2> QED BY <1>1, <2>1, <2>2
<1>2. [Next]_vars =>
        [\A room \in DOMAIN locks \cap DOMAIN locks' :
            LET old == locks[room]
                new == locks'[room]
            IN  new # old =>
                    new.since = IF Live(room) /\ new.tab = old.tab THEN old.since
                                ELSE now]_vars
  BY <1>1
<1> QED BY <1>2, PTL DEF Spec, HeldWithoutAGap
-----------------------------------------------------------------------------
(***************************************************************************)
(* The forced talk.                                                        *)
(***************************************************************************)

Forced ==
    \A r \in DOMAIN pins : RoomOf(pins[r]) = r => StatusOf(pins[r]) # "ended"
InItsRoom == \A t \in DOMAIN states : states[t].room = RoomOf(t)

\* What a pin's end needs of the other tables: a talk decided is in the room it
\* was decided for, so that its return to the export is seen.
PinInv ==
    /\ Table(states, Talks, [status : Statuses, room : Rooms])
    /\ Table(pins, Rooms, Talks)
    /\ SlotsInv
    /\ ~strayed => InItsRoom /\ Forced

LEMMA PinInvInit == Init => PinInv
BY SlotsInvInit DEF Init, PinInv, Table, InItsRoom, Forced

LEMMA DecideKeepsPins ==
    ASSUME PinInv, NEW t \in Talks, NEW room \in Rooms, NEW action \in Actions,
           NEW asked, Decide(t, room, action, asked)
    PROVE  PinInv'
<1> DEFINE status == TRANSITIONS[StatusOf(t)][action]
           moot == Moot(t, room, status)
<1>1. /\ status # "refused"
      /\ states' = IF status = "scheduled"
                   THEN Without(states, {t})
                   ELSE With(states, t, [status |-> status, room |-> room])
      /\ pins' = Without(pins, moot)
      /\ strayed' = (strayed \/ RoomOf(t) # room)
      /\ slots' = slots
  BY DEF Decide
<1>2. status \in Statuses \cup {"scheduled"}
  <2>1. StatusOf(t) \in {"scheduled", "running", "ended"}
    BY DEF PinInv, Table, StatusOf, Statuses
  <2> QED BY <1>1, <2>1 DEF TRANSITIONS, Actions, Statuses
<1>3. moot = {r \in {room} \cap DOMAIN pins :
                 \/ status = "ended" /\ pins[r] = t
                 \/ status = "running" /\ pins[r] # t}
  BY DEF Moot
<1> HIDE DEF status, moot
<1>4. /\ DOMAIN pins' = DOMAIN pins \ moot
      /\ \A r \in DOMAIN pins' : pins'[r] = pins[r]
  BY <1>1 DEF Without
<1>5. /\ \A u \in DOMAIN states' \ {t} : u \in DOMAIN states /\ states'[u] = states[u]
      /\ DOMAIN states \subseteq DOMAIN states' \cup {t}
      /\ t \in DOMAIN states' =>
            status # "scheduled" /\ states'[t] = [status |-> status, room |-> room]
  <2>1. CASE status = "scheduled"
    BY <1>1, <2>1 DEF Without
  <2>2. CASE status # "scheduled"
    BY <1>1, <2>2 DEF With
  <2> QED BY <2>1, <2>2
<1>6. Table(states', Talks, [status : Statuses, room : Rooms])
  BY <1>2, <1>5 DEF PinInv, Table
<1>7. Table(pins', Rooms, Talks)
  BY <1>4 DEF PinInv, Table
<1>8. SlotsInv' /\ \A u : RoomOf(u)' = RoomOf(u)
  BY <1>1 DEF PinInv, SlotsInv, SlotsArePermuted, SlotOf, RoomOf
<1>9. ASSUME ~strayed' PROVE InItsRoom' /\ Forced'
  <2>1. ~strayed /\ RoomOf(t) = room
    BY <1>1, <1>9
  <2>2. InItsRoom'
    BY <1>5, <1>8, <2>1 DEF PinInv, InItsRoom
  <2>3. ASSUME NEW r \in DOMAIN pins', RoomOf(pins[r])' = r
        PROVE  StatusOf(pins[r])' # "ended"
    <3>1. r \in DOMAIN pins /\ pins'[r] = pins[r] /\ RoomOf(pins[r]) = r /\ r \notin moot
      BY <1>1, <1>4, <2>3 DEF RoomOf, SlotOf
    <3>2. CASE pins[r] = t
      <4>1. status # "ended"
        BY <1>3, <2>1, <3>1, <3>2
      <4> QED BY <1>5, <3>1, <3>2, <4>1 DEF StatusOf
    <3>3. CASE pins[r] # t
      <4>1. StatusOf(pins[r]) # "ended"
        BY <2>1, <3>1 DEF PinInv, Forced
      <4> QED BY <1>5, <3>1, <3>3, <4>1 DEF StatusOf
    <3> QED BY <3>2, <3>3
  <2> QED BY <2>2, <2>3 DEF Forced
<1> QED BY <1>6, <1>7, <1>8, <1>9 DEF PinInv

LEMMA AutoEndKeepsPins == PinInv /\ AutoEnd => PinInv'
<1> SUFFICES ASSUME PinInv, AutoEnd PROVE PinInv'
  OBVIOUS
<1> DEFINE ended == {t \in Talks : Overrunning(t) /\ \A r \in DOMAIN pins : pins[r] # t}
<1>1. /\ states' = [t \in DOMAIN states |->
                      IF t \in ended THEN [states[t] EXCEPT !.status = "ended"]
                      ELSE states[t]]
      /\ UNCHANGED <<pins, slots, strayed>>
  BY DEF AutoEnd, historyVars
<1>2. \A r \in DOMAIN pins : pins[r] \notin ended
  OBVIOUS
<1> HIDE DEF ended
<1>3. /\ DOMAIN states' = DOMAIN states
      /\ \A t \in DOMAIN states : /\ states'[t] \in [status : Statuses, room : Rooms]
                                  /\ states'[t].room = states[t].room
                                  /\ t \notin ended => states'[t] = states[t]
  BY <1>1 DEF PinInv, Table, Statuses
<1>4. Table(states, Talks, [status : Statuses, room : Rooms])' /\ Table(pins, Rooms, Talks)'
  <2>1. DOMAIN states' \subseteq Talks
    BY <1>3 DEF PinInv, Table
  <2>2. \A t \in DOMAIN states' : states'[t] \in [status : Statuses, room : Rooms]
    BY <1>3
  <2> QED BY <1>1, <2>1, <2>2 DEF PinInv, Table
<1>5. SlotsInv'
  BY <1>1 DEF PinInv, SlotsInv, SlotsArePermuted, SlotOf
<1>6. ASSUME ~strayed' PROVE InItsRoom' /\ Forced'
  <2>1. InItsRoom'
    BY <1>1, <1>3, <1>6 DEF PinInv, InItsRoom, RoomOf, SlotOf
  <2>2. Forced'
    BY <1>1, <1>2, <1>3, <1>6 DEF PinInv, Forced, RoomOf, SlotOf, StatusOf
  <2> QED BY <2>1, <2>2
<1> QED BY <1>4, <1>5, <1>6 DEF PinInv

LEMMA PinKeepsPins ==
    ASSUME PinInv, NEW room \in Rooms, NEW asked,
           Unpin(room, asked) \/ \E t \in Talks : Pin(room, t, asked)
    PROVE  PinInv'
<1>1. UNCHANGED <<states, slots, strayed>>
  BY DEF Unpin, Pin, historyVars
<1>2. \A r \in DOMAIN pins' :
         \/ r \in DOMAIN pins /\ pins'[r] = pins[r]
         \/ r = room /\ pins'[r] \in Talks /\ StatusOf(pins[r])' # "ended"
  <2>1. CASE Unpin(room, asked)
    BY <2>1 DEF Unpin, Without
  <2>2. CASE \E t \in Talks : Pin(room, t, asked)
    <3>1. PICK t \in Talks : Pin(room, t, asked)
      BY <2>2
    <3>2. pins' = With(pins, room, t) /\ StatusOf(t) # "ended"
      BY <3>1 DEF Pin
    <3> QED BY <1>1, <3>2 DEF With, StatusOf
  <2> QED BY <2>1, <2>2
<1>3. Table(states, Talks, [status : Statuses, room : Rooms])' /\ Table(pins, Rooms, Talks)'
  BY <1>1, <1>2 DEF PinInv, Table
<1>4. SlotsInv' /\ (~strayed' => InItsRoom')
  BY <1>1 DEF PinInv, SlotsInv, SlotsArePermuted, InItsRoom, RoomOf, SlotOf
<1>5. ~strayed' => Forced'
  BY <1>1, <1>2 DEF PinInv, Forced, RoomOf, SlotOf, StatusOf
<1> QED BY <1>3, <1>4, <1>5 DEF PinInv

LEMMA SwapKeepsPins ==
    ASSUME PinInv, NEW a \in Talks, NEW b \in Talks, Swap(a, b)
    PROVE  PinInv'
<1> DEFINE At(t) == IF t \in DOMAIN slots' THEN slots'[t] ELSE t
<1>1. /\ a # b
      /\ StatusOf(a) = "scheduled" /\ StatusOf(b) = "scheduled"
      /\ slots' = Exchanged(a, b)
      /\ pins' = Without(pins, {r \in DOMAIN pins : pins[r] \in {a, b}})
      /\ UNCHANGED <<states, strayed>>
  BY DEF Swap
<1>2. \A t \in Talks \ {a, b} : At(t) = SlotOf(t)
  BY <1>1, ExchangedIs DEF PinInv, SlotsInv, SlotsArePermuted
<1>3. \A r \in DOMAIN pins' : /\ r \in DOMAIN pins /\ pins'[r] = pins[r]
                              /\ pins[r] \notin {a, b}
  BY <1>1 DEF Without
<1>4. a \notin DOMAIN states /\ b \notin DOMAIN states
  BY <1>1 DEF PinInv, Table, StatusOf, Statuses
<1>5. SlotsInv'
  BY SwapKeepsSlots DEF PinInv
<1>6. Table(states, Talks, [status : Statuses, room : Rooms])' /\ Table(pins, Rooms, Talks)'
  BY <1>1, <1>3 DEF PinInv, Table
<1>7. ASSUME ~strayed' PROVE InItsRoom' /\ Forced'
  <2>1. InItsRoom'
    <3> SUFFICES ASSUME NEW t \in DOMAIN states PROVE states[t].room = Export[At(t)].room
      BY <1>1 DEF InItsRoom, RoomOf, SlotOf
    <3>1. t \in Talks \ {a, b}
      BY <1>4 DEF PinInv, Table
    <3>2. At(t) = SlotOf(t)
      BY <1>2, <3>1
    <3> QED BY <1>1, <1>7, <3>2 DEF PinInv, InItsRoom, RoomOf
  <2>2. Forced'
    <3> SUFFICES ASSUME NEW r \in DOMAIN pins, pins[r] \notin {a, b},
                        Export[At(pins[r])].room = r
                 PROVE  StatusOf(pins[r]) # "ended"
      BY <1>1, <1>3 DEF Forced, RoomOf, SlotOf, StatusOf
    <3>1. At(pins[r]) = SlotOf(pins[r])
      BY <1>2 DEF PinInv, Table
    <3> QED BY <1>1, <1>7, <3>1 DEF PinInv, Forced, RoomOf
  <2> QED BY <2>1, <2>2
<1> QED BY <1>5, <1>6, <1>7 DEF PinInv

LEMMA ResetKeepsPins == PinInv /\ ResetSlots => PinInv'
<1> SUFFICES ASSUME PinInv, ResetSlots PROVE PinInv'
  OBVIOUS
<1>1. /\ slots' = <<>> /\ UNCHANGED <<states, pins>>
      /\ strayed' = (strayed \/ \E t \in DOMAIN states : Export[t].room # states[t].room)
  BY DEF ResetSlots
<1>2. SlotsInv' /\ \A t \in Talks : RoomOf(t)' = Export[t].room
  BY <1>1 DEF SlotsInv, SlotsArePermuted, RoomOf, SlotOf
<1>3. Table(states, Talks, [status : Statuses, room : Rooms])' /\ Table(pins, Rooms, Talks)'
  BY <1>1 DEF PinInv, Table
<1>4. ASSUME ~strayed' PROVE InItsRoom' /\ Forced'
  <2>1. \A t \in DOMAIN states : states[t].room = Export[t].room /\ states[t].room = RoomOf(t)
    BY <1>1, <1>4 DEF PinInv, InItsRoom
  <2>2. InItsRoom'
    BY <1>1, <2>1 DEF InItsRoom, RoomOf, SlotOf
  <2>3. Forced'
    <3> SUFFICES ASSUME NEW r \in DOMAIN pins, Export[pins[r]].room = r
                 PROVE  StatusOf(pins[r]) # "ended"
      BY <1>1 DEF Forced, RoomOf, SlotOf, StatusOf
    <3>1. CASE pins[r] \in DOMAIN states
      BY <1>1, <1>4, <2>1, <3>1 DEF PinInv, Forced
    <3>2. CASE pins[r] \notin DOMAIN states
      BY <3>2 DEF StatusOf
    <3> QED BY <3>1, <3>2
  <2> QED BY <2>2, <2>3
<1> QED BY <1>2, <1>3, <1>4 DEF PinInv

LEMMA PinInvNext == PinInv /\ [Next]_vars => PinInv'
<1> SUFFICES ASSUME PinInv, [Next]_vars PROVE PinInv'
  OBVIOUS
<1>1. ASSUME UNCHANGED <<states, pins, slots, strayed>> PROVE PinInv'
  BY <1>1 DEF PinInv, Table, SlotsInv, SlotsArePermuted, InItsRoom, Forced, RoomOf, StatusOf,
              SlotOf
<1>2. ASSUME NEW t \in Talks, NEW action \in Actions,
             \/ ConsoleDecides(t, action)
             \/ RoomDecides(t, action)
             \/ \E tab \in Tabs, room \in Rooms : PhoneDecides(tab, room, t, action)
      PROVE  PinInv'
  <2>1. RoomOf(t) \in Rooms
    BY ExportAssumption DEF PinInv, SlotsInv, RoomOf
  <2>2. \E room \in Rooms, asked \in BOOLEAN : Decide(t, room, action, asked)
    BY <1>2, <2>1, RoomsAssumption DEF ConsoleDecides, RoomDecides, PhoneDecides
  <2> QED BY <2>2, DecideKeepsPins
<1>3. CASE \E room \in Rooms, asked \in BOOLEAN :
              Unpin(room, asked) \/ \E t \in Talks : Pin(room, t, asked)
  BY <1>3, PinKeepsPins
<1>4. CASE \E a, b \in Talks : Swap(a, b)
  BY <1>4, SwapKeepsPins
<1>5. CASE \E tab \in Tabs, room \in Rooms :
              \/ \E force \in BOOLEAN : TakeHold(tab, room, force)
              \/ Renew(tab, room)
              \/ Release(tab, room)
  BY <1>1, <1>5 DEF TakeHold, Renew, Release, hubVars, historyVars
<1>6. CASE SweepLocks \/ Tick
  BY <1>1, <1>6 DEF SweepLocks, Tick, hubVars, historyVars
<1>7. CASE Apply \/ Arrive \/ AskSync \/ AskStates \/ Disconnect \/ Restart
  BY <1>1, <1>7 DEF Apply, Arrive, AskSync, AskStates, Disconnect, Restart, hubVars, historyVars
<1>8. CASE UNCHANGED vars
  BY <1>1, <1>8 DEF vars, hubVars, historyVars
<1> QED BY <1>2, <1>3, <1>4, <1>5, <1>6, <1>7, <1>8, AutoEndKeepsPins, ResetKeepsPins DEF Next

\* A pin never outlives its talk, for every programme: whichever screens end,
\* start, pin and swap talks, and however often the scheduling rule closes them.
THEOREM PinsEndWithTheirTalk == Spec => []PinEndsWithItsTalk
<1>1. PinInv => PinEndsWithItsTalk
  BY DEF PinInv, Forced, PinEndsWithItsTalk
<1> QED BY <1>1, PinInvInit, PinInvNext, PTL DEF Spec
-----------------------------------------------------------------------------
(***************************************************************************)
(* What a channel says of a register.                                      *)
(***************************************************************************)

Said(w) == {w[i] : i \in 1..Len(w)}
Silent(w, W) == \A i \in 1..Len(w) : w[i] \notin W

\* Of the messages W write to a register, what is not right is made good later.
EndsRight(w, W, right) ==
    \A i \in 1..Len(w) :
        w[i] \in W \ right => \E j \in i + 1..Len(w) : w[j] \in W

\* The commands write it in their turn, the answers as they arrive: the last
\* command is right, and so is an answer that no command follows.
Tells(w, commands, answers, right) ==
    /\ EndsRight(w, commands, right)
    /\ EndsRight(w, commands \cup answers, right)

LEMMA SaidIs ==
    /\ Said(<<>>) = {}
    /\ \A a : Said(<<a>>) = {a}
<1>1. Said(<<>>) = {}
  BY DEF Said
<1>2. ASSUME NEW a PROVE Said(<<a>>) = {a}
  BY DEF Said
<1> QED BY <1>1, <1>2

LEMMA Joined ==
    ASSUME NEW M, NEW w \in Seq(M), NEW s \in Seq(M)
    PROVE  /\ w \o s \in Seq(M) /\ Len(w \o s) = Len(w) + Len(s)
           /\ \A i \in 1..Len(w) : (w \o s)[i] = w[i]
           /\ \A i \in 1..Len(s) : (w \o s)[Len(w) + i] = s[i]
           /\ \A i \in Len(w) + 1..Len(w) + Len(s) :
                 i - Len(w) \in 1..Len(s) /\ (w \o s)[i] = s[i - Len(w)]
OBVIOUS

LEMMA SaidJoined ==
    ASSUME NEW M, NEW w \in Seq(M), NEW s \in Seq(M)
    PROVE  Said(w \o s) = Said(w) \cup Said(s)
<1> DEFINE ws == w \o s
<1>1. /\ Len(ws) = Len(w) + Len(s)
      /\ \A i \in 1..Len(w) : ws[i] = w[i]
      /\ \A i \in 1..Len(s) : ws[Len(w) + i] = s[i]
      /\ \A i \in Len(w) + 1..Len(w) + Len(s) :
                 i - Len(w) \in 1..Len(s) /\ ws[i] = s[i - Len(w)]
  BY Joined
<1> HIDE DEF ws
<1>2. Len(w) \in Nat /\ Len(s) \in Nat
  OBVIOUS
<1>3. ASSUME NEW m \in Said(ws) PROVE m \in Said(w) \cup Said(s)
  <2>1. PICK i \in 1..Len(w) + Len(s) : m = ws[i]
    BY <1>1, <1>3 DEF Said
  <2>2. CASE i <= Len(w)
    BY <1>1, <1>2, <2>1, <2>2 DEF Said
  <2>3. CASE i > Len(w)
    <3>1. i \in Len(w) + 1..Len(w) + Len(s)
      BY <1>2, <2>1, <2>3
    <3>2. i - Len(w) \in 1..Len(s) /\ ws[i] = s[i - Len(w)]
      BY <1>1, <3>1
    <3> QED BY <2>1, <3>2 DEF Said
  <2> QED BY <1>2, <2>2, <2>3
<1>4. ASSUME NEW m \in Said(w) \cup Said(s) PROVE m \in Said(ws)
  <2>1. ASSUME NEW i \in 1..Len(w) PROVE i \in 1..Len(ws) /\ w[i] = ws[i]
    BY <1>1, <1>2
  <2>2. ASSUME NEW i \in 1..Len(s) PROVE Len(w) + i \in 1..Len(ws) /\ s[i] = ws[Len(w) + i]
    BY <1>1, <1>2
  <2> QED BY <1>4, <2>1, <2>2 DEF Said
<1>5. Said(ws) = Said(w) \cup Said(s)
  BY <1>3, <1>4
<1> QED BY <1>5 DEF ws

LEMMA SilentIs ==
    ASSUME NEW w, NEW W
    PROVE  Silent(w, W) <=> Said(w) \cap W = {}
BY DEF Silent, Said

\* What is said after it decides, and is right.
LEMMA EndsRightSent ==
    ASSUME NEW M, NEW w \in Seq(M), NEW s \in Seq(M), NEW W, NEW right, NEW right2,
           EndsRight(w, W, right),
           Said(s) \cap W \subseteq right2,
           Said(s) \cap W = {} => right = right2
    PROVE  EndsRight(w \o s, W, right2)
<1> DEFINE ws == w \o s
<1>1. /\ Len(ws) = Len(w) + Len(s)
      /\ \A i \in 1..Len(w) : ws[i] = w[i]
      /\ \A i \in 1..Len(s) : ws[Len(w) + i] = s[i]
      /\ \A i \in Len(w) + 1..Len(w) + Len(s) :
                 i - Len(w) \in 1..Len(s) /\ ws[i] = s[i - Len(w)]
  BY Joined
<1>2. Len(w) \in Nat /\ Len(s) \in Nat
  OBVIOUS
<1> HIDE DEF ws
<1>3. SUFFICES ASSUME NEW i \in 1..Len(ws), ws[i] \in W \ right2
               PROVE  \E j \in i + 1..Len(ws) : ws[j] \in W
  BY DEF EndsRight, ws
<1>4. i <= Len(w)
  <2> SUFFICES ASSUME i > Len(w) PROVE FALSE
    BY <1>1, <1>2
  <2>1. ws[i] \in Said(s)
    <3>1. i \in Len(w) + 1..Len(w) + Len(s)
      BY <1>1, <1>2
    <3>2. i - Len(w) \in 1..Len(s) /\ ws[i] = s[i - Len(w)]
      BY <1>1, <3>1
    <3> QED BY <3>2 DEF Said
  <2> QED BY <1>3, <2>1
<1>5. w[i] \in W \ right2
  BY <1>1, <1>2, <1>3, <1>4
<1>6. CASE Said(s) \cap W = {}
  <2>1. PICK j \in i + 1..Len(w) : w[j] \in W
    BY <1>2, <1>4, <1>5, <1>6 DEF EndsRight
  <2>2. j \in i + 1..Len(ws) /\ ws[j] = w[j]
    BY <1>1, <1>2, <2>1
  <2> QED BY <2>1, <2>2
<1>7. CASE Said(s) \cap W # {}
  <2>1. PICK j \in 1..Len(s) : s[j] \in W
    BY <1>7 DEF Said
  <2>2. Len(w) + j \in i + 1..Len(ws) /\ ws[Len(w) + j] = s[j]
    BY <1>1, <1>2, <1>4, <2>1
  <2> QED BY <2>1, <2>2
<1> QED BY <1>6, <1>7

LEMMA TellsSent ==
    ASSUME NEW M, NEW w \in Seq(M), NEW s \in Seq(M), NEW commands, NEW answers,
           NEW right, NEW right2, Tells(w, commands, answers, right),
           Said(s) \cap (commands \cup answers) \subseteq right2,
           Said(s) \cap commands = {} => right = right2
    PROVE  /\ Tells(w \o s, commands, answers, right2)
           /\ Silent(w \o s, commands) => Silent(w, commands) /\ Silent(s, commands)
<1>1. EndsRight(w \o s, commands, right2)
  <2>1. Said(s) \cap commands \subseteq right2
    OBVIOUS
  <2> QED BY <2>1, EndsRightSent DEF Tells
<1>2. EndsRight(w \o s, commands \cup answers, right2)
  <2> DEFINE W == commands \cup answers
  <2>1. /\ EndsRight(w, W, right) /\ Said(s) \cap W \subseteq right2
        /\ Said(s) \cap W = {} => right = right2
    BY DEF Tells
  <2> HIDE DEF W
  <2>2. EndsRight(w \o s, W, right2)
    BY <2>1, EndsRightSent
  <2> QED BY <2>2 DEF W
<1>3. Silent(w \o s, commands) => Silent(w, commands) /\ Silent(s, commands)
  BY SaidJoined, SilentIs
<1> QED BY <1>1, <1>2, <1>3 DEF Tells

\* The first message is taken.
LEMMA TellsTaken ==
    ASSUME NEW M, NEW w \in Seq(M), w # <<>>, NEW commands, NEW answers, NEW right,
           Tells(w, commands, answers, right)
    PROVE  /\ Tail(w) \in Seq(M)
           /\ Tells(Tail(w), commands, answers, right)
           /\ Silent(Tail(w), commands) =>
                 IF Head(w) \in commands THEN Head(w) \in right ELSE Silent(w, commands)
<1> DEFINE v == Tail(w)
<1>1. /\ v \in Seq(M) /\ Len(v) = Len(w) - 1 /\ Len(w) \in Nat \ {0}
      /\ \A i \in 1..Len(v) : v[i] = w[i + 1]
      /\ Head(w) = w[1]
  OBVIOUS
<1> HIDE DEF v
<1>2. ASSUME NEW W, EndsRight(w, W, right) PROVE EndsRight(v, W, right)
  <2> SUFFICES ASSUME NEW i \in 1..Len(v), v[i] \in W \ right
               PROVE  \E j \in i + 1..Len(v) : v[j] \in W
    BY DEF EndsRight
  <2>1. i + 1 \in 1..Len(w) /\ w[i + 1] \in W \ right
    BY <1>1
  <2>2. PICK j \in i + 1 + 1..Len(w) : w[j] \in W
    BY <1>2, <2>1 DEF EndsRight
  <2>3. j - 1 \in i + 1..Len(v) /\ v[j - 1] = w[j]
    BY <1>1, <2>2
  <2> QED BY <2>2, <2>3
<1>3. Tells(v, commands, answers, right)
  BY <1>2 DEF Tells
<1>4. ASSUME Silent(v, commands)
      PROVE  IF Head(w) \in commands THEN Head(w) \in right ELSE Silent(w, commands)
  <2>1. \A i \in 2..Len(w) : w[i] \notin commands
    <3> SUFFICES ASSUME NEW i \in 2..Len(w) PROVE w[i] \notin commands
      OBVIOUS
    <3>1. i - 1 \in 1..Len(v) /\ v[i - 1] = w[i]
      BY <1>1
    <3> QED BY <1>4, <3>1 DEF Silent
  <2>2. CASE w[1] \in commands
    <3>1. EndsRight(w, commands, right)
      BY DEF Tells
    <3>2. 1 \in 1..Len(w) /\ \A j \in 1 + 1..Len(w) : w[j] \notin commands
      BY <1>1, <2>1
    <3> QED BY <1>1, <2>2, <3>1, <3>2 DEF EndsRight
  <2>3. CASE w[1] \notin commands
    BY <1>1, <2>1, <2>3 DEF Silent
  <2> QED BY <1>1, <2>2, <2>3
<1> QED BY <1>1, <1>3, <1>4 DEF v

\* One message is taken out.
LEMMA RemovedIs ==
    ASSUME NEW M, NEW w \in Seq(M), NEW k \in 1..Len(w)
    PROVE  LET v == RemoveAt(w, k)
           IN  /\ v \in Seq(M) /\ Len(v) = Len(w) - 1 /\ Len(w) \in Nat \ {0}
               /\ \A i \in 1..Len(v) : v[i] = IF i < k THEN w[i] ELSE w[i + 1]
<1> DEFINE v == RemoveAt(w, k)
           before == SubSeq(w, 1, k - 1)
           after == SubSeq(w, k + 1, Len(w))
<1>1. /\ before \in Seq(M) /\ Len(before) = k - 1
      /\ \A i \in 1..k - 1 : before[i] = w[i]
  OBVIOUS
<1>2. /\ after \in Seq(M) /\ Len(after) = Len(w) - k
      /\ \A i \in 1..Len(w) - k : after[i] = w[k + i]
  OBVIOUS
<1>3. v = before \o after
  BY DEF RemoveAt
<1>4. Len(w) \in Nat \ {0} /\ k \in Nat
  OBVIOUS
<1> HIDE DEF before, after, v
<1>5. /\ v \in Seq(M) /\ Len(v) = Len(before) + Len(after)
      /\ \A i \in 1..Len(before) : v[i] = before[i]
      /\ \A i \in Len(before) + 1..Len(before) + Len(after) : v[i] = after[i - Len(before)]
  <2>1. before \in Seq(M) /\ after \in Seq(M)
    BY <1>1, <1>2
  <2>2. /\ before \o after \in Seq(M)
        /\ Len(before \o after) = Len(before) + Len(after)
        /\ \A i \in 1..Len(before) : (before \o after)[i] = before[i]
        /\ \A i \in Len(before) + 1..Len(before) + Len(after) :
              (before \o after)[i] = after[i - Len(before)]
    BY <2>1, Joined
  <2> QED BY <1>3, <2>2
<1>6. ASSUME NEW i \in 1..Len(v) PROVE v[i] = IF i < k THEN w[i] ELSE w[i + 1]
  <2>1. CASE i < k
    BY <1>1, <1>4, <1>5, <2>1
  <2>2. CASE i >= k
    <3>1. i \in Len(before) + 1..Len(before) + Len(after) /\ i - Len(before) \in 1..Len(w) - k
      BY <1>1, <1>2, <1>4, <1>5, <2>2
    <3>2. v[i] = after[i - Len(before)] /\ after[i - Len(before)] = w[k + (i - Len(before))]
      BY <1>2, <1>5, <3>1
    <3>3. k + (i - Len(before)) = i + 1
      BY <1>1, <1>4, <1>5, <2>2
    <3> QED BY <1>4, <2>2, <3>2, <3>3
  <2> QED BY <1>4, <2>1, <2>2
<1>7. /\ v \in Seq(M) /\ Len(v) = Len(w) - 1 /\ Len(w) \in Nat \ {0}
      /\ \A i \in 1..Len(v) : v[i] = IF i < k THEN w[i] ELSE w[i + 1]
  BY <1>1, <1>2, <1>4, <1>5, <1>6
<1> QED BY <1>7 DEF v

\* The only answer is read, or lost.
LEMMA TellsPicked ==
    ASSUME NEW M, NEW w \in Seq(M), NEW k \in 1..Len(w), NEW commands, NEW answers, NEW right,
           Tells(w, commands, answers, right),
           w[k] \notin commands,
           \A i \in 1..Len(w) : i # k => w[i] \notin answers
    PROVE  /\ RemoveAt(w, k) \in Seq(M) /\ Said(RemoveAt(w, k)) \subseteq Said(w)
           /\ \A i \in 1..Len(w) : i # k => w[i] \in Said(RemoveAt(w, k))
           /\ Tells(RemoveAt(w, k), commands, answers, right)
           /\ Silent(RemoveAt(w, k), commands) =>
                 Silent(w, commands) /\ (w[k] \in answers => w[k] \in right)
<1> DEFINE v == RemoveAt(w, k)
<1>1. /\ v \in Seq(M) /\ Len(v) = Len(w) - 1 /\ Len(w) \in Nat \ {0}
      /\ \A i \in 1..Len(v) : v[i] = IF i < k THEN w[i] ELSE w[i + 1]
  BY RemovedIs
<1> HIDE DEF v
<1>2. ASSUME NEW W, EndsRight(w, W, right), w[k] \notin W PROVE EndsRight(v, W, right)
  <2> SUFFICES ASSUME NEW i \in 1..Len(v), v[i] \in W \ right
               PROVE  \E j \in i + 1..Len(v) : v[j] \in W
    BY DEF EndsRight
  <2> DEFINE a == IF i < k THEN i ELSE i + 1
  <2>1. a \in 1..Len(w) /\ v[i] = w[a]
    BY <1>1
  <2>2. PICK b \in a + 1..Len(w) : w[b] \in W
    <3> HIDE DEF a
    <3> QED BY <1>2, <2>1 DEF EndsRight
  <2>3. b # k
    BY <1>2, <2>2
  <2>4. CASE b < k
    <3>1. b \in i + 1..Len(v) /\ v[b] = w[b]
      BY <1>1, <2>2, <2>4
    <3> QED BY <2>2, <3>1
  <2>5. CASE b > k
    <3>1. b - 1 \in i + 1..Len(v) /\ v[b - 1] = w[b]
      BY <1>1, <2>2, <2>5
    <3> QED BY <2>2, <3>1
  <2> QED BY <2>3, <2>4, <2>5
<1>3. Said(v) \subseteq Said(w)
  BY <1>1 DEF Said
<1>4. \A i \in 1..Len(w) : i # k => w[i] \in Said(v)
  <2> SUFFICES ASSUME NEW i \in 1..Len(w), i # k PROVE w[i] \in Said(v)
    OBVIOUS
  <2>1. CASE i < k
    BY <1>1, <2>1 DEF Said
  <2>2. CASE i > k
    <3>1. i - 1 \in 1..Len(v) /\ v[i - 1] = w[i]
      BY <1>1, <2>2
    <3> QED BY <3>1 DEF Said
  <2> QED BY <2>1, <2>2
<1>5. EndsRight(v, commands, right)
  BY <1>2 DEF Tells
<1>6. \A i \in 1..Len(v) : v[i] \notin answers
  <2> SUFFICES ASSUME NEW i \in 1..Len(v) PROVE v[i] \notin answers
    OBVIOUS
  <2> DEFINE a == IF i < k THEN i ELSE i + 1
  <2>1. a \in 1..Len(w) /\ a # k /\ v[i] = w[a]
    BY <1>1
  <2> QED BY <2>1
<1>7. EndsRight(v, commands \cup answers, right)
  BY <1>5, <1>6, <1>1 DEF EndsRight
<1>8. ASSUME Silent(v, commands)
      PROVE  Silent(w, commands) /\ (w[k] \in answers => w[k] \in right)
  <2>1. Silent(w, commands)
    BY <1>4, <1>8, SilentIs DEF Silent
  <2>2. ASSUME w[k] \in answers PROVE w[k] \in right
    <3>1. EndsRight(w, commands \cup answers, right)
      BY DEF Tells
    <3>2. \A j \in k + 1..Len(w) : w[j] \notin commands \cup answers
      BY <2>1 DEF Silent
    <3> QED BY <2>2, <3>1, <3>2 DEF EndsRight
  <2> QED BY <2>1, <2>2
<1> QED BY <1>1, <1>3, <1>4, <1>5, <1>7, <1>8 DEF v, Tells
-----------------------------------------------------------------------------
(***************************************************************************)
(* What is on its way to the machine.                                      *)
(***************************************************************************)

Lifecycle == Statuses \cup {"scheduled"}
PinMaps == UNION {[D -> Talks] : D \in SUBSET Rooms}
Copies == UNION {[D -> Statuses] : D \in SUBSET Talks}
Holders == {Owner[tab] : tab \in Tabs} \cup {NoOne}

StateCommands ==
    [type : {"session.state"}, talk : Talks, room : Rooms, status : Lifecycle]
PinCommands == [type : {"room.pins"}, pins : PinMaps]
HoldCommands == [type : {"regie.hold"}, holder : Holders]
Decisions == [type : {"decided"}, talk : Talks, status : Lifecycle]
Syncs == [type : {"synced"}, pins : PinMaps]
Readings == [type : {"states"}, states : Copies]
Messages ==
    StateCommands \cup PinCommands \cup HoldCommands \cup Decisions \cup Syncs \cup Readings

Travelling ==
    /\ channel \in Seq(Messages)
    /\ \A i, j \in Answers : i = j
    /\ pins \in PinMaps /\ roomPins \in PinMaps
    /\ sessionStates \in Copies
    /\ remoteHolder \in Holders

\* The operator of the lock that is kept.
Holder == IF Here \in DOMAIN locks THEN Owner[locks[Here].tab] ELSE NoOne
LocksOfTabs == \A room \in DOMAIN locks : locks[room].tab \in Tabs

HoldTold ==
    /\ Tells(channel, HoldCommands, {}, {Hold(Holder)})
    /\ told /\ Silent(channel, HoldCommands) => remoteHolder = Holder

PinsTold ==
    /\ Tells(channel, PinCommands, Syncs, {Pins(pins), Synced(pins)})
    /\ Silent(channel, PinCommands) => roomPins = pins

\* The status of a talk in a copy, and on the hub for the room.
In(copy, t) == IF t \in DOMAIN copy THEN copy[t] ELSE "scheduled"
HereNow(t) == IF t \in DOMAIN states /\ states[t].room = Here THEN states[t].status ELSE "scheduled"

CommandsOn(t) == {m \in StateCommands : m.talk = t /\ m.room = Here}
AnswersOn(t) == {m \in Decisions : m.talk = t} \cup Readings
RightOn(t) ==
    {State(t, Here, HereNow(t)), Decided(t, HereNow(t))}
        \cup {m \in Readings : In(m.states, t) = HereNow(t)}

TalkTold(t) ==
    /\ Tells(channel, CommandsOn(t), AnswersOn(t), RightOn(t))
    /\ read /\ Silent(channel, CommandsOn(t)) => In(sessionStates, t) = HereNow(t)
LifecycleTold == ~strayed => \A t \in Talks : TalkTold(t)

CatchInv ==
    /\ PinInv
    /\ Travelling
    /\ LocksOfTabs
    /\ HoldTold
    /\ PinsTold
    /\ LifecycleTold

LEMMA Kinds ==
    ASSUME NEW m \in Messages
    PROVE  /\ m \in StateCommands <=> m.type = "session.state"
           /\ m \in PinCommands <=> m.type = "room.pins"
           /\ m \in HoldCommands <=> m.type = "regie.hold"
           /\ m \in Decisions <=> m.type = "decided"
           /\ m \in Syncs <=> m.type = "synced"
           /\ m \in Readings <=> m.type = "states"
           /\ IsAnswer(m) <=> m \in Decisions \cup Syncs \cup Readings
BY DEF Messages, StateCommands, PinCommands, HoldCommands, Decisions, Syncs, Readings, IsAnswer

LEMMA Sayings ==
    /\ \A t \in Talks, room \in Rooms, s \in Lifecycle :
          State(t, room, s) \in StateCommands /\ State(t, room, s) \in Messages
    /\ \A map \in PinMaps : Pins(map) \in PinCommands /\ Pins(map) \in Messages
    /\ \A h \in Holders : Hold(h) \in HoldCommands /\ Hold(h) \in Messages
    /\ \A t \in Talks, s \in Lifecycle : Decided(t, s) \in Decisions /\ Decided(t, s) \in Messages
    /\ \A map \in PinMaps : Synced(map) \in Syncs /\ Synced(map) \in Messages
    /\ \A copy \in Copies : ReadBack(copy) \in Readings /\ ReadBack(copy) \in Messages
BY DEF Messages, StateCommands, PinCommands, HoldCommands, Decisions, Syncs, Readings,
       State, Pins, Hold, Decided, Synced, ReadBack

LEMMA PinMapsAre ==
    ASSUME NEW map \in PinMaps
    PROVE  /\ map = [r \in DOMAIN map |-> map[r]]
           /\ DOMAIN map \subseteq Rooms /\ \A r \in DOMAIN map : map[r] \in Talks
           /\ Without(map, {}) = map
           /\ \A keys : Without(map, keys) \in PinMaps
           /\ \A r \in Rooms, t \in Talks : With(map, r, t) \in PinMaps
<1>1. PICK D \in SUBSET Rooms : map \in [D -> Talks]
  BY DEF PinMaps
<1>2. map = [r \in DOMAIN map |-> map[r]] /\ DOMAIN map = D
  BY <1>1
<1>3. Without(map, {}) = map
  BY <1>1 DEF Without
<1>4. ASSUME NEW keys PROVE Without(map, keys) \in PinMaps
  <2>1. Without(map, keys) \in [D \ keys -> Talks]
    BY <1>1 DEF Without
  <2> QED BY <2>1 DEF PinMaps
<1>5. ASSUME NEW r \in Rooms, NEW t \in Talks PROVE With(map, r, t) \in PinMaps
  <2>1. With(map, r, t) \in [D \cup {r} -> Talks]
    BY <1>1 DEF With
  <2>2. D \cup {r} \in SUBSET Rooms
    OBVIOUS
  <2> QED BY <2>1, <2>2 DEF PinMaps
<1> QED BY <1>1, <1>2, <1>3, <1>4, <1>5

LEMMA CopiesAre ==
    ASSUME NEW copy \in Copies
    PROVE  /\ copy = [t \in DOMAIN copy |-> copy[t]]
           /\ DOMAIN copy \subseteq Talks /\ \A t \in DOMAIN copy : copy[t] \in Statuses
<1>1. PICK D \in SUBSET Talks : copy \in [D -> Statuses]
  BY DEF Copies
<1> QED BY <1>1

LEMMA MarkedIs ==
    ASSUME NEW copy \in Copies, NEW t \in Talks, NEW s \in Lifecycle
    PROVE  /\ Marked(copy, t, s) \in Copies
           /\ \A u : In(Marked(copy, t, s), u) = IF u = t THEN s ELSE In(copy, u)
<1>1. PICK D \in SUBSET Talks : copy \in [D -> Statuses]
  BY DEF Copies
<1>2. CASE s = "scheduled"
  <2>1. Marked(copy, t, s) = [k \in D \ {t} |-> copy[k]]
    BY <1>1, <1>2 DEF Marked, Without
  <2>2. Marked(copy, t, s) \in [D \ {t} -> Statuses]
    BY <1>1, <2>1
  <2>3. D \ {t} \in SUBSET Talks
    OBVIOUS
  <2>4. Marked(copy, t, s) \in Copies
    BY <2>2, <2>3 DEF Copies
  <2>5. ASSUME NEW u PROVE In(Marked(copy, t, s), u) = IF u = t THEN s ELSE In(copy, u)
    BY <1>1, <1>2, <2>1 DEF In
  <2> QED BY <2>4, <2>5
<1>3. CASE s # "scheduled"
  <2>1. Marked(copy, t, s) = [k \in D \cup {t} |-> IF k = t THEN s ELSE copy[k]]
    BY <1>1, <1>3 DEF Marked, With
  <2>2. Marked(copy, t, s) \in [D \cup {t} -> Statuses]
    BY <1>1, <1>3, <2>1 DEF Lifecycle
  <2>3. D \cup {t} \in SUBSET Talks
    OBVIOUS
  <2>4. Marked(copy, t, s) \in Copies
    BY <2>2, <2>3 DEF Copies
  <2>5. ASSUME NEW u PROVE In(Marked(copy, t, s), u) = IF u = t THEN s ELSE In(copy, u)
    BY <1>1, <1>3, <2>1 DEF In
  <2> QED BY <2>4, <2>5
<1> QED BY <1>2, <1>3

\* What the room reads back is what the hub holds for it.
LEMMA StatesInIs ==
    ASSUME Table(states, Talks, [status : Statuses, room : Rooms])
    PROVE  StatesIn(Here) \in Copies /\ \A t : In(StatesIn(Here), t) = HereNow(t)
<1> DEFINE D == {u \in DOMAIN states : states[u].room = Here}
<1>1. StatesIn(Here) = [t \in D |-> states[t].status]
  BY DEF StatesIn
<1>2. D \in SUBSET Talks /\ \A t \in D : states[t].status \in Statuses
  BY DEF Table
<1>3. StatesIn(Here) \in [D -> Statuses]
  <2> HIDE DEF D
  <2> QED BY <1>1, <1>2
<1>4. StatesIn(Here) \in Copies
  <2> HIDE DEF D
  <2> QED BY <1>2, <1>3 DEF Copies
<1>5. ASSUME NEW t PROVE In(StatesIn(Here), t) = HereNow(t)
  BY <1>1 DEF In, HereNow
<1> QED BY <1>4, <1>5

LEMMA HereNowIs ==
    ASSUME Table(states, Talks, [status : Statuses, room : Rooms])
    PROVE  \A t : HereNow(t) \in Lifecycle
BY DEF Table, HereNow, Lifecycle


\* Commands go down, and at their end the answer that was asked for.
LEMMA Sends ==
    ASSUME Travelling, NEW c \in Seq(Messages), NEW r \in Seq(Messages),
           \A m \in Said(c) : ~IsAnswer(m),
           Len(r) <= 1, r # <<>> => MayAsk,
           channel' = channel \o (c \o r), UNCHANGED roomVars, pins' \in PinMaps
    PROVE  /\ Travelling'
           /\ c \o r \in Seq(Messages)
           /\ Said(c \o r) = Said(c) \cup Said(r)
<1> DEFINE s == c \o r
<1>1. s \in Seq(Messages) /\ Said(s) = Said(c) \cup Said(r)
  BY SaidJoined, Joined
<1>2. /\ Len(s) = Len(c) + Len(r) /\ Len(c) \in Nat /\ Len(r) \in Nat
      /\ \A i \in 1..Len(c) : s[i] = c[i]
  BY Joined
<1>3. \A i \in 1..Len(s) : IsAnswer(s[i]) => i = Len(s) /\ MayAsk
  <2> SUFFICES ASSUME NEW i \in 1..Len(s), IsAnswer(s[i]) PROVE i = Len(s) /\ MayAsk
    OBVIOUS
  <2>1. i > Len(c)
    <3> SUFFICES ASSUME i \in 1..Len(c) PROVE FALSE
      BY <1>2
    <3>1. c[i] \in Said(c)
      BY DEF Said
    <3>2. s[i] = c[i]
      BY <1>2
    <3> HIDE DEF s
    <3> QED BY <3>1, <3>2
  <2>2. i = Len(s) /\ Len(r) # 0
    <3> HIDE DEF s
    <3> QED BY <1>2, <2>1
  <2> QED BY <2>2
<1>4. channel' = channel \o s
  OBVIOUS
<1> HIDE DEF s
<1>5. /\ channel' \in Seq(Messages) /\ Len(channel') = Len(channel) + Len(s)
      /\ Len(channel) \in Nat /\ Len(s) \in Nat
      /\ \A i \in 1..Len(channel) : channel'[i] = channel[i]
      /\ \A i \in Len(channel) + 1..Len(channel) + Len(s) :
            i - Len(channel) \in 1..Len(s) /\ channel'[i] = s[i - Len(channel)]
  <2>1. channel \in Seq(Messages)
    BY DEF Travelling
  <2> QED BY <1>1, <1>4, <2>1, Joined
<1>6. ASSUME NEW i \in Answers', NEW j \in Answers' PROVE i = j
  <2>1. /\ i \in 1..Len(channel) + Len(s) /\ IsAnswer(channel'[i])
        /\ j \in 1..Len(channel) + Len(s) /\ IsAnswer(channel'[j])
    <3>1. DOMAIN channel' = 1..Len(channel) + Len(s)
      BY <1>5
    <3> QED BY <3>1, <1>6 DEF Answers, IsAnswer
  <2>2. ASSUME NEW k \in 1..Len(channel) + Len(s), IsAnswer(channel'[k])
        PROVE  k \in Answers \/ (k = Len(channel) + Len(s) /\ MayAsk)
    <3>1. CASE k <= Len(channel)
      BY <1>5, <2>2, <3>1 DEF Answers, IsAnswer, Travelling
    <3>2. CASE k > Len(channel)
      <4>1. k - Len(channel) \in 1..Len(s) /\ channel'[k] = s[k - Len(channel)]
        <5>1. k \in Len(channel) + 1..Len(channel) + Len(s)
          BY <1>5, <3>2
        <5> QED BY <1>5, <5>1
      <4>2. k - Len(channel) = Len(s) /\ MayAsk
        BY <1>3, <2>2, <4>1
      <4> QED BY <1>5, <4>2
    <3> QED BY <1>5, <3>1, <3>2
  <2>3. i \in Answers \/ (i = Len(channel) + Len(s) /\ MayAsk)
    BY <2>1, <2>2
  <2>4. j \in Answers \/ (j = Len(channel) + Len(s) /\ MayAsk)
    BY <2>1, <2>2
  <2> QED BY <2>3, <2>4 DEF MayAsk, Travelling
<1> QED BY <1>1, <1>5, <1>6 DEF Travelling, roomVars, s

LEMMA HoldSent ==
    ASSUME Travelling, HoldTold, NEW s \in Seq(Messages), channel' = channel \o s,
           Said(s) \cap HoldCommands \subseteq {Hold(Holder')},
           Said(s) \cap HoldCommands = {} => Holder' = Holder,
           UNCHANGED <<remoteHolder, told>>
    PROVE  HoldTold'
<1> DEFINE right == {Hold(Holder)}
           right2 == {Hold(Holder')}
<1>1. Said(s) \cap HoldCommands = {} => right = right2
  OBVIOUS
<1>2. channel \in Seq(Messages) /\ Tells(channel, HoldCommands, {}, right)
  BY DEF Travelling, HoldTold
<1>3. Said(s) \cap (HoldCommands \cup {}) \subseteq right2
  OBVIOUS
<1> HIDE DEF right, right2
<1>4. /\ Tells(channel \o s, HoldCommands, {}, right2)
      /\ Silent(channel \o s, HoldCommands) =>
            Silent(channel, HoldCommands) /\ Silent(s, HoldCommands)
  BY <1>1, <1>2, <1>3, TellsSent
<1>5. told' /\ Silent(channel', HoldCommands) => remoteHolder' = Holder'
  BY <1>4, SilentIs DEF HoldTold
<1> QED BY <1>4, <1>5 DEF HoldTold, right2, HoldCommands, Holders

LEMMA PinsSent ==
    ASSUME Travelling, PinsTold, NEW s \in Seq(Messages), channel' = channel \o s,
           Said(s) \cap (PinCommands \cup Syncs) \subseteq {Pins(pins'), Synced(pins')},
           Said(s) \cap PinCommands = {} => pins' = pins,
           UNCHANGED roomPins
    PROVE  PinsTold'
<1> DEFINE right == {Pins(pins), Synced(pins)}
           right2 == {Pins(pins'), Synced(pins')}
<1>1. Said(s) \cap PinCommands = {} => right = right2
  OBVIOUS
<1>2. channel \in Seq(Messages) /\ Tells(channel, PinCommands, Syncs, right)
  BY DEF Travelling, PinsTold
<1>3. Said(s) \cap (PinCommands \cup Syncs) \subseteq right2
  OBVIOUS
<1> HIDE DEF right, right2
<1>4. /\ Tells(channel \o s, PinCommands, Syncs, right2)
      /\ Silent(channel \o s, PinCommands) =>
            Silent(channel, PinCommands) /\ Silent(s, PinCommands)
  BY <1>1, <1>2, <1>3, TellsSent
<1>5. Silent(channel', PinCommands) => roomPins' = pins'
  BY <1>4, SilentIs DEF PinsTold
<1> QED BY <1>4, <1>5 DEF PinsTold, right2

LEMMA TalkSent ==
    ASSUME Travelling, NEW t, TalkTold(t), NEW s \in Seq(Messages), channel' = channel \o s,
           Said(s) \cap (CommandsOn(t) \cup AnswersOn(t)) \subseteq RightOn(t)',
           Said(s) \cap CommandsOn(t) = {} => HereNow(t)' = HereNow(t),
           UNCHANGED <<sessionStates, read>>
    PROVE  TalkTold(t)'
<1> DEFINE right == RightOn(t)
           right2 == RightOn(t)'
<1>1. Said(s) \cap CommandsOn(t) = {} => right = right2
  BY DEF RightOn
<1>2. channel \in Seq(Messages) /\ Tells(channel, CommandsOn(t), AnswersOn(t), right)
  BY DEF Travelling, TalkTold
<1>3. Said(s) \cap (CommandsOn(t) \cup AnswersOn(t)) \subseteq right2
  OBVIOUS
<1> HIDE DEF right, right2
<1>4. /\ Tells(channel \o s, CommandsOn(t), AnswersOn(t), right2)
      /\ Silent(channel \o s, CommandsOn(t)) =>
            Silent(channel, CommandsOn(t)) /\ Silent(s, CommandsOn(t))
  BY <1>1, <1>2, <1>3, TellsSent
<1>5. read' /\ Silent(channel', CommandsOn(t)) => In(sessionStates', t) = HereNow(t)'
  BY <1>4, SilentIs DEF TalkTold
<1> QED BY <1>4, <1>5 DEF TalkTold, right2


\* The messages on a pin, on the lock and on a talk are of different kinds.
LEMMA KindsApart ==
    /\ \A t, room, s : State(t, room, s) \notin HoldCommands \cup PinCommands \cup Syncs \cup Decisions \cup Readings
    /\ \A map : Pins(map) \notin HoldCommands \cup StateCommands \cup Decisions \cup Readings \cup Syncs
    /\ \A h : Hold(h) \notin PinCommands \cup Syncs \cup StateCommands \cup Decisions \cup Readings
    /\ \A t, s : Decided(t, s) \notin HoldCommands \cup PinCommands \cup Syncs \cup StateCommands \cup Readings
    /\ \A map : Synced(map) \notin HoldCommands \cup PinCommands \cup StateCommands \cup Decisions \cup Readings
    /\ \A copy : ReadBack(copy) \notin HoldCommands \cup PinCommands \cup Syncs \cup StateCommands \cup Decisions
BY DEF StateCommands, PinCommands, HoldCommands, Decisions, Syncs, Readings,
       State, Pins, Hold, Decided, Synced, ReadBack

LEMMA FieldsAre ==
    /\ \A t, room, s : State(t, room, s).talk = t /\ State(t, room, s).room = room
    /\ \A t, s : Decided(t, s).talk = t
    /\ \A copy : ReadBack(copy).states = copy
    /\ \A t, room, s : ~IsAnswer(State(t, room, s))
    /\ \A map : ~IsAnswer(Pins(map))
    /\ \A h : ~IsAnswer(Hold(h))
BY DEF State, Decided, ReadBack, Pins, Hold, IsAnswer

\* One message, or none.
LEMMA OneOrNone ==
    ASSUME NEW some \in BOOLEAN, NEW m \in Messages
    PROVE  LET w == IF some THEN <<m>> ELSE <<>>
           IN  /\ w \in Seq(Messages) /\ Len(w) <= 1 /\ (w # <<>> => some)
               /\ Said(w) = IF some THEN {m} ELSE {}
<1>1. /\ <<m>> \in Seq(Messages) /\ Len(<<m>>) = 1
      /\ <<>> \in Seq(Messages) /\ Len(<<>>) = 0
  OBVIOUS
<1>2. CASE some
  BY <1>1, <1>2, SaidIs
<1>3. CASE ~some
  BY <1>1, <1>3, SaidIs
<1> QED BY <1>2, <1>3

LEMMA DecideCatches ==
    ASSUME CatchInv, NEW t \in Talks, NEW room \in Rooms, NEW action \in Actions,
           NEW asked \in BOOLEAN, asked => room = Here /\ MayAsk,
           Decide(t, room, action, asked), PinInv'
    PROVE  CatchInv'
<1> DEFINE status == TRANSITIONS[StatusOf(t)][action]
           moot == Moot(t, room, status)
           first == IF moot = {} THEN <<>> ELSE <<Pins(pins')>>
           c == first \o <<State(t, room, status)>>
           r == Reply(asked, Decided(t, status))
<1>1. /\ status # "refused"
      /\ states' = IF status = "scheduled"
                   THEN Without(states, {t})
                   ELSE With(states, t, [status |-> status, room |-> room])
      /\ pins' = Without(pins, moot)
      /\ channel' = channel \o (c \o r)
      /\ strayed' = (strayed \/ RoomOf(t) # room)
      /\ UNCHANGED <<locks, roomVars>>
  BY DEF Decide, Send
<1>2. status \in Lifecycle
  <2>1. StatusOf(t) \in {"scheduled", "running", "ended"}
    BY DEF CatchInv, PinInv, Table, StatusOf, Statuses
  <2> QED BY <1>1, <2>1 DEF TRANSITIONS, Actions, Statuses, Lifecycle
<1> HIDE DEF status, moot
<1>3. pins' \in PinMaps /\ (moot = {} => pins' = pins)
  BY <1>1, PinMapsAre DEF CatchInv, Travelling
<1>4. /\ c \in Seq(Messages)
      /\ Said(c) = (IF moot = {} THEN {} ELSE {Pins(pins')}) \cup {State(t, room, status)}
  <2>1. first \in Seq(Messages) /\ Said(first) = IF moot = {} THEN {} ELSE {Pins(pins')}
    <3> DEFINE w == IF moot # {} THEN <<Pins(pins')>> ELSE <<>>
    <3>1. /\ w \in Seq(Messages)
          /\ Said(w) = IF moot # {} THEN {Pins(pins')} ELSE {}
      BY <1>3, Sayings, OneOrNone
    <3>2. first = w
      OBVIOUS
    <3> HIDE DEF w, first
    <3> QED BY <3>1, <3>2
  <2>2. <<State(t, room, status)>> \in Seq(Messages)
    BY <1>2, Sayings
  <2>3. Said(<<State(t, room, status)>>) = {State(t, room, status)}
    BY SaidIs
  <2> DEFINE one == <<State(t, room, status)>>
  <2> HIDE DEF first
  <2>4. c \in Seq(Messages) /\ Said(c) = Said(first) \cup Said(one)
    <3>1. one \in Seq(Messages) /\ c = first \o one
      BY <2>2
    <3> HIDE DEF one, c
    <3>2. first \o one \in Seq(Messages) /\ Said(first \o one) = Said(first) \cup Said(one)
      BY <2>1, <3>1, Joined, SaidJoined
    <3> QED BY <3>1, <3>2
  <2> QED BY <2>1, <2>3, <2>4
<1>5. /\ r \in Seq(Messages) /\ Len(r) <= 1 /\ (r # <<>> => asked)
      /\ Said(r) = IF asked THEN {Decided(t, status)} ELSE {}
  <2>1. Decided(t, status) \in Messages
    BY <1>2, Sayings
  <2> QED BY <2>1, OneOrNone DEF Reply
<1> HIDE DEF c, r
<1> DEFINE s == c \o r
<1>6. /\ Travelling' /\ s \in Seq(Messages)
      /\ Said(s) = (IF moot = {} THEN {} ELSE {Pins(pins')}) \cup {State(t, room, status)}
                      \cup (IF asked THEN {Decided(t, status)} ELSE {})
  <2>1. \A m \in Said(c) : ~IsAnswer(m)
    BY <1>4, FieldsAre
  <2> QED BY <1>1, <1>3, <1>4, <1>5, <2>1, Sends DEF CatchInv
<1>7. channel' = channel \o s
  BY <1>1
<1> HIDE DEF s
<1>8. HoldTold'
  <2>1. Said(s) \cap HoldCommands = {}
    BY <1>6, KindsApart
  <2>2. Holder' = Holder
    BY <1>1 DEF Holder
  <2> QED BY <1>1, <1>6, <1>7, <2>1, <2>2, HoldSent DEF CatchInv, roomVars
<1>9. PinsTold'
  <2>1. Said(s) \cap (PinCommands \cup Syncs) \subseteq {Pins(pins'), Synced(pins')}
    BY <1>6, KindsApart
  <2>2. Said(s) \cap PinCommands = {} => pins' = pins
    <3>1. Pins(pins') \in PinCommands
      BY <1>3, Sayings
    <3> QED BY <1>3, <1>6, <3>1
  <2> QED BY <1>1, <1>6, <1>7, <2>1, <2>2, PinsSent DEF CatchInv, roomVars
<1>10. ASSUME ~strayed', NEW u \in Talks PROVE TalkTold(u)'
  <2>1. ~strayed /\ RoomOf(t) = room
    BY <1>1, <1>10
  <2>2. t \in DOMAIN states => states[t].room = room
    BY <2>1 DEF CatchInv, PinInv, InItsRoom
  <2>3. u # t => HereNow(u)' = HereNow(u)
    <3>1. CASE status = "scheduled"
      BY <1>1, <3>1 DEF HereNow, Without
    <3>2. CASE status # "scheduled"
      BY <1>1, <3>2 DEF HereNow, With
    <3> QED BY <3>1, <3>2
  <2>4. room = Here => HereNow(t)' = status
    <3>1. CASE status = "scheduled"
      BY <1>1, <3>1 DEF HereNow, Without
    <3>2. CASE status # "scheduled"
      BY <1>1, <3>2 DEF HereNow, With
    <3> QED BY <3>1, <3>2
  <2>5. room # Here => HereNow(t)' = HereNow(t)
    <3>1. CASE status = "scheduled"
      BY <1>1, <2>2, <3>1 DEF HereNow, Without
    <3>2. CASE status # "scheduled"
      BY <1>1, <2>2, <3>2 DEF HereNow, With
    <3> QED BY <3>1, <3>2
  <2>6. Said(s) \cap (CommandsOn(u) \cup AnswersOn(u)) \subseteq RightOn(u)'
    <3> SUFFICES ASSUME NEW m \in Said(s), m \in CommandsOn(u) \cup AnswersOn(u)
                 PROVE  m \in RightOn(u)'
      OBVIOUS
    <3>1. \/ m = State(t, room, status) /\ u = t /\ room = Here
          \/ asked /\ m = Decided(t, status) /\ u = t
      BY <1>6, KindsApart, FieldsAre DEF CommandsOn, AnswersOn
    <3>2. u = t /\ room = Here /\ m \in {State(t, Here, status), Decided(t, status)}
      BY <3>1
    <3> QED BY <2>4, <3>2 DEF RightOn
  <2>7. Said(s) \cap CommandsOn(u) = {} => HereNow(u)' = HereNow(u)
    <3>1. u = t /\ room = Here => State(t, room, status) \in CommandsOn(u)
      BY <1>2, Sayings, FieldsAre DEF CommandsOn
    <3> QED BY <1>6, <2>3, <2>5, <3>1
  <2>8. TalkTold(u)
    BY <2>1 DEF CatchInv, LifecycleTold
  <2> QED BY <1>1, <1>6, <1>7, <2>6, <2>7, <2>8, TalkSent DEF CatchInv, roomVars
<1>11. LocksOfTabs'
  BY <1>1 DEF CatchInv, LocksOfTabs
<1> QED BY <1>6, <1>8, <1>9, <1>10, <1>11 DEF CatchInv, LifecycleTold

\* A step that only concerns the forced talks.
LEMMA PinsOnlyCatch ==
    ASSUME CatchInv, PinInv', NEW s \in Seq(Messages),
           channel' = channel \o s, Travelling',
           Said(s) \subseteq {Pins(pins'), Synced(pins')},
           Said(s) \cap PinCommands = {} => pins' = pins,
           UNCHANGED <<states, locks, roomVars, strayed>>
    PROVE  CatchInv'
<1>1. HoldTold'
  <2>1. Said(s) \cap HoldCommands = {}
    BY KindsApart
  <2>2. Holder' = Holder
    BY DEF Holder
  <2> QED BY <2>1, <2>2, HoldSent DEF CatchInv, roomVars
<1>2. PinsTold'
  <2>1. Said(s) \cap (PinCommands \cup Syncs) \subseteq {Pins(pins'), Synced(pins')}
    OBVIOUS
  <2> QED BY <2>1, PinsSent DEF CatchInv, roomVars
<1>3. ASSUME ~strayed', NEW u \in Talks PROVE TalkTold(u)'
  <2>1. Said(s) \cap (CommandsOn(u) \cup AnswersOn(u)) = {}
    BY KindsApart DEF CommandsOn, AnswersOn
  <2>2. HereNow(u)' = HereNow(u)
    BY DEF HereNow
  <2>3. TalkTold(u)
    BY <1>3 DEF CatchInv, LifecycleTold
  <2> QED BY <2>1, <2>2, <2>3, TalkSent DEF CatchInv, roomVars
<1>4. LocksOfTabs'
  BY DEF CatchInv, LocksOfTabs
<1> QED BY <1>1, <1>2, <1>3, <1>4 DEF CatchInv, LifecycleTold

LEMMA PinCatches ==
    ASSUME CatchInv, NEW room \in Rooms, NEW asked \in BOOLEAN, PinInv',
           Unpin(room, asked) \/ \E t \in Talks : Pin(room, t, asked)
    PROVE  CatchInv'
<1> DEFINE c == IF pins' = pins THEN <<>> ELSE <<Pins(pins')>>
           r == Reply(asked, Synced(pins'))
<1>1. /\ asked => MayAsk
      /\ pins' \in PinMaps
      /\ channel' = channel \o (c \o r)
      /\ UNCHANGED <<states, locks, roomVars, strayed>>
  <2>1. CASE Unpin(room, asked)
    <3>1. pins' = Without(pins, {room}) /\ room \in DOMAIN pins
      BY <2>1 DEF Unpin
    <3>2. pins' # pins
      BY <3>1 DEF Without
    <3>3. pins' \in PinMaps
      BY <3>1, PinMapsAre DEF CatchInv, Travelling
    <3>4. /\ asked => MayAsk
          /\ channel' = channel \o (<<Pins(pins')>> \o r)
          /\ UNCHANGED <<states, locks, roomVars, strayed>>
      BY <2>1 DEF Unpin, Send, historyVars
    <3> QED BY <3>2, <3>3, <3>4
  <2>2. CASE \E t \in Talks : Pin(room, t, asked)
    <3>1. PICK t \in Talks : Pin(room, t, asked)
      BY <2>2
    <3>2. pins' = With(pins, room, t)
      BY <3>1 DEF Pin
    <3>3. pins' \in PinMaps
      BY <3>2, PinMapsAre DEF CatchInv, Travelling
    <3> QED BY <3>1, <3>3 DEF Pin, Send, historyVars
  <2> QED BY <2>1, <2>2
<1>2. c \in Seq(Messages) /\ Said(c) = IF pins' = pins THEN {} ELSE {Pins(pins')}
  <2> DEFINE w == IF pins' # pins THEN <<Pins(pins')>> ELSE <<>>
  <2>1. /\ w \in Seq(Messages)
        /\ Said(w) = IF pins' # pins THEN {Pins(pins')} ELSE {}
    BY <1>1, Sayings, OneOrNone
  <2>2. c = w
    OBVIOUS
  <2> HIDE DEF w, c
  <2> QED BY <2>1, <2>2
<1>3. /\ r \in Seq(Messages) /\ Len(r) <= 1 /\ (r # <<>> => asked)
      /\ Said(r) = IF asked THEN {Synced(pins')} ELSE {}
  <2>1. Synced(pins') \in Messages
    BY <1>1, Sayings
  <2> QED BY <2>1, OneOrNone DEF Reply
<1> HIDE DEF c, r
<1> DEFINE s == c \o r
<1>4. Travelling' /\ s \in Seq(Messages) /\ Said(s) = Said(c) \cup Said(r)
  <2>1. \A m \in Said(c) : ~IsAnswer(m)
    BY <1>2, FieldsAre
  <2> QED BY <1>1, <1>2, <1>3, <2>1, Sends DEF CatchInv
<1>5. Said(s) \cap PinCommands = {} => pins' = pins
  BY <1>1, <1>2, <1>4, Sayings
<1>6. Said(s) \subseteq {Pins(pins'), Synced(pins')}
  BY <1>2, <1>3, <1>4
<1>7. channel' = channel \o s
  BY <1>1
<1> HIDE DEF s
<1> QED BY <1>1, <1>4, <1>5, <1>6, <1>7, PinsOnlyCatch

LEMMA SwapCatches ==
    ASSUME CatchInv, NEW a \in Talks, NEW b \in Talks, Swap(a, b), PinInv'
    PROVE  CatchInv'
<1> DEFINE lifted == {r \in DOMAIN pins : pins[r] \in {a, b}}
           c == IF lifted = {} THEN <<>> ELSE <<Pins(pins')>>
<1>1. /\ pins' = Without(pins, lifted)
      /\ channel' = channel \o c
      /\ UNCHANGED <<states, locks, roomVars, strayed>>
  BY DEF Swap, Send
<1> HIDE DEF lifted
<1>2. pins' \in PinMaps /\ (lifted = {} => pins' = pins)
  BY <1>1, PinMapsAre DEF CatchInv, Travelling
<1>3. c \in Seq(Messages) /\ Said(c) = IF lifted = {} THEN {} ELSE {Pins(pins')}
  <2> DEFINE w == IF lifted # {} THEN <<Pins(pins')>> ELSE <<>>
  <2>1. /\ w \in Seq(Messages)
        /\ Said(w) = IF lifted # {} THEN {Pins(pins')} ELSE {}
    BY <1>2, Sayings, OneOrNone
  <2>2. c = w
    OBVIOUS
  <2> HIDE DEF w, c
  <2> QED BY <2>1, <2>2
<1> HIDE DEF c
<1>4. /\ <<>> \in Seq(Messages) /\ Len(<<>>) <= 1 /\ c \o <<>> = c
      /\ Said(<<>>) = {}
  BY <1>3, SaidIs
<1>5. Travelling'
  <2>1. \A m \in Said(c) : ~IsAnswer(m)
    BY <1>3, FieldsAre
  <2> QED BY <1>1, <1>2, <1>3, <1>4, <2>1, Sends DEF CatchInv
<1>6. Said(c) \cap PinCommands = {} => pins' = pins
  BY <1>2, <1>3, Sayings
<1>7. Said(c) \subseteq {Pins(pins'), Synced(pins')}
  BY <1>3
<1> QED BY <1>1, <1>3, <1>5, <1>6, <1>7, PinsOnlyCatch
-----------------------------------------------------------------------------
(***************************************************************************)
(* The copies catch up, action by action.                                  *)
(***************************************************************************)
\* An order of a finite set names all of it.
LEMMA OrdersAreWhole ==
    ASSUME NEW S \in SUBSET Talks, NEW order \in SetToSeqs(S)
    PROVE  \E n \in Nat :
              /\ order \in [1..n -> S]
              /\ \A t \in S : \E i \in 1..n : order[i] = t
<1> DEFINE n == Cardinality(S)
<1>1. IsFiniteSet(S)
  BY TalksAssumption, FS_Subset
<1>2. n \in Nat
  BY <1>1, FS_CardinalityType
<1>3. order \in [1..n -> S] /\ \A i, j \in 1..n : i # j => order[i] # order[j]
  BY DEF SetToSeqs
<1> HIDE DEF n
<1>4. IsFiniteSet(1..n) /\ Cardinality(1..n) = n
  BY <1>2, FS_Interval
<1>5. order \in Injection(1..n, S)
  BY <1>3 DEF Injection, IsInjective
<1>6. order \in Surjection(1..n, S)
  BY <1>1, <1>4, <1>5, FS_Injection DEF n
<1> QED BY <1>2, <1>3, <1>6 DEF Surjection

LEMMA AutoEndCatches == CatchInv /\ AutoEnd /\ PinInv' => CatchInv'
<1> SUFFICES ASSUME CatchInv, AutoEnd, PinInv' PROVE CatchInv'
  OBVIOUS
<1> DEFINE ended == {t \in Talks : Overrunning(t) /\ \A r \in DOMAIN pins : pins[r] # t}
           Word(t) == State(t, states[t].room, "ended")
<1>1. PICK order \in SetToSeqs(ended) :
          channel' = channel \o [i \in DOMAIN order |-> Word(order[i])]
  BY DEF AutoEnd, Send
<1>2. /\ states' = [t \in DOMAIN states |->
                      IF t \in ended THEN [states[t] EXCEPT !.status = "ended"]
                      ELSE states[t]]
      /\ UNCHANGED <<pins, locks, roomVars, strayed>>
  BY DEF AutoEnd, historyVars
<1>3. ended \in SUBSET Talks /\ ended \subseteq DOMAIN states
  BY DEF Overrunning, StatusOf
<1> HIDE DEF ended
<1>4. PICK n \in Nat : order \in [1..n -> ended] /\ \A t \in ended : \E i \in 1..n : order[i] = t
  BY <1>3, OrdersAreWhole
<1>5. \A t \in ended : Word(t) \in Messages /\ states[t].room \in Rooms
  BY <1>3, Sayings DEF CatchInv, PinInv, Table, Lifecycle, Statuses
<1> DEFINE s == [i \in DOMAIN order |-> Word(order[i])]
<1>6. s \in Seq(Messages) /\ Said(s) = {Word(t) : t \in ended}
  <2>1. DOMAIN order = 1..n /\ \A i \in 1..n : order[i] \in ended
    BY <1>4
  <2> HIDE DEF Word
  <2>2. s = [i \in 1..n |-> Word(order[i])]
    BY <2>1
  <2>3. s \in [1..n -> Messages]
    BY <1>5, <2>1, <2>2
  <2>4. s \in Seq(Messages) /\ Len(s) = n
    BY <2>2, <2>3
  <2>5. Said(s) = {s[i] : i \in 1..n}
    BY <2>4 DEF Said
  <2> QED BY <1>4, <2>1, <2>2, <2>4, <2>5
<1>7. channel' = channel \o s
  BY <1>1
<1> HIDE DEF s
<1>8. Travelling'
  <2>1. /\ <<>> \in Seq(Messages) /\ Len(<<>>) <= 1 /\ s \o <<>> = s
    BY <1>6
  <2>2. \A m \in Said(s) : ~IsAnswer(m)
    BY <1>6, FieldsAre
  <2>3. pins' \in PinMaps
    BY <1>2 DEF CatchInv, Travelling
  <2> QED BY <1>2, <1>6, <1>7, <2>1, <2>2, <2>3, Sends DEF CatchInv
<1>9. HoldTold'
  <2>1. Said(s) \cap HoldCommands = {}
    BY <1>6, KindsApart
  <2>2. Holder' = Holder
    BY <1>2 DEF Holder
  <2> QED BY <1>2, <1>6, <1>7, <2>1, <2>2, HoldSent DEF CatchInv, roomVars
<1>10. PinsTold'
  <2>1. Said(s) \cap (PinCommands \cup Syncs) = {}
    BY <1>6, KindsApart
  <2> QED BY <1>2, <1>6, <1>7, <2>1, PinsSent DEF CatchInv, roomVars
<1>11. ASSUME ~strayed', NEW u \in Talks PROVE TalkTold(u)'
  <2>1. HereNow(u)' = IF u \in ended /\ states[u].room = Here THEN "ended" ELSE HereNow(u)
    <3>1. /\ DOMAIN states' = DOMAIN states
          /\ \A t \in DOMAIN states : states'[t] = IF t \in ended THEN [states[t] EXCEPT !.status = "ended"]
                                                   ELSE states[t]
      BY <1>2
    <3>2. \A t \in DOMAIN states : states[t] \in [status : Statuses, room : Rooms]
      BY DEF CatchInv, PinInv, Table
    <3> QED BY <1>3, <3>1, <3>2 DEF HereNow
  <2>2. Said(s) \cap (CommandsOn(u) \cup AnswersOn(u)) \subseteq RightOn(u)'
    <3> SUFFICES ASSUME NEW m \in Said(s), m \in CommandsOn(u) \cup AnswersOn(u)
                 PROVE  m \in RightOn(u)'
      OBVIOUS
    <3>1. PICK t \in ended : m = Word(t)
      BY <1>6
    <3>2. t = u /\ states[t].room = Here
      BY <3>1, KindsApart, FieldsAre DEF CommandsOn, AnswersOn
    <3>3. m = State(u, Here, HereNow(u)')
      BY <2>1, <3>1, <3>2
    <3> QED BY <3>3 DEF RightOn
  <2>3. Said(s) \cap CommandsOn(u) = {} => HereNow(u)' = HereNow(u)
    <3>1. u \in ended /\ states[u].room = Here => Word(u) \in CommandsOn(u)
      BY <1>5, Sayings, FieldsAre DEF CommandsOn, Lifecycle, Statuses
    <3> QED BY <1>6, <2>1, <3>1
  <2>4. TalkTold(u)
    BY <1>2, <1>11 DEF CatchInv, LifecycleTold
  <2> QED BY <1>2, <1>6, <1>7, <2>2, <2>3, <2>4, TalkSent DEF CatchInv, roomVars
<1>12. LocksOfTabs'
  BY <1>2 DEF CatchInv, LocksOfTabs
<1> QED BY <1>8, <1>9, <1>10, <1>11, <1>12 DEF CatchInv, LifecycleTold

\* A step that only concerns the lock.
LEMMA LockOnlyCatch ==
    ASSUME CatchInv, PinInv', LocksOfTabs', NEW some \in BOOLEAN,
           some => Holder' \in Holders,
           channel' = channel \o (IF some THEN <<Hold(Holder')>> ELSE <<>>),
           ~some => Holder' = Holder,
           UNCHANGED <<states, pins, roomVars, strayed>>
    PROVE  CatchInv'
<1> DEFINE s == IF some THEN <<Hold(Holder')>> ELSE <<>>
<1>1. s \in Seq(Messages) /\ Said(s) = IF some THEN {Hold(Holder')} ELSE {}
  <2>1. CASE some
    <3>1. Hold(Holder') \in Messages
      BY <2>1, Sayings
    <3> QED BY <2>1, <3>1, OneOrNone
  <2>2. CASE ~some
    BY <2>2, SaidIs
  <2> QED BY <2>1, <2>2
<1>2. channel' = channel \o s
  OBVIOUS
<1> HIDE DEF s
<1>3. Travelling'
  <2>1. /\ <<>> \in Seq(Messages) /\ Len(<<>>) <= 1 /\ s \o <<>> = s
    BY <1>1
  <2>2. \A m \in Said(s) : ~IsAnswer(m)
    BY <1>1, FieldsAre
  <2>3. pins' \in PinMaps
    BY DEF CatchInv, Travelling
  <2> QED BY <1>1, <1>2, <2>1, <2>2, <2>3, Sends DEF CatchInv
<1>4. HoldTold'
  <2>1. Said(s) \cap HoldCommands \subseteq {Hold(Holder')}
    BY <1>1
  <2>2. Said(s) \cap HoldCommands = {} => Holder' = Holder
    BY <1>1, Sayings
  <2> QED BY <1>1, <1>2, <2>1, <2>2, HoldSent DEF CatchInv, roomVars
<1>5. PinsTold'
  <2>1. Said(s) \cap (PinCommands \cup Syncs) = {}
    BY <1>1, KindsApart
  <2> QED BY <1>1, <1>2, <2>1, PinsSent DEF CatchInv, roomVars
<1>6. ASSUME ~strayed', NEW u \in Talks PROVE TalkTold(u)'
  <2>1. Said(s) \cap (CommandsOn(u) \cup AnswersOn(u)) = {}
    BY <1>1, KindsApart DEF CommandsOn, AnswersOn
  <2>2. HereNow(u)' = HereNow(u)
    BY DEF HereNow
  <2>3. TalkTold(u)
    BY <1>6 DEF CatchInv, LifecycleTold
  <2> QED BY <1>1, <1>2, <2>1, <2>2, <2>3, TalkSent DEF CatchInv, roomVars
<1> QED BY <1>3, <1>4, <1>5, <1>6 DEF CatchInv, LifecycleTold

LEMMA LockCatches ==
    ASSUME CatchInv, PinInv', NEW tab \in Tabs, NEW room \in Rooms,
           \/ \E force \in BOOLEAN : TakeHold(tab, room, force)
           \/ Release(tab, room)
    PROVE  CatchInv'
<1>1. CASE \E force \in BOOLEAN : TakeHold(tab, room, force)
  <2>1. PICK force \in BOOLEAN : TakeHold(tab, room, force)
    BY <1>1
  <2> DEFINE row == [tab |-> tab, seen |-> now,
                     since |-> IF Holds(tab, room) THEN locks[room].since ELSE now]
             before == IF Live(room) THEN Owner[locks[room].tab] ELSE NoOne
             some == before # Owner[tab] /\ room = Here
  <2>2. /\ locks' = With(locks, room, row)
        /\ channel' = channel \o (IF before = Owner[tab] THEN <<>> ELSE ToTheRoom(room, Hold(Owner[tab])))
        /\ UNCHANGED <<states, pins, roomVars, strayed>>
    BY <2>1 DEF TakeHold, Send, hubVars, historyVars
  <2>3. row.tab = tab
    OBVIOUS
  <2>4. DOMAIN locks' = DOMAIN locks \cup {room} /\ locks'[room].tab = tab
        /\ \A r \in DOMAIN locks \ {room} : locks'[r] = locks[r]
    <3> HIDE DEF row
    <3> QED BY <2>2, <2>3 DEF With
  <2>5. LocksOfTabs'
    BY <2>4 DEF CatchInv, LocksOfTabs
  <2>6. room = Here => Holder' = Owner[tab]
    BY <2>4 DEF Holder
  <2>7. room # Here => Holder' = Holder
    BY <2>4 DEF Holder
  <2>8. room = Here /\ before = Owner[tab] => Holder = Owner[tab]
    BY OwnerAssumption DEF Holder, Live
  <2> HIDE DEF before, row
  <2>9. some => Holder' \in Holders
    BY <2>6 DEF Holders
  <2>10. channel' = channel \o (IF some THEN <<Hold(Holder')>> ELSE <<>>)
    BY <2>2, <2>6 DEF ToTheRoom
  <2>11. ~some => Holder' = Holder
    BY <2>6, <2>7, <2>8
  <2>12. some \in BOOLEAN
    OBVIOUS
  <2> HIDE DEF some
  <2> QED BY <2>2, <2>5, <2>9, <2>10, <2>11, <2>12, LockOnlyCatch
<1>2. CASE Release(tab, room)
  <2> DEFINE some == room = Here
  <2>1. /\ room \in DOMAIN locks /\ locks' = Without(locks, {room})
        /\ channel' = channel \o ToTheRoom(room, Hold(NoOne))
        /\ UNCHANGED <<states, pins, roomVars, strayed>>
    BY <1>2 DEF Release, Holds, Live, Send, hubVars, historyVars
  <2>2. /\ DOMAIN locks' = DOMAIN locks \ {room}
        /\ \A r \in DOMAIN locks' : locks'[r] = locks[r]
    BY <2>1 DEF Without
  <2>3. LocksOfTabs'
    BY <2>2 DEF CatchInv, LocksOfTabs
  <2>4. Holder' = IF room = Here THEN NoOne ELSE Holder
    BY <2>2 DEF Holder
  <2>5. some => Holder' \in Holders
    BY <2>4 DEF Holders
  <2>6. channel' = channel \o (IF some THEN <<Hold(Holder')>> ELSE <<>>)
    BY <2>1, <2>4 DEF ToTheRoom
  <2>7. some \in BOOLEAN /\ (~some => Holder' = Holder)
    BY <2>4
  <2> HIDE DEF some
  <2> QED BY <2>1, <2>3, <2>5, <2>6, <2>7, LockOnlyCatch
<1> QED BY <1>1, <1>2

LEMMA SweepCatches == CatchInv /\ SweepLocks /\ PinInv' => CatchInv'
<1> SUFFICES ASSUME CatchInv, SweepLocks, PinInv' PROVE CatchInv'
  OBVIOUS
<1> DEFINE expired == {room \in DOMAIN locks : ~Live(room)}
           some == Here \in expired
<1>1. /\ locks' = Without(locks, expired)
      /\ channel' = channel \o (IF some THEN <<Hold(NoOne)>> ELSE <<>>)
      /\ UNCHANGED <<states, pins, roomVars, strayed>>
  BY DEF SweepLocks, Send, hubVars, historyVars
<1> HIDE DEF expired
<1>2. /\ DOMAIN locks' = DOMAIN locks \ expired
      /\ \A r \in DOMAIN locks' : locks'[r] = locks[r]
  BY <1>1 DEF Without
<1>3. LocksOfTabs'
  BY <1>2 DEF CatchInv, LocksOfTabs
<1>4. Holder' = IF some THEN NoOne ELSE Holder
  BY <1>2 DEF Holder
<1>5. some => Holder' \in Holders
  BY <1>4 DEF Holders
<1>6. some \in BOOLEAN /\ (~some => Holder' = Holder)
  BY <1>4
<1>7. channel' = channel \o (IF some THEN <<Hold(Holder')>> ELSE <<>>)
  BY <1>1, <1>4
<1> HIDE DEF some
<1> QED BY <1>1, <1>3, <1>5, <1>6, <1>7, LockOnlyCatch

\* A renewal keeps the operator.
LEMMA RenewCatches ==
    ASSUME CatchInv, PinInv', NEW tab \in Tabs, NEW room \in Rooms, Renew(tab, room)
    PROVE  CatchInv'
<1> DEFINE row == [tab |-> tab, seen |-> now, since |-> locks[room].since]
<1>1. /\ locks' = With(locks, room, row) /\ room \in DOMAIN locks /\ locks[room].tab = tab
      /\ UNCHANGED <<states, pins, channel, roomVars, strayed>>
  BY DEF Renew, Holds, Live, hubVars, historyVars
<1>2. row.tab = tab
  OBVIOUS
<1> HIDE DEF row
<1>3. /\ DOMAIN locks' = DOMAIN locks
      /\ \A r \in DOMAIN locks : locks'[r].tab = locks[r].tab
  BY <1>1, <1>2 DEF With
<1>4. LocksOfTabs' /\ Holder' = Holder
  BY <1>3 DEF CatchInv, LocksOfTabs, Holder
<1>5. HoldTold'
  BY <1>1, <1>4 DEF CatchInv, HoldTold, roomVars
<1>6. PinsTold' /\ Travelling'
  BY <1>1 DEF CatchInv, PinsTold, Travelling, Answers, roomVars
<1>7. \A u : HereNow(u)' = HereNow(u) /\ RightOn(u)' = RightOn(u)
  BY <1>1 DEF HereNow, RightOn
<1>8. LifecycleTold'
  BY <1>1, <1>7 DEF CatchInv, LifecycleTold, TalkTold, roomVars
<1> QED BY <1>4, <1>5, <1>6, <1>8 DEF CatchInv

\* Nothing of what the room is told changes: not even when every talk goes back
\* to the export's slot, since the lifecycle stays where it was decided.
LEMMA OthersCatch ==
    ASSUME CatchInv, PinInv', UNCHANGED <<states, pins, locks, channel, roomVars>>,
           strayed => strayed'
    PROVE  CatchInv'
<1>1. LocksOfTabs' /\ Holder' = Holder
  BY DEF CatchInv, LocksOfTabs, Holder
<1>2. HoldTold'
  BY <1>1 DEF CatchInv, HoldTold, roomVars
<1>3. PinsTold' /\ Travelling'
  BY DEF CatchInv, PinsTold, Travelling, Answers, roomVars
<1>4. \A u : HereNow(u)' = HereNow(u) /\ RightOn(u)' = RightOn(u)
  BY DEF HereNow, RightOn
<1>5. LifecycleTold'
  BY <1>4 DEF CatchInv, LifecycleTold, TalkTold, roomVars
<1> QED BY <1>1, <1>2, <1>3, <1>5 DEF CatchInv

\* A step of the machine: the hub's tables stay.
LEMMA MachineCatch ==
    ASSUME CatchInv, PinInv', UNCHANGED <<hubVars, locks, historyVars>>,
           Travelling', HoldTold', PinsTold',
           ~strayed => \A t \in Talks : TalkTold(t)'
    PROVE  CatchInv'
BY DEF CatchInv, LocksOfTabs, LifecycleTold, historyVars

LEMMA AskCatches ==
    ASSUME CatchInv, PinInv', AskSync \/ AskStates
    PROVE  CatchInv'
<1>0. Table(states, Talks, [status : Statuses, room : Rooms])
  BY DEF CatchInv, PinInv
<1>1. PICK m \in {Synced(pins), ReadBack(StatesIn(Here))} :
         /\ MayAsk /\ channel' = channel \o <<m>>
         /\ UNCHANGED <<hubVars, locks, roomVars, historyVars>>
  BY DEF AskSync, AskStates, Send
<1>2. m \in Messages
  BY <1>0, Sayings, StatesInIs DEF CatchInv, Travelling
<1>3. <<m>> \in Seq(Messages) /\ Len(<<m>>) <= 1 /\ Said(<<m>>) = {m} /\ <<>> \o <<m>> = <<m>>
      /\ <<>> \in Seq(Messages) /\ Said(<<>>) = {}
  BY <1>2, SaidIs
<1>4. Travelling'
  <2>1. pins' \in PinMaps
    BY <1>1 DEF CatchInv, Travelling, hubVars
  <2> QED BY <1>1, <1>3, <2>1, Sends DEF CatchInv
<1>5. HoldTold'
  <2>1. Said(<<m>>) \cap HoldCommands = {}
    BY <1>3, KindsApart
  <2>2. Holder' = Holder
    BY <1>1 DEF Holder
  <2> QED BY <1>1, <1>3, <2>1, <2>2, HoldSent DEF CatchInv, roomVars
<1>6. PinsTold'
  <2>1. Said(<<m>>) \cap (PinCommands \cup Syncs) \subseteq {Pins(pins'), Synced(pins')}
    BY <1>1, <1>3, KindsApart DEF hubVars
  <2> QED BY <1>1, <1>3, <2>1, PinsSent DEF CatchInv, roomVars, hubVars
<1>7. ASSUME ~strayed, NEW u \in Talks PROVE TalkTold(u)'
  <2>1. HereNow(u)' = HereNow(u)
    BY <1>1 DEF HereNow, hubVars
  <2>2. Said(<<m>>) \cap CommandsOn(u) = {}
    BY <1>3, KindsApart DEF CommandsOn
  <2>3. Said(<<m>>) \cap (CommandsOn(u) \cup AnswersOn(u)) \subseteq RightOn(u)'
    <3>1. CASE m = Synced(pins)
      <4>1. Said(<<m>>) \cap (CommandsOn(u) \cup AnswersOn(u)) = {}
        BY <1>3, <3>1, KindsApart DEF CommandsOn, AnswersOn
      <4> QED BY <4>1
    <3>2. CASE m = ReadBack(StatesIn(Here))
      <4>1. m \in Readings /\ In(m.states, u) = HereNow(u)'
        BY <1>0, <2>1, <3>2, StatesInIs, Sayings, FieldsAre
      <4>2. m \in RightOn(u)'
        BY <4>1 DEF RightOn
      <4> QED BY <1>3, <4>2
    <3> QED BY <1>1, <3>1, <3>2
  <2>4. TalkTold(u)
    BY <1>7 DEF CatchInv, LifecycleTold
  <2> QED BY <1>1, <1>3, <2>1, <2>3, <2>4, TalkSent DEF CatchInv, roomVars
<1> QED BY <1>1, <1>4, <1>5, <1>6, <1>7, MachineCatch

LEMMA AnswersTail ==
    ASSUME Travelling, channel # <<>>, ~IsAnswer(Head(channel)), channel' = Tail(channel)
    PROVE  channel' \in Seq(Messages) /\ \A i, j \in Answers' : i = j
<1>1. /\ channel' \in Seq(Messages) /\ Len(channel') = Len(channel) - 1 /\ Len(channel) \in Nat \ {0}
      /\ \A i \in 1..Len(channel') : channel'[i] = channel[i + 1]
      /\ DOMAIN channel' = 1..Len(channel') /\ DOMAIN channel = 1..Len(channel)
  BY DEF Travelling
<1>2. ASSUME NEW i \in Answers' PROVE i \in Nat /\ i + 1 \in Answers
  <2>1. i \in 1..Len(channel') /\ IsAnswer(channel'[i])
    BY <1>1, <1>2 DEF Answers, IsAnswer
  <2>2. i + 1 \in 1..Len(channel) /\ IsAnswer(channel[i + 1])
    BY <1>1, <2>1
  <2> QED BY <1>1, <2>1, <2>2 DEF Answers
<1>3. ASSUME NEW i \in Answers', NEW j \in Answers' PROVE i = j
  <2>1. i \in Nat /\ j \in Nat /\ i + 1 \in Answers /\ j + 1 \in Answers
    BY <1>2
  <2>2. i + 1 = j + 1
    BY <2>1 DEF Travelling
  <2> QED BY <2>1, <2>2
<1> QED BY <1>1, <1>3

LEMMA ApplyCatches == CatchInv /\ Apply /\ PinInv' => CatchInv'
<1> SUFFICES ASSUME CatchInv, Apply, PinInv' PROVE CatchInv'
  OBVIOUS
<1> DEFINE m == Head(channel)
<1>1. /\ channel # <<>> /\ ~IsAnswer(m)
      /\ sessionStates' = IF m.type = "session.state" /\ m.room = Here
                          THEN Marked(sessionStates, m.talk, m.status) ELSE sessionStates
      /\ roomPins' = IF m.type = "room.pins" THEN m.pins ELSE roomPins
      /\ remoteHolder' = IF m.type = "regie.hold" THEN m.holder ELSE remoteHolder
      /\ told' = (told \/ m.type = "regie.hold")
      /\ channel' = Tail(channel)
      /\ read' = read
      /\ UNCHANGED <<hubVars, locks, historyVars>>
  BY DEF Apply
<1>2. channel \in Seq(Messages) /\ m \in Messages
  BY <1>1 DEF CatchInv, Travelling
<1> HIDE DEF m
<1>3. Travelling'
  <2>1. channel' \in Seq(Messages) /\ \A i, j \in Answers' : i = j
    BY <1>1, AnswersTail DEF CatchInv, m
  <2>2. sessionStates' \in Copies
    <3>1. m.type = "session.state" => m.talk \in Talks /\ m.status \in Lifecycle
      BY <1>2, Kinds DEF StateCommands
    <3> QED BY <1>1, <3>1, MarkedIs DEF CatchInv, Travelling
  <2>3. roomPins' \in PinMaps
    <3>1. m.type = "room.pins" => m.pins \in PinMaps
      BY <1>2, Kinds DEF PinCommands
    <3> QED BY <1>1, <3>1 DEF CatchInv, Travelling
  <2>4. remoteHolder' \in Holders
    <3>1. m.type = "regie.hold" => m.holder \in Holders
      BY <1>2, Kinds DEF HoldCommands
    <3> QED BY <1>1, <3>1 DEF CatchInv, Travelling
  <2> QED BY <1>1, <2>1, <2>2, <2>3, <2>4 DEF CatchInv, Travelling, hubVars
<1>4. HoldTold'
  <2> DEFINE right == {Hold(Holder)}
  <2>1. Tells(channel, HoldCommands, {}, right) /\ Holder' = Holder
    BY <1>1 DEF CatchInv, HoldTold, Holder
  <2> HIDE DEF right
  <2>2. /\ Tells(channel', HoldCommands, {}, right)
        /\ Silent(channel', HoldCommands) =>
              IF m \in HoldCommands THEN m \in right ELSE Silent(channel, HoldCommands)
    BY <1>1, <1>2, <2>1, TellsTaken DEF m
  <2>3. ASSUME told', Silent(channel', HoldCommands) PROVE remoteHolder' = Holder
    <3>1. CASE m \in HoldCommands
      <4>1. m.type = "regie.hold" /\ m = Hold(Holder)
        BY <1>2, <2>2, <2>3, <3>1, Kinds DEF right
      <4> QED BY <1>1, <4>1 DEF Hold
    <3>2. CASE m \notin HoldCommands
      <4>1. m.type # "regie.hold" /\ Silent(channel, HoldCommands)
        BY <1>2, <2>2, <2>3, <3>2, Kinds
      <4> QED BY <1>1, <2>3, <4>1 DEF CatchInv, HoldTold
    <3> QED BY <3>1, <3>2
  <2> QED BY <2>1, <2>2, <2>3 DEF HoldTold, right, HoldCommands, Holders
<1>5. PinsTold'
  <2> DEFINE right == {Pins(pins), Synced(pins)}
  <2>1. Tells(channel, PinCommands, Syncs, right) /\ pins' = pins
    BY <1>1 DEF CatchInv, PinsTold, hubVars
  <2> HIDE DEF right
  <2>2. /\ Tells(channel', PinCommands, Syncs, right)
        /\ Silent(channel', PinCommands) =>
              IF m \in PinCommands THEN m \in right ELSE Silent(channel, PinCommands)
    BY <1>1, <1>2, <2>1, TellsTaken DEF m
  <2>3. ASSUME Silent(channel', PinCommands) PROVE roomPins' = pins
    <3>1. CASE m \in PinCommands
      <4>1. m.type = "room.pins" /\ m = Pins(pins)
        BY <1>2, <2>2, <2>3, <3>1, Kinds, KindsApart DEF right
      <4> QED BY <1>1, <4>1 DEF Pins
    <3>2. CASE m \notin PinCommands
      <4>1. m.type # "room.pins" /\ Silent(channel, PinCommands)
        BY <1>2, <2>2, <2>3, <3>2, Kinds
      <4> QED BY <1>1, <4>1 DEF CatchInv, PinsTold
    <3> QED BY <3>1, <3>2
  <2> QED BY <2>1, <2>2, <2>3 DEF PinsTold, right
<1>6. ASSUME ~strayed, NEW u \in Talks PROVE TalkTold(u)'
  <2> DEFINE right == RightOn(u)
  <2>1. /\ Tells(channel, CommandsOn(u), AnswersOn(u), right)
        /\ HereNow(u)' = HereNow(u) /\ right' = right
    BY <1>1, <1>6 DEF CatchInv, LifecycleTold, TalkTold, HereNow, hubVars, RightOn
  <2> HIDE DEF right
  <2>2. /\ Tells(channel', CommandsOn(u), AnswersOn(u), right)
        /\ Silent(channel', CommandsOn(u)) =>
              IF m \in CommandsOn(u) THEN m \in right ELSE Silent(channel, CommandsOn(u))
    BY <1>1, <1>2, <2>1, TellsTaken DEF m
  <2>3. ASSUME read', Silent(channel', CommandsOn(u)) PROVE In(sessionStates', u) = HereNow(u)
    <3>1. CASE m \in CommandsOn(u)
      <4>1. m.type = "session.state" /\ m.talk = u /\ m.room = Here /\ m.status \in Lifecycle
        BY <1>2, <3>1, Kinds DEF CommandsOn, StateCommands
      <4>2. m = State(u, Here, HereNow(u))
        <5>1. m \in RightOn(u) /\ m \notin Decisions \cup Readings
          BY <1>2, <2>2, <2>3, <3>1, <4>1, Kinds DEF right
        <5>2. m # Decided(u, HereNow(u))
          BY <4>1 DEF Decided
        <5> QED BY <5>1, <5>2 DEF RightOn
      <4>3. m.status = HereNow(u)
        BY <4>2 DEF State
      <4> QED BY <1>1, <4>1, <4>3, MarkedIs DEF CatchInv, Travelling
    <3>2. CASE m \notin CommandsOn(u)
      <4>1. Silent(channel, CommandsOn(u)) /\ read
        BY <1>1, <2>2, <2>3, <3>2
      <4>2. In(sessionStates', u) = In(sessionStates, u)
        <5>1. CASE m.type = "session.state" /\ m.room = Here
          <6>1. m.talk # u /\ m.talk \in Talks /\ m.status \in Lifecycle
            BY <1>2, <3>2, <5>1, Kinds DEF CommandsOn, StateCommands
          <6> QED BY <1>1, <5>1, <6>1, MarkedIs DEF CatchInv, Travelling
        <5>2. CASE ~(m.type = "session.state" /\ m.room = Here)
          BY <1>1, <5>2
        <5> QED BY <5>1, <5>2
      <4> QED BY <1>6, <4>1, <4>2 DEF CatchInv, LifecycleTold, TalkTold
    <3> QED BY <3>1, <3>2
  <2>4. Tells(channel', CommandsOn(u), AnswersOn(u), right')
    BY <2>1, <2>2
  <2> QED BY <2>1, <2>3, <2>4 DEF TalkTold, right
<1> QED BY <1>1, <1>3, <1>4, <1>5, <1>6, MachineCatch

\* The answer that is awaited leaves the channel, and is the only one.
LEMMA AnswerLeaves ==
    ASSUME Travelling, NEW k \in Answers, channel' = RemoveAt(channel, k)
    PROVE  /\ channel' \in Seq(Messages)
           /\ Answers' = {}
           /\ k \in 1..Len(channel)
           /\ channel[k] \in Decisions \cup Syncs \cup Readings
           /\ \A j \in 1..Len(channel) : j # k => channel[j] \notin Decisions \cup Syncs \cup Readings
<1>1. k \in 1..Len(channel) /\ IsAnswer(channel[k]) /\ channel \in Seq(Messages)
  BY DEF Travelling, Answers, IsAnswer
<1>2. /\ channel' \in Seq(Messages) /\ Len(channel') = Len(channel) - 1 /\ Len(channel) \in Nat \ {0}
      /\ \A i \in 1..Len(channel') : channel'[i] = IF i < k THEN channel[i] ELSE channel[i + 1]
  BY <1>1, RemovedIs
<1>3. \A j \in 1..Len(channel) : j # k => ~IsAnswer(channel[j])
  <2> SUFFICES ASSUME NEW j \in 1..Len(channel), IsAnswer(channel[j]) PROVE j = k
    OBVIOUS
  <2>1. j \in Answers
    BY <1>1 DEF Answers, IsAnswer
  <2> QED BY <2>1 DEF Travelling
<1>4. Answers' = {}
  <2> SUFFICES ASSUME NEW i \in Answers' PROVE FALSE
    OBVIOUS
  <2>1. i \in 1..Len(channel') /\ IsAnswer(channel'[i])
    BY <1>2 DEF Answers, IsAnswer
  <2> DEFINE a == IF i < k THEN i ELSE i + 1
  <2>2. a \in 1..Len(channel) /\ a # k /\ channel'[i] = channel[a]
    BY <1>1, <1>2, <2>1
  <2> HIDE DEF a
  <2> QED BY <1>3, <2>1, <2>2 DEF IsAnswer
<1>5. \A j \in 1..Len(channel) : channel[j] \in Messages
  BY <1>1
<1> QED BY <1>1, <1>2, <1>3, <1>4, <1>5, Kinds

\* What its leaving does to what is told.
LEMMA LeavesTold ==
    ASSUME Travelling, NEW k \in Answers, channel' = RemoveAt(channel, k),
           NEW commands, NEW answers, NEW right, Tells(channel, commands, answers, right),
           commands \cap (Decisions \cup Syncs \cup Readings) = {},
           answers \subseteq Decisions \cup Syncs \cup Readings
    PROVE  /\ Tells(channel', commands, answers, right)
           /\ Silent(channel', commands) =>
                 Silent(channel, commands) /\ (channel[k] \in answers => channel[k] \in right)
<1>1. channel \in Seq(Messages)
  BY DEF Travelling
<1>2. /\ k \in 1..Len(channel) /\ channel[k] \notin commands
      /\ \A j \in 1..Len(channel) : j # k => channel[j] \notin answers
  BY AnswerLeaves
<1> QED BY <1>1, <1>2, TellsPicked

LEMMA CommandsAreNoAnswers ==
    /\ HoldCommands \cap (Decisions \cup Syncs \cup Readings) = {}
    /\ PinCommands \cap (Decisions \cup Syncs \cup Readings) = {}
    /\ \A t : CommandsOn(t) \cap (Decisions \cup Syncs \cup Readings) = {}
    /\ \A t : AnswersOn(t) \subseteq Decisions \cup Syncs \cup Readings
BY DEF StateCommands, PinCommands, HoldCommands, Decisions, Syncs, Readings, CommandsOn, AnswersOn

LEMMA ArriveCatches == CatchInv /\ Arrive /\ PinInv' => CatchInv'
<1> SUFFICES ASSUME CatchInv, Arrive, PinInv' PROVE CatchInv'
  OBVIOUS
<1>1. PICK k \in Answers :
         /\ sessionStates' =
                CASE channel[k].type = "decided" ->
                        Marked(sessionStates, channel[k].talk, channel[k].status)
                  [] channel[k].type = "states"  -> channel[k].states
                  [] channel[k].type = "synced"  -> sessionStates
         /\ roomPins' = IF channel[k].type = "synced" THEN channel[k].pins ELSE roomPins
         /\ read' = (read \/ channel[k].type = "states")
         /\ channel' = RemoveAt(channel, k)
  BY DEF Arrive
<1>2. UNCHANGED <<hubVars, locks, historyVars, remoteHolder, told>>
  BY DEF Arrive
<1> DEFINE m == channel[k]
<1>3. /\ Travelling
      /\ channel' \in Seq(Messages) /\ Answers' = {}
      /\ m \in Decisions \cup Syncs \cup Readings
  BY <1>1, AnswerLeaves DEF CatchInv
<1>4. m \in Messages
  BY <1>3 DEF Messages
<1>5. /\ m \in Decisions => sessionStates' = Marked(sessionStates, m.talk, m.status)
      /\ m \in Readings => sessionStates' = m.states
      /\ m \in Syncs => sessionStates' = sessionStates
  BY <1>1, <1>4, Kinds
<1>6. /\ roomPins' = IF m \in Syncs THEN m.pins ELSE roomPins
      /\ read' = (read \/ m \in Readings)
  BY <1>1, <1>4, Kinds
<1>7. /\ m \in Decisions => m.talk \in Talks /\ m.status \in Lifecycle
      /\ m \in Syncs => m.pins \in PinMaps
      /\ m \in Readings => m.states \in Copies
  BY DEF Decisions, Syncs, Readings
<1> HIDE DEF m
<1>8. Travelling'
  <2>1. sessionStates' \in Copies
    BY <1>3, <1>5, <1>7, MarkedIs DEF Travelling
  <2>2. roomPins' \in PinMaps
    BY <1>3, <1>6, <1>7 DEF Travelling
  <2> QED BY <1>2, <1>3, <2>1, <2>2 DEF Travelling, hubVars
<1>9. HoldTold'
  <2> DEFINE right == {Hold(Holder)}
  <2>1. Tells(channel, HoldCommands, {}, right) /\ Holder' = Holder
    BY <1>2 DEF CatchInv, HoldTold, Holder
  <2> HIDE DEF right
  <2>2. /\ Tells(channel', HoldCommands, {}, right)
        /\ Silent(channel', HoldCommands) => Silent(channel, HoldCommands)
    BY <1>1, <1>3, <2>1, CommandsAreNoAnswers, LeavesTold
  <2>3. told' /\ Silent(channel', HoldCommands) => remoteHolder' = Holder'
    BY <1>2, <2>1, <2>2 DEF CatchInv, HoldTold
  <2> QED BY <2>1, <2>2, <2>3 DEF HoldTold, right, HoldCommands, Holders
<1>10. PinsTold'
  <2> DEFINE right == {Pins(pins), Synced(pins)}
  <2>1. Tells(channel, PinCommands, Syncs, right) /\ pins' = pins
    BY <1>2 DEF CatchInv, PinsTold, hubVars
  <2> HIDE DEF right
  <2>2. /\ Tells(channel', PinCommands, Syncs, right)
        /\ Silent(channel', PinCommands) =>
              Silent(channel, PinCommands) /\ (m \in Syncs => m \in right)
    <3>1. Syncs \subseteq Decisions \cup Syncs \cup Readings
      OBVIOUS
    <3> QED BY <1>1, <1>3, <2>1, <3>1, CommandsAreNoAnswers, LeavesTold DEF m
  <2>3. ASSUME Silent(channel', PinCommands) PROVE roomPins' = pins
    <3>1. CASE m \in Syncs
      <4>1. m = Synced(pins)
        BY <2>2, <2>3, <3>1, KindsApart DEF right
      <4> QED BY <1>6, <3>1, <4>1 DEF Synced
    <3>2. CASE m \notin Syncs
      BY <1>6, <2>2, <2>3, <3>2 DEF CatchInv, PinsTold
    <3> QED BY <3>1, <3>2
  <2> QED BY <2>1, <2>2, <2>3 DEF PinsTold, right
<1>11. ASSUME ~strayed, NEW u \in Talks PROVE TalkTold(u)'
  <2> DEFINE right == RightOn(u)
  <2>1. /\ Tells(channel, CommandsOn(u), AnswersOn(u), right)
        /\ HereNow(u)' = HereNow(u) /\ right' = right
    BY <1>2, <1>11 DEF CatchInv, LifecycleTold, TalkTold, HereNow, hubVars, RightOn
  <2> HIDE DEF right
  <2>2. /\ Tells(channel', CommandsOn(u), AnswersOn(u), right)
        /\ Silent(channel', CommandsOn(u)) =>
              Silent(channel, CommandsOn(u)) /\ (m \in AnswersOn(u) => m \in right)
    BY <1>1, <1>3, <2>1, CommandsAreNoAnswers, LeavesTold DEF m
  <2>3. ASSUME read', Silent(channel', CommandsOn(u)) PROVE In(sessionStates', u) = HereNow(u)
    <3>1. Silent(channel, CommandsOn(u)) /\ (m \in AnswersOn(u) => m \in RightOn(u))
      BY <2>2, <2>3 DEF right
    <3>2. read => In(sessionStates, u) = HereNow(u)
      BY <1>11, <3>1 DEF CatchInv, LifecycleTold, TalkTold
    <3>3. CASE m \in Readings
      <4>1. m \in RightOn(u) /\ m.type = "states"
        BY <1>4, <3>1, <3>3, Kinds DEF AnswersOn
      <4>2. In(m.states, u) = HereNow(u)
        BY <4>1 DEF RightOn, State, Decided
      <4> QED BY <1>5, <3>3, <4>2
    <3>4. CASE m \in Decisions
      <4>1. m.type = "decided" /\ m \notin Readings
        BY <1>4, <3>4, Kinds
      <4>2. read
        BY <1>6, <2>3, <4>1
      <4>3. In(sessionStates', u) = IF u = m.talk THEN m.status ELSE In(sessionStates, u)
        BY <1>3, <1>5, <1>7, <3>4, MarkedIs DEF Travelling
      <4>4. u = m.talk => m.status = HereNow(u)
        <5> SUFFICES ASSUME u = m.talk PROVE m.status = HereNow(u)
          OBVIOUS
        <5>1. m \in RightOn(u)
          BY <3>1, <3>4 DEF AnswersOn
        <5> QED BY <4>1, <5>1 DEF RightOn, State, Decided
      <4> QED BY <3>2, <4>2, <4>3, <4>4
    <3>5. CASE m \in Syncs
      <4>1. m \notin Readings
        BY <1>4, <3>5, Kinds
      <4> QED BY <1>5, <1>6, <2>3, <3>2, <3>5, <4>1
    <3> QED BY <1>3, <3>3, <3>4, <3>5
  <2>4. Tells(channel', CommandsOn(u), AnswersOn(u), right')
    BY <2>1, <2>2
  <2> QED BY <2>1, <2>3, <2>4 DEF TalkTold, right
<1> QED BY <1>2, <1>8, <1>9, <1>10, <1>11, MachineCatch

\* An answer lost was about what the commands say too.
LEMMA LoseCatches ==
    ASSUME CatchInv, PinInv', Disconnect \/ Restart
    PROVE  CatchInv'
<1>1. /\ LoseAnswers /\ UNCHANGED <<hubVars, locks, historyVars, roomPins>>
      /\ \/ UNCHANGED roomVars
         \/ sessionStates' = <<>> /\ remoteHolder' = NoOne /\ read' = FALSE /\ told' = FALSE
  BY DEF Disconnect, Restart, roomVars
<1>2. /\ channel' \in Seq(Messages) /\ \A i, j \in Answers' : i = j
      /\ \A commands, answers, right :
            /\ Tells(channel, commands, answers, right)
            /\ commands \cap (Decisions \cup Syncs \cup Readings) = {}
            /\ answers \subseteq Decisions \cup Syncs \cup Readings
            => /\ Tells(channel', commands, answers, right)
               /\ Silent(channel', commands) => Silent(channel, commands)
  <2>1. CASE MayAsk
    <3>1. channel' = channel
      BY <1>1, <2>1 DEF LoseAnswers
    <3> QED BY <3>1 DEF CatchInv, Travelling, Answers
  <2>2. CASE ~MayAsk
    <3>1. PICK k \in Answers : channel' = RemoveAt(channel, k)
      BY <1>1, <2>2 DEF LoseAnswers
    <3>2. channel' \in Seq(Messages) /\ Answers' = {}
      BY <3>1, AnswerLeaves DEF CatchInv
    <3>3. ASSUME NEW commands, NEW answers, NEW right,
                 Tells(channel, commands, answers, right),
                 commands \cap (Decisions \cup Syncs \cup Readings) = {},
                 answers \subseteq Decisions \cup Syncs \cup Readings
          PROVE  /\ Tells(channel', commands, answers, right)
                 /\ Silent(channel', commands) => Silent(channel, commands)
      BY <3>1, <3>3, LeavesTold DEF CatchInv
    <3> QED BY <3>2, <3>3
  <2> QED BY <2>1, <2>2
<1>3. Travelling'
  <2>1. <<>> \in Copies
    <3>1. <<>> \in [{} -> Statuses]
      OBVIOUS
    <3>2. {} \in SUBSET Talks
      OBVIOUS
    <3> QED BY <3>1, <3>2 DEF Copies
  <2> QED BY <1>1, <1>2, <2>1 DEF CatchInv, Travelling, hubVars, roomVars, Holders
<1>4. HoldTold'
  <2> DEFINE right == {Hold(Holder)}
  <2>1. Tells(channel, HoldCommands, {}, right) /\ Holder' = Holder
    BY <1>1 DEF CatchInv, HoldTold, Holder
  <2> HIDE DEF right
  <2>2. /\ Tells(channel', HoldCommands, {}, right)
        /\ Silent(channel', HoldCommands) => Silent(channel, HoldCommands)
    BY <1>2, <2>1, CommandsAreNoAnswers
  <2>3. told' /\ Silent(channel', HoldCommands) => remoteHolder' = Holder'
    BY <1>1, <2>1, <2>2 DEF CatchInv, HoldTold, roomVars
  <2> QED BY <2>1, <2>2, <2>3 DEF HoldTold, right, HoldCommands, Holders
<1>5. PinsTold'
  <2> DEFINE right == {Pins(pins), Synced(pins)}
  <2>1. Tells(channel, PinCommands, Syncs, right) /\ pins' = pins
    BY <1>1 DEF CatchInv, PinsTold, hubVars
  <2> HIDE DEF right
  <2>2. /\ Tells(channel', PinCommands, Syncs, right)
        /\ Silent(channel', PinCommands) => Silent(channel, PinCommands)
    BY <1>2, <2>1, CommandsAreNoAnswers
  <2>3. Silent(channel', PinCommands) => roomPins' = pins'
    BY <1>1, <2>1, <2>2 DEF CatchInv, PinsTold
  <2> QED BY <2>1, <2>2, <2>3 DEF PinsTold, right
<1>6. ASSUME ~strayed, NEW u \in Talks PROVE TalkTold(u)'
  <2> DEFINE right == RightOn(u)
  <2>1. /\ TalkTold(u) /\ Tells(channel, CommandsOn(u), AnswersOn(u), right)
        /\ HereNow(u)' = HereNow(u) /\ right' = right
    BY <1>1, <1>6 DEF CatchInv, LifecycleTold, TalkTold, HereNow, hubVars, RightOn
  <2> HIDE DEF right
  <2>2. /\ Tells(channel', CommandsOn(u), AnswersOn(u), right)
        /\ Silent(channel', CommandsOn(u)) => Silent(channel, CommandsOn(u))
    BY <1>2, <2>1, CommandsAreNoAnswers
  <2>3. read' /\ Silent(channel', CommandsOn(u)) => In(sessionStates', u) = HereNow(u)'
    BY <1>1, <2>1, <2>2 DEF TalkTold, roomVars
  <2>4. Tells(channel', CommandsOn(u), AnswersOn(u), right')
    BY <2>1, <2>2
  <2> QED BY <2>3, <2>4 DEF TalkTold, right
<1> QED BY <1>1, <1>3, <1>4, <1>5, <1>6, MachineCatch

LEMMA CatchInvInit == Init => CatchInv
<1> SUFFICES ASSUME Init PROVE CatchInv
  OBVIOUS
<1>1. /\ channel = <<>> /\ pins = <<>> /\ roomPins = <<>> /\ sessionStates = <<>>
      /\ states = <<>> /\ locks = <<>> /\ remoteHolder = NoOne
  BY DEF Init
<1>2. <<>> \in PinMaps /\ <<>> \in Copies
  <2>1. <<>> \in [{} -> Talks] /\ <<>> \in [{} -> Statuses]
    OBVIOUS
  <2>2. {} \in SUBSET Talks /\ {} \in SUBSET Rooms
    OBVIOUS
  <2> QED BY <2>1, <2>2 DEF PinMaps, Copies
<1>3. Travelling
  BY <1>1, <1>2 DEF Travelling, Answers, Holders
<1>4. Len(<<>>) = 0 /\ DOMAIN <<>> = {}
  OBVIOUS
<1>5. \A commands, answers, right : Tells(channel, commands, answers, right)
  BY <1>1, <1>4 DEF Tells, EndsRight
<1>6. Holder = NoOne /\ \A t : HereNow(t) = "scheduled" /\ In(sessionStates, t) = "scheduled"
  BY <1>1, <1>4 DEF Holder, HereNow, In
<1>7. HoldTold /\ PinsTold
  BY <1>1, <1>5, <1>6 DEF HoldTold, PinsTold
<1>8. LifecycleTold /\ LocksOfTabs
  BY <1>1, <1>4, <1>5, <1>6 DEF LifecycleTold, TalkTold, LocksOfTabs
<1> QED BY <1>3, <1>7, <1>8, PinInvInit DEF CatchInv

LEMMA CatchInvNext == CatchInv /\ [Next]_vars => CatchInv'
<1> SUFFICES ASSUME CatchInv, [Next]_vars PROVE CatchInv'
  OBVIOUS
<1>1. PinInv'
  BY PinInvNext DEF CatchInv
<1>2. ASSUME NEW t \in Talks, NEW action \in Actions,
             \/ ConsoleDecides(t, action)
             \/ RoomDecides(t, action)
             \/ \E tab \in Tabs, room \in Rooms : PhoneDecides(tab, room, t, action)
      PROVE  CatchInv'
  <2>1. RoomOf(t) \in Rooms
    BY ExportAssumption DEF CatchInv, PinInv, SlotsInv, RoomOf
  <2>2. PICK room \in Rooms, asked \in BOOLEAN :
           Decide(t, room, action, asked) /\ (asked => room = Here /\ MayAsk)
    BY <1>2, <2>1, RoomsAssumption DEF ConsoleDecides, RoomDecides, PhoneDecides
  <2> QED BY <1>1, <2>2, DecideCatches
<1>3. CASE \E room \in Rooms, asked \in BOOLEAN :
              Unpin(room, asked) \/ \E t \in Talks : Pin(room, t, asked)
  BY <1>1, <1>3, PinCatches
<1>4. CASE \E a, b \in Talks : Swap(a, b)
  BY <1>1, <1>4, SwapCatches
<1>5. CASE \E tab \in Tabs, room \in Rooms :
              \/ \E force \in BOOLEAN : TakeHold(tab, room, force)
              \/ Renew(tab, room)
              \/ Release(tab, room)
  BY <1>1, <1>5, LockCatches, RenewCatches
<1>6. CASE ResetSlots \/ Tick
  <2>1. UNCHANGED <<states, pins, locks, channel, roomVars>> /\ (strayed => strayed')
    <3>1. CASE ResetSlots
      <4>1. UNCHANGED <<states, pins, locks, channel, roomVars>>
        BY <3>1 DEF ResetSlots
      <4>2. strayed' = (strayed \/ \E t \in DOMAIN states : Export[t].room # states[t].room)
        BY <3>1 DEF ResetSlots
      <4> QED BY <4>1, <4>2
    <3>2. CASE Tick
      <4>1. UNCHANGED <<hubVars, locks, channel, roomVars, historyVars>>
        BY <3>2 DEF Tick
      <4>2. UNCHANGED <<states, pins, locks, channel, roomVars>>
        BY <4>1 DEF hubVars
      <4>3. strayed' = strayed
        BY <4>1 DEF historyVars
      <4> QED BY <4>2, <4>3
    <3> QED BY <1>6, <3>1, <3>2
  <2> QED BY <1>1, <2>1, OthersCatch
<1>7. CASE UNCHANGED vars
  <2>1. UNCHANGED <<states, pins, locks, channel, roomVars>> /\ (strayed => strayed')
    BY <1>7 DEF vars, hubVars, historyVars
  <2> QED BY <1>1, <2>1, OthersCatch
<1> QED BY <1>1, <1>2, <1>3, <1>4, <1>5, <1>6, <1>7, AutoEndCatches, SweepCatches, ApplyCatches,
           ArriveCatches, AskCatches, LoseCatches DEF Next

\* Whoever decided, in whatever order commands and answers were read and however
\* many were lost, the room's copy of the lifecycle ends up the hub's.
THEOREM LifecycleIsCaughtUp == Spec => []LifecycleCatchesUp
<1>1. ASSUME CatchInv PROVE LifecycleCatchesUp
  <2> SUFFICES ASSUME channel = <<>>, read, ~strayed PROVE sessionStates = StatesIn(Here)
    BY DEF LifecycleCatchesUp
  <2>1. \A W : Silent(channel, W)
    BY DEF Silent
  <2>2. \A t \in Talks : In(sessionStates, t) = HereNow(t)
    BY <1>1, <2>1 DEF CatchInv, LifecycleTold, TalkTold
  <2>3. /\ sessionStates \in Copies /\ StatesIn(Here) \in Copies
        /\ \A t \in Talks : In(sessionStates, t) = In(StatesIn(Here), t)
    BY <1>1, <2>2, StatesInIs DEF CatchInv, PinInv, Travelling
  <2> DEFINE here == StatesIn(Here)
  <2>4. /\ sessionStates = [t \in DOMAIN sessionStates |-> sessionStates[t]]
        /\ here = [t \in DOMAIN here |-> here[t]]
        /\ DOMAIN sessionStates \subseteq Talks /\ DOMAIN here \subseteq Talks
        /\ \A t \in DOMAIN sessionStates : sessionStates[t] \in Statuses
        /\ \A t \in DOMAIN here : here[t] \in Statuses
    BY <2>3, CopiesAre
  <2> HIDE DEF here
  <2>5. \A t \in Talks : /\ t \in DOMAIN sessionStates <=> t \in DOMAIN here
                         /\ t \in DOMAIN here => sessionStates[t] = here[t]
    BY <2>3, <2>4 DEF In, Statuses, here
  <2>6. DOMAIN sessionStates = DOMAIN here
    BY <2>4, <2>5
  <2>7. sessionStates = here
    BY <2>4, <2>5, <2>6
  <2> QED BY <2>7 DEF here
<1> QED BY <1>1, CatchInvInit, CatchInvNext, PTL DEF Spec

\* The room knows the forced talks, restarted or not.
THEOREM PinsAreCaughtUp == Spec => []PinsCatchUp
<1>1. ASSUME CatchInv PROVE PinsCatchUp
  <2>1. channel = <<>> => Silent(channel, PinCommands)
    BY DEF Silent
  <2> QED BY <1>1, <2>1 DEF CatchInv, PinsTold, PinsCatchUp
<1> QED BY <1>1, CatchInvInit, CatchInvNext, PTL DEF Spec

\* A room that was told of a holder shows who holds it, whatever lapses, is taken
\* by force, released or swept.
THEOREM BadgeIsTheLocks == Spec => []BadgeFollowsTheLock
<1>1. ASSUME CatchInv PROVE BadgeFollowsTheLock
  <2>1. channel = <<>> => Silent(channel, HoldCommands)
    BY DEF Silent
  <2> QED BY <1>1, <2>1 DEF CatchInv, HoldTold, BadgeFollowsTheLock, Holder
<1> QED BY <1>1, CatchInvInit, CatchInvNext, PTL DEF Spec
-----------------------------------------------------------------------------
(***************************************************************************)
(* Types.                                                                  *)
(***************************************************************************)

Row == [tab : Tabs, since : 0..now, seen : 0..now]
Rest ==
    /\ now \in 0..MaxTime
    /\ Table(locks, Rooms, Row)
    /\ gestures \in 0..MaxGestures
    /\ listed \in [Rooms -> SUBSET Talks]
    /\ {strayed, read, told} \subseteq BOOLEAN

LEMMA RestNow == Rest => now \in Nat
BY BoundsAssumption DEF Rest

\* Steps that leave the lock and the clock alone.
LEMMA RestElsewhere ==
    ASSUME Rest, UNCHANGED <<now, locks>>,
           gestures' = gestures \/ Gesture,
           listed' \in [Rooms -> SUBSET Talks],
           {strayed', read', told'} \subseteq BOOLEAN
    PROVE  Rest'
<1>1. gestures' \in 0..MaxGestures
  BY BoundsAssumption DEF Rest, Gesture
<1> QED BY <1>1 DEF Rest, Table, Row

LEMMA RestNext ==
    ASSUME Rest, [Next]_vars
    PROVE  Rest'
<1>1. ASSUME NEW t, NEW room, NEW action, NEW asked, Decide(t, room, action, asked)
      PROVE  Rest'
  <2>1. /\ UNCHANGED <<now, locks, listed, read, told>> /\ Gesture
        /\ strayed' = (strayed \/ RoomOf(t) # room)
    BY <1>1 DEF Decide, roomVars
  <2> QED BY <2>1, RestElsewhere DEF Rest
<1>2. CASE \E t \in Talks, action \in Actions :
              \/ ConsoleDecides(t, action)
              \/ RoomDecides(t, action)
              \/ \E tab \in Tabs, room \in Rooms : PhoneDecides(tab, room, t, action)
  BY <1>1, <1>2 DEF ConsoleDecides, RoomDecides, PhoneDecides
<1>3. CASE AutoEnd
  <2>1. UNCHANGED <<now, locks, gestures, listed, strayed, read, told>>
    BY <1>3 DEF AutoEnd, roomVars, historyVars
  <2> QED BY <2>1, RestElsewhere DEF Rest
<1>4. CASE \E room \in Rooms, asked \in BOOLEAN :
              Unpin(room, asked) \/ \E t \in Talks : Pin(room, t, asked)
  <2>1. UNCHANGED <<now, locks, listed, strayed, read, told>> /\ Gesture
    BY <1>4 DEF Unpin, Pin, roomVars, historyVars
  <2> QED BY <2>1, RestElsewhere DEF Rest
<1>5. CASE \E a, b \in Talks : Swap(a, b)
  <2>1. /\ UNCHANGED <<now, locks, strayed, read, told>> /\ Gesture
        /\ listed' = [room \in Rooms |-> listed[room] \cup {t \in Talks : RoomOf(t)' = room}]
    BY <1>5 DEF Swap, roomVars
  <2>2. listed' \in [Rooms -> SUBSET Talks]
    BY <2>1 DEF Rest
  <2> QED BY <2>1, <2>2, RestElsewhere DEF Rest
<1>6. CASE ResetSlots
  <2>1. /\ UNCHANGED <<now, locks, listed, read, told>> /\ Gesture
        /\ strayed' = (strayed \/ \E t \in DOMAIN states : Export[t].room # states[t].room)
    BY <1>6 DEF ResetSlots, roomVars
  <2> QED BY <2>1, RestElsewhere DEF Rest
<1>7. CASE \E tab \in Tabs, room \in Rooms :
              \/ \E force \in BOOLEAN : TakeHold(tab, room, force)
              \/ Renew(tab, room)
              \/ Release(tab, room)
  <2>1. PICK tab \in Tabs, room \in Rooms :
              \/ \E force \in BOOLEAN : TakeHold(tab, room, force)
              \/ Renew(tab, room)
              \/ Release(tab, room)
    BY <1>7
  <2>2. UNCHANGED <<now, listed, strayed, read, told>> /\ (gestures' = gestures \/ Gesture)
    BY <2>1 DEF TakeHold, Renew, Release, roomVars, historyVars
  <2>3. \/ \E row \in Row : locks' = With(locks, room, row)
        \/ locks' = Without(locks, {room})
    <3> DEFINE taken == [tab |-> tab, seen |-> now,
                         since |-> IF Holds(tab, room) THEN locks[room].since ELSE now]
               renewed == [tab |-> tab, seen |-> now, since |-> locks[room].since]
    <3>1. now \in 0..now
      BY RestNow
    <3>2. Holds(tab, room) => locks[room].since \in 0..now
      BY DEF Holds, Live, Rest, Table, Row
    <3>3. taken \in Row /\ (Holds(tab, room) => renewed \in Row)
      BY <3>1, <3>2 DEF Row
    <3> HIDE DEF taken, renewed
    <3>4. \/ locks' = With(locks, room, taken)
          \/ Holds(tab, room) /\ locks' = With(locks, room, renewed)
          \/ locks' = Without(locks, {room})
      BY <2>1 DEF TakeHold, Renew, Release, taken, renewed
    <3> QED BY <3>3, <3>4
  <2>4. Table(locks', Rooms, Row)
    <3>1. CASE \E row \in Row : locks' = With(locks, room, row)
      BY <3>1 DEF Rest, Table, With
    <3>2. CASE locks' = Without(locks, {room})
      BY <3>2 DEF Rest, Table, Without
    <3> QED BY <2>3, <3>1, <3>2
  <2>5. gestures' \in 0..MaxGestures
    BY <2>2, BoundsAssumption DEF Rest, Gesture
  <2>6. Row' = Row
    BY <2>2 DEF Row
  <2> QED BY <2>2, <2>4, <2>5, <2>6 DEF Rest, Table
<1>8. CASE SweepLocks
  <2> DEFINE expired == {room \in DOMAIN locks : ~Live(room)}
  <2>1. UNCHANGED <<now, gestures, listed, strayed, read, told>> /\ locks' = Without(locks, expired)
    BY <1>8 DEF SweepLocks, roomVars, historyVars
  <2> HIDE DEF expired
  <2>2. Table(locks', Rooms, Row) /\ Row' = Row
    BY <2>1 DEF Rest, Table, Without, Row
  <2> QED BY <2>1, <2>2 DEF Rest, Table
<1>9. CASE Tick
  <2>1. /\ now < MaxTime /\ now' = now + 1
        /\ UNCHANGED <<locks, gestures, listed, strayed, read, told>>
    BY <1>9 DEF Tick, roomVars, historyVars
  <2>2. Row \subseteq Row' /\ now' \in 0..MaxTime
    BY <2>1, RestNow, BoundsAssumption DEF Row
  <2> QED BY <2>1, <2>2 DEF Rest, Table
<1>10. CASE Apply \/ AskSync \/ AskStates \/ Disconnect
  <2>1. UNCHANGED <<now, locks, gestures, listed, strayed, read>>
    BY <1>10 DEF Apply, AskSync, AskStates, Disconnect, roomVars, historyVars
  <2>2. told' \in BOOLEAN
    BY <1>10 DEF Rest, Apply, AskSync, AskStates, Disconnect, roomVars
  <2> QED BY <2>1, <2>2, RestElsewhere DEF Rest
<1>11. CASE Arrive
  <2>1. UNCHANGED <<now, locks, gestures, listed, strayed, told>> /\ read' \in BOOLEAN
    BY <1>11 DEF Rest, Arrive, historyVars
  <2> QED BY <2>1, RestElsewhere DEF Rest
<1>12. CASE Restart
  <2>1. UNCHANGED <<now, locks, gestures, listed, strayed>> /\ read' = FALSE /\ told' = FALSE
    BY <1>12 DEF Restart, historyVars
  <2> QED BY <2>1, RestElsewhere DEF Rest
<1>13. CASE UNCHANGED vars
  BY <1>13 DEF vars, roomVars, historyVars, Rest, Table, Row
<1> QED BY <1>2, <1>3, <1>4, <1>5, <1>6, <1>7, <1>8, <1>9, <1>10, <1>11, <1>12, <1>13 DEF Next

\* The tables of the hub and the copies of the room are of talks, rooms and tabs,
\* and the machine has one call out at most.
THEOREM DayTypes == Spec => []TypeOK
<1>1. CatchInv /\ Rest => TypeOK
  <2> SUFFICES ASSUME CatchInv, Rest PROVE TypeOK
    OBVIOUS
  <2>1. Table(states, Talks, [status : Statuses, room : Rooms]) /\ Table(pins, Rooms, Talks)
    BY DEF CatchInv, PinInv
  <2>2. Table(slots, Talks, Talks)
    BY DEF CatchInv, PinInv, SlotsInv, SlotOf, Table
  <2>3. Table(sessionStates, Talks, Statuses)
    BY CopiesAre DEF CatchInv, Travelling, Table
  <2>4. Table(roomPins, Rooms, Talks)
    BY PinMapsAre DEF CatchInv, Travelling, Table
  <2> QED BY <2>1, <2>2, <2>3, <2>4 DEF TypeOK, CatchInv, Travelling, Holders, Rest, Row
<1>2. Init => Rest
  <2> SUFFICES ASSUME Init PROVE Rest
    OBVIOUS
  <2>1. locks = <<>> /\ DOMAIN <<>> = {}
    BY DEF Init
  <2>2. Table(locks, Rooms, Row)
    BY <2>1 DEF Table
  <2>3. now \in 0..MaxTime /\ gestures \in 0..MaxGestures
    BY BoundsAssumption DEF Init
  <2>4. listed \in [Rooms -> SUBSET Talks] /\ {strayed, read, told} \subseteq BOOLEAN
    BY DEF Init
  <2> QED BY <2>2, <2>3, <2>4 DEF Rest
<1>3. Rest /\ [Next]_vars => Rest'
  BY RestNext
<1> QED BY <1>1, <1>2, <1>3, CatchInvInit, CatchInvNext, PTL DEF Spec
=============================================================================
