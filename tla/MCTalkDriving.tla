---------------------------- MODULE MCTalkDriving ----------------------------
(***************************************************************************)
(* Small instances of TalkDriving for TLC.  A unit of time is five         *)
(* minutes.                                                                *)
(***************************************************************************)
EXTENDS TalkDriving

Given(id, room, kind, start, end, duration, title) ==
    [id |-> <<id>>, room |-> room, kind |-> kind, start |-> start, end |-> end,
     duration |-> duration, title |-> title]

\* Two talks edge to edge, the second given by its duration, a lunch held by the
\* other room, and a last talk closed by nothing but the next slot.
EdgeToEdge ==
    << Given("a1", "a", "talk", 1, 3, NoTime, "A1"),
       Given("a2", "a", "talk", 3, NoTime, 2, "A2"),
       Given("lunch", "b", "break", 5, 7, NoTime, "Lunch"),
       Given("a3", "a", "talk", 8, NoTime, NoTime, "A3") >>

\* A gap between the talks, the same coffee held by two other rooms, a break
\* that would cover a talk, and a slot of the room that is a break.
WithGaps ==
    << Given("a1", "a", "talk", 4, NoTime, NoTime, "A1"),
       Given("k", "a", "break", 6, 7, NoTime, "Keynote"),
       Given("c1", "b", "break", 7, 8, NoTime, "Coffee"),
       Given("c2", "c", "break", 7, 8, NoTime, "Coffee"),
       Given("c3", "c", "break", 8, NoTime, 2, "Drinks"),
       Given("a2", "a", "talk", 9, 10, NoTime, "A2") >>

TwoDays == {EdgeToEdge, WithGaps}
ASSUME TwoDaysAreClear == \A program \in TwoDays : Clear(program)
=============================================================================
