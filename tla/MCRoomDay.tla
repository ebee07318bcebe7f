----------------------------- MODULE MCRoomDay -----------------------------
(***************************************************************************)
(* A small instance of RoomDay for TLC: two rooms, the first with two      *)
(* talks, and two operators, the first with two tabs.                      *)
(***************************************************************************)
EXTENDS RoomDay, TLC

CONSTANTS hall, studio, opening, panel, workshop, phone, tablet, laptop, ann, bob

Slots ==
    [t \in {opening, panel, workshop} |->
        [room |-> IF t = workshop THEN studio ELSE hall,
         end |-> IF t = workshop THEN 2 ELSE 1]]
Operators == [tab \in {phone, tablet, laptop} |-> IF tab = laptop THEN bob ELSE ann]

\* The two talks of the hall are alike, and so are the tabs of one operator.
Alike == Permutations({opening, panel}) \cup Permutations({phone, tablet})
=============================================================================
