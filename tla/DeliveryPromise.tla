--------------------------- MODULE DeliveryPromise ---------------------------
(***************************************************************************)
(* What a room promises of the events it sends up, with no queue, no pump  *)
(* and no network in it: "no control-room action blocks on the network,    *)
(* and nothing important is lost when it goes down" (the header of class   *)
(* Outbox, outbox.ts:51).                                                  *)
(*                                                                         *)
(* Event number s is the s-th one emitted.  An event the contract calls    *)
(* required may leave the room only once the hub holds it, or once the     *)
(* room's journal names it; a best-effort one may leave at any time.       *)
(***************************************************************************)
EXTENDS Naturals, Sequences

VARIABLES
    emitted,    \* the delivery policy of each event, in emission order
    kept,       \* the events the room still keeps for sending
    held,       \* the events the hub holds
    told        \* the events the room's journal names as refused or lost

vars == <<emitted, kept, held, told>>

Policy == {"required", "best-effort"}

Emitted == 1..Len(emitted)

Required == {s \in Emitted : emitted[s] = "required"}

Init ==
    /\ emitted = <<>>
    /\ kept = {}
    /\ held = {}
    /\ told = {}

\* A new event is kept; it may push best-effort ones out, itself included.
Emit(policy) ==
    /\ emitted' = Append(emitted, policy)
    /\ \E dropped \in SUBSET Emitted' :
          /\ dropped \cap Required' = {}
          /\ kept' = (kept \cup {Len(emitted) + 1}) \ dropped
    /\ UNCHANGED <<held, told>>

\* The hub takes some of what was ever emitted, and never gives it back.
Hold ==
    /\ \E taken \in SUBSET Emitted : held' = held \cup taken
    /\ UNCHANGED <<emitted, kept, told>>

\* The room lets events go: a required one only if somebody else has it.
Release ==
    /\ \E named \in SUBSET Emitted : told' = told \cup named
    /\ \E dropped \in SUBSET kept :
          /\ dropped \cap Required \subseteq held \cup told'
          /\ kept' = kept \ dropped
    /\ UNCHANGED <<emitted, held>>

Next == (\E policy \in Policy : Emit(policy)) \/ Hold \/ Release

Spec == Init /\ [][Next]_vars
=============================================================================
