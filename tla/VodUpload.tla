------------------------------ MODULE VodUpload ------------------------------
(***************************************************************************)
(* A rush on its way to the storage: the room's queue and its pass         *)
(* (upload.ts), the hub's register (vod.ts) and the storage itself.        *)
(*                                                                         *)
(* The room sends one file at a time, part by part, on addresses the hub   *)
(* signs.  The hub's begin, complete, abort and housekeeping each wait for *)
(* the storage between the row they read and the row they write, and go on *)
(* when the room that called has given up.  A rush is not rewritten, but   *)
(* the console changes the size of the parts: a size is named here by the  *)
(* number of parts it cuts a rush into.  The sidecar is a step of its rush.*)
(***************************************************************************)
EXTENDS Naturals, Sequences, FiniteSets

CONSTANTS
    Files,          \* the rushes on the room's disk, none being written
    Cuts,           \* the part sizes: a rush of one part is sent directly
    PartBatch,      \* PART_BATCH (5)
    MaxMultiparts,  \* bound of the model: multiparts ever opened
    MaxCalls        \* bound of the model: calls of the hub waiting at once

ASSUME CutsAssumption == Cuts \subseteq Nat \ {0} /\ Cuts # {} /\ IsFiniteSet(Cuts)
ASSUME BoundsAssumption ==
    PartBatch \in Nat \ {0} /\ MaxMultiparts \in Nat /\ MaxCalls \in Nat

VARIABLES
    rows,        \* televersement: the room's row of each file
    cancelled,   \* the files the room gave up, in memory
    job,         \* the room's pass in flight
    partSize,    \* the hub's policy: how a new plan cuts a rush
    hub,         \* vod_upload: the hub's row of each file
    calls,       \* the hub's calls waiting for the storage
    mps,         \* every multipart ever opened at the storage
    objects,     \* what the storage has under each file's key
    overtaken    \* history: a call the room gave up changed the plan it follows

roomVars == <<rows, cancelled, job>>
storageVars == <<mps, objects>>
vars == <<roomVars, partSize, hub, calls, storageVars, overtaken>>

NoRow == [state |-> "none", known |-> FALSE]
NoPlan == [state |-> "none", cut |-> 0, mp |-> 0, parts |-> {}]
Idle == [phase |-> "idle"]
Busy == job # Idle
Open(mp) == mp \in DOMAIN mps /\ mps[mp].state = "open"
Claimed == {hub[f].mp : f \in {g \in Files : hub[g].state # "termine"}}

Init ==
    /\ rows = [f \in Files |-> NoRow]
    /\ cancelled = {}
    /\ job = Idle
    /\ partSize \in Cuts
    /\ hub = [f \in Files |-> NoPlan]
    /\ calls = {} /\ mps = <<>>
    /\ objects = [f \in Files |-> "none"]
    /\ overtaken = FALSE
-----------------------------------------------------------------------------
(***************************************************************************)
(* The room's queue.                                                       *)
(***************************************************************************)

Request(f) ==
    /\ rows[f].state # "termine"
    /\ cancelled' = cancelled \ {f}
    /\ rows' = [rows EXCEPT ![f].state = "attente"]
    /\ UNCHANGED <<job, hub, calls, storageVars, partSize, overtaken>>

\* A call of the hub: what it read of the row, and whether the room waits for it.
Wait(call) ==
    /\ Cardinality(calls) < MaxCalls
    /\ calls' = calls \cup {call}
CallFor(f, op) == [op |-> op, file |-> f, stage |-> "ask", mp |-> hub[f].mp, cut |-> 0,
                   first |-> FALSE, listed |-> {}, heard |-> op # "abort"]

\* The row switches straight away; the hub is asked once it has given a plan.
Cancel(f) ==
    /\ rows[f].state \notin {"none", "termine"}
    /\ cancelled' = cancelled \cup {f}
    /\ rows' = [rows EXCEPT ![f].state = "abandonne"]
    /\ \/ rows[f].known /\ hub[f].state # "none" /\ Wait(CallFor(f, "abort"))
       \/ UNCHANGED calls
    /\ UNCHANGED <<job, hub, storageVars, partSize, overtaken>>

\* A reset of the recordings.
ForgetAll ==
    /\ rows' = [f \in Files |-> NoRow]
    /\ UNCHANGED <<cancelled, job, hub, calls, storageVars, partSize, overtaken>>

\* elect: a row that is due, the manual ones first, else a file nobody queued.
\* When a row is due, by its delay and the regulator's verdict, is left open here,
\* and the order with it.
Elected(f) == rows[f].state \in {"none", "attente", "en-cours"}

\* The hub is asked for a plan.
Start(f) ==
    /\ ~Busy /\ Elected(f)
    /\ job' = [phase |-> "begin", file |-> f]
    /\ Wait([CallFor(f, "begin") EXCEPT !.stage = "new", !.mp = 0])
    /\ UNCHANGED <<rows, cancelled, hub, storageVars, partSize, overtaken>>
-----------------------------------------------------------------------------
(***************************************************************************)
(* The room's pass.                                                        *)
(***************************************************************************)

\* fail writes the row whatever it has become; echoue is retried like attente.
Failed ==
    LET f == job.file
    IN  /\ job' = Idle
        /\ rows' = IF rows[f].state = "none" THEN rows
                   ELSE [rows EXCEPT ![f].state = "attente"]
Unheard == {[call EXCEPT !.heard = FALSE] : call \in {c \in calls : c.stage # "new"}}

\* A step throws, or its answer is lost: a call the hub has read goes on.
Fail ==
    /\ Busy
    /\ Failed
    /\ calls' = Unheard
    /\ UNCHANGED <<cancelled, hub, storageVars, partSize, overtaken>>

\* The plan is in: what the hub has not received is left to send.
TakePlan ==
    /\ job.phase = "planned"
    /\ rows' = [rows EXCEPT ![job.file] = [state |-> "en-cours", known |-> TRUE]]
    /\ job' = [phase |-> IF job.plan.mp = 0 THEN "put" ELSE "send", file |-> job.file,
               todo |-> IF job.plan.mp = 0 THEN {} ELSE (1..job.plan.cut) \ job.plan.parts,
               signed |-> {}]
    /\ UNCHANGED <<cancelled, hub, calls, storageVars, partSize, overtaken>>

\* Between two parts the pass looks whether it was given up.
Stop ==
    /\ job.phase = "send" /\ job.todo # {} /\ job.file \in cancelled
    /\ job' = Idle
    /\ UNCHANGED <<rows, cancelled, hub, calls, storageVars, partSize, overtaken>>

\* The signed address the pass has come to.
At == CHOOSE a \in job.signed : \A b \in job.signed : a.n <= b.n
FirstOf(parts, n) == {p \in parts : Cardinality({q \in parts : q < p}) < n}

\* The next batch is signed, for the multipart of the row as it stands.
Sign ==
    /\ job.phase = "send" /\ job.todo # {} /\ job.signed = {}
    /\ job.file \notin cancelled
    /\ hub[job.file].mp # 0
    /\ job' = [job EXCEPT !.signed = {[n |-> n, mp |-> hub[job.file].mp] :
                                       n \in FirstOf(job.todo, PartBatch)}]
    /\ UNCHANGED <<rows, cancelled, hub, calls, storageVars, partSize, overtaken>>

\* A part reaches the storage; its answer may not come back.
Put ==
    /\ job.phase = "send" /\ job.signed # {} /\ job.file \notin cancelled
    /\ Open(At.mp)
    /\ mps' = [mps EXCEPT ![At.mp].got = @ \cup {At.n}]
    /\ \/ /\ job' = [job EXCEPT !.phase = "sent"]
          /\ UNCHANGED rows
       \/ Failed
    /\ UNCHANGED <<cancelled, hub, calls, objects, partSize, overtaken>>

\* progress: the hub notes the part, on the row as it stands.
Progress ==
    LET f == job.file
    IN  /\ job.phase = "sent"
        /\ hub[f].state # "none"
        /\ hub' = [hub EXCEPT ![f].state = "en-cours", ![f].parts = @ \cup {At.n}]
        /\ \/ /\ job' = [job EXCEPT !.phase = "send", !.todo = @ \ {At.n}, !.signed = @ \ {At}]
              /\ UNCHANGED rows
           \/ Failed
        /\ UNCHANGED <<cancelled, calls, storageVars, partSize, overtaken>>

\* A small file goes in one piece.
PutWhole ==
    /\ job.phase = "put"
    /\ objects' = [objects EXCEPT ![job.file] = "whole"]
    /\ \/ /\ job' = [job EXCEPT !.phase = "send"]
          /\ UNCHANGED rows
       \/ Failed
    /\ UNCHANGED <<cancelled, hub, calls, mps, partSize, overtaken>>

\* Every part is sent: the hub is asked to assemble them.
AskComplete ==
    LET f == job.file
    IN  /\ job.phase = "send" /\ job.todo = {}
        /\ hub[f].state # "none"
        /\ job' = [job EXCEPT !.phase = "complete"]
        /\ Wait([CallFor(f, "complete") EXCEPT
                   !.stage = IF hub[f].mp = 0 THEN "done" ELSE "ask", !.listed = hub[f].parts])
        /\ UNCHANGED <<rows, cancelled, hub, storageVars, partSize, overtaken>>

\* finish, then the sidecar if the file was not given up.
Finish ==
    LET f == job.file
    IN  /\ job.phase = "completed"
        /\ rows' = IF rows[f].state = "none" THEN rows
                   ELSE [rows EXCEPT ![f].state = "termine"]
        /\ job' = IF f \in cancelled THEN Idle ELSE [phase |-> "sidecar", file |-> f]
        /\ UNCHANGED <<cancelled, hub, calls, storageVars, partSize, overtaken>>

\* The sidecar is through, or there is none; otherwise the rush itself fails.
EndPass ==
    /\ job.phase = "sidecar"
    /\ job' = Idle
    /\ UNCHANGED <<rows, cancelled, hub, calls, storageVars, partSize, overtaken>>

RestartRoom ==
    /\ job' = Idle
    /\ cancelled' = {}
    /\ calls' = Unheard
    /\ UNCHANGED <<rows, hub, storageVars, partSize, overtaken>>
-----------------------------------------------------------------------------
(***************************************************************************)
(* The hub.                                                                *)
(***************************************************************************)

\* An answer reaches the room if it still waits for it.
Answer(call, answered) ==
    job' = IF call.heard /\ job.phase = call.op THEN answered ELSE job
Planned(f, plan) == [phase |-> "planned", file |-> f, plan |-> plan]

\* A call nobody waits for writes a row whose plan the room is following.
Overtakes(call) == ~call.heard /\ Busy /\ job.file = call.file /\ job.phase # "begin"

\* The plan of a finished file, or of a multipart the row says is under way, is
\* given back as it stands.
Resumable(f) == hub[f].state = "en-cours" /\ hub[f].mp # 0 /\ hub[f].cut = partSize
BeginAgain(call) ==
    /\ call.op = "begin" /\ call.stage = "new"
    /\ hub[call.file].state = "termine" \/ Resumable(call.file)
    /\ Answer(call, Planned(call.file, hub[call.file]))
    /\ calls' = calls \ {call}
    /\ UNCHANGED <<rows, cancelled, hub, storageVars, partSize, overtaken>>

\* Anything else gets a new plan: the old multipart is aborted first, and one is
\* opened for a rush of several parts.
Opening(cut) == IF cut = 1 THEN "done" ELSE "create"
BeginAnew(call) ==
    LET f == call.file
    IN  /\ call.op = "begin" /\ call.stage = "new"
        /\ hub[f].state # "termine" /\ ~Resumable(f)
        /\ calls' = (calls \ {call}) \cup
             {[call EXCEPT !.first = hub[f].state = "none", !.mp = hub[f].mp,
                           !.cut = partSize,
                           !.stage = IF hub[f].mp # 0 THEN "abort" ELSE Opening(partSize)]}
        /\ UNCHANGED <<roomVars, hub, storageVars, partSize, overtaken>>

\* begin's write.  A first begin that finds a row at the end of it is refused by
\* the table; the others write the row whatever it has become.
NewPlan_KeepsTheParts(call) ==    \* mutant: partsJson is not reset
    [state |-> "en-cours", cut |-> call.cut, mp |-> call.mp, parts |-> hub[call.file].parts]
NewPlan(call) == [state |-> "en-cours", cut |-> call.cut, mp |-> call.mp, parts |-> {}]
ReturnBegin(call) ==
    LET f == call.file
        refused == call.first /\ hub[f].state # "none"
    IN  /\ call.op = "begin" /\ call.stage = "done"
        /\ calls' = calls \ {call}
        /\ IF refused
           THEN UNCHANGED <<hub, job, overtaken>>
           ELSE /\ hub' = [hub EXCEPT ![f] = NewPlan(call)]
                /\ Answer(call, Planned(f, NewPlan(call)))
                /\ overtaken' = (overtaken \/ Overtakes(call))
        /\ UNCHANGED <<rows, cancelled, storageVars, partSize>>

ReturnComplete_Anyway(call) ==    \* mutant: the refusal of the storage is not looked at
    LET f == call.file
    IN  /\ call.op = "complete" /\ call.stage \in {"done", "gone", "failed"}
        /\ calls' = calls \ {call}
        /\ hub' = [hub EXCEPT ![f].state = "termine"]
        /\ Answer(call, [phase |-> "completed", file |-> f])
        /\ UNCHANGED <<rows, cancelled, storageVars, partSize, overtaken>>

\* complete's write: finished, or to be begun again when the multipart is gone.
ReturnComplete(call) ==
    LET f == call.file
    IN  /\ call.op = "complete" /\ call.stage \in {"done", "gone", "failed"}
        /\ calls' = calls \ {call}
        /\ hub' = CASE call.stage = "done" -> [hub EXCEPT ![f].state = "termine"]
                    [] call.stage = "gone" -> [hub EXCEPT ![f].state = "abandonne",
                                                          ![f].mp = 0, ![f].parts = {}]
                    [] call.stage = "failed" -> hub
        /\ IF call.stage = "done"
           THEN Answer(call, [phase |-> "completed", file |-> f])
           ELSE UNCHANGED job
        /\ overtaken' = (overtaken \/ (call.stage = "gone" /\ Overtakes(call)))
        /\ UNCHANGED <<rows, cancelled, storageVars, partSize>>

ReturnAbort(call) ==
    /\ call.op = "abort" /\ call.stage = "done"
    /\ calls' = calls \ {call}
    /\ hub' = [hub EXCEPT ![call.file].state = "abandonne"]
    /\ UNCHANGED <<roomVars, storageVars, partSize, overtaken>>

\* The console changes the size of the parts, for the plans to come.
SetPartSize(cut) ==
    /\ partSize' = cut
    /\ UNCHANGED <<roomVars, hub, calls, storageVars, overtaken>>

\* housekeepingPass: an unfinished upload silent for long enough, be it that a
\* part of it is slow, is aborted as the room would.
Housekeeping(f) ==
    /\ hub[f].state = "en-cours"
    /\ Wait(CallFor(f, "abort"))
    /\ UNCHANGED <<roomVars, hub, storageVars, partSize, overtaken>>

\* The hub starts again: its calls are lost, and of the multiparts no unfinished
\* row names it aborts those a day old.
RestartHub ==
    /\ calls' = {}
    /\ \E old \in SUBSET {mp \in DOMAIN mps : Open(mp) /\ mp \notin Claimed} :
          mps' = [mp \in DOMAIN mps |->
                    IF mp \in old THEN [mps[mp] EXCEPT !.state = "aborted"] ELSE mps[mp]]
    /\ UNCHANGED <<roomVars, hub, objects, partSize, overtaken>>
-----------------------------------------------------------------------------
(***************************************************************************)
(* The storage.                                                            *)
(***************************************************************************)

On(call, stage, mp) ==
    calls' = (calls \ {call}) \cup {[call EXCEPT !.stage = stage, !.mp = mp, !.listed = {}]}

\* An abort that fails is logged and passed over.
Aborts(call) ==
    LET mp == call.mp
    IN  /\ call.op \in {"begin", "abort"} /\ call.stage \in {"abort", "ask"}
        /\ On(call, IF call.op = "begin" THEN Opening(call.cut) ELSE "done", 0)
        /\ \/ Open(mp) /\ mps' = [mps EXCEPT ![mp].state = "aborted"]
           \/ UNCHANGED mps
        /\ UNCHANGED <<roomVars, hub, objects, partSize, overtaken>>

Opens(call) ==
    /\ call.op = "begin" /\ call.stage = "create"
    /\ \/ /\ Len(mps) < MaxMultiparts
          /\ mps' = Append(mps, [file |-> call.file, cut |-> call.cut, got |-> {}, state |-> "open"])
          /\ On(call, "done", Len(mps'))
       \/ calls' = calls \ {call} /\ UNCHANGED mps
    /\ UNCHANGED <<roomVars, hub, objects, partSize, overtaken>>

\* The parts listed are put together: fewer than there are make a shorter file,
\* one the multipart did not receive is refused.
Assembles(call) ==
    LET listed == call.listed
    IN  /\ call.op = "complete" /\ call.stage = "ask"
        /\ \/ /\ Open(call.mp) /\ listed # {} /\ listed \subseteq mps[call.mp].got
              /\ mps' = [mps EXCEPT ![call.mp].state = "assembled"]
              /\ objects' = [objects EXCEPT ![call.file] =
                               IF listed = 1..mps[call.mp].cut THEN "whole" ELSE "cut"]
              /\ On(call, "done", 0)
           \/ ~Open(call.mp) /\ On(call, "gone", 0) /\ UNCHANGED storageVars
           \/ On(call, "failed", 0) /\ UNCHANGED storageVars
        /\ UNCHANGED <<roomVars, hub, partSize, overtaken>>
-----------------------------------------------------------------------------
Room ==
    \/ \E f \in Files : Request(f) \/ Cancel(f) \/ Start(f)
    \/ ForgetAll
    \/ TakePlan \/ Stop \/ Sign \/ Progress \/ PutWhole \/ AskComplete \/ Finish
    \/ Put
    \/ EndPass \/ Fail \/ RestartRoom

Hub ==
    \/ \E call \in calls : \/ BeginAgain(call) \/ BeginAnew(call) \/ ReturnBegin(call)
                           \/ ReturnComplete(call) \/ ReturnAbort(call)
    \/ \E f \in Files : Housekeeping(f)
    \/ \E cut \in Cuts : SetPartSize(cut)
    \/ RestartHub

Storage == \E call \in calls : Aborts(call) \/ Opens(call) \/ Assembles(call)

Next == Room \/ Hub \/ Storage

Spec == Init /\ [][Next]_vars
-----------------------------------------------------------------------------
(***************************************************************************)
(* Properties.                                                             *)
(***************************************************************************)

Numbers == UNION {1..cut : cut \in Cuts}
RoomRow == [state : {"none", "attente", "en-cours", "termine", "abandonne"},
            known : BOOLEAN]
Plan == [state : {"none", "en-cours", "termine", "abandonne"},
         cut : Cuts \cup {0}, mp : Nat, parts : SUBSET Numbers]
HubCall == [op : {"begin", "complete", "abort"}, file : Files, mp : Nat,
            cut : Cuts \cup {0}, first : BOOLEAN, listed : SUBSET Numbers,
            stage : {"new", "abort", "create", "ask", "done", "gone", "failed"},
            heard : BOOLEAN]

\* Every variable has its type, and a plan the hub gives names a multipart that was
\* opened for its file, at its part size.
TypeOK ==
    /\ rows \in [Files -> RoomRow]
    /\ cancelled \subseteq Files
    /\ Busy => job.file \in Files
    /\ partSize \in Cuts
    /\ hub \in [Files -> Plan]
    /\ calls \subseteq HubCall
    /\ mps \in Seq([file : Files, cut : Cuts, got : SUBSET Numbers,
                     state : {"open", "assembled", "aborted"}])
    /\ \A f \in Files : hub[f].mp # 0 => hub[f].mp \in DOMAIN mps /\ mps[hub[f].mp].file = f
                                           /\ mps[hub[f].mp].cut = hub[f].cut
    /\ objects \in [Files -> {"none", "whole", "cut"}]
    /\ overtaken \in BOOLEAN

\* A rush the room or the hub shows as finished is at the storage, whole, and a
\* rush nobody finished is not there cut short: through retries, cancels,
\* housekeeping and restarts, unless a call the room had given up changed the
\* plan it was following.
SafeIsWhole ==
    ~overtaken =>
        \A f \in Files :
            /\ objects[f] # "cut"
            /\ "termine" \in {rows[f].state, hub[f].state} => objects[f] = "whole"

\* The parts a room is told it need not send again were received by the
\* multipart that will be assembled, under the same condition.
ResumedPartsArrived ==
    ~overtaken =>
        \A f \in Files : hub[f].mp # 0 => hub[f].parts \subseteq mps[hub[f].mp].got

\* What request says of a finished file: it does not come back to it, for it is
\* at the storage.
FinishedIsAtTheStorage ==
    \A f \in Files : rows[f].state = "termine" => objects[f] = "whole"
=============================================================================
