--------------------------- MODULE VodUploadProofs ---------------------------
(***************************************************************************)
(* Theorems about VodUpload, for any files, part sizes, batch of parts and *)
(* bounds.                                                                 *)
(***************************************************************************)
EXTENDS VodUpload, WellFoundedInduction, TLAPS

-----------------------------------------------------------------------------
(***************************************************************************)
(* What is known in every state.                                           *)
(***************************************************************************)

Multipart == [file : Files, cut : Cuts, got : SUBSET Numbers, state : {"open", "assembled", "aborted"}]
Signed == [n : Numbers, mp : Nat]
Jobs ==
    {Idle} \cup [phase : {"begin", "completed", "sidecar"}, file : Files]
           \cup [phase : {"planned"}, file : Files, plan : Plan]
           \cup {pass \in [phase : {"put", "send", "sent", "complete"}, file : Files,
                          todo : SUBSET Numbers, signed : SUBSET Signed] :
                    pass.phase = "sent" => pass.signed # {}}

Types ==
    /\ rows \in [Files -> RoomRow] /\ cancelled \subseteq Files /\ job \in Jobs
    /\ partSize \in Cuts /\ hub \in [Files -> Plan] /\ calls \subseteq HubCall
    /\ mps \in Seq(Multipart) /\ objects \in [Files -> {"none", "whole", "cut"}]
    /\ overtaken \in BOOLEAN

\* A multipart was opened for this file, cut this way.
Names(mp, f, cut) == mp \in DOMAIN mps /\ mps[mp].file = f /\ mps[mp].cut = cut

\* The room waits for one call at most, that of its pass; a plan names a multipart
\* opened for it.
Awaited ==
    /\ \A call \in calls : call.heard => /\ call.op \in {"begin", "complete"}
                                         /\ job.phase = call.op /\ job.file = call.file
    /\ \A c, d \in calls : c.heard /\ d.heard => c = d
NamedPlan(f) == hub[f].mp # 0 => Names(hub[f].mp, f, hub[f].cut)
NamedCall(call) ==
    /\ call.op = "begin" /\ call.stage = "done" /\ call.mp # 0 => Names(call.mp, call.file, call.cut)
    /\ call.op = "begin" /\ call.stage # "new" => call.cut \in Cuts
    /\ call.op = "complete" /\ call.stage = "ask" /\ call.mp # 0
        => Names(call.mp, call.file, mps[call.mp].cut)
Named == (\A f \in Files : NamedPlan(f)) /\ \A call \in calls : NamedCall(call)

\* As long as no call the room gave up changed the plan it follows:
\* what a file's row says the storage received, it received;
Received(f) ==
    /\ objects[f] # "cut"
    /\ "termine" \in {rows[f].state, hub[f].state} => objects[f] = "whole"
    /\ hub[f].mp # 0 => hub[f].parts \subseteq mps[hub[f].mp].got \cap (1..hub[f].cut)

\* a completion lists every part, and one the storage answered has its object;
Assembled(call) ==
    call.op = "complete" =>
        /\ call.stage = "ask" => call.mp \in DOMAIN mps /\ call.listed = 1..mps[call.mp].cut
        /\ call.stage = "done" => objects[call.file] = "whole"

\* and the pass follows the plan the hub holds.
Follows ==
    /\ job.phase = "planned" =>
         /\ hub[job.file].mp = job.plan.mp /\ hub[job.file].cut = job.plan.cut
         /\ hub[job.file].parts = job.plan.parts
    /\ job.phase = "put" => hub[job.file].mp = 0 /\ job.todo = {} /\ job.signed = {}
    /\ job.phase \in {"send", "sent"} =>
         LET plan == hub[job.file]
         IN  IF plan.mp = 0
             THEN job.phase = "send" /\ job.todo = {} /\ job.signed = {} /\ objects[job.file] = "whole"
             ELSE /\ (1..plan.cut) \ plan.parts \subseteq job.todo /\ job.todo \subseteq 1..plan.cut
                  /\ \A a \in job.signed : a.mp = plan.mp /\ a.n \in 1..plan.cut
    /\ job.phase = "sent" => At.n \in mps[hub[job.file].mp].got
    /\ job.phase = "completed" => objects[job.file] = "whole"

Safe ==
    ~overtaken => (\A f \in Files : Received(f)) /\ (\A call \in calls : Assembled(call)) /\ Follows

Inv == Types /\ Awaited /\ Named /\ Safe

LEMMA InvInit == Init => Inv
<1> SUFFICES ASSUME Init PROVE Inv
  OBVIOUS
<1>1. Types
  <2>1. NoRow \in RoomRow /\ NoPlan \in Plan
    BY DEF NoRow, NoPlan, RoomRow, Plan
  <2>2. mps \in Seq(Multipart)
    BY DEF Init
  <2>3. overtaken \in BOOLEAN
    BY DEF Init
  <2> QED BY <2>1, <2>2, <2>3 DEF Init, Types, Jobs
<1>2. Awaited /\ Named
  BY DEF Init, Awaited, Named, NamedPlan, NamedCall, NoPlan
<1>3. Safe
  BY DEF Init, Safe, Received, Follows, NoPlan, NoRow, Idle
<1> QED BY <1>1, <1>2, <1>3 DEF Inv

LEMMA NumbersAreNat == Numbers \subseteq Nat /\ \A cut \in Cuts \cup {0} : cut \in Nat /\ 1..cut \subseteq Numbers
  BY CutsAssumption DEF Numbers

\* The address the pass has come to is one that was signed.
LEMMA AtIs ==
    ASSUME Types, job.phase \in {"send", "sent"}, job.signed # {}
    PROVE  At \in job.signed /\ At.n \in Numbers /\ At.n \in Nat /\ At.mp \in Nat
<1>1. job.signed \subseteq Signed
  BY DEF Types, Jobs, Idle
<1> DEFINE numbers == {a.n : a \in job.signed}
<1>2. PICK least \in numbers : \A n \in numbers : least <= n
  <2>1. numbers \subseteq Nat /\ numbers # {}
    BY <1>1, NumbersAreNat DEF Signed
  <2> HIDE DEF numbers
  <2>2. \E least \in numbers : \A n \in numbers : ~(n < least)
    <3>1. PICK least \in numbers : \A n \in numbers : <<n, least>> \notin OpToRel(<, Nat)
      BY <2>1, WFMin, NatLessThanWellFounded, Zenon
    <3> QED BY <2>1, <3>1, Zenon DEF OpToRel
  <2> QED BY <2>1, <2>2, SMT
<1>3. PICK a \in job.signed : a.n = least
  BY <1>2
<1>4. \A b \in job.signed : a.n <= b.n
  BY <1>2, <1>3
<1>5. At \in job.signed
  BY <1>4 DEF At
<1> QED BY <1>1, <1>5, NumbersAreNat DEF Signed

\* The shape of a pass, by its phase.
Tracked == [phase : {"begin", "completed", "sidecar"}, file : Files]
Promised == [phase : {"planned"}, file : Files, plan : Plan]
Sending == {pass \in [phase : {"put", "send", "sent", "complete"}, file : Files,
                     todo : SUBSET Numbers, signed : SUBSET Signed] :
              pass.phase = "sent" => pass.signed # {}}
LEMMA JobShape ==
    ASSUME Types
    PROVE  /\ job = Idle \/ job \in Tracked \/ job \in Promised \/ job \in Sending
           /\ job.phase \in {"begin", "completed", "sidecar"} => job \in Tracked
           /\ job.phase = "planned" => job \in Promised
           /\ job.phase \in {"put", "send", "sent", "complete"} => job \in Sending
           /\ job # Idle => job.file \in Files /\ job.phase # "idle"
<1>1. job = Idle \/ job \in Tracked \/ job \in Promised \/ job \in Sending
  BY DEF Types, Jobs, Tracked, Promised, Sending
<1>2. CASE job = Idle
  BY <1>2 DEF Idle
<1>3. CASE job \in Tracked
  BY <1>3 DEF Idle, Tracked
<1>4. CASE job \in Promised
  BY <1>4 DEF Idle, Promised
<1>5. CASE job \in Sending
  BY <1>5 DEF Idle, Sending
<1> QED BY <1>1, <1>2, <1>3, <1>4, <1>5

LEMMA ShapeIsJob == Idle \in Jobs /\ Tracked \subseteq Jobs /\ Promised \subseteq Jobs /\ Sending \subseteq Jobs
  BY DEF Jobs, Tracked, Promised, Sending

\* What a waiting call is made of.
LEMMA CallShape ==
    ASSUME NEW call \in HubCall, NEW stage \in {"new", "abort", "create", "ask", "done", "gone", "failed"},
           NEW mp \in Nat, NEW listed \in SUBSET Numbers, NEW first \in BOOLEAN, NEW cut \in Cuts \cup {0}
    PROVE  /\ [call EXCEPT !.heard = FALSE] \in HubCall
           /\ [call EXCEPT !.stage = stage, !.mp = mp, !.listed = {}] \in HubCall
           /\ [call EXCEPT !.first = first, !.mp = mp, !.cut = cut, !.stage = stage] \in HubCall
  BY DEF HubCall

\* The calls after a step say what those before it said, or ask for what touches
\* nothing yet.
Says(c, d) ==
    /\ c.op = d.op /\ c.stage = d.stage /\ c.mp = d.mp /\ c.file = d.file /\ c.cut = d.cut
    /\ c.listed = d.listed
Harmless(c) == c.op = "abort" \/ (c.op = "begin" /\ c.stage = "new")
SameCalls == \A c \in calls' : Harmless(c) \/ \E d \in calls : Says(c, d)

\* The room gives its calls up: those that go on say the same, to nobody.
LEMMA UnheardKeeps ==
    ASSUME calls \subseteq HubCall, calls' = Unheard
    PROVE  calls' \subseteq HubCall /\ SameCalls /\ \A c \in calls' : ~c.heard
<1>1. \A d \in HubCall : LET c == [d EXCEPT !.heard = FALSE] IN c \in HubCall /\ ~c.heard /\ Says(c, d)
  BY DEF HubCall, Says
<1>2. \A c \in calls' : \E d \in calls : c = [d EXCEPT !.heard = FALSE]
  BY DEF Unheard
<1> QED
  <2> SUFFICES ASSUME NEW c \in calls'
               PROVE  c \in HubCall /\ ~c.heard /\ \E d \in calls : Says(c, d)
    BY DEF SameCalls
  <2>1. PICK d \in calls : c = [d EXCEPT !.heard = FALSE]
    BY <1>2
  <2> QED BY <1>1, <2>1

-----------------------------------------------------------------------------
(***************************************************************************)
(* What a step leaves standing.                                            *)
(***************************************************************************)

\* No multipart is forgotten, nor a part it received, and no object is lost.
Kept ==
    /\ \A i \in DOMAIN mps : /\ i \in DOMAIN mps' /\ mps[i].got \subseteq mps'[i].got
                              /\ mps'[i].file = mps[i].file /\ mps'[i].cut = mps[i].cut
    /\ ~overtaken => \A f \in Files : objects'[f] = objects[f] \/ objects'[f] = "whole"
SamePlan(f) == hub'[f].mp = hub[f].mp /\ hub'[f].cut = hub[f].cut /\ hub'[f].parts = hub[f].parts

LEMMA StorageKept == ASSUME UNCHANGED <<mps, objects>> PROVE Kept
  BY DEF Kept

LEMMA PlanKept ==
    ASSUME Inv, Kept, NEW f \in Files, hub'[f].mp = hub[f].mp, hub'[f].cut = hub[f].cut
    PROVE  NamedPlan(f)'
  BY DEF Inv, Named, NamedPlan, Names, Kept

LEMMA CallKept ==
    ASSUME Inv, Kept, NEW d \in calls, NEW c, Says(c, d)
    PROVE  NamedCall(c)' /\ (~overtaken => Assembled(c)')
<1>1. d.file \in Files /\ c.file = d.file
  BY DEF Inv, Types, HubCall, Says
<1>2. NamedCall(d) /\ (~overtaken => Assembled(d))
  BY DEF Inv, Named, Safe
<1>3. NamedCall(c)'
  BY <1>1, <1>2 DEF NamedCall, Names, Kept, Says
<1>4. ~overtaken => Assembled(c)'
  BY <1>1, <1>2 DEF Assembled, Kept, Says
<1> QED BY <1>3, <1>4

LEMMA CallsKept ==
    ASSUME Inv, Kept, SameCalls
    PROVE  \A c \in calls' : NamedCall(c)' /\ (~overtaken => Assembled(c)')
<1> SUFFICES ASSUME NEW c \in calls' PROVE NamedCall(c)' /\ (~overtaken => Assembled(c)')
  OBVIOUS
<1>1. CASE Harmless(c)
  BY <1>1 DEF Harmless, NamedCall, Assembled
<1>2. CASE \E d \in calls : Says(c, d)
  BY <1>2, CallKept
<1> QED BY <1>1, <1>2 DEF SameCalls

LEMMA ReceivedKept ==
    ASSUME Inv, Kept, ~overtaken, NEW f \in Files, SamePlan(f),
           hub'[f].state = "termine" => hub[f].state = "termine" \/ objects'[f] = "whole",
           rows'[f].state = "termine" => rows[f].state = "termine" \/ objects'[f] = "whole"
    PROVE  Received(f)'
<1>1. Received(f) /\ NamedPlan(f)
  BY DEF Inv, Safe, Named
<1>2. objects'[f] # "cut" /\ ("termine" \in {rows'[f].state, hub'[f].state} => objects'[f] = "whole")
  BY <1>1 DEF Received, Kept
<1>3. hub'[f].mp # 0 => hub'[f].parts \subseteq mps'[hub'[f].mp].got \cap (1..hub'[f].cut)
  BY <1>1 DEF Received, Kept, NamedPlan, Names, SamePlan
<1> QED BY <1>2, <1>3 DEF Received

LEMMA FollowsKept ==
    ASSUME Inv, Kept, ~overtaken, job' = job, job # Idle => SamePlan(job.file)
    PROVE  Follows'
<1>1. CASE job = Idle
  BY <1>1 DEF Follows, Idle
<1>2. CASE job # Idle
  <2>1. job.file \in Files /\ SamePlan(job.file) /\ Follows /\ NamedPlan(job.file) /\ At' = At
    BY <1>2, JobShape DEF Inv, Safe, Named, At
  <2>2. job.phase \in {"send", "sent"} /\ hub[job.file].mp # 0
           => mps[hub[job.file].mp].got \subseteq mps'[hub[job.file].mp].got
    BY <2>1 DEF NamedPlan, Names, Kept
  <2>3. objects[job.file] = "whole" => objects'[job.file] = "whole"
    BY <2>1 DEF Kept
  <2> QED BY <2>1, <2>2, <2>3 DEF Follows, SamePlan
<1> QED BY <1>1, <1>2

\* Most steps of the room touch neither the hub's rows nor the storage.
LEMMA RoomFrame ==
    ASSUME Inv, UNCHANGED <<partSize, hub, mps, objects, overtaken>>, SameCalls,
           rows' \in [Files -> RoomRow], cancelled' \subseteq Files, job' \in Jobs, calls' \subseteq HubCall,
           Awaited', ~overtaken => Follows',
           \A f \in Files : rows'[f].state = "termine" =>
               rows[f].state = "termine" \/ (~overtaken => objects[f] = "whole")
    PROVE  Inv'
<1>1. Types'
  BY DEF Inv, Types
<1>2. Kept /\ \A f \in Files : SamePlan(f)
  BY DEF Kept, SamePlan
<1>3. Named'
  BY <1>2, PlanKept, CallsKept DEF Named, SamePlan
<1>4. Safe'
  BY <1>2, ReceivedKept, CallsKept DEF Safe
<1> QED BY <1>1, <1>3, <1>4 DEF Inv

\* A step that leaves the pass alone, or ends it.
LEMMA PassKept ==
    ASSUME Inv, UNCHANGED <<job, hub, mps, objects>>
    PROVE  ~overtaken => Follows'
  BY DEF Inv, Safe, Follows, At
LEMMA PassEnds == ASSUME job' = Idle PROVE Follows'
  BY DEF Follows, Idle

\* The hub is asked for nothing the room waits for.
LEMMA AwaitedKept ==
    ASSUME Awaited, \A c \in calls' : c \in calls \/ ~c.heard,
           \A c \in calls' : c.heard => job'.phase = job.phase /\ job'.file = job.file
    PROVE  Awaited'
  BY DEF Awaited

LEMMA CallForIs ==
    ASSUME Types, NEW f \in Files, NEW op \in {"begin", "complete", "abort"}
    PROVE  /\ CallFor(f, op) \in HubCall
           /\ CallFor(f, op).op = op /\ CallFor(f, op).file = f
           /\ CallFor(f, op).heard = (op # "abort")
<1>1. hub[f].mp \in Nat
  BY DEF Types, Plan
<1> QED BY <1>1 DEF CallFor, HubCall

LEMMA RowWritten ==
    ASSUME Types, NEW f \in Files, NEW state \in {"attente", "en-cours", "termine", "abandonne"}
    PROVE  [rows EXCEPT ![f].state = state] \in [Files -> RoomRow]
  BY DEF Types, RoomRow

LEMMA FailedIs ==
    ASSUME Types, Busy, Failed
    PROVE  /\ job' = Idle /\ rows' \in [Files -> RoomRow]
           /\ \A f \in Files : rows'[f].state = "termine" => rows[f].state = "termine"
<1>1. job.file \in Files
  BY JobShape DEF Busy
<1>2. [rows EXCEPT ![job.file].state = "attente"] \in [Files -> RoomRow]
  BY <1>1, RowWritten
<1> QED BY <1>1, <1>2 DEF Failed, Types, RoomRow

LEMMA StepRequest ==
    ASSUME Inv, NEW f \in Files, Request(f) PROVE Inv'
<1>1. rows' \in [Files -> RoomRow] /\ cancelled' \subseteq Files
  BY RowWritten DEF Inv, Types, Request
<1>2. \A g \in Files : rows'[g].state = "termine" => rows[g].state = "termine"
  BY DEF Inv, Types, RoomRow, Request
<1>3. SameCalls /\ Awaited' /\ (~overtaken => Follows')
  BY PassKept, AwaitedKept DEF Inv, Request, storageVars, SameCalls, Says
<1>4. job' \in Jobs /\ calls' \subseteq HubCall
  BY DEF Inv, Types, Request
<1> QED BY <1>1, <1>2, <1>3, <1>4, RoomFrame DEF Request, storageVars

LEMMA StepCancel ==
    ASSUME Inv, NEW f \in Files, Cancel(f) PROVE Inv'
<1>1. rows' \in [Files -> RoomRow] /\ cancelled' \subseteq Files
  BY RowWritten DEF Inv, Types, Cancel
<1>2. \A g \in Files : rows'[g].state = "termine" => rows[g].state = "termine"
  BY DEF Inv, Types, RoomRow, Cancel
<1>3. calls' = calls \/ calls' = calls \cup {CallFor(f, "abort")}
  BY DEF Cancel, Wait
<1>7. /\ CallFor(f, "abort") \in HubCall /\ Harmless(CallFor(f, "abort"))
      /\ ~CallFor(f, "abort").heard /\ calls \subseteq HubCall
  BY CallForIs DEF Inv, Harmless, Types
<1>8. \A c \in calls' : c \in calls \/ c = CallFor(f, "abort")
  BY <1>3
<1>4. SameCalls /\ calls' \subseteq HubCall /\ \A c \in calls' : c \in calls \/ ~c.heard
  BY <1>7, <1>8 DEF SameCalls, Says
<1>5. Awaited' /\ (~overtaken => Follows')
  BY <1>4, PassKept, AwaitedKept DEF Inv, Cancel, storageVars
<1>6. job' \in Jobs
  BY DEF Inv, Types, Cancel
<1> QED BY <1>1, <1>2, <1>4, <1>5, <1>6, RoomFrame DEF Cancel, storageVars

LEMMA StepForgetAll ==
    ASSUME Inv, ForgetAll PROVE Inv'
<1>1. rows' \in [Files -> RoomRow] /\ \A g \in Files : rows'[g].state = "none"
  BY DEF ForgetAll, NoRow, RoomRow
<1>3. SameCalls /\ Awaited' /\ (~overtaken => Follows')
  BY PassKept, AwaitedKept DEF Inv, ForgetAll, storageVars, SameCalls, Says
<1>4. job' \in Jobs /\ calls' \subseteq HubCall /\ cancelled' \subseteq Files
  BY DEF Inv, Types, ForgetAll
<1> QED BY <1>1, <1>3, <1>4, RoomFrame DEF ForgetAll, storageVars

LEMMA StepStart ==
    ASSUME Inv, NEW f \in Files, Start(f) PROVE Inv'
<1> DEFINE new == [CallFor(f, "begin") EXCEPT !.stage = "new", !.mp = 0]
<1>1. job' = [phase |-> "begin", file |-> f] /\ job' \in Jobs
  BY ShapeIsJob DEF Start, Tracked
<1>2. new \in HubCall /\ new.op = "begin" /\ new.stage = "new" /\ new.file = f
  <2>1. CallFor(f, "begin") \in HubCall /\ CallFor(f, "begin").op = "begin" /\ CallFor(f, "begin").file = f
    BY CallForIs DEF Inv
  <2>2. \A c \in HubCall : LET d == [c EXCEPT !.stage = "new", !.mp = 0]
                            IN  d \in HubCall /\ d.op = c.op /\ d.stage = "new" /\ d.file = c.file
    BY DEF HubCall
  <2> QED BY <2>1, <2>2
<1> HIDE DEF new
<1>3. calls' = calls \cup {new}
  BY DEF Start, Wait, new
<1>4. \A c \in calls : ~c.heard
  BY DEF Inv, Awaited, Start, Busy, Idle
<1>5. Awaited'
  BY <1>1, <1>2, <1>3, <1>4 DEF Awaited
<1>6. SameCalls /\ calls' \subseteq HubCall
  BY <1>2, <1>3 DEF Inv, Types, SameCalls, Says, Harmless
<1>7. Follows'
  BY <1>1 DEF Follows
<1>8. rows' \in [Files -> RoomRow] /\ cancelled' \subseteq Files /\ rows' = rows
  BY DEF Inv, Types, Start
<1> QED BY <1>1, <1>5, <1>6, <1>7, <1>8, RoomFrame DEF Start, storageVars

\* A step of the pass that waits for no call and leaves the calls alone.
LEMMA NobodyAwaited ==
    ASSUME Inv, job.phase \notin {"begin", "complete"}, UNCHANGED calls
    PROVE  SameCalls /\ Awaited' /\ calls' \subseteq HubCall
  BY DEF Inv, Types, Awaited, SameCalls, Says

LEMMA StepTakePlan ==
    ASSUME Inv, TakePlan PROVE Inv'
<1> DEFINE plan == job.plan
<1>1. job \in Promised /\ job.file \in Files /\ plan \in Plan
  BY JobShape DEF Inv, TakePlan, Promised
<1>2. /\ job'.phase = (IF plan.mp = 0 THEN "put" ELSE "send") /\ job'.file = job.file
      /\ job'.todo = (IF plan.mp = 0 THEN {} ELSE (1..plan.cut) \ plan.parts) /\ job'.signed = {}
  BY DEF TakePlan
<1>3. job'.todo \subseteq Numbers
  BY <1>1, <1>2 DEF Plan, Numbers
<1>4. job' \in Jobs
  <2>1. job' \in Sending
    <3> DEFINE phase == IF plan.mp = 0 THEN "put" ELSE "send"
               todo == IF plan.mp = 0 THEN {} ELSE (1..plan.cut) \ plan.parts
    <3>1. job' = [phase |-> phase, file |-> job.file, todo |-> todo, signed |-> {}]
      BY DEF TakePlan
    <3>2. todo \subseteq Numbers /\ phase \in {"put", "send"}
      BY <1>2, <1>3
    <3> HIDE DEF phase, todo
    <3> QED BY <3>1, <3>2, <1>1 DEF Sending
  <2> QED BY <2>1, ShapeIsJob
<1>5. ~overtaken => Follows'
  <2> SUFFICES ASSUME ~overtaken PROVE Follows'
    OBVIOUS
  <2>1. /\ hub[job.file].mp = plan.mp /\ hub[job.file].cut = plan.cut /\ hub[job.file].parts = plan.parts
        /\ hub' = hub
    BY DEF Inv, Safe, Follows, TakePlan
  <2> HIDE DEF plan
  <2> QED BY <1>2, <2>1 DEF Follows
<1>6. rows' \in [Files -> RoomRow] /\ cancelled' \subseteq Files
  BY <1>1 DEF Inv, Types, TakePlan, RoomRow
<1>7. \A f \in Files : rows'[f].state = "termine" => rows[f].state = "termine"
  BY <1>1 DEF Inv, Types, TakePlan, RoomRow
<1>8. SameCalls /\ Awaited' /\ calls' \subseteq HubCall
  BY NobodyAwaited DEF TakePlan
<1> QED BY <1>4, <1>5, <1>6, <1>7, <1>8, RoomFrame DEF TakePlan, storageVars

\* A step that drops the pass, and the calls it waits for.
LEMMA PassDropped ==
    ASSUME Inv, UNCHANGED <<partSize, hub, mps, objects, overtaken>>, job' = Idle,
           calls' = Unheard \/ (UNCHANGED calls /\ job.phase \notin {"begin", "complete"}),
           rows' \in [Files -> RoomRow], cancelled' \subseteq Files,
           \A f \in Files : rows'[f].state = "termine" =>
               rows[f].state = "termine" \/ (~overtaken => objects[f] = "whole")
    PROVE  Inv'
<1>1. job' \in Jobs /\ Follows'
  BY ShapeIsJob, PassEnds
<1>2. SameCalls /\ Awaited' /\ calls' \subseteq HubCall
  <2>1. CASE calls' = Unheard
    BY <2>1, UnheardKeeps DEF Inv, Types, Awaited
  <2>2. CASE UNCHANGED calls /\ job.phase \notin {"begin", "complete"}
    BY <2>2, NobodyAwaited
  <2> QED BY <2>1, <2>2
<1> QED BY <1>1, <1>2, RoomFrame

LEMMA StepFail ==
    ASSUME Inv, Fail PROVE Inv'
<1>1. /\ job' = Idle /\ rows' \in [Files -> RoomRow]
      /\ \A f \in Files : rows'[f].state = "termine" => rows[f].state = "termine"
  BY FailedIs DEF Inv, Fail
<1> QED BY <1>1, PassDropped DEF Fail, storageVars, Inv, Types

LEMMA StepStop ==
    ASSUME Inv, Stop PROVE Inv'
  BY PassDropped DEF Stop, storageVars, Inv, Types
LEMMA StepEndPass ==
    ASSUME Inv, EndPass PROVE Inv'
  BY PassDropped DEF EndPass, storageVars, Inv, Types
LEMMA StepRestartRoom ==
    ASSUME Inv, RestartRoom PROVE Inv'
  BY PassDropped DEF RestartRoom, storageVars, Inv, Types

LEMMA StepFinish ==
    ASSUME Inv, Finish PROVE Inv'
<1>1. job.phase = "completed" /\ job.file \in Files
  BY JobShape DEF Inv, Finish, Idle
<1>2. ~overtaken => objects[job.file] = "whole"
  BY <1>1 DEF Inv, Safe, Follows
<1>3. [rows EXCEPT ![job.file].state = "termine"] \in [Files -> RoomRow] /\ rows \in [Files -> RoomRow]
  BY <1>1, RowWritten DEF Inv, Types
<1>4. rows' \in [Files -> RoomRow] /\ cancelled' \subseteq Files
  BY <1>3 DEF Finish, Inv, Types
<1>5. \A f \in Files : rows'[f].state = "termine" => rows[f].state = "termine" \/ f = job.file
  BY <1>1, <1>3 DEF Finish
<1>6. job' \in Jobs /\ Follows'
  <2>1. job' = Idle \/ job' = [phase |-> "sidecar", file |-> job.file]
    BY DEF Finish
  <2>2. CASE job' = Idle
    BY <2>2, PassEnds, ShapeIsJob
  <2>3. CASE job' = [phase |-> "sidecar", file |-> job.file]
    BY <2>3, <1>1, ShapeIsJob DEF Tracked, Follows
  <2> QED BY <2>1, <2>2, <2>3
<1>7. SameCalls /\ Awaited' /\ calls' \subseteq HubCall
  BY <1>1, NobodyAwaited DEF Finish
<1> QED BY <1>2, <1>4, <1>5, <1>6, <1>7, RoomFrame DEF Finish, storageVars

\* The pass in the middle of its parts.
LEMMA PassSends ==
    ASSUME Inv, job.phase \in {"put", "send", "sent"}
    PROVE  job \in Sending /\ job.file \in Files /\ job # Idle /\ Busy
  BY JobShape DEF Inv, Idle, Busy

LEMMA StepSign ==
    ASSUME Inv, Sign PROVE Inv'
<1> DEFINE signed == {[n |-> n, mp |-> hub[job.file].mp] : n \in FirstOf(job.todo, PartBatch)}
<1>1. job \in Sending /\ job.file \in Files
  BY PassSends DEF Sign
<1>2. hub[job.file].mp \in Nat /\ job.todo \subseteq Numbers
  BY <1>1 DEF Inv, Types, Plan, Sending
<1>3. FirstOf(job.todo, PartBatch) \subseteq job.todo
  BY DEF FirstOf
<1>4. signed \subseteq Signed /\ \A a \in signed : a.mp = hub[job.file].mp /\ a.n \in job.todo
  <2>1. \A n \in job.todo : [n |-> n, mp |-> hub[job.file].mp] \in Signed
    BY <1>2 DEF Signed
  <2> QED BY <1>3, <2>1
<1> HIDE DEF signed
<1>5. job' = [job EXCEPT !.signed = signed]
  BY DEF Sign, signed
<1>6. job' \in Sending /\ job'.phase = "send" /\ job'.file = job.file /\ job'.todo = job.todo /\ job'.signed = signed
  BY <1>1, <1>4, <1>5 DEF Sending, Sign
<1>7. ~overtaken => Follows'
  <2> SUFFICES ASSUME ~overtaken PROVE Follows'
    OBVIOUS
  <2>1. /\ (1..hub[job.file].cut) \ hub[job.file].parts \subseteq job.todo
        /\ job.todo \subseteq 1..hub[job.file].cut /\ hub[job.file].mp # 0 /\ hub' = hub
    BY DEF Inv, Safe, Follows, Sign
  <2> QED BY <1>4, <1>6, <2>1 DEF Follows
<1>8. SameCalls /\ Awaited' /\ calls' \subseteq HubCall
  BY NobodyAwaited DEF Sign
<1>9. rows' \in [Files -> RoomRow] /\ cancelled' \subseteq Files /\ rows' = rows /\ job' \in Jobs
  BY <1>6, ShapeIsJob DEF Sign, Inv, Types
<1> QED BY <1>7, <1>8, <1>9, RoomFrame DEF Sign, storageVars

\* A pass that goes on sending, or fails.
LEMMA SentOrFailedIs ==
    ASSUME Inv, job.phase \in {"put", "send", "sent"}, UNCHANGED calls,
           (UNCHANGED rows /\ job' \in Sending) \/ Failed
    PROVE  /\ rows' \in [Files -> RoomRow] /\ job' \in Jobs
           /\ \A f \in Files : rows'[f].state = "termine" => rows[f].state = "termine"
           /\ SameCalls /\ Awaited' /\ calls' \subseteq HubCall
           /\ Failed => Follows'
<1>1. SameCalls /\ Awaited' /\ calls' \subseteq HubCall
  BY NobodyAwaited
<1>2. CASE Failed
  <2>1. Busy
    BY PassSends
  <2> QED BY <1>1, <1>2, <2>1, FailedIs, PassEnds, ShapeIsJob DEF Inv
<1>3. CASE ~Failed
  BY <1>1, <1>3, ShapeIsJob DEF Inv, Types
<1> QED BY <1>2, <1>3

\* What a step has to show, component by component.
LEMMA InvFrom ==
    ASSUME Types', Awaited', \A f \in Files : NamedPlan(f)', \A c \in calls' : NamedCall(c)',
           ~overtaken' => /\ \A f \in Files : Received(f)'
                          /\ \A c \in calls' : Assembled(c)'
                          /\ Follows'
    PROVE  Inv'
  BY DEF Inv, Named, Safe

LEMMA StepPut ==
    ASSUME Inv, Put PROVE Inv'
<1>1. job \in Sending /\ job.file \in Files /\ job.phase = "send" /\ job.signed # {}
  BY PassSends DEF Put
<1>2. At \in job.signed /\ At.n \in Numbers /\ At.mp \in Nat /\ At.mp \in DOMAIN mps
  BY <1>1, AtIs DEF Put, Open, Inv
<1> DEFINE mp == At.mp
           n == At.n
<1>3. mps' = [mps EXCEPT ![mp].got = @ \cup {n}]
  BY DEF Put
<1>4. mps' \in Seq(Multipart) /\ Kept /\ n \in mps'[mp].got
  <2>1. mps \in Seq(Multipart) /\ objects' = objects
    BY DEF Inv, Types, Put
  <2>2. mps[mp] \in Multipart
    BY <2>1, <1>2
  <2>3. [mps[mp] EXCEPT !.got = @ \cup {n}] \in Multipart
    BY <2>2, <1>2 DEF Multipart
  <2> QED BY <1>2, <1>3, <2>1, <2>2, <2>3 DEF Kept, Multipart
<1>5. \/ /\ UNCHANGED rows /\ job' \in Sending /\ job'.phase = "sent" /\ job'.file = job.file
         /\ job'.todo = job.todo /\ job'.signed = job.signed
      \/ Failed
  BY <1>1 DEF Put, Sending
<1>6. UNCHANGED calls
  BY DEF Put
<1>7. /\ rows' \in [Files -> RoomRow] /\ job' \in Jobs
      /\ \A f \in Files : rows'[f].state = "termine" => rows[f].state = "termine"
      /\ SameCalls /\ Awaited' /\ calls' \subseteq HubCall
      /\ Failed => Follows'
  BY <1>1, <1>5, <1>6, SentOrFailedIs
<1>8. ~overtaken => Follows'
  <2> SUFFICES ASSUME ~overtaken, ~Follows' PROVE FALSE
    OBVIOUS
  <2>1. /\ hub[job.file].mp # 0 /\ (1..hub[job.file].cut) \ hub[job.file].parts \subseteq job.todo
        /\ job.todo \subseteq 1..hub[job.file].cut /\ hub' = hub
        /\ \A a \in job.signed : a.mp = hub[job.file].mp /\ a.n \in 1..hub[job.file].cut
    BY <1>1 DEF Inv, Safe, Follows, Put
  <2>2. At' = At
    BY <1>5, <1>7 DEF At
  <2> QED BY <1>1, <1>2, <1>4, <1>5, <1>7, <2>1, <2>2 DEF Follows
<1>9. Types'
  BY <1>4, <1>7 DEF Inv, Types, Put
<1>10. overtaken' = overtaken /\ \A f \in Files : SamePlan(f) /\ hub'[f].state = hub[f].state
  BY DEF Put, SamePlan
<1> HIDE DEF mp, n
<1> QED BY <1>4, <1>7, <1>8, <1>9, <1>10, PlanKept, CallsKept, ReceivedKept, InvFrom
      DEF SamePlan

\* The hub's row of one file is rewritten.
LEMMA HubWritten ==
    ASSUME Types, NEW f \in Files, NEW plan \in Plan, hub' = [hub EXCEPT ![f] = plan]
    PROVE  hub' \in [Files -> Plan] /\ hub'[f] = plan /\ \A g \in Files \ {f} : hub'[g] = hub[g]
  BY DEF Types

LEMMA StepProgress ==
    ASSUME Inv, Progress PROVE Inv'
<1> DEFINE n == At.n
           at == At
<1>1. job \in Sending /\ job.file \in Files /\ job.phase = "sent"
  BY PassSends DEF Progress
<1>2. hub[job.file] \in Plan /\ hub \in [Files -> Plan]
  BY <1>1 DEF Inv, Types
<1>3. hub' = [hub EXCEPT ![job.file] = [hub[job.file] EXCEPT !.state = "en-cours", !.parts = @ \cup {n}]]
  BY <1>1, <1>2 DEF Progress
<1>4. ~overtaken => /\ n \in mps[hub[job.file].mp].got /\ n \in 1..hub[job.file].cut /\ hub[job.file].mp # 0
                    /\ (1..hub[job.file].cut) \ hub[job.file].parts \subseteq job.todo /\ job.todo \subseteq 1..hub[job.file].cut
                    /\ \A a \in job.signed : a.mp = hub[job.file].mp /\ a.n \in 1..hub[job.file].cut
  <2> SUFFICES ASSUME ~overtaken
               PROVE  /\ n \in mps[hub[job.file].mp].got /\ n \in 1..hub[job.file].cut /\ hub[job.file].mp # 0
                      /\ (1..hub[job.file].cut) \ hub[job.file].parts \subseteq job.todo /\ job.todo \subseteq 1..hub[job.file].cut
                      /\ \A a \in job.signed : a.mp = hub[job.file].mp /\ a.n \in 1..hub[job.file].cut
    OBVIOUS
  <2>1. Follows /\ job.signed # {}
    BY <1>1 DEF Inv, Safe, Follows, Sending
  <2>2. At \in job.signed
    BY <1>1, <2>1, AtIs DEF Inv
  <2> QED BY <1>1, <2>1, <2>2 DEF Follows
<1>5. UNCHANGED <<cancelled, calls, mps, objects, partSize, overtaken>> /\ Kept
  BY DEF Progress, storageVars, Kept
<1>6. \/ /\ UNCHANGED rows /\ job' \in Sending /\ job'.phase = "send" /\ job'.file = job.file
         /\ job'.todo = job.todo \ {n} /\ job'.signed = job.signed \ {at}
      \/ Failed
  <2>1. CASE UNCHANGED rows /\ job' = [job EXCEPT !.phase = "send", !.todo = @ \ {n}, !.signed = @ \ {at}]
    BY <1>1, <2>1 DEF Sending
  <2> QED BY <2>1 DEF Progress
<1>8. /\ rows' \in [Files -> RoomRow] /\ job' \in Jobs
      /\ \A f \in Files : rows'[f].state = "termine" => rows[f].state = "termine"
      /\ SameCalls /\ Awaited' /\ calls' \subseteq HubCall
      /\ Failed => Follows'
  BY <1>1, <1>5, <1>6, SentOrFailedIs
<1>9. n \in Numbers
  BY <1>1, AtIs DEF Inv, Sending
<1>10. /\ hub' \in [Files -> Plan] /\ hub'[job.file] = [hub[job.file] EXCEPT !.state = "en-cours", !.parts = @ \cup {n}]
       /\ \A g \in Files \ {job.file} : hub'[g] = hub[g]
  <2>1. [hub[job.file] EXCEPT !.state = "en-cours", !.parts = @ \cup {n}] \in Plan
    BY <1>2, <1>9 DEF Plan
  <2> QED BY <1>1, <1>3, <2>1, HubWritten DEF Inv
<1> HIDE DEF n, at
<1>11. /\ hub'[job.file].state = "en-cours" /\ hub'[job.file].mp = hub[job.file].mp /\ hub'[job.file].cut = hub[job.file].cut
       /\ hub'[job.file].parts = hub[job.file].parts \cup {n}
  BY <1>2, <1>10 DEF Plan
<1>12. ~overtaken => Follows'
  <2> SUFFICES ASSUME ~overtaken, ~Follows' PROVE FALSE
    OBVIOUS
  <2> QED BY <1>4, <1>6, <1>8, <1>11 DEF Follows
<1>13. ASSUME ~overtaken, NEW g \in Files PROVE Received(g)'
  <2>1. CASE g = job.file
    <3>1. Received(job.file)
      BY <1>13, <1>1 DEF Inv, Safe
    <3>2. rows'[job.file].state = "termine" => objects[job.file] = "whole"
      BY <3>1, <1>1, <1>8 DEF Received
    <3> QED BY <1>4, <1>5, <1>11, <1>13, <2>1, <3>1, <3>2 DEF Received
  <2>2. CASE g # job.file
    <3>1. SamePlan(g) /\ hub'[g].state = hub[g].state
      BY <2>2, <1>10 DEF SamePlan
    <3> QED BY <3>1, <1>5, <1>8, <1>13, ReceivedKept
  <2> QED BY <2>1, <2>2
<1>14. Types'
  BY <1>5, <1>8, <1>10 DEF Inv, Types
<1>15. \A g \in Files : NamedPlan(g)'
  <2> SUFFICES ASSUME NEW g \in Files PROVE NamedPlan(g)'
    OBVIOUS
  <2>1. hub'[g].mp = hub[g].mp /\ hub'[g].cut = hub[g].cut
    BY <1>10, <1>11
  <2> QED BY <2>1, <1>5, PlanKept
<1> QED BY <1>5, <1>8, <1>12, <1>13, <1>14, <1>15, CallsKept, InvFrom

LEMMA StepPutWhole ==
    ASSUME Inv, PutWhole PROVE Inv'
<1>1. job \in Sending /\ job.file \in Files /\ job.phase = "put"
  BY PassSends DEF PutWhole
<1>2. UNCHANGED <<cancelled, hub, calls, mps, partSize, overtaken>>
  BY DEF PutWhole
<1>3. objects' \in [Files -> {"none", "whole", "cut"}] /\ Kept /\ objects'[job.file] = "whole"
  BY <1>1, <1>2 DEF PutWhole, Inv, Types, Kept
<1>4. \/ /\ UNCHANGED rows /\ job' \in Sending /\ job'.phase = "send" /\ job'.file = job.file
         /\ job'.todo = job.todo /\ job'.signed = job.signed
      \/ Failed
  BY <1>1 DEF PutWhole, Sending
<1>6. /\ rows' \in [Files -> RoomRow] /\ job' \in Jobs
      /\ \A f \in Files : rows'[f].state = "termine" => rows[f].state = "termine"
      /\ SameCalls /\ Awaited' /\ calls' \subseteq HubCall
      /\ Failed => Follows'
  BY <1>1, <1>2, <1>4, SentOrFailedIs
<1>7. ~overtaken => Follows'
  <2> SUFFICES ASSUME ~overtaken, ~Follows' PROVE FALSE
    OBVIOUS
  <2>1. hub[job.file].mp = 0 /\ job.todo = {} /\ job.signed = {}
    BY <1>1 DEF Inv, Safe, Follows
  <2> QED BY <1>2, <1>3, <1>4, <1>6, <2>1 DEF Follows
<1>8. Types'
  BY <1>2, <1>3, <1>6 DEF Inv, Types
<1>9. \A g \in Files : SamePlan(g) /\ hub'[g].state = hub[g].state
  BY <1>2 DEF SamePlan
<1> QED BY <1>2, <1>3, <1>6, <1>7, <1>8, <1>9, PlanKept, CallsKept, ReceivedKept, InvFrom
      DEF SamePlan

LEMMA StepAskComplete ==
    ASSUME Inv, AskComplete PROVE Inv'
<1> DEFINE stage == IF hub[job.file].mp = 0 THEN "done" ELSE "ask"
<1>1. job \in Sending /\ job.file \in Files /\ job.phase = "send" /\ job.todo = {}
  BY PassSends DEF AskComplete
<1>2. hub[job.file] \in Plan
  BY <1>1 DEF Inv, Types
<1>3. PICK new \in HubCall :
         /\ new.op = "complete" /\ new.file = job.file /\ new.mp = hub[job.file].mp
         /\ new.stage = stage /\ new.listed = hub[job.file].parts /\ calls' = calls \cup {new}
  <2> DEFINE call == [CallFor(job.file, "complete") EXCEPT !.stage = stage, !.listed = hub[job.file].parts]
  <2>1. /\ call \in HubCall /\ call.op = "complete" /\ call.file = job.file /\ call.mp = hub[job.file].mp
        /\ call.stage = stage /\ call.listed = hub[job.file].parts
    BY <1>1, <1>2 DEF CallFor, HubCall, Plan
  <2>2. calls' = calls \cup {call}
    BY DEF AskComplete, Wait
  <2> HIDE DEF call
  <2> QED BY <2>1, <2>2
<1>4. calls' = calls \cup {new}
  BY <1>3
<1>5. UNCHANGED <<rows, cancelled, hub, mps, objects, partSize, overtaken>>
  BY DEF AskComplete, storageVars
<1>6. /\ job' \in Sending /\ job'.phase = "complete" /\ job'.file = job.file
  BY <1>1 DEF AskComplete, Sending
<1>7. NamedCall(new)'
  <2>1. hub[job.file].mp # 0 => Names(hub[job.file].mp, job.file, mps[hub[job.file].mp].cut)
    BY <1>1 DEF Inv, Named, NamedPlan, Names
  <2> HIDE DEF stage
  <2> QED BY <1>3, <1>5, <2>1 DEF NamedCall, Names
<1>8. ~overtaken => Assembled(new)'
  <2> SUFFICES ASSUME ~overtaken PROVE Assembled(new)'
    OBVIOUS
  <2>1. Follows /\ Received(job.file) /\ NamedPlan(job.file)
    BY <1>1 DEF Inv, Safe, Named
  <2>2. CASE hub[job.file].mp = 0
    <3>1. objects[job.file] = "whole" /\ stage = "done"
      BY <1>1, <2>1, <2>2 DEF Follows
    <3> HIDE DEF stage
    <3> QED BY <1>3, <1>5, <3>1 DEF Assembled
  <2>3. CASE hub[job.file].mp # 0
    <3>1. hub[job.file].parts = 1..hub[job.file].cut /\ stage = "ask"
      BY <1>1, <2>1, <2>3 DEF Follows, Received
    <3>2. hub[job.file].mp \in DOMAIN mps /\ mps[hub[job.file].mp].cut = hub[job.file].cut
      BY <2>1, <2>3 DEF NamedPlan, Names
    <3> HIDE DEF stage
    <3> QED BY <1>3, <1>5, <3>1, <3>2 DEF Assembled
  <2> QED BY <2>2, <2>3
<1>9. \A c \in calls : ~c.heard
  BY <1>1 DEF Inv, Awaited
<1>10. Awaited'
  BY <1>3, <1>4, <1>6, <1>9 DEF Awaited
<1>11. Follows'
  BY <1>6 DEF Follows
<1>12. Types'
  BY <1>3, <1>4, <1>5, <1>6, ShapeIsJob DEF Inv, Types
<1>13. Kept /\ \A f \in Files : SamePlan(f) /\ hub'[f].state = hub[f].state
  BY <1>5 DEF Kept, SamePlan
<1>14. \A f \in Files : NamedPlan(f)' /\ (~overtaken => Received(f)')
  BY <1>5, <1>13, PlanKept, ReceivedKept DEF SamePlan
<1>15. \A c \in calls' : NamedCall(c)' /\ (~overtaken => Assembled(c)')
  <2> SUFFICES ASSUME NEW c \in calls' PROVE NamedCall(c)' /\ (~overtaken => Assembled(c)')
    OBVIOUS
  <2>1. CASE c = new
    BY <1>7, <1>8, <2>1 DEF NamedCall, Assembled
  <2>2. CASE c \in calls
    BY <1>13, <2>2, CallKept DEF Says
  <2> QED BY <1>4, <2>1, <2>2
<1> QED BY <1>5, <1>10, <1>11, <1>12, <1>14, <1>15, InvFrom

-----------------------------------------------------------------------------
(***************************************************************************)
(* The hub answers.                                                        *)
(***************************************************************************)

\* A call that is over: the room hears it if it still waits.
LEMMA Answered ==
    ASSUME Inv, NEW call \in calls, calls' = calls \ {call}, NEW answered, Answer(call, answered),
           answered.phase = "planned" \/ answered.phase = "completed"
    PROVE  /\ Awaited' /\ SameCalls /\ calls' \subseteq HubCall
           /\ job' = job \/ (job' = answered /\ call.heard)
           /\ call.heard => job' = answered
  BY DEF Inv, Types, Awaited, Answer, SameCalls, Says

LEMMA PlannedIs ==
    ASSUME NEW f \in Files, NEW plan \in Plan
    PROVE  /\ Planned(f, plan) \in Promised /\ Planned(f, plan).phase = "planned"
           /\ Planned(f, plan).file = f /\ Planned(f, plan).plan = plan
  BY DEF Planned, Promised

LEMMA StepBeginAgain ==
    ASSUME Inv, NEW call \in calls, BeginAgain(call) PROVE Inv'
<1>1. call.file \in Files /\ hub[call.file] \in Plan /\ call.op = "begin"
  BY DEF Inv, Types, HubCall, BeginAgain
<1>2. PICK answered \in Promised : answered = Planned(call.file, hub[call.file]) /\ answered.phase = "planned"
  BY <1>1, PlannedIs
<1>3. /\ Awaited' /\ SameCalls /\ calls' \subseteq HubCall
      /\ job' = job \/ (job' = answered /\ call.heard)
  BY <1>2, Answered DEF BeginAgain
<1>4. UNCHANGED <<rows, cancelled, hub, mps, objects, partSize, overtaken>>
  BY DEF BeginAgain, storageVars
<1>5. job' \in Jobs
  BY <1>2, <1>3, ShapeIsJob DEF Inv, Types
<1>6. ~overtaken => Follows'
  <2>1. CASE job' = job
    BY <1>4, <2>1, PassKept
  <2>2. CASE job' = answered
    BY <1>2, <1>4, <2>2 DEF Follows, Planned
  <2> QED BY <1>3, <2>1, <2>2
<1> QED BY <1>3, <1>4, <1>5, <1>6, RoomFrame DEF Inv, Types

LEMMA StepBeginAnew ==
    ASSUME Inv, NEW call \in calls, BeginAnew(call) PROVE Inv'
<1> DEFINE f == call.file
           stage == IF hub[f].mp # 0 THEN "abort" ELSE Opening(partSize)
           first == hub[f].state = "none"
<1>1. f \in Files /\ hub[f] \in Plan /\ call.op = "begin" /\ call \in HubCall
  BY DEF Inv, Types, HubCall, BeginAnew
<1>2. stage \in {"abort", "create", "done"} /\ (stage = "done" => hub[f].mp = 0)
  BY DEF Opening
<1>3. PICK new \in HubCall :
        /\ new.op = "begin" /\ new.file = call.file /\ new.heard = call.heard /\ new.stage = stage
        /\ new.mp = hub[f].mp /\ new.cut = partSize /\ calls' = (calls \ {call}) \cup {new}
  <2> DEFINE made == [call EXCEPT !.first = first, !.mp = hub[f].mp, !.cut = partSize, !.stage = stage]
  <2>1. /\ made \in HubCall /\ made.op = "begin" /\ made.file = call.file /\ made.heard = call.heard
        /\ made.stage = stage /\ made.mp = hub[f].mp /\ made.cut = partSize
    BY <1>1, <1>2 DEF Inv, Types, HubCall, Plan
  <2>2. calls' = (calls \ {call}) \cup {made}
    BY DEF BeginAnew
  <2> HIDE DEF made
  <2> QED BY <2>1, <2>2
<1>4. UNCHANGED <<rows, cancelled, job, hub, mps, objects, partSize, overtaken>>
  BY DEF BeginAnew, storageVars, roomVars
<1>5. Kept /\ \A g \in Files : SamePlan(g) /\ hub'[g].state = hub[g].state
  BY <1>4 DEF Kept, SamePlan
<1>6. Types'
  BY <1>3, <1>4 DEF Inv, Types
<1>7. Awaited'
  <2>1. \A c \in calls' : c \in calls \ {call} \/ c = new
    BY <1>3
  <2> QED BY <1>1, <1>3, <1>4, <2>1 DEF Inv, Awaited
<1>8. ~overtaken => Follows'
  BY <1>4, PassKept
<1>9. NamedCall(new)' /\ Assembled(new)'
  BY <1>2, <1>3 DEF NamedCall, Assembled, Inv, Types
<1>10. \A c \in calls' : NamedCall(c)' /\ (~overtaken => Assembled(c)')
  <2> SUFFICES ASSUME NEW c \in calls' PROVE NamedCall(c)' /\ (~overtaken => Assembled(c)')
    OBVIOUS
  <2>1. CASE c = new
    BY <1>9, <2>1 DEF NamedCall, Assembled
  <2>2. CASE c \in calls
    BY <1>5, <2>2, CallKept DEF Says
  <2> QED BY <1>3, <2>1, <2>2
<1>11. \A g \in Files : NamedPlan(g)' /\ (~overtaken => Received(g)')
  BY <1>4, <1>5, PlanKept, ReceivedKept DEF SamePlan
<1> QED BY <1>4, <1>6, <1>7, <1>8, <1>10, <1>11, InvFrom

LEMMA StepHousekeeping ==
    ASSUME Inv, NEW f \in Files, Housekeeping(f) PROVE Inv'
<1>1. /\ CallFor(f, "abort") \in HubCall /\ Harmless(CallFor(f, "abort"))
      /\ ~CallFor(f, "abort").heard /\ calls \subseteq HubCall
  BY CallForIs DEF Inv, Harmless, Types
<1>2. \A c \in calls' : c \in calls \/ c = CallFor(f, "abort")
  BY DEF Housekeeping, Wait
<1>3. SameCalls /\ calls' \subseteq HubCall /\ \A c \in calls' : c \in calls \/ ~c.heard
  BY <1>1, <1>2 DEF SameCalls, Says
<1>4. UNCHANGED <<rows, cancelled, job, hub, mps, objects, partSize, overtaken>>
  BY DEF Housekeeping, storageVars, roomVars
<1>5. Awaited' /\ (~overtaken => Follows')
  BY <1>3, <1>4, PassKept, AwaitedKept DEF Inv
<1> QED BY <1>3, <1>4, <1>5, RoomFrame DEF Inv, Types

LEMMA StepSetPartSize ==
    ASSUME Inv, NEW cut \in Cuts, SetPartSize(cut) PROVE Inv'
<1>1. UNCHANGED <<rows, cancelled, job, hub, calls, mps, objects, overtaken>> /\ partSize' = cut
  BY DEF SetPartSize, storageVars, roomVars
<1>2. Types'
  BY <1>1 DEF Inv, Types
<1>3. Kept /\ SameCalls /\ Awaited' /\ \A g \in Files : SamePlan(g) /\ hub'[g].state = hub[g].state
  BY <1>1 DEF Inv, Kept, SamePlan, SameCalls, Says, Awaited
<1>4. ~overtaken => Follows'
  BY <1>1, PassKept
<1> QED BY <1>1, <1>2, <1>3, <1>4, PlanKept, ReceivedKept, CallsKept, InvFrom
        DEF SamePlan

\* A call writes the hub's row of its file: the pass still follows its plan, unless
\* the room had given the call up.
LEMMA FollowsUnlessOvertaken ==
    ASSUME Inv, NEW call \in calls, NEW plan \in Plan, hub' = [hub EXCEPT ![call.file] = plan],
           UNCHANGED <<mps, objects>>, job' = job, ~overtaken, ~Overtakes(call)
    PROVE  Follows'
<1>1. call.file \in Files
  BY DEF Inv, Types, HubCall
<1>2. CASE job = Idle
  BY <1>2, PassEnds
<1>3. CASE job # Idle /\ job.file # call.file
  <2>1. SamePlan(job.file)
    BY <1>1, <1>3, JobShape, HubWritten DEF Inv, SamePlan
  <2> QED BY <2>1, FollowsKept, StorageKept
<1>4. CASE job # Idle /\ job.file = call.file
  <2>1. call.heard \/ job.phase = "begin"
    BY <1>4 DEF Overtakes, Busy
  <2>2. job.phase \in {"begin", "complete"}
    BY <2>1 DEF Inv, Awaited
  <2> QED BY <2>2 DEF Follows
<1> QED BY <1>2, <1>3, <1>4

LEMMA StepReturnBegin ==
    ASSUME Inv, NEW call \in calls, ReturnBegin(call) PROVE Inv'
<1>1. call.file \in Files /\ call \in HubCall /\ call.op = "begin" /\ call.stage = "done"
  BY DEF Inv, Types, HubCall, ReturnBegin
<1>2. UNCHANGED <<rows, cancelled, mps, objects, partSize>> /\ calls' = calls \ {call} /\ Kept
  BY DEF ReturnBegin, storageVars, Kept
<1>3. CASE UNCHANGED <<hub, job, overtaken>>
  <2>1. SameCalls /\ Awaited' /\ calls' \subseteq HubCall
    BY <1>2, <1>3 DEF Inv, Types, Awaited, SameCalls, Says
  <2>2. ~overtaken => Follows'
    BY <1>2, <1>3, PassKept
  <2> QED BY <1>2, <1>3, <2>1, <2>2, RoomFrame DEF Inv, Types
<1>4. CASE ~UNCHANGED <<hub, job, overtaken>>
  <2>1. PICK plan \in Plan : plan = NewPlan(call)
    BY <1>1 DEF NewPlan, Plan, HubCall
  <2>2. /\ plan.state = "en-cours" /\ plan.cut = call.cut /\ plan.mp = call.mp /\ plan.parts = {}
        /\ hub' = [hub EXCEPT ![call.file] = plan] /\ overtaken' = (overtaken \/ Overtakes(call))
    BY <1>4, <2>1 DEF NewPlan, ReturnBegin
  <2>3. PICK answered \in Promised : /\ answered = Planned(call.file, plan) /\ answered.phase = "planned"
                                     /\ answered.file = call.file /\ answered.plan = plan
    BY <1>1, PlannedIs
  <2>4. Answer(call, answered)
    BY <1>4, <2>1, <2>3 DEF ReturnBegin
  <2>5. /\ Awaited' /\ SameCalls /\ calls' \subseteq HubCall
        /\ job' = job \/ (job' = answered /\ call.heard)
    BY <1>2, <2>3, <2>4, Answered
  <2>6. /\ hub' \in [Files -> Plan] /\ hub'[call.file] = plan
        /\ \A g \in Files \ {call.file} : hub'[g] = hub[g]
    BY <1>1, <2>2, HubWritten DEF Inv
  <2>7. Types'
    <3>1. job' \in Jobs
      BY <2>3, <2>5, ShapeIsJob DEF Inv, Types
    <3>2. overtaken' \in BOOLEAN
      BY <2>2 DEF Inv, Types, Overtakes
    <3> QED BY <1>2, <2>5, <2>6, <3>1, <3>2 DEF Inv, Types
  <2>8. ASSUME NEW g \in Files PROVE NamedPlan(g)' /\ (~overtaken => Received(g)')
    <3>1. CASE g = call.file
      <4>1. NamedPlan(g)'
        BY <1>1, <1>2, <2>2, <2>6, <3>1 DEF Inv, Named, NamedPlan, NamedCall, Names
      <4>2. ~overtaken => Received(g)'
        BY <1>2, <2>2, <2>6, <3>1 DEF Inv, Safe, Received
      <4> QED BY <4>1, <4>2
    <3>2. CASE g # call.file
      <4>1. SamePlan(g) /\ hub'[g].state = hub[g].state
        BY <2>6, <3>2 DEF SamePlan
      <4> QED BY <1>2, <4>1, PlanKept, ReceivedKept DEF SamePlan
    <3> QED BY <3>1, <3>2
  <2>9. ~overtaken' => ~overtaken /\ Follows'
    <3> SUFFICES ASSUME ~overtaken' PROVE ~overtaken /\ Follows'
      OBVIOUS
    <3>1. ~overtaken /\ ~Overtakes(call)
      BY <2>2
    <3>2. CASE job' = job
      BY <1>2, <2>2, <3>1, <3>2, FollowsUnlessOvertaken
    <3>3. CASE job' = answered
      BY <2>3, <2>6, <3>1, <3>3 DEF Follows
    <3> QED BY <2>5, <3>1, <3>2, <3>3
  <2> QED BY <1>2, <2>5, <2>7, <2>8, <2>9, CallsKept, InvFrom
<1> QED BY <1>3, <1>4

LEMMA StepReturnAbort ==
    ASSUME Inv, NEW call \in calls, ReturnAbort(call) PROVE Inv'
<1> DEFINE f == call.file
<1>1. f \in Files /\ call.op = "abort" /\ hub[f] \in Plan
  BY DEF Inv, Types, HubCall, ReturnAbort
<1>2. UNCHANGED <<rows, cancelled, job, mps, objects, partSize, overtaken>> /\ calls' = calls \ {call} /\ Kept
  BY DEF ReturnAbort, storageVars, roomVars, Kept
<1>3. PICK plan \in Plan : /\ plan = [hub[f] EXCEPT !.state = "abandonne"] /\ plan.state = "abandonne"
                           /\ plan.mp = hub[f].mp /\ plan.cut = hub[f].cut /\ plan.parts = hub[f].parts
  <2> DEFINE made == [hub[f] EXCEPT !.state = "abandonne"]
  <2>1. /\ made \in Plan /\ made.state = "abandonne"
        /\ made.mp = hub[f].mp /\ made.cut = hub[f].cut /\ made.parts = hub[f].parts
    BY <1>1 DEF Plan
  <2> QED BY <2>1
<1>4. hub' = [hub EXCEPT ![f] = plan]
  BY <1>1, <1>3 DEF ReturnAbort, Inv, Types
<1>5. hub' \in [Files -> Plan] /\ hub'[f] = plan /\ \A g \in Files \ {f} : hub'[g] = hub[g]
  BY <1>1, <1>4, HubWritten DEF Inv
<1>6. \A g \in Files : SamePlan(g) /\ (hub'[g].state = "termine" => hub[g].state = "termine")
  BY <1>3, <1>5 DEF SamePlan
<1>7. SameCalls /\ Awaited' /\ Types'
  BY <1>2, <1>5 DEF Inv, Types, SameCalls, Says, Awaited
<1>8. ~overtaken => Follows'
  BY <1>2, <1>6, FollowsKept, JobShape DEF Inv
<1> QED BY <1>2, <1>6, <1>7, <1>8, PlanKept, ReceivedKept, CallsKept, InvFrom
        DEF SamePlan

LEMMA StepReturnComplete ==
    ASSUME Inv, NEW call \in calls, ReturnComplete(call) PROVE Inv'
<1> DEFINE f == call.file
<1>1. /\ f \in Files /\ call \in HubCall /\ call.op = "complete" /\ hub[f] \in Plan
      /\ call.stage \in {"done", "gone", "failed"}
  BY DEF Inv, Types, HubCall, ReturnComplete
<1>2. UNCHANGED <<rows, cancelled, mps, objects, partSize>> /\ calls' = calls \ {call} /\ Kept
  BY DEF ReturnComplete, storageVars, Kept
<1>3. CASE call.stage = "failed"
  <2>1. UNCHANGED <<hub, job, overtaken>>
    BY <1>3 DEF ReturnComplete, Inv, Types
  <2>2. SameCalls /\ Awaited' /\ calls' \subseteq HubCall
    BY <1>2, <2>1 DEF Inv, Types, Awaited, SameCalls, Says
  <2>3. ~overtaken => Follows'
    BY <1>2, <2>1, PassKept
  <2> QED BY <1>2, <2>1, <2>2, <2>3, RoomFrame DEF Inv, Types
<1>4. CASE call.stage = "gone"
  <2>1. PICK plan \in Plan : /\ plan = [hub[f] EXCEPT !.state = "abandonne", !.mp = 0, !.parts = {}]
                             /\ plan.state = "abandonne" /\ plan.mp = 0
    <3> DEFINE made == [hub[f] EXCEPT !.state = "abandonne", !.mp = 0, !.parts = {}]
    <3>1. made \in Plan /\ made.state = "abandonne" /\ made.mp = 0
      BY <1>1 DEF Plan
    <3> QED BY <3>1
  <2>2. hub' = [hub EXCEPT ![f] = plan]
    BY <1>1, <1>4, <2>1 DEF ReturnComplete, Inv, Types
  <2>3. hub' \in [Files -> Plan] /\ hub'[f] = plan /\ \A g \in Files \ {f} : hub'[g] = hub[g]
    BY <1>1, <2>2, HubWritten DEF Inv
  <2>4. job' = job /\ overtaken' = (overtaken \/ Overtakes(call))
    BY <1>4 DEF ReturnComplete
  <2>5. SameCalls /\ Awaited' /\ Types'
    <3>1. overtaken' \in BOOLEAN
      BY <2>4 DEF Inv, Types, Overtakes
    <3> QED BY <1>2, <2>3, <2>4, <3>1 DEF Inv, Types, SameCalls, Says, Awaited
  <2>6. ~overtaken' => ~overtaken /\ Follows'
    BY <1>2, <2>2, <2>4, FollowsUnlessOvertaken
  <2>7. ASSUME NEW g \in Files PROVE NamedPlan(g)' /\ (~overtaken => Received(g)')
    <3>1. CASE g = f
      BY <1>2, <2>1, <2>3, <3>1 DEF Inv, Safe, NamedPlan, Received
    <3>2. CASE g # f
      <4>1. SamePlan(g) /\ hub'[g].state = hub[g].state
        BY <2>3, <3>2 DEF SamePlan
      <4> QED BY <1>2, <4>1, PlanKept, ReceivedKept DEF SamePlan
    <3> QED BY <3>1, <3>2
  <2> QED BY <1>2, <2>5, <2>6, <2>7, CallsKept, InvFrom
<1>5. CASE call.stage = "done"
  <2>1. PICK plan \in Plan : /\ plan = [hub[f] EXCEPT !.state = "termine"]
                             /\ plan.mp = hub[f].mp /\ plan.cut = hub[f].cut /\ plan.parts = hub[f].parts
    <3> DEFINE made == [hub[f] EXCEPT !.state = "termine"]
    <3>1. made \in Plan /\ made.mp = hub[f].mp /\ made.cut = hub[f].cut /\ made.parts = hub[f].parts
      BY <1>1 DEF Plan
    <3> QED BY <3>1
  <2>2. hub' = [hub EXCEPT ![f] = plan] /\ overtaken' = overtaken
    BY <1>1, <1>5, <2>1 DEF ReturnComplete, Inv, Types
  <2>3. hub' \in [Files -> Plan] /\ hub'[f] = plan /\ \A g \in Files \ {f} : hub'[g] = hub[g]
    BY <1>1, <2>2, HubWritten DEF Inv
  <2>4. \A g \in Files : SamePlan(g) /\ (g # f => hub'[g].state = hub[g].state)
    BY <2>1, <2>3 DEF SamePlan
  <2>5. PICK answered \in Tracked :
           /\ answered = [phase |-> "completed", file |-> f]
           /\ answered.phase = "completed" /\ answered.file = f
    <3> DEFINE made == [phase |-> "completed", file |-> f]
    <3>1. made \in Tracked /\ made.phase = "completed" /\ made.file = f
      BY <1>1 DEF Tracked
    <3> QED BY <3>1
  <2>6. Answer(call, answered)
    BY <1>5, <2>5 DEF ReturnComplete
  <2>7. /\ Awaited' /\ SameCalls /\ calls' \subseteq HubCall
        /\ job' = job \/ (job' = answered /\ call.heard)
    BY <1>2, <2>5, <2>6, Answered
  <2>8. Types'
    <3>1. job' \in Jobs
      BY <2>5, <2>7, ShapeIsJob DEF Inv, Types
    <3> QED BY <1>2, <2>2, <2>3, <2>7, <3>1 DEF Inv, Types
  <2>9. ~overtaken => objects'[f] = "whole"
    BY <1>1, <1>2, <1>5 DEF Inv, Safe, Assembled
  <2>10. ~overtaken => Follows'
    <3>1. CASE job' = job
      BY <1>2, <2>4, <3>1, FollowsKept, JobShape DEF Inv
    <3>2. CASE job' = answered
      BY <2>5, <2>9, <3>2 DEF Follows
    <3> QED BY <2>7, <3>1, <3>2
  <2>11. \A g \in Files : NamedPlan(g)' /\ (~overtaken => Received(g)')
    BY <1>2, <2>4, <2>9, PlanKept, ReceivedKept DEF SamePlan
  <2> QED BY <1>2, <2>2, <2>7, <2>8, <2>10, <2>11, CallsKept, InvFrom
<1> QED BY <1>1, <1>3, <1>4, <1>5

\* A multipart that ends is the same one.
LEMMA EndedIs ==
    ASSUME NEW state \in {"assembled", "aborted"}
    PROVE  \A mp \in Multipart : LET new == [mp EXCEPT !.state = state]
                                 IN  /\ new \in Multipart /\ new.file = mp.file
                                     /\ new.cut = mp.cut /\ new.got = mp.got
  BY DEF Multipart

LEMMA StepRestartHub ==
    ASSUME Inv, RestartHub PROVE Inv'
<1>1. UNCHANGED <<rows, cancelled, job, hub, objects, partSize, overtaken>> /\ calls' = {}
  BY DEF RestartHub, roomVars
<1>2. PICK old \in SUBSET {mp \in DOMAIN mps : Open(mp) /\ mp \notin Claimed} :
         mps' = [mp \in DOMAIN mps |-> IF mp \in old THEN [mps[mp] EXCEPT !.state = "aborted"] ELSE mps[mp]]
  BY DEF RestartHub
<1>3. mps' \in Seq(Multipart) /\ Kept
  <2>1. mps \in Seq(Multipart)
    BY DEF Inv, Types
  <2>2. \A mp \in DOMAIN mps : LET new == [mps[mp] EXCEPT !.state = "aborted"]
                               IN  /\ mps[mp] \in Multipart /\ new \in Multipart /\ new.file = mps[mp].file
                                   /\ new.cut = mps[mp].cut /\ new.got = mps[mp].got
    <3>1. \A mp \in DOMAIN mps : mps[mp] \in Multipart
      BY <2>1
    <3> QED BY <3>1, EndedIs
  <2>3. \A mp \in DOMAIN mps : /\ mps'[mp] \in Multipart /\ mps'[mp].file = mps[mp].file
                               /\ mps'[mp].cut = mps[mp].cut /\ mps'[mp].got = mps[mp].got
    BY <1>2, <2>2
  <2>4. DOMAIN mps = 1..Len(mps) /\ Len(mps) \in Nat
    BY <2>1
  <2>5. mps' \in [1..Len(mps) -> Multipart]
    BY <1>2, <2>3, <2>4
  <2>6. mps' \in Seq(Multipart)
    BY <2>4, <2>5
  <2> QED BY <1>1, <1>2, <2>3, <2>6 DEF Kept
<1>4. \A g \in Files : SamePlan(g) /\ hub'[g].state = hub[g].state
  BY <1>1 DEF SamePlan
<1>5. SameCalls /\ Awaited' /\ Types'
  BY <1>1, <1>3 DEF Inv, Types, SameCalls, Says, Awaited
<1>6. ~overtaken => Follows'
  BY <1>1, <1>3, <1>4, FollowsKept, JobShape DEF Inv
<1> QED BY <1>1, <1>3, <1>4, <1>5, <1>6, PlanKept, ReceivedKept, CallsKept, InvFrom
        DEF SamePlan

-----------------------------------------------------------------------------
(***************************************************************************)
(* The storage answers.                                                    *)
(***************************************************************************)

\* A call goes on at the hub with the storage's answer.
LEMMA OnIs ==
    ASSUME Inv, NEW call \in calls, NEW stage \in {"create", "ask", "done", "gone", "failed"}, NEW mp \in Nat,
           On(call, stage, mp), UNCHANGED job
    PROVE  /\ calls' \subseteq HubCall /\ Awaited'
           /\ \A c \in calls' : c \in calls \/ (/\ c.op = call.op /\ c.file = call.file /\ c.stage = stage
                                               /\ c.mp = mp /\ c.cut = call.cut)
<1>1. call \in HubCall /\ calls \subseteq HubCall
  BY DEF Inv, Types
<1>2. PICK new \in HubCall : /\ new = [call EXCEPT !.stage = stage, !.mp = mp, !.listed = {}]
                             /\ new.op = call.op /\ new.file = call.file /\ new.stage = stage
                             /\ new.mp = mp /\ new.cut = call.cut /\ new.heard = call.heard
  <2> DEFINE made == [call EXCEPT !.stage = stage, !.mp = mp, !.listed = {}]
  <2>1. /\ made \in HubCall /\ made.op = call.op /\ made.file = call.file /\ made.stage = stage
        /\ made.mp = mp /\ made.cut = call.cut /\ made.heard = call.heard
    BY <1>1 DEF HubCall
  <2> QED BY <2>1
<1>3. \A c \in calls' : c \in calls \ {call} \/ c = new
  BY <1>2 DEF On
<1> QED BY <1>1, <1>2, <1>3 DEF Inv, Awaited

\* What the storage does to a multipart leaves the rest standing.
LEMMA StorageFrame ==
    ASSUME Inv, Kept, mps' \in Seq(Multipart), objects' \in [Files -> {"none", "whole", "cut"}],
           UNCHANGED <<rows, cancelled, job, hub, partSize, overtaken>>, calls' \subseteq HubCall, Awaited',
           \A c \in calls' : c \notin calls => NamedCall(c)' /\ (~overtaken => Assembled(c)')
    PROVE  Inv'
<1>1. \A g \in Files : SamePlan(g) /\ hub'[g].state = hub[g].state
  BY DEF SamePlan
<1>2. Types'
  BY DEF Inv, Types
<1>3. ~overtaken => Follows'
  BY <1>1, FollowsKept, JobShape DEF Inv
<1>4. \A g \in Files : NamedPlan(g)' /\ (~overtaken => Received(g)')
  BY <1>1, PlanKept, ReceivedKept DEF SamePlan
<1>5. \A c \in calls' : NamedCall(c)' /\ (~overtaken => Assembled(c)')
  BY CallKept DEF Says
<1> QED BY <1>2, <1>3, <1>4, <1>5, InvFrom

LEMMA StepAborts ==
    ASSUME Inv, NEW call \in calls, Aborts(call) PROVE Inv'
<1> DEFINE stage == IF call.op = "begin" THEN Opening(call.cut) ELSE "done"
<1>1. UNCHANGED <<rows, cancelled, job, hub, objects, partSize, overtaken>>
  BY DEF Aborts, roomVars
<1>2. mps \in Seq(Multipart) /\ call \in HubCall /\ call.op \in {"begin", "abort"} /\ call.stage \in {"abort", "ask"}
  BY DEF Inv, Types, Aborts
<1>3. mps' \in Seq(Multipart) /\ Kept
  <2>1. CASE UNCHANGED mps
    BY <1>1, <1>2, <2>1 DEF Kept
  <2>2. CASE Open(call.mp) /\ mps' = [mps EXCEPT ![call.mp].state = "aborted"]
    <3>1. call.mp \in DOMAIN mps /\ mps[call.mp] \in Multipart
      BY <1>2, <2>2 DEF Open
    <3> QED BY <1>1, <1>2, <2>2, <3>1, EndedIs DEF Kept
  <2> QED BY <2>1, <2>2 DEF Aborts
<1>4. stage \in {"create", "ask", "done", "gone", "failed"} /\ stage \in {"create", "done"} /\ On(call, stage, 0)
  BY DEF Opening, Aborts
<1>5. call.op = "begin" => call.cut \in Cuts
  BY <1>2 DEF Inv, Named, NamedCall
<1> HIDE DEF stage
<1>6. /\ calls' \subseteq HubCall /\ Awaited'
      /\ \A c \in calls' : c \in calls \/ (/\ c.op = call.op /\ c.file = call.file /\ c.stage = stage
                                          /\ c.mp = 0 /\ c.cut = call.cut)
  BY <1>1, <1>4, OnIs
<1>7. \A c \in calls' : c \notin calls => NamedCall(c)' /\ Assembled(c)'
  BY <1>2, <1>4, <1>5, <1>6 DEF NamedCall, Assembled
<1>8. objects' \in [Files -> {"none", "whole", "cut"}]
  BY <1>1 DEF Inv, Types
<1> QED BY <1>1, <1>3, <1>6, <1>7, <1>8, StorageFrame

LEMMA StepOpens ==
    ASSUME Inv, NEW call \in calls, Opens(call) PROVE Inv'
<1>1. UNCHANGED <<rows, cancelled, job, hub, objects, partSize, overtaken>>
  BY DEF Opens, roomVars
<1>2. /\ mps \in Seq(Multipart) /\ call \in HubCall /\ call.op = "begin" /\ call.stage = "create"
      /\ call.file \in Files /\ call.cut \in Cuts /\ objects' \in [Files -> {"none", "whole", "cut"}]
  BY <1>1 DEF Inv, Types, Opens, HubCall, Named, NamedCall
<1>3. CASE calls' = calls \ {call} /\ UNCHANGED mps
  <2>1. calls' \subseteq HubCall /\ Awaited' /\ Kept
    BY <1>1, <1>3 DEF Inv, Types, Awaited, Kept
  <2> QED BY <1>1, <1>2, <1>3, <2>1, StorageFrame
<1>4. CASE /\ mps' = Append(mps, [file |-> call.file, cut |-> call.cut, got |-> {}, state |-> "open"])
           /\ On(call, "done", Len(mps'))
  <2>1. [file |-> call.file, cut |-> call.cut, got |-> {}, state |-> "open"] \in Multipart
    BY <1>2 DEF Multipart
  <2>2. PICK new \in Multipart : /\ mps' = Append(mps, new) /\ new.file = call.file /\ new.cut = call.cut
    BY <1>4, <2>1
  <2>3. /\ mps' \in Seq(Multipart) /\ Len(mps') = Len(mps) + 1 /\ Len(mps') \in Nat /\ mps'[Len(mps')] = new
        /\ Len(mps') \in DOMAIN mps' /\ Kept
    BY <1>1, <1>2, <2>2 DEF Kept
  <2>4. PICK mp \in Nat : mp = Len(mps')
    BY <2>3
  <2>5. /\ calls' \subseteq HubCall /\ Awaited'
        /\ \A c \in calls' : c \in calls \/ (/\ c.op = call.op /\ c.file = call.file /\ c.stage = "done"
                                            /\ c.mp = mp /\ c.cut = call.cut)
    BY <1>1, <1>4, <2>4, OnIs
  <2>6. \A c \in calls' : c \notin calls => NamedCall(c)' /\ Assembled(c)'
    BY <1>2, <2>2, <2>3, <2>4, <2>5 DEF NamedCall, Assembled, Names
  <2> QED BY <1>1, <1>2, <2>3, <2>5, <2>6, StorageFrame
<1> QED BY <1>3, <1>4 DEF Opens

LEMMA StepAssembles ==
    ASSUME Inv, NEW call \in calls, Assembles(call) PROVE Inv'
<1>1. UNCHANGED <<rows, cancelled, job, hub, partSize, overtaken>>
  BY DEF Assembles, roomVars
<1>2. /\ mps \in Seq(Multipart) /\ call \in HubCall /\ call.op = "complete" /\ call.stage = "ask"
      /\ call.file \in Files /\ objects \in [Files -> {"none", "whole", "cut"}]
  BY DEF Inv, Types, Assembles, HubCall
<1>3. ASSUME NEW stage \in {"gone", "failed"}, On(call, stage, 0), UNCHANGED <<mps, objects>> PROVE Inv'
  <2>1. /\ calls' \subseteq HubCall /\ Awaited'
        /\ \A c \in calls' : c \in calls \/ (/\ c.op = call.op /\ c.file = call.file /\ c.stage = stage
                                            /\ c.mp = 0 /\ c.cut = call.cut)
    BY <1>1, <1>3, OnIs
  <2>2. \A c \in calls' : c \notin calls => NamedCall(c)' /\ Assembled(c)'
    BY <1>2, <1>3, <2>1 DEF NamedCall, Assembled
  <2>3. Kept
    BY <1>3 DEF Kept
  <2> QED BY <1>1, <1>2, <1>3, <2>1, <2>2, <2>3, StorageFrame
<1>4. CASE /\ Open(call.mp) /\ call.listed # {} /\ call.listed \subseteq mps[call.mp].got
           /\ mps' = [mps EXCEPT ![call.mp].state = "assembled"]
           /\ objects' = [objects EXCEPT ![call.file] =
                            IF call.listed = 1..mps[call.mp].cut THEN "whole" ELSE "cut"]
           /\ On(call, "done", 0)
  <2>1. call.mp \in DOMAIN mps /\ mps[call.mp] \in Multipart
    BY <1>2, <1>4 DEF Open
  <2>2. ~overtaken => call.listed = 1..mps[call.mp].cut
    BY <1>2 DEF Inv, Safe, Assembled
  <2>3. mps' \in Seq(Multipart)
    BY <1>2, <1>4, <2>1, EndedIs
  <2>4. /\ objects' \in [Files -> {"none", "whole", "cut"}]
        /\ ~overtaken => objects' = [objects EXCEPT ![call.file] = "whole"]
    BY <1>2, <1>4, <2>2
  <2>5. Kept
    <3>1. \A i \in DOMAIN mps : i \in DOMAIN mps' /\ mps[i].got \subseteq mps'[i].got
                               /\ mps'[i].file = mps[i].file /\ mps'[i].cut = mps[i].cut
      BY <1>2, <1>4, <2>1, EndedIs
    <3>2. ~overtaken => \A f \in Files : objects'[f] = objects[f] \/ objects'[f] = "whole"
      BY <1>2, <2>4
    <3> QED BY <3>1, <3>2 DEF Kept
  <2>6. /\ calls' \subseteq HubCall /\ Awaited'
        /\ \A c \in calls' : c \in calls \/ (/\ c.op = call.op /\ c.file = call.file /\ c.stage = "done"
                                            /\ c.mp = 0 /\ c.cut = call.cut)
    BY <1>1, <1>4, OnIs
  <2>7. \A c \in calls' : c \notin calls => NamedCall(c)' /\ (~overtaken => Assembled(c)')
    <3> SUFFICES ASSUME NEW c \in calls', c \notin calls PROVE NamedCall(c)' /\ (~overtaken => Assembled(c)')
      OBVIOUS
    <3>1. c.op = "complete" /\ c.file = call.file /\ c.stage = "done" /\ c.mp = 0
      BY <1>2, <2>6
    <3>2. ~overtaken => objects'[c.file] = "whole"
      BY <1>2, <2>4, <3>1
    <3> QED BY <3>1, <3>2 DEF NamedCall, Assembled
  <2> QED BY <1>1, <2>3, <2>4, <2>5, <2>6, <2>7, StorageFrame
<1> QED BY <1>3, <1>4 DEF Assembles, storageVars

-----------------------------------------------------------------------------
(***************************************************************************)
(* The theorems.                                                           *)
(***************************************************************************)

LEMMA InvStep == Inv /\ [Next]_vars => Inv'
<1> SUFFICES ASSUME Inv, [Next]_vars PROVE Inv'
  OBVIOUS
<1>1. CASE Room
  <2>1. ASSUME NEW f \in Files, Request(f) \/ Cancel(f) \/ Start(f) PROVE Inv'
    BY <2>1, StepRequest, StepCancel, StepStart
  <2>2. CASE ForgetAll \/ TakePlan \/ Stop \/ Sign \/ Put
    BY <2>2, StepForgetAll, StepTakePlan, StepStop, StepSign, StepPut
  <2>3. CASE Progress \/ PutWhole \/ AskComplete \/ Finish
    BY <2>3, StepProgress, StepPutWhole, StepAskComplete, StepFinish
  <2>4. CASE EndPass \/ Fail \/ RestartRoom
    BY <2>4, StepEndPass, StepFail, StepRestartRoom
  <2> QED BY <1>1, <2>1, <2>2, <2>3, <2>4 DEF Room
<1>2. CASE Hub
  <2>1. ASSUME NEW call \in calls, BeginAgain(call) \/ BeginAnew(call) \/ ReturnBegin(call) PROVE Inv'
    BY <2>1, StepBeginAgain, StepBeginAnew, StepReturnBegin
  <2>2. ASSUME NEW call \in calls, ReturnComplete(call) \/ ReturnAbort(call) PROVE Inv'
    BY <2>2, StepReturnComplete, StepReturnAbort
  <2>3. ASSUME NEW f \in Files, Housekeeping(f) PROVE Inv'
    BY <2>3, StepHousekeeping
  <2>4. ASSUME NEW cut \in Cuts, SetPartSize(cut) PROVE Inv'
    BY <2>4, StepSetPartSize
  <2> QED BY <1>2, <2>1, <2>2, <2>3, <2>4, StepRestartHub DEF Hub
<1>3. CASE Storage
  BY <1>3, StepAborts, StepOpens, StepAssembles DEF Storage
<1>4. CASE UNCHANGED vars
  <2>1. UNCHANGED <<rows, cancelled, job, partSize, hub, calls, mps, objects, overtaken>>
    BY <1>4 DEF vars, roomVars, storageVars
  <2>2. SameCalls /\ Awaited' /\ (~overtaken => Follows')
    BY <2>1, PassKept DEF Inv, SameCalls, Says, Awaited
  <2> QED BY <2>1, <2>2, RoomFrame DEF Inv, Types
<1> QED BY <1>1, <1>2, <1>3, <1>4 DEF Next

LEMMA InvHolds == Spec => []Inv
  BY InvInit, InvStep, PTL DEF Spec

\* Every variable has its type, and a plan names a multipart opened for its file, at
\* its part size, whatever the calls that crossed.
THEOREM PlansNameTheirMultipart == Spec => []TypeOK
<1>1. Inv => TypeOK
  BY JobShape DEF Inv, Types, TypeOK, Named, NamedPlan, Names, Multipart, Busy
<1> QED BY <1>1, InvHolds, PTL

\* A rush shown as finished is at the storage, whole, unless a call the room had
\* given up rewrote the plan it was following.
THEOREM FinishedIsWhole == Spec => []SafeIsWhole
<1>1. Inv => SafeIsWhole
  BY DEF Inv, Safe, Received, SafeIsWhole
<1> QED BY <1>1, InvHolds, PTL

\* The parts a room need not send again were received by the multipart that will be
\* assembled, under the same condition.
THEOREM NothingToResend == Spec => []ResumedPartsArrived
<1>1. Inv => ResumedPartsArrived
  BY DEF Inv, Safe, Received, ResumedPartsArrived
<1> QED BY <1>1, InvHolds, PTL
=============================================================================
