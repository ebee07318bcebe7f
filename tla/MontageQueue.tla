---------------------------- MODULE MontageQueue ----------------------------
(***************************************************************************)
(* The montage queue of the hub (montage.ts): takes queued, leased to      *)
(* workers that ask for them, analysed, validated, rendered and uploaded.  *)
(*                                                                         *)
(* A worker's calls carry its lease.  Three of them, and the console's     *)
(* cancel, wait for the storage in the middle: the row is read before the  *)
(* wait and written after it, and every other call may come in between.    *)
(***************************************************************************)
EXTENDS Naturals, FiniteSets

CONSTANTS
    Workers,       \* worker ids; replicas of the deployment's share one
    NoWorker,      \* the value of a row no worker holds
    Talks,         \* the talks
    MaxAttempts,   \* MAX_ATTEMPTS (3)
    MaxJobs,       \* bound of the model: rows ever created
    MaxTakes,      \* bound of the model: takes queued
    MaxLeases,     \* bound of the model: leases granted
    MaxCalls,      \* bound of the model: calls waiting for the storage at once
    MaxUploads     \* bound of the model: multiparts opened

ASSUME NoWorkerAssumption == NoWorker \notin Workers
ASSUME AttemptsAssumption == MaxAttempts \in Nat \ {0}
ASSUME BoundsAssumption == 
    {MaxJobs, MaxTakes, MaxLeases, MaxCalls, MaxUploads} \subseteq Nat

VARIABLES
    jobs,       \* the rows, by id; ids grow, and createdAt with them
    created,    \* rows ever created
    takes,      \* takes ever queued
    deferred,   \* the jobs whose pasAvant lies ahead
    lapsed,     \* the jobs under way whose leaseUntil is past
    leases,     \* every lease ever granted: its job and its worker
    active,     \* the workers not revoked
    calls,      \* the calls waiting for the storage
    uploads,    \* multiparts ever opened
    open,       \* those neither completed nor aborted
    videos,     \* the jobs a video was assembled for
    deaths,     \* history: how often in a row a job's worker died
    late        \* history: a call that waited wrote a job its lease no longer held

workerVars == <<leases, active>>
storageVars == <<uploads, open, videos>>
vars == <<jobs, created, takes, deferred, lapsed, workerVars, calls,
          storageVars, deaths, late>>

Live == {"attente", "en-cours"}
JobIds == DOMAIN jobs
Bails == DOMAIN leases
Row(job, state) == job \in JobIds /\ jobs[job].state = state

Init ==
    /\ jobs = [job \in {} |-> {}]
    /\ created = 0 /\ takes = 0
    /\ deferred = {} /\ lapsed = {}
    /\ leases = [bail \in {} |-> {}] /\ active = Workers
    /\ calls = {}
    /\ uploads = 0 /\ open = {} /\ videos = {}
    /\ deaths = [job \in 1..MaxJobs |-> 0]
    /\ late = FALSE
-----------------------------------------------------------------------------
(***************************************************************************)
(* The writes.                                                             *)
(***************************************************************************)

\* Back to the queue: the lease's id stays on the row.
Released(row) == [row EXCEPT !.state = "attente", !.worker = NoWorker]

\* finish.
Ended(row, state) == [row EXCEPT !.state = state, !.upload = 0]

\* expireLeases.
Lapsed(job) == job \in lapsed /\ Row(job, "en-cours")
AfterExpiry_Always ==    \* mutant: the attempts are not counted
    [job \in JobIds |-> IF Lapsed(job) THEN Released(jobs[job]) ELSE jobs[job]]

AfterExpiry ==
    [job \in JobIds |->
        IF ~Lapsed(job) THEN jobs[job]
        ELSE IF jobs[job].tries >= MaxAttempts THEN Ended(jobs[job], "echoue")
        ELSE Released(jobs[job])]
DeathsAfterExpiry ==
    [job \in 1..MaxJobs |-> IF Lapsed(job) THEN deaths[job] + 1 ELSE deaths[job]]
-----------------------------------------------------------------------------
(***************************************************************************)
(* The queue.                                                              *)
(***************************************************************************)

\* enqueue: a take has arrived, or is edited again.  The talk's waiting job is
\* replaced; when the console names a job, only one waiting for the same take.
Enqueue(talk, take, thisTakeOnly) ==
    LET waiting == {job \in JobIds :
                      /\ jobs[job].talk = talk /\ jobs[job].state = "attente"
                      /\ thisTakeOnly => jobs[job].take = take}
        renewed(job) == [jobs[job] EXCEPT !.take = take, !.phase = "analyse",
                                          !.analysed = FALSE]
        new == [talk |-> talk, take |-> take, state |-> "attente",
                phase |-> "analyse", analysed |-> FALSE, worker |-> NoWorker,
                bail |-> 0, tries |-> 0, upload |-> 0]
    IN  /\ takes' = IF take > takes THEN take ELSE takes
        /\ \/ \E job \in waiting :
                /\ jobs' = [jobs EXCEPT ![job] = renewed(job)]
                /\ deferred' = deferred \ {job}
                /\ UNCHANGED created
           \/ /\ waiting = {}
              /\ created < MaxJobs
              /\ created' = created + 1
              /\ jobs' = [job \in JobIds \cup {created'} |->
                            IF job = created' THEN new ELSE jobs[job]]
              /\ UNCHANGED deferred
        /\ UNCHANGED <<lapsed, workerVars, calls, storageVars, deaths>>

\* claim, and the leases that lapsed with it.  The oldest job due is leased to
\* the worker; those before it lost their sidecar and fail.  Pausing the queue,
\* which an operator may do at any time, leaves only the first part.
Claim(worker, lost) ==
    LET due == {job \in JobIds \ deferred : AfterExpiry[job].state = "attente"}
        missing == [job \in JobIds |->
                      IF job \in lost THEN Ended(AfterExpiry[job], "echoue")
                      ELSE AfterExpiry[job]]
        bail == Cardinality(Bails) + 1
        taken(job) == [missing[job] EXCEPT !.state = "en-cours", !.worker = worker,
                                           !.bail = bail, !.tries = @ + 1]
    IN  /\ worker \in active
        /\ lapsed' = {job \in lapsed : ~Lapsed(job)}
        /\ deaths' = DeathsAfterExpiry
        /\ \/ lost = {} /\ jobs' = AfterExpiry /\ UNCHANGED leases
           \/ /\ lost \subseteq due
              /\ due \ lost = {} \/ bail > MaxLeases
              /\ jobs' = missing
              /\ UNCHANGED leases
           \/ \E job \in due \ lost :
                /\ lost = {older \in due : older < job}
                /\ bail <= MaxLeases
                /\ jobs' = [missing EXCEPT ![job] = taken(job)]
                /\ leases' = [b \in Bails \cup {bail} |->
                                IF b = bail THEN [job |-> job, worker |-> worker]
                                ELSE leases[b]]
        /\ UNCHANGED <<created, takes, deferred, active, calls, storageVars>>

\* list, for the console: the leases that lapsed go.
List ==
    /\ jobs' = AfterExpiry
    /\ lapsed' = {job \in lapsed : ~Lapsed(job)}
    /\ deaths' = DeathsAfterExpiry
    /\ UNCHANGED <<created, takes, deferred, workerVars, calls, storageVars>>

\* Ten minutes with no heartbeat.
Lapse(job) ==
    /\ Row(job, "en-cours") /\ job \notin lapsed
    /\ lapsed' = lapsed \cup {job}
    /\ UNCHANGED <<jobs, created, takes, deferred, workerVars, calls, storageVars, deaths>>

ComeDue(job) ==
    /\ job \in deferred
    /\ deferred' = deferred \ {job}
    /\ UNCHANGED <<jobs, created, takes, lapsed, workerVars, calls, storageVars, deaths>>

\* A worker's row is revoked: what it held goes back to the queue.
Revoke(worker) ==
    /\ worker \in active
    /\ active' = active \ {worker}
    /\ jobs' = [job \in JobIds |->
                  IF jobs[job].worker = worker /\ jobs[job].state = "en-cours"
                  THEN Released(jobs[job]) ELSE jobs[job]]
    /\ lapsed' = {job \in lapsed : jobs'[job].state = "en-cours"}
    /\ UNCHANGED <<created, takes, deferred, leases, calls, storageVars, deaths>>

\* The deployment's worker comes back with its token.
Reinstate(worker) ==
    /\ worker \notin active
    /\ active' = active \cup {worker}
    /\ UNCHANGED <<jobs, created, takes, deferred, lapsed, leases, calls,
                   storageVars, deaths>>
-----------------------------------------------------------------------------
(***************************************************************************)
(* A worker's calls, each under the lease it was given.                    *)
(***************************************************************************)

\* checkLease: the worker and the lease's own id are those of the row.
OfTheRow_AnyReplica(bail) ==    \* mutant: the worker's id alone is compared
    LET job == leases[bail].job
    IN  /\ leases[bail].worker \in active
        /\ job \in JobIds
        /\ jobs[job].worker = leases[bail].worker

OfTheRow(bail) ==
    LET job == leases[bail].job
    IN  /\ leases[bail].worker \in active
        /\ job \in JobIds
        /\ jobs[job].worker = leases[bail].worker
        /\ jobs[job].bail = bail

\* held: and the job is under way.  fail asks the same, in two steps.
Held(bail) == OfTheRow(bail) /\ jobs[leases[bail].job].state = "en-cours"

Heartbeat(bail) ==
    /\ Held(bail)
    /\ lapsed' = lapsed \ {leases[bail].job}
    /\ UNCHANGED <<jobs, created, takes, deferred, workerVars, calls, storageVars, deaths>>

\* The analysis is in: on to the montage, or to the console.
AnalysisDone(bail, auto) ==
    LET job == leases[bail].job
        row == [jobs[job] EXCEPT !.analysed = TRUE]
    IN  /\ Held(bail)
        /\ row.phase = "analyse"
        /\ jobs' = [jobs EXCEPT ![job] =
                      IF auto THEN [row EXCEPT !.phase = "montage"]
                      ELSE [row EXCEPT !.state = "a-valider", !.worker = NoWorker]]
        /\ lapsed' = lapsed \ {job}
        /\ UNCHANGED <<created, takes, deferred, workerVars, calls, storageVars, deaths>>

\* What fail writes: an attempt that counts, one that does not, or the end.
\* The attempts are those read before the storage answered.
AfterFail(row, tries, how) ==
    IF how = "fail-count" /\ tries < MaxAttempts THEN Released(row)
    ELSE IF how = "fail-later"
    THEN [Released(row) EXCEPT !.tries = IF tries = 0 THEN 0 ELSE tries - 1]
    ELSE Ended(row, "echoue")
FailOps == {"fail", "fail-later", "fail-count"}

\* The end of fail, once the storage has answered if it had to.
SettleFail(job, tries, how) ==
    /\ jobs' = IF job \in JobIds
               THEN [jobs EXCEPT ![job] = AfterFail(jobs[job], tries, how)]
               ELSE jobs
    /\ deferred' = IF job \in JobIds /\ how = "fail-later"
                   THEN deferred \cup {job} ELSE deferred
    /\ lapsed' = lapsed \ {job}
    /\ deaths' = IF job \in JobIds /\ how = "fail-count"
                 THEN [deaths EXCEPT ![job] = @ + 1] ELSE deaths

\* A call that waits: what it read of the row, and what it asks the storage.
Wait(call) ==
    /\ Cardinality(calls) < MaxCalls
    /\ calls' = calls \cup {call}
Call(op, job, bail, upload) ==
    [op |-> op, job |-> job, bail |-> bail, tries |-> jobs[job].tries,
     upload |-> upload, answer |-> "none"]

\* With no multipart to abort, fail waits for nothing.
Fail(bail, how) ==
    LET job == leases[bail].job
        row == jobs[job]
    IN  /\ Held(bail)
        /\ \/ /\ row.upload = 0
              /\ SettleFail(job, row.tries, how)
              /\ UNCHANGED calls
           \/ /\ row.upload # 0
              /\ Wait(Call(how, job, bail, row.upload))
              /\ UNCHANGED <<jobs, deferred, lapsed, deaths>>
        /\ UNCHANGED <<created, takes, workerVars, storageVars>>

\* envoi: the previous multipart is aborted, then a new one is opened.
OpenUpload(bail) ==
    LET job == leases[bail].job
    IN  /\ Held(bail)
        /\ jobs[job].phase = "montage"
        /\ Wait(Call(IF jobs[job].upload = 0 THEN "open" ELSE "reopen",
                     job, bail, jobs[job].upload))
        /\ UNCHANGED <<jobs, created, takes, deferred, lapsed, workerVars,
                       storageVars, deaths>>

Complete(bail) ==
    LET job == leases[bail].job
    IN  /\ Held(bail)
        /\ jobs[job].upload # 0
        /\ Wait(Call("complete", job, bail, jobs[job].upload))
        /\ UNCHANGED <<jobs, created, takes, deferred, lapsed, workerVars,
                       storageVars, deaths>>
-----------------------------------------------------------------------------
(***************************************************************************)
(* The console.                                                            *)
(***************************************************************************)

\* The cut is set: the job goes to the montage on it, its lease's id kept.

Validate(job) ==
    /\ job \in JobIds
    /\ jobs[job].state \in {"a-valider", "termine", "echoue", "annule"}
    /\ jobs[job].analysed
    /\ jobs' = [jobs EXCEPT ![job].state = "attente", ![job].phase = "montage",
                            ![job].tries = 0]
    /\ deferred' = deferred \ {job}
    /\ deaths' = [deaths EXCEPT ![job] = 0]
    /\ UNCHANGED <<created, takes, lapsed, workerVars, calls, storageVars>>

\* cancel.  relaunch is a cancel of each live job, then enqueue: it waits
\* between them.
Cancel(job) ==
    /\ job \in JobIds
    /\ jobs[job].state \in Live
    /\ \/ /\ jobs[job].upload = 0
          /\ jobs' = [jobs EXCEPT ![job] = Ended(@, "annule")]
          /\ lapsed' = lapsed \ {job}
          /\ UNCHANGED calls
       \/ /\ jobs[job].upload # 0
          /\ Wait(Call("cancel", job, 0, jobs[job].upload))
          /\ UNCHANGED <<jobs, lapsed>>
    /\ UNCHANGED <<created, takes, deferred, workerVars, storageVars, deaths>>

\* The reset: every row goes.
ForgetAll ==
    /\ jobs' = [job \in {} |-> {}]
    /\ deferred' = {} /\ lapsed' = {}
    /\ videos' = {}
    /\ UNCHANGED <<created, takes, workerVars, calls, uploads, open, deaths>>
-----------------------------------------------------------------------------
(***************************************************************************)
(* The storage, and what the calls write once it has answered.             *)
(***************************************************************************)

\* The storage does what a call asks.  An abort never fails a call; completing
\* a multipart that is gone does.  A hub that restarts forgets its calls.
Answered(call, answer) == (calls \ {call}) \cup {[call EXCEPT !.answer = answer]}
Storage(call) ==
    /\ call \in calls /\ call.answer = "none"
    /\ \/ /\ call.op \in FailOps \cup {"cancel", "reopen"}
          /\ open' = open \ {call.upload}
          /\ calls' = Answered(call, "done")
          /\ UNCHANGED <<uploads, videos>>
       \/ /\ call.op = "open" /\ uploads < MaxUploads
          /\ uploads' = uploads + 1
          /\ open' = open \cup {uploads'}
          /\ calls' = (calls \ {call}) \cup
                      {[call EXCEPT !.answer = "done", !.upload = uploads']}
          /\ UNCHANGED videos
       \/ /\ call.op = "complete" /\ call.upload \in open
          /\ open' = open \ {call.upload}
          /\ videos' = videos \cup {call.job}
          /\ calls' = Answered(call, "done")
          /\ UNCHANGED uploads
       \/ /\ call.op \in {"open", "complete"}
          /\ calls' = Answered(call, "refused")
          /\ UNCHANGED storageVars
    /\ UNCHANGED <<jobs, created, takes, deferred, lapsed, workerVars, deaths>>

Refused_OnlyOpen(call) ==    \* mutant: a failed completion goes unnoticed
    call.answer = "refused" /\ call.op = "open"

Refused(call) == call.answer = "refused"

\* The call goes on: the row is written by id, whatever became of it.
Return(call) ==
    LET job == call.job
    IN  /\ call \in calls /\ call.answer # "none"
        /\ \/ /\ Refused(call)
              /\ calls' = calls \ {call}
              /\ UNCHANGED <<jobs, deferred, lapsed, deaths>>
           \/ /\ call.op = "reopen"
              /\ calls' = (calls \ {call}) \cup
                          {[call EXCEPT !.op = "open", !.answer = "none"]}
              /\ UNCHANGED <<jobs, deferred, lapsed, deaths>>
           \/ /\ call.op = "open" /\ ~Refused(call)
              /\ calls' = calls \ {call}
              /\ jobs' = IF job \in JobIds
                         THEN [jobs EXCEPT ![job].upload = call.upload] ELSE jobs
              /\ UNCHANGED <<deferred, lapsed, deaths>>
           \/ /\ call.op = "complete" /\ ~Refused(call)
              /\ calls' = calls \ {call}
              /\ jobs' = IF job \in JobIds
                         THEN [jobs EXCEPT ![job] = Ended(@, "termine")] ELSE jobs
              /\ lapsed' = lapsed \ {job}
              /\ UNCHANGED <<deferred, deaths>>
           \/ /\ call.op \in FailOps
              /\ calls' = calls \ {call}
              /\ SettleFail(job, call.tries, call.op)
           \/ /\ call.op = "cancel"
              /\ calls' = calls \ {call}
              /\ jobs' = IF job \in JobIds
                         THEN [jobs EXCEPT ![job] = Ended(@, "annule")] ELSE jobs
              /\ lapsed' = lapsed \ {job}
              /\ UNCHANGED <<deferred, deaths>>
        /\ UNCHANGED <<created, takes, workerVars, storageVars>>

\* The hub dies and starts again: the rows stay, the calls are lost.
Restart ==
    /\ calls # {}
    /\ calls' = {}
    /\ UNCHANGED <<jobs, created, takes, deferred, lapsed, workerVars,
                   storageVars, deaths>>
-----------------------------------------------------------------------------
WorkerCall(bail) ==
    \/ Heartbeat(bail)
    \/ \E auto \in BOOLEAN : AnalysisDone(bail, auto)
    \/ \E how \in FailOps : Fail(bail, how)
    \/ OpenUpload(bail)
    \/ Complete(bail)

\* A take is queued when it arrives; one already queued, when it is edited again.
Queue ==
    \/ \E talk \in Talks : takes < MaxTakes /\ Enqueue(talk, takes + 1, FALSE)
    \/ \E job \in JobIds, thisTakeOnly \in BOOLEAN :
          Enqueue(jobs[job].talk, jobs[job].take, thisTakeOnly)
    \/ \E worker \in Workers, lost \in SUBSET JobIds : Claim(worker, lost)
    \/ List
    \/ \E job \in JobIds : Lapse(job)
    \/ \E job \in deferred : ComeDue(job)
    \/ \E worker \in Workers : Revoke(worker) \/ Reinstate(worker)

Console ==
    \/ \E job \in JobIds : Validate(job) \/ Cancel(job)
    \/ ForgetAll

\* A worker's call writes a job that is no longer under way with its lease.
WritesLate(call) ==
    /\ call.bail # 0 /\ call.job \in JobIds
    /\ ~Refused(call) /\ call.op # "reopen"
    /\ ~(Row(call.job, "en-cours") /\ jobs[call.job].bail = call.bail)

Next ==
    \/ (Queue \/ Console \/ Restart) /\ UNCHANGED late
    \/ \E call \in calls : Storage(call) /\ UNCHANGED late
    \/ \E bail \in Bails : WorkerCall(bail) /\ UNCHANGED late
    \/ \E call \in calls : Return(call) /\ late' = (late \/ WritesLate(call))

Spec == Init /\ [][Next]_vars

-----------------------------------------------------------------------------
(***************************************************************************)
(* Properties.                                                             *)
(***************************************************************************)

JobRow == [talk : Talks, take : Nat, state : {"attente", "en-cours", "a-valider",
           "termine", "echoue", "annule"}, phase : {"analyse", "montage"},
           analysed : BOOLEAN, worker : Workers \cup {NoWorker}, bail : Nat,
           tries : Nat, upload : Nat]

\* Every variable has its type; a job under way names a lease that was granted
\* for it, and one that goes to the montage was analysed.
TypeOK ==
    /\ jobs \in [JobIds -> JobRow] /\ JobIds \subseteq 1..created
    /\ {created, takes, uploads} \subseteq Nat /\ late \in BOOLEAN
    /\ deferred \subseteq JobIds
    /\ lapsed \subseteq {job \in JobIds : jobs[job].state = "en-cours"}
    /\ leases \in [Bails -> [job : 1..MaxJobs, worker : Workers]]
    /\ active \subseteq Workers
    /\ open \subseteq 1..uploads /\ videos \subseteq 1..created
    /\ \A job \in JobIds :
         /\ jobs[job].state = "en-cours" =>
              jobs[job].bail \in Bails /\ leases[jobs[job].bail].job = job
         /\ jobs[job].phase = "montage" => jobs[job].analysed

\* What checkLease is for.  A lease that lapsed, was revoked, or whose job was
\* cancelled, failed or given back is lost for good: no takeover, validation or
\* late write makes its job its own again, and no call of a replica that still
\* holds it, under the same worker id as its successor, is let through.
UnderWay(bail) ==
    Row(leases[bail].job, "en-cours") /\ jobs[leases[bail].job].bail = bail
OldLeaseIsPowerless ==
    [][\A bail \in Bails :
         ~UnderWay(bail) => ~UnderWay(bail)' /\ ~Held(bail)]_vars

\* A job whose workers die one after the other ends up failed: however its rows
\* were released, given back uncounted or revoked in between, it is never
\* offered again after MAX_ATTEMPTS deaths, as long as no call wrote too late.
NoEndlessRetry ==
    ~late => \A job \in JobIds : jobs[job].state \in Live => deaths[job] < MaxAttempts

\* A job said finished had its video assembled by the storage, whatever cancels,
\* failures and takeovers its completion crossed.
VideoIsThere ==
    \A job \in JobIds : jobs[job].state = "termine" => job \in videos

\* What checkLease says of a call: the lease's own id tells it from the replica
\* that took the job after it, to the end of the call too.
WritesUnderItsLease == ~late
=============================================================================
