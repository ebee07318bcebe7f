------------------------- MODULE MontageQueueProofs -------------------------
(***************************************************************************)
(* Theorems about MontageQueue, for any workers, talks, number of attempts *)
(* and bounds.                                                             *)
(***************************************************************************)
EXTENDS MontageQueue, FiniteSetTheorems, TLAPS

CallType == [op : {"fail", "fail-later", "fail-count", "open", "reopen", "complete", "cancel"},
             job : Nat, bail : Nat, tries : Nat, upload : Nat, answer : {"none", "done", "refused"}]

\* The types of everything but the rows' own links; leases are numbered as they
\* are granted, and a job's number is never given twice.
Shape ==
    /\ jobs \in [JobIds -> JobRow] /\ JobIds \subseteq 1..created
    /\ created \in Nat /\ created <= MaxJobs /\ takes \in Nat /\ uploads \in Nat
    /\ late \in BOOLEAN
    /\ deferred \subseteq JobIds
    /\ lapsed \subseteq {job \in JobIds : jobs[job].state = "en-cours"}
    /\ leases \in [Bails -> [job : 1..MaxJobs, worker : Workers]]
    /\ \E n \in Nat : Bails = 1..n
    /\ active \subseteq Workers
    /\ open \subseteq 1..uploads /\ videos \subseteq 1..created
    /\ deaths \in [1..MaxJobs -> Nat]
    /\ \A job \in 1..MaxJobs : job > created => deaths[job] = 0
    /\ calls \subseteq CallType
    /\ \A call \in calls :
         /\ call.job \in 1..created /\ call.bail \in Bails \cup {0}
         /\ call.op \notin {"open", "complete"} => call.answer # "refused"
         /\ call.op # "cancel" => call.bail # 0

\* A row under way bears the lease that was granted for it, and one that goes to
\* the montage was analysed.
Linked(job) ==
    /\ jobs[job].state = "en-cours" => jobs[job].bail \in Bails /\ leases[jobs[job].bail].job = job
    /\ jobs[job].phase = "montage" => jobs[job].analysed

\* The leases that were granted are numbered from one.
LEMMA NextBail ==
    ASSUME Shape
    PROVE  /\ Cardinality(Bails) + 1 \in Nat \ {0}
           /\ Cardinality(Bails) + 1 \notin Bails
           /\ Bails \cup {Cardinality(Bails) + 1} = 1..(Cardinality(Bails) + 1)
<1>1. PICK n \in Nat : Bails = 1..n
  BY DEF Shape
<1>2. Cardinality(Bails) = n
  BY <1>1, FS_Interval
<1> QED BY <1>1, <1>2

\* The writes of a row.
LEMMA EndedRow ==
    ASSUME NEW row \in JobRow, NEW state \in {"termine", "echoue", "annule"}
    PROVE  /\ Ended(row, state) \in JobRow /\ Ended(row, state).state = state
           /\ Ended(row, state).phase = row.phase /\ Ended(row, state).analysed = row.analysed
BY DEF Ended, JobRow

LEMMA ReleasedRow ==
    ASSUME NEW row \in JobRow
    PROVE  /\ Released(row) \in JobRow /\ Released(row).state = "attente"
           /\ Released(row).tries = row.tries
           /\ Released(row).phase = row.phase /\ Released(row).analysed = row.analysed
BY DEF Released, JobRow

Taken(row, worker, bail) ==
    [row EXCEPT !.state = "en-cours", !.worker = worker, !.bail = bail, !.tries = @ + 1]

LEMMA TakenRow ==
    ASSUME NEW row \in JobRow, NEW worker \in Workers, NEW bail \in Nat
    PROVE  /\ Taken(row, worker, bail) \in JobRow
           /\ Taken(row, worker, bail).state = "en-cours"
           /\ Taken(row, worker, bail).bail = bail
           /\ Taken(row, worker, bail).tries = row.tries + 1
           /\ Taken(row, worker, bail).phase = row.phase
           /\ Taken(row, worker, bail).analysed = row.analysed
<1>1. row.tries + 1 \in Nat
  BY DEF JobRow
<1> QED BY <1>1 DEF JobRow, Taken

\* What the end of the leases that lapsed leaves of a row.
LEMMA ExpiredRow ==
    ASSUME Shape, NEW job \in JobIds
    PROVE  /\ AfterExpiry[job] \in JobRow
           /\ AfterExpiry[job].state \in {jobs[job].state, "attente", "echoue"}
           /\ AfterExpiry[job].state = "en-cours" => AfterExpiry[job] = jobs[job] /\ job \notin lapsed
           /\ AfterExpiry[job].state = "termine" => jobs[job].state = "termine"
           /\ AfterExpiry[job].phase = jobs[job].phase /\ AfterExpiry[job].analysed = jobs[job].analysed
           /\ AfterExpiry[job].tries = jobs[job].tries
<1>1. jobs[job] \in JobRow
  BY DEF Shape
<1>2. CASE ~Lapsed(job)
  BY <1>1, <1>2 DEF AfterExpiry, Lapsed, Row, JobRow
<1>3. CASE Lapsed(job) /\ jobs[job].tries >= MaxAttempts
  BY <1>1, <1>3 DEF AfterExpiry, Ended, JobRow
<1>4. CASE Lapsed(job) /\ ~(jobs[job].tries >= MaxAttempts)
  BY <1>1, <1>4 DEF AfterExpiry, Released, JobRow
<1> QED BY <1>2, <1>3, <1>4

-----------------------------------------------------------------------------
(***************************************************************************)
(* What is known of each row.                                              *)
(***************************************************************************)

\* As long as no call wrote too late, every death cost an attempt: a job in the
\* queue counts as many at least, one under way one more, and the attempts a
\* call read are those of the row it still holds.
Counted(job) ==
    /\ ~late => /\ jobs[job].state = "attente" =>
                     deaths[job] <= jobs[job].tries /\ deaths[job] < MaxAttempts
                /\ jobs[job].state = "en-cours" =>
                     deaths[job] < jobs[job].tries /\ deaths[job] < MaxAttempts
    /\ \A call \in calls :
         call.job = job /\ call.bail # 0 /\ call.bail = jobs[job].bail
         /\ jobs[job].state = "en-cours" => call.tries = jobs[job].tries

Filmed(job) == jobs[job].state = "termine" => job \in videos

RowOK(job) == Linked(job) /\ Counted(job) /\ Filmed(job)

\* A completion the storage answered has its video, or its row is gone.
CallsFilm ==
    \A call \in calls : call.op = "complete" /\ call.answer = "done" =>
                          call.job \in videos \/ call.job \notin JobIds

Inv == Shape /\ (\A job \in JobIds : RowOK(job)) /\ CallsFilm

LEMMA InvInit == Init => Inv
<1> SUFFICES ASSUME Init PROVE Inv
  OBVIOUS
<1>1. JobIds = {} /\ Bails = {} /\ MaxJobs \in Nat
  BY BoundsAssumption DEF Init, JobIds, Bails
<1>2. jobs \in [JobIds -> JobRow] /\ leases \in [Bails -> [job : 1..MaxJobs, worker : Workers]]
  BY <1>1 DEF Init, JobIds, Bails
<1>3. Bails = 1..0
  BY <1>1
<1>4. deaths \in [1..MaxJobs -> Nat] /\ \A job \in 1..MaxJobs : deaths[job] = 0
  BY DEF Init
<1>5. /\ created = 0 /\ takes = 0 /\ uploads = 0
      /\ deferred = {} /\ lapsed = {} /\ open = {} /\ videos = {} /\ calls = {}
      /\ active = Workers
  BY DEF Init
<1>6. \E n \in Nat : Bails = 1..n
  BY <1>3
<1>7. late \in BOOLEAN
  BY DEF Init
<1>8. Shape
  BY <1>1, <1>2, <1>4, <1>5, <1>6, <1>7 DEF Shape
<1> QED BY <1>1, <1>5, <1>8 DEF Inv, CallsFilm

\* A row that is left alone keeps what is known of it.
LEMMA SameRow ==
    ASSUME Inv, NEW job \in JobIds, job \in JobIds', jobs'[job] = jobs[job],
           deaths'[job] = deaths[job], UNCHANGED leases, videos \subseteq videos', late => late',
           \A call \in calls' : \/ call.tries = jobs[call.job].tries
                                \/ \E old \in calls : /\ call.job = old.job /\ call.bail = old.bail
                                                      /\ call.tries = old.tries
    PROVE  RowOK(job)'
<1>1. RowOK(job)
  BY DEF Inv
<1>2. Linked(job)' /\ Filmed(job)'
  BY <1>1 DEF RowOK, Linked, Filmed, Bails
<1>3. Counted(job)'
  BY <1>1 DEF RowOK, Counted
<1> QED BY <1>2, <1>3 DEF RowOK

\* A step that leaves the rows alone.
LEMMA SameRows ==
    ASSUME Inv, UNCHANGED <<jobs, created, takes, deaths, leases>>, active' \subseteq Workers,
           late' \in BOOLEAN, late => late',
           uploads' \in Nat, open' \subseteq 1..uploads', videos \subseteq videos', videos' \subseteq 1..created,
           deferred' \subseteq deferred,
           lapsed' \subseteq {job \in JobIds : jobs[job].state = "en-cours"},
           calls' \subseteq CallType,
           \A call \in calls' :
             /\ call.op \notin {"open", "complete"} => call.answer # "refused"
             /\ call.op # "cancel" => call.bail # 0
             /\ call.op = "complete" /\ call.answer = "done" =>
                  call.job \in videos' \/ \E old \in calls : old = call
             /\ \/ call.job \in JobIds /\ call.bail \in Bails \cup {0} /\ call.tries = jobs[call.job].tries
                \/ \E old \in calls : /\ call.job = old.job /\ call.bail = old.bail
                                      /\ call.tries = old.tries
    PROVE  Inv'
<1>1. JobIds' = JobIds /\ Bails' = Bails
  BY DEF JobIds, Bails
<1>2. Shape'
  <2>1. \A call \in calls' : call.job \in 1..created /\ call.bail \in Bails \cup {0}
    BY DEF Inv, Shape
  <2> QED BY <1>1, <2>1 DEF Inv, Shape
<1>3. \A job \in JobIds' : RowOK(job)'
  BY <1>1, SameRow
<1>4. CallsFilm'
  BY <1>1 DEF Inv, CallsFilm
<1> QED BY <1>2, <1>3, <1>4 DEF Inv

\* A step that writes one row.
LEMMA OneRow ==
    ASSUME Inv, NEW job \in JobIds, NEW row \in JobRow, jobs' = [jobs EXCEPT ![job] = row],
           UNCHANGED <<created, leases, active, uploads, open, videos>>, takes' \in Nat,
           calls' \subseteq calls, late' \in BOOLEAN, late => late',
           deferred' \subseteq deferred \cup {job},
           lapsed' \subseteq lapsed, job \in lapsed' => row.state = "en-cours",
           deaths' \in [1..MaxJobs -> Nat], \A other \in 1..MaxJobs : other # job => deaths'[other] = deaths[other],
           RowOK(job)'
    PROVE  Inv'
<1>0. JobIds \subseteq 1..created /\ JobIds \subseteq 1..MaxJobs
  BY BoundsAssumption DEF Inv, Shape
<1>1. JobIds' = JobIds /\ Bails' = Bails /\ jobs'[job] = row
  BY DEF JobIds, Bails, Inv, Shape
<1>2. \A other \in JobIds : other # job => jobs'[other] = jobs[other]
  BY DEF JobIds, Inv, Shape
<1>3. Shape'
  <2>1. jobs' \in [JobIds' -> JobRow]
    BY <1>1 DEF Inv, Shape
  <2>2. lapsed' \subseteq {other \in JobIds' : jobs'[other].state = "en-cours"}
    BY <1>1, <1>2 DEF Inv, Shape
  <2>3. \A other \in 1..MaxJobs : other > created' => deaths'[other] = 0
    <3>1. \A other \in 1..MaxJobs : other > created => deaths[other] = 0 /\ other # job
      BY <1>0 DEF Inv, Shape
    <3> QED BY <3>1
  <2>4. deferred' \subseteq JobIds'
    BY <1>1 DEF Inv, Shape
  <2>5. leases' \in [Bails' -> [job : 1..MaxJobs, worker : Workers]] /\ \E n \in Nat : Bails' = 1..n
    BY <1>1 DEF Inv, Shape
  <2>6. \A call \in calls' :
          /\ call.job \in 1..created' /\ call.bail \in Bails' \cup {0}
          /\ call.op \notin {"open", "complete"} => call.answer # "refused"
          /\ call.op # "cancel" => call.bail # 0
    BY <1>1 DEF Inv, Shape
  <2> QED BY <1>0, <1>1, <2>1, <2>2, <2>3, <2>4, <2>5, <2>6 DEF Inv, Shape
<1>4. ASSUME NEW other \in JobIds', other # job PROVE RowOK(other)'
  <2>1. other \in 1..MaxJobs /\ other \in JobIds /\ jobs'[other] = jobs[other]
    BY <1>0, <1>1, <1>2, <1>4
  <2>2. deaths'[other] = deaths[other]
    BY <2>1, <1>4
  <2>3. RowOK(other)
    BY <2>1 DEF Inv
  <2> QED BY <1>1, <2>1, <2>2, <2>3 DEF RowOK, Linked, Counted, Filmed
<1>5. CallsFilm'
  BY <1>1 DEF Inv, CallsFilm
<1> QED BY <1>3, <1>4, <1>5 DEF Inv

\* What the end of the leases that lapsed leaves of what is known of a row.
LEMMA ExpiredCounts ==
    ASSUME Inv, NEW job \in JobIds
    PROVE  /\ DeathsAfterExpiry[job] \in Nat
           /\ ~late => /\ AfterExpiry[job].state = "attente" =>
                            DeathsAfterExpiry[job] <= jobs[job].tries /\ DeathsAfterExpiry[job] < MaxAttempts
                       /\ AfterExpiry[job].state = "en-cours" =>
                            DeathsAfterExpiry[job] < jobs[job].tries /\ DeathsAfterExpiry[job] < MaxAttempts
<1>1. /\ jobs[job] \in JobRow /\ jobs[job].tries \in Nat /\ Counted(job) /\ job \in 1..MaxJobs
      /\ deaths[job] \in Nat
  <2>1. jobs[job] \in JobRow /\ job \in 1..created
    BY DEF Inv, Shape
  <2>2. jobs[job].tries \in Nat
    BY <2>1 DEF JobRow
  <2>3. job \in 1..MaxJobs
    BY <2>1, BoundsAssumption DEF Inv, Shape
  <2>4. deaths[job] \in Nat
    BY <2>3 DEF Inv, Shape
  <2>5. Counted(job)
    BY DEF Inv, RowOK
  <2> QED BY <2>1, <2>2, <2>3, <2>4, <2>5
<1>2. DeathsAfterExpiry[job] = IF Lapsed(job) THEN deaths[job] + 1 ELSE deaths[job]
  BY <1>1 DEF DeathsAfterExpiry
<1>3. CASE ~Lapsed(job)
  BY <1>1, <1>2, <1>3 DEF AfterExpiry, Counted
<1>4. CASE Lapsed(job) /\ jobs[job].tries >= MaxAttempts
  <2>1. AfterExpiry[job].state = "echoue"
    BY <1>1, <1>4 DEF AfterExpiry, Ended, JobRow
  <2> QED BY <1>1, <1>2, <2>1
<1>5. CASE Lapsed(job) /\ ~(jobs[job].tries >= MaxAttempts)
  <2>1. AfterExpiry[job].state = "attente" /\ jobs[job].state = "en-cours"
    BY <1>1, <1>5 DEF AfterExpiry, Released, JobRow, Lapsed, Row
  <2>2. ~late => deaths[job] < jobs[job].tries
    BY <1>1, <2>1 DEF Counted
  <2>3. jobs[job].tries < MaxAttempts
    BY <1>1, <1>5, AttemptsAssumption
  <2> QED BY <1>1, <1>2, <1>5, <2>1, <2>2, <2>3, AttemptsAssumption
<1> QED BY <1>3, <1>4, <1>5

LEMMA ExpiredDeaths ==
    ASSUME Inv
    PROVE  /\ DeathsAfterExpiry \in [1..MaxJobs -> Nat]
           /\ \A job \in 1..MaxJobs : job > created => DeathsAfterExpiry[job] = 0
BY DEF DeathsAfterExpiry, Inv, Shape, Lapsed, Row

\* The leases that lapsed are let go, and the jobs that lost their sidecar fail.
LEMMA ExpiredRows ==
    ASSUME Inv, NEW lost \in SUBSET JobIds,
           jobs' = [job \in JobIds |-> IF job \in lost THEN Ended(AfterExpiry[job], "echoue")
                                       ELSE AfterExpiry[job]],
           lapsed' = {job \in lapsed : ~Lapsed(job)}, deaths' = DeathsAfterExpiry,
           UNCHANGED <<created, takes, deferred, workerVars, calls, storageVars, late>>
    PROVE  Inv'
<1> USE DEF workerVars, storageVars
<1>1. JobIds' = JobIds /\ Bails' = Bails
  BY DEF JobIds, Bails
<1>2. \A job \in JobIds : jobs'[job] = IF job \in lost THEN Ended(AfterExpiry[job], "echoue")
                                       ELSE AfterExpiry[job]
  OBVIOUS
<1>3. ASSUME NEW job \in JobIds
      PROVE  /\ jobs'[job] \in JobRow
             /\ jobs'[job].state \in {"attente", "en-cours"} => job \notin lost /\ jobs'[job] = AfterExpiry[job]
             /\ jobs'[job].state = "termine" => jobs[job].state = "termine"
             /\ jobs'[job].phase = jobs[job].phase /\ jobs'[job].analysed = jobs[job].analysed
  <2>1. AfterExpiry[job] \in JobRow
    BY ExpiredRow DEF Inv
  <2>2. CASE job \in lost
    BY <1>2, <2>1, <2>2, ExpiredRow DEF Ended, JobRow, Inv
  <2>3. CASE job \notin lost
    BY <1>2, <2>1, <2>3, ExpiredRow DEF Inv
  <2> QED BY <2>2, <2>3
<1>4. lapsed' = {}
  BY DEF Inv, Shape, Lapsed, Row
<1>5. Shape'
  <2>1. jobs' \in [JobIds' -> JobRow]
    BY <1>1, <1>3
  <2>2. /\ deaths' \in [1..MaxJobs -> Nat]
        /\ \A job \in 1..MaxJobs : job > created' => deaths'[job] = 0
    BY ExpiredDeaths
  <2> QED BY <1>1, <1>4, <2>1, <2>2 DEF Inv, Shape
<1>6. ASSUME NEW job \in JobIds PROVE RowOK(job)'
  <2>1. RowOK(job)
    BY DEF Inv
  <2>2. jobs'[job].state = "en-cours" => jobs'[job] = jobs[job]
    BY <1>3, ExpiredRow DEF Inv
  <2>3. Linked(job)'
    BY <1>1, <1>3, <2>1, <2>2 DEF RowOK, Linked
  <2>4. jobs'[job].state \in {"attente", "en-cours"} => jobs'[job].tries = jobs[job].tries
    BY <1>3, ExpiredRow DEF Inv
  <2>5. Counted(job)'
    BY <1>3, <2>1, <2>2, <2>4, ExpiredCounts DEF RowOK, Counted
  <2>6. Filmed(job)'
    BY <1>3, <2>1 DEF RowOK, Filmed
  <2> QED BY <2>3, <2>5, <2>6 DEF RowOK
<1>7. CallsFilm'
  BY <1>1 DEF Inv, CallsFilm
<1> QED BY <1>1, <1>5, <1>6, <1>7 DEF Inv

\* One is leased: its row bears a lease nobody held, and one more attempt.
LEMMA ClaimKeeps ==
    ASSUME Inv, NEW worker \in Workers, NEW lost \in SUBSET JobIds, Claim(worker, lost), UNCHANGED late
    PROVE  Inv'
<1> USE DEF workerVars, storageVars
<1> DEFINE due == {job \in JobIds \ deferred : AfterExpiry[job].state = "attente"}
           missing == [job \in JobIds |-> IF job \in lost THEN Ended(AfterExpiry[job], "echoue")
                                          ELSE AfterExpiry[job]]
           bail == Cardinality(Bails) + 1
<1>1. /\ lapsed' = {job \in lapsed : ~Lapsed(job)} /\ deaths' = DeathsAfterExpiry
      /\ UNCHANGED <<created, takes, deferred, active, calls, storageVars>>
  BY DEF Claim
<1>2. CASE lost = {} /\ jobs' = AfterExpiry /\ UNCHANGED leases
  <2>1. jobs' = missing
    BY <1>2 DEF AfterExpiry
  <2> QED BY <1>1, <1>2, <2>1, ExpiredRows
<1>3. CASE jobs' = missing /\ UNCHANGED leases
  BY <1>1, <1>3, ExpiredRows
<1>4. ASSUME NEW job \in due \ lost,
             jobs' = [missing EXCEPT ![job] = [missing[job] EXCEPT !.state = "en-cours", !.worker = worker,
                                                                   !.bail = bail, !.tries = @ + 1]],
             bail <= MaxLeases,
             leases' = [b \in Bails \cup {bail} |->
                          IF b = bail THEN [job |-> job, worker |-> worker] ELSE leases[b]]
      PROVE  Inv'
  <2>1. JobIds' = JobIds /\ job \in JobIds /\ Bails' = Bails \cup {bail}
    BY <1>4 DEF JobIds, Bails
  <2>2. job \in 1..MaxJobs /\ bail \in Nat \ {0} /\ bail \notin Bails /\ Bails' = 1..bail
    <3>1. job \in 1..MaxJobs
      BY <2>1, BoundsAssumption DEF Inv, Shape
    <3> QED BY <2>1, <3>1, NextBail DEF Inv
  <2>3. missing[job] = AfterExpiry[job] /\ AfterExpiry[job].state = "attente" /\ AfterExpiry[job] \in JobRow
    BY <2>1, ExpiredRow DEF Inv
  <2>4. /\ jobs'[job] = Taken(AfterExpiry[job], worker, bail)
        /\ \A other \in JobIds : other # job => jobs'[other] = missing[other]
    BY <2>1, <2>3, <1>4 DEF Taken
  <2> HIDE DEF bail
  <2>5. /\ jobs'[job] \in JobRow /\ jobs'[job].state = "en-cours" /\ jobs'[job].bail = bail
        /\ jobs'[job].tries = jobs[job].tries + 1
        /\ jobs'[job].phase = jobs[job].phase /\ jobs'[job].analysed = jobs[job].analysed
    <3>1. /\ AfterExpiry[job].tries = jobs[job].tries /\ AfterExpiry[job].phase = jobs[job].phase
          /\ AfterExpiry[job].analysed = jobs[job].analysed /\ bail \in Nat
      BY <2>1, <2>2, ExpiredRow DEF Inv
    <3> QED BY <2>3, <2>4, <3>1, TakenRow
  <2>6. ASSUME NEW other \in JobIds, other # job
        PROVE  /\ jobs'[other] \in JobRow
               /\ jobs'[other].state \in {"attente", "en-cours"} => jobs'[other] = AfterExpiry[other]
               /\ jobs'[other].state = "termine" => jobs[other].state = "termine"
               /\ jobs'[other].phase = jobs[other].phase /\ jobs'[other].analysed = jobs[other].analysed
    <3>1. AfterExpiry[other] \in JobRow
      BY ExpiredRow DEF Inv
    <3>2. jobs'[other] = IF other \in lost THEN Ended(AfterExpiry[other], "echoue") ELSE AfterExpiry[other]
      BY <2>4, <2>6
    <3>3. CASE other \in lost
      <4>1. AfterExpiry[other].phase = jobs[other].phase /\ AfterExpiry[other].analysed = jobs[other].analysed
        BY ExpiredRow DEF Inv
      <4> QED BY <3>1, <3>2, <3>3, <4>1, EndedRow
    <3>4. CASE other \notin lost
      BY <3>1, <3>2, <3>4, ExpiredRow DEF Inv
    <3> QED BY <3>3, <3>4
  <2>7. leases' \in [Bails' -> [job : 1..MaxJobs, worker : Workers]]
        /\ leases'[bail].job = job /\ \A b \in Bails : leases'[b] = leases[b]
    BY <1>4, <2>1, <2>2 DEF Inv, Shape
  <2>8. lapsed' = {}
    BY <1>1 DEF Inv, Shape, Lapsed, Row
  <2>9. Shape'
    <3>1. jobs' \in [JobIds' -> JobRow]
      BY <2>1, <2>5, <2>6, <1>4
    <3>2. /\ deaths' \in [1..MaxJobs -> Nat]
          /\ \A other \in 1..MaxJobs : other > created' => deaths'[other] = 0
      BY <1>1, ExpiredDeaths
    <3>3. \E n \in Nat : Bails' = 1..n
      BY <2>2
    <3>4. \A call \in calls' : /\ call.job \in 1..created' /\ call.bail \in Bails' \cup {0}
                               /\ call.op \notin {"open", "complete"} => call.answer # "refused"
                               /\ call.op # "cancel" => call.bail # 0
      BY <1>1, <2>1 DEF Inv, Shape
    <3> QED BY <1>1, <2>1, <2>7, <2>8, <3>1, <3>2, <3>3, <3>4 DEF Inv, Shape
  <2>10. RowOK(job)'
    <3>1. Linked(job)'
      <4>1. RowOK(job)
        BY <2>1 DEF Inv
      <4> QED BY <2>1, <2>5, <2>7, <4>1 DEF RowOK, Linked
    <3>2. jobs[job].tries \in Nat /\ (~late => deaths'[job] <= jobs[job].tries /\ deaths'[job] < MaxAttempts)
          /\ deaths'[job] \in Nat
      BY <1>1, <2>1, <2>3, ExpiredCounts DEF Inv, Shape, JobRow
    <3>3. \A call \in calls' : call.bail # bail
      BY <1>1, <2>2 DEF Inv, Shape
    <3>4. Counted(job)'
      BY <2>5, <3>2, <3>3 DEF Counted
    <3>5. Filmed(job)'
      BY <2>5 DEF Filmed
    <3> QED BY <3>1, <3>4, <3>5 DEF RowOK
  <2>11. ASSUME NEW other \in JobIds, other # job PROVE RowOK(other)'
    <3>1. RowOK(other)
      BY DEF Inv
    <3>2. jobs'[other].state = "en-cours" => jobs'[other] = jobs[other]
      BY <2>6, <2>11, ExpiredRow DEF Inv
    <3>3. Linked(other)'
      BY <2>1, <2>6, <2>7, <2>11, <3>1, <3>2 DEF RowOK, Linked
    <3>4. jobs'[other].state \in {"attente", "en-cours"} => jobs'[other].tries = jobs[other].tries
      BY <2>6, <2>11, ExpiredRow DEF Inv
    <3>5. Counted(other)'
      BY <1>1, <2>6, <2>11, <3>1, <3>2, <3>4, ExpiredCounts DEF RowOK, Counted
    <3>6. Filmed(other)'
      BY <1>1, <2>6, <2>11, <3>1 DEF RowOK, Filmed
    <3> QED BY <3>3, <3>5, <3>6 DEF RowOK
  <2>12. CallsFilm'
    BY <1>1, <2>1 DEF Inv, CallsFilm
  <2> QED BY <2>1, <2>9, <2>10, <2>11, <2>12 DEF Inv
<1> QED BY <1>2, <1>3, <1>4 DEF Claim

\* What a failure makes of the row.
LEMMA FailedRow ==
    ASSUME NEW row \in JobRow, NEW tries \in Nat, NEW how \in FailOps
    PROVE  /\ AfterFail(row, tries, how) \in JobRow
           /\ AfterFail(row, tries, how).state \in {"attente", "echoue"}
           /\ AfterFail(row, tries, how).phase = row.phase
           /\ AfterFail(row, tries, how).analysed = row.analysed
           /\ AfterFail(row, tries, how).state = "attente" =>
                \/ how = "fail-count" /\ tries < MaxAttempts /\ AfterFail(row, tries, how).tries = row.tries
                \/ how = "fail-later" /\ AfterFail(row, tries, how).tries = IF tries = 0 THEN 0 ELSE tries - 1
<1>1. CASE how = "fail-count" /\ tries < MaxAttempts
  <2>1. AfterFail(row, tries, how) = Released(row)
    BY <1>1 DEF AfterFail
  <2> QED BY <1>1, <2>1, ReleasedRow
<1>2. CASE how = "fail-later"
  <2> DEFINE after == [Released(row) EXCEPT !.tries = IF tries = 0 THEN 0 ELSE tries - 1]
  <2>1. AfterFail(row, tries, how) = after
    BY <1>2 DEF AfterFail
  <2>2. (IF tries = 0 THEN 0 ELSE tries - 1) \in Nat
    OBVIOUS
  <2>3. Released(row) \in JobRow
    BY ReleasedRow
  <2>4. /\ after \in JobRow /\ after.state = Released(row).state
        /\ after.phase = Released(row).phase /\ after.analysed = Released(row).analysed
        /\ after.tries = IF tries = 0 THEN 0 ELSE tries - 1
    BY <2>2, <2>3 DEF JobRow
  <2> HIDE DEF after
  <2> QED BY <1>2, <2>1, <2>4, ReleasedRow
<1>3. CASE ~(how = "fail-count" /\ tries < MaxAttempts) /\ how # "fail-later"
  <2>1. AfterFail(row, tries, how) = Ended(row, "echoue")
    BY <1>3 DEF AfterFail
  <2> QED BY <2>1, EndedRow
<1> QED BY <1>1, <1>2, <1>3

LEMMA SettleKeeps ==
    ASSUME Inv, NEW job, NEW tries \in Nat, NEW how \in FailOps, SettleFail(job, tries, how),
           calls' \subseteq calls, UNCHANGED <<created, takes, workerVars, storageVars>>,
           late' \in BOOLEAN, late => late',
           ~late' /\ job \in JobIds => jobs[job].state = "en-cours" /\ tries = jobs[job].tries
    PROVE  Inv'
<1> USE DEF workerVars, storageVars
<1>1. CASE job \notin JobIds
  <2>1. UNCHANGED <<jobs, deferred, deaths>> /\ lapsed' \subseteq lapsed
    BY <1>1 DEF SettleFail
  <2>2. lapsed' \subseteq {other \in JobIds : jobs[other].state = "en-cours"}
    BY <2>1 DEF Inv, Shape
  <2> QED BY <2>1, <2>2, SameRows DEF Inv, Shape
<1>2. CASE job \in JobIds
  <2> DEFINE row == AfterFail(jobs[job], tries, how)
  <2>1. /\ jobs' = [jobs EXCEPT ![job] = row] /\ deferred' \subseteq deferred \cup {job}
        /\ lapsed' = lapsed \ {job}
        /\ deaths' = IF how = "fail-count" THEN [deaths EXCEPT ![job] = @ + 1] ELSE deaths
    BY <1>2 DEF SettleFail
  <2>2. jobs[job] \in JobRow /\ job \in 1..MaxJobs /\ jobs'[job] = row /\ JobIds' = JobIds
    BY <1>2, <2>1, BoundsAssumption DEF Inv, Shape, JobIds
  <2>3. /\ row \in JobRow /\ row.state \in {"attente", "echoue"}
        /\ row.phase = jobs[job].phase /\ row.analysed = jobs[job].analysed
        /\ row.state = "attente" =>
             \/ how = "fail-count" /\ tries < MaxAttempts /\ row.tries = jobs[job].tries
             \/ how = "fail-later" /\ row.tries = IF tries = 0 THEN 0 ELSE tries - 1
    <3>1. PICK before \in JobRow : before = jobs[job]
      BY <2>2
    <3> QED BY <3>1, FailedRow
  <2> HIDE DEF row
  <2>4. /\ deaths' \in [1..MaxJobs -> Nat]
        /\ \A other \in 1..MaxJobs : other # job => deaths'[other] = deaths[other]
        /\ deaths'[job] = IF how = "fail-count" THEN deaths[job] + 1 ELSE deaths[job]
        /\ deaths[job] \in Nat
    BY <2>1, <2>2 DEF Inv, Shape
  <2>5. RowOK(job)
    BY <1>2 DEF Inv
  <2>6. Linked(job)' /\ Filmed(job)'
    BY <2>2, <2>3, <2>5 DEF RowOK, Linked, Filmed
  <2>7. ASSUME ~late', row.state = "attente" PROVE deaths'[job] <= row.tries /\ deaths'[job] < MaxAttempts
    <3>1. deaths[job] < tries /\ deaths[job] < MaxAttempts
      BY <1>2, <2>5, <2>7 DEF RowOK, Counted
    <3>2. CASE how = "fail-count" /\ tries < MaxAttempts /\ row.tries = jobs[job].tries
      BY <1>2, <2>4, <2>7, <3>1, <3>2, AttemptsAssumption
    <3>3. CASE how = "fail-later" /\ row.tries = IF tries = 0 THEN 0 ELSE tries - 1
      BY <2>4, <3>1, <3>3, AttemptsAssumption
    <3> QED BY <2>3, <2>7, <3>2, <3>3
  <2>8. RowOK(job)'
    BY <2>2, <2>3, <2>6, <2>7 DEF RowOK, Counted
  <2>9. job \notin lapsed' /\ lapsed' \subseteq lapsed /\ takes' \in Nat
    BY <2>1 DEF Inv, Shape
  <2> QED BY <1>2, <2>1, <2>3, <2>4, <2>8, <2>9, OneRow
<1> QED BY <1>1, <1>2

\* An end written to a row, the video being there when it says so.
LEMMA EndKeeps ==
    ASSUME Inv, NEW job \in JobIds, NEW state \in {"termine", "annule"},
           jobs' = [jobs EXCEPT ![job] = Ended(@, state)], lapsed' = lapsed \ {job},
           state = "termine" => job \in videos,
           calls' \subseteq calls, UNCHANGED <<created, takes, deferred, workerVars, storageVars, deaths>>,
           late' \in BOOLEAN, late => late'
    PROVE  Inv'
<1> USE DEF workerVars, storageVars
<1>1. jobs[job] \in JobRow /\ jobs' = [jobs EXCEPT ![job] = Ended(jobs[job], state)]
  BY DEF Inv, Shape
<1>2. jobs'[job] = Ended(jobs[job], state)
  BY <1>1 DEF Inv, Shape
<1>3. RowOK(job)'
  <2>1. RowOK(job)
    BY DEF Inv
  <2> QED BY <1>1, <1>2, <2>1, EndedRow DEF RowOK, Linked, Counted, Filmed
<1>4. deaths' \in [1..MaxJobs -> Nat] /\ takes' \in Nat
  BY DEF Inv, Shape
<1>5. Ended(jobs[job], state) \in JobRow
  BY <1>1, EndedRow
<1>6. job \notin lapsed' /\ lapsed' \subseteq lapsed /\ deferred' \subseteq deferred \cup {job}
  OBVIOUS
<1> QED BY <1>1, <1>3, <1>4, <1>5, <1>6, OneRow

\* A take is queued.
LEMMA EnqueueKeeps ==
    ASSUME Inv, NEW talk \in Talks, NEW take \in Nat, NEW only \in BOOLEAN, Enqueue(talk, take, only),
           UNCHANGED late
    PROVE  Inv'
<1> USE DEF workerVars, storageVars
<1>0. takes' \in Nat /\ late' \in BOOLEAN
  BY DEF Enqueue, Inv, Shape
<1>1. UNCHANGED <<lapsed, workerVars, calls, storageVars, deaths>>
  BY DEF Enqueue
<1>2. ASSUME NEW job \in JobIds, jobs[job].state = "attente", UNCHANGED created, deferred' = deferred \ {job},
             jobs' = [jobs EXCEPT ![job] = [jobs[job] EXCEPT !.take = take, !.phase = "analyse",
                                                             !.analysed = FALSE]]
      PROVE  Inv'
  <2> DEFINE row == [jobs[job] EXCEPT !.take = take, !.phase = "analyse", !.analysed = FALSE]
  <2>1. jobs[job] \in JobRow /\ jobs'[job] = row
    BY <1>2 DEF Inv, Shape
  <2>2. row \in JobRow /\ row.state = "attente" /\ row.phase = "analyse" /\ row.tries = jobs[job].tries
    BY <1>2, <2>1 DEF JobRow
  <2> HIDE DEF row
  <2>3. RowOK(job)'
    <3>1. RowOK(job)
      BY DEF Inv
    <3> QED BY <1>1, <1>2, <2>1, <2>2, <3>1 DEF RowOK, Linked, Counted, Filmed
  <2>4. deaths' \in [1..MaxJobs -> Nat] /\ job \notin lapsed
    BY <1>1, <1>2 DEF Inv, Shape
  <2>5. jobs' = [jobs EXCEPT ![job] = row]
    BY <1>2 DEF row
  <2> QED BY <1>0, <1>1, <1>2, <2>2, <2>3, <2>4, <2>5, OneRow
<1>3. ASSUME created < MaxJobs, created' = created + 1, UNCHANGED deferred,
             jobs' = [job \in JobIds \cup {created'} |->
                        IF job = created'
                        THEN [talk |-> talk, take |-> take, state |-> "attente",
                              phase |-> "analyse", analysed |-> FALSE, worker |-> NoWorker,
                              bail |-> 0, tries |-> 0, upload |-> 0]
                        ELSE jobs[job]]
      PROVE  Inv'
  <2>0. PICK fresh : fresh = created + 1
    OBVIOUS
  <2>1. JobIds' = JobIds \cup {fresh} /\ Bails' = Bails
    BY <1>1, <1>3, <2>0 DEF JobIds, Bails
  <2>2. created + 1 = fresh /\ fresh \notin JobIds /\ fresh \in 1..MaxJobs /\ JobIds \subseteq 1..created /\ created \in Nat
    BY <1>3, <2>0, BoundsAssumption DEF Inv, Shape
  <2>3. /\ jobs'[fresh] \in JobRow /\ jobs'[fresh].state = "attente"
        /\ jobs'[fresh].phase = "analyse" /\ jobs'[fresh].tries = 0
        /\ \A job \in JobIds : jobs'[job] = jobs[job]
    BY <1>3, <2>1, <2>2 DEF JobRow
  <2>4. Shape'
    <3>1. jobs' \in [JobIds' -> JobRow]
      <4>1. \A job \in JobIds' : jobs'[job] \in JobRow
        BY <2>1, <2>3 DEF Inv, Shape
      <4> HIDE DEF JobRow
      <4> QED BY <1>3, <2>0, <2>1, <4>1 DEF JobIds
    <3>2. JobIds' \subseteq 1..created' /\ created' \in Nat /\ created' <= MaxJobs
      BY <1>3, <2>1, <2>2 
    <3>3. lapsed' \subseteq {job \in JobIds' : jobs'[job].state = "en-cours"} /\ deferred' \subseteq JobIds'
      BY <1>1, <1>3, <2>1, <2>3 DEF Inv, Shape
    <3>4. videos' \subseteq 1..created'
      BY <1>1, <1>3, <2>2 DEF Inv, Shape
    <3>5. \A job \in 1..MaxJobs : job > created' => deaths'[job] = 0
      BY <1>1, <1>3, <2>2 DEF Inv, Shape
    <3>6. \A call \in calls' : /\ call.job \in 1..created' /\ call.bail \in Bails' \cup {0}
                               /\ call.op \notin {"open", "complete"} => call.answer # "refused"
                               /\ call.op # "cancel" => call.bail # 0
      BY <1>1, <1>3, <2>1, <2>2 DEF Inv, Shape
    <3> QED BY <1>0, <1>1, <2>1, <3>1, <3>2, <3>3, <3>4, <3>5, <3>6 DEF Inv, Shape
  <2>5. RowOK(fresh)'
    <3>1. deaths'[fresh] = 0
      BY <1>1, <2>2 DEF Inv, Shape
    <3>2. Linked(fresh)' /\ Filmed(fresh)'
      BY <1>3, <2>3 DEF Linked, Filmed
    <3>3. Counted(fresh)'
      <4>1. 0 <= 0 /\ 0 < MaxAttempts
        BY AttemptsAssumption
      <4> QED BY <2>3, <3>1, <4>1 DEF Counted
    <3> QED BY <1>3, <3>2, <3>3 DEF RowOK
  <2>6. ASSUME NEW job \in JobIds PROVE RowOK(job)'
    BY <1>0, <1>1, <1>3, <2>1, <2>3, SameRow
  <2>7. CallsFilm'
    BY <1>1, <2>1, <2>2 DEF Inv, CallsFilm, Shape
  <2> QED BY <2>1, <2>4, <2>5, <2>6, <2>7 DEF Inv
<1> QED BY <1>2, <1>3 DEF Enqueue

\* A revoked worker's jobs go back to the queue.
LEMMA RevokeKeeps ==
    ASSUME Inv, NEW worker \in Workers, Revoke(worker), UNCHANGED late
    PROVE  Inv'
<1> USE DEF workerVars, storageVars
<1>1. /\ active' \subseteq Workers
      /\ UNCHANGED <<created, takes, deferred, leases, calls, storageVars, deaths, late>>
      /\ lapsed' = {job \in lapsed : jobs'[job].state = "en-cours"}
  BY DEF Revoke, Inv, Shape
<1>2. JobIds' = JobIds /\ Bails' = Bails
  BY <1>1 DEF Revoke, JobIds, Bails
<1>3. \A job \in JobIds : jobs[job] \in JobRow /\ jobs'[job] \in {jobs[job], Released(jobs[job])}
      /\ (jobs'[job] = jobs[job] \/ jobs[job].state = "en-cours")
  BY DEF Revoke, Inv, Shape
<1>4. \A job \in JobIds : jobs'[job] \in JobRow
  BY <1>3, ReleasedRow
<1>5. Shape'
  <2>1. jobs' \in [JobIds' -> JobRow]
    BY <1>2, <1>4 DEF Revoke
  <2>2. lapsed' \subseteq {job \in JobIds' : jobs'[job].state = "en-cours"}
    BY <1>1, <1>2 DEF Inv, Shape
  <2> QED BY <1>1, <1>2, <2>1, <2>2 DEF Inv, Shape
<1>6. ASSUME NEW job \in JobIds PROVE RowOK(job)'
  <2>1. CASE jobs'[job] = jobs[job]
    BY <1>1, <1>2, <2>1, SameRow
  <2>2. CASE jobs'[job] = Released(jobs[job]) /\ jobs[job].state = "en-cours"
    <3>1. /\ jobs'[job].state = "attente" /\ jobs'[job].tries = jobs[job].tries /\ jobs[job].tries \in Nat
          /\ jobs'[job].phase = jobs[job].phase /\ jobs'[job].analysed = jobs[job].analysed
          /\ deaths[job] \in Nat
      <4>1. jobs[job] \in JobRow /\ jobs[job].tries \in Nat
        BY <1>3 DEF JobRow
      <4>2. deaths[job] \in Nat
        BY BoundsAssumption DEF Inv, Shape
      <4> QED BY <2>2, <4>1, <4>2, ReleasedRow
    <3>2. RowOK(job)
      BY DEF Inv
    <3> QED BY <1>1, <2>2, <3>1, <3>2 DEF RowOK, Linked, Counted, Filmed
  <2> QED BY <1>3, <2>1, <2>2
<1>7. CallsFilm'
  BY <1>1, <1>2 DEF Inv, CallsFilm
<1> QED BY <1>2, <1>5, <1>6, <1>7 DEF Inv

\* A call that waits is written down with what it read of the row.
LEMMA WaitKeeps ==
    ASSUME Inv, NEW op \in {"fail", "fail-later", "fail-count", "open", "reopen", "complete", "cancel"},
           NEW job \in JobIds, NEW bail \in Bails \cup {0}, op # "cancel" => bail # 0,
           Wait(Call(op, job, bail, jobs[job].upload)),
           UNCHANGED <<jobs, created, takes, deferred, lapsed, workerVars, storageVars, deaths, late>>
    PROVE  Inv'
<1> USE DEF workerVars, storageVars
<1>1. jobs[job] \in JobRow /\ jobs[job].tries \in Nat /\ jobs[job].upload \in Nat
  BY DEF Inv, Shape, JobRow
<1>2. bail \in Nat /\ job \in Nat
  BY DEF Inv, Shape
<1> DEFINE call == Call(op, job, bail, jobs[job].upload)
<1>3. /\ call \in CallType /\ call.op = op /\ call.job = job /\ call.bail = bail
      /\ call.tries = jobs[job].tries /\ call.answer = "none"
  BY <1>1, <1>2 DEF Call, CallType
<1>4. calls' = calls \cup {call}
  BY DEF Wait
<1> HIDE DEF call
<1>5. calls' \subseteq CallType
  BY <1>3, <1>4 DEF Inv, Shape
<1>6. \A c \in calls' :
        /\ c.op \notin {"open", "complete"} => c.answer # "refused"
        /\ c.op # "cancel" => c.bail # 0
        /\ c.op = "complete" /\ c.answer = "done" =>
             c.job \in videos' \/ \E old \in calls : old = c
        /\ \/ c.job \in JobIds /\ c.bail \in Bails \cup {0} /\ c.tries = jobs[c.job].tries
           \/ \E old \in calls : /\ c.job = old.job /\ c.bail = old.bail /\ c.tries = old.tries
  BY <1>3, <1>4 DEF Inv, Shape
<1>7. /\ uploads' \in Nat /\ open' \subseteq 1..uploads' /\ videos \subseteq videos' /\ videos' \subseteq 1..created
      /\ late' \in BOOLEAN /\ active' \subseteq Workers
      /\ lapsed' \subseteq {j \in JobIds : jobs[j].state = "en-cours"}
  BY DEF Inv, Shape
<1> QED BY <1>5, <1>6, <1>7, SameRows

\* A lease is held by a worker of the row of its job, which is under way.
LEMMA HeldIs ==
    ASSUME Inv, NEW bail \in Bails, Held(bail)
    PROVE  /\ bail # 0 /\ leases[bail].job \in JobIds /\ UnderWay(bail)
           /\ jobs[leases[bail].job] \in JobRow
BY DEF Held, OfTheRow, UnderWay, Row, Inv, Shape

LEMMA WorkerCallKeeps ==
    ASSUME Inv, NEW bail \in Bails, WorkerCall(bail), UNCHANGED late
    PROVE  Inv'
<1> USE DEF workerVars, storageVars
<1>0. PICK job : job = leases[bail].job
  OBVIOUS
<1>9. /\ late' \in BOOLEAN /\ takes' \in Nat /\ deaths \in [1..MaxJobs -> Nat]
  BY DEF WorkerCall, Heartbeat, AnalysisDone, Fail, OpenUpload, Complete, Inv, Shape
<1>1. CASE Heartbeat(bail)
  <2>1. /\ UNCHANGED <<jobs, created, takes, deferred, workerVars, calls, storageVars, deaths>>
        /\ lapsed' \subseteq {j \in JobIds : jobs[j].state = "en-cours"}
    BY <1>1 DEF Heartbeat, Inv, Shape
  <2> QED BY <1>9, <2>1, SameRows DEF Inv, Shape
<1>2. ASSUME NEW auto \in BOOLEAN, AnalysisDone(bail, auto) PROVE Inv'
  <2> DEFINE row == IF auto THEN [jobs[job] EXCEPT !.analysed = TRUE, !.phase = "montage"]
                    ELSE [jobs[job] EXCEPT !.analysed = TRUE, !.state = "a-valider", !.worker = NoWorker]
  <2>1. /\ job \in JobIds /\ jobs[job] \in JobRow /\ jobs[job].state = "en-cours"
        /\ jobs[job].bail = bail
    BY <1>2, <1>0, HeldIs DEF AnalysisDone, UnderWay, Row
  <2>2. /\ jobs' = [jobs EXCEPT ![job] = row] /\ lapsed' = lapsed \ {job}
        /\ UNCHANGED <<created, takes, deferred, workerVars, calls, storageVars, deaths>>
    BY <1>0, <1>2, <2>1 DEF AnalysisDone, JobRow
  <2>3. /\ row \in JobRow /\ row.analysed /\ row.state \in {"en-cours", "a-valider"}
        /\ row.tries = jobs[job].tries /\ row.bail = jobs[job].bail
    BY <2>1 DEF JobRow
  <2>4. jobs'[job] = row
    BY <2>1, <2>2 DEF Inv, Shape
  <2> HIDE DEF row
  <2>5. RowOK(job)
    BY <2>1 DEF Inv
  <2>6. Linked(job)' /\ Filmed(job)'
    BY <2>1, <2>2, <2>3, <2>4, <2>5 DEF RowOK, Linked, Filmed, Bails
  <2>7. Counted(job)'
    BY <2>1, <2>2, <2>3, <2>4, <2>5 DEF RowOK, Counted
  <2>8. RowOK(job)'
    BY <2>6, <2>7 DEF RowOK
  <2>9. job \notin lapsed' /\ lapsed' \subseteq lapsed /\ deaths' \in [1..MaxJobs -> Nat]
    BY <1>9, <2>2
  <2> QED BY <1>9, <2>1, <2>2, <2>3, <2>8, <2>9, OneRow
<1>3. ASSUME NEW how \in FailOps, Fail(bail, how) PROVE Inv'
  <2>1. /\ job \in JobIds /\ jobs[job] \in JobRow /\ jobs[job].state = "en-cours" /\ bail # 0
        /\ UNCHANGED <<created, takes, workerVars, storageVars>>
    BY <1>3, <1>0, HeldIs DEF Fail, UnderWay, Row
  <2>2. jobs[job].tries \in Nat
    BY <2>1 DEF JobRow
  <2>3. CASE SettleFail(job, jobs[job].tries, how) /\ UNCHANGED calls
    BY <1>9, <2>1, <2>2, <2>3, SettleKeeps
  <2>4. CASE /\ Wait(Call(how, job, bail, jobs[job].upload))
             /\ UNCHANGED <<jobs, deferred, lapsed, deaths>>
    BY <2>1, <2>4, WaitKeeps DEF FailOps
  <2> QED BY <1>0, <1>3, <2>3, <2>4 DEF Fail
<1>4. CASE OpenUpload(bail)
  <2>1. /\ job \in JobIds /\ bail # 0
        /\ UNCHANGED <<jobs, created, takes, deferred, lapsed, workerVars, storageVars, deaths>>
    BY <1>4, <1>0, HeldIs DEF OpenUpload
  <2>2. Wait(Call("open", job, bail, jobs[job].upload)) \/ Wait(Call("reopen", job, bail, jobs[job].upload))
    BY <1>0, <1>4 DEF OpenUpload
  <2> QED BY <2>1, <2>2, WaitKeeps
<1>5. CASE Complete(bail)
  <2>1. /\ job \in JobIds /\ bail # 0 /\ Wait(Call("complete", job, bail, jobs[job].upload))
        /\ UNCHANGED <<jobs, created, takes, deferred, lapsed, workerVars, storageVars, deaths>>
    BY <1>5, <1>0, HeldIs DEF Complete
  <2> QED BY <2>1, WaitKeeps
<1> QED BY <1>1, <1>2, <1>3, <1>4, <1>5 DEF WorkerCall

LEMMA ConsoleKeeps ==
    ASSUME Inv, Console, UNCHANGED late
    PROVE  Inv'
<1> USE DEF workerVars, storageVars
<1>0. late' \in BOOLEAN /\ deaths \in [1..MaxJobs -> Nat] /\ takes \in Nat
  BY DEF Inv, Shape
<1>1. ASSUME NEW job \in JobIds, Validate(job) PROVE Inv'
  <2> DEFINE row == [jobs[job] EXCEPT !.state = "attente", !.phase = "montage", !.tries = 0]
  <2>1. /\ jobs[job] \in JobRow /\ jobs[job].analysed /\ jobs[job].state # "en-cours"
    BY <1>1 DEF Validate, Inv, Shape
  <2>2. /\ jobs' = [jobs EXCEPT ![job] = row] /\ deferred' = deferred \ {job}
        /\ deaths' = [deaths EXCEPT ![job] = 0]
        /\ UNCHANGED <<created, takes, lapsed, workerVars, calls, storageVars>>
    BY <1>1, <2>1 DEF Validate, JobRow
  <2>3. row \in JobRow /\ row.state = "attente" /\ row.tries = 0 /\ row.analysed
    BY <2>1 DEF JobRow
  <2>4. jobs'[job] = row /\ job \in 1..MaxJobs /\ job \notin lapsed
    BY <2>1, <2>2, BoundsAssumption DEF Inv, Shape
  <2> HIDE DEF row
  <2>5. /\ deaths'[job] = 0 /\ deaths' \in [1..MaxJobs -> Nat]
        /\ \A other \in 1..MaxJobs : other # job => deaths'[other] = deaths[other]
    BY <1>0, <2>2, <2>4
  <2>6. Counted(job)'
    <3>1. 0 <= 0 /\ 0 < MaxAttempts
      BY AttemptsAssumption
    <3> QED BY <2>3, <2>4, <2>5, <3>1 DEF Counted
  <2>7. Linked(job)' /\ Filmed(job)'
    BY <2>3, <2>4 DEF Linked, Filmed
  <2>8. RowOK(job)'
    BY <2>6, <2>7 DEF RowOK
  <2> QED BY <1>0, <2>2, <2>3, <2>4, <2>5, <2>8, OneRow
<1>2. ASSUME NEW job \in JobIds, Cancel(job) PROVE Inv'
  <2>1. UNCHANGED <<created, takes, deferred, workerVars, storageVars, deaths>>
    BY <1>2 DEF Cancel
  <2>2. CASE /\ jobs' = [jobs EXCEPT ![job] = Ended(@, "annule")] /\ lapsed' = lapsed \ {job}
             /\ UNCHANGED calls
    BY <1>0, <2>1, <2>2, EndKeeps
  <2>3. CASE Wait(Call("cancel", job, 0, jobs[job].upload)) /\ UNCHANGED <<jobs, lapsed>>
    BY <2>1, <2>3, WaitKeeps
  <2> QED BY <1>2, <2>2, <2>3 DEF Cancel
<1>3. CASE ForgetAll
  <2>1. JobIds' = {} /\ jobs' \in [JobIds' -> JobRow] /\ Bails' = Bails
    BY <1>3 DEF ForgetAll, JobIds, Bails
  <2>2. /\ UNCHANGED <<created, takes, workerVars, calls, uploads, open, deaths>>
        /\ deferred' = {} /\ lapsed' = {} /\ videos' = {}
    BY <1>3 DEF ForgetAll
  <2>3. Shape'
    BY <1>0, <2>1, <2>2 DEF Inv, Shape
  <2> QED BY <2>1, <2>3 DEF Inv, CallsFilm
<1> QED BY <1>1, <1>2, <1>3 DEF Console

\* The storage answers a call.
LEMMA StorageKeeps ==
    ASSUME Inv, NEW call \in calls, Storage(call), UNCHANGED late
    PROVE  Inv'
<1> USE DEF workerVars, storageVars
<1>0. /\ call \in CallType /\ uploads \in Nat /\ open \subseteq 1..uploads /\ videos \subseteq 1..created
      /\ late' \in BOOLEAN /\ call.job \in 1..created /\ (call.op # "cancel" => call.bail # 0)
  BY DEF Inv, Shape
<1>1. UNCHANGED <<jobs, created, takes, deferred, lapsed, workerVars, deaths>> /\ calls \subseteq CallType
  BY DEF Storage, Inv, Shape
<1>2. ASSUME NEW new \in CallType, calls' = (calls \ {call}) \cup {new}, new.op = call.op,
             new.job = call.job, new.bail = call.bail, new.tries = call.tries,
             new.op \notin {"open", "complete"} => new.answer # "refused",
             new.op = "complete" /\ new.answer = "done" => new.job \in videos',
             uploads' \in Nat, open' \subseteq 1..uploads', videos \subseteq videos', videos' \subseteq 1..created
      PROVE  Inv'
  <2>1. \A c \in calls' :
          /\ c.op \notin {"open", "complete"} => c.answer # "refused"
          /\ c.op # "cancel" => c.bail # 0
          /\ c.op = "complete" /\ c.answer = "done" => c.job \in videos' \/ \E old \in calls : old = c
          /\ \E old \in calls : /\ c.job = old.job /\ c.bail = old.bail /\ c.tries = old.tries
    BY <1>0, <1>2 DEF Inv, Shape
  <2>2. calls' \subseteq CallType /\ lapsed' \subseteq {j \in JobIds : jobs[j].state = "en-cours"}
        /\ active' \subseteq Workers
    BY <1>1, <1>2 DEF Inv, Shape
  <2> QED BY <1>0, <1>1, <1>2, <2>1, <2>2, SameRows
<1>3. ASSUME NEW answer \in {"done", "refused"} 
      PROVE  LET new == [call EXCEPT !.answer = answer]
             IN  /\ new \in CallType /\ new.op = call.op /\ new.job = call.job /\ new.bail = call.bail
                 /\ new.tries = call.tries /\ new.answer = answer
  BY <1>0 DEF CallType
<1>4. CASE /\ call.op \in FailOps \cup {"cancel", "reopen"} /\ open' = open \ {call.upload}
           /\ calls' = Answered(call, "done") /\ UNCHANGED <<uploads, videos>>
  <2> DEFINE new == [call EXCEPT !.answer = "done"]
  <2>1. /\ new \in CallType /\ new.op = call.op /\ new.job = call.job /\ new.bail = call.bail
        /\ new.tries = call.tries /\ new.answer = "done"
    BY <1>3
  <2>2. calls' = (calls \ {call}) \cup {new}
    BY <1>4 DEF Answered
  <2> HIDE DEF new
  <2>3. new.op # "complete"
    BY <1>4, <2>1 DEF FailOps
  <2> QED BY <1>0, <1>2, <1>4, <2>1, <2>2, <2>3
<1>5. CASE /\ call.op = "open" /\ uploads' = uploads + 1 /\ open' = open \cup {uploads'}
           /\ calls' = (calls \ {call}) \cup {[call EXCEPT !.answer = "done", !.upload = uploads']}
           /\ UNCHANGED videos
  <2> DEFINE new == [call EXCEPT !.answer = "done", !.upload = uploads + 1]
  <2>1. uploads + 1 \in Nat
    BY <1>0
  <2>2. /\ new \in CallType /\ new.op = call.op /\ new.job = call.job /\ new.bail = call.bail
        /\ new.tries = call.tries /\ new.answer = "done"
    BY <1>0, <2>1 DEF CallType
  <2>3. calls' = (calls \ {call}) \cup {new}
    BY <1>5
  <2>4. uploads' \in Nat /\ open' \subseteq 1..uploads'
    BY <1>0, <1>5
  <2> HIDE DEF new
  <2> QED BY <1>0, <1>2, <1>5, <2>2, <2>3, <2>4
<1>6. CASE /\ call.op = "complete" /\ open' = open \ {call.upload}
           /\ videos' = videos \cup {call.job} /\ calls' = Answered(call, "done") /\ UNCHANGED uploads
  <2> DEFINE new == [call EXCEPT !.answer = "done"]
  <2>1. /\ new \in CallType /\ new.op = call.op /\ new.job = call.job /\ new.bail = call.bail
        /\ new.tries = call.tries /\ new.answer = "done"
    BY <1>3
  <2>2. calls' = (calls \ {call}) \cup {new}
    BY <1>6 DEF Answered
  <2> HIDE DEF new
  <2> QED BY <1>0, <1>2, <1>6, <2>1, <2>2
<1>7. CASE /\ call.op \in {"open", "complete"} /\ calls' = Answered(call, "refused") /\ UNCHANGED storageVars
  <2> DEFINE new == [call EXCEPT !.answer = "refused"]
  <2>1. /\ new \in CallType /\ new.op = call.op /\ new.job = call.job /\ new.bail = call.bail
        /\ new.tries = call.tries /\ new.answer = "refused"
    BY <1>3
  <2>2. calls' = (calls \ {call}) \cup {new}
    BY <1>7 DEF Answered
  <2> HIDE DEF new
  <2> QED BY <1>0, <1>2, <1>7, <2>1, <2>2
<1> QED BY <1>4, <1>5, <1>6, <1>7 DEF Storage

\* A call goes on once the storage has answered, and is late when its lease no
\* longer holds the row it writes.
LEMMA ReturnKeeps ==
    ASSUME Inv, NEW call \in calls, Return(call), late' = (late \/ WritesLate(call))
    PROVE  Inv'
<1> USE DEF workerVars, storageVars
<1>0. PICK job : job = call.job
  OBVIOUS
<1>1. late' \in BOOLEAN /\ (late => late')
  BY Zenon DEF Inv, Shape
<1>2. ~late' => ~WritesLate(call)
  BY Zenon
<1>3. /\ call \in CallType /\ call.tries \in Nat /\ call.upload \in Nat /\ call.answer # "none"
      /\ (call.op # "cancel" => call.bail # 0) /\ job \in Nat
      /\ (call.op \notin {"open", "complete"} => call.answer # "refused")
      /\ UNCHANGED <<created, takes, workerVars, storageVars>>
      /\ deaths \in [1..MaxJobs -> Nat] /\ takes \in Nat
  BY <1>0 DEF Inv, Shape, CallType, Return
<1>4. ASSUME UNCHANGED <<jobs, deferred, deaths>>, lapsed' \subseteq lapsed, calls' \subseteq calls PROVE Inv'
  <2>1. \A c \in calls' :
          /\ c.op \notin {"open", "complete"} => c.answer # "refused"
          /\ c.op # "cancel" => c.bail # 0
          /\ c.op = "complete" /\ c.answer = "done" => c.job \in videos' \/ \E old \in calls : old = c
          /\ \E old \in calls : /\ c.job = old.job /\ c.bail = old.bail /\ c.tries = old.tries
    BY <1>4 DEF Inv, Shape
  <2>2. /\ calls' \subseteq CallType /\ lapsed' \subseteq {j \in JobIds : jobs[j].state = "en-cours"}
        /\ active' \subseteq Workers /\ uploads' \in Nat /\ open' \subseteq 1..uploads'
        /\ videos' \subseteq 1..created /\ videos \subseteq videos'
    BY <1>3, <1>4 DEF Inv, Shape
  <2> QED BY <1>1, <1>3, <1>4, <2>1, <2>2, SameRows
<1>5. CASE Refused(call) /\ calls' = calls \ {call} /\ UNCHANGED <<jobs, deferred, lapsed, deaths>>
  BY <1>4, <1>5
<1>6. CASE /\ call.op = "reopen"
           /\ calls' = (calls \ {call}) \cup {[call EXCEPT !.op = "open", !.answer = "none"]}
           /\ UNCHANGED <<jobs, deferred, lapsed, deaths>>
  <2> DEFINE new == [call EXCEPT !.op = "open", !.answer = "none"]
  <2>1. /\ new \in CallType /\ new.op = "open" /\ new.job = call.job /\ new.bail = call.bail
        /\ new.tries = call.tries /\ new.answer = "none"
    BY <1>3 DEF CallType
  <2>2. calls' = (calls \ {call}) \cup {new}
    BY <1>6
  <2> HIDE DEF new
  <2>3. \A c \in calls' :
          /\ c.op \notin {"open", "complete"} => c.answer # "refused"
          /\ c.op # "cancel" => c.bail # 0
          /\ c.op = "complete" /\ c.answer = "done" => c.job \in videos' \/ \E old \in calls : old = c
          /\ \E old \in calls : /\ c.job = old.job /\ c.bail = old.bail /\ c.tries = old.tries
    BY <1>3, <1>6, <2>1, <2>2 DEF Inv, Shape
  <2>4. /\ calls' \subseteq CallType /\ lapsed' \subseteq {j \in JobIds : jobs[j].state = "en-cours"}
        /\ active' \subseteq Workers /\ uploads' \in Nat /\ open' \subseteq 1..uploads'
        /\ videos' \subseteq 1..created /\ videos \subseteq videos'
    BY <1>3, <1>6, <2>1, <2>2 DEF Inv, Shape
  <2> QED BY <1>1, <1>3, <1>6, <2>3, <2>4, SameRows
<1>7. CASE /\ calls' = calls \ {call} /\ UNCHANGED <<deferred, lapsed, deaths>>
           /\ jobs' = IF job \in JobIds THEN [jobs EXCEPT ![job].upload = call.upload] ELSE jobs
  <2>1. CASE job \notin JobIds
    BY <1>4, <1>7, <2>1
  <2>2. CASE job \in JobIds
    <3> DEFINE row == [jobs[job] EXCEPT !.upload = call.upload]
    <3>1. jobs[job] \in JobRow /\ jobs' = [jobs EXCEPT ![job] = row] /\ jobs'[job] = row
      BY <1>7, <2>2 DEF Inv, Shape
    <3>2. /\ row \in JobRow /\ row.state = jobs[job].state /\ row.phase = jobs[job].phase
          /\ row.analysed = jobs[job].analysed /\ row.tries = jobs[job].tries /\ row.bail = jobs[job].bail
      BY <1>3, <3>1 DEF JobRow
    <3> HIDE DEF row
    <3>3. RowOK(job)
      BY <2>2 DEF Inv
    <3>4. Linked(job)' /\ Filmed(job)'
      BY <1>3, <3>1, <3>2, <3>3 DEF RowOK, Linked, Filmed, Bails
    <3>5. Counted(job)'
      BY <1>1, <1>7, <3>1, <3>2, <3>3 DEF RowOK, Counted
    <3>6. RowOK(job)'
      BY <3>4, <3>5 DEF RowOK
    <3>7. job \in lapsed' => row.state = "en-cours"
      BY <1>7, <3>2 DEF Inv, Shape
    <3> QED BY <1>1, <1>3, <1>7, <2>2, <3>1, <3>2, <3>6, <3>7, OneRow
  <2> QED BY <2>1, <2>2
<1>8. ASSUME NEW state \in {"termine", "annule"}, calls' = calls \ {call}, lapsed' = lapsed \ {job},
             UNCHANGED <<deferred, deaths>>, state = "termine" => job \in videos \/ job \notin JobIds,
             jobs' = IF job \in JobIds THEN [jobs EXCEPT ![job] = Ended(@, state)] ELSE jobs
      PROVE  Inv'
  <2>1. CASE job \notin JobIds
    BY <1>4, <1>8, <2>1
  <2>2. CASE job \in JobIds
    BY <1>1, <1>3, <1>8, <2>2, EndKeeps
  <2> QED BY <2>1, <2>2
<1>9. CASE call.op \in FailOps /\ calls' = calls \ {call} /\ SettleFail(job, call.tries, call.op)
  <2>1. call.op # "cancel" /\ call.op # "reopen" /\ ~Refused(call)
    BY <1>3, <1>9 DEF FailOps, Refused
  <2>2. ~late' /\ job \in JobIds => jobs[job].state = "en-cours" /\ call.tries = jobs[job].tries
    <3>1. ~late' /\ job \in JobIds => Row(job, "en-cours") /\ jobs[job].bail = call.bail
      BY <1>0, <1>2, <1>3, <2>1 DEF WritesLate
    <3>2. job \in JobIds => Counted(job)
      BY DEF Inv, RowOK
    <3> QED BY <1>0, <1>3, <2>1, <3>1, <3>2 DEF Row, Counted
  <2> QED BY <1>1, <1>3, <1>9, <2>2, SettleKeeps
<1>10. CASE call.op = "complete" /\ ~Refused(call)
  <2>1. call.answer = "done"
    BY <1>3, <1>10 DEF Refused, CallType
  <2>2. job \in videos \/ job \notin JobIds
    BY <1>0, <1>10, <2>1 DEF Inv, CallsFilm
  <2>3. CASE /\ calls' = calls \ {call} /\ lapsed' = lapsed \ {job} /\ UNCHANGED <<deferred, deaths>>
             /\ jobs' = IF job \in JobIds THEN [jobs EXCEPT ![job] = Ended(@, "termine")] ELSE jobs
    BY <1>8, <2>2, <2>3
  <2> QED BY <1>0, <1>10, <2>3 DEF Return, FailOps
<1>11. CASE /\ calls' = calls \ {call} /\ lapsed' = lapsed \ {job} /\ UNCHANGED <<deferred, deaths>>
            /\ jobs' = IF job \in JobIds THEN [jobs EXCEPT ![job] = Ended(@, "annule")] ELSE jobs
  BY <1>8, <1>11
<1> QED BY <1>0, <1>5, <1>6, <1>7, <1>9, <1>10, <1>11 DEF Return

LEMMA InvStep == Inv /\ [Next]_vars => Inv'
<1> SUFFICES ASSUME Inv, [Next]_vars PROVE Inv'
  OBVIOUS
<1> USE DEF workerVars, storageVars
<1>0. /\ late \in BOOLEAN /\ active \subseteq Workers /\ uploads \in Nat /\ open \subseteq 1..uploads
      /\ videos \subseteq 1..created /\ calls \subseteq CallType /\ takes \in Nat
      /\ \A job \in JobIds : jobs[job].talk \in Talks /\ jobs[job].take \in Nat
      /\ lapsed \subseteq {job \in JobIds : jobs[job].state = "en-cours"}
      /\ \A call \in calls : /\ call.op \notin {"open", "complete"} => call.answer # "refused"
                             /\ call.op # "cancel" => call.bail # 0
  BY DEF Inv, Shape, JobRow
<1>1. ASSUME UNCHANGED <<jobs, created, takes, deaths, leases, uploads, open, videos, late>>,
             active' \subseteq Workers, deferred' \subseteq deferred, calls' \subseteq calls,
             lapsed' \subseteq {job \in JobIds : jobs[job].state = "en-cours"}
      PROVE  Inv'
  <2>1. \A c \in calls' :
          /\ c.op \notin {"open", "complete"} => c.answer # "refused"
          /\ c.op # "cancel" => c.bail # 0
          /\ c.op = "complete" /\ c.answer = "done" => c.job \in videos' \/ \E old \in calls : old = c
          /\ \E old \in calls : /\ c.job = old.job /\ c.bail = old.bail /\ c.tries = old.tries
    BY <1>0, <1>1
  <2>2. calls' \subseteq CallType /\ late' \in BOOLEAN
    BY <1>0, <1>1
  <2> QED BY <1>0, <1>1, <2>1, <2>2, SameRows
<1>2. CASE Queue /\ UNCHANGED late
  <2>1. ASSUME NEW talk \in Talks, takes < MaxTakes, Enqueue(talk, takes + 1, FALSE) PROVE Inv'
    <3>1. takes + 1 \in Nat
      BY <1>0
    <3> QED BY <1>2, <2>1, <3>1, EnqueueKeeps
  <2>2. ASSUME NEW job \in JobIds, NEW only \in BOOLEAN, Enqueue(jobs[job].talk, jobs[job].take, only)
        PROVE  Inv'
    BY <1>0, <1>2, <2>2, EnqueueKeeps
  <2>3. ASSUME NEW worker \in Workers, NEW lost \in SUBSET JobIds, Claim(worker, lost) PROVE Inv'
    BY <1>2, <2>3, ClaimKeeps
  <2>4. CASE List
    <3>1. PICK lost \in SUBSET JobIds : lost = {}
      OBVIOUS
    <3>2. jobs' = [job \in JobIds |-> IF job \in lost THEN Ended(AfterExpiry[job], "echoue")
                                      ELSE AfterExpiry[job]]
      BY <2>4, <3>1 DEF List, AfterExpiry
    <3> QED BY <1>2, <2>4, <3>2, ExpiredRows DEF List
  <2>5. ASSUME NEW job \in JobIds, Lapse(job) PROVE Inv'
    BY <1>0, <1>1, <1>2, <2>5 DEF Lapse, Row
  <2>6. ASSUME NEW job \in deferred, ComeDue(job) PROVE Inv'
    BY <1>0, <1>1, <1>2, <2>6 DEF ComeDue
  <2>7. ASSUME NEW worker \in Workers, Revoke(worker) PROVE Inv'
    BY <1>2, <2>7, RevokeKeeps
  <2>8. ASSUME NEW worker \in Workers, Reinstate(worker) PROVE Inv'
    BY <1>0, <1>1, <1>2, <2>8 DEF Reinstate
  <2> QED BY <1>2, <2>1, <2>2, <2>3, <2>4, <2>5, <2>6, <2>7, <2>8 DEF Queue
<1>3. CASE Console /\ UNCHANGED late
  BY <1>3, ConsoleKeeps
<1>4. CASE Restart /\ UNCHANGED late
  BY <1>0, <1>1, <1>4 DEF Restart
<1>5. ASSUME NEW call \in calls, Storage(call), UNCHANGED late PROVE Inv'
  BY <1>5, StorageKeeps
<1>6. ASSUME NEW bail \in Bails, WorkerCall(bail), UNCHANGED late PROVE Inv'
  BY <1>6, WorkerCallKeeps
<1>7. ASSUME NEW call \in calls, Return(call), late' = (late \/ WritesLate(call)) PROVE Inv'
  BY <1>7, ReturnKeeps
<1>8. CASE UNCHANGED vars
  BY <1>0, <1>1, <1>8 DEF vars
<1> QED BY <1>2, <1>3, <1>4, <1>5, <1>6, <1>7, <1>8 DEF Next
-----------------------------------------------------------------------------
(***************************************************************************)
(* The theorems.                                                           *)
(***************************************************************************)

\* Every variable of the queue keeps its type; a job under way bears a lease
\* granted for it, and one that goes to the montage was analysed.
THEOREM QueueTypes == Spec => []TypeOK
<1>1. Inv => TypeOK
  BY DEF Inv, Shape, RowOK, Linked, TypeOK
<1> QED BY <1>1, InvInit, InvStep, PTL DEF Spec

\* A job whose workers die one after the other ends up failed, for any number of
\* attempts, workers and calls, as long as no call wrote too late.
THEOREM RetriesEnd == Spec => []NoEndlessRetry
<1>1. Inv => NoEndlessRetry
  BY DEF Inv, RowOK, Counted, NoEndlessRetry, Live
<1> QED BY <1>1, InvInit, InvStep, PTL DEF Spec

\* A job said finished had its video assembled, whatever its completion crossed.
THEOREM FinishedIsFilmed == Spec => []VideoIsThere
<1>1. Inv => VideoIsThere
  BY DEF Inv, RowOK, Filmed, VideoIsThere
<1> QED BY <1>1, InvInit, InvStep, PTL DEF Spec

\* A step that puts a job under way gives it a lease nobody held; the rest keeps
\* the lease of those under way.
NoneComesBack ==
    /\ \A bail \in Bails : leases'[bail] = leases[bail]
    /\ \A job \in JobIds' : jobs'[job].state = "en-cours" =>
         \/ job \in JobIds /\ jobs[job].state = "en-cours" /\ jobs'[job].bail = jobs[job].bail
         \/ jobs'[job].bail \notin Bails

LEMMA NoLeaseComesBack == Inv /\ [Next]_vars => NoneComesBack
<1> SUFFICES ASSUME Inv, [Next]_vars PROVE NoneComesBack
  OBVIOUS
<1> USE DEF workerVars, storageVars
<1>0. /\ \A job \in JobIds : jobs[job] \in JobRow
      /\ jobs \in [JobIds -> JobRow] /\ leases \in [Bails -> [job : 1..MaxJobs, worker : Workers]]
  BY DEF Inv, Shape
<1>1. CASE UNCHANGED <<jobs, leases>>
  BY <1>1 DEF NoneComesBack, JobIds
<1>2. ASSUME UNCHANGED leases, NEW job \in JobIds, NEW row, jobs' = [jobs EXCEPT ![job] = row],
             row.state = "en-cours" => jobs[job].state = "en-cours" /\ row.bail = jobs[job].bail
      PROVE  NoneComesBack
  <2>1. JobIds' = JobIds /\ jobs'[job] = row /\ \A other \in JobIds : other # job => jobs'[other] = jobs[other]
    BY <1>0, <1>2 DEF JobIds
  <2> QED BY <1>2, <2>1 DEF NoneComesBack
<1>3. CASE Queue
  <2>1. ASSUME NEW talk, NEW take, NEW only, Enqueue(talk, take, only) PROVE NoneComesBack
    <3>1. ASSUME NEW job \in JobIds, jobs[job].state = "attente",
                 jobs' = [jobs EXCEPT ![job] = [jobs[job] EXCEPT !.take = take, !.phase = "analyse",
                                                                 !.analysed = FALSE]]
          PROVE  NoneComesBack
      <4> DEFINE row == [jobs[job] EXCEPT !.take = take, !.phase = "analyse", !.analysed = FALSE]
      <4>1. row.state = "attente"
        BY <1>0, <3>1 DEF JobRow
      <4>2. UNCHANGED leases
        BY <2>1 DEF Enqueue
      <4> HIDE DEF row
      <4>3. jobs' = [jobs EXCEPT ![job] = row]
        BY <3>1 DEF row
      <4> QED BY <1>2, <4>1, <4>2, <4>3
    <3>2. ASSUME jobs' = [job \in JobIds \cup {created'} |->
                            IF job = created'
                            THEN [talk |-> talk, take |-> take, state |-> "attente",
                                  phase |-> "analyse", analysed |-> FALSE, worker |-> NoWorker,
                                  bail |-> 0, tries |-> 0, upload |-> 0]
                            ELSE jobs[job]]
          PROVE  NoneComesBack
      <4>1. UNCHANGED leases
        BY <2>1 DEF Enqueue
      <4>2. \A job \in JobIds' : jobs'[job].state = "attente" \/ (job \in JobIds /\ jobs'[job] = jobs[job])
        BY <3>2 DEF JobIds
      <4> QED BY <4>1, <4>2 DEF NoneComesBack
    <3> QED BY <2>1, <3>1, <3>2 DEF Enqueue
  <2>2. ASSUME NEW worker \in Workers, NEW lost \in SUBSET JobIds, Claim(worker, lost) PROVE NoneComesBack
    <3> DEFINE due == {job \in JobIds \ deferred : AfterExpiry[job].state = "attente"}
               missing == [job \in JobIds |-> IF job \in lost THEN Ended(AfterExpiry[job], "echoue")
                                              ELSE AfterExpiry[job]]
               bail == Cardinality(Bails) + 1
    <3>1. ASSUME NEW job \in JobIds PROVE missing[job].state = "en-cours" => missing[job] = jobs[job]
      <4>1. AfterExpiry[job] \in JobRow
        BY ExpiredRow DEF Inv
      <4>2. CASE job \in lost
        BY <4>1, <4>2, EndedRow
      <4>3. CASE job \notin lost
        BY <4>3, ExpiredRow DEF Inv
      <4> QED BY <4>2, <4>3
    <3>2. CASE jobs' = missing /\ UNCHANGED leases
      BY <3>1, <3>2 DEF NoneComesBack, JobIds
    <3>3. CASE lost = {} /\ jobs' = AfterExpiry /\ UNCHANGED leases
      <4>1. jobs' = missing
        BY <3>3 DEF AfterExpiry
      <4> QED BY <3>2, <3>3, <4>1
    <3>4. ASSUME NEW job \in due \ lost,
                 jobs' = [missing EXCEPT ![job] = [missing[job] EXCEPT !.state = "en-cours", !.worker = worker,
                                                                       !.bail = bail, !.tries = @ + 1]],
                 leases' = [b \in Bails \cup {bail} |->
                              IF b = bail THEN [job |-> job, worker |-> worker] ELSE leases[b]]
          PROVE  NoneComesBack
      <4>1. JobIds' = JobIds /\ job \in JobIds
        BY <3>4 DEF JobIds
      <4>2. bail \notin Bails /\ bail \in Nat
        BY NextBail DEF Inv
      <4>3. missing[job] \in JobRow
        BY <3>4, ExpiredRow DEF Inv
      <4> HIDE DEF bail, missing
      <4>4. jobs'[job] = Taken(missing[job], worker, bail)
        BY <3>4, <4>1 DEF Taken, missing
      <4>5. jobs'[job].bail = bail
        BY <4>2, <4>3, <4>4, TakenRow
      <4>6. \A other \in JobIds : other # job => jobs'[other] = missing[other]
        BY <3>4 DEF missing
      <4>7. \A b \in Bails : leases'[b] = leases[b]
        BY <3>4, <4>2
      <4> QED BY <3>1, <4>1, <4>2, <4>5, <4>6, <4>7 DEF NoneComesBack
    <3> QED BY <2>2, <3>2, <3>3, <3>4 DEF Claim
  <2>3. CASE List
    <3>1. \A job \in JobIds : AfterExpiry[job].state = "en-cours" => AfterExpiry[job] = jobs[job]
      BY ExpiredRow DEF Inv
    <3>2. jobs' = AfterExpiry /\ UNCHANGED leases
      BY <2>3 DEF List
    <3>3. JobIds' = JobIds
      BY <3>2 DEF JobIds, AfterExpiry
    <3> QED BY <3>1, <3>2, <3>3 DEF NoneComesBack
  <2>4. CASE \/ \E job \in JobIds : Lapse(job)
             \/ \E job \in deferred : ComeDue(job)
             \/ \E worker \in Workers : Reinstate(worker)
    BY <1>1, <2>4 DEF Lapse, ComeDue, Reinstate
  <2>5. ASSUME NEW worker \in Workers, Revoke(worker) PROVE NoneComesBack
    <3>1. /\ UNCHANGED leases /\ JobIds' = JobIds
          /\ \A job \in JobIds : jobs'[job] \in {jobs[job], Released(jobs[job])}
      BY <2>5 DEF Revoke, JobIds
    <3>2. \A job \in JobIds : Released(jobs[job]).state = "attente"
      BY <1>0, ReleasedRow
    <3> QED BY <3>1, <3>2 DEF NoneComesBack
  <2> QED BY <1>3, <2>1, <2>2, <2>3, <2>4, <2>5 DEF Queue
<1>4. ASSUME NEW job \in JobIds, Validate(job) PROVE NoneComesBack
  <2> DEFINE row == [jobs[job] EXCEPT !.state = "attente", !.phase = "montage", !.tries = 0]
  <2>1. row.state = "attente"
    BY <1>0 DEF JobRow
  <2>2. jobs' = [jobs EXCEPT ![job] = row] /\ UNCHANGED leases
    BY <1>0, <1>4 DEF Validate, JobRow
  <2> HIDE DEF row
  <2> QED BY <1>2, <2>1, <2>2
<1>5. ASSUME NEW job \in JobIds, NEW state \in {"termine", "echoue", "annule"}, UNCHANGED leases,
             jobs' = [jobs EXCEPT ![job] = Ended(@, state)]
      PROVE  NoneComesBack
  <2>1. jobs' = [jobs EXCEPT ![job] = Ended(jobs[job], state)]
    BY <1>0, <1>5
  <2> QED BY <1>0, <1>2, <1>5, <2>1, EndedRow
<1>6. ASSUME NEW job \in JobIds, Cancel(job) PROVE NoneComesBack
  BY <1>1, <1>5, <1>6 DEF Cancel
<1>7. CASE ForgetAll
  <2>1. JobIds' = {} /\ UNCHANGED leases
    BY <1>7 DEF ForgetAll, JobIds
  <2> QED BY <2>1 DEF NoneComesBack
<1>8. ASSUME NEW job, NEW tries \in Nat, NEW how \in FailOps, SettleFail(job, tries, how), UNCHANGED leases
      PROVE  NoneComesBack
  <2>1. CASE job \in JobIds
    <3>1. jobs' = [jobs EXCEPT ![job] = AfterFail(jobs[job], tries, how)]
      BY <1>8, <2>1 DEF SettleFail
    <3>2. AfterFail(jobs[job], tries, how).state \in {"attente", "echoue"}
      BY <1>0, <2>1, FailedRow
    <3> QED BY <1>2, <1>8, <2>1, <3>1, <3>2
  <2>2. CASE job \notin JobIds
    BY <1>1, <1>8, <2>2 DEF SettleFail
  <2> QED BY <2>1, <2>2
<1>9. ASSUME NEW bail \in Bails, WorkerCall(bail) PROVE NoneComesBack
  <2>0. PICK job : job = leases[bail].job
    OBVIOUS
  <2>1. CASE Heartbeat(bail) \/ OpenUpload(bail) \/ Complete(bail)
    BY <1>1, <2>1 DEF Heartbeat, OpenUpload, Complete
  <2>2. ASSUME NEW auto \in BOOLEAN, AnalysisDone(bail, auto) PROVE NoneComesBack
    <3> DEFINE row == IF auto THEN [jobs[job] EXCEPT !.analysed = TRUE, !.phase = "montage"]
                      ELSE [jobs[job] EXCEPT !.analysed = TRUE, !.state = "a-valider", !.worker = NoWorker]
    <3>1. job \in JobIds /\ jobs[job] \in JobRow /\ jobs[job].state = "en-cours"
      BY <2>0, <2>2, HeldIs DEF AnalysisDone, UnderWay, Row
    <3>2. jobs' = [jobs EXCEPT ![job] = row] /\ UNCHANGED leases
      BY <2>0, <2>2, <3>1 DEF AnalysisDone, JobRow
    <3>3. row.bail = jobs[job].bail
      BY <3>1 DEF JobRow
    <3> HIDE DEF row
    <3> QED BY <1>2, <3>1, <3>2, <3>3
  <2>3. ASSUME NEW how \in FailOps, Fail(bail, how) PROVE NoneComesBack
    <3>1. job \in JobIds /\ jobs[job].tries \in Nat /\ UNCHANGED leases
      BY <2>0, <2>3, HeldIs DEF Fail, JobRow
    <3> QED BY <1>1, <1>8, <2>0, <2>3, <3>1 DEF Fail
  <2> QED BY <1>9, <2>1, <2>2, <2>3 DEF WorkerCall
<1>10. ASSUME NEW call \in calls, Return(call) PROVE NoneComesBack
  <2>0. PICK job : job = call.job
    OBVIOUS
  <2>1. call.tries \in Nat /\ UNCHANGED leases
    BY <1>10 DEF Inv, Shape, CallType, Return
  <2>2. CASE jobs' = IF job \in JobIds THEN [jobs EXCEPT ![job].upload = call.upload] ELSE jobs
    <3>1. CASE job \notin JobIds
      BY <1>1, <2>1, <2>2, <3>1
    <3>2. CASE job \in JobIds
      <4> DEFINE row == [jobs[job] EXCEPT !.upload = call.upload]
      <4>1. row.state = jobs[job].state /\ row.bail = jobs[job].bail
        BY <1>0, <3>2 DEF JobRow
      <4>2. jobs' = [jobs EXCEPT ![job] = row]
        BY <1>0, <2>2, <3>2
      <4> HIDE DEF row
      <4> QED BY <1>2, <2>1, <3>2, <4>1, <4>2
    <3> QED BY <3>1, <3>2
  <2>3. ASSUME NEW state \in {"termine", "annule"},
               jobs' = IF job \in JobIds THEN [jobs EXCEPT ![job] = Ended(@, state)] ELSE jobs
        PROVE  NoneComesBack
    BY <1>1, <1>5, <2>1, <2>3
  <2>4. CASE call.op \in FailOps /\ SettleFail(job, call.tries, call.op)
    BY <1>8, <2>1, <2>4
  <2> QED BY <1>1, <1>10, <2>0, <2>1, <2>2, <2>3, <2>4 DEF Return
<1>11. CASE Restart \/ (\E call \in calls : Storage(call)) \/ UNCHANGED vars
  BY <1>1, <1>11 DEF Restart, Storage, vars
<1> QED BY <1>3, <1>4, <1>6, <1>7, <1>9, <1>10, <1>11 DEF Next, Console

\* What checkLease is for: a lease lost is lost for good, for any number of
\* replicas, takeovers, validations and late writes.
THEOREM LostLeasesStayLost == Spec => OldLeaseIsPowerless
<1>1. ASSUME Inv, NoneComesBack, NEW bail \in Bails, ~UnderWay(bail)
      PROVE  ~UnderWay(bail)' /\ ~Held(bail)
  <2>1. ~Held(bail)
    BY <1>1, HeldIs
  <2>2. leases'[bail].job = leases[bail].job
    BY <1>1 DEF NoneComesBack
  <2>3. PICK job : job = leases[bail].job
    OBVIOUS
  <2>4. ~(job \in JobIds' /\ jobs'[job].state = "en-cours" /\ jobs'[job].bail = bail)
    BY <1>1, <2>3 DEF NoneComesBack, UnderWay, Row
  <2> QED BY <2>1, <2>2, <2>3, <2>4 DEF UnderWay, Row
<1>2. Inv /\ [Next]_vars => [\A bail \in Bails : ~UnderWay(bail) => ~UnderWay(bail)' /\ ~Held(bail)]_vars
  BY <1>1, NoLeaseComesBack
<1> QED BY <1>2, InvInit, InvStep, PTL DEF Spec, OldLeaseIsPowerless
=============================================================================
