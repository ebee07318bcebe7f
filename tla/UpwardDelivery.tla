--------------------------- MODULE UpwardDelivery ---------------------------
(***************************************************************************)
(* The upward path of a room: the durable queue (outbox.ts), the pump that *)
(* drains it (outbox-pump.ts), the network, and the hub's ingestion        *)
(* (ingest.ts), with what restarts, re-pairings and lost or late requests  *)
(* do to them.                                                             *)
(*                                                                         *)
(* An event is named by its seq: nextOutboundSeq is persisted and never    *)
(* reused, so event s is written[s] and the queue is a set of seqs.  Time  *)
(* is reduced to what the code compares: a row is due or deferred, and the *)
(* rows past their lifetime are the oldest of their policy.                *)
(***************************************************************************)
EXTENDS Naturals, Sequences, FiniteSets

CONSTANTS
    Rooms,              \* the rooms a machine may be paired to
    NoRoom,             \* the value of a room not known yet
    Types,              \* the event types this instance emits
    BatchSize,          \* envelopes per push (100 in the code)
    MaxDepth,           \* the queue's ceiling (10 000)
    BackpressureEvery,  \* enqueues between two saturation checks (128)
    MaxEvents,          \* bound of the model: events written
    MaxLate             \* bound of the model: requests that outlive their sender

\* impressions stands for every required event with no date of its own (takes,
\* talks, pins, alerts); unreadable for one of a version the hub does not know.
AllTypes ==
    {"heartbeat", "telemetry", "impressions", "accorde", "refuse", "withdrawn",
     "unreadable"}

ASSUME RoomsAssumption == NoRoom \notin Rooms
ASSUME TypesAssumption == Types \subseteq AllTypes
ASSUME BoundsAssumption ==
    /\ BatchSize \in Nat \ {0}
    /\ MaxDepth \in Nat
    /\ BackpressureEvery \in Nat \ {0}
    /\ MaxEvents \in Nat
    /\ MaxLate \in Nat

VARIABLES
    written,     \* every event ever enqueued, in seq order
    outbox,      \* the seqs of the rows in the queue
    deferred,    \* those whose nextAttemptAt lies ahead
    sinceCheck,  \* enqueues since the last saturation check
    journal,     \* the seqs the journal names as refused or lost
    settingsRoom,\* the room in the local settings
    queueRoom,   \* the room the Outbox object was built for
    tokenRoom,   \* the room the credentials stand for
    running,     \* the pump is between start() and stop()
    batch,       \* the batch the pump is waiting an answer for
    answer,      \* the hub's answer on its way back
    late,        \* requests nobody waits for that may still arrive
    log,         \* the seqs in the hub's ingest_event
    lastSeq,     \* room_state.last_seq, per room
    consent,     \* the seq of the answer in session_consent, 0 for no row
    impressions  \* the wall impressions counted

roomVars == <<settingsRoom, queueRoom, tokenRoom>>
pumpVars == <<running, batch, answer>>
hubVars == <<log, lastSeq, consent, impressions>>
vars == <<written, outbox, deferred, sinceCheck, journal, roomVars, pumpVars,
          late, hubVars>>

Written == 1..Len(written)

NoAnswer == [held |-> {}, refused |-> {}]

\* The policy follows from the type, and every best-effort call site also
\* passes a dedupKey named after the type (room-app.ts).
BestEffort == {"heartbeat", "telemetry"}
Delivery(type) == IF type \in BestEffort THEN "best-effort" ELSE "required"
Required == {s \in Written : Delivery(written[s].type) = "required"}

\* The n smallest of a set of seqs: ORDER BY seq LIMIT n.
Oldest(S, n) == {s \in S : Cardinality({t \in S : t < s}) < n}

Newest(S) == CHOOSE s \in S : \A t \in S : t <= s

Init ==
    /\ written = <<>>
    /\ outbox = {} /\ deferred = {} /\ sinceCheck = 0 /\ journal = {}
    /\ settingsRoom = NoRoom /\ queueRoom = NoRoom /\ tokenRoom = NoRoom
    /\ running = FALSE /\ batch = {} /\ answer = NoAnswer
    /\ late = {}
    /\ log = {}
    /\ lastSeq = [r \in Rooms |-> 0]
    /\ consent = 0 /\ impressions = 0
-----------------------------------------------------------------------------
(***************************************************************************)
(* The queue.                                                              *)
(***************************************************************************)

\* ensureOutbox: the Outbox is built once, for the room then in the settings.
OutboxRoom == IF queueRoom = NoRoom THEN settingsRoom ELSE queueRoom

\* Equal dedupKey: the older row goes, in flight or not.
Collapsed(event) ==
    {s \in outbox : event.type \in BestEffort /\ written[s] = event}

\* What the saturation check takes from a queue: the surplus, oldest first,
\* from the best-effort rows alone.  The depth counts one room's rows.
Surplus_AnyRow(rows, room, events) ==    \* mutant: required rows pay too
    LET depth == Cardinality({s \in rows : events[s].room = room})
    IN  IF depth > MaxDepth THEN Oldest(rows, depth - MaxDepth) ELSE {}

Surplus(rows, room, events) ==
    LET depth == Cardinality({s \in rows : events[s].room = room})
        cheap == {s \in rows : events[s].type \in BestEffort}
    IN  IF depth > MaxDepth THEN Oldest(cheap, depth - MaxDepth) ELSE {}

Enqueue(type) ==
    LET event == [type |-> type, room |-> OutboxRoom]
        seq   == Len(written) + 1
        rows  == (outbox \ Collapsed(event)) \cup {seq}
        check == sinceCheck + 1 >= BackpressureEvery
    IN  /\ Len(written) < MaxEvents
        /\ OutboxRoom # NoRoom
        /\ queueRoom' = OutboxRoom
        /\ written' = Append(written, event)
        /\ outbox' = IF check THEN rows \ Surplus(rows, OutboxRoom, written')
                              ELSE rows
        /\ sinceCheck' = IF check THEN 0 ELSE sinceCheck + 1
        /\ deferred' = deferred \cap outbox'
        /\ UNCHANGED <<journal, settingsRoom, tokenRoom, pumpVars, late, hubVars>>

\* The backoff of a row runs out.  Its length is drawn per row, with jitter:
\* rows deferred together come due in any order.
ComeDue(s) ==
    /\ s \in deferred
    /\ deferred' = deferred \ {s}
    /\ UNCHANGED <<written, outbox, sinceCheck, journal, roomVars, pumpVars,
                   late, hubVars>>
-----------------------------------------------------------------------------
(***************************************************************************)
(* The pump.  A pass refused while a drain is in flight is replayed after  *)
(* it, which the tick would do anyway: a drain may start whenever none is  *)
(* waiting.                                                                *)
(***************************************************************************)

\* Rows past their lifetime: 30 s for best-effort, 48 h for required, so the
\* expired ones are the oldest of each policy, and old is older for required.
Expired(oldCheap, oldRequired) ==
    {s \in outbox : s <= IF s \in Required THEN oldRequired ELSE oldCheap}

Claim(rows) ==
    Oldest({s \in rows \ deferred : written[s].room = queueRoom}, BatchSize)

Drain(oldCheap, oldRequired) ==
    LET gone == Expired(oldCheap, oldRequired)
    IN  /\ running /\ batch = {}
        /\ oldRequired <= oldCheap
        /\ outbox' = outbox \ gone
        /\ deferred' = deferred \ gone
        /\ journal' = journal \cup (gone \cap Required)
        /\ batch' = Claim(outbox \ gone)
        /\ UNCHANGED <<written, sinceCheck, roomVars, running, answer, late, hubVars>>

\* The answer comes back: what the hub holds leaves, what it refuses leaves
\* and is journalled, what it said nothing of is deferred.
Settle_KeepsRefused ==    \* mutant: a refused event stays in the queue
    /\ answer # NoAnswer
    /\ outbox' = outbox \ answer.held
    /\ deferred' = (deferred \cup batch) \cap outbox'
    /\ batch' = {} /\ answer' = NoAnswer
    /\ UNCHANGED <<written, sinceCheck, journal, roomVars, running, late, hubVars>>

Settle ==
    LET handled == answer.held \cup answer.refused
    IN  /\ answer # NoAnswer
        /\ outbox' = outbox \ handled
        /\ deferred' = (deferred \ handled) \cup ((batch \ handled) \cap outbox)
        /\ journal' = journal \cup answer.refused
        /\ batch' = {} /\ answer' = NoAnswer
        /\ UNCHANGED <<written, sinceCheck, roomVars, running, late, hubVars>>

Request == [events |-> batch, room |-> tokenRoom]

\* The sender stops waiting.  A request the hub has not seen may be lost, or
\* still be on its way.
GiveUp ==
    /\ batch' = {} /\ answer' = NoAnswer
    /\ \/ late' = late
       \/ /\ batch # {} /\ answer = NoAnswer
          /\ late' = late \cup {Request}
          /\ Cardinality(late') <= MaxLate

\* The push throws, before or after the hub applied it: the batch is deferred.
Fail_Acks ==    \* mutant: the batch leaves the queue whatever became of it
    /\ batch # {}
    /\ GiveUp
    /\ outbox' = outbox \ batch
    /\ deferred' = deferred \ batch
    /\ UNCHANGED <<written, sinceCheck, journal, roomVars, running, hubVars>>

Fail ==
    /\ batch # {}
    /\ GiveUp
    /\ deferred' = deferred \cup (batch \cap outbox)
    /\ UNCHANGED <<written, outbox, sinceCheck, journal, roomVars, running, hubVars>>
-----------------------------------------------------------------------------
(***************************************************************************)
(* The hub.                                                                *)
(***************************************************************************)

Valid(events, room) ==
    {s \in events : written[s].type # "unreadable" /\ written[s].room = room}

\* applyConsent folded over a batch in seq order: an answer older than the
\* one on file is ignored, a withdrawal deletes the row.  decideA is the
\* room's clock, which follows seq.
ConsentTypes == {"accorde", "refuse", "withdrawn"}
ConsentAfter_OnArrival(valid) ==    \* mutant: the date is not compared
    LET heard == {s \in valid : written[s].type \in ConsentTypes}
    IN  IF heard = {} THEN consent
        ELSE IF written[Newest(heard)].type = "withdrawn" THEN 0
        ELSE Newest(heard)

ConsentAfter(valid) ==
    LET heard == {s \in valid : written[s].type \in ConsentTypes /\ s >= consent}
    IN  IF heard = {} THEN consent
        ELSE IF written[Newest(heard)].type = "withdrawn" THEN 0
        ELSE Newest(heard)

Project_LastArrival(valid, room) ==    \* mutant: last_seq follows the arrivals
    /\ lastSeq' = IF valid = {} THEN lastSeq
                  ELSE [lastSeq EXCEPT ![room] = Newest(valid)]
    /\ consent' = ConsentAfter(valid)

\* Every valid event in seq order, duplicates included.
Project(valid, room) ==
    /\ lastSeq' = IF valid = {} THEN lastSeq
                  ELSE [lastSeq EXCEPT ![room] = Newest({lastSeq[room], Newest(valid)})]
    /\ consent' = ConsentAfter(valid)

Ingest_CountsReplays(events, room) ==    \* mutant: duplicates are counted again
    LET valid == Valid(events, room)
    IN  /\ log' = log \cup valid
        /\ impressions' = impressions
             + Cardinality({s \in valid : written[s].type = "impressions"})
        /\ Project(valid, room)

\* One transaction: insert what is new, then project the whole batch.
Ingest(events, room) ==
    LET valid == Valid(events, room)
        fresh == valid \ log
    IN  /\ log' = log \cup valid
        /\ impressions' = impressions
             + Cardinality({s \in fresh : written[s].type = "impressions"})
        /\ Project(valid, room)

\* The request the pump waits for arrives; its answer starts back.
Receive ==
    /\ batch # {} /\ answer = NoAnswer
    /\ Ingest(batch, tokenRoom)
    /\ answer' = [held |-> Valid(batch, tokenRoom),
                  refused |-> batch \ Valid(batch, tokenRoom)]
    /\ UNCHANGED <<written, outbox, deferred, sinceCheck, journal, roomVars,
                   running, batch, late>>

\* A request nobody waits for any more arrives, or is lost.
ReceiveLate(request) ==
    /\ request \in late
    /\ late' = late \ {request}
    /\ \/ Ingest(request.events, request.room)
       \/ UNCHANGED hubVars
    /\ UNCHANGED <<written, outbox, deferred, sinceCheck, journal, roomVars, pumpVars>>
-----------------------------------------------------------------------------
(***************************************************************************)
(* Pairing, stops and restarts.                                            *)
(***************************************************************************)

\* connectHub: the token stands for a room; the sync, when it answers, writes
\* that room to the settings; the pump starts as soon as a room is known.
Connect(room, synced) ==
    /\ ~running
    /\ tokenRoom \in {NoRoom, room}
    /\ tokenRoom' = room
    /\ settingsRoom' = IF synced THEN room ELSE settingsRoom
    /\ settingsRoom' # NoRoom
    /\ queueRoom' = IF queueRoom = NoRoom THEN settingsRoom' ELSE queueRoom
    /\ running' = TRUE
    /\ UNCHANGED <<written, outbox, deferred, sinceCheck, journal, batch, answer,
                   late, hubVars>>

\* repair, on refused credentials or on unpair: the pump stops and writes
\* nothing after, the token goes, everything on the disk stays.
Repair ==
    /\ running
    /\ running' = FALSE
    /\ tokenRoom' = NoRoom
    /\ GiveUp
    /\ UNCHANGED <<written, outbox, deferred, sinceCheck, journal, settingsRoom,
                   queueRoom, hubVars>>

\* The process dies and starts again: what was in memory is gone.
Restart ==
    /\ running' = FALSE
    /\ sinceCheck' = 0
    /\ queueRoom' = NoRoom
    /\ GiveUp
    /\ UNCHANGED <<written, outbox, deferred, journal, settingsRoom, tokenRoom, hubVars>>
-----------------------------------------------------------------------------
Next ==
    \/ \E type \in Types : Enqueue(type)
    \/ \E s \in deferred : ComeDue(s)
    \/ \E oldCheap, oldRequired \in 0..Len(written) : Drain(oldCheap, oldRequired)
    \/ Settle
    \/ Fail
    \/ Receive
    \/ \E request \in late : ReceiveLate(request)
    \/ \E room \in Rooms, synced \in BOOLEAN : Connect(room, synced)
    \/ Repair
    \/ Restart

Spec == Init /\ [][Next]_vars

\* The timers run, the machine is brought back up, and the network carries a
\* request and an answer again and again: an outage ends, and so does a series
\* of restarts.  Nothing is assumed of one request.
Fairness ==
    /\ \A s \in 1..MaxEvents : WF_vars(ComeDue(s))
    /\ WF_vars(\E room \in Rooms, synced \in BOOLEAN : Connect(room, synced))
    /\ SF_vars(\E old, older \in 0..Len(written) : Drain(old, older))
    /\ SF_vars(Receive)
    /\ SF_vars(Settle)

FairSpec == Spec /\ Fairness
-----------------------------------------------------------------------------
(***************************************************************************)
(* Properties.                                                             *)
(***************************************************************************)

Event == [type : Types, room : Rooms]
Answer == [held : SUBSET Written, refused : SUBSET Written]
LateRequest == [events : SUBSET Written, room : Rooms]

\* Every variable has its type; the deferred rows are rows of the queue and
\* the hub holds only what the room wrote.
TypeOK ==
    /\ written \in Seq(Event)
    /\ outbox \subseteq Written
    /\ deferred \subseteq outbox
    /\ sinceCheck \in Nat
    /\ journal \subseteq Written
    /\ {settingsRoom, queueRoom, tokenRoom} \subseteq Rooms \cup {NoRoom}
    /\ running \in BOOLEAN
    /\ running => tokenRoom \in Rooms
    /\ batch \subseteq Written
    /\ batch # {} => running
    /\ answer \in Answer
    /\ late \subseteq LateRequest
    /\ log \subseteq Written
    /\ lastSeq \in [Rooms -> Nat]
    /\ consent \in Written \cup {0}
    /\ impressions \in Nat

\* A required event is in the queue, at the hub, or named by the journal,
\* through every loss, replay, collapse, saturation, restart and re-pairing.
NothingVanishes == Required \subseteq outbox \cup log \cup journal

\* One waiting row per dedupKey, however a collapse crosses a batch in flight.
AtMostOneRowPerKey ==
    \A s, t \in outbox :
        written[s] = written[t] /\ written[s].type \in BestEffort => s = t

\* Replays add nothing to the wall's figures: each impressions event the hub
\* holds was counted exactly once.
ImpressionsCountedOnce ==
    impressions = Cardinality({s \in log : written[s].type = "impressions"})

\* room_state.last_seq is the newest seq the hub holds for the room, whatever
\* order the batches came in.
LastSeqIsNewest ==
    \A r \in Rooms :
        LET theirs == {s \in log : written[s].room = r}
        IN  lastSeq[r] = IF theirs = {} THEN 0 ELSE Newest(theirs)

\* While an answer is on file, only a later answer replaces it.
ConsentNeverOlder ==
    [][consent # 0 /\ consent' # 0 => consent' >= consent]_vars

\* A required event ends up at the hub or in the journal: never stuck behind a
\* refused one, never forgotten in a queue nobody drains.
RequiredArrives ==
    \A s \in 1..MaxEvents : s \in Required ~> s \in log \cup journal

\* The queue, the pump and the ingestion keep the room's promise.
Promise == INSTANCE DeliveryPromise WITH
    emitted <- [s \in Written |-> Delivery(written[s].type)],
    kept <- outbox,
    held <- log,
    told <- journal
PromiseKept == Promise!Spec
=============================================================================
