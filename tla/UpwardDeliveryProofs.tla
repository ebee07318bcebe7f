------------------------ MODULE UpwardDeliveryProofs ------------------------
(***************************************************************************)
(* Theorems about UpwardDelivery, for every set of rooms, every set of     *)
(* event types, every batch size, ceiling and bound.                       *)
(***************************************************************************)
EXTENDS UpwardDelivery, FiniteSetTheorems, SequenceTheorems,
        WellFoundedInduction, TLAPS

-----------------------------------------------------------------------------
(***************************************************************************)
(* Operators.                                                              *)
(***************************************************************************)

\* Newest returns the greatest of a non-empty bounded set of seqs.
LEMMA NewestIs ==
    ASSUME NEW n \in Nat, NEW S \in SUBSET (0..n), S # {}
    PROVE  /\ Newest(S) \in S
           /\ \A t \in S : t <= Newest(S)
<1> DEFINE R == {ss \in Nat \X Nat : ss[1] < ss[2]}
           T == {n - s : s \in S}
<1>1. IsWellFoundedOn(R, Nat)
  BY NatLessThanWellFounded DEF OpToRel
<1>2. T \subseteq Nat /\ T # {}
  <2>1. \A s \in S : n - s \in Nat
    OBVIOUS
  <2> QED BY <2>1
<1>3. PICK x \in T : \A y \in T : <<y, x>> \notin R
  <2> HIDE DEF R, T
  <2> QED BY <1>1, <1>2, WFMin
<1>4. PICK s \in S : x = n - s
  OBVIOUS
<1>5. \A t \in S : t <= s
  <2> SUFFICES ASSUME NEW t \in S PROVE t <= s
    OBVIOUS
  <2>1. <<n - t, n - s>> \notin R
    BY <1>3, <1>4
  <2> QED BY <2>1
<1> QED BY <1>5 DEF Newest

\* The seqs written are the first naturals from one.
LEMMA SeqsAreNumbers ==
    ASSUME TypeOK
    PROVE  /\ Len(written) \in Nat
           /\ Written = 1..Len(written)
           /\ Written \subseteq 0..Len(written)
           /\ Written \subseteq Nat
           /\ consent \in Nat
<1>1. /\ Len(written) \in Nat
      /\ Written = 1..Len(written)
      /\ Written \subseteq 0..Len(written)
      /\ Written \subseteq Nat
  BY DEF TypeOK, Written
<1>2. consent \in Nat
  <2>1. consent \in Written \cup {0}
    BY DEF TypeOK
  <2> QED BY <1>1, <2>1
<1> QED BY <1>1, <1>2

\* What a saturation check takes is best-effort, and is in the queue.
LEMMA SurplusIsCheap ==
    ASSUME NEW rows, NEW room, NEW events
    PROVE  /\ Surplus(rows, room, events) \subseteq rows
           /\ \A s \in Surplus(rows, room, events) : events[s].type \in BestEffort
BY DEF Surplus, Oldest

\* A claim reads rows of the queue.
LEMMA ClaimIsOfTheQueue ==
    ASSUME NEW rows
    PROVE  Claim(rows) \subseteq rows
BY DEF Claim, Oldest

\* An enqueue appends one event and renames none.
LEMMA EnqueueAppends ==
    ASSUME TypeOK, NEW type \in Types, Enqueue(type)
    PROVE  /\ OutboxRoom \in Rooms
           /\ written' \in Seq(Event)
           /\ Len(written') = Len(written) + 1
           /\ Written' = Written \cup {Len(written) + 1}
           /\ \A s \in Written : written'[s] = written[s]
           /\ written'[Len(written) + 1] = [type |-> type, room |-> OutboxRoom]
<1>1. OutboxRoom \in Rooms
  BY RoomsAssumption DEF TypeOK, Enqueue, OutboxRoom
<1>2. [type |-> type, room |-> OutboxRoom] \in Event
  BY <1>1 DEF Event
<1>3. /\ written' = Append(written, [type |-> type, room |-> OutboxRoom])
      /\ written \in Seq(Event)
  BY DEF Enqueue, TypeOK
<1> QED BY <1>1, <1>2, <1>3 DEF Written

\* What a request leaves behind is typed like a request.
LEMMA GiveUpType ==
    ASSUME TypeOK, GiveUp
    PROVE  /\ batch' = {} /\ answer' = NoAnswer
           /\ late' \subseteq LateRequest
<1>1. CASE late' = late
  BY <1>1 DEF GiveUp, TypeOK
<1>2. CASE batch # {} /\ late' = late \cup {Request}
  <2>1. Request \in LateRequest
    BY <1>2 DEF TypeOK, Request, LateRequest
  <2> QED BY <1>2, <2>1 DEF GiveUp, TypeOK
<1> QED BY <1>1, <1>2 DEF GiveUp

\* The ingestion of any events of the room keeps the hub's variables typed.
LEMMA IngestType ==
    ASSUME TypeOK, NEW events \in SUBSET Written, NEW room \in Rooms,
           Ingest(events, room)
    PROVE  /\ log' = log \cup Valid(events, room)
           /\ log' \subseteq Written
           /\ lastSeq' \in [Rooms -> Nat]
           /\ consent' \in Written \cup {0}
           /\ impressions' \in Nat
<1> DEFINE valid == Valid(events, room)
<1>1. valid \subseteq Written
  BY DEF Valid
<1>2. Len(written) \in Nat /\ Written \subseteq 0..Len(written) /\ Written \subseteq Nat
  BY DEF TypeOK, Written
<1>3. log' = log \cup valid /\ log' \subseteq Written
  BY <1>1 DEF Ingest, TypeOK
<1>4. lastSeq' \in [Rooms -> Nat]
  <2>1. CASE valid = {}
    BY <2>1 DEF Ingest, Project, TypeOK
  <2>2. CASE valid # {}
    <3>1. Newest(valid) \in Nat
      BY <1>1, <1>2, <2>2, NewestIs
    <3>2. lastSeq[room] \in Nat
      BY DEF TypeOK
    <3>3. PICK n \in Nat : lastSeq[room] <= n /\ Newest(valid) <= n
      BY <3>1, <3>2
    <3>4. {lastSeq[room], Newest(valid)} \in SUBSET (0..n)
      BY <3>1, <3>2, <3>3
    <3>5. Newest({lastSeq[room], Newest(valid)}) \in Nat
      BY <3>1, <3>2, <3>4, NewestIs
    <3> QED BY <2>2, <3>5 DEF Ingest, Project, TypeOK
  <2> QED BY <2>1, <2>2
<1>5. consent' \in Written \cup {0}
  <2> DEFINE heard == {s \in valid : written[s].type \in ConsentTypes /\ s >= consent}
  <2>1. heard # {} => Newest(heard) \in heard
    BY <1>1, <1>2, NewestIs
  <2> QED BY <1>1, <2>1 DEF Ingest, Project, ConsentAfter, TypeOK
<1>6. impressions' \in Nat
  <2> DEFINE new == {s \in valid \ log : written[s].type = "impressions"}
  <2>1. IsFiniteSet(1..Len(written))
    BY <1>2, FS_Interval
  <2>2. new \in SUBSET (1..Len(written))
    BY <1>1 DEF Written
  <2>3. Cardinality(new) \in Nat
    BY <2>1, <2>2, FS_Subset, FS_CardinalityType
  <2> QED BY <2>3 DEF Ingest, TypeOK
<1> QED BY <1>3, <1>4, <1>5, <1>6
-----------------------------------------------------------------------------
(***************************************************************************)
(* Type correctness.                                                       *)
(***************************************************************************)

LEMMA TypeInit == Init => TypeOK
<1> SUFFICES ASSUME Init PROVE TypeOK
  OBVIOUS
<1>1. written \in Seq(Event)
  BY DEF Init
<1>2. /\ lastSeq \in [Rooms -> Nat]
      /\ answer \in Answer
  BY DEF Init, NoAnswer, Answer
<1>3. /\ {settingsRoom, queueRoom, tokenRoom} \subseteq Rooms \cup {NoRoom}
      /\ running = FALSE
      /\ consent \in Written \cup {0}
  BY DEF Init
<1>4. /\ outbox = {} /\ deferred = {} /\ journal = {} /\ batch = {} /\ late = {} /\ log = {}
      /\ sinceCheck \in Nat /\ impressions \in Nat
  BY DEF Init
<1> QED BY <1>1, <1>2, <1>3, <1>4 DEF TypeOK

LEMMA TypeNext == TypeOK /\ [Next]_vars => TypeOK'
<1> SUFFICES ASSUME TypeOK, [Next]_vars PROVE TypeOK'
  OBVIOUS
<1>1. ASSUME NEW type \in Types, Enqueue(type) PROVE TypeOK'
  <2>1. /\ OutboxRoom \in Rooms
        /\ written' \in Seq(Event)
        /\ Written' = Written \cup {Len(written) + 1}
    BY <1>1, EnqueueAppends
  <2>2. outbox' \subseteq outbox \cup {Len(written) + 1}
    BY <1>1 DEF Enqueue
  <2>3. sinceCheck' \in Nat
    BY <1>1 DEF Enqueue, TypeOK
  <2> QED BY <1>1, <2>1, <2>2, <2>3
          DEF Enqueue, TypeOK, pumpVars, hubVars, Answer, LateRequest
<1>2. ASSUME NEW s \in deferred, ComeDue(s) PROVE TypeOK'
  BY <1>2 DEF ComeDue, TypeOK, roomVars, pumpVars, hubVars, Written, Answer, LateRequest
<1>3. ASSUME NEW old \in 0..Len(written), NEW older \in 0..Len(written), Drain(old, older)
      PROVE TypeOK'
  <2>1. Expired(old, older) \subseteq outbox
    BY DEF Expired
  <2>2. Claim(outbox \ Expired(old, older)) \subseteq outbox
    BY ClaimIsOfTheQueue
  <2> QED BY <1>3, <2>1, <2>2
          DEF Drain, TypeOK, roomVars, hubVars, Written, Answer, LateRequest
<1>4. CASE Settle
  BY <1>4 DEF Settle, TypeOK, roomVars, hubVars, Written, Answer, LateRequest, NoAnswer
<1>5. CASE Fail
  <2>1. batch' = {} /\ answer' = NoAnswer /\ late' \subseteq LateRequest
    BY <1>5, GiveUpType DEF Fail
  <2> QED BY <1>5, <2>1 DEF Fail, TypeOK, roomVars, hubVars, Written, Answer, NoAnswer, LateRequest
<1>6. CASE Receive
  <2>1. batch \in SUBSET Written /\ tokenRoom \in Rooms
    BY <1>6 DEF Receive, TypeOK
  <2>2. /\ log' \subseteq Written
        /\ lastSeq' \in [Rooms -> Nat]
        /\ consent' \in Written \cup {0}
        /\ impressions' \in Nat
    BY <1>6, <2>1, IngestType DEF Receive
  <2>3. answer' \in Answer
    BY <1>6, <2>1 DEF Receive, Answer, Valid
  <2> QED BY <1>6, <2>2, <2>3 DEF Receive, TypeOK, roomVars, Written, Answer, LateRequest
<1>7. ASSUME NEW request \in late, ReceiveLate(request) PROVE TypeOK'
  <2>1. request.events \in SUBSET Written /\ request.room \in Rooms
    BY DEF TypeOK, LateRequest
  <2>2. /\ log' \subseteq Written
        /\ lastSeq' \in [Rooms -> Nat]
        /\ consent' \in Written \cup {0}
        /\ impressions' \in Nat
    <3>1. CASE Ingest(request.events, request.room)
      BY <2>1, <3>1, IngestType
    <3>2. CASE UNCHANGED hubVars
      BY <3>2 DEF TypeOK, hubVars
    <3> QED BY <1>7, <3>1, <3>2 DEF ReceiveLate
  <2> QED BY <1>7, <2>2 DEF ReceiveLate, TypeOK, roomVars, pumpVars, Written, Answer, LateRequest
<1>8. ASSUME NEW room \in Rooms, NEW synced \in BOOLEAN, Connect(room, synced) PROVE TypeOK'
  BY <1>8 DEF Connect, TypeOK, hubVars, Written, Answer, LateRequest
<1>9. CASE Repair
  <2>1. batch' = {} /\ answer' = NoAnswer /\ late' \subseteq LateRequest
    BY <1>9, GiveUpType DEF Repair
  <2> QED BY <1>9, <2>1 DEF Repair, TypeOK, hubVars, Written, Answer, NoAnswer, LateRequest
<1>10. CASE Restart
  <2>1. batch' = {} /\ answer' = NoAnswer /\ late' \subseteq LateRequest
    BY <1>10, GiveUpType DEF Restart
  <2> QED BY <1>10, <2>1 DEF Restart, TypeOK, hubVars, Written, Answer, NoAnswer, LateRequest
<1>11. CASE UNCHANGED vars
  BY <1>11 DEF vars, TypeOK, roomVars, pumpVars, hubVars, Written, Answer, LateRequest
<1> QED BY <1>1, <1>2, <1>3, <1>4, <1>5, <1>6, <1>7, <1>8, <1>9, <1>10, <1>11 DEF Next

\* Every variable keeps its type, and the queue, the batch in flight and the
\* hub's log only ever hold events the room wrote.
THEOREM TypeCorrect == Spec => []TypeOK
BY TypeInit, TypeNext, PTL DEF Spec
-----------------------------------------------------------------------------
(***************************************************************************)
(* Nothing required vanishes.  NothingVanishes is not inductive alone: the *)
(* pump drops what the answer says is held, so the answer must be true,    *)
(* and stay true while it travels.                                         *)
(***************************************************************************)

\* What an answer on its way back calls held is in the hub's log.
AnswerIsTrue == answer.held \subseteq log

DeliveryInv == TypeOK /\ AnswerIsTrue /\ NothingVanishes

\* The hub's log only grows.
LEMMA LogGrows == ASSUME [Next]_vars PROVE log \subseteq log'
BY DEF Next, Enqueue, ComeDue, Drain, Settle, Fail, Receive, ReceiveLate, Connect,
       Repair, Restart, Ingest, vars, hubVars

\* Which events are required does not change as others are written.
LEMMA RequiredIsStable ==
    ASSUME TypeOK, written' = written
    PROVE  Required' = Required
BY DEF Required, Written

LEMMA RequiredGrows ==
    ASSUME TypeOK, NEW type \in Types, Enqueue(type)
    PROVE  /\ Required \subseteq Required'
           /\ Required' \subseteq Required \cup {Len(written) + 1}
           /\ Required' \cap Written = Required
<1>1. Len(written) + 1 \notin Written
  BY DEF TypeOK, Written
<1> QED BY <1>1, EnqueueAppends DEF Required

LEMMA EnqueueDropsCheap ==
    ASSUME TypeOK, NEW type \in Types, Enqueue(type)
    PROVE  /\ outbox' \subseteq outbox \cup {Len(written) + 1}
           /\ \A s \in Required' : s \in outbox \cup {Len(written) + 1} => s \in outbox'
<1> DEFINE event == [type |-> type, room |-> OutboxRoom]
           seq == Len(written) + 1
           rows == (outbox \ Collapsed(event)) \cup {seq}
           taken == Surplus(rows, OutboxRoom, written')
<1>1. outbox' \in {rows, rows \ taken}
  BY DEF Enqueue
<1>2. \A s \in taken : s \notin Required'
  BY SurplusIsCheap DEF Required, Delivery
<1>3. \A s \in Collapsed(event) : s \notin Required'
  <2>1. \A s \in Collapsed(event) : s \in Written /\ written[s].type \in BestEffort
    BY DEF Collapsed, TypeOK
  <2> QED BY <2>1, EnqueueAppends DEF Required, Delivery
<1> QED BY <1>1, <1>2, <1>3

LEMMA DeliveryInit == Init => DeliveryInv
<1> SUFFICES ASSUME Init PROVE DeliveryInv
  OBVIOUS
<1>1. Required = {}
  BY DEF Init, Required, Written
<1> QED BY <1>1, TypeInit DEF DeliveryInv, Init, AnswerIsTrue, NothingVanishes, NoAnswer

LEMMA DeliveryNext == DeliveryInv /\ [Next]_vars => DeliveryInv'
<1> SUFFICES ASSUME DeliveryInv, [Next]_vars PROVE DeliveryInv'
  OBVIOUS
<1> USE DEF DeliveryInv
<1>0. TypeOK' /\ log \subseteq log'
  BY TypeNext, LogGrows
<1>1. ASSUME NEW type \in Types, Enqueue(type) PROVE DeliveryInv'
  <2>1. AnswerIsTrue'
    BY <1>1 DEF Enqueue, AnswerIsTrue, pumpVars, hubVars
  <2>2. NothingVanishes'
    BY <1>1, RequiredGrows, EnqueueDropsCheap DEF NothingVanishes, Enqueue, hubVars
  <2> QED BY <1>0, <2>1, <2>2
<1>2. ASSUME NEW s \in deferred, ComeDue(s) PROVE DeliveryInv'
  BY <1>0, <1>2, RequiredIsStable
     DEF ComeDue, AnswerIsTrue, NothingVanishes, pumpVars, hubVars
<1>3. ASSUME NEW old \in 0..Len(written), NEW older \in 0..Len(written), Drain(old, older)
      PROVE DeliveryInv'
  BY <1>0, <1>3, RequiredIsStable DEF Drain, AnswerIsTrue, NothingVanishes, hubVars
<1>4. CASE Settle
  BY <1>0, <1>4, RequiredIsStable
     DEF Settle, AnswerIsTrue, NothingVanishes, NoAnswer, hubVars
<1>5. CASE Fail
  BY <1>0, <1>5, RequiredIsStable
     DEF Fail, GiveUp, AnswerIsTrue, NothingVanishes, NoAnswer, hubVars
<1>6. CASE Receive
  <2>1. log' = log \cup Valid(batch, tokenRoom)
    BY <1>6 DEF Receive, Ingest
  <2>2. AnswerIsTrue'
    BY <1>6, <2>1 DEF Receive, AnswerIsTrue
  <2>3. NothingVanishes'
    BY <1>6, <2>1, RequiredIsStable DEF Receive, NothingVanishes
  <2> QED BY <1>0, <2>2, <2>3
<1>7. ASSUME NEW request \in late, ReceiveLate(request) PROVE DeliveryInv'
  BY <1>0, <1>7, RequiredIsStable DEF ReceiveLate, AnswerIsTrue, NothingVanishes, pumpVars
<1>8. ASSUME NEW room \in Rooms, NEW synced \in BOOLEAN, Connect(room, synced)
      PROVE DeliveryInv'
  BY <1>0, <1>8, RequiredIsStable DEF Connect, AnswerIsTrue, NothingVanishes, hubVars
<1>9. CASE Repair
  BY <1>0, <1>9, RequiredIsStable
     DEF Repair, GiveUp, AnswerIsTrue, NothingVanishes, NoAnswer, hubVars
<1>10. CASE Restart
  BY <1>0, <1>10, RequiredIsStable
     DEF Restart, GiveUp, AnswerIsTrue, NothingVanishes, NoAnswer, hubVars
<1>11. CASE UNCHANGED vars
  BY <1>0, <1>11, RequiredIsStable
     DEF vars, pumpVars, hubVars, AnswerIsTrue, NothingVanishes
<1> QED BY <1>1, <1>2, <1>3, <1>4, <1>5, <1>6, <1>7, <1>8, <1>9, <1>10, <1>11 DEF Next

\* The project's central promise: whatever is lost, replayed, collapsed, evicted
\* or cut short, a required event is in the queue, at the hub, or in the journal.
THEOREM NothingRequiredVanishes == Spec => []NothingVanishes
<1>1. DeliveryInv => NothingVanishes
  BY DEF DeliveryInv
<1> QED BY <1>1, DeliveryInit, DeliveryNext, PTL DEF Spec
-----------------------------------------------------------------------------
(***************************************************************************)
(* The hub's projections under replays.                                    *)
(***************************************************************************)

\* A step other than an enqueue leaves the events alone; an enqueue leaves the
\* hub alone.
LEMMA WriterOrHub ==
    ASSUME [Next]_vars
    PROVE  \/ written' = written
           \/ hubVars' = hubVars /\ \E type \in Types : Enqueue(type)
BY DEF Next, Enqueue, ComeDue, Drain, Settle, Fail, Receive, ReceiveLate, Connect,
       Repair, Restart, vars

\* The hub moves only by an ingestion.
LEMMA HubMoves ==
    ASSUME TypeOK, [Next]_vars
    PROVE  \/ hubVars' = hubVars
           \/ /\ written' = written
              /\ \E events \in SUBSET Written, room \in Rooms : Ingest(events, room)
<1>1. CASE Receive
  <2>1. batch \in SUBSET Written /\ tokenRoom \in Rooms
    BY <1>1 DEF Receive, TypeOK
  <2> QED BY <1>1, <2>1 DEF Receive
<1>2. ASSUME NEW request \in late, ReceiveLate(request)
      PROVE \/ hubVars' = hubVars
            \/ /\ written' = written
               /\ \E events \in SUBSET Written, room \in Rooms : Ingest(events, room)
  <2>1. request.events \in SUBSET Written /\ request.room \in Rooms
    BY DEF TypeOK, LateRequest
  <2> QED BY <1>2, <2>1 DEF ReceiveLate
<1> QED BY <1>1, <1>2 DEF Next, Enqueue, ComeDue, Drain, Settle, Fail, Connect,
       Repair, Restart, vars

\* LastSeqIsNewest, without CHOOSE.
SeqIsNewest ==
    \A r \in Rooms :
        LET theirs == {s \in log : written[s].room = r}
        IN  /\ \A s \in theirs : s <= lastSeq[r]
            /\ lastSeq[r] # 0 => lastSeq[r] \in theirs

LEMMA SeqIsNewestSuffices == TypeOK /\ SeqIsNewest => LastSeqIsNewest
<1> SUFFICES ASSUME TypeOK, SeqIsNewest, NEW r \in Rooms
             PROVE LET theirs == {s \in log : written[s].room = r}
                   IN lastSeq[r] = IF theirs = {} THEN 0 ELSE Newest(theirs)
  BY DEF LastSeqIsNewest
<1> DEFINE theirs == {s \in log : written[s].room = r}
<1>1. /\ \A s \in theirs : s <= lastSeq[r]
      /\ lastSeq[r] # 0 => lastSeq[r] \in theirs
      /\ lastSeq[r] \in Nat
  BY DEF SeqIsNewest, TypeOK
<1>2. Len(written) \in Nat /\ theirs \subseteq 1..Len(written) /\ theirs \subseteq 0..Len(written)
  <2>1. theirs \subseteq Written
    BY DEF TypeOK
  <2> QED BY <2>1, SeqsAreNumbers
<1>3. CASE theirs = {}
  BY <1>1, <1>3
<1>4. CASE theirs # {}
  <2>1. Newest(theirs) \in theirs /\ \A t \in theirs : t <= Newest(theirs)
    BY <1>2, <1>4, NewestIs
  <2> DEFINE top == Newest(theirs)
  <2>2. top \in theirs /\ \A t \in theirs : t <= top
    BY <2>1
  <2> HIDE DEF theirs, top
  <2>3. top \in 1..Len(written) /\ top <= lastSeq[r] /\ lastSeq[r] # 0
    BY <1>1, <1>2, <2>2
  <2>4. lastSeq[r] \in theirs
    BY <1>1, <2>3
  <2>5. lastSeq[r] = top
    BY <1>1, <1>2, <2>2, <2>3, <2>4
  <2> QED BY <1>4, <2>5 DEF theirs, top
<1> QED BY <1>3, <1>4

LEMMA SeqNext == TypeOK /\ SeqIsNewest /\ [Next]_vars => SeqIsNewest'
<1> SUFFICES ASSUME TypeOK, SeqIsNewest, [Next]_vars PROVE SeqIsNewest'
  OBVIOUS
<1>1. CASE hubVars' = hubVars
  <2>1. \A s \in Written : written'[s] = written[s]
    <3>1. CASE written' = written
      BY <3>1
    <3>2. CASE \E type \in Types : Enqueue(type)
      BY <3>2, EnqueueAppends
    <3> QED BY <3>1, <3>2, WriterOrHub
  <2>2. \A s \in log : written'[s] = written[s]
    BY <2>1 DEF TypeOK
  <2> QED BY <1>1, <2>2 DEF SeqIsNewest, hubVars
<1>2. ASSUME written' = written,
             NEW events \in SUBSET Written, NEW room \in Rooms, Ingest(events, room)
      PROVE SeqIsNewest'
  <2> DEFINE valid == Valid(events, room)
             top == Newest({lastSeq[room], Newest(valid)})
  <2>1. /\ valid \subseteq Written
        /\ \A s \in valid : written[s].room = room
    BY DEF Valid
  <2>2. Len(written) \in Nat /\ Written = 1..Len(written) /\ log \subseteq Written
    BY DEF TypeOK, Written
  <2>3. log' = log \cup valid
    BY <1>2 DEF Ingest
  <2>4. CASE valid = {}
    BY <1>2, <2>3, <2>4 DEF Ingest, Project, SeqIsNewest
  <2>5. CASE valid # {}
    <3>0. valid \in SUBSET (0..Len(written))
      BY <2>1, <2>2
    <3>1. Newest(valid) \in valid /\ \A t \in valid : t <= Newest(valid)
      <4> HIDE DEF valid
      <4> QED BY <2>2, <2>5, <3>0, NewestIs
    <3>2. lastSeq[room] \in 0..Len(written)
      BY <2>2 DEF TypeOK, SeqIsNewest
    <3>3. {lastSeq[room], Newest(valid)} \in SUBSET (0..Len(written))
      BY <2>1, <2>2, <3>1, <3>2
    <3>4. /\ top \in {lastSeq[room], Newest(valid)}
          /\ lastSeq[room] <= top /\ Newest(valid) <= top
      BY <2>2, <3>3, NewestIs
    <3>5. lastSeq' = [lastSeq EXCEPT ![room] = top]
      BY <1>2, <2>5 DEF Ingest, Project
    <3> HIDE DEF valid, top
    <3> SUFFICES ASSUME NEW r \in Rooms
                 PROVE LET theirs == {s \in log' : written'[s].room = r}
                       IN  /\ \A s \in theirs : s <= lastSeq'[r]
                           /\ lastSeq'[r] # 0 => lastSeq'[r] \in theirs
      BY DEF SeqIsNewest
    <3>6. CASE r # room
      <4>1. lastSeq'[r] = lastSeq[r]
        BY <3>5, <3>6 DEF TypeOK
      <4>2. {s \in log' : written'[s].room = r} = {s \in log : written[s].room = r}
        BY <1>2, <2>1, <2>3, <3>6
      <4> QED BY <4>1, <4>2 DEF SeqIsNewest
    <3>7. CASE r = room
      <4>1. lastSeq'[r] = top
        BY <3>5, <3>7 DEF TypeOK
      <4>2. {s \in log' : written'[s].room = r} = {s \in log : written[s].room = r} \cup valid
        BY <1>2, <2>1, <2>3, <3>7
      <4>3. /\ \A s \in {s \in log : written[s].room = r} : s <= lastSeq[r]
            /\ lastSeq[r] # 0 => lastSeq[r] \in {s \in log : written[s].room = r}
            /\ lastSeq[r] \in Nat
        BY DEF SeqIsNewest, TypeOK
      <4>4. \A s \in {s \in log : written[s].room = r} \cup valid : s \in Nat /\ s <= top
        <5>0. Newest(valid) \in Nat /\ \A s \in valid : s \in Nat
          <6>1. \A s \in valid : s \in Nat
            BY <2>1, <2>2
          <6> QED BY <3>1, <6>1
        <5>1. top \in Nat
          BY <3>2, <3>4, <5>0
        <5>2. \A s \in valid : s \in Nat /\ s <= top
          BY <3>1, <3>4, <5>0, <5>1
        <5>3. \A s \in {s \in log : written[s].room = r} : s \in Nat /\ s <= top
          BY <2>2, <3>4, <3>7, <4>3, <5>1
        <5> QED BY <5>2, <5>3
      <4> QED BY <3>1, <3>4, <3>7, <4>1, <4>2, <4>3, <4>4
    <3> QED BY <3>6, <3>7
  <2> QED BY <2>4, <2>5
<1> QED BY <1>1, <1>2, HubMoves

\* last_seq never regresses: it is the newest seq the hub holds for the room,
\* whatever order the batches, their replays and the late requests land in.
THEOREM LastSeqFollowsTheNewest == Spec => []LastSeqIsNewest
<1>1. Init => SeqIsNewest
  BY DEF Init, SeqIsNewest
<1> QED BY <1>1, TypeInit, TypeNext, SeqNext, SeqIsNewestSuffices, PTL DEF Spec

\* A replayed answer, however late, never replaces a later one on file.
THEOREM ConsentIsGuarded == Spec => ConsentNeverOlder
<1>1. ASSUME TypeOK, [Next]_vars
      PROVE  consent # 0 /\ consent' # 0 => consent' >= consent
  <2>1. CASE hubVars' = hubVars
    <3>1. consent' = consent /\ consent \in Nat
      BY <1>1, <2>1, SeqsAreNumbers DEF hubVars
    <3> QED BY <3>1
  <2>2. ASSUME NEW events \in SUBSET Written, NEW room \in Rooms, Ingest(events, room)
        PROVE consent # 0 /\ consent' # 0 => consent' >= consent
    <3> DEFINE heard == {s \in Valid(events, room) :
                           written[s].type \in ConsentTypes /\ s >= consent}
    <3>0. heard \subseteq Written
      BY DEF Valid
    <3>1. heard \in SUBSET (0..Len(written)) /\ Len(written) \in Nat
      BY <1>1, <3>0, SeqsAreNumbers
    <3>2. heard # {} => Newest(heard) \in heard
      <4> HIDE DEF heard
      <4> QED BY <3>1, NewestIs
    <3>3. consent' = ConsentAfter(Valid(events, room))
      BY <2>2 DEF Ingest, Project
    <3>4. consent' \in {consent, 0} \/ (heard # {} /\ consent' = Newest(heard))
      BY <3>3 DEF ConsentAfter
    <3>5. consent \in Nat
      BY <1>1, SeqsAreNumbers
    <3>6. heard # {} => Newest(heard) >= consent
      BY <3>2
    <3> HIDE DEF heard
    <3> QED BY <3>4, <3>5, <3>6
  <2> QED BY <1>1, <2>1, <2>2, HubMoves
<1>2. TypeOK /\ [Next]_vars => [consent # 0 /\ consent' # 0 => consent' >= consent]_vars
  BY <1>1
<1> QED BY <1>2, TypeInit, TypeNext, PTL DEF Spec, ConsentNeverOlder

\* The wall's counters: one count per impressions event held, replays or not.
LEMMA ImpressionsNext ==
    TypeOK /\ ImpressionsCountedOnce /\ [Next]_vars => ImpressionsCountedOnce'
<1> SUFFICES ASSUME TypeOK, ImpressionsCountedOnce, [Next]_vars
             PROVE ImpressionsCountedOnce'
  OBVIOUS
<1> DEFINE Counted(S) == {s \in S : written[s].type = "impressions"}
<1>1. CASE hubVars' = hubVars
  <2>1. \A s \in log : written'[s] = written[s]
    <3>1. \A s \in Written : written'[s] = written[s]
      BY WriterOrHub, EnqueueAppends
    <3> QED BY <3>1 DEF TypeOK
  <2>2. {s \in log' : written'[s].type = "impressions"} = Counted(log)
    BY <1>1, <2>1 DEF hubVars
  <2> QED BY <1>1, <2>2 DEF ImpressionsCountedOnce, hubVars
<1>2. ASSUME written' = written,
             NEW events \in SUBSET Written, NEW room \in Rooms, Ingest(events, room)
      PROVE ImpressionsCountedOnce'
  <2> DEFINE valid == Valid(events, room)
             old == Counted(log)
             new == Counted(valid \ log)
  <2>1. /\ log' = log \cup valid
        /\ impressions' = impressions + Cardinality(new)
    BY <1>2 DEF Ingest
  <2>2. old \subseteq Written /\ new \subseteq Written
    BY DEF TypeOK, Valid
  <2>3. IsFiniteSet(old) /\ IsFiniteSet(new)
    <3>1. IsFiniteSet(Written)
      BY SeqsAreNumbers, FS_Interval
    <3> HIDE DEF old, new
    <3> QED BY <2>2, <3>1, FS_Subset
  <2>4. old \cap new = {}
    OBVIOUS
  <2>5. {s \in log' : written'[s].type = "impressions"} = old \cup new
    BY <1>2, <2>1
  <2>6. Cardinality(old \cup new) = Cardinality(old) + Cardinality(new)
    <3> HIDE DEF old, new
    <3>1. Cardinality(old \cap new) = 0
      BY <2>4, FS_EmptySet
    <3>2. Cardinality(old) \in Nat /\ Cardinality(new) \in Nat
      BY <2>3, FS_CardinalityType
    <3>3. Cardinality(old \cup new) =
             Cardinality(old) + Cardinality(new) - Cardinality(old \cap new)
      BY <2>3, FS_Union
    <3> QED BY <3>1, <3>2, <3>3
  <2>7. impressions = Cardinality(old)
    BY DEF ImpressionsCountedOnce
  <2> QED BY <2>1, <2>5, <2>6, <2>7 DEF ImpressionsCountedOnce
<1> QED BY <1>1, <1>2, HubMoves

\* Exactly-once counting on top of at-least-once delivery: the wall's figures
\* count each impressions event the hub holds once.
THEOREM ImpressionsAreExact == Spec => []ImpressionsCountedOnce
<1>1. Init => ImpressionsCountedOnce
  <2> SUFFICES ASSUME Init PROVE ImpressionsCountedOnce
    OBVIOUS
  <2>1. {s \in log : written[s].type = "impressions"} = {}
    BY DEF Init
  <2> QED BY <2>1, FS_EmptySet DEF Init, ImpressionsCountedOnce
<1> QED BY <1>1, TypeInit, TypeNext, ImpressionsNext, PTL DEF Spec
-----------------------------------------------------------------------------
(***************************************************************************)
(* The queue.                                                              *)
(***************************************************************************)

LEMMA KeysNext == TypeOK /\ AtMostOneRowPerKey /\ [Next]_vars => AtMostOneRowPerKey'
<1> SUFFICES ASSUME TypeOK, AtMostOneRowPerKey, [Next]_vars PROVE AtMostOneRowPerKey'
  OBVIOUS
<1>1. CASE outbox' \subseteq outbox /\ written' = written
  BY <1>1 DEF AtMostOneRowPerKey
<1>2. ASSUME NEW type \in Types, Enqueue(type) PROVE AtMostOneRowPerKey'
  <2> DEFINE event == [type |-> type, room |-> OutboxRoom]
             seq == Len(written) + 1
  <2>1. outbox' \subseteq (outbox \ Collapsed(event)) \cup {seq}
    BY <1>2 DEF Enqueue
  <2>2. /\ \A s \in outbox : written'[s] = written[s]
        /\ written'[seq] = event
    BY <1>2, EnqueueAppends DEF TypeOK
  <2>3. \A s \in outbox \ Collapsed(event) :
            ~(written'[s] = event /\ event.type \in BestEffort)
    BY <2>2 DEF Collapsed
  <2> HIDE DEF event, seq
  <2> SUFFICES ASSUME NEW s \in outbox', NEW t \in outbox',
                      written'[s] = written'[t], written'[s].type \in BestEffort
               PROVE s = t
    BY DEF AtMostOneRowPerKey
  <2>4. CASE s = seq \/ t = seq
    BY <2>1, <2>2, <2>3, <2>4
  <2>5. CASE s # seq /\ t # seq
    BY <2>1, <2>2, <2>5 DEF AtMostOneRowPerKey
  <2> QED BY <2>4, <2>5
<1> QED BY <1>1, <1>2 DEF Next, ComeDue, Drain, Settle, Fail, Receive, ReceiveLate,
       Connect, Repair, Restart, vars

\* A collapse, a batch in flight, a deferral and a restart, in any order, never
\* leave two rows for one key.
THEOREM KeysAreCollapsed == Spec => []AtMostOneRowPerKey
<1>1. Init => AtMostOneRowPerKey
  BY DEF Init, AtMostOneRowPerKey
<1> QED BY <1>1, TypeInit, TypeNext, KeysNext, PTL DEF Spec
-----------------------------------------------------------------------------
(***************************************************************************)
(* The detailed specification implements the promise.                      *)
(***************************************************************************)

LEMMA PromiseInit == Init => Promise!Init
<1> SUFFICES ASSUME Init PROVE Promise!Init
  OBVIOUS
<1>1. [s \in Written |-> Delivery(written[s].type)] = <<>>
  BY DEF Init, Written
<1> QED BY <1>1 DEF Init, Promise!Init

LEMMA PromiseMap ==
    ASSUME TypeOK
    PROVE  /\ Promise!Emitted = Written
           /\ Promise!Required = Required
<1> DEFINE policies == [s \in Written |-> Delivery(written[s].type)]
<1>1. Len(policies) = Len(written)
  BY SeqsAreNumbers
<1>2. Promise!Emitted = Written
  BY <1>1 DEF Promise!Emitted, Written
<1> QED BY <1>2 DEF Promise!Required, Required

\* A step that writes nothing and keeps the hub is a release or a stutter.
LEMMA ReleaseSuffices ==
    ASSUME TypeOK, TypeOK', written' = written, log' = log,
           outbox' \subseteq outbox, journal \subseteq journal',
           (outbox \ outbox') \cap Required \subseteq log \cup journal'
    PROVE  Promise!Release
<1>1. Promise!Emitted = Written /\ Promise!Required = Required
  BY PromiseMap
<1>2. journal' \in SUBSET Written
  BY DEF TypeOK, Written
<1>3. \E named \in SUBSET Promise!Emitted : journal' = journal \cup named
  BY <1>1, <1>2
<1>4. \E dropped \in SUBSET outbox :
          /\ dropped \cap Promise!Required \subseteq log \cup journal'
          /\ outbox' = outbox \ dropped
  <2>1. /\ outbox \ outbox' \in SUBSET outbox
        /\ outbox' = outbox \ (outbox \ outbox')
    OBVIOUS
  <2> QED BY <1>1, <2>1
<1>5. UNCHANGED [s \in Written |-> Delivery(written[s].type)]
  BY DEF Written
<1> QED BY <1>3, <1>4, <1>5 DEF Promise!Release

\* A step that only adds to the hub's log is the hub taking events.
LEMMA HoldSuffices ==
    ASSUME TypeOK, TypeOK', written' = written, log \subseteq log',
           outbox' = outbox, journal' = journal
    PROVE  Promise!Hold
<1>1. Promise!Emitted = Written
  BY PromiseMap
<1>2. log' \in SUBSET Written
  BY DEF TypeOK, Written
<1>3. \E taken \in SUBSET Promise!Emitted : log' = log \cup taken
  BY <1>1, <1>2
<1>4. UNCHANGED [s \in Written |-> Delivery(written[s].type)]
  BY DEF Written
<1> QED BY <1>3, <1>4 DEF Promise!Hold

LEMMA EmitSuffices ==
    ASSUME TypeOK, TypeOK', NEW type \in Types, Enqueue(type)
    PROVE  Promise!Emit(Delivery(type))
<1> DEFINE policies == [s \in Written |-> Delivery(written[s].type)]
           seq == Len(written) + 1
           dropped == (outbox \cup {seq}) \ outbox'
<1>1. /\ Len(written) \in Nat
      /\ Written = 1..Len(written)
      /\ Written' = 1..seq
      /\ Len(policies) = Len(written)
  <2>1. Len(written) \in Nat /\ Written = 1..Len(written)
    BY SeqsAreNumbers
  <2>2. Written' = 1..seq
    BY EnqueueAppends DEF Written
  <2> QED BY <2>1, <2>2
<1>2. policies' = Append(policies, Delivery(type))
  <2> DEFINE longer == Append(policies, Delivery(type))
  <2>1. policies \in [1..Len(written) -> Promise!Policy]
    BY <1>1 DEF Delivery, Promise!Policy
  <2>2. policies \in Seq(Promise!Policy) /\ Delivery(type) \in Promise!Policy
    BY <1>1, <2>1, SeqDef DEF Delivery, Promise!Policy
  <2>3. policies' = [s \in 1..seq |-> Delivery(written'[s].type)]
    BY <1>1
  <2>4. \A s \in 1..Len(written) : Delivery(written'[s].type) = policies[s]
    BY <1>1, EnqueueAppends
  <2>5. Delivery(written'[seq].type) = Delivery(type)
    <3>1. written'[seq] = [type |-> type, room |-> OutboxRoom]
      BY EnqueueAppends
    <3>2. written'[seq].type = type
      BY <3>1
    <3> QED BY <3>2
  <2> HIDE DEF policies
  <2>6. /\ longer \in Seq(Promise!Policy)
        /\ Len(longer) = seq
        /\ \A s \in 1..Len(written) : longer[s] = policies[s]
        /\ longer[seq] = Delivery(type)
    BY <1>1, <2>2, AppendProperties
  <2>7. longer = [s \in 1..seq |-> longer[s]]
    BY <2>6, LenProperties
  <2>8. \A s \in 1..seq : longer[s] = Delivery(written'[s].type)
    <3>1. \A s \in 1..seq : s = seq \/ s \in 1..Len(written)
      BY <1>1
    <3> QED BY <2>4, <2>5, <2>6, <3>1
  <2> QED BY <2>3, <2>7, <2>8
<1>3. /\ outbox' = (outbox \cup {seq}) \ dropped
      /\ dropped \cap Required' = {}
      /\ dropped \subseteq Written'
  <2>1. outbox \subseteq Written' /\ seq \in Written'
    BY EnqueueAppends DEF TypeOK
  <2>2. dropped \cap Required' = {}
    BY EnqueueDropsCheap
  <2>3. outbox' \subseteq outbox \cup {seq}
    BY EnqueueDropsCheap
  <2> QED BY <2>1, <2>2, <2>3
<1>4. (Promise!Emitted)' = Written' /\ (Promise!Required)' = Required'
  <2>1. Len(policies') = seq
    BY <1>1
  <2>2. (Promise!Emitted)' = Written'
    BY <1>1, <2>1 DEF Promise!Emitted
  <2> QED BY <2>2 DEF Promise!Required, Required
<1>5. UNCHANGED <<log, journal>>
  BY DEF Enqueue, hubVars
<1>6. dropped \in SUBSET Written' /\ Len(policies) + 1 = seq
  BY <1>1, <1>3
<1> QED BY <1>2, <1>3, <1>4, <1>5, <1>6 DEF Promise!Emit

LEMMA PromiseNext ==
    DeliveryInv /\ DeliveryInv' /\ [Next]_vars => [Promise!Next]_(Promise!vars)
<1> SUFFICES ASSUME DeliveryInv, DeliveryInv', [Next]_vars
             PROVE [Promise!Next]_(Promise!vars)
  OBVIOUS
<1> USE DEF DeliveryInv
<1>1. ASSUME NEW type \in Types, Enqueue(type) PROVE Promise!Next
  BY <1>1, EmitSuffices DEF Promise!Next, Promise!Policy, Delivery
<1>2. CASE /\ written' = written /\ log' = log
           /\ outbox' = outbox /\ journal' = journal
  BY <1>2 DEF Promise!vars, Written
<1>3. ASSUME NEW old \in 0..Len(written), NEW older \in 0..Len(written), Drain(old, older)
      PROVE Promise!Next
  BY <1>3, ReleaseSuffices DEF Drain, hubVars, Promise!Next
<1>4. CASE Settle
  BY <1>4, ReleaseSuffices DEF Settle, AnswerIsTrue, hubVars, Promise!Next
<1>5. CASE Receive
  BY <1>5, HoldSuffices DEF Receive, Ingest, Promise!Next
<1>6. ASSUME NEW request \in late, ReceiveLate(request) PROVE [Promise!Next]_(Promise!vars)
  <2>1. log \subseteq log'
    BY LogGrows
  <2> QED BY <1>6, <2>1, HoldSuffices DEF ReceiveLate, Promise!Next
<1> QED BY <1>1, <1>2, <1>3, <1>4, <1>5, <1>6
        DEF Next, ComeDue, Fail, Connect, Repair, Restart, vars, hubVars

\* The queue, the pump and the ingestion together implement DeliveryPromise.
THEOREM PromiseIsKept == Spec => PromiseKept
BY PromiseInit, PromiseNext, DeliveryInit, DeliveryNext, PTL DEF Spec, PromiseKept, Promise!Spec
=============================================================================
