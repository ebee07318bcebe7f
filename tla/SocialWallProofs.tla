-------------------------- MODULE SocialWallProofs --------------------------
(***************************************************************************)
(* Theorems about SocialWall, for every set of posts and every bound.      *)
(***************************************************************************)
EXTENDS SocialWall, SequenceTheorems, TLAPS

-----------------------------------------------------------------------------
(***************************************************************************)
(* The decisions, and the social wall the hub computes from them.          *)
(***************************************************************************)

Decision == {"absent", "pending", "approved", "rejected"}

\* What moderation and the source's word keep between them: a post rejected last
\* has a row that says so, and what is on the wall was computed from such rows.
RowsInv ==
    /\ status \in [Posts -> Decision]
    /\ \A p \in decided : p \in Posts /\ status[p] = "rejected"
    /\ \A p \in screen : p \in Posts /\ status[p] = "approved"

\* The wall of approved rows shows approved posts, whatever their source says.
LEMMA ScreenIsApproved ==
    ASSUME NEW rows, NEW word, NEW kept,
           NEW p \in ComputeScreen(rows, word, kept)
    PROVE  p \in Posts /\ rows[p] = "approved"
BY DEF ComputeScreen

\* Every step either leaves the rows and the wall alone, or is one of four.
LEMMA RowsMove ==
    ASSUME Next
    PROVE  \/ UNCHANGED <<status, decided, vetted, screen>>
           \/ Ingest
           \/ UNCHANGED <<status, decided, vetted>> /\ screen' = ComputeScreen(status, active, forced)
           \/ UNCHANGED <<status, decided, vetted>>
                /\ \E p \in Posts : screen' = ComputeScreen(status, active, [forced EXCEPT ![p] = ~@])
           \/ \E p \in Forms : FormPosts(p)
           \/ \E p \in Posts, d \in {"approved", "rejected"} : Moderate(p, d)
<1> USE DEF sourceVars, pollVars, rowVars, hubVars, roomVars, feedVars, bounds
<1>1. CASE \E p \in Trusted : SourceChanges(p)
  BY <1>1 DEF SourceChanges
<1>2. CASE Polling
  BY <1>2 DEF Polling, StartPoll, SourceAnswers, EndPoll, PollFails, BackoffEnds, Publish
<1>3. CASE Operating
  BY <1>3 DEF Operating, SetPaused, SetToken, SetForced, Publish
<1>4. CASE SendNotice \/ HubRestarts
  BY <1>4 DEF SendNotice, HubRestarts
<1>5. CASE Projecting
  BY <1>5 DEF Projecting, RoomHears, RoomTick, HubAnswers, FetchFails, FetchEnds, FeedOpens,
              FeedBreaks, FeedDelivers, RoomRestarts
<1> QED BY <1>1, <1>2, <1>3, <1>4, <1>5 DEF Next

LEMMA RowsInvInit == Init => RowsInv
BY DEF Init, RowsInv, Decision

LEMMA RowsInvStep == RowsInv /\ [Next]_vars => RowsInv'
<1> SUFFICES ASSUME RowsInv, [Next]_vars PROVE RowsInv'
  OBVIOUS
<1> USE DEF RowsInv, Decision
<1>1. CASE UNCHANGED <<status, decided, screen>>
  BY <1>1
<1>2. CASE Ingest
  BY <1>2 DEF Ingest, hubVars
<1>3. ASSUME UNCHANGED <<status, decided>>, NEW word, NEW kept,
             screen' = ComputeScreen(status, word, kept)
      PROVE  RowsInv'
  BY <1>3, ScreenIsApproved
<1>4. CASE \E p \in Forms : FormPosts(p)
  BY <1>4 DEF FormPosts, Posts, hubVars
<1>5. ASSUME NEW p \in Posts, NEW d \in {"approved", "rejected"}, Moderate(p, d)
      PROVE  RowsInv'
  BY <1>5, ScreenIsApproved DEF Moderate, Publish
<1>6. CASE UNCHANGED vars
  BY <1>6 DEF vars, rowVars, hubVars
<1> QED BY <1>1, <1>2, <1>3, <1>4, <1>5, <1>6, RowsMove

\* "The hub keeps the last word": whatever walls.io says again of a post, in
\* whatever order polls, restarts and gestures come, what an operator rejected
\* stays off the social wall, and nothing is on it that is not approved.
THEOREM RejectionHolds == Spec => []RejectedStaysOff
<1>1. RowsInv => RejectedStaysOff
  BY DEF RowsInv, RejectedStaysOff
<1> QED BY <1>1, RowsInvInit, RowsInvStep, PTL DEF Spec
-----------------------------------------------------------------------------
(***************************************************************************)
(* walls.io, and what it says.                                             *)
(***************************************************************************)

\* walls.io and the ingestor; what it was answered says of each post whether it
\* is active.
SourceOK ==
    /\ live \in [Trusted -> {"unwritten", "shown", "hidden"}]
    /\ news \subseteq Trusted /\ missed \subseteq Trusted
    /\ link \in [token : BOOLEAN, paused : BOOLEAN, fresh : BOOLEAN, backoff : BOOLEAN]
    /\ poll \in {"idle", "asked", "afresh", "recorded", "images"}
    /\ DOMAIN body \subseteq Trusted /\ \A p \in DOMAIN body : body[p] \in BOOLEAN
    /\ poll # "recorded" => body = NoBody

LEMMA SourceInit == Init => SourceOK
BY DEF Init, SourceOK, NoBody

LEMMA SourceStep == SourceOK /\ [Next]_vars => SourceOK'
<1> SUFFICES ASSUME SourceOK, [Next]_vars PROVE SourceOK'
  OBVIOUS
<1> USE DEF SourceOK, sourceVars, pollVars
<1>1. ASSUME NEW p \in Trusted, SourceChanges(p) PROVE SourceOK'
  BY <1>1 DEF SourceChanges
<1>2. CASE StartPoll
  BY <1>2 DEF StartPoll
<1>3. CASE SourceAnswers
  <2>1. /\ UNCHANGED live /\ poll' = "recorded"
        /\ link' = [link EXCEPT !.fresh = FALSE, !.backoff = FALSE]
    BY <1>3 DEF SourceAnswers
  <2>2. CASE poll = "afresh"
    <3>1. PICK recent \in SUBSET news :
             news' = recent /\ missed' = missed \cup Outdated(DOMAIN body', recent)
      BY <1>3, <2>2 DEF SourceAnswers
    <3>2. body' = [p \in {q \in Trusted : live[q] = "shown"} |-> TRUE]
      BY <1>3, <2>2 DEF SourceAnswers
    <3> QED BY <2>1, <3>1, <3>2 DEF Outdated
  <2>3. CASE poll # "afresh"
    <3>1. missed' = missed /\ news' = {} /\ body' = [p \in news |-> live[p] = "shown"]
      BY <1>3, <2>3 DEF SourceAnswers
    <3>2. DOMAIN body' = news /\ \A p \in news : body'[p] \in BOOLEAN
      BY <3>1, Zenon
    <3> QED BY <2>1, <3>1, <3>2
  <2> QED BY <2>2, <2>3
<1>4. CASE Ingest
  BY <1>4 DEF Ingest, NoBody
<1>5. CASE EndPoll \/ PollFails \/ BackoffEnds
  BY <1>5 DEF EndPoll, PollFails, BackoffEnds
<1>6. CASE Operating
  BY <1>6 DEF Operating, SetPaused, SetToken, FormPosts, SetForced, Moderate
<1>7. CASE HubRestarts
  BY <1>7 DEF HubRestarts, NoBody
<1>8. CASE SendNotice \/ Projecting
  BY <1>8 DEF SendNotice, Projecting, RoomHears, RoomTick, HubAnswers, FetchFails, FetchEnds,
              FeedOpens, FeedBreaks, FeedDelivers, RoomRestarts
<1>9. CASE UNCHANGED vars
  BY <1>9 DEF vars
<1> QED BY <1>1, <1>2, <1>3, <1>4, <1>5, <1>6, <1>7, <1>8, <1>9 DEF Next, Polling

-----------------------------------------------------------------------------
(***************************************************************************)
(* The messages, and the screens of the room.                              *)
(***************************************************************************)

\* What may be shown: a post of walls.io, or a message an operator approved once.
Cleared == Trusted \cup vetted

\* Whoever is approved was cleared, and what every screen and every stream holds.
FeedInv ==
    /\ feed \in [open : BOOLEAN, last : Nat, queue : Seq(Forms)]
    /\ comments \in Seq(Forms)
    /\ order \in Seq(Forms)
    /\ vetted \subseteq Posts
    /\ \A p \in Posts : status[p] = "approved" => p \in Cleared
    /\ \A p \in held : p \in Posts /\ p \in Cleared
    /\ \A i \in 1..Len(feed.queue) : feed.queue[i] \in Cleared
    /\ \A i \in 1..Len(comments) : comments[i] \in Cleared

\* What was cleared once stays so, and only what is cleared becomes approved: by
\* its source, or by an operator.
LEMMA ClearedStay ==
    ASSUME SourceOK, RowsInv, FeedInv, [Next]_vars
    PROVE  /\ vetted \subseteq vetted' /\ vetted' \subseteq Posts
           /\ \A p \in Posts : status'[p] = "approved" => p \in Cleared'
<1> USE DEF RowsInv, FeedInv, Decision, Cleared
<1>1. CASE UNCHANGED <<status, vetted>>
  BY <1>1
<1>2. CASE Ingest
  BY <1>2 DEF Ingest, SourceOK
<1>3. CASE \E p \in Forms : FormPosts(p)
  BY <1>3 DEF FormPosts
<1>4. CASE \E p \in Posts, d \in {"approved", "rejected"} : Moderate(p, d)
  BY <1>4 DEF Moderate
<1> QED BY <1>1, <1>2, <1>3, <1>4, RowsMove DEF vars, rowVars

\* A message's number is a rank among the rows.
LEMMA NumbersAreRanks ==
    ASSUME order \in Seq(Forms), NEW p
    PROVE  NumberOf(p) \in 0..Len(order)
BY DEF NumberOf, ToSet

\* A stream opens with messages that are approved.
LEMMA BacklogIsApproved ==
    ASSUME FeedInv, NEW since, NEW s \in Backlog(since)
    PROVE  s \in Seq(Forms) /\ \A i \in 1..Len(s) : status[s[i]] = "approved"
<1> DEFINE due == {p \in ToSet(order) : status[p] = "approved" /\ NumberOf(p) > since}
<1>1. PICK m \in 0..SnapshotSize : s \in [1..m -> due]
  <2>1. s \in SeqOf(due, SnapshotSize)
    BY DEF Backlog, Oldest
  <2> QED BY <2>1 DEF SeqOf
<1>2. m \in Nat
  BY WallAssumption DEF WallAssumption
<1>3. due \subseteq Forms /\ \A p \in due : status[p] = "approved"
  BY DEF FeedInv, ToSet
<1> HIDE DEF due
<1>4. s \in Seq(Forms) /\ Len(s) = m
  BY <1>1, <1>2, <1>3
<1> QED BY <1>1, <1>2, <1>3, <1>4

\* Every step leaves the streams and the screens of the room alone, or is one of
\* these.
LEMMA FeedMove ==
    ASSUME Next
    PROVE  \/ UNCHANGED <<feed, comments, order, held>>
           \/ UNCHANGED <<feed, comments, order>> /\ held' = screen
           \/ UNCHANGED <<comments, order, held>> /\ feed' = Closed
           \/ \E p \in Forms : FormPosts(p)
           \/ \E p \in Posts, d \in {"approved", "rejected"} : Moderate(p, d)
           \/ FeedOpens \/ FeedDelivers \/ RoomRestarts
<1> USE DEF sourceVars, pollVars, rowVars, hubVars, roomVars, feedVars, bounds
<1>1. CASE \E p \in Trusted : SourceChanges(p)
  BY <1>1 DEF SourceChanges
<1>2. CASE Polling
  BY <1>2 DEF Polling, StartPoll, SourceAnswers, Ingest, EndPoll, PollFails, BackoffEnds
<1>3. CASE Operating
  BY <1>3 DEF Operating, SetPaused, SetToken, SetForced
<1>4. CASE SendNotice \/ HubRestarts
  BY <1>4 DEF SendNotice, HubRestarts
<1>5. CASE Projecting
  BY <1>5 DEF Projecting, RoomHears, RoomTick, HubAnswers, FetchFails, FetchEnds, FeedBreaks
<1> QED BY <1>1, <1>2, <1>3, <1>4, <1>5 DEF Next

LEMMA FeedInvInit == Init => FeedInv
BY DEF Init, FeedInv, Closed

\* What a step leaves where it was stays decided on.
LEMMA HeldStay ==
    ASSUME SourceOK, RowsInv, FeedInv, [Next]_vars
    PROVE  /\ vetted' \subseteq Posts
           /\ \A p \in Posts : status'[p] = "approved" => p \in Cleared'
           /\ \A p \in held \cup screen : p \in Posts /\ p \in Cleared'
           /\ \A i \in 1..Len(feed.queue) : feed.queue[i] \in Cleared'
           /\ \A i \in 1..Len(comments) : comments[i] \in Cleared'
<1>1. Cleared \subseteq Cleared'
  BY ClearedStay DEF Cleared
<1>2. \A p \in screen : p \in Posts /\ p \in Cleared
  BY DEF RowsInv, FeedInv
<1> QED BY <1>1, <1>2, ClearedStay DEF FeedInv

LEMMA FeedInvStep == SourceOK /\ RowsInv /\ FeedInv /\ [Next]_vars => FeedInv'
<1> SUFFICES ASSUME SourceOK, RowsInv, FeedInv, [Next]_vars PROVE FeedInv'
  OBVIOUS
<1> USE HeldStay
<1>1. CASE UNCHANGED <<feed, comments, order, held>>
  BY <1>1 DEF FeedInv
<1>2. CASE UNCHANGED <<feed, comments, order>> /\ held' = screen
  BY <1>2 DEF FeedInv
<1>3. CASE UNCHANGED <<comments, order, held>> /\ feed' = Closed
  BY <1>3 DEF FeedInv, Closed
<1>4. ASSUME NEW p \in Forms, FormPosts(p) PROVE FeedInv'
  BY <1>4, AppendProperties DEF FormPosts, FeedInv, feedVars, roomVars
<1>5. ASSUME NEW p \in Posts, NEW d \in {"approved", "rejected"}, Moderate(p, d)
      PROVE  FeedInv'
  <2>1. UNCHANGED <<comments, order, held>>
    BY <1>5 DEF Moderate, roomVars
  <2>2. CASE feed' = feed
    BY <2>1, <2>2 DEF FeedInv
  <2>3. CASE p \in Forms /\ d = "approved" /\ feed' = [feed EXCEPT !.queue = Append(@, p)]
    <3>1. p \in Cleared'
      BY <1>5, <2>3 DEF Moderate, Cleared
    <3>2. feed.queue \in Seq(Forms)
      BY DEF FeedInv
    <3>3. /\ Append(feed.queue, p) \in Seq(Forms)
          /\ Len(Append(feed.queue, p)) = Len(feed.queue) + 1
          /\ \A i \in 1..Len(feed.queue) : Append(feed.queue, p)[i] = feed.queue[i]
          /\ Append(feed.queue, p)[Len(feed.queue) + 1] = p
      BY <3>2, <2>3, AppendProperties
    <3>4. feed' \in [open : BOOLEAN, last : Nat, queue : Seq(Forms)]
             /\ feed'.queue = Append(feed.queue, p)
      BY <2>3, <3>3 DEF FeedInv
    <3>5. \A i \in 1..Len(feed'.queue) : feed'.queue[i] \in Cleared'
      <4> TAKE i \in 1..Len(feed'.queue)
      <4>1. CASE i = Len(feed.queue) + 1
        BY <4>1, <3>1, <3>3, <3>4
      <4>2. CASE i # Len(feed.queue) + 1
        BY <4>2, <3>2, <3>3, <3>4
      <4> QED BY <4>1, <4>2
    <3> QED BY <2>1, <3>4, <3>5 DEF FeedInv
  <2> QED BY <1>5, <2>2, <2>3 DEF Moderate
<1>6. CASE FeedOpens
  <2>1. PICK queue \in Backlog(0) : feed' = [open |-> TRUE, last |-> 0, queue |-> queue]
    BY <1>6 DEF FeedOpens
  <2>2. UNCHANGED <<comments, order, held, status>>
    BY <1>6 DEF FeedOpens, rowVars, roomVars
  <2>3. queue \in Seq(Forms) /\ \A i \in 1..Len(queue) : queue[i] \in Posts /\ status[queue[i]] = "approved"
    BY <2>1, BacklogIsApproved, ElementOfSeq DEF Posts
  <2> QED BY <2>1, <2>2, <2>3 DEF FeedInv
<1>7. CASE FeedDelivers
  <2> DEFINE p == Head(feed.queue)
             longer == Append(comments, p)
  <2>1. UNCHANGED <<order, held, status, vetted>>
    BY <1>7 DEF FeedDelivers, rowVars, roomVars
  <2>2. /\ feed.queue \in Seq(Forms) /\ feed.queue # <<>> /\ comments \in Seq(Forms)
        /\ p \in Forms /\ p \in Cleared
        /\ Tail(feed.queue) \in Seq(Forms) /\ Len(Tail(feed.queue)) = Len(feed.queue) - 1
        /\ \A i \in 1..Len(Tail(feed.queue)) : Tail(feed.queue)[i] = feed.queue[i + 1]
    <3>1. feed.queue \in Seq(Forms) /\ feed.queue # <<>> /\ comments \in Seq(Forms)
      BY <1>7 DEF FeedInv, FeedDelivers
    <3>2. /\ p \in Forms /\ p = feed.queue[1]
          /\ Tail(feed.queue) \in Seq(Forms) /\ Len(Tail(feed.queue)) = Len(feed.queue) - 1
          /\ \A i \in 1..Len(Tail(feed.queue)) : Tail(feed.queue)[i] = feed.queue[i + 1]
      BY <3>1, HeadTailProperties
    <3>3. 1 \in 1..Len(feed.queue)
      BY <3>1, EmptySeq, LenProperties
    <3> QED BY <3>1, <3>2, <3>3 DEF FeedInv
  <2>3. /\ feed' \in [open : BOOLEAN, last : Nat, queue : Seq(Forms)]
        /\ feed'.queue = Tail(feed.queue)
    <3>1. NumberOf(p) \in Nat
      BY NumbersAreRanks DEF FeedInv
    <3>2. \E n \in Nat : feed' = [feed EXCEPT !.queue = Tail(@), !.last = n]
      <4> HIDE DEF p
      <4>1. feed.last \in Nat
        BY DEF FeedInv
      <4>2. feed' = [feed EXCEPT !.queue = Tail(@), !.last = IF NumberOf(p) > feed.last THEN NumberOf(p) ELSE feed.last]
        BY <1>7 DEF FeedDelivers, p
      <4> QED BY <3>1, <4>1, <4>2
    <3> QED BY <2>2, <3>2 DEF FeedInv
  <2>4. \A i \in 1..Len(feed'.queue) : feed'.queue[i] \in Cleared'
    <3> TAKE i \in 1..Len(feed'.queue)
    <3>1. i + 1 \in 1..Len(feed.queue) /\ feed'.queue[i] = feed.queue[i + 1]
      BY <2>2, <2>3, LenProperties
    <3> QED BY <2>1, <3>1 DEF FeedInv
  <2>5. /\ longer \in Seq(Forms) /\ Len(longer) = Len(comments) + 1
        /\ \A i \in 1..Len(comments) : longer[i] = comments[i]
        /\ longer[Len(comments) + 1] = p
    BY <2>2, AppendProperties
  <2>6. \A i \in 1..Len(longer) : longer[i] \in Cleared
    <3> HIDE DEF longer, p
    <3> TAKE i \in 1..Len(longer)
    <3>1. CASE i = Len(comments) + 1
      BY <3>1, <2>2, <2>5
    <3>2. CASE i # Len(comments) + 1
      <4>1. Len(comments) \in Nat
        BY <2>2, LenProperties
      <4>2. i \in 1..Len(comments)
        BY <4>1, <3>2, <2>5
      <4> QED BY <4>2, <2>5 DEF FeedInv
    <3> QED BY <3>1, <3>2
  <2>7. comments' = comments \/ comments' = longer \/ comments' = Tail(longer)
    BY <1>7 DEF FeedDelivers
  <2>8. comments' \in Seq(Forms) /\ \A i \in 1..Len(comments') : comments'[i] \in Cleared
    <3> HIDE DEF longer, p
    <3>1. CASE comments' = comments
      BY <3>1 DEF FeedInv
    <3>2. CASE comments' = longer
      BY <3>2, <2>5, <2>6
    <3>3. CASE comments' = Tail(longer)
      <4>1. longer # <<>>
        BY <2>2, <2>5, EmptySeq, LenProperties
      <4>2. /\ Tail(longer) \in Seq(Forms) /\ Len(Tail(longer)) = Len(longer) - 1
            /\ \A i \in 1..Len(Tail(longer)) : Tail(longer)[i] = longer[i + 1]
        BY <4>1, <2>5, HeadTailProperties
      <4>3. \A i \in 1..Len(Tail(longer)) : i + 1 \in 1..Len(longer)
        BY <4>2, <2>5, <2>2, LenProperties
      <4> QED BY <3>3, <4>2, <4>3, <2>6
    <3> QED BY <2>7, <3>1, <3>2, <3>3
  <2> HIDE DEF longer, p
  <2>9. Cleared' = Cleared
    BY <2>1 DEF Cleared
  <2> QED BY <2>1, <2>3, <2>4, <2>8, <2>9 DEF FeedInv
<1>8. CASE RoomRestarts
  BY <1>8 DEF RoomRestarts, FeedInv, Closed, rowVars, roomVars
<1> QED BY <1>1, <1>2, <1>3, <1>4, <1>5, <1>6, <1>7, <1>8, FeedMove DEF vars, rowVars, roomVars, feedVars

\* "Nothing reaches a room screen without going through a human decision": a
\* message no operator ever approved is not on the wall, nor in the one the room
\* holds, in a stream or among what is projected, whatever is cut, restarted,
\* rejected and decided again.
THEOREM NothingUnvettedEver == Spec => []NothingUnvetted
<1>1. FeedInv /\ RowsInv => NothingUnvetted
  <2> SUFFICES ASSUME FeedInv, RowsInv PROVE NothingUnvetted
    OBVIOUS
  <2>1. ASSUME NEW s \in Seq(Forms), \A i \in 1..Len(s) : s[i] \in Cleared,
               NEW p \in ToSet(s)
        PROVE  p \in Cleared
    BY <2>1, LenProperties DEF ToSet
  <2>2. \A p \in Forms \ vetted : p \notin Cleared
    BY WallAssumption DEF WallAssumption, Cleared
  <2> QED BY <2>1, <2>2 DEF RowsInv, FeedInv, NothingUnvetted
<1> QED BY <1>1, SourceInit, SourceStep, RowsInvInit, RowsInvStep, FeedInvInit, FeedInvStep, PTL DEF Spec

\* No message is projected twice: what a room adds, it did not have.
LEMMA NoMessageTwiceStep == FeedInv /\ NoMessageTwice /\ [Next]_vars => NoMessageTwice'
<1> SUFFICES ASSUME FeedInv, NoMessageTwice, [Next]_vars PROVE NoMessageTwice'
  OBVIOUS
<1> USE DEF NoMessageTwice, IsInjective
<1>1. CASE UNCHANGED comments
  BY <1>1
<1>2. CASE RoomRestarts
  BY <1>2 DEF RoomRestarts
<1>3. CASE FeedDelivers
  <2> DEFINE p == Head(feed.queue)
             longer == Append(comments, p)
  <2>1. comments \in Seq(Forms) /\ feed.queue \in Seq(Forms) /\ feed.queue # <<>>
    BY <1>3 DEF FeedInv, FeedDelivers
  <2>2. p \in Forms
    BY <2>1, HeadTailProperties
  <2>3. \/ comments' = comments
        \/ ~Contains(comments, p) /\ (comments' = longer \/ comments' = Tail(longer))
    BY <1>3 DEF FeedDelivers
  <2> HIDE DEF p
  <2>4. /\ longer \in Seq(Forms) /\ Len(longer) = Len(comments) + 1 /\ Len(comments) \in Nat
        /\ \A i \in 1..Len(comments) : longer[i] = comments[i]
        /\ longer[Len(comments) + 1] = p
    BY <2>1, <2>2, AppendProperties, LenProperties
  <2> HIDE DEF longer
  <2>5. ASSUME ~Contains(comments, p),
               NEW i \in 1..Len(longer), NEW j \in 1..Len(longer), longer[i] = longer[j]
        PROVE  i = j
    <3>1. \A k \in 1..Len(comments) : comments[k] # p
      BY <2>5 DEF Contains
    <3>2. DOMAIN comments = 1..Len(comments)
      BY <2>1, LenProperties
    <3> QED BY <2>4, <2>5, <3>1, <3>2
  <2>6. DOMAIN longer = 1..Len(longer)
    BY <2>4, LenProperties
  <2>7. CASE ~Contains(comments, p) /\ comments' = longer
    BY <2>5, <2>6, <2>7
  <2>8. CASE ~Contains(comments, p) /\ comments' = Tail(longer)
    <3>1. longer # <<>>
      BY <2>4, EmptySeq
    <3>2. /\ Tail(longer) \in Seq(Forms) /\ Len(Tail(longer)) = Len(longer) - 1
          /\ \A i \in 1..Len(Tail(longer)) : Tail(longer)[i] = longer[i + 1]
      BY <3>1, <2>4, HeadTailProperties
    <3>3. DOMAIN Tail(longer) = 1..Len(Tail(longer))
      BY <3>2, LenProperties
    <3>4. ASSUME NEW i \in 1..Len(Tail(longer)), NEW j \in 1..Len(Tail(longer)),
                 Tail(longer)[i] = Tail(longer)[j]
          PROVE  i = j
      <4>1. i + 1 \in 1..Len(longer) /\ j + 1 \in 1..Len(longer)
        BY <3>2, <2>4
      <4>2. i + 1 = j + 1
        BY <4>1, <3>2, <3>4, <2>5, <2>8
      <4> QED BY <4>2, <3>2, <2>4
    <3> QED BY <3>3, <3>4, <2>8
  <2> QED BY <2>3, <2>7, <2>8
<1> QED BY <1>1, <1>2, <1>3, FeedMove DEF vars, feedVars, FormPosts, Moderate, FeedOpens

\* No message shows twice in a room, although each stream starts over from the
\* first one and overlaps what the room holds (addComment, consumeWall).
THEOREM MessagesShownOnce == Spec => []NoMessageTwice
<1>1. Init => NoMessageTwice
  BY DEF Init, NoMessageTwice, IsInjective
<1> QED BY <1>1, NoMessageTwiceStep, SourceInit, SourceStep, RowsInvInit, RowsInvStep, FeedInvInit, FeedInvStep, PTL DEF Spec

-----------------------------------------------------------------------------
(***************************************************************************)
(* The types.                                                              *)
(***************************************************************************)

\* The rows: each message of the audience that has one is in their order, once.
TableOK ==
    /\ active \in [Posts -> BOOLEAN] /\ forced \in [Posts -> BOOLEAN]
    /\ ToSet(order) = {p \in Forms : status[p] # "absent"} /\ IsInjective(order)
    /\ passed \subseteq Forms

\* The views: a stream only holds messages that have a row.
ViewsOK ==
    /\ {notice, told} \subseteq BOOLEAN
    /\ fetch \in {"idle", "asked", "images"}
    /\ feed.last \in 0 .. Len(order)
    /\ ToSet(feed.queue) \subseteq ToSet(order)
    /\ Len(comments) <= RoomLimit
    /\ overlooked \subseteq Forms

LEMMA NothingYet == ToSet(<<>>) = {} /\ Len(<<>>) = 0 /\ IsInjective(<<>>)
<1>1. DOMAIN <<>> = {}
  OBVIOUS
<1>2. Len(<<>>) = 0
  OBVIOUS
<1> QED BY <1>1, <1>2 DEF ToSet, IsInjective

LEMMA TypesInit == Init => SourceOK /\ TableOK /\ ViewsOK
<1> SUFFICES ASSUME Init PROVE SourceOK /\ TableOK /\ ViewsOK
  OBVIOUS
<1>1. SourceOK
  BY SourceInit
<1>2. TableOK
  BY NothingYet DEF Init, TableOK, Posts
<1>3. ViewsOK
  <2>1. feed.last = 0 /\ feed.queue = <<>> /\ order = <<>> /\ comments = <<>>
    BY DEF Init, Closed
  <2>2. notice \in BOOLEAN /\ told \in BOOLEAN /\ fetch = "idle" /\ overlooked = {}
    BY DEF Init
  <2>3. 0 <= RoomLimit /\ 0 \in 0..0
    BY WallAssumption DEF WallAssumption
  <2>4. ToSet(feed.queue) \subseteq ToSet(order) /\ Len(order) = 0 /\ Len(comments) = 0
    BY <2>1, NothingYet
  <2> QED BY <2>1, <2>2, <2>3, <2>4 DEF ViewsOK
<1> QED BY <1>1, <1>2, <1>3

LEMMA TableStep == SourceOK /\ RowsInv /\ FeedInv /\ TableOK /\ [Next]_vars => TableOK'
<1> SUFFICES ASSUME SourceOK, RowsInv, FeedInv, TableOK, [Next]_vars PROVE TableOK'
  OBVIOUS
<1> USE DEF TableOK
<1>1. CASE UNCHANGED rowVars
  BY <1>1 DEF rowVars
<1>2. CASE Ingest
  <2>1. UNCHANGED <<order, forced, passed>>
    BY <1>2 DEF Ingest
  <2>2. active' \in [Posts -> BOOLEAN]
    BY <1>2 DEF Ingest, SourceOK
  <2>3. \A p \in Forms : status'[p] = status[p]
    BY <1>2, WallAssumption DEF Ingest, SourceOK, RowsInv, Posts, WallAssumption
  <2> QED BY <2>1, <2>2, <2>3
<1>3. ASSUME NEW p \in Forms, FormPosts(p) PROVE TableOK'
  <2>1. order' = Append(order, p) /\ UNCHANGED <<active, forced, passed>>
    BY <1>3 DEF FormPosts
  <2>2. \A q \in Forms : status'[q] # "absent" <=> q = p \/ status[q] # "absent"
    BY <1>3 DEF FormPosts, RowsInv, Posts
  <2>3. p \notin ToSet(order)
    BY <1>3 DEF FormPosts
  <2>4. /\ order \in Seq(Forms) /\ Len(order) \in Nat /\ DOMAIN order = 1..Len(order)
        /\ order' \in Seq(Forms) /\ Len(order') = Len(order) + 1
        /\ DOMAIN order' = 1..Len(order')
        /\ \A i \in 1..Len(order) : order'[i] = order[i]
        /\ order'[Len(order) + 1] = p
    BY <2>1, AppendProperties, LenProperties DEF FeedInv
  <2>5. ToSet(order') = ToSet(order) \cup {p}
    <3>1. ASSUME NEW i \in DOMAIN order' PROVE order'[i] \in ToSet(order) \cup {p}
      BY <3>1, <2>4 DEF ToSet
    <3>2. ASSUME NEW i \in DOMAIN order PROVE order[i] \in ToSet(order')
      BY <3>2, <2>4 DEF ToSet
    <3>3. p \in ToSet(order')
      BY <2>4 DEF ToSet
    <3> QED BY <3>1, <3>2, <3>3 DEF ToSet
  <2>6. IsInjective(order')
    <3> SUFFICES ASSUME NEW i \in 1..Len(order'), NEW j \in 1..Len(order'), order'[i] = order'[j]
                 PROVE  i = j
      BY <2>4 DEF IsInjective
    <3>1. \A k \in 1..Len(order) : order[k] # p
      BY <2>3, <2>4 DEF ToSet
    <3> QED BY <3>1, <2>4 DEF IsInjective
  <2> QED BY <2>1, <2>2, <2>5, <2>6
<1>4. ASSUME NEW p \in Posts, NEW d \in {"approved", "rejected"}, Moderate(p, d)
      PROVE  TableOK'
  <2>1. UNCHANGED <<order, active, forced>>
    BY <1>4 DEF Moderate
  <2>2. \A q \in Forms : status'[q] # "absent" <=> status[q] # "absent"
    BY <1>4 DEF Moderate, RowsInv, Posts
  <2>3. passed' \subseteq Forms
    BY <1>4 DEF Moderate
  <2> QED BY <2>1, <2>2, <2>3
<1>5. ASSUME NEW p \in Posts, SetForced(p) PROVE TableOK'
  BY <1>5 DEF SetForced
<1>6. CASE \/ \E p \in Trusted : SourceChanges(p)
           \/ StartPoll \/ SourceAnswers \/ EndPoll \/ PollFails \/ BackoffEnds
           \/ SetPaused \/ \E given \in BOOLEAN : SetToken(given)
           \/ SendNotice \/ HubRestarts \/ Projecting
  <2>1. UNCHANGED rowVars
    BY <1>6 DEF SourceChanges, StartPoll, SourceAnswers, EndPoll, PollFails, BackoffEnds, SetPaused,
                SetToken, SendNotice, HubRestarts, Projecting, RoomHears, RoomTick, HubAnswers,
                FetchFails, FetchEnds, FeedOpens, FeedBreaks, FeedDelivers, RoomRestarts
  <2> QED BY <2>1, <1>1
<1> QED BY <1>1, <1>2, <1>3, <1>4, <1>5, <1>6 DEF Next, Polling, Operating, vars

LEMMA ViewsStep ==
    RowsInv /\ FeedInv /\ TableOK /\ ViewsOK /\ [Next]_vars => ViewsOK'
<1> SUFFICES ASSUME RowsInv, FeedInv, TableOK, ViewsOK, [Next]_vars PROVE ViewsOK'
  OBVIOUS
<1>1. {notice', told'} \subseteq BOOLEAN /\ fetch' \in {"idle", "asked", "images"}
  <2> USE DEF ViewsOK, hubVars, roomVars
  <2>1. CASE (\E p \in Trusted : SourceChanges(p)) \/ SendNotice \/ HubRestarts
    BY <2>1 DEF SourceChanges, SendNotice, HubRestarts
  <2>2. CASE Polling
    BY <2>2 DEF Polling, StartPoll, SourceAnswers, Ingest, EndPoll, PollFails, BackoffEnds, Publish
  <2>3. CASE Operating
    BY <2>3 DEF Operating, SetPaused, SetToken, FormPosts, SetForced, Moderate, Publish
  <2>4. CASE Projecting
    BY <2>4 DEF Projecting, RoomHears, RoomTick, HubAnswers, FetchFails, FetchEnds, FeedOpens,
                FeedBreaks, FeedDelivers, RoomRestarts
  <2>5. CASE UNCHANGED vars
    BY <2>5 DEF vars
  <2> QED BY <2>1, <2>2, <2>3, <2>4, <2>5 DEF Next
<1> DEFINE StreamOK == /\ feed.last \in 0 .. Len(order)
                       /\ ToSet(feed.queue) \subseteq ToSet(order)
                       /\ Len(comments) <= RoomLimit
<1>2. StreamOK'
  <2>1. /\ order \in Seq(Forms) /\ Len(order) \in Nat /\ feed.queue \in Seq(Forms)
        /\ comments \in Seq(Forms) /\ Len(comments) \in Nat /\ RoomLimit \in Nat
    BY LenProperties, WallAssumption DEF FeedInv, WallAssumption
  <2>2. CASE UNCHANGED <<feed, comments, order>>
    BY <2>2 DEF ViewsOK
  <2>3. CASE UNCHANGED <<comments, order>> /\ feed' = Closed
    BY <2>1, <2>3, NothingYet DEF ViewsOK, Closed
  <2>4. ASSUME NEW p \in Forms, FormPosts(p)
        PROVE  StreamOK'
    <3>1. order' = Append(order, p) /\ UNCHANGED <<feed, comments>>
      BY <2>4 DEF FormPosts, feedVars
    <3>2. /\ Len(order') = Len(order) + 1 /\ \A i \in 1..Len(order) : order'[i] = order[i]
          /\ DOMAIN order = 1..Len(order) /\ DOMAIN order' = 1..Len(order')
      BY <3>1, <2>1, AppendProperties, LenProperties
    <3>3. ToSet(order) \subseteq ToSet(order')
      <4> SUFFICES ASSUME NEW i \in DOMAIN order PROVE order[i] \in ToSet(order')
        BY DEF ToSet
      <4> QED BY <3>2, <2>1 DEF ToSet
    <3> QED BY <3>1, <3>2, <3>3, <2>1 DEF ViewsOK
  <2>5. ASSUME NEW p \in Posts, NEW d \in {"approved", "rejected"}, Moderate(p, d)
        PROVE  StreamOK'
    <3>1. UNCHANGED <<comments, order>>
      BY <2>5 DEF Moderate
    <3>2. CASE feed' = feed
      BY <3>1, <3>2 DEF ViewsOK
    <3>3. CASE p \in Forms /\ feed' = [feed EXCEPT !.queue = Append(@, p)]
      <4>1. p \in ToSet(order)
        BY <2>5, <3>3 DEF Moderate, TableOK
      <4>2. feed'.last = feed.last /\ feed'.queue = Append(feed.queue, p)
        BY <3>3 DEF FeedInv
      <4>3. ToSet(Append(feed.queue, p)) \subseteq ToSet(feed.queue) \cup {p}
        BY <2>1, <3>3, AppendProperties, LenProperties DEF ToSet
      <4> QED BY <3>1, <4>1, <4>2, <4>3 DEF ViewsOK
    <3> QED BY <2>5, <3>2, <3>3 DEF Moderate
  <2>6. CASE FeedOpens
    <3>1. UNCHANGED <<comments, order>>
      BY <2>6 DEF FeedOpens, rowVars
    <3>2. PICK queue \in Backlog(0) : feed' = [open |-> TRUE, last |-> 0, queue |-> queue]
      BY <2>6 DEF FeedOpens
    <3>3. ToSet(queue) \subseteq ToSet(order)
      <4> DEFINE due == {p \in ToSet(order) : status[p] = "approved" /\ NumberOf(p) > 0}
      <4>1. PICK m \in 0..SnapshotSize : queue \in [1..m -> due]
        <5>1. queue \in SeqOf(due, SnapshotSize)
          BY <3>2 DEF Backlog, Oldest
        <5> QED BY <5>1 DEF SeqOf
      <4> QED BY <4>1 DEF ToSet
    <3> QED BY <2>1, <3>1, <3>2, <3>3 DEF ViewsOK
  <2>7. CASE FeedDelivers
    <3> DEFINE p == Head(feed.queue)
               longer == Append(comments, p)
    <3>1. UNCHANGED order
      BY <2>7 DEF FeedDelivers, rowVars
    <3>2. feed.queue # <<>> /\ p \in Forms
      BY <2>7, <2>1, HeadTailProperties DEF FeedDelivers
    <3>3. feed'.last \in 0..Len(order) /\ feed'.queue = Tail(feed.queue)
      <4>1. NumberOf(p) \in 0..Len(order)
        BY <2>1, NumbersAreRanks
      <4>2. \E n \in 0..Len(order) : feed' = [feed EXCEPT !.queue = Tail(@), !.last = n]
        <5>1. feed' = [feed EXCEPT !.queue = Tail(@),
                                   !.last = IF NumberOf(p) > feed.last THEN NumberOf(p) ELSE feed.last]
          BY <2>7 DEF FeedDelivers
        <5> HIDE DEF p
        <5> QED BY <4>1, <5>1 DEF ViewsOK
      <4> QED BY <4>2 DEF FeedInv
    <3>4. ToSet(Tail(feed.queue)) \subseteq ToSet(feed.queue)
      <4>1. /\ Tail(feed.queue) \in Seq(Forms) /\ Len(Tail(feed.queue)) = Len(feed.queue) - 1
            /\ \A i \in 1..Len(Tail(feed.queue)) : Tail(feed.queue)[i] = feed.queue[i + 1]
        BY <2>1, <3>2, HeadTailProperties
      <4>2. /\ DOMAIN feed.queue = 1..Len(feed.queue) /\ Len(feed.queue) \in Nat
            /\ DOMAIN Tail(feed.queue) = 1..Len(Tail(feed.queue))
        BY <4>1, <2>1, LenProperties
      <4> QED BY <4>1, <4>2 DEF ToSet
    <3>5. Len(comments') <= RoomLimit
      <4>1. comments' = comments \/ comments' = IF Len(longer) > RoomLimit THEN Tail(longer) ELSE longer
        BY <2>7 DEF FeedDelivers
      <4>2. longer \in Seq(Forms) /\ Len(longer) = Len(comments) + 1
        BY <2>1, <3>2, AppendProperties
      <4>3. longer # <<>>
        BY <4>2, <2>1, EmptySeq
      <4> HIDE DEF longer
      <4>4. Len(Tail(longer)) = Len(longer) - 1
        BY <4>2, <4>3, HeadTailProperties
      <4> QED BY <4>1, <4>2, <4>4, <2>1 DEF ViewsOK
    <3> HIDE DEF p, longer
    <3> QED BY <3>1, <3>3, <3>4, <3>5 DEF ViewsOK
  <2>8. CASE RoomRestarts
    <3>1. comments' = <<>> /\ feed' = Closed /\ UNCHANGED order
      BY <2>8 DEF RoomRestarts, rowVars
    <3>2. feed'.last = 0 /\ feed'.queue = <<>>
      BY <3>1 DEF Closed
    <3> QED BY <3>1, <3>2, <2>1, NothingYet
  <2> QED BY <2>2, <2>3, <2>4, <2>5, <2>6, <2>7, <2>8, FeedMove DEF vars, feedVars, rowVars
<1>3. overlooked' \subseteq Forms
  <2> USE DEF ViewsOK, sourceVars, pollVars, rowVars, hubVars, roomVars, feedVars, bounds
  <2>1. CASE (\E p \in Trusted : SourceChanges(p)) \/ SendNotice \/ HubRestarts \/ UNCHANGED vars
    BY <2>1 DEF SourceChanges, SendNotice, HubRestarts, vars
  <2>2. CASE Polling
    BY <2>2 DEF Polling, StartPoll, SourceAnswers, Ingest, EndPoll, PollFails, BackoffEnds
  <2>3. CASE Operating
    BY <2>3 DEF Operating, SetPaused, SetToken, FormPosts, SetForced, Moderate
  <2>4. CASE FeedOpens
    <3>1. overlooked' = PastSnapshot
      BY <2>4 DEF FeedOpens
    <3> QED BY <3>1 DEF PastSnapshot, TableOK
  <2>5. CASE Projecting /\ ~FeedOpens
    BY <2>5 DEF Projecting, RoomHears, RoomTick, HubAnswers, FetchFails, FetchEnds, FeedBreaks,
                FeedDelivers, RoomRestarts
  <2> QED BY <2>1, <2>2, <2>3, <2>4, <2>5 DEF Next
<1> QED BY <1>1, <1>2, <1>3 DEF ViewsOK

\* Every reachable state is of the shape the code gives it, each message has one
\* row at most, a stream is never ahead of the rows, and the room keeps no more
\* messages than its limit.
THEOREM TypeCorrect == Spec => []TypeOK
<1>1. SourceOK /\ RowsInv /\ FeedInv /\ TableOK /\ ViewsOK => TypeOK
  <2> SUFFICES ASSUME SourceOK, RowsInv, FeedInv, TableOK, ViewsOK PROVE TypeOK
    OBVIOUS
  <2>1. screen \subseteq Posts /\ held \subseteq Posts /\ decided \subseteq Posts
    BY DEF RowsInv, FeedInv
  <2> QED BY <2>1 DEF SourceOK, RowsInv, Decision, FeedInv, TableOK, ViewsOK, TypeOK
<1> QED BY <1>1, TypesInit, SourceStep, TableStep, ViewsStep, RowsInvInit, RowsInvStep, FeedInvInit,
           FeedInvStep, PTL DEF Spec
=============================================================================
