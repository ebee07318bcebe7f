----------------------------- MODULE SocialWall -----------------------------
(***************************************************************************)
(* The two walls a conference projects, from where a post is written to    *)
(* the screen of a room.                                                   *)
(*                                                                         *)
(* Posts come from walls.io, already moderated there and read by polling   *)
(* (services/wallsio.ts, services/social.ts), and from the audience, which *)
(* an operator of the hub moderates (services/wall.ts).  Out of the hub's  *)
(* rows come two views:                                                    *)
(*                                                                         *)
(*   - the social wall of the loop, a snapshot with a revision.  The rooms *)
(*     are told that it moved and fetch it (hub-link.ts, room-app.ts);     *)
(*   - the audience's wall, a stream of approved messages the room adds to *)
(*     the ones it holds (runtime.ts).                                     *)
(*                                                                         *)
(* One room, one wall at walls.io.  The size of the social wall (20 posts  *)
(* put forward and 60 others), the age limit, the posts' text, and putting *)
(* a post forward are left out: they order the wall, or shorten it.        *)
(***************************************************************************)
EXTENDS Naturals, Sequences, SequencesExt

CONSTANTS
    Trusted,        \* the posts walls.io may give
    Forms,          \* the messages the audience may write
    SnapshotSize,   \* messages a stream opens with (50)
    RoomLimit,      \* messages a room keeps (12)
    MaxChanges,     \* bound: what happens to the posts at walls.io
    MaxGestures,    \* bound: what the operators do
    MaxFaults       \* bound: failures, cuts and restarts

ASSUME WallAssumption ==
    /\ Trusted \cap Forms = {}
    /\ {SnapshotSize, RoomLimit, MaxChanges, MaxGestures, MaxFaults} \subseteq Nat

VARIABLES
    live,       \* at walls.io: what each trusted post is
    news,       \* at walls.io: changed since the hub's cursor
    link,       \* the stored link: [token, paused, fresh (no cursor), backoff]
    poll,       \* the ingestor's poll: where it stands
    body,       \* what walls.io answered: which posts, active or not
    missed,     \* posts whose change the hub will not be told of again
    status,     \* rows of the hub: the decision on each post
    active,     \* rows of the hub: the source's word
    forced,     \* rows of the hub: shown whatever the source says
    order,      \* rows of the hub: the messages in the order they came in
    screen,     \* the social wall, in the hub's memory
    notice,     \* the hub's grouped notice: its two-second timer runs
    told,       \* a notice on its way to the room
    fetch,      \* the room's fetch of the social wall: where it stands
    held,       \* the social wall the room holds
    feed,       \* the room's stream of messages: [open, last, queue]
    comments,   \* the messages the room projects
    decided,    \* the posts an operator moderated last to reject
    vetted,     \* the messages an operator approved, once at least
    passed,     \* messages approved after one that came in later
    overlooked, \* approved messages the last stream to open left out
    changes, gestures, faults

sourceVars == <<live, news>>
pollVars == <<link, poll, body, missed>>
rowVars == <<status, active, forced, order, decided, vetted, passed>>
hubVars == <<screen, notice>>
roomVars == <<told, fetch, held>>
feedVars == <<feed, comments, overlooked>>
bounds == <<changes, gestures, faults>>
vars == <<sourceVars, pollVars, rowVars, hubVars, roomVars, feedVars, bounds>>

Posts == Trusted \cup Forms
NoBody == [p \in {} |-> TRUE]
Closed == [open |-> FALSE, last |-> 0, queue |-> <<>>]

Init ==
    /\ live = [p \in Trusted |-> "unwritten"]
    /\ news = {}
    /\ link = [token |-> FALSE, paused |-> FALSE, fresh |-> TRUE, backoff |-> FALSE]
    /\ poll = "idle" /\ body = NoBody /\ missed = {}
    /\ status = [p \in Posts |-> "absent"]
    /\ active = [p \in Posts |-> TRUE]
    /\ forced = [p \in Posts |-> FALSE]
    /\ order = <<>> /\ decided = {} /\ vetted = {} /\ passed = {} /\ overlooked = {}
    /\ screen = {} /\ notice = FALSE
    /\ told = FALSE /\ fetch = "idle" /\ held = {}
    /\ feed = Closed /\ comments = <<>>
    /\ changes = 0 /\ gestures = 0 /\ faults = 0

-----------------------------------------------------------------------------
(* What the operations are made of. *)

\* The social wall as the hub's rows give it.
ComputeScreen(rows, word, kept) ==
    {p \in Posts : rows[p] = "approved" /\ (word[p] \/ kept[p])}

\* publishScreen: the wall is computed again, and a notice is due if it moved.
Publish(rows, word, kept) ==
    LET next == ComputeScreen(rows, word, kept) IN
    /\ screen' = next
    /\ notice' = (notice \/ next # screen)

\* A message's number is the rank of its row, not of its approval.
NumberOf(p) == IF p \in ToSet(order) THEN CHOOSE i \in DOMAIN order : order[i] = p ELSE 0

\* The oldest of some messages, in the order they came in, as many as fit.
Oldest(due) ==
    {s \in SeqOf(due, SnapshotSize) :
        /\ \A i, j \in DOMAIN s : i < j => NumberOf(s[i]) < NumberOf(s[j])
        /\ \A p \in due \ ToSet(s) :
              Len(s) = SnapshotSize /\ \A i \in DOMAIN s : NumberOf(s[i]) < NumberOf(p)}

Backlog_Undecided(since) ==    \* mutant: a message nobody approved
    Oldest({p \in ToSet(order) : NumberOf(p) > since})

\* What a stream opens with: the oldest approved messages past a number.
Backlog(since) ==
    Oldest({p \in ToSet(order) : status[p] = "approved" /\ NumberOf(p) > since})

\* The approved messages with as many before them as a stream opens with.
PastSnapshot ==
    LET approved == {p \in ToSet(order) : status[p] = "approved"} IN
    {p \in approved : Cardinality({q \in approved : NumberOf(q) < NumberOf(p)}) >= SnapshotSize}

\* The ingestor reads walls.io: a token, not stopped, not backing off.
Reading == link.token /\ ~link.paused /\ ~link.backoff

Gesture == gestures < MaxGestures /\ gestures' = gestures + 1
Fault == faults < MaxFaults /\ faults' = faults + 1

\* The two writes that follow an answer come one after the other: no gesture
\* falls between them, a crash of the hub may.
Free == poll # "recorded"

-----------------------------------------------------------------------------
(* walls.io, and the ingestor that reads it. *)

\* A post is written there, hidden by its moderator, or shown again.
SourceChanges(p) ==
    /\ changes < MaxChanges
    /\ changes' = changes + 1
    /\ live' = [live EXCEPT ![p] = IF @ = "shown" THEN "hidden" ELSE "shown"]
    /\ news' = news \cup {p}
    /\ UNCHANGED <<pollVars, rowVars, hubVars, roomVars, feedVars, gestures, faults>>

\* The thirty-second tick, or the console's kick: one poll at a time.  With
\* nothing to read, the wall is published all the same.
StartPoll ==
    /\ poll = "idle"
    /\ poll' = CASE ~Reading -> "images"
                  [] Reading /\ link.fresh -> "afresh"
                  [] OTHER -> "asked"
    /\ UNCHANGED <<sourceVars, link, body, missed, rowVars, hubVars, roomVars, feedVars, bounds>>

\* The posts the hub shows, hidden at walls.io, that an answer leaves out.
Outdated(given, left) ==
    {p \in Trusted : /\ status[p] # "absent" /\ active[p] /\ live[p] = "hidden"
                     /\ p \notin given \cup left}

SourceAnswers_OnlyActive ==    \* mutant: include_inactive dropped
    /\ poll \in {"asked", "afresh"}
    /\ body' = [p \in {q \in news : live[q] = "shown"} |-> TRUE]
    /\ news' = {}
    /\ poll' = "recorded"
    /\ link' = [link EXCEPT !.fresh = FALSE, !.backoff = FALSE]
    /\ UNCHANGED <<live, missed, rowVars, hubVars, roomVars, feedVars, bounds>>

\* walls.io answers: what changed since the cursor, active or not; without a
\* cursor, the active posts alone, and the next read overlaps by two minutes.
\* record: the cursor moves before the posts are written.
SourceAnswers ==
    /\ poll \in {"asked", "afresh"}
    /\ IF poll = "afresh"
       THEN /\ body' = [p \in {q \in Trusted : live[q] = "shown"} |-> TRUE]
            /\ \E recent \in SUBSET news :
                  /\ news' = recent
                  /\ missed' = missed \cup Outdated(DOMAIN body', recent)
       ELSE /\ body' = [p \in news |-> live[p] = "shown"]
            /\ news' = {}
            /\ missed' = missed
    /\ poll' = "recorded"
    /\ link' = [link EXCEPT !.fresh = FALSE, !.backoff = FALSE]
    /\ UNCHANGED <<live, rowVars, hubVars, roomVars, feedVars, bounds>>

Ingest_Decides ==    \* mutant: the source's word undoes the decision
    /\ poll = "recorded"
    /\ status' = [p \in Posts |-> IF p \in DOMAIN body THEN "approved" ELSE status[p]]
    /\ active' = [p \in Posts |-> IF p \in DOMAIN body THEN body[p] ELSE active[p]]
    /\ missed' = missed \ DOMAIN body
    /\ poll' = "images"
    /\ body' = NoBody
    /\ UNCHANGED <<sourceVars, link, forced, order, decided, vetted, passed, hubVars, roomVars, feedVars, bounds>>

\* ingest, refreshFromSource: a new post comes in approved; of one already held
\* the source's word is taken, never the decision.
Ingest ==
    /\ poll = "recorded"
    /\ status' = [p \in Posts |-> IF p \in DOMAIN body /\ status[p] = "absent"
                                  THEN "approved" ELSE status[p]]
    /\ active' = [p \in Posts |-> IF p \in DOMAIN body THEN body[p] ELSE active[p]]
    /\ missed' = missed \ DOMAIN body
    /\ poll' = "images"
    /\ body' = NoBody
    /\ UNCHANGED <<sourceVars, link, forced, order, decided, vetted, passed, hubVars, roomVars, feedVars, bounds>>

\* The images are in: the wall is published, once per poll.
EndPoll ==
    /\ poll = "images"
    /\ Publish(status, active, forced)
    /\ poll' = "idle"
    /\ UNCHANGED <<sourceVars, link, body, missed, rowVars, roomVars, feedVars, bounds>>

\* walls.io refuses, limits or does not answer: the cursor stays, and the next
\* read waits.
PollFails ==
    /\ poll \in {"asked", "afresh"} /\ Fault
    /\ link' = [link EXCEPT !.backoff = TRUE]
    /\ poll' = "images"
    /\ UNCHANGED <<sourceVars, body, missed, rowVars, hubVars, roomVars, feedVars, changes, gestures>>

BackoffEnds ==
    /\ link.backoff
    /\ link' = [link EXCEPT !.backoff = FALSE]
    /\ UNCHANGED <<sourceVars, poll, body, missed, rowVars, hubVars, roomVars, feedVars, bounds>>

\* setToken: set or removed; starts over from the latest posts.
SetToken(given) ==
    /\ Gesture /\ Free
    /\ link' = [link EXCEPT !.token = given, !.fresh = TRUE, !.backoff = FALSE]
    /\ UNCHANGED <<sourceVars, poll, body, missed, rowVars, hubVars, roomVars, feedVars, changes, faults>>

\* setPaused: resuming tries at once, whatever the backoff said.
SetPaused ==
    /\ Gesture /\ Free
    /\ link' = [link EXCEPT !.paused = ~@, !.backoff = @ /\ ~link.paused]
    /\ UNCHANGED <<sourceVars, poll, body, missed, rowVars, hubVars, roomVars, feedVars, changes, faults>>

-----------------------------------------------------------------------------
(* The hub: moderation, its notice, its restart. *)

\* post: a message of the audience waits for a decision.
FormPosts(p) ==
    /\ Free
    /\ status[p] = "absent"
    /\ status' = [status EXCEPT ![p] = "pending"]
    /\ order' = Append(order, p)
    /\ UNCHANGED <<sourceVars, pollVars, active, forced, decided, vetted, passed, hubVars, roomVars, feedVars, bounds>>

\* moderate: the decision is written, the streams get an approved message, the
\* social wall is published.
Moderate(p, decision) ==
    /\ Gesture /\ Free
    /\ status[p] # "absent"
    /\ status' = [status EXCEPT ![p] = decision]
    /\ Publish([status EXCEPT ![p] = decision], active, forced)
    /\ decided' = IF decision = "rejected" THEN decided \cup {p} ELSE decided \ {p}
    /\ LET says == p \in Forms /\ decision = "approved" IN
       /\ feed' = IF says /\ feed.open THEN [feed EXCEPT !.queue = Append(@, p)] ELSE feed
       /\ passed' = IF says /\ \E q \in Forms : NumberOf(q) > NumberOf(p) /\ status[q] = "approved"
                    THEN passed \cup {p} ELSE passed
    /\ vetted' = IF decision = "approved" THEN vetted \cup {p} ELSE vetted
    /\ overlooked' = overlooked \ {p}
    /\ UNCHANGED <<sourceVars, pollVars, active, forced, order, roomVars, comments, changes, faults>>

\* setForcedOnScreen: a post the source hid is shown, or given back to its word.
SetForced(p) ==
    /\ Gesture /\ Free
    /\ status[p] # "absent"
    /\ forced' = [forced EXCEPT ![p] = ~@]
    /\ Publish(status, active, [forced EXCEPT ![p] = ~@])
    /\ UNCHANGED <<sourceVars, pollVars, status, active, order, decided, vetted, passed, roomVars, feedVars, changes, faults>>

\* Two seconds after the first move: one notice for the burst, a command kept
\* an hour for the rooms.
SendNotice ==
    /\ notice
    /\ notice' = FALSE
    /\ told' = TRUE
    /\ UNCHANGED <<sourceVars, pollVars, rowVars, screen, fetch, held, feedVars, bounds>>

\* The hub goes down and comes back: the rows are read again, its timer and its
\* poll are gone, the streams and the fetches end.
HubRestarts ==
    /\ Fault
    /\ poll' = "idle" /\ body' = NoBody
    /\ missed' = missed \cup DOMAIN body
    /\ screen' = ComputeScreen(status, active, forced)
    /\ notice' = FALSE
    /\ feed' = Closed
    /\ fetch' = IF fetch = "asked" THEN "images" ELSE fetch
    /\ UNCHANGED <<sourceVars, link, rowVars, told, held, comments, overlooked, changes, gestures>>

-----------------------------------------------------------------------------
(* The room: the social wall it fetches, the messages it is sent. *)

\* wall.changed: the wall is fetched, unless a fetch is under way.
RoomHears ==
    /\ told
    /\ told' = FALSE
    /\ fetch' = IF fetch = "idle" THEN "asked" ELSE fetch
    /\ UNCHANGED <<sourceVars, pollVars, rowVars, hubVars, held, feedVars, bounds>>

\* The two-minute net under the notices.
RoomTick ==
    /\ fetch = "idle"
    /\ fetch' = "asked"
    /\ UNCHANGED <<sourceVars, pollVars, rowVars, hubVars, told, held, feedVars, bounds>>

\* rooms.wall: the hub's wall, from memory; it is kept, and its images are
\* fetched.
HubAnswers ==
    /\ fetch = "asked"
    /\ fetch' = "images"
    /\ held' = screen
    /\ UNCHANGED <<sourceVars, pollVars, rowVars, hubVars, told, feedVars, bounds>>

FetchFails ==
    /\ fetch = "asked" /\ Fault
    /\ fetch' = "images"
    /\ UNCHANGED <<sourceVars, pollVars, rowVars, hubVars, told, held, feedVars, changes, gestures>>

FetchEnds_StillInFlight ==    \* mutant: in flight until the next notice
    /\ fetch = "images" /\ told
    /\ fetch' = "idle"
    /\ UNCHANGED <<sourceVars, pollVars, rowVars, hubVars, told, held, feedVars, bounds>>

FetchEnds ==
    /\ fetch = "images"
    /\ fetch' = "idle"
    /\ UNCHANGED <<sourceVars, pollVars, rowVars, hubVars, told, held, feedVars, bounds>>

FeedOpens_OnlyLive ==    \* mutant: no catch-up
    /\ ~feed.open
    /\ feed' = [open |-> TRUE, last |-> 0, queue |-> <<>>]
    /\ overlooked' = PastSnapshot
    /\ UNCHANGED <<sourceVars, pollVars, rowVars, hubVars, roomVars, comments, bounds>>

\* consumeWall: a new stream starts from the first message, whatever was shown,
\* and what comes after the first fifty approved ones is not in it.
FeedOpens ==
    /\ ~feed.open
    /\ \E queue \in Backlog(0) : feed' = [open |-> TRUE, last |-> 0, queue |-> queue]
    /\ overlooked' = PastSnapshot
    /\ UNCHANGED <<sourceVars, pollVars, rowVars, hubVars, roomVars, comments, bounds>>

FeedBreaks ==
    /\ feed.open /\ Fault
    /\ feed' = Closed
    /\ UNCHANGED <<sourceVars, pollVars, rowVars, hubVars, roomVars, comments, overlooked, changes, gestures>>

\* stream, addComment: a message numbered below the last one sent is skipped; one
\* the room has is not added twice; the oldest beyond the limit goes.
FeedDelivers ==
    /\ feed.queue # <<>>
    /\ LET p == Head(feed.queue)
           due == NumberOf(p) > feed.last
           longer == Append(comments, p)
       IN  /\ feed' = [feed EXCEPT !.queue = Tail(@), !.last = IF due THEN NumberOf(p) ELSE @]
           /\ comments' = IF ~due \/ Contains(comments, p) THEN comments
                          ELSE IF Len(longer) > RoomLimit THEN Tail(longer) ELSE longer
    /\ UNCHANGED <<sourceVars, pollVars, rowVars, hubVars, roomVars, overlooked, bounds>>

\* The room restarts: its messages were in memory, its social wall is kept, and
\* the wall is fetched as it comes up.
RoomRestarts ==
    /\ Fault
    /\ comments' = <<>>
    /\ feed' = Closed
    /\ fetch' = "asked"
    /\ UNCHANGED <<sourceVars, pollVars, rowVars, hubVars, told, held, overlooked, changes, gestures>>

-----------------------------------------------------------------------------
Polling ==
    StartPoll \/ SourceAnswers \/ Ingest \/ EndPoll \/ PollFails \/ BackoffEnds

Operating ==
    \/ SetPaused \/ \E given \in BOOLEAN : SetToken(given)
    \/ \E p \in Forms : FormPosts(p)
    \/ \E p \in Posts : SetForced(p) \/ \E d \in {"approved", "rejected"} : Moderate(p, d)

Projecting ==
    \/ RoomHears \/ RoomTick \/ HubAnswers \/ FetchFails \/ FetchEnds
    \/ FeedOpens \/ FeedBreaks \/ FeedDelivers \/ RoomRestarts

Next ==
    \/ \E p \in Trusted : SourceChanges(p)
    \/ Polling \/ Operating \/ SendNotice \/ HubRestarts \/ Projecting

\* Timers fire, calls end (each has a timeout), what was sent is read.
Fairness ==
    /\ WF_vars(StartPoll) /\ WF_vars(SourceAnswers)
    /\ WF_vars(Ingest) /\ WF_vars(EndPoll) /\ WF_vars(BackoffEnds)
    /\ WF_vars(SendNotice)
    /\ WF_vars(RoomHears) /\ WF_vars(RoomTick) /\ WF_vars(HubAnswers)
    /\ WF_vars(FetchEnds)
    /\ WF_vars(FeedOpens) /\ WF_vars(FeedDelivers)

Spec == Init /\ [][Next]_vars /\ Fairness

-----------------------------------------------------------------------------
(* Properties. *)

\* Each part of the state is of the shape the code gives it, a message waits
\* once at most in the rows, and the room holds no more than its limit.
TypeOK ==
    /\ live \in [Trusted -> {"unwritten", "shown", "hidden"}]
    /\ news \subseteq Trusted /\ missed \subseteq Trusted
    /\ link \in [token : BOOLEAN, paused : BOOLEAN, fresh : BOOLEAN, backoff : BOOLEAN]
    /\ poll \in {"idle", "asked", "afresh", "recorded", "images"}
    /\ DOMAIN body \subseteq Trusted
    /\ poll # "recorded" => body = NoBody
    /\ status \in [Posts -> {"absent", "pending", "approved", "rejected"}]
    /\ active \in [Posts -> BOOLEAN] /\ forced \in [Posts -> BOOLEAN]
    /\ ToSet(order) = {p \in Forms : status[p] # "absent"} /\ IsInjective(order)
    /\ {screen, held, decided, vetted} \subseteq SUBSET Posts
    /\ passed \subseteq Forms /\ overlooked \subseteq Forms
    /\ {notice, told} \subseteq BOOLEAN
    /\ fetch \in {"idle", "asked", "images"}
    /\ feed.open \in BOOLEAN /\ feed.last \in 0 .. Len(order)
    /\ ToSet(feed.queue) \subseteq ToSet(order)
    /\ Len(comments) <= RoomLimit

\* "The hub keeps the last word": a post an operator rejected is off the social
\* wall, and stays off whatever walls.io says of it later, and so does any
\* message nobody approved (TRUSTED_SOURCES, refreshFromSource, moderate).
RejectedStaysOff ==
    \A p \in screen : p \notin decided /\ status[p] = "approved"

\* No message shows twice in a room, although each stream starts over from the
\* first one and the streams overlap the messages held (addComment, stream).
NoMessageTwice == IsInjective(comments)

\* "Nothing reaches a room screen without going through a human decision": a
\* message of the audience nobody ever approved, whether it still waits or was
\* rejected, is in none of the places a screen reads: the hub's wall, the one the
\* room holds, a stream, what the room projects (post, moderate, backlog).
NothingUnvetted ==
    \A p \in Forms \ vetted :
        p \notin screen \cup held \cup ToSet(feed.queue) \cup ToSet(comments)

\* What walls.io says of a post reaches the hub's row: hidden there, it stops
\* being active here; shown again, it is active again.  Whatever fails in
\* between, except what the hub is not told again (missed).
Followed(p) ==
    \/ live[p] = "unwritten" \/ (live[p] = "hidden" /\ status[p] = "absent")
    \/ status[p] # "absent" /\ (active[p] <=> live[p] = "shown")
    \/ p \in missed \/ ~link.token \/ link.paused
SourceIsFollowed == \A p \in Trusted : []<>Followed(p)

\* The room ends up with the social wall the hub's rows give, although notices
\* are lost with a hub that restarts, or come while a fetch is under way and are
\* dropped (syncWall, and the net under it).
RoomSettles == <>[](held = ComputeScreen(status, active, forced))

\* "An approved message leaves for the screens immediately": it ends up among
\* the room's, through breaks of the stream and restarts of either side.  Two
\* cases are left out, and are the code's: a message approved after one that came
\* in later (passed), and one past the first fifty when a stream opens, for every
\* stream asks for the messages from the first one and is given the oldest fifty
\* (backlog, consumeWall): one approved while no stream is open is never sent
\* (overlooked).
ApprovedIsSeen ==
    \A p \in Forms :
        (status[p] = "approved")
            ~> (Contains(comments, p) \/ status[p] # "approved" \/ p \in passed \cup overlooked)

\* "A rejected one leaves them": it ends up off every screen of the room.
RejectedLeaves ==
    \A p \in Forms :
        (status[p] = "rejected") ~> (status[p] # "rejected" \/ (~Contains(comments, p) /\ p \notin held))
=============================================================================
