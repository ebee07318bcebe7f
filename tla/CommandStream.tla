---------------------------- MODULE CommandStream ----------------------------
(***************************************************************************)
(* The downward path: the hub's numbered commands (commands.ts), the       *)
(* stream a room resumes from the last one it applied (hub-link.ts), the   *)
(* filters and the record of the room (runtime.ts, store.ts), and the      *)
(* outcome of a phone's gesture on its way back up in the heartbeats.      *)
(*                                                                         *)
(* A command has an identity, the order it was issued in, and a seq, its   *)
(* rank in the hub's table.  The two part when the hub is reinstalled or a *)
(* backup is put back: the numbering starts over from an earlier seq.      *)
(* One socket carries the stream and the answers of sync, in order.        *)
(***************************************************************************)
EXTENDS Naturals, Sequences, FiniteSets

CONSTANTS
    Kinds,          \* the kinds of command this instance issues
    MaxCommands,    \* bound of the model: commands issued
    MaxRestores,    \* bound of the model: times the numbering starts over
    MaxForgets,     \* bound of the model: times an operator asks to forget
    MaxCrashes      \* bound of the model: crashes in the middle of a command

\* display: display.set, carried out at once and reported to the phone.
\* scene:   scene.force, waits for OBS; capture: recording.set, stream.set and
\* audio.mute, which report once OBS has answered and hold nothing up.
\* state:   what has no lifetime (pins, resync, session states...).
\* unknown: of a later version.  other: meant for another room.
AllKinds == {"display", "scene", "capture", "state", "unknown", "other"}
Gestures == {"display", "scene", "capture"}

ASSUME KindsAssumption == Kinds \subseteq AllKinds
ASSUME LimitsAssumption ==
    /\ MaxCommands \in Nat
    /\ MaxRestores \in Nat
    /\ MaxForgets \in Nat
    /\ MaxCrashes \in Nat

VARIABLES
    kinds,       \* every command ever issued: its kind
    numbering,   \* the hub's table: the command of each seq
    stale,       \* the commands past their lifetime
    restores,    \* times the numbering started over
    forgets,     \* times an operator asked to forget
    open,        \* the room's stream is open
    cursor,      \* the last seq the stream went past
    replies,     \* the commandSeq of the sync answers on their way
    applied,     \* the seqs the room holds as applied
    last,        \* lastCommandSeq
    flight,      \* the command the stream's loop is waiting for, if any
    pending,     \* the announced gestures OBS has not answered yet
    outcome,     \* lastRemoteOutcome, if any
    carried,     \* the outcomes heartbeats may still carry up
    hubOutcome,  \* the outcome the hub holds, if any
    ran,         \* history: the commands carried out, in order
    settled,     \* history: those carried out, refused, failed or out of time
    cut,         \* history: those a crash interrupted
    crashes,     \* times one did
    answered,    \* history: the gestures answered since the room started
    misled       \* history: the record may speak of a numbering that is gone

hubVars == <<kinds, numbering, stale, restores>>
linkVars == <<open, cursor, replies>>
recordVars == <<applied, last, forgets>>
outcomeVars == <<outcome, carried, hubOutcome, answered>>
historyVars == <<ran, settled, cut, crashes, misled>>
vars == <<hubVars, linkVars, recordVars, flight, pending, outcomeVars, historyVars>>

Ids == 1..Len(kinds)
Seqs == 1..Len(numbering)
KindAt(seq) == kinds[numbering[seq]]
Ours(seq) == KindAt(seq) # "other"
Larger(m, n) == IF m >= n THEN m ELSE n

Init ==
    /\ kinds = <<>> /\ numbering = <<>> /\ stale = {} /\ restores = 0
    /\ open = FALSE /\ cursor = 0 /\ replies = {}
    /\ applied = {} /\ last = 0 /\ forgets = 0
    /\ flight = {} /\ pending = {}
    /\ outcome = {} /\ carried = {} /\ hubOutcome = {} /\ answered = {}
    /\ ran = <<>> /\ settled = {} /\ cut = {} /\ crashes = 0
    /\ misled = FALSE
-----------------------------------------------------------------------------
(***************************************************************************)
(* The hub.                                                                *)
(***************************************************************************)

Publish(kind) ==
    /\ Len(kinds) < MaxCommands
    /\ kinds' = Append(kinds, kind)
    /\ numbering' = Append(numbering, Len(kinds) + 1)
    /\ UNCHANGED <<stale, restores, linkVars, recordVars, flight, pending,
                   outcomeVars, historyVars>>

\* A lifetime runs out; a state has none.
Expire(id) ==
    /\ id \in Ids \ stale
    /\ kinds[id] \in Gestures
    /\ stale' = stale \cup {id}
    /\ UNCHANGED <<kinds, numbering, restores, linkVars, recordVars, flight,
                   pending, outcomeVars, historyVars>>

\* A reinstall, or a restored backup: the table is cut back to its first
\* rows, and what the hub held in memory is gone with its sockets.
Restore(kept) ==
    /\ restores < MaxRestores
    /\ kept < Len(numbering)
    /\ numbering' = SubSeq(numbering, 1, kept)
    /\ restores' = restores + 1
    /\ open' = FALSE /\ replies' = {}
    /\ hubOutcome' = {}
    /\ misled' = (misled \/ last > kept \/ flight # {})
    /\ UNCHANGED <<kinds, stale, cursor, recordVars, flight, pending, outcome,
                   carried, answered, ran, settled, cut, crashes>>

\* The highest seq wins, among outcomes that replayed batches bring back.
Hear_TheLatest(o) ==    \* mutant: the last to arrive wins
    /\ o \in carried
    /\ hubOutcome' = {o}
    /\ UNCHANGED <<hubVars, linkVars, recordVars, flight, pending, outcome,
                   carried, answered, historyVars>>

Hear(o) ==
    /\ o \in carried
    /\ \A held \in hubOutcome : held.seq < o.seq
    /\ hubOutcome' = {o}
    /\ UNCHANGED <<hubVars, linkVars, recordVars, flight, pending, outcome,
                   carried, answered, historyVars>>
-----------------------------------------------------------------------------
(***************************************************************************)
(* The room's record.                                                      *)
(***************************************************************************)

Mark(seq) ==
    /\ applied' = applied \cup {seq}
    /\ last' = Larger(last, seq)

\* The outcome of a gesture, unless a later gesture already has one.
Report_Always(id, seq) ==    \* mutant: the last answer of OBS wins
    IF kinds[id] \in Gestures
    THEN LET o == [id |-> id, seq |-> seq]
         IN  /\ answered' = answered \cup {id}
             /\ outcome' = {o}
             /\ carried' = carried \cup {o}
    ELSE UNCHANGED <<outcome, carried, answered>>

Report(id, seq) ==
    IF kinds[id] \in Gestures
    THEN LET o == [id |-> id, seq |-> seq]
             later == {held \in outcome : held.seq > seq}
         IN  /\ answered' = answered \cup {id}
             /\ outcome' = IF later = {} THEN {o} ELSE outcome
             /\ carried' = IF later = {} THEN carried \cup {o} ELSE carried
    ELSE UNCHANGED <<outcome, carried, answered>>

\* forgetCommands: the record is emptied, and the stream's connection aborted,
\* with what it was bringing.  The loop may be waiting for a command meanwhile.
Forget ==
    /\ applied' = {} /\ last' = 0
    /\ open' = FALSE
    /\ misled' = (misled /\ flight # {})
-----------------------------------------------------------------------------
(***************************************************************************)
(* The stream.                                                             *)
(***************************************************************************)

Open_LiveOnly ==    \* mutant: the backlog is not read
    /\ ~open /\ flight = {}
    /\ open' = TRUE
    /\ cursor' = Len(numbering)
    /\ UNCHANGED <<hubVars, replies, recordVars, flight, pending, outcomeVars, ran,
                   settled, cut, crashes, misled>>

\* The loop reopens the stream after the last seq applied, once the command it
\* was waiting for is done.
Open ==
    /\ ~open /\ flight = {}
    /\ open' = TRUE
    /\ cursor' = last
    /\ UNCHANGED <<hubVars, replies, recordVars, flight, pending, outcomeVars, ran,
                   settled, cut, crashes, misled>>

Disconnect ==
    /\ open' = FALSE /\ replies' = {}
    /\ UNCHANGED <<hubVars, cursor, recordVars, flight, pending, outcomeVars,
                   historyVars>>

\* The next seq for this room, backlog then live: an answer of sync that left
\* the hub before it was issued arrives before it.
Ahead == {seq \in Seqs : seq > cursor /\ Ours(seq)}
Due(seq) ==
    /\ open /\ flight = {}
    /\ seq \in Ahead
    /\ \A other \in Ahead : seq <= other
    /\ \A read \in replies : seq <= read

\* Out of time at the hub: not sent.
Skip(seq) ==
    /\ Due(seq)
    /\ numbering[seq] \in stale
    /\ cursor' = seq
    /\ settled' = settled \cup {numbering[seq]}
    /\ UNCHANGED <<hubVars, open, replies, recordVars, flight, pending,
                   outcomeVars, ran, cut, crashes, misled>>

\* Out of time at the room, or of a later version: marked, not carried out.
SetAside(seq) ==
    LET id == numbering[seq]
    IN  /\ Due(seq)
        /\ id \in stale \/ kinds[id] = "unknown"
        /\ cursor' = seq
        /\ Mark(seq)
        /\ Report(id, seq)
        /\ settled' = settled \cup {id}
        /\ UNCHANGED <<hubVars, open, replies, forgets, flight, pending,
                       hubOutcome, ran, cut, crashes, misled>>

Fresh(seq) ==
    /\ Due(seq)
    /\ numbering[seq] \notin stale
    /\ KindAt(seq) # "unknown"

\* Already applied: dropped.  A precaution of the code: the stream resumes past
\* what was applied, and the guard never holds (NothingIsDropped).
Drop(seq) ==
    /\ Fresh(seq)
    /\ seq \in applied
    /\ cursor' = seq
    /\ UNCHANGED <<hubVars, open, replies, recordVars, flight, pending,
                   outcomeVars, historyVars>>

\* Carried out and marked in one go.  A capture's gesture is announced later.
Run(seq) ==
    LET id == numbering[seq]
    IN  /\ Fresh(seq)
        /\ seq \notin applied
        /\ kinds[id] \in {"display", "state", "capture"}
        /\ cursor' = seq
        /\ Mark(seq)
        /\ ran' = Append(ran, id)
        /\ settled' = settled \cup {id}
        /\ IF kinds[id] = "capture"
           THEN /\ pending' = pending \cup {[id |-> id, seq |-> seq]}
                /\ UNCHANGED <<outcome, carried, answered>>
           ELSE /\ Report(id, seq)
                /\ UNCHANGED pending
        /\ UNCHANGED <<hubVars, open, replies, forgets, flight, hubOutcome, cut,
                       crashes, misled>>

\* scene.force: the loop waits for OBS, five seconds at most.
Begin(seq) ==
    LET id == numbering[seq]
    IN  /\ Fresh(seq)
        /\ seq \notin applied
        /\ kinds[id] = "scene"
        /\ cursor' = seq
        /\ flight' = {[id |-> id, seq |-> seq]}
        /\ ran' = Append(ran, id)
        /\ UNCHANGED <<hubVars, open, replies, recordVars, pending, outcomeVars,
                       settled, cut, crashes, misled>>

\* Done or failed, it is marked all the same: the failure is the operator's to
\* hear about, not the link's.
Finish(c) ==
    /\ c \in flight
    /\ flight' = {}
    /\ Mark(c.seq)
    /\ Report(c.id, c.seq)
    /\ settled' = settled \cup {c.id}
    /\ UNCHANGED <<hubVars, linkVars, forgets, pending, hubOutcome, ran, cut,
                   crashes, misled>>

\* OBS answers an announced gesture, in any order.
Announce(c) ==
    /\ c \in pending
    /\ pending' = pending \ {c}
    /\ Report(c.id, c.seq)
    /\ UNCHANGED <<hubVars, linkVars, recordVars, flight, hubOutcome, historyVars>>
-----------------------------------------------------------------------------
(***************************************************************************)
(* Sync, and forgetting.                                                   *)
(***************************************************************************)

\* The hub answers a sync with the last seq it issued.
SyncRead ==
    /\ replies' = replies \cup {Len(numbering)}
    /\ UNCHANGED <<hubVars, open, cursor, recordVars, flight, pending,
                   outcomeVars, historyVars>>

\* The answer arrives: a room ahead of the hub forgets.
SyncAnswer_OrEqual(read) ==    \* mutant: a room level with the hub forgets too
    /\ read \in replies
    /\ replies' = replies \ {read}
    /\ IF last >= read THEN Forget ELSE UNCHANGED <<open, applied, last, misled>>
    /\ UNCHANGED <<hubVars, cursor, forgets, flight, pending, outcomeVars, ran,
                   settled, cut, crashes>>

SyncAnswer(read) ==
    /\ read \in replies
    /\ replies' = replies \ {read}
    /\ IF last > read THEN Forget ELSE UNCHANGED <<open, applied, last, misled>>
    /\ UNCHANGED <<hubVars, cursor, forgets, flight, pending, outcomeVars, ran,
                   settled, cut, crashes>>

\* Or comes after the eight seconds a sync waits.
SyncTimeout(read) ==
    /\ read \in replies
    /\ replies' = replies \ {read}
    /\ UNCHANGED <<hubVars, open, cursor, recordVars, flight, pending,
                   outcomeVars, historyVars>>

\* The diagnostic dialog's button.
ForgetByHand ==
    /\ forgets < MaxForgets
    /\ forgets' = forgets + 1
    /\ Forget
    /\ UNCHANGED <<hubVars, cursor, replies, flight, pending, outcomeVars, ran,
                   settled, cut, crashes>>

\* The room's process dies and starts again.
Crash ==
    /\ open' = FALSE /\ replies' = {}
    /\ flight' = {} /\ pending' = {}
    /\ outcome' = {} /\ answered' = {}
    /\ crashes' = crashes + Cardinality(flight)
    /\ crashes' <= MaxCrashes
    /\ cut' = cut \cup {c.id : c \in flight}
    /\ UNCHANGED <<hubVars, cursor, recordVars, carried, hubOutcome, ran,
                   settled, misled>>
-----------------------------------------------------------------------------
Take(seq) == Skip(seq) \/ SetAside(seq) \/ Drop(seq) \/ Run(seq) \/ Begin(seq)

Next ==
    \/ \E kind \in Kinds : Publish(kind)
    \/ \E id \in Ids : Expire(id)
    \/ \E kept \in 0..Len(numbering) : Restore(kept)
    \/ \E o \in carried : Hear(o)
    \/ Open
    \/ Disconnect
    \/ \E seq \in Seqs : Take(seq)
    \/ \E c \in flight : Finish(c)
    \/ \E c \in pending : Announce(c)
    \/ SyncRead
    \/ \E read \in replies : SyncAnswer(read) \/ SyncTimeout(read)
    \/ ForgetByHand
    \/ Crash

Spec == Init /\ [][Next]_vars

\* Outages end: the stream is opened and read again and again, each time up to
\* what is there, since the hub goes past the expired in one pass.  A command OBS
\* holds ends within five seconds, a sync within eight; every ten seconds a
\* heartbeat carries the outcome the room has by then.
Fairness ==
    /\ SF_vars(Open)
    /\ \A seq \in 1..MaxCommands : SF_vars(seq \in Seqs /\ Take(seq))
    /\ SF_vars(\E c \in flight : Finish(c))
    /\ WF_vars(\E o \in outcome : Hear(o))
    /\ \A read \in 0..MaxCommands : WF_vars(SyncAnswer(read) \/ SyncTimeout(read))

FairSpec == Spec /\ Fairness
-----------------------------------------------------------------------------
(***************************************************************************)
(* Properties.                                                             *)
(***************************************************************************)

Commands == [id : Ids, seq : Nat \ {0}]

\* Every variable has its type; the loop waits for one command at most, and
\* last is the highest seq of the record.
TypeOK ==
    /\ kinds \in Seq(Kinds)
    /\ numbering \in Seq(Ids)
    /\ stale \subseteq Ids
    /\ {restores, forgets, crashes, cursor, last} \subseteq Nat
    /\ {open, misled} \subseteq BOOLEAN
    /\ replies \subseteq Nat
    /\ applied \subseteq 1..last
    /\ last # 0 => last \in applied
    /\ flight \subseteq Commands /\ Cardinality(flight) <= 1
    /\ pending \subseteq Commands
    /\ {outcome, carried, hubOutcome} \subseteq SUBSET Commands
    /\ Cardinality(outcome) <= 1 /\ Cardinality(hubOutcome) <= 1
    /\ ran \in Seq(Ids)
    /\ settled \cup cut \cup answered \subseteq Ids

\* What hub-link.ts says of the resume: an outage skips no command.  Every
\* command of this room at or before the one it resumes after, or behind the
\* stream's position, was carried out, refused, failed or came too late; this
\* through crashes, redeliveries and forgettings, and again once the room, with
\* no command under way, has forgotten a numbering that started over.
NothingSkipped ==
    ~misled =>
        \A seq \in Seqs :
            /\ Ours(seq)
            /\ seq <= last \/ (open /\ seq <= cursor)
            => \/ numbering[seq] \in settled
               \/ \E c \in flight : c.seq = seq

\* While the numbering runs on and nobody asks to forget, commands are carried
\* out in the order they were issued, and twice only when a crash cut the first
\* time: neither a redelivery nor an answer of sync that took its time makes the
\* room forget what it applied.
InOrderAndOnce ==
    restores = 0 /\ forgets = 0 =>
        \A m, n \in 1..Len(ran) :
            m < n => \/ ran[m] < ran[n]
                     \/ ran[m] = ran[n] /\ ran[m] \in cut

\* While the numbering runs on, what the heartbeat carries up is the outcome of
\* the last gesture answered, however late OBS answered an earlier one.
OutcomeIsTheLatest ==
    restores = 0 /\ answered # {} =>
        \E o \in outcome : \A id \in answered : id <= o.id

\* What the phone reads at the hub ends up being the outcome of the last gesture
\* answered since the room started, and stays so: neither an earlier gesture that
\* OBS answers late nor a batch that is sent again brings an older one back.
PhoneReadsTheLatest ==
    <>[](restores = 0 /\ answered # {} =>
            \E held \in hubOutcome : \A id \in answered : id <= held.id)

\* A command issued for the room ends up settled: a failing one, a late one or
\* one of a later version never holds up those behind it.  One that went with a
\* restored backup is nobody's, and while the record speaks of a numbering that
\* is gone, only a sync that notices it brings the rest.
EveryCommandSettles ==
    \A id \in 1..MaxCommands :
        id \in Ids /\ kinds[id] # "other" ~>
            id \in settled \/ misled \/ \A seq \in Seqs : numbering[seq] # id
=============================================================================
