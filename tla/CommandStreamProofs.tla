------------------------ MODULE CommandStreamProofs ------------------------
(***************************************************************************)
(* Theorems about CommandStream, for every set of kinds and every bound;   *)
(* then about TalkDriving, for every programme.                            *)
(***************************************************************************)
EXTENDS CommandStream, TalkDriving, SequenceTheorems, FiniteSetTheorems, WellFoundedInduction, TLAPS

-----------------------------------------------------------------------------
(***************************************************************************)
(* The table, and what the room knows by its seqs.                         *)
(***************************************************************************)

\* The types the other parts rest on; the record is an upper bound of itself,
\* and the loop waits for one command, which the stream's position is at.
Shape ==
    /\ kinds \in Seq(Kinds)
    /\ numbering \in Seq(Ids)
    /\ stale \subseteq Ids
    /\ restores \in Nat /\ forgets \in Nat
    /\ open \in BOOLEAN /\ misled \in BOOLEAN
    /\ cursor \in Nat /\ last \in Nat /\ replies \subseteq Nat
    /\ applied \subseteq 1..last
    /\ flight \subseteq Commands /\ pending \subseteq Commands
    /\ outcome \subseteq Commands /\ carried \subseteq Commands
    /\ \A c, d \in flight : c = d
    /\ \A o, p \in outcome : o = p
    /\ answered \subseteq Ids
    /\ ran \in Seq(Ids)
    /\ open => last <= cursor /\ \A c \in flight : c.seq = cursor

LEMMA LensAreNat == Shape => Len(kinds) \in Nat /\ Len(numbering) \in Nat /\ Len(ran) \in Nat
BY LenProperties DEF Shape

\* What an issue and a reinstall do to the table.
LEMMA PublishTable ==
    ASSUME Shape, NEW kind \in Kinds, Publish(kind)
    PROVE  /\ kinds' \in Seq(Kinds) /\ Len(kinds') = Len(kinds) + 1
           /\ \A i \in 1..Len(kinds) : kinds'[i] = kinds[i]
           /\ numbering' \in Seq(Ids') /\ Len(numbering') = Len(numbering) + 1
           /\ \A i \in 1..Len(numbering) : numbering'[i] = numbering[i]
           /\ numbering'[Len(numbering) + 1] = Len(kinds) + 1
<1>1. kinds' = Append(kinds, kind) /\ numbering' = Append(numbering, Len(kinds) + 1)
  BY DEF Publish
<1>2. /\ kinds' \in Seq(Kinds) /\ Len(kinds') = Len(kinds) + 1
      /\ \A i \in 1..Len(kinds) : kinds'[i] = kinds[i]
  BY <1>1, AppendProperties DEF Shape
<1>3. Len(kinds) + 1 \in Ids' /\ Ids \subseteq Ids'
  BY <1>2, LensAreNat DEF Ids
<1>4. numbering \in Seq(Ids')
  BY <1>3, SeqMonotonic DEF Shape
<1> QED BY <1>1, <1>2, <1>3, <1>4, AppendProperties

LEMMA RestoreTable ==
    ASSUME Shape, NEW kept \in 0..Len(numbering), Restore(kept)
    PROVE  /\ numbering' \in Seq(Ids) /\ Len(numbering') = kept
           /\ \A i \in 1..kept : numbering'[i] = numbering[i]
<1>1. numbering' = SubSeq(numbering, 1, kept)
  BY DEF Restore
<1>2. kept \in Nat /\ Len(numbering) \in Nat /\ numbering \in Seq(Ids)
  BY LensAreNat DEF Shape
<1>3. kept = 0 => numbering' = <<>>
  BY <1>1, <1>2, SubSeqEmpty
<1>4. \A i \in 1..kept : i \in 1..Len(numbering) + 1 /\ i \in 1..Len(numbering)
  BY <1>2
<1> QED BY <1>1, <1>2, <1>3, <1>4, SubSeqProperties

LEMMA ShapeInit == Init => Shape
<1> SUFFICES ASSUME Init PROVE Shape
  OBVIOUS
<1>1. <<>> \in Seq(Kinds) /\ <<>> \in Seq(Ids)
  OBVIOUS
<1> QED BY <1>1 DEF Init, Shape, Commands

\* A report answers one gesture, with the outcome of that command or one it held.
LEMMA ReportKeeps ==
    ASSUME Shape, NEW id \in Ids, NEW seq \in Nat \ {0}, Report(id, seq)
    PROVE  /\ answered' \subseteq Ids
           /\ outcome' \subseteq Commands /\ carried' \subseteq Commands
           /\ \A o, p \in outcome' : o = p
BY DEF Shape, Report, Commands

LEMMA MarkKeeps ==
    ASSUME Shape, NEW seq \in Nat \ {0}, Mark(seq)
    PROVE  /\ last' \in Nat /\ applied' \subseteq 1..last'
           /\ last' = IF last >= seq THEN last ELSE seq
           /\ applied' = applied \cup {seq}
BY DEF Shape, Mark, Larger

\* The seq that is due is one of the table, past the stream's position.
LEMMA DueIs ==
    ASSUME Shape, NEW seq \in Seqs, Due(seq)
    PROVE  /\ open /\ flight = {} /\ seq > cursor /\ seq > last /\ seq \in Nat \ {0}
           /\ Ours(seq) /\ numbering[seq] \in Ids
           /\ \A s \in Seqs : s < seq /\ Ours(s) => s <= cursor
           /\ \A read \in replies : seq <= read
<1>1. Len(numbering) \in Nat /\ numbering \in [1..Len(numbering) -> Ids]
  BY LensAreNat, LenProperties DEF Shape
<1> QED BY <1>1 DEF Due, Ahead, Seqs, Shape

LEMMA ShapeStep == Shape /\ [Next]_vars => Shape'
<1> SUFFICES ASSUME Shape, [Next]_vars PROVE Shape'
  OBVIOUS
<1> USE DEF hubVars, linkVars, recordVars, outcomeVars, historyVars
<1>1. ASSUME NEW kind \in Kinds, Publish(kind) PROVE Shape'
  <2>1. Ids \subseteq Ids'
    BY <1>1, PublishTable, LensAreNat DEF Ids
  <2>2. Commands \subseteq Commands'
    BY <2>1 DEF Commands
  <2>3. ran' \in Seq(Ids')
    BY <1>1, <2>1, SeqMonotonic DEF Shape, Publish
  <2> QED BY <1>1, <2>1, <2>2, <2>3, PublishTable DEF Shape, Publish
<1>2. ASSUME NEW id \in Ids, Expire(id) PROVE Shape'
  BY <1>2 DEF Shape, Expire, Ids, Commands
<1>3. ASSUME NEW kept \in 0..Len(numbering), Restore(kept) PROVE Shape'
  <2>1. Ids' = Ids /\ Commands' = Commands
    BY <1>3 DEF Restore, Ids, Commands
  <2>2. misled' \in BOOLEAN
    BY <1>3 DEF Restore
  <2>3. numbering' \in Seq(Ids')
    BY <1>3, <2>1, RestoreTable
  <2>4. restores' \in Nat /\ replies' \subseteq Nat /\ open' = FALSE
    BY <1>3 DEF Restore, Shape
  <2>5. UNCHANGED <<kinds, stale, cursor, applied, last, forgets, flight, pending, outcome, carried,
                    answered, ran>>
    BY <1>3 DEF Restore
  <2> QED BY <2>1, <2>2, <2>3, <2>4, <2>5 DEF Shape
<1>4. ASSUME NEW o \in carried, Hear(o) PROVE Shape'
  BY <1>4 DEF Shape, Hear, Ids, Commands
<1>5. CASE Open
  BY <1>5 DEF Shape, Open, Ids, Commands
<1>6. CASE Disconnect \/ SyncRead \/ \E read \in replies : SyncTimeout(read)
  <2>1. Ids' = Ids /\ Commands' = Commands
    BY <1>6 DEF Disconnect, SyncRead, SyncTimeout, Ids, Commands
  <2>2. replies' \subseteq Nat /\ open' \in BOOLEAN /\ (open' => open)
    <3>1. CASE Disconnect
      BY <3>1 DEF Disconnect
    <3>2. CASE SyncRead
      BY <3>2, LensAreNat DEF SyncRead, Shape
    <3>3. CASE \E read \in replies : SyncTimeout(read)
      BY <3>3 DEF SyncTimeout, Shape
    <3> QED BY <1>6, <3>1, <3>2, <3>3
  <2>3. UNCHANGED <<kinds, numbering, stale, restores, forgets, misled, cursor, last, applied, flight,
                    pending, outcome, carried, answered, ran>>
    BY <1>6 DEF Disconnect, SyncRead, SyncTimeout
  <2> QED BY <2>1, <2>2, <2>3 DEF Shape
<1>7. ASSUME NEW seq \in Seqs, Take(seq) PROVE Shape'
  <2>1. Due(seq)
    BY <1>7 DEF Take, Skip, SetAside, Drop, Run, Begin, Fresh
  <2>2. UNCHANGED kinds /\ Ids' = Ids /\ Commands' = Commands
    BY <1>7 DEF Take, Skip, SetAside, Drop, Run, Begin, Ids, Commands
  <2>3. numbering[seq] \in Ids /\ seq \in Nat \ {0} /\ open /\ flight = {} /\ seq > cursor
    BY <2>1, DueIs
  <2>4. [id |-> numbering[seq], seq |-> seq] \in Commands
    BY <2>3 DEF Commands
  <2>5. CASE Skip(seq) \/ Drop(seq)
    <3>1. cursor' = seq /\ UNCHANGED <<numbering, stale, restores, forgets, misled, open, replies, last,
                      applied, flight, pending, outcome, carried, answered, ran>>
      BY <2>5 DEF Skip, Drop
    <3> QED BY <2>1, <2>2, <3>1, DueIs DEF Shape
  <2>6. CASE SetAside(seq)
    BY <2>2, <2>3, <2>6, MarkKeeps, ReportKeeps DEF SetAside, Shape
  <2>7. CASE Run(seq)
    <3>1. ran' \in Seq(Ids)
      BY <2>3, <2>7, AppendProperties DEF Run, Shape
    <3>2. CASE kinds[numbering[seq]] = "capture"
      BY <2>2, <2>3, <2>4, <2>7, <3>1, <3>2, MarkKeeps DEF Run, Shape
    <3>3. CASE kinds[numbering[seq]] # "capture"
      <4>1. /\ Report(numbering[seq], seq) /\ Mark(seq) /\ cursor' = seq
            /\ UNCHANGED <<kinds, numbering, stale, restores, forgets, misled, open, replies, flight, pending>>
        BY <2>7, <3>3 DEF Run
      <4>2. /\ outcome' \subseteq Commands /\ carried' \subseteq Commands /\ answered' \subseteq Ids
            /\ \A o, p \in outcome' : o = p
        BY <2>3, <4>1, ReportKeeps
      <4>3. /\ last' \in Nat /\ applied' \subseteq 1..last' /\ last' <= seq
        BY <2>3, <4>1, MarkKeeps, DueIs, <2>1 DEF Shape
      <4> QED BY <2>2, <2>3, <3>1, <4>1, <4>2, <4>3 DEF Shape
    <3> QED BY <3>2, <3>3
  <2>8. CASE Begin(seq)
    <3>1. ran' \in Seq(Ids)
      BY <2>3, <2>8, AppendProperties DEF Begin, Shape
    <3> QED BY <2>2, <2>3, <2>4, <2>8, <3>1 DEF Begin, Shape
  <2> QED BY <1>7, <2>5, <2>6, <2>7, <2>8 DEF Take
<1>8. ASSUME NEW c \in flight, Finish(c) PROVE Shape'
  <2>1. Ids' = Ids /\ Commands' = Commands
    BY <1>8 DEF Finish, Ids, Commands
  <2>2. c.id \in Ids /\ c.seq \in Nat \ {0}
    BY DEF Shape, Commands
  <2>3. last' \in Nat /\ applied' \subseteq 1..last' /\ last' = IF last >= c.seq THEN last ELSE c.seq
    BY <1>8, <2>2, MarkKeeps DEF Finish
  <2> QED BY <1>8, <2>1, <2>2, <2>3, ReportKeeps DEF Finish, Shape
<1>9. ASSUME NEW c \in pending, Announce(c) PROVE Shape'
  <2>1. Ids' = Ids /\ Commands' = Commands
    BY <1>9 DEF Announce, Ids, Commands
  <2>2. c.id \in Ids /\ c.seq \in Nat \ {0}
    BY DEF Shape, Commands
  <2>3. UNCHANGED <<kinds, numbering, stale, restores, forgets, misled, open, cursor, replies, last,
                    applied, flight, ran>> /\ pending' \subseteq pending
    BY <1>9 DEF Announce
  <2>4. /\ answered' \subseteq Ids /\ outcome' \subseteq Commands /\ carried' \subseteq Commands
        /\ \A o, p \in outcome' : o = p
    BY <1>9, <2>2, ReportKeeps DEF Announce
  <2> QED BY <2>1, <2>3, <2>4 DEF Shape
<1>10. ASSUME ForgetByHand \/ \E read \in replies : SyncAnswer(read) PROVE Shape'
  <2>1. Ids' = Ids /\ Commands' = Commands
    BY <1>10 DEF ForgetByHand, SyncAnswer, Ids, Commands
  <2>2. misled' \in BOOLEAN
    BY <1>10 DEF ForgetByHand, SyncAnswer, Forget, Shape
  <2>3. UNCHANGED <<kinds, numbering, stale, restores, cursor, flight, pending, outcome, carried,
                    answered, ran>> /\ forgets' \in Nat /\ replies' \subseteq Nat
    <3>1. CASE ForgetByHand
      BY <3>1 DEF ForgetByHand, Shape
    <3>2. CASE \E read \in replies : SyncAnswer(read)
      BY <3>2 DEF SyncAnswer, Shape
    <3> QED BY <1>10, <3>1, <3>2
  <2>4. CASE Forget
    BY <2>1, <2>2, <2>3, <2>4 DEF Forget, Shape
  <2>5. CASE UNCHANGED <<open, applied, last, misled>>
    BY <2>1, <2>3, <2>5 DEF Shape
  <2> QED BY <1>10, <2>4, <2>5 DEF ForgetByHand, SyncAnswer
<1>11. CASE Crash
  BY <1>11 DEF Shape, Crash, Ids, Commands
<1>12. CASE UNCHANGED vars
  BY <1>12 DEF Shape, vars, Ids, Commands
<1> QED BY <1>1, <1>2, <1>3, <1>4, <1>5, <1>6, <1>7, <1>8, <1>9, <1>10, <1>11, <1>12 DEF Next

\* Each step of the stream's loop, and what it is about.
LEMMA TakeIs ==
    ASSUME Shape, NEW seq \in Seqs, Take(seq)
    PROVE  /\ Due(seq) /\ UNCHANGED <<kinds, numbering, restores, forgets, open, replies, cut, misled, stale>>
           /\ cursor' = seq
           /\ \/ Skip(seq) \/ SetAside(seq) \/ Run(seq) \/ Begin(seq)
<1>1. Due(seq)
  BY DEF Take, Skip, SetAside, Drop, Run, Begin, Fresh
<1>2. ~Drop(seq)
  BY <1>1, DueIs DEF Drop, Shape
<1>3. CASE Skip(seq)
  BY <1>1, <1>3 DEF Skip, hubVars, recordVars
<1>4. CASE SetAside(seq)
  BY <1>1, <1>4 DEF SetAside, hubVars, recordVars
<1>5. CASE Run(seq)
  BY <1>1, <1>5 DEF Run, hubVars, recordVars
<1>6. CASE Begin(seq)
  BY <1>1, <1>6 DEF Begin, hubVars, recordVars
<1> QED BY <1>2, <1>3, <1>4, <1>5, <1>6 DEF Take

-----------------------------------------------------------------------------
(***************************************************************************)
(* Nothing is skipped.                                                     *)
(***************************************************************************)

SettledBefore(n) == \A seq \in Seqs : Ours(seq) /\ seq < n => numbering[seq] \in settled

\* While the record and the table speak of the same numbering: neither the record
\* nor the stream is past the table, the seqs the record is at or past are
\* settled, and so are those the stream is past, but for the one under way.
SkipInv ==
    ~misled =>
        /\ last <= Len(numbering) /\ SettledBefore(last + 1)
        /\ \A c \in flight : /\ c.seq \in Seqs /\ numbering[c.seq] = c.id
                              /\ SettledBefore(c.seq)
        /\ open => /\ cursor <= Len(numbering)
                   /\ IF flight = {} THEN SettledBefore(cursor + 1) ELSE SettledBefore(cursor)

LEMMA SkipInvInit == Init => SkipInv
BY DEF Init, SkipInv, SettledBefore, Seqs

LEMMA PublishKeepsSettled ==
    ASSUME Shape, NEW kind \in Kinds, Publish(kind), NEW n \in Nat, n <= Len(numbering) + 1,
           SettledBefore(n)
    PROVE  SettledBefore(n)'
<1>1. \A seq \in Seqs : numbering[seq] \in Ids
  BY LenProperties DEF Shape, Seqs
<1>2. Len(numbering) \in Nat /\ Len(kinds) \in Nat
  BY LensAreNat
<1>3. settled' = settled
  BY DEF Publish, historyVars
<1> SUFFICES ASSUME NEW seq \in Seqs', Ours(seq)', seq < n PROVE numbering'[seq] \in settled'
  BY DEF SettledBefore
<1>4. Len(numbering') = Len(numbering) + 1
  BY PublishTable
<1>5. seq \in Seqs
  BY <1>2, <1>4 DEF Seqs
<1>6. numbering'[seq] = numbering[seq] /\ kinds'[numbering[seq]] = kinds[numbering[seq]]
  BY <1>1, <1>5, PublishTable DEF Seqs, Ids
<1>7. Ours(seq)
  BY <1>6 DEF Ours, KindAt
<1> QED BY <1>3, <1>5, <1>6, <1>7 DEF SettledBefore

LEMMA SkipInvStep == Shape /\ SkipInv /\ [Next]_vars => SkipInv'
<1> SUFFICES ASSUME Shape, SkipInv, [Next]_vars, ~misled' PROVE SkipInv'
  BY DEF SkipInv
<1>0. Len(numbering) \in Nat /\ last \in Nat /\ cursor \in Nat
  BY LensAreNat DEF Shape
<1> USE DEF hubVars, linkVars, recordVars, outcomeVars, historyVars
<1>1. ASSUME NEW kind \in Kinds, Publish(kind) PROVE SkipInv'
  <2>1. /\ UNCHANGED <<misled, last, cursor, open, flight>> /\ Len(numbering') = Len(numbering) + 1
        /\ \A i \in 1..Len(numbering) : numbering'[i] = numbering[i]
    BY <1>1, PublishTable DEF Publish
  <2>2. ~misled
    BY <2>1
  <2>3. ASSUME NEW c \in flight PROVE c.seq \in Nat /\ c.seq \in Seqs' /\ numbering'[c.seq] = c.id /\ SettledBefore(c.seq)'
    <3>1. c.seq \in Seqs /\ numbering[c.seq] = c.id /\ SettledBefore(c.seq)
      BY <2>2 DEF SkipInv
    <3> QED BY <1>1, <3>1, <2>1, <1>0, PublishKeepsSettled DEF Seqs
  <2>4. last <= Len(numbering') /\ SettledBefore(last + 1)'
    BY <1>0, <1>1, <2>1, <2>2, PublishKeepsSettled DEF SkipInv
  <2>5. open => /\ cursor <= Len(numbering')
                /\ IF flight = {} THEN SettledBefore(cursor + 1)' ELSE SettledBefore(cursor)'
    BY <1>0, <1>1, <2>1, <2>2, PublishKeepsSettled DEF SkipInv
  <2> QED BY <2>1, <2>3, <2>4, <2>5 DEF SkipInv, SettledBefore
<1>2. ASSUME UNCHANGED <<kinds, numbering, settled, misled, last, flight>>, open' => open /\ cursor' = cursor
      PROVE  SkipInv'
  BY <1>2 DEF SkipInv, SettledBefore, Seqs, Ours, KindAt
<1>3. ASSUME NEW kept \in 0..Len(numbering), Restore(kept) PROVE SkipInv'
  <2>1. /\ UNCHANGED <<kinds, settled, last, flight>> /\ open' = FALSE
        /\ ~misled /\ last <= kept /\ flight = {}
    <3>1. UNCHANGED <<kinds, settled, last, flight>> /\ open' = FALSE
      BY <1>3 DEF Restore
    <3>2. misled' = (misled \/ last > kept \/ flight # {})
      BY <1>3 DEF Restore
    <3>3. ~misled /\ ~(last > kept) /\ flight = {}
      BY <3>2, Zenon
    <3> QED BY <3>1, <3>3, <1>0
  <2>2. Len(numbering') = kept /\ \A i \in 1..kept : numbering'[i] = numbering[i]
    BY <1>3, RestoreTable
  <2> QED BY <1>0, <2>1, <2>2 DEF SkipInv, SettledBefore, Seqs, Ours, KindAt
<1>4. CASE Open
  BY <1>4, <1>0 DEF Open, SkipInv, SettledBefore, Seqs, Ours, KindAt
<1>5. ASSUME NEW seq \in Seqs, Take(seq) PROVE SkipInv'
  <2>1. /\ UNCHANGED <<kinds, numbering, open, misled>> /\ cursor' = seq
        /\ Skip(seq) \/ SetAside(seq) \/ Run(seq) \/ Begin(seq)
    BY <1>5, TakeIs
  <2>2. /\ open /\ flight = {} /\ seq > cursor /\ seq > last /\ seq \in Nat \ {0}
        /\ \A s \in Seqs : s < seq /\ Ours(s) => s <= cursor
    BY <1>5, TakeIs, DueIs
  <2>3. SettledBefore(seq)
    BY <1>0, <2>1, <2>2 DEF SkipInv, SettledBefore, Seqs
  <2>4. settled \subseteq settled'
    BY <2>1 DEF Skip, SetAside, Run, Begin
  <2>5. SettledBefore(seq)'
    BY <2>1, <2>3, <2>4 DEF SettledBefore, Seqs, Ours, KindAt
  <2>6. CASE numbering[seq] \in settled' /\ UNCHANGED flight /\ last' \in {last, seq}
    <3>1. SettledBefore(seq + 1)'
      BY <2>1, <2>2, <2>5, <2>6, <1>0 DEF SettledBefore, Seqs, Ours, KindAt
    <3>2. SettledBefore(last + 1)'
      <4>1. CASE last' = seq
        BY <3>1, <4>1 DEF SettledBefore
      <4>2. CASE last' = last
        BY <2>2, <3>1, <4>2, <1>0 DEF SettledBefore, Seqs
      <4> QED BY <2>6, <4>1, <4>2
    <3> QED BY <2>1, <2>2, <2>6, <3>1, <3>2, <1>0 DEF SkipInv, Seqs, SettledBefore
  <2>7. CASE Begin(seq)
    <3>1. flight' = {[id |-> numbering[seq], seq |-> seq]} /\ last' = last /\ settled' = settled
      BY <2>7 DEF Begin
    <3>2. SettledBefore(last + 1)'
      BY <2>1, <3>1 DEF SkipInv, SettledBefore, Seqs, Ours, KindAt
    <3>3. flight' # {} /\ \A c \in flight' : c.seq = seq /\ c.id = numbering[seq]
      BY <3>1
    <3>4. Seqs' = Seqs
      BY <2>1 DEF Seqs
    <3>5. \A c \in flight' : c.seq \in Seqs' /\ numbering'[c.seq] = c.id /\ SettledBefore(c.seq)'
      BY <2>1, <2>5, <3>3, <3>4 DEF SettledBefore
    <3>6. cursor' <= Len(numbering') /\ SettledBefore(cursor)'
      BY <2>1, <2>5, <1>0 DEF SettledBefore, Seqs
    <3>7. last' <= Len(numbering') /\ SettledBefore(last + 1)'
      BY <2>1, <3>1, <3>2 DEF SkipInv
    <3> QED BY <3>1, <3>3, <3>5, <3>6, <3>7 DEF SkipInv, SettledBefore
  <2>8. ASSUME SetAside(seq) \/ Run(seq) PROVE last' \in {last, seq}
    BY <2>8, <2>2, MarkKeeps DEF SetAside, Run
  <2> QED BY <2>1, <2>6, <2>7, <2>8 DEF Skip, SetAside, Run
<1>6. ASSUME NEW c \in flight, Finish(c) PROVE SkipInv'
  <2>1. /\ UNCHANGED <<kinds, numbering, open, cursor, misled>> /\ flight' = {}
        /\ settled' = settled \cup {c.id} /\ Mark(c.seq)
    BY <1>6 DEF Finish
  <2>2. /\ c.seq \in Seqs /\ numbering[c.seq] = c.id /\ SettledBefore(c.seq)
        /\ SettledBefore(last + 1) /\ last <= Len(numbering)
    BY <2>1 DEF SkipInv
  <2>3. last' = IF last >= c.seq THEN last ELSE c.seq
    BY <2>1, <2>2, MarkKeeps DEF Seqs
  <2>4. SettledBefore(c.seq + 1)' /\ SettledBefore(last + 1)'
    <3>1. SettledBefore(c.seq + 1)'
      BY <2>1, <2>2, <1>0 DEF SettledBefore, Seqs, Ours, KindAt
    <3>2. CASE last' = last
      BY <2>1, <2>2, <3>2 DEF SettledBefore, Seqs, Ours, KindAt
    <3>3. CASE last' = c.seq
      BY <3>1, <3>3 DEF SettledBefore
    <3> QED BY <2>3, <3>1, <3>2, <3>3
  <2>5. open => c.seq = cursor
    BY DEF Shape
  <2> QED BY <2>1, <2>2, <2>3, <2>4, <2>5, <1>0 DEF SkipInv, SettledBefore, Seqs
<1>7. CASE Forget /\ UNCHANGED <<kinds, numbering, settled, flight>>
  <2>1. CASE flight = {}
    BY <1>7, <2>1, <1>0 DEF Forget, SkipInv, SettledBefore, Seqs
  <2>2. CASE flight # {}
    <3>1. misled' = (misled /\ flight # {}) /\ last' = 0 /\ open' = FALSE
      BY <1>7 DEF Forget
    <3>2. ~misled
      BY <3>1, <2>2, Zenon
    <3> QED BY <1>7, <3>1, <3>2, <1>0 DEF SkipInv, SettledBefore, Seqs, Ours, KindAt
  <2> QED BY <2>1, <2>2
<1>9. CASE Crash
  BY <1>9 DEF Crash, SkipInv, SettledBefore, Seqs, Ours, KindAt
<1>10. CASE \/ \E id \in Ids : Expire(id)
            \/ \E o \in carried : Hear(o)
            \/ Disconnect \/ SyncRead
            \/ \E c \in pending : Announce(c)
            \/ \E read \in replies : SyncTimeout(read)
            \/ UNCHANGED vars
  <2>1. UNCHANGED <<kinds, numbering, settled, misled, last, flight>> /\ (open' => open /\ cursor' = cursor)
    BY <1>10 DEF Expire, Hear, Disconnect, SyncRead, Announce, SyncTimeout, vars
  <2> QED BY <2>1, <1>2
<1>11. CASE ForgetByHand \/ \E read \in replies : SyncAnswer(read)
  <2>1. UNCHANGED <<kinds, numbering, settled, flight, cursor>>
    BY <1>11 DEF ForgetByHand, SyncAnswer
  <2>2. Forget \/ UNCHANGED <<open, last, misled>>
    BY <1>11 DEF ForgetByHand, SyncAnswer
  <2> QED BY <2>1, <2>2, <1>2, <1>7
<1> QED BY <1>1, <1>3, <1>4, <1>5, <1>6, <1>9, <1>10, <1>11 DEF Next

\* What hub-link.ts says of the resume, whatever outages, crashes, renumberings
\* and forgettings come in whatever order: an outage skips no command.
THEOREM ResumeSkipsNothing == Spec => []NothingSkipped
<1>1. Shape /\ SkipInv => NothingSkipped
  <2> SUFFICES ASSUME Shape, SkipInv, ~misled, NEW seq \in Seqs, Ours(seq),
                      seq <= last \/ (open /\ seq <= cursor)
               PROVE  numbering[seq] \in settled \/ \E c \in flight : c.seq = seq
    BY DEF NothingSkipped
  <2>1. seq \in Nat /\ last \in Nat /\ cursor \in Nat
    BY LensAreNat DEF Seqs, Shape
  <2>2. CASE seq <= last
    BY <2>1, <2>2 DEF SkipInv, SettledBefore
  <2>3. CASE open /\ seq <= cursor /\ flight = {}
    BY <2>1, <2>3 DEF SkipInv, SettledBefore
  <2>4. CASE open /\ seq <= cursor /\ flight # {}
    BY <2>1, <2>4 DEF SkipInv, SettledBefore, Shape
  <2> QED BY <2>2, <2>3, <2>4
<1> QED BY <1>1, ShapeInit, ShapeStep, SkipInvInit, SkipInvStep, PTL DEF Spec

-----------------------------------------------------------------------------
(***************************************************************************)
(* Order, while the numbering runs on.                                     *)
(***************************************************************************)

\* The table numbers the commands as they were issued, and what the room holds
\* bears both numbers.
NumInv ==
    restores = 0 =>
        /\ Len(numbering) = Len(kinds)
        /\ \A seq \in Seqs : numbering[seq] = seq
        /\ \A c \in flight \cup pending \cup outcome : c.id = c.seq
        /\ \A c \in flight : c.seq \in Seqs

LEMMA ReportIs ==
    ASSUME NEW id, NEW seq, Report(id, seq)
    PROVE  \A o \in outcome' : o \in outcome \/ o = [id |-> id, seq |-> seq]
BY DEF Report

LEMMA NumInvInit == Init => NumInv
BY DEF Init, NumInv, Seqs

LEMMA NumInvStep == Shape /\ NumInv /\ [Next]_vars => NumInv'
<1> SUFFICES ASSUME Shape, NumInv, [Next]_vars, restores' = 0 PROVE NumInv'
  BY DEF NumInv
<1> USE DEF hubVars, linkVars, recordVars, outcomeVars, historyVars
<1>1. ASSUME NEW kind \in Kinds, Publish(kind) PROVE NumInv'
  <2>1. UNCHANGED <<restores, flight, pending, outcome>>
    BY <1>1 DEF Publish
  <2> QED BY <1>1, <2>1, PublishTable, LensAreNat DEF NumInv, Seqs
<1>2. ASSUME NEW kept \in 0..Len(numbering), Restore(kept) PROVE NumInv'
  BY <1>2 DEF Restore, Shape
<1>3. ASSUME UNCHANGED <<numbering, kinds, restores>>, flight' \subseteq flight,
             \A c \in pending' \cup outcome' : c \in pending \cup outcome \/ c.id = c.seq
      PROVE  NumInv'
  BY <1>3 DEF NumInv, Seqs
<1>4. ASSUME NEW seq \in Seqs, Take(seq) PROVE NumInv'
  <2>1. UNCHANGED <<numbering, kinds, restores>>
    BY <1>4, TakeIs
  <2>2. numbering[seq] = seq
    BY <2>1 DEF NumInv
  <2>3. CASE Skip(seq)
    BY <2>1, <2>3, <1>3 DEF Skip
  <2>4. CASE SetAside(seq)
    BY <2>1, <2>2, <2>4, <1>3, ReportIs DEF SetAside
  <2>5. CASE Run(seq)
    <3>1. CASE kinds[numbering[seq]] = "capture"
      BY <2>1, <2>2, <2>5, <3>1, <1>3 DEF Run
    <3>2. CASE kinds[numbering[seq]] # "capture"
      BY <2>1, <2>2, <2>5, <3>2, <1>3, ReportIs DEF Run
    <3> QED BY <3>1, <3>2
  <2>6. CASE Begin(seq)
    BY <2>1, <2>2, <2>6 DEF Begin, NumInv, Seqs
  <2> QED BY <1>4, <2>3, <2>4, <2>5, <2>6, TakeIs
<1>5. ASSUME NEW c \in flight, Finish(c) PROVE NumInv'
  <2>1. UNCHANGED <<numbering, kinds, restores, pending>> /\ flight' = {} /\ Report(c.id, c.seq)
    BY <1>5 DEF Finish
  <2> QED BY <2>1, <1>3, ReportIs DEF NumInv
<1>6. ASSUME NEW c \in pending, Announce(c) PROVE NumInv'
  <2>1. UNCHANGED <<numbering, kinds, restores, flight>> /\ pending' \subseteq pending /\ Report(c.id, c.seq)
    BY <1>6 DEF Announce
  <2> QED BY <2>1, <1>3, ReportIs DEF NumInv
<1>7. CASE Crash
  BY <1>7, <1>3 DEF Crash
<1>8. CASE \/ \E id \in Ids : Expire(id)
           \/ \E o \in carried : Hear(o)
           \/ Open \/ Disconnect \/ SyncRead \/ ForgetByHand
           \/ \E read \in replies : SyncAnswer(read) \/ SyncTimeout(read)
           \/ UNCHANGED vars
  BY <1>8, <1>3 DEF Expire, Hear, Open, Disconnect, SyncRead, ForgetByHand, SyncAnswer, SyncTimeout, vars
<1> QED BY <1>1, <1>2, <1>4, <1>5, <1>6, <1>7, <1>8 DEF Next

\* While the numbering runs on, what the heartbeat carries up is the outcome of
\* the last gesture answered, in whatever order OBS answered.
LEMMA OutcomeStep == Shape /\ NumInv /\ OutcomeIsTheLatest /\ [Next]_vars => OutcomeIsTheLatest'
<1> SUFFICES ASSUME Shape, NumInv, OutcomeIsTheLatest, [Next]_vars, restores' = 0
             PROVE  OutcomeIsTheLatest'
  BY DEF OutcomeIsTheLatest
<1> USE DEF hubVars, linkVars, recordVars, outcomeVars, historyVars
<1>1. restores = 0
  <2>1. restores \in Nat /\ (restores' = restores \/ restores' = restores + 1)
    BY DEF Shape, Next, Publish, Expire, Restore, Hear, Open, Disconnect, Take, Skip, SetAside, Drop,
           Run, Begin, Finish, Announce, SyncRead, SyncAnswer, SyncTimeout, ForgetByHand, Crash, vars
  <2> QED BY <2>1
<1>2. CASE UNCHANGED <<outcome, answered>>
  BY <1>1, <1>2 DEF OutcomeIsTheLatest
<1>3. ASSUME NEW id \in Ids, Report(id, id) PROVE OutcomeIsTheLatest'
  <2>1. id \in Nat /\ \A a \in answered : a \in Nat
    BY LensAreNat DEF Ids, Shape
  <2>2. CASE kinds[id] \notin Gestures
    BY <1>2, <1>3, <2>2 DEF Report
  <2>3. CASE kinds[id] \in Gestures
    <3> DEFINE o == [id |-> id, seq |-> id]
               later == {held \in outcome : held.seq > id}
    <3>1. answered' = answered \cup {id} /\ outcome' = IF later = {} THEN {o} ELSE outcome
      BY <1>3, <2>3 DEF Report
    <3>2. \A held \in outcome : held.id = held.seq /\ held.id \in Nat
      BY <1>1, LensAreNat DEF NumInv, Shape, Commands, Ids
    <3>3. CASE later = {}
      <4>1. \A a \in answered : a <= id
        BY <1>1, <2>1, <3>2, <3>3 DEF OutcomeIsTheLatest
      <4>2. \A a \in answered' : a <= o.id
        BY <2>1, <3>1, <4>1
      <4>3. o \in outcome'
        BY <3>1, <3>3
      <4> HIDE DEF later, o
      <4> QED BY <4>2, <4>3 DEF OutcomeIsTheLatest
    <3>4. CASE later # {}
      <4>1. PICK held \in outcome : held.seq > id
        BY <3>4
      <4>2. \A a \in answered : a <= held.id
        BY <1>1 DEF OutcomeIsTheLatest, Shape
      <4>3. held.id \in Nat /\ id < held.id
        BY <2>1, <3>2, <4>1
      <4>4. \A a \in answered' : a <= held.id
        BY <2>1, <3>1, <4>2, <4>3
      <4>5. held \in outcome'
        BY <3>1, <3>4
      <4> HIDE DEF later, o
      <4> QED BY <4>4, <4>5 DEF OutcomeIsTheLatest
    <3> QED BY <3>3, <3>4
  <2> QED BY <2>2, <2>3
<1>4. ASSUME NEW seq \in Seqs, Take(seq) PROVE OutcomeIsTheLatest'
  <2>1. numbering[seq] = seq /\ numbering[seq] \in Ids
    BY <1>1, <1>4, TakeIs, DueIs DEF NumInv
  <2>2. Report(seq, seq) \/ UNCHANGED <<outcome, answered>>
    BY <1>4, <2>1, TakeIs DEF Skip, SetAside, Run, Begin
  <2> QED BY <1>2, <1>3, <2>1, <2>2
<1>5. ASSUME NEW c \in flight \cup pending, Report(c.id, c.seq) PROVE OutcomeIsTheLatest'
  <2>1. c.id \in Ids /\ c.seq = c.id
    BY <1>1 DEF Shape, Commands, NumInv
  <2> QED BY <1>3, <1>5, <2>1
<1>6. CASE Crash
  BY <1>6 DEF Crash, OutcomeIsTheLatest
<1>7. CASE \/ \E kind \in Kinds : Publish(kind)
           \/ \E id \in Ids : Expire(id)
           \/ \E kept \in 0..Len(numbering) : Restore(kept)
           \/ \E o \in carried : Hear(o)
           \/ Open \/ Disconnect \/ SyncRead \/ ForgetByHand
           \/ \E read \in replies : SyncAnswer(read) \/ SyncTimeout(read)
           \/ UNCHANGED vars
  BY <1>7, <1>2 DEF Publish, Expire, Restore, Hear, Open, Disconnect, SyncRead, ForgetByHand, SyncAnswer,
                    SyncTimeout, vars
<1> QED BY <1>4, <1>5, <1>6, <1>7 DEF Next, Finish, Announce

\* While the hub's numbering runs on, the outcome carried up is that of the last
\* gesture answered, for any number of gestures and answers however late.
THEOREM OutcomesAreTheLatest == Spec => []OutcomeIsTheLatest
<1>1. Init => OutcomeIsTheLatest
  BY DEF Init, OutcomeIsTheLatest
<1> QED BY <1>1, OutcomeStep, ShapeInit, ShapeStep, NumInvInit, NumInvStep, PTL DEF Spec

\* What is known of the order while the numbering runs on and nobody asks to
\* forget: no answer of sync is behind the room; a command carried out is behind
\* the record, under way, or was cut; and this room's seqs the record has not
\* reached, but a command carried out or the stream has, are out of time.
OrderInv ==
    restores = 0 /\ forgets = 0 =>
        /\ last <= Len(numbering) /\ (open => cursor <= Len(numbering))
        /\ \A read \in replies : last <= read /\ \A c \in flight : c.seq <= read
        /\ \A i \in 1..Len(ran) : \/ ran[i] <= last \/ ran[i] \in cut
                                  \/ \E c \in flight : c.seq = ran[i]
        /\ \A i \in 1..Len(ran), s \in Seqs :
               last < s /\ s < ran[i] /\ Ours(s) => s \in stale
        /\ open => \A s \in Seqs :
               last < s /\ s <= cursor /\ Ours(s) => s \in stale \/ \E c \in flight : c.seq = s

LEMMA OrderInvInit == Init => OrderInv /\ InOrderAndOnce
BY DEF Init, OrderInv, InOrderAndOnce, Seqs

LEMMA OrderInvStep ==
    Shape /\ NumInv /\ OrderInv /\ InOrderAndOnce /\ [Next]_vars => OrderInv' /\ InOrderAndOnce'
<1> SUFFICES ASSUME Shape, NumInv, OrderInv, InOrderAndOnce, [Next]_vars, restores' = 0, forgets' = 0
             PROVE  OrderInv' /\ InOrderAndOnce'
  BY DEF OrderInv, InOrderAndOnce
<1> USE DEF hubVars, linkVars, recordVars, outcomeVars, historyVars
<1>0. /\ Len(numbering) \in Nat /\ Len(kinds) \in Nat /\ Len(ran) \in Nat /\ last \in Nat /\ cursor \in Nat
      /\ replies \subseteq Nat /\ \A c \in flight : c.id \in Nat /\ c.seq \in Nat
      /\ \A i \in 1..Len(ran) : ran[i] \in Ids /\ ran[i] \in Nat
  <2>1. ran \in [1..Len(ran) -> Ids]
    BY LenProperties DEF Shape
  <2>2. Ids \subseteq Nat
    BY LensAreNat DEF Ids
  <2>3. \A c \in flight : c.id \in Nat /\ c.seq \in Nat
    <3>1. flight \subseteq Commands
      BY DEF Shape
    <3> QED BY <2>2, <3>1 DEF Commands
  <2>4. \A i \in 1..Len(ran) : ran[i] \in Ids
    BY <2>1
  <2>5. last \in Nat /\ cursor \in Nat /\ replies \subseteq Nat
    BY DEF Shape
  <2> QED BY <2>2, <2>3, <2>4, <2>5, LensAreNat
<1>1. restores = 0 /\ forgets = 0
  <2>1. restores' = restores \/ restores' = restores + 1
    BY DEF Next, Publish, Expire, Restore, Hear, Open, Disconnect, Take, Skip, SetAside, Drop,
           Run, Begin, Finish, Announce, SyncRead, SyncAnswer, SyncTimeout, ForgetByHand, Crash, vars
  <2>2. forgets' = forgets \/ forgets' = forgets + 1
    BY DEF Next, Publish, Expire, Restore, Hear, Open, Disconnect, Take, Skip, SetAside, Drop,
           Run, Begin, Finish, Announce, SyncRead, SyncAnswer, SyncTimeout, ForgetByHand, Crash, vars
  <2> QED BY <2>1, <2>2 DEF Shape
<1>2. ASSUME UNCHANGED <<kinds, numbering, last, flight, ran>>, stale \subseteq stale', cut \subseteq cut',
             open' => open /\ cursor' = cursor,
             \A read \in replies' : read \in replies \/ read = Len(numbering)
      PROVE  OrderInv' /\ InOrderAndOnce'
  <2>1. InOrderAndOnce'
    BY <1>1, <1>2 DEF InOrderAndOnce
  <2>2. \A read \in replies' : last' <= read /\ \A c \in flight' : c.seq <= read
    <3>1. last <= Len(numbering) /\ \A c \in flight : c.seq <= Len(numbering)
      BY <1>0, <1>1 DEF OrderInv, NumInv, Seqs
    <3>2. \A read \in replies : last <= read /\ \A c \in flight : c.seq <= read
      BY <1>1 DEF OrderInv
    <3> QED BY <1>2, <3>1, <3>2
  <2> QED BY <1>1, <1>2, <2>1, <2>2 DEF OrderInv, Seqs, Ours, KindAt
<1>3. ASSUME NEW kind \in Kinds, Publish(kind) PROVE OrderInv' /\ InOrderAndOnce'
  <2>1. UNCHANGED <<last, flight, ran, stale, cut, open, cursor, replies>>
    BY <1>3 DEF Publish
  <2>2. Len(numbering') = Len(numbering) + 1 /\ Len(numbering) = Len(kinds)
    BY <1>1, <1>3, PublishTable DEF NumInv
  <2>3. \A s \in Seqs' : s \in Seqs \/ s = Len(numbering) + 1
    BY <1>0, <2>2 DEF Seqs
  <2>4. \A s \in Seqs : Ours(s)' <=> Ours(s)
    <3>1. \A s \in Seqs : numbering[s] \in Ids
      BY LenProperties DEF Shape, Seqs
    <3> QED BY <1>3, <3>1, PublishTable DEF Seqs, Ids, Ours, KindAt
  <2>5. InOrderAndOnce'
    BY <1>1, <2>1 DEF InOrderAndOnce
  <2>6. \A i \in 1..Len(ran) : ran[i] <= Len(numbering)
    BY <1>0, <2>2 DEF Ids
  <2>7. \A i \in 1..Len(ran'), s \in Seqs' : last' < s /\ s < ran'[i] /\ Ours(s)' => s \in stale'
    BY <1>0, <1>1, <2>1, <2>3, <2>4, <2>6 DEF OrderInv
  <2>8. open' => \A s \in Seqs' :
          last' < s /\ s <= cursor' /\ Ours(s)' => s \in stale' \/ \E c \in flight' : c.seq = s
    BY <1>0, <1>1, <2>1, <2>3, <2>4 DEF OrderInv
  <2>9. last' <= Len(numbering') /\ (open' => cursor' <= Len(numbering'))
    BY <1>0, <1>1, <2>1, <2>2 DEF OrderInv
  <2> QED BY <1>1, <2>1, <2>5, <2>7, <2>8, <2>9 DEF OrderInv
<1>4. CASE Open
  <2>1. UNCHANGED <<kinds, numbering, last, flight, ran, stale, cut, replies>> /\ cursor' = last
    BY <1>4 DEF Open
  <2>2. InOrderAndOnce'
    BY <1>1, <2>1 DEF InOrderAndOnce
  <2>3. \A s \in Seqs' : ~(last' < s /\ s <= cursor')
    BY <1>0, <2>1 DEF Seqs
  <2> QED BY <1>1, <2>1, <2>2, <2>3 DEF OrderInv, Seqs, Ours, KindAt
<1>5. ASSUME NEW seq \in Seqs, Take(seq) PROVE OrderInv' /\ InOrderAndOnce'
  <2>1. /\ UNCHANGED <<kinds, numbering, open, replies, cut, stale>> /\ cursor' = seq
        /\ Skip(seq) \/ SetAside(seq) \/ Run(seq) \/ Begin(seq)
    BY <1>5, TakeIs
  <2>2. /\ open /\ flight = {} /\ seq > cursor /\ seq > last /\ seq \in Nat \ {0} /\ numbering[seq] = seq
        /\ \A s \in Seqs : s < seq /\ Ours(s) => s <= cursor
        /\ \A read \in replies : seq <= read
    BY <1>1, <1>5, TakeIs, DueIs DEF NumInv
  <2>3. \A s \in Seqs : last < s /\ s < seq /\ Ours(s) => s \in stale
    BY <1>0, <1>1, <2>2 DEF OrderInv, Seqs
  <2>4. seq <= Len(numbering)
    BY <1>0 DEF Seqs
  <2>5. Seqs' = Seqs /\ \A s \in Seqs : Ours(s)' <=> Ours(s)
    BY <2>1 DEF Seqs, Ours, KindAt
  <2>6. CASE Skip(seq)
    <3>1. UNCHANGED <<last, flight, ran>> /\ seq \in stale
      BY <2>2, <2>6 DEF Skip
    <3>2. InOrderAndOnce'
      BY <1>1, <2>1, <3>1 DEF InOrderAndOnce
    <3>3. \A s \in Seqs' : last' < s /\ s <= cursor' /\ Ours(s)' => s \in stale'
      BY <1>0, <2>1, <2>2, <2>3, <2>5, <3>1 DEF Seqs
    <3> QED BY <1>0, <1>1, <2>1, <2>2, <2>4, <2>5, <3>1, <3>2, <3>3 DEF OrderInv
  <2>7. CASE SetAside(seq)
    <3>1. UNCHANGED <<flight, ran>> /\ last' = seq
      BY <2>2, <2>7, <1>0 DEF SetAside, Mark, Larger
    <3>2. InOrderAndOnce'
      BY <1>1, <2>1, <3>1 DEF InOrderAndOnce
    <3>3. \A s \in Seqs' : ~(last' < s /\ s <= cursor')
      BY <1>0, <2>1, <3>1, <2>2 DEF Seqs
    <3>4. \A i \in 1..Len(ran) : ran[i] <= seq \/ ran[i] \in cut
      BY <1>0, <1>1, <2>2 DEF OrderInv
    <3>5. \A i \in 1..Len(ran), s \in Seqs : seq < s /\ s < ran[i] /\ Ours(s) => s \in stale
      BY <1>0, <1>1, <2>2 DEF OrderInv, Seqs
    <3> QED BY <1>0, <1>1, <2>1, <2>2, <2>4, <2>5, <3>1, <3>2, <3>3, <3>4, <3>5 DEF OrderInv
  <2>8. CASE Run(seq) \/ Begin(seq)
    <3>1. ran' = Append(ran, seq) /\ seq \notin stale
      BY <2>2, <2>8 DEF Run, Begin, Fresh
    <3>2. /\ Len(ran') = Len(ran) + 1 /\ ran'[Len(ran) + 1] = seq
          /\ \A i \in 1..Len(ran) : ran'[i] = ran[i]
      BY <2>2, <3>1, AppendProperties DEF Shape
    <3>3. \A i \in 1..Len(ran') : (i \in 1..Len(ran) /\ ran'[i] = ran[i]) \/ (i = Len(ran) + 1 /\ ran'[i] = seq)
      BY <1>0, <3>2
    <3>4. \A i \in 1..Len(ran) : ran[i] < seq \/ (ran[i] = seq /\ ran[i] \in cut)
      <4> SUFFICES ASSUME NEW i \in 1..Len(ran), ~(ran[i] < seq) PROVE ran[i] = seq /\ ran[i] \in cut
        OBVIOUS
      <4>1. ran[i] \in cut
        BY <1>0, <1>1, <2>2 DEF OrderInv
      <4>2. ~(seq < ran[i])
        <5>1. Ours(seq)
          BY <1>5, TakeIs, DueIs
        <5> QED BY <1>0, <1>1, <2>2, <3>1, <5>1 DEF OrderInv
      <4> QED BY <1>0, <2>2, <4>1, <4>2
    <3>5. InOrderAndOnce'
      <4> SUFFICES ASSUME NEW m \in 1..Len(ran'), NEW n \in 1..Len(ran'), m < n
                   PROVE  ran'[m] < ran'[n] \/ (ran'[m] = ran'[n] /\ ran'[m] \in cut')
        BY DEF InOrderAndOnce
      <4>1. m \in 1..Len(ran) /\ ran'[m] = ran[m]
        BY <1>0, <3>2, <3>3
      <4>2. CASE n \in 1..Len(ran)
        <5>1. ran'[n] = ran[n]
          BY <4>2, <3>2
        <5>2. ran[m] < ran[n] \/ (ran[m] = ran[n] /\ ran[m] \in cut)
          BY <1>1, <4>1, <4>2 DEF InOrderAndOnce
        <5> QED BY <2>1, <4>1, <5>1, <5>2
      <4>3. CASE n = Len(ran) + 1
        BY <2>1, <3>2, <3>4, <4>1, <4>3
      <4> QED BY <3>3, <4>2, <4>3
    <3>6. CASE Run(seq)
      <4>1. UNCHANGED flight /\ last' = seq
        BY <2>2, <3>6, <1>0 DEF Run, Mark, Larger
      <4>2. \A s \in Seqs' : ~(last' < s /\ s <= cursor')
        BY <1>0, <2>1, <4>1, <2>2 DEF Seqs
      <4>3. \A i \in 1..Len(ran') : ran'[i] <= seq \/ ran'[i] \in cut
        BY <1>0, <2>2, <3>3, <3>4
      <4>4. \A i \in 1..Len(ran'), s \in Seqs : seq < s => ~(s < ran'[i])
        BY <1>0, <2>2, <3>3, <3>4 DEF Seqs
      <4> QED BY <1>0, <1>1, <2>1, <2>2, <2>4, <2>5, <3>5, <4>1, <4>2, <4>3, <4>4 DEF OrderInv
    <3>7. CASE Begin(seq)
      <4>1. flight' = {[id |-> seq, seq |-> seq]} /\ last' = last
        BY <2>2, <3>7 DEF Begin
      <4>2. \A s \in Seqs' :
              last' < s /\ s <= cursor' /\ Ours(s)' => s \in stale' \/ \E c \in flight' : c.seq = s
        BY <1>0, <2>1, <2>2, <2>3, <2>5, <4>1 DEF Seqs
      <4>3. \A i \in 1..Len(ran') : ran'[i] <= last \/ ran'[i] \in cut \/ \E c \in flight' : c.seq = ran'[i]
        BY <1>1, <2>2, <3>3, <4>1 DEF OrderInv
      <4>4. \A i \in 1..Len(ran'), s \in Seqs : last < s /\ s < ran'[i] /\ Ours(s) => s \in stale
        BY <1>1, <2>3, <3>3 DEF OrderInv
      <4>5. \A read \in replies' : last' <= read /\ \A c \in flight' : c.seq <= read
        BY <1>1, <2>1, <2>2, <4>1 DEF OrderInv
      <4> QED BY <1>0, <1>1, <2>1, <2>4, <2>5, <3>5, <4>1, <4>2, <4>3, <4>4, <4>5 DEF OrderInv
    <3> QED BY <2>8, <3>6, <3>7
  <2> QED BY <2>1, <2>6, <2>7, <2>8
<1>6. ASSUME NEW c \in flight, Finish(c) PROVE OrderInv' /\ InOrderAndOnce'
  <2>1. /\ UNCHANGED <<kinds, numbering, stale, open, cursor, replies, ran, cut>> /\ flight' = {}
        /\ Mark(c.seq)
    BY <1>6 DEF Finish
  <2>2. last' = IF last >= c.seq THEN last ELSE c.seq
    BY <1>0, <2>1 DEF Mark, Larger
  <2>3. c.seq \in Nat /\ c.seq <= Len(numbering) /\ \A d \in flight : d.seq = c.seq
    BY <1>0, <1>1 DEF NumInv, Seqs, Shape
  <2>4. InOrderAndOnce'
    BY <1>1, <2>1 DEF InOrderAndOnce
  <2>5. \A i \in 1..Len(ran) : ran[i] <= last' \/ ran[i] \in cut
    BY <1>0, <1>1, <2>2, <2>3 DEF OrderInv
  <2>6. \A i \in 1..Len(ran), s \in Seqs : last' < s /\ s < ran[i] /\ Ours(s) => s \in stale
    BY <1>0, <1>1, <2>2, <2>3 DEF OrderInv, Seqs
  <2>7. open => \A s \in Seqs : last' < s /\ s <= cursor /\ Ours(s) => s \in stale
    BY <1>0, <1>1, <2>2, <2>3 DEF OrderInv, Seqs
  <2>8. last' <= Len(numbering) /\ \A read \in replies : last' <= read
    BY <1>0, <1>1, <2>2, <2>3 DEF OrderInv
  <2> QED BY <1>1, <2>1, <2>4, <2>5, <2>6, <2>7, <2>8 DEF OrderInv, Seqs, Ours, KindAt
<1>7. CASE Crash
  <2>1. /\ UNCHANGED <<kinds, numbering, stale, last, ran>> /\ ~open' /\ replies' = {} /\ flight' = {}
        /\ cut' = cut \cup {c.id : c \in flight}
    BY <1>7 DEF Crash
  <2>2. \A c \in flight : c.seq \in cut'
    BY <1>1, <2>1 DEF NumInv
  <2>3. InOrderAndOnce'
    BY <1>1, <2>1 DEF InOrderAndOnce
  <2> QED BY <1>1, <2>1, <2>2, <2>3 DEF OrderInv, Seqs, Ours, KindAt
<1>8. ASSUME NEW read \in replies, SyncAnswer(read) PROVE OrderInv' /\ InOrderAndOnce'
  <2>1. ~(last > read)
    BY <1>0, <1>1 DEF OrderInv
  <2>2. /\ UNCHANGED <<kinds, numbering, stale, flight, ran, cut, cursor, open, last>>
        /\ replies' \subseteq replies
    BY <1>8, <2>1 DEF SyncAnswer
  <2> QED BY <1>2, <2>2
<1>9. CASE \/ \E id \in Ids : Expire(id)
           \/ \E o \in carried : Hear(o)
           \/ Disconnect \/ SyncRead
           \/ \E c \in pending : Announce(c)
           \/ \E read \in replies : SyncTimeout(read)
           \/ UNCHANGED vars
  <2>1. /\ UNCHANGED <<kinds, numbering, last, flight, ran>> /\ stale \subseteq stale' /\ cut' = cut
        /\ open' => open /\ cursor' = cursor
        /\ \A read \in replies' : read \in replies \/ read = Len(numbering)
    BY <1>9 DEF Expire, Hear, Disconnect, SyncRead, Announce, SyncTimeout, vars
  <2> QED BY <2>1, <1>2
<1>10. ~ForgetByHand /\ \A kept \in 0..Len(numbering) : ~Restore(kept)
  BY <1>1 DEF ForgetByHand, Restore
<1> QED BY <1>3, <1>4, <1>5, <1>6, <1>7, <1>8, <1>9, <1>10 DEF Next

\* Commands are carried out in the order they were issued, and a second time only
\* when a crash cut the first: for any number of them, of redeliveries, of crashes
\* and of sync answers however late.
THEOREM CarriedOutInOrder == Spec => []InOrderAndOnce
<1> QED BY ShapeInit, ShapeStep, NumInvInit, NumInvStep, OrderInvInit, OrderInvStep, PTL DEF Spec

\* The check of what was already applied is never what protects the room: the
\* stream resumes past the record, and no seq it takes is in it.
THEOREM NothingIsDropped == Spec => [][\A seq \in Seqs : ~Drop(seq)]_vars
<1>1. Shape => \A seq \in Seqs : ~Drop(seq)
  <2> SUFFICES ASSUME Shape, NEW seq \in Seqs, Drop(seq) PROVE FALSE
    OBVIOUS
  <2>1. Due(seq) /\ seq \in applied
    BY DEF Drop, Fresh
  <2>2. seq > last
    BY <2>1, DueIs
  <2> QED BY <2>1, <2>2 DEF Shape
<1>2. Shape /\ [Next]_vars => [\A seq \in Seqs : ~Drop(seq)]_vars
  BY <1>1
<1> QED BY <1>2, ShapeInit, ShapeStep, PTL DEF Spec

-----------------------------------------------------------------------------
(***************************************************************************)
(* Types.                                                                  *)
(***************************************************************************)

Rest ==
    /\ crashes \in Nat
    /\ last # 0 => last \in applied
    /\ hubOutcome \subseteq Commands /\ \A o, p \in hubOutcome : o = p
    /\ settled \subseteq Ids /\ cut \subseteq Ids

\* A set whose members are all equal has one at most.
LEMMA OneAtMost ==
    ASSUME NEW S, \A x, y \in S : x = y
    PROVE  IsFiniteSet(S) /\ Cardinality(S) \in 0..1
<1>1. CASE S = {}
  BY <1>1, FS_EmptySet
<1>2. CASE S # {}
  <2>1. PICK x \in S : S = {x}
    BY <1>2
  <2> QED BY <2>1, FS_Singleton
<1> QED BY <1>1, <1>2

LEMMA RestInit == Init => Rest
BY DEF Init, Rest

LEMMA RestStep == Shape /\ Rest /\ [Next]_vars => Rest'
<1> SUFFICES ASSUME Shape, Rest, [Next]_vars PROVE Rest'
  OBVIOUS
<1> USE DEF hubVars, linkVars, recordVars, outcomeVars, historyVars
<1>1. Ids \subseteq Ids' /\ Commands \subseteq Commands'
  <2>1. ASSUME NEW kind \in Kinds, Publish(kind) PROVE Ids \subseteq Ids'
    BY <2>1, PublishTable, LensAreNat DEF Ids
  <2>2. (\E kind \in Kinds : Publish(kind)) \/ UNCHANGED kinds
    BY DEF Next, Expire, Restore, Hear, Open, Disconnect, Take, Skip, SetAside, Drop,
           Run, Begin, Finish, Announce, SyncRead, SyncAnswer, SyncTimeout, ForgetByHand, Crash, vars
  <2> QED BY <2>1, <2>2 DEF Ids, Commands
<1>2. ASSUME UNCHANGED <<crashes, applied, last, cut>>, settled' \subseteq settled \cup Ids,
             hubOutcome' \in {hubOutcome, {}}
      PROVE  Rest'
  BY <1>1, <1>2 DEF Rest
<1>3. ASSUME NEW seq \in Seqs, Take(seq) PROVE Rest'
  <2>1. numbering[seq] \in Ids /\ seq > last /\ seq \in Nat
    BY <1>3, TakeIs, DueIs
  <2>2. CASE Skip(seq) \/ Begin(seq)
    <3>1. UNCHANGED <<crashes, applied, last, cut, hubOutcome>> /\ settled' \subseteq settled \cup Ids
      BY <2>1, <2>2 DEF Skip, Begin
    <3> QED BY <3>1, <1>2
  <2>3. CASE SetAside(seq) \/ Run(seq)
    <3>1. UNCHANGED <<crashes, cut, hubOutcome>> /\ settled' \subseteq settled \cup Ids /\ Mark(seq)
      BY <2>1, <2>3 DEF SetAside, Run
    <3>2. last' # 0 => last' \in applied'
      BY <2>1, <3>1 DEF Mark, Larger, Rest, Shape
    <3> QED BY <1>1, <3>1, <3>2 DEF Rest
  <2> QED BY <1>3, <2>2, <2>3, TakeIs
<1>4. ASSUME NEW c \in flight, Finish(c) PROVE Rest'
  <2>1. UNCHANGED <<crashes, cut, hubOutcome>> /\ settled' = settled \cup {c.id} /\ Mark(c.seq)
    BY <1>4 DEF Finish
  <2>2. c.id \in Ids /\ c.seq \in Nat \ {0}
    BY DEF Shape, Commands
  <2>3. last' # 0 => last' \in applied'
    BY <2>1, <2>2 DEF Mark, Larger, Rest, Shape
  <2> QED BY <1>1, <2>1, <2>2, <2>3 DEF Rest
<1>5. ASSUME NEW o \in carried, Hear(o) PROVE Rest'
  <2>1. UNCHANGED <<crashes, applied, last, settled, cut>> /\ hubOutcome' = {o} /\ o \in Commands
    BY <1>5 DEF Hear, Shape
  <2> QED BY <1>1, <2>1 DEF Rest
<1>6. CASE Crash
  <2>1. crashes' \in Nat
    BY <1>6, OneAtMost DEF Crash, Rest, Shape
  <2>2. cut' \subseteq Ids
    BY <1>6 DEF Crash, Rest, Shape, Commands
  <2> QED BY <1>1, <1>6, <2>1, <2>2 DEF Crash, Rest
<1>7. CASE Forget /\ UNCHANGED <<crashes, settled, cut, hubOutcome>>
  BY <1>1, <1>7 DEF Forget, Rest
<1>8. CASE ForgetByHand \/ \E read \in replies : SyncAnswer(read)
  BY <1>2, <1>7, <1>8 DEF ForgetByHand, SyncAnswer
<1>9. CASE \/ \E kind \in Kinds : Publish(kind)
           \/ \E id \in Ids : Expire(id)
           \/ \E kept \in 0..Len(numbering) : Restore(kept)
           \/ Open \/ Disconnect \/ SyncRead
           \/ \E c \in pending : Announce(c)
           \/ \E read \in replies : SyncTimeout(read)
           \/ UNCHANGED vars
  <2>1. UNCHANGED <<crashes, applied, last, cut, settled>> /\ hubOutcome' \in {hubOutcome, {}}
    BY <1>9 DEF Publish, Expire, Restore, Open, Disconnect, SyncRead, Announce, SyncTimeout, vars
  <2> QED BY <2>1, <1>2
<1> QED BY <1>3, <1>4, <1>5, <1>6, <1>8, <1>9 DEF Next

\* Every variable of the stream keeps its type, the loop waits for one command at
\* most, and last is the highest seq of the record.
THEOREM StreamTypes == Spec => []TypeOK
<1>1. Shape /\ Rest => TypeOK
  <2> SUFFICES ASSUME Shape, Rest PROVE TypeOK
    OBVIOUS
  <2>1. /\ Cardinality(flight) <= 1 /\ Cardinality(outcome) <= 1 /\ Cardinality(hubOutcome) <= 1
    BY OneAtMost DEF Shape, Rest
  <2> QED BY <2>1 DEF Shape, Rest, TypeOK
<1> QED BY <1>1, ShapeInit, ShapeStep, RestInit, RestStep, PTL DEF Spec

-----------------------------------------------------------------------------
(***************************************************************************)
(* TalkDriving: what the machine of a room makes of its day.               *)
(***************************************************************************)

\* The first rank of a set is in it, and before the others.
LEMMA FirstIs ==
    ASSUME NEW S, S \subseteq Nat
    PROVE  /\ S = {} => First(S) = 0
           /\ S # {} => First(S) \in S /\ \A j \in S : First(S) <= j
<1>1. ASSUME S # {} PROVE First(S) \in S /\ \A j \in S : First(S) <= j
  <2> DEFINE R == OpToRel(<, Nat)
  <2>1. IsWellFoundedOn(R, Nat)
    BY NatLessThanWellFounded
  <2>2. \A x, y \in Nat : x < y => <<x, y>> \in R
    BY DEF OpToRel
  <2>5. \A x, y \in Nat : ~(y < x) => x <= y
    OBVIOUS
  <2> HIDE DEF R
  <2>3. \E x \in S : \A y \in S : ~(<<y, x>> \in R)
    BY <1>1, <2>1, WFMin
  <2>4. \E x \in S : \A y \in S : x <= y
    <3>1. PICK x \in S : \A y \in S : ~(<<y, x>> \in R)
      BY <2>3
    <3>2. ASSUME NEW y \in S PROVE x <= y
      <4>1. x \in Nat /\ y \in Nat
        OBVIOUS
      <4>2. ~(y < x)
        BY <2>2, <3>1, <4>1
      <4> QED BY <2>5, <4>1, <4>2
    <3> QED BY <3>2
  <2> QED BY <1>1, <2>4 DEF First, Min
<1> QED BY <1>1 DEF First

\* So is the last one, after the others, when the set has a bound.
LEMMA LastIs ==
    ASSUME NEW n \in Nat, NEW S, S \subseteq 1..n
    PROVE  /\ S = {} => Last(S) = 0
           /\ S # {} => Last(S) \in S /\ \A j \in S : Last(S) >= j
<1>1. ASSUME S # {} PROVE Last(S) \in S /\ \A j \in S : Last(S) >= j
  <2> DEFINE T == {n - i : i \in S}
  <2>0. \A i \in S : i \in 1..n /\ n - i \in Nat
    <3> TAKE i \in S
    <3>1. i \in 1..n
      OBVIOUS
    <3> QED BY <3>1
  <2>1. T \subseteq Nat /\ T # {}
    BY <1>1, <2>0
  <2> DEFINE t == First(T)
  <2>2. t \in T /\ \A u \in T : t <= u
    BY <2>1, FirstIs
  <2> HIDE DEF t
  <2>3. PICK i \in S : t = n - i
    BY <2>2
  <2>4. ASSUME NEW j \in S PROVE i >= j
    <3>1. n - j \in T
      OBVIOUS
    <3>2. n - i <= n - j /\ i \in 1..n /\ j \in 1..n
      BY <2>0, <2>2, <2>3, <3>1
    <3> QED BY <3>2
  <2> QED BY <1>1, <2>4 DEF Last, Max
<1> QED BY <1>1 DEF Last

Time == Nat \cup {NoTime}
\* Slots on ranks, sorted by start: what the effective ends are read from.
Ordered(day) ==
    /\ DOMAIN day \subseteq Nat \ {0}
    /\ \A i \in DOMAIN day :
        /\ day[i].start \in Nat /\ day[i].end \in Time /\ day[i].duration \in Time
        /\ day[i].kind \in {"talk", "break"}
        /\ \A j \in DOMAIN day : i < j => day[i].start <= day[j].start

\* The slot that follows.
LEMMA AfterIs ==
    ASSUME NEW day, Ordered(day), NEW i \in DOMAIN day
    PROVE  /\ After(day, i) = 0 => \A j \in DOMAIN day : j <= i
           /\ After(day, i) # 0 => /\ After(day, i) \in DOMAIN day /\ After(day, i) > i
                                   /\ \A j \in DOMAIN day : j > i => After(day, i) <= j
<1> DEFINE S == {j \in DOMAIN day : j > i}
<1>1. S \subseteq Nat /\ 0 \notin S
  BY DEF Ordered
<1>2. After(day, i) = First(S)
  BY DEF After
<1> QED BY <1>1, <1>2, FirstIs DEF Ordered

\* The three ways an end is read, and that the third is not after the start of any
\* later slot.
LEMMA EndIs ==
    ASSUME NEW day, Ordered(day), NEW i \in DOMAIN day
    PROVE  /\ EffectiveEnd(day, i) \in Time
           /\ day[i].end # NoTime => EffectiveEnd(day, i) = day[i].end
           /\ day[i].end = NoTime /\ day[i].duration # NoTime =>
                  EffectiveEnd(day, i) = day[i].start + day[i].duration
           /\ day[i].end = NoTime /\ day[i].duration = NoTime =>
                  /\ EffectiveEnd(day, i) = IF After(day, i) # 0 THEN day[After(day, i)].start ELSE NoTime
                  /\ \A j \in DOMAIN day : j > i =>
                        EffectiveEnd(day, i) # NoTime /\ EffectiveEnd(day, i) <= day[j].start
<1>0. NoTime \notin Nat
  BY TimelineAssumption
<1>1. CASE day[i].end # NoTime
  BY <1>1 DEF EffectiveEnd, Ordered
<1>2. CASE day[i].end = NoTime /\ day[i].duration # NoTime
  BY <1>2 DEF EffectiveEnd, Ordered, Time
<1>3. CASE day[i].end = NoTime /\ day[i].duration = NoTime
  <2>1. EffectiveEnd(day, i) = IF After(day, i) # 0 THEN day[After(day, i)].start ELSE NoTime
    BY <1>3 DEF EffectiveEnd
  <2>2. ASSUME NEW j \in DOMAIN day, j > i
        PROVE  After(day, i) # 0 /\ day[After(day, i)].start <= day[j].start /\ day[After(day, i)].start \in Nat
    <3>1. After(day, i) # 0
      BY <2>2, AfterIs DEF Ordered
    <3>2. After(day, i) \in DOMAIN day /\ After(day, i) <= j
      BY <2>2, <3>1, AfterIs
    <3> QED BY <3>1, <3>2 DEF Ordered
  <2>3. EffectiveEnd(day, i) \in Time
    <3>1. CASE After(day, i) = 0
      BY <2>1, <3>1 DEF Time
    <3>2. CASE After(day, i) # 0
      BY <2>1, <3>2, AfterIs DEF Time, Ordered
    <3> QED BY <3>1, <3>2
  <2> QED BY <1>0, <1>3, <2>1, <2>2, <2>3
<1> QED BY <1>1, <1>2, <1>3

-----------------------------------------------------------------------------
\* The end of a slot depends on times and on ranks only.
LEMMA SameEnds ==
    ASSUME NEW one, NEW two, DOMAIN one = DOMAIN two, Ordered(one), Ordered(two),
           \A i \in DOMAIN one : /\ one[i].start = two[i].start /\ one[i].end = two[i].end
                                 /\ one[i].duration = two[i].duration
    PROVE  \A i \in DOMAIN one : EffectiveEnd(one, i) = EffectiveEnd(two, i)
<1> TAKE i \in DOMAIN one
<1>1. After(one, i) = After(two, i)
  BY DEF After
<1>2. After(one, i) # 0 => After(one, i) \in DOMAIN one
  BY AfterIs
<1>3. one[i].end = two[i].end /\ one[i].duration = two[i].duration /\ one[i].start = two[i].start
  OBVIOUS
<1>4. CASE one[i].end # NoTime
  BY <1>3, <1>4, EndIs
<1>5. CASE one[i].end = NoTime /\ one[i].duration # NoTime
  BY <1>3, <1>5, EndIs
<1>6. CASE one[i].end = NoTime /\ one[i].duration = NoTime
  BY <1>1, <1>2, <1>3, <1>6, EndIs
<1> QED BY <1>4, <1>5, <1>6

\* What a programme is made of.
LEMMA ProgrammeIs ==
    ASSUME NEW program \in Seq(Slot)
    PROVE  /\ Len(program) \in Nat /\ DOMAIN program = 1..Len(program)
           /\ \A i \in DOMAIN program :
                /\ i \in Nat \ {0} /\ program[i] \in Slot
                /\ program[i].start \in Nat /\ program[i].end \in Time /\ program[i].duration \in Time
                /\ program[i].kind \in {"talk", "break"}
<1>1. Len(program) \in Nat /\ DOMAIN program = 1..Len(program) /\ \A i \in 1..Len(program) : program[i] \in Slot
  BY LenProperties, ElementOfSeq
<1> QED BY <1>1 DEF Slot, Time

\* The slots of a room, and their ends as the rule of the shared breaks reads them.
LEMMA RoomsDay ==
    ASSUME NEW program, Scheduled(program), NEW room
    PROVE  /\ DOMAIN SessionsForRoom(program, room) = RanksOf(program, room)
           /\ \A i \in RanksOf(program, room) :
                /\ SessionsForRoom(program, room)[i] = program[i]
                /\ EffectiveEnd(SessionsForRoom(program, room), i) = EndInRoom(program, i)
           /\ Ordered(SessionsForRoom(program, room))
<1> DEFINE own == SessionsForRoom(program, room)
<1>1. DOMAIN own = RanksOf(program, room) /\ \A i \in DOMAIN own : own[i] = program[i]
  BY DEF SessionsForRoom, Restrict
<1>2. DOMAIN own \subseteq DOMAIN program
  BY <1>1 DEF RanksOf
<1>3. Ordered(own)
  BY <1>1, <1>2, ProgrammeIs DEF Ordered, Scheduled
<1>4. \A i \in DOMAIN own : EffectiveEnd(own, i) = EndInRoom(program, i)
  BY <1>1 DEF EndInRoom, RanksOf
<1> QED BY <1>1, <1>3, <1>4

\* A decision changes the kind of a slot: neither its place, its times nor its end.
LEMMA CorrectedIs ==
    ASSUME Scheduled(export), NEW decided
    PROVE  /\ Scheduled(Corrected(decided))
           /\ DOMAIN Corrected(decided) = DOMAIN export
           /\ \A i \in DOMAIN export : /\ Corrected(decided)[i].id = export[i].id
                                       /\ Corrected(decided)[i].room = export[i].room
           /\ Clear(export) => Clear(Corrected(decided))
<1> DEFINE given == Corrected(decided)
<1>1. DOMAIN given = DOMAIN export
  BY DEF Corrected
<1>2. ASSUME NEW i \in DOMAIN export
      PROVE  /\ given[i] \in Slot /\ given[i].id = export[i].id /\ given[i].room = export[i].room
             /\ given[i].start = export[i].start /\ given[i].end = export[i].end
             /\ given[i].duration = export[i].duration
  <2>1. export[i] \in Slot
    BY ProgrammeIs DEF Scheduled
  <2>2. given[i] = IF export[i].id \in decided THEN [export[i] EXCEPT !.kind = Other(@)] ELSE export[i]
    BY DEF Corrected
  <2> QED BY <2>1, <2>2 DEF Slot, Other
<1>3. given \in Seq(Slot)
  <2>1. Len(export) \in Nat /\ DOMAIN export = 1..Len(export)
    BY ProgrammeIs DEF Scheduled
  <2>2. given \in [1..Len(export) -> Slot]
    BY <1>2, <2>1 DEF Corrected
  <2> QED BY <2>1, <2>2, SeqDef
<1> HIDE DEF given
<1>4. \A room : RanksOf(given, room) = RanksOf(export, room)
  BY <1>1, <1>2 DEF RanksOf
<1>5. ASSUME NEW i \in DOMAIN export PROVE EndInRoom(given, i) = EndInRoom(export, i)
  <2> DEFINE room == export[i].room
             one == SessionsForRoom(given, room)
             two == SessionsForRoom(export, room)
  <2>1. /\ DOMAIN one = RanksOf(export, room) /\ \A j \in DOMAIN one : one[j] = given[j]
        /\ DOMAIN two = RanksOf(export, room) /\ \A j \in DOMAIN two : two[j] = export[j]
        /\ Ordered(two)
    BY <1>4, RoomsDay DEF SessionsForRoom, Restrict
  <2>2. RanksOf(export, room) \subseteq DOMAIN export /\ i \in RanksOf(export, room)
    BY DEF RanksOf
  <2>3. \A j \in DOMAIN one : /\ one[j].start = two[j].start /\ one[j].end = two[j].end
                              /\ one[j].duration = two[j].duration /\ one[j].kind \in {"talk", "break"}
    BY <1>2, <2>1, <2>2 DEF Slot
  <2>4. Ordered(one)
    BY <2>1, <2>3 DEF Ordered
  <2> HIDE DEF one, two
  <2>5. EffectiveEnd(one, i) = EffectiveEnd(two, i)
    BY <2>1, <2>2, <2>3, <2>4, SameEnds
  <2> QED BY <1>2, <2>5 DEF EndInRoom, one, two
<1>6. Clear(export) => Clear(given)
  BY <1>1, <1>2, <1>4, <1>5 DEF Clear, RanksOf
<1>7. \A i, j \in DOMAIN given : i < j =>
          given[i].start <= given[j].start /\ given[i].id # given[j].id
  BY <1>1, <1>2 DEF Scheduled
<1> QED BY <1>1, <1>2, <1>3, <1>6, <1>7 DEF Scheduled, given

\* A room is given its own slots and copies of breaks, as they are in the
\* programme.
LEMMA ServedRanks ==
    ASSUME NEW program, NEW room
    PROVE  /\ DOMAIN Served(program, room) = RanksOf(program, room) \cup Inherited(program, room)
           /\ RanksOf(program, room) \cup Inherited(program, room) \subseteq DOMAIN program
           /\ RanksOf(program, room) \cap Inherited(program, room) = {}
           /\ \A i \in RanksOf(program, room) : Served(program, room)[i] = program[i]
           /\ \A i \in Inherited(program, room) : Served(program, room)[i] = Copy(program[i], room)
           /\ \A i \in Inherited(program, room) : program[i].kind = "break"
<1>1. /\ RanksOf(program, room) \subseteq DOMAIN program /\ Inherited(program, room) \subseteq DOMAIN program
      /\ \A i \in RanksOf(program, room) : program[i].room = room
      /\ \A i \in Inherited(program, room) : program[i].room # room /\ program[i].kind = "break"
  BY DEF RanksOf, Inherited
<1> QED BY <1>1 DEF Served

\* A copy has the times and the kind of the break.
LEMMA ServedTimes ==
    ASSUME NEW program, Scheduled(program), NEW room, NEW j \in DOMAIN Served(program, room)
    PROVE  /\ Served(program, room)[j].start = program[j].start
           /\ Served(program, room)[j].end = program[j].end
           /\ Served(program, room)[j].duration = program[j].duration
           /\ Served(program, room)[j].kind = program[j].kind
           /\ j \in DOMAIN program /\ program[j] \in Slot
<1> DEFINE slot == Served(program, room)[j]
<1>1. j \in DOMAIN program /\ (slot = program[j] \/ slot = Copy(program[j], room))
  BY ServedRanks
<1>2. program[j] \in Slot
  BY <1>1, ProgrammeIs DEF Scheduled
<1> HIDE DEF slot
<1>3. CASE slot = program[j]
  BY <1>1, <1>2, <1>3 DEF slot
<1>4. CASE slot = Copy(program[j], room)
  <2>1. /\ slot.start = program[j].start /\ slot.end = program[j].end
        /\ slot.duration = program[j].duration /\ slot.kind = program[j].kind
    BY <1>2, <1>4 DEF Copy, Slot
  <2> QED BY <1>1, <1>2, <2>1 DEF slot
<1> QED BY <1>1, <1>3, <1>4

LEMMA ServedIsOrdered ==
    ASSUME NEW program, Scheduled(program), NEW room
    PROVE  Ordered(Served(program, room))
<1> DEFINE day == Served(program, room)
<1>1. \A j \in DOMAIN day : /\ day[j].start = program[j].start /\ day[j].end = program[j].end
                            /\ day[j].duration = program[j].duration /\ day[j].kind = program[j].kind
                            /\ j \in DOMAIN program
  BY ServedTimes
<1> HIDE DEF day
<1>2. \A j \in DOMAIN program : j \in Nat \ {0}
  BY ProgrammeIs DEF Scheduled
<1>3. Ordered(day)
  BY <1>1, <1>2, ProgrammeIs DEF Ordered, Scheduled
<1> QED BY <1>3 DEF day

\* A copy fits between the slots of the room that inherits it.
LEMMA ServedFits ==
    ASSUME NEW program, Scheduled(program), Clear(program), NEW room, NEW i \in RanksOf(program, room)
    PROVE  /\ EffectiveEnd(Served(program, room), i) = EndInRoom(program, i)
           /\ \A k \in Inherited(program, room) :
                \/ /\ EffectiveEnd(Served(program, room), k) # NoTime
                   /\ Served(program, room)[i].start >= EffectiveEnd(Served(program, room), k)
                \/ Over(Served(program, room), i, Served(program, room)[k].start)
<1> DEFINE day == Served(program, room)
           own == SessionsForRoom(program, room)
           others == Inherited(program, room)
<1>1. /\ DOMAIN day = DOMAIN own \cup others /\ i \in DOMAIN own /\ i \in DOMAIN day
      /\ DOMAIN own \cap others = {}
      /\ \A j \in DOMAIN day : /\ day[j].start = program[j].start /\ day[j].end = program[j].end
                               /\ day[j].duration = program[j].duration
      /\ \A j \in DOMAIN own : own[j] = program[j]
      /\ \A j \in DOMAIN own : EffectiveEnd(own, j) = EndInRoom(program, j)
      /\ Ordered(day) /\ Ordered(own)
  <2>1. /\ DOMAIN own = RanksOf(program, room) /\ \A j \in DOMAIN own : own[j] = program[j]
        /\ \A j \in DOMAIN own : EffectiveEnd(own, j) = EndInRoom(program, j)
        /\ Ordered(own)
    BY RoomsDay
  <2>2. /\ DOMAIN day = RanksOf(program, room) \cup others
        /\ RanksOf(program, room) \cap others = {}
        /\ \A j \in DOMAIN day : /\ day[j].start = program[j].start /\ day[j].end = program[j].end
                                 /\ day[j].duration = program[j].duration
        /\ Ordered(day)
    <3>1. DOMAIN day = RanksOf(program, room) \cup others /\ RanksOf(program, room) \cap others = {}
      BY ServedRanks
    <3>2. \A j \in DOMAIN day : /\ day[j].start = program[j].start /\ day[j].end = program[j].end
                               /\ day[j].duration = program[j].duration
      BY ServedTimes
    <3>3. Ordered(day)
      BY ServedIsOrdered
    <3> HIDE DEF day, others
    <3> QED BY <3>1, <3>2, <3>3
  <2> HIDE DEF own, day, others
  <2> QED BY <2>1, <2>2
<1>0. NoTime \notin Nat
  BY TimelineAssumption
\* What the rule checked.
<1>2. ASSUME NEW k \in others
      PROVE  /\ EndInRoom(program, k) \in Nat /\ program[k].start < EndInRoom(program, k)
             /\ \/ program[i].start >= EndInRoom(program, k)
                \/ EndInRoom(program, i) # NoTime /\ EndInRoom(program, i) <= program[k].start
  <2>1. k \in DOMAIN program /\ EndInRoom(program, k) # NoTime /\ ~Overlaps(own, i, program[k].start, EndInRoom(program, k))
    BY <1>1 DEF Inherited
  <2>2. EndInRoom(program, k) \in Time /\ EndInRoom(program, i) \in Time
    <3>1. k \in RanksOf(program, program[k].room) /\ i \in RanksOf(program, room)
      BY <2>1 DEF RanksOf
    <3> QED BY <3>1, RoomsDay, EndIs
  <2>3. program[k].start < EndInRoom(program, k)
    BY <2>1 DEF Clear
  <2>4. program[i].start \in Nat /\ program[k].start \in Nat
    BY <1>1 DEF Ordered
  <2>5. \/ ~(program[i].start < EndInRoom(program, k))
        \/ ~(EndInRoom(program, i) = NoTime \/ EndInRoom(program, i) > program[k].start)
    BY <1>1, <2>1 DEF Overlaps
  <2> HIDE DEF own, others
  <2> QED BY <2>1, <2>2, <2>3, <2>4, <2>5 DEF Time
<1> HIDE DEF day, own, others
<1>3. EffectiveEnd(day, i) = EffectiveEnd(own, i)
  <2>1. CASE program[i].end # NoTime \/ program[i].duration # NoTime
    BY <1>1, <2>1, EndIs
  <2>2. CASE program[i].end = NoTime /\ program[i].duration = NoTime
    <3>0. /\ EffectiveEnd(day, i) = IF After(day, i) # 0 THEN day[After(day, i)].start ELSE NoTime
          /\ EffectiveEnd(own, i) = IF After(own, i) # 0 THEN own[After(own, i)].start ELSE NoTime
      BY <1>1, <2>2, EndIs
    <3>1. \A k \in others : k > i => EndInRoom(program, i) # NoTime /\ EndInRoom(program, i) <= program[k].start
      <4> TAKE k \in others
      <4>1. k > i => program[i].start <= program[k].start
        BY <1>1 DEF Ordered
      <4>2. program[i].start \in Nat /\ program[k].start \in Nat
        BY <1>1 DEF Ordered
      <4> QED BY <1>2, <4>1, <4>2
    <3>2. CASE After(own, i) = 0
      <4>1. EndInRoom(program, i) = NoTime /\ \A j \in DOMAIN own : j <= i
        BY <1>1, <3>0, <3>2, AfterIs
      <4>2. \A j \in DOMAIN day : ~(j > i)
        <5> TAKE j \in DOMAIN day
        <5>1. CASE j \in DOMAIN own
          BY <4>1, <5>1, <1>1 DEF Ordered
        <5>2. CASE j \in others
          BY <3>1, <4>1, <5>2
        <5> QED BY <1>1, <5>1, <5>2
      <4>3. After(day, i) = 0
        BY <1>1, <4>2, AfterIs
      <4> QED BY <3>0, <3>2, <4>3
    <3>3. CASE After(own, i) # 0
      <4> DEFINE o == After(own, i)
                 d == After(day, i)
      <4>1. o \in DOMAIN own /\ o > i /\ \A j \in DOMAIN own : j > i => o <= j
        BY <1>1, <3>3, AfterIs
      <4>2. d # 0
        BY <1>1, <4>1, AfterIs DEF Ordered
      <4>3. d \in DOMAIN day /\ d > i /\ d <= o
        BY <1>1, <4>1, <4>2, AfterIs
      <4>4. o \in Nat /\ d \in Nat /\ o \in DOMAIN day
        BY <1>1, <4>1, <4>3 DEF Ordered
      <4>5. own[o].start = program[o].start /\ day[d].start = program[d].start
        BY <1>1, <4>1, <4>3
      <4>6. program[d].start \in Nat /\ program[o].start \in Nat
        BY <1>1, <4>3, <4>4 DEF Ordered
      <4>7. EffectiveEnd(own, i) = program[o].start /\ EffectiveEnd(day, i) = program[d].start
        BY <3>0, <3>3, <4>2, <4>5
      <4>8. CASE d \in DOMAIN own
        <5>1. d = o
          BY <4>1, <4>3, <4>4, <4>8
        <5> QED BY <4>7, <5>1
      <4>9. CASE d \in others
        <5>1. program[o].start <= program[d].start
          BY <1>1, <3>1, <4>3, <4>7, <4>9
        <5>2. d < o => program[d].start <= program[o].start
          BY <1>1, <4>3, <4>4 DEF Ordered
        <5> HIDE DEF o, d
        <5>3. program[d].start = program[o].start
          BY <4>3, <4>4, <4>6, <5>1, <5>2
        <5> QED BY <4>7, <5>3
      <4> QED BY <1>1, <4>3, <4>8, <4>9
    <3> QED BY <3>2, <3>3
  <2> QED BY <2>1, <2>2
<1>4. ASSUME NEW k \in others, program[i].start >= EndInRoom(program, k)
      PROVE  EffectiveEnd(day, k) # NoTime /\ day[i].start >= EffectiveEnd(day, k)
  <2> DEFINE there == SessionsForRoom(program, program[k].room)
  <2>1. k \in DOMAIN day /\ k \in DOMAIN program
    BY <1>1 DEF others, Inherited
  <2>2. /\ k \in DOMAIN there /\ Ordered(there) /\ there[k] = program[k]
        /\ EffectiveEnd(there, k) = EndInRoom(program, k)
    <3>1. k \in RanksOf(program, program[k].room)
      BY <2>1 DEF RanksOf
    <3> QED BY <3>1, RoomsDay, Zenon
  <2> HIDE DEF there
  <2>3. EndInRoom(program, k) \in Nat /\ program[k].start < EndInRoom(program, k) /\ day[i].start = program[i].start
    BY <1>1, <1>2
  <2>4. CASE program[k].end # NoTime \/ program[k].duration # NoTime
    <3>1. EffectiveEnd(day, k) = EffectiveEnd(there, k)
      BY <1>1, <2>1, <2>2, <2>4, EndIs
    <3> QED BY <1>0, <1>4, <2>2, <2>3, <3>1
  <2>5. CASE program[k].end = NoTime /\ program[k].duration = NoTime
    <3>1. i > k
      <4>1. /\ i \in Nat /\ k \in Nat /\ i # k /\ program[k].start \in Nat /\ program[i].start \in Nat
            /\ i < k => program[i].start <= program[k].start
        BY <1>1, <2>1 DEF Ordered
      <4> QED BY <1>4, <2>3, <4>1
    <3>2. EffectiveEnd(day, k) # NoTime /\ EffectiveEnd(day, k) <= day[i].start
      BY <1>1, <2>1, <2>5, <3>1, EndIs
    <3>3. EffectiveEnd(day, k) \in Time /\ day[i].start \in Nat
      BY <1>1, <2>1, EndIs DEF Ordered
    <3> QED BY <3>2, <3>3 DEF Time
  <2> QED BY <2>4, <2>5
<1>5. ASSUME NEW k \in others, EndInRoom(program, i) # NoTime, EndInRoom(program, i) <= program[k].start
      PROVE  Over(day, i, day[k].start)
  BY <1>1, <1>3, <1>5 DEF Over
<1> QED BY <1>1, <1>2, <1>3, <1>4, <1>5 DEF day, own, others
-----------------------------------------------------------------------------
\* The room is given what the corrected programme gives it.
DayInv ==
    /\ Scheduled(export)
    /\ slots = Served(Corrected(flipped), Here)
StatusInv == now \in Nat /\ \A t \in DOMAIN statuses : statuses[t] \in {"running", "ended"}

LEMMA CorrectedIsScheduled ==
    DayInv => Scheduled(Corrected(flipped)) /\ (Clear(export) => Clear(Corrected(flipped)))
BY CorrectedIs DEF DayInv

\* A talk is never inherited.
LEMMA TalksAreOwn ==
    ASSUME DayInv, NEW i \in DOMAIN slots, slots[i].kind = "talk"
    PROVE  /\ i \in RanksOf(Corrected(flipped), Here) /\ slots[i] = Corrected(flipped)[i]
           /\ i \in DOMAIN export /\ slots[i].id = export[i].id
           /\ slots[i] # NoSlot
<1> DEFINE program == Corrected(flipped)
<1>1. Scheduled(program)
  BY CorrectedIsScheduled
<1>2. slots[i].kind = program[i].kind /\ program[i] \in Slot /\ i \in DOMAIN program
  BY <1>1, ServedTimes DEF DayInv
<1>3. i \in RanksOf(program, Here) /\ slots[i] = program[i]
  <2>1. DOMAIN slots = RanksOf(program, Here) \cup Inherited(program, Here)
    BY ServedRanks DEF DayInv
  <2>2. i \notin Inherited(program, Here)
    <3>1. \A j \in Inherited(program, Here) : program[j].kind = "break"
      BY ServedRanks
    <3> QED BY <1>2, <3>1
  <2>3. i \in RanksOf(program, Here)
    BY <2>1, <2>2
  <2>4. Served(program, Here)[i] = program[i]
    BY <2>3 DEF Served, RanksOf
  <2> QED BY <2>3, <2>4 DEF DayInv
<1>4. i \in DOMAIN export /\ program[i].id = export[i].id
  BY <1>2, CorrectedIs DEF DayInv
<1> QED BY <1>2, <1>3, <1>4, ProgrammesAssumption

\* The day is sorted, finite, and its talks have identifiers of their own.
LEMMA DayIs ==
    ASSUME DayInv
    PROVE  /\ Ordered(slots)
           /\ \E n \in Nat : DOMAIN slots \subseteq 1..n
           /\ \A i, j \in DOMAIN slots :
                slots[i].kind = "talk" /\ slots[j].kind = "talk" /\ i # j => slots[i].id # slots[j].id
<1> DEFINE program == Corrected(flipped)
<1>1. Scheduled(program)
  BY CorrectedIsScheduled
<1>2. Ordered(slots)
  BY <1>1, ServedIsOrdered DEF DayInv
<1>3. DOMAIN slots \subseteq 1..Len(program) /\ Len(program) \in Nat
  <2>1. DOMAIN slots \subseteq DOMAIN program
    <3> HIDE DEF program
    <3>1. DOMAIN slots = RanksOf(program, Here) \cup Inherited(program, Here)
      BY ServedRanks DEF DayInv, program
    <3> QED BY <3>1, ServedRanks
  <2>2. DOMAIN program = 1..Len(program) /\ Len(program) \in Nat
    BY <1>1, ProgrammeIs DEF Scheduled
  <2> QED BY <2>1, <2>2
<1>4. ASSUME NEW i \in DOMAIN slots, NEW j \in DOMAIN slots, slots[i].kind = "talk", slots[j].kind = "talk", i # j
      PROVE  slots[i].id # slots[j].id
  <2>1. slots[i].id = export[i].id /\ slots[j].id = export[j].id /\ i \in DOMAIN export /\ j \in DOMAIN export
    BY <1>4, TalksAreOwn
  <2>2. Scheduled(export)
    BY DEF DayInv
  <2>3. i \in Nat /\ j \in Nat
    BY <1>2 DEF Ordered
  <2>4. i < j \/ j < i
    BY <1>4, <2>3
  <2> QED BY <2>1, <2>2, <2>4 DEF Scheduled
<1> QED BY <1>2, <1>3, <1>4

\* A slot and a later talk do not overlap: one is over when the other begins.
LEMMA TalksAreClear ==
    ASSUME DayInv, Clear(export), NEW c \in DOMAIN slots, NEW i \in DOMAIN slots, slots[i].kind = "talk", c < i
    PROVE  Over(slots, c, slots[i].start) \/ Over(slots, i, slots[c].start)
<1> DEFINE program == Corrected(flipped)
<1>0. NoTime \notin Nat
  BY TimelineAssumption
<1>1. Scheduled(program) /\ Clear(program) /\ slots = Served(program, Here)
  BY CorrectedIsScheduled DEF DayInv
<1>2. i \in RanksOf(program, Here) /\ slots[i] = program[i]
  BY TalksAreOwn
<1>3. Ordered(slots)
  BY DayIs
<1>4. EffectiveEnd(slots, c) # NoTime /\ EffectiveEnd(slots, c) \in Time /\ slots[i].start \in Nat
  <2>1. slots[c].end \in Time /\ slots[c].duration \in Time /\ slots[c].start \in Nat /\ slots[i].start \in Nat
    BY <1>3 DEF Ordered
  <2>2. CASE slots[c].end # NoTime
    BY <1>0, <1>3, <2>1, <2>2, EndIs
  <2>3. CASE slots[c].end = NoTime /\ slots[c].duration # NoTime
    <3>1. EffectiveEnd(slots, c) = slots[c].start + slots[c].duration
      BY <1>0, <1>3, <2>3, EndIs
    <3>2. EffectiveEnd(slots, c) \in Nat
      BY <2>1, <2>3, <3>1 DEF Time
    <3> QED BY <1>0, <2>1, <3>2 DEF Time
  <2>4. CASE slots[c].end = NoTime /\ slots[c].duration = NoTime
    BY <1>0, <1>3, <2>1, <2>4, EndIs
  <2> QED BY <2>2, <2>3, <2>4
<1>5. CASE c \in RanksOf(program, Here)
  <2>1. EffectiveEnd(slots, c) = EndInRoom(program, c)
    BY <1>0, <1>1, <1>5, ServedFits
  <2>2. c \in DOMAIN program /\ program[c].room = Here
    BY <1>5 DEF RanksOf
  <2>3. EndInRoom(program, c) <= program[i].start
    BY <1>1, <1>2, <1>4, <2>1, <2>2 DEF Clear
  <2>4. EffectiveEnd(slots, c) <= slots[i].start
    BY <1>2, <2>1, <2>3, Zenon
  <2> QED BY <1>4, <2>4 DEF Over
<1>6. CASE c \in Inherited(program, Here)
  <2>1. \/ slots[i].start >= EffectiveEnd(slots, c)
        \/ Over(slots, i, slots[c].start)
    BY <1>0, <1>1, <1>2, <1>6, ServedFits
  <2>2. EffectiveEnd(slots, c) \in Nat /\ slots[i].start \in Nat
    BY <1>4 DEF Time
  <2>3. CASE slots[i].start >= EffectiveEnd(slots, c)
    BY <1>4, <2>2, <2>3 DEF Over
  <2> QED BY <2>1, <2>3
<1>7. DOMAIN Served(program, Here) = RanksOf(program, Here) \cup Inherited(program, Here)
  BY ServedRanks
<1> HIDE DEF program
<1>8. c \in RanksOf(program, Here) \/ c \in Inherited(program, Here)
  BY <1>1, <1>7
<1> QED BY <1>5, <1>6, <1>8

\* The clock's place in the day.
LEMMA StopAtTime ==
    ASSUME DayInv, NEW t \in Nat
    PROVE  /\ StopAt(slots, t) = 0 => \A i \in DOMAIN slots : slots[i].start <= t /\ Over(slots, i, t)
           /\ StopAt(slots, t) # 0 =>
                /\ StopAt(slots, t) \in DOMAIN slots
                /\ slots[StopAt(slots, t)].start > t \/ ~Over(slots, StopAt(slots, t), t)
                /\ \A i \in DOMAIN slots :
                      slots[i].start > t \/ ~Over(slots, i, t) => StopAt(slots, t) <= i
<1> DEFINE ranks == {i \in DOMAIN slots : slots[i].start > t \/ ~Over(slots, i, t)}
<1>1. DOMAIN slots \subseteq Nat \ {0} /\ \A i \in DOMAIN slots : slots[i].start \in Nat
  BY DayIs DEF Ordered
<1>2. ranks \subseteq Nat /\ 0 \notin ranks
  BY <1>1
<1>3. StopAt(slots, t) = First(ranks)
  BY DEF StopAt
<1>4. ASSUME StopAt(slots, t) = 0, NEW i \in DOMAIN slots PROVE slots[i].start <= t /\ Over(slots, i, t)
  <2>1. i \notin ranks
    BY <1>2, <1>3, <1>4, FirstIs
  <2> QED BY <1>1, <2>1
<1>5. ASSUME StopAt(slots, t) # 0
      PROVE  StopAt(slots, t) \in ranks /\ \A i \in ranks : StopAt(slots, t) <= i
  BY <1>2, <1>3, <1>5, FirstIs
<1> QED BY <1>4, <1>5

LEMMA StopIs ==
    ASSUME DayInv, now \in Nat
    PROVE  /\ StopAt(slots, now) = 0 => \A i \in DOMAIN slots : slots[i].start <= now /\ Over(slots, i, now)
           /\ StopAt(slots, now) # 0 =>
                /\ StopAt(slots, now) \in DOMAIN slots
                /\ slots[StopAt(slots, now)].start > now \/ ~Over(slots, StopAt(slots, now), now)
                /\ \A i \in DOMAIN slots :
                      slots[i].start > now \/ ~Over(slots, i, now) => StopAt(slots, now) <= i
BY StopAtTime

LEMMA CurrentIs ==
    ASSUME DayInv, now \in Nat
    PROVE  /\ CurrentAt(slots, now) # 0 =>
                /\ CurrentAt(slots, now) \in DOMAIN slots
                /\ slots[CurrentAt(slots, now)].start <= now
                /\ ~Over(slots, CurrentAt(slots, now), now)
           /\ \A i \in DOMAIN slots : ~Over(slots, i, now) =>
                IF CurrentAt(slots, now) = 0 THEN slots[i].start > now ELSE CurrentAt(slots, now) <= i
<1> DEFINE stop == StopAt(slots, now)
<1>1. \A i \in DOMAIN slots : slots[i].start \in Nat /\ i \in Nat \ {0}
  BY DayIs DEF Ordered
<1>2. CurrentAt(slots, now) = IF stop # 0 /\ slots[stop].start <= now THEN stop ELSE 0
  BY DEF CurrentAt
<1>3. CASE stop = 0
  BY <1>2, <1>3, StopIs
<1>4. CASE stop # 0 /\ slots[stop].start <= now
  <2>1. CurrentAt(slots, now) = stop
    BY <1>2, <1>4
  <2>2. stop \in DOMAIN slots /\ \A i \in DOMAIN slots : ~Over(slots, i, now) => stop <= i
    BY <1>4, StopIs
  <2>3. ~Over(slots, stop, now)
    BY <1>1, <1>4, <2>2, StopIs
  <2> HIDE DEF stop
  <2> QED BY <1>4, <2>1, <2>2, <2>3
<1>5. CASE stop # 0 /\ ~(slots[stop].start <= now)
  <2>1. stop \in DOMAIN slots /\ slots[stop].start > now /\ CurrentAt(slots, now) = 0
    BY <1>1, <1>2, <1>5, StopIs
  <2>2. ASSUME NEW i \in DOMAIN slots, ~Over(slots, i, now) PROVE slots[i].start > now
    <3>1. stop <= i
      BY <1>5, <2>2, StopIs
    <3>2. slots[stop].start <= slots[i].start
      <4>1. CASE stop = i
        BY <1>1, <4>1
      <4>2. CASE stop < i
        BY <2>1, <4>2, DayIs DEF Ordered
      <4>3. stop \in Nat /\ i \in Nat
        BY <1>1, <2>1
      <4> QED BY <3>1, <4>1, <4>2, <4>3
    <3>3. slots[stop].start \in Nat /\ slots[i].start \in Nat
      BY <1>1, <2>1
    <3> QED BY <2>1, <3>2, <3>3
  <2> QED BY <2>1, <2>2
<1> QED BY <1>3, <1>4, <1>5
-----------------------------------------------------------------------------
\* What the badge and the buttons read.
LEMMA PinnedIs ==
    ASSUME DayInv
    PROVE  PinnedAt(slots, statuses, pin) # 0 =>
                /\ PinnedAt(slots, statuses, pin) \in DOMAIN slots
                /\ slots[PinnedAt(slots, statuses, pin)].id = pin
                /\ slots[PinnedAt(slots, statuses, pin)].kind = "talk"
                /\ StatusIn(statuses, pin) # "ended"
<1> DEFINE ranks == {i \in DOMAIN slots : /\ slots[i].id = pin /\ slots[i].kind = "talk"
                                          /\ StatusIn(statuses, pin) # "ended"}
<1>1. ranks \subseteq Nat
  BY DayIs DEF Ordered
<1>2. PinnedAt(slots, statuses, pin) = First(ranks)
  BY DEF PinnedAt
<1>3. PinnedAt(slots, statuses, pin) # 0 => PinnedAt(slots, statuses, pin) \in ranks
  BY <1>1, <1>2, FirstIs
<1> QED BY <1>3

LEMMA OnAirIs ==
    ASSUME DayInv
    PROVE  /\ OnAirAt(slots, statuses) # 0 =>
                /\ OnAirAt(slots, statuses) \in DOMAIN slots
                /\ slots[OnAirAt(slots, statuses)].kind = "talk"
                /\ StatusIn(statuses, slots[OnAirAt(slots, statuses)].id) = "running"
           /\ OnAirAt(slots, statuses) = 0 =>
                \A i \in DOMAIN slots :
                    slots[i].kind = "talk" => StatusIn(statuses, slots[i].id) # "running"
<1> DEFINE ranks == {i \in DOMAIN slots :
                        slots[i].kind = "talk" /\ StatusIn(statuses, slots[i].id) = "running"}
<1>1. PICK n \in Nat : ranks \subseteq 1..n
  BY DayIs
<1>2. OnAirAt(slots, statuses) = Last(ranks) /\ 0 \notin ranks
  BY <1>1 DEF OnAirAt
<1>3. /\ OnAirAt(slots, statuses) # 0 => OnAirAt(slots, statuses) \in ranks
      /\ OnAirAt(slots, statuses) = 0 => ranks = {}
  <2> HIDE DEF ranks
  <2> QED BY <1>1, <1>2, LastIs
<1> QED BY <1>3

LEMMA NextTalkIs ==
    ASSUME DayInv
    PROVE  NextTalkAt(slots, now, statuses) # 0 =>
                /\ NextTalkAt(slots, now, statuses) \in DOMAIN slots
                /\ slots[NextTalkAt(slots, now, statuses)].start > now
                /\ slots[NextTalkAt(slots, now, statuses)].kind = "talk"
<1> DEFINE ranks == {i \in DOMAIN slots : /\ slots[i].kind = "talk" /\ slots[i].start > now
                                          /\ StatusIn(statuses, slots[i].id) # "ended"}
<1>1. ranks \subseteq Nat
  BY DayIs DEF Ordered
<1>2. NextTalkAt(slots, now, statuses) = First(ranks)
  BY DEF NextTalkAt
<1>3. NextTalkAt(slots, now, statuses) # 0 => NextTalkAt(slots, now, statuses) \in ranks
  BY <1>1, <1>2, FirstIs
<1> QED BY <1>3

\* A talk with no row is scheduled.
LEMMA StatusesAre ==
    ASSUME StatusInv
    PROVE  \A t : StatusIn(statuses, t) \in {"scheduled", "running", "ended"}
BY DEF StatusInv, StatusIn

\* A talk that runs in its time begins after whatever the clock is on.
LEMMA RunsLater ==
    ASSUME DayInv, Clear(export), StatusInv, NEW i \in DOMAIN slots, slots[i].kind = "talk", ~Over(slots, i, now),
           CurrentAt(slots, now) = 0 \/ slots[CurrentAt(slots, now)].kind = "break"
    PROVE  slots[i].start > now
<1> DEFINE c == CurrentAt(slots, now)
<1>0. now \in Nat /\ \A j \in DOMAIN slots : slots[j].start \in Nat /\ EffectiveEnd(slots, j) \in Time /\ j \in Nat
  BY DayIs, EndIs DEF StatusInv, Ordered
<1>1. CASE c = 0
  BY <1>0, <1>1, CurrentIs
<1>2. CASE c # 0
  <2>1. c \in DOMAIN slots /\ slots[c].start <= now /\ ~Over(slots, c, now) /\ c <= i
    BY <1>0, <1>2, CurrentIs
  <2>2. c # i
    BY <1>2
  <2> HIDE DEF c
  <2>3. c < i
    BY <1>0, <2>1, <2>2
  <2>4. Over(slots, c, slots[i].start) \/ Over(slots, i, slots[c].start)
    BY <2>1, <2>3, TalksAreClear
  <2>5. ~Over(slots, i, slots[c].start)
    BY <1>0, <2>1 DEF Over, Time
  <2>6. CASE Over(slots, c, slots[i].start)
    BY <1>0, <2>1, <2>6 DEF Over, Time
  <2> QED BY <2>4, <2>5, <2>6
<1> QED BY <1>1, <1>2

\* The badge and the buttons, by the branch each takes.
LEMMA BadgeAgrees ==
    ASSUME DayInv, Clear(export), StatusInv
    PROVE  BadgeAgreesWithTarget
<1> DEFINE P == PinnedAt(slots, statuses, pin)
           C == CurrentAt(slots, now)
           T == TargetAt(slots, now, statuses, pin)
           O == OverrunningAt(slots, now, statuses, pin)
<1>0. DOMAIN slots \subseteq Nat \ {0} /\ \A i \in DOMAIN slots : slots[i].kind \in {"talk", "break"}
  BY DayIs DEF Ordered
<1>1. CASE P # 0
  <2>1. P \in DOMAIN slots /\ slots[P].id = pin /\ StatusIn(statuses, pin) # "ended" /\ slots[P] # NoSlot
    BY <1>1, PinnedIs, TalksAreOwn
  <2>2. Target = slots[P] /\ Position.pinned = slots[P]
    BY <1>1 DEF Target, Position, RoomPosition
  <2>3. TargetStatus = StatusIn(statuses, pin)
    BY <2>1, <2>2 DEF TargetStatus
  <2>4. State = IF O # {} THEN "depassement"
                ELSE IF StatusIn(statuses, pin) = "running" THEN "en-cours" ELSE "pas-commencee"
    BY <1>1 DEF State, StateOfSlots
  <2>5. TargetStatus \in {"scheduled", "running"}
    BY <2>1, <2>3, StatusesAre
  <2>6. CASE O # {}
    BY <2>1, <2>2, <2>4, <2>6 DEF BadgeAgreesWithTarget
  <2>7. CASE O = {} /\ StatusIn(statuses, pin) = "running"
    BY <2>3, <2>4, <2>7 DEF BadgeAgreesWithTarget
  <2>8. CASE O = {} /\ StatusIn(statuses, pin) # "running"
    BY <2>3, <2>4, <2>5, <2>8 DEF BadgeAgreesWithTarget
  <2> QED BY <2>6, <2>7, <2>8
<1>2. CASE P = 0
  <2> DEFINE A == OnAirAt(slots, statuses)
             N == NextTalkAt(slots, now, statuses)
  <2>1. Target = At(slots, T) /\ Position.current = At(slots, C)
    BY <1>2 DEF Target, Position, RoomPosition, Current
  <2>2. T = IF C # 0 /\ slots[C].kind = "talk" THEN C ELSE IF A # 0 THEN A ELSE N
    BY <1>2 DEF TargetAt
  <2>3. C # 0 => C \in DOMAIN slots
    BY CurrentIs DEF StatusInv
  <2>4. CASE C # 0 /\ slots[C].kind = "talk"
    <3>1. Target = slots[C] /\ Position.current = slots[C] /\ slots[C] # NoSlot
      BY <2>1, <2>2, <2>3, <2>4, TalksAreOwn DEF At
    <3>2. TargetStatus = StatusIn(statuses, slots[C].id)
      BY <3>1 DEF TargetStatus
    <3>3. TargetStatus \in {"scheduled", "running", "ended"}
      BY <3>2, StatusesAre
    <3>4. \/ State = "depassement"
          \/ State = "terminee" /\ TargetStatus = "ended"
          \/ State \in {"fin-proche", "en-cours"} /\ TargetStatus = "running"
          \/ State \in {"retard", "pas-commencee"} /\ TargetStatus \notin {"ended", "running"}
      BY <1>2, <2>4, <3>2 DEF State, StateOfSlots
    <3> QED BY <2>4, <3>1, <3>3, <3>4 DEF BadgeAgreesWithTarget
  <2>5. CASE ~(C # 0 /\ slots[C].kind = "talk")
    <3>1. State = IF O # {} THEN "depassement" ELSE IF C = 0 THEN "aucune" ELSE "pause"
      BY <1>0, <1>2, <2>3, <2>5 DEF State, StateOfSlots
    <3>2. T = IF A # 0 THEN A ELSE N
      BY <2>2, <2>5
    <3>3. CASE O # {}
      <4>1. PICK i \in DOMAIN slots : StatusIn(statuses, slots[i].id) = "running" /\ slots[i].kind # "break"
        BY <3>3 DEF OverrunningAt
      <4>2. slots[i].kind = "talk"
        BY <1>0, <4>1
      <4>3. A # 0
        BY <4>1, <4>2, OnAirIs
      <4>4. A \in DOMAIN slots /\ StatusIn(statuses, slots[A].id) = "running"
        BY <4>3, OnAirIs
      <4>5. TargetStatus = "running"
        BY <2>1, <3>2, <4>3, <4>4 DEF TargetStatus, At
      <4> QED BY <3>1, <3>3, <4>5 DEF BadgeAgreesWithTarget
    <3>4. CASE O = {}
      <4>1. State \in {"aucune", "pause"}
        BY <3>1, <3>4
      <4>2. ASSUME Target # NoSlot, TargetStatus = "running" PROVE Target.start > now
        <5>1. CASE A # 0
          <6>1. A \in DOMAIN slots /\ slots[A].kind = "talk" /\ StatusIn(statuses, slots[A].id) = "running"
            BY <5>1, OnAirIs
          <6>2. Target = slots[A]
            BY <2>1, <3>2, <5>1, <6>1 DEF At
          <6>3. ~Over(slots, A, now)
            BY <1>0, <1>2, <3>4, <6>1 DEF OverrunningAt
          <6>4. C = 0 \/ slots[C].kind = "break"
            BY <1>0, <2>3, <2>5
          <6>5. slots[A].start > now
            BY <6>1, <6>3, <6>4, RunsLater
          <6> QED BY <6>2, <6>5
        <5>2. CASE A = 0
          <6>1. Target = At(slots, N)
            BY <2>1, <3>2, <5>2
          <6>2. N # 0
            BY <1>0, <4>2, <6>1 DEF At
          <6> QED BY <6>1, <6>2, NextTalkIs DEF At
        <5> QED BY <5>1, <5>2
      <4> QED BY <4>1, <4>2 DEF BadgeAgreesWithTarget
    <3> QED BY <3>3, <3>4
  <2> QED BY <2>4, <2>5
<1> QED BY <1>1, <1>2

\* Without a pin: what comes before the slot announced stays behind the clock.
LEMMA ClockKeepsNext ==
    ASSUME DayInv, NEW t \in Nat, NEW u \in Nat, t <= u,
           NextAt(slots, t) \in DOMAIN slots, NextAt(slots, u) # NextAt(slots, t)
    PROVE  slots[NextAt(slots, t)].start <= u
<1> DEFINE N == NextAt(slots, t)
           S == StopAt(slots, t)
           V == StopAt(slots, u)
<1>1. /\ Ordered(slots) /\ DOMAIN slots \subseteq Nat \ {0}
      /\ \A i \in DOMAIN slots : slots[i].start \in Nat /\ EffectiveEnd(slots, i) \in Time
  BY DayIs, EndIs DEF Ordered
<1>2. SUFFICES ASSUME slots[N].start > u PROVE FALSE
  BY <1>1
<1>3. N = IF S # 0 /\ slots[S].start <= t THEN After(slots, S) ELSE S
  BY DEF NextAt
<1>4. NextAt(slots, u) = IF V # 0 /\ slots[V].start <= u THEN After(slots, V) ELSE V
  BY DEF NextAt
<1>5. S # 0 /\ S \in DOMAIN slots
  BY <1>1, <1>3, StopAtTime
<1>6. V # 0 /\ V \in DOMAIN slots /\ V <= N
  <2>1. ~(\A i \in DOMAIN slots : slots[i].start <= u)
    BY <1>1, <1>2
  <2> QED BY <1>2, <2>1, StopAtTime
<1>7. S <= V
  <2>1. slots[V].start > u \/ ~Over(slots, V, u)
    BY <1>6, StopAtTime
  <2>2. slots[V].start > t \/ ~Over(slots, V, t)
    BY <1>1, <1>6, <2>1 DEF Over, Time
  <2> QED BY <1>5, <1>6, <2>2, StopAtTime
<1>8. S \in Nat /\ V \in Nat /\ N \in Nat /\ slots[N].start \in Nat /\ slots[V].start \in Nat
  BY <1>1, <1>5, <1>6
<1>9. CASE V = N
  BY <1>2, <1>4, <1>8, <1>9
<1>10. CASE V # N
  <2>1. V < N
    BY <1>6, <1>8, <1>10
  <2>2. slots[S].start <= t /\ N = After(slots, S)
    BY <1>3, <1>7, <1>8, <2>1
  <2>3. ~(S < V)
    <3>1. N # 0
      BY <1>8, <2>1
    <3> QED BY <1>1, <1>5, <1>6, <1>8, <2>1, <2>2, <3>1, AfterIs
  <2>4. S = V
    BY <1>7, <1>8, <2>3
  <2>5. slots[V].start <= u
    BY <1>8, <2>2, <2>4
  <2> QED BY <1>4, <1>6, <2>2, <2>4, <2>5
<1> QED BY <1>9, <1>10

\* With one: those that may be announced only lose what has begun, and what has
\* run out but was not jumped over.
Announceable(P, lifecycle, t) ==
    LET jumpedOver == Last({i \in DOMAIN slots : i < P /\ slots[i].kind = "talk"})
    IN  {i \in DOMAIN slots : /\ i # P /\ slots[i].kind = "talk"
                              /\ StatusIn(lifecycle, slots[i].id) = "scheduled"
                              /\ i = jumpedOver \/ ~Over(slots, i, t)}
LEMMA PinKeepsNext ==
    ASSUME DayInv, NEW t \in Nat, NEW u \in Nat, t <= u,
           NEW P \in DOMAIN slots, slots[P].kind = "talk",
           NEW was, NEW is,
           NEW N \in Announceable(P, was, t), N = First(Announceable(P, was, t)),
           First(Announceable(P, is, u)) # N,
           StatusIn(is, slots[N].id) = "scheduled",
           \A j \in DOMAIN slots : j < N /\ StatusIn(is, slots[j].id) = "scheduled"
                                        => StatusIn(was, slots[j].id) = "scheduled"
    PROVE  /\ Over(slots, N, u)
           /\ \A p \in DOMAIN slots : slots[p] = slots[P] /\ N < p =>
                \E k \in DOMAIN slots : N < k /\ k < p /\ slots[k].kind = "talk"
<1> DEFINE before == {i \in DOMAIN slots : i < P /\ slots[i].kind = "talk"}
           jumpedOver == Last(before)
           M == First(Announceable(P, is, u))
<1>1. /\ Ordered(slots) /\ DOMAIN slots \subseteq Nat \ {0}
      /\ \A i \in DOMAIN slots : EffectiveEnd(slots, i) \in Time
  BY DayIs, EndIs DEF Ordered
<1>2. PICK n \in Nat : DOMAIN slots \subseteq 1..n
  BY DayIs
<1>3. Announceable(P, was, t) \subseteq Nat /\ Announceable(P, is, u) \subseteq Nat
  BY <1>1 DEF Announceable
<1>4. N \in DOMAIN slots /\ N # P /\ slots[N].kind = "talk" /\ N \in Nat
  BY <1>1 DEF Announceable
<1>5. N \notin Announceable(P, is, u)
  <2> SUFFICES ASSUME N \in Announceable(P, is, u) PROVE FALSE
    OBVIOUS
  <2>1. M \in Announceable(P, is, u) /\ M <= N
    BY <1>3, FirstIs
  <2>2. M \in DOMAIN slots /\ M < N
    BY <1>3, <1>4, <2>1 DEF Announceable
  <2>3. ~Over(slots, M, u) => ~Over(slots, M, t)
    BY <1>1, <2>2 DEF Over, Time
  <2>4. M \in Announceable(P, was, t)
    BY <2>1, <2>2, <2>3 DEF Announceable
  <2>5. N <= M
    BY <1>3, <2>4, FirstIs
  <2> QED BY <1>3, <1>4, <2>1, <2>2, <2>5
<1>6. Over(slots, N, u) /\ N # jumpedOver
  BY <1>4, <1>5 DEF Announceable
<1>7. ASSUME NEW p \in DOMAIN slots, slots[p] = slots[P], N < p
      PROVE  \E k \in DOMAIN slots : N < k /\ k < p /\ slots[k].kind = "talk"
  <2>1. p = P
    BY <1>7, DayIs
  <2>2. before \subseteq 1..n /\ N \in before
    BY <1>2, <1>4, <1>7, <2>1
  <2>3. jumpedOver \in before /\ jumpedOver >= N
    BY <2>2, LastIs
  <2> QED BY <1>1, <1>4, <1>6, <2>1, <2>3
<1> QED BY <1>6, <1>7

\* A step that keeps the slots and the talk forced.
LEMMA NextStays ==
    ASSUME DayInv, StatusInv, now' \in Nat, now <= now', slots' = slots
    PROVE  LET after == RoomPosition(slots, now', statuses', pin') IN
           after.next # Position.next /\ after.pinned = Position.pinned
             => \A i \in DOMAIN slots : Position.next # NoSlot /\ slots[i] = Position.next =>
                   IF Position.pinned = NoSlot THEN slots[i].start <= now'
                   ELSE \/ StatusIn(statuses', slots[i].id) # "scheduled"
                        \/ \E j \in DOMAIN slots : j < i /\ PutBack(j)
                        \/ Over(slots, i, now') /\ ~JumpedOver(i)
<1> DEFINE after == RoomPosition(slots, now', statuses', pin')
           P == PinnedAt(slots, statuses, pin)
           Q == PinnedAt(slots, statuses', pin')
<1> SUFFICES ASSUME after.next # Position.next, after.pinned = Position.pinned,
                    NEW i \in DOMAIN slots, Position.next # NoSlot, slots[i] = Position.next
             PROVE  IF Position.pinned = NoSlot THEN slots[i].start <= now'
                    ELSE \/ StatusIn(statuses', slots[i].id) # "scheduled"
                         \/ \E j \in DOMAIN slots : j < i /\ PutBack(j)
                         \/ Over(slots, i, now') /\ ~JumpedOver(i)
  OBVIOUS
<1>0. now \in Nat /\ DOMAIN slots \subseteq Nat \ {0}
  BY DayIs DEF StatusInv, Ordered
<1>1. P # 0 => P \in DOMAIN slots /\ slots[P].kind = "talk" /\ slots[P] # NoSlot
  BY PinnedIs, TalksAreOwn
<1>2. Q # 0 => Q \in DOMAIN slots /\ slots[Q].kind = "talk" /\ slots[Q] # NoSlot
  <2> DEFINE ranks == {j \in DOMAIN slots : /\ slots[j].id = pin' /\ slots[j].kind = "talk"
                                            /\ StatusIn(statuses', pin') # "ended"}
  <2>1. Q = First(ranks) /\ ranks \subseteq Nat
    BY <1>0 DEF PinnedAt
  <2>2. Q # 0 => Q \in ranks
    BY <2>1, FirstIs
  <2> QED BY <2>2, TalksAreOwn
<1>3. CASE P = 0
  <2>1. Position.pinned = NoSlot /\ Position.next = At(slots, NextAt(slots, now))
    BY <1>3 DEF Position, RoomPosition
  <2>2. Q = 0
    BY <1>2, <2>1 DEF RoomPosition
  <2>3. after.next = At(slots, NextAt(slots, now'))
    BY <2>2 DEF RoomPosition
  <2>4. NextAt(slots, now') # NextAt(slots, now)
    BY <2>1, <2>3
  <2>5. NextAt(slots, now) \in DOMAIN slots /\ slots[NextAt(slots, now)] = slots[i]
    BY <2>1 DEF At
  <2>6. slots[NextAt(slots, now)].start <= now'
    BY <1>0, <2>4, <2>5, ClockKeepsNext
  <2> QED BY <2>1, <2>5, <2>6
<1>4. CASE P # 0
  <2> DEFINE N == First(Announceable(P, statuses, now))
  <2>1. Position.pinned = slots[P] /\ Position.next = At(slots, N)
    BY <1>4 DEF Position, RoomPosition, NextWithPinAt, Announceable
  <2>2. Q = P
    <3>1. Q # 0
      BY <1>1, <1>4, <2>1 DEF RoomPosition
    <3>2. after.pinned = slots[Q]
      BY <3>1 DEF RoomPosition
    <3> QED BY <1>1, <1>2, <1>4, <2>1, <3>1, <3>2, DayIs
  <2>3. after.next = At(slots, First(Announceable(P, statuses', now')))
    BY <1>4, <2>2 DEF RoomPosition, NextWithPinAt, Announceable
  <2>4. N \in DOMAIN slots /\ slots[N] = slots[i] /\ First(Announceable(P, statuses', now')) # N
    BY <2>1, <2>3 DEF At
  <2>5. N \in Announceable(P, statuses, now)
    <3>1. Announceable(P, statuses, now) \subseteq Nat
      BY <1>0 DEF Announceable
    <3> QED BY <1>0, <2>4, <3>1, FirstIs
  <2>6. i = N
    BY <2>4, <2>5, DayIs DEF Announceable
  <2> HIDE DEF N
  <2> SUFFICES ASSUME StatusIn(statuses', slots[N].id) = "scheduled",
                      ~\E j \in DOMAIN slots : j < N /\ PutBack(j)
               PROVE  Over(slots, N, now') /\ ~JumpedOver(N)
    BY <1>1, <1>4, <2>1, <2>6
  <2>7. \A j \in DOMAIN slots : j < N /\ StatusIn(statuses', slots[j].id) = "scheduled"
                                    => StatusIn(statuses, slots[j].id) = "scheduled"
    BY DEF PutBack
  <2>8. /\ Over(slots, N, now')
        /\ \A p \in DOMAIN slots : slots[p] = slots[P] /\ N < p =>
                \E k \in DOMAIN slots : N < k /\ k < p /\ slots[k].kind = "talk"
    <3>1. N = First(Announceable(P, statuses, now))
      BY DEF N
    <3> QED BY <1>0, <1>1, <1>4, <2>4, <2>5, <2>7, <3>1, PinKeepsNext
  <2> QED BY <2>1, <2>8 DEF JumpedOver
<1> QED BY <1>3, <1>4

\* What the rule of the shared breaks promises, of the slots given.
LEMMA BreaksFit ==
    ASSUME DayInv, Clear(export)
    PROVE  InheritedBreaksFit
<1> DEFINE program == Corrected(flipped)
           own == SessionsForRoom(program, Here)
<1>1. Scheduled(program) /\ Clear(program) /\ slots = Served(program, Here)
  BY CorrectedIsScheduled DEF DayInv
<1>2. ASSUME NEW i \in DOMAIN own
      PROVE  /\ i \in DOMAIN slots /\ slots[i] = own[i]
             /\ EffectiveEnd(slots, i) = EffectiveEnd(own, i)
             /\ \A k \in DOMAIN slots : slots[k].id \notin SlotIds =>
                    \/ slots[i].start >= EffectiveEnd(slots, k)
                    \/ Over(slots, i, slots[k].start)
  <2>1. i \in RanksOf(program, Here) /\ own[i] = program[i]
    BY DEF SessionsForRoom, Restrict
  <2>2. i \in DOMAIN slots /\ slots[i] = program[i]
    BY <1>1, <2>1 DEF Served, RanksOf
  <2>3. EffectiveEnd(own, i) = EndInRoom(program, i)
    BY <2>1 DEF EndInRoom, RanksOf
  <2>4. EffectiveEnd(slots, i) = EndInRoom(program, i)
    BY <1>1, <2>1, ServedFits
  <2>5. ASSUME NEW k \in DOMAIN slots, slots[k].id \notin SlotIds
        PROVE  slots[i].start >= EffectiveEnd(slots, k) \/ Over(slots, i, slots[k].start)
    <3>1. k \notin RanksOf(program, Here)
      <4> SUFFICES ASSUME k \in RanksOf(program, Here) PROVE slots[k].id \in SlotIds
        BY <2>5
      <4>1. slots[k] = program[k] /\ k \in DOMAIN program
        BY <1>1 DEF Served, RanksOf
      <4>2. k \in DOMAIN export /\ program[k].id = export[k].id
        BY <4>1, CorrectedIs DEF DayInv
      <4> QED BY <4>1, <4>2 DEF SlotIds
    <3>2. DOMAIN Served(program, Here) = RanksOf(program, Here) \cup Inherited(program, Here)
      BY ServedRanks
    <3> HIDE DEF program
    <3>3. k \in Inherited(program, Here)
      BY <1>1, <2>5, <3>1, <3>2
    <3> QED BY <1>1, <2>1, <3>3, ServedFits
  <2> QED BY <2>1, <2>2, <2>3, <2>4, <2>5
<1> QED BY <1>2 DEF InheritedBreaksFit
-----------------------------------------------------------------------------
\* What is left to do of a start, of an end.
StartSequences ==
    {<<"recording.start", "session.start", "scene.set">>, <<"session.start", "scene.set">>, <<"scene.set">>}
EndSequences == {<<"recording.stop", "session.end">>, <<"session.end">>}

\* Where a sequence is, and what its first step left.
FlowInv ==
    /\ flow \in [at : {"idle", "early", "take", "steps"}, way : {"start", "end"},
                 steps : {<<>>} \cup StartSequences \cup EndSequences, taken : BOOLEAN]
    /\ flow.at # "steps" => flow.steps = <<>>
    /\ flow.at = "steps" =>
        \/ /\ flow.way = "start" /\ flow.steps \in StartSequences
           /\ flow.taken => Head(flow.steps) = "recording.start" \/ take.on
        \/ /\ flow.way = "end" /\ flow.steps \in EndSequences
           /\ flow.taken => Head(flow.steps) = "recording.stop" \/ ~take.on

\* A step done leaves such a sequence, or nothing.
LEMMA Sequences ==
    /\ \A s \in StartSequences \cup EndSequences : s # <<>>
    /\ \A s \in StartSequences : /\ Head(s) \notin {"recording.stop", "session.end"}
                                 /\ Len(s) # 1 => Tail(s) \in StartSequences /\ Head(Tail(s)) # "recording.start"
    /\ \A s \in EndSequences : /\ Head(s) \in {"recording.stop", "session.end"}
                               /\ Len(s) # 1 => Tail(s) \in EndSequences /\ Head(Tail(s)) # "recording.stop"
    /\ StartSteps(TRUE) \in StartSequences /\ Head(StartSteps(TRUE)) = "recording.start"
    /\ StartSteps(FALSE) \in StartSequences
    /\ EndSteps(TRUE) \in EndSequences /\ Head(EndSteps(TRUE)) = "recording.stop"
    /\ EndSteps(FALSE) \in EndSequences
<1>1. /\ Tail(<<"recording.start", "session.start", "scene.set">>) = <<"session.start", "scene.set">>
      /\ Tail(<<"session.start", "scene.set">>) = <<"scene.set">>
      /\ Tail(<<"recording.stop", "session.end">>) = <<"session.end">>
  OBVIOUS
<1>2. /\ Len(<<"scene.set">>) = 1 /\ Len(<<"session.end">>) = 1
      /\ Head(<<"recording.start", "session.start", "scene.set">>) = "recording.start"
      /\ Head(<<"session.start", "scene.set">>) = "session.start"
      /\ Head(<<"scene.set">>) = "scene.set"
      /\ Head(<<"recording.stop", "session.end">>) = "recording.stop"
      /\ Head(<<"session.end">>) = "session.end"
  OBVIOUS
<1>3. \A s \in StartSequences \cup EndSequences : s # <<>>
  BY DEF StartSequences, EndSequences
<1>4. \A s \in StartSequences : /\ Head(s) \notin {"recording.stop", "session.end"}
                                /\ Len(s) # 1 => Tail(s) \in StartSequences /\ Head(Tail(s)) # "recording.start"
  BY <1>1, <1>2 DEF StartSequences
<1>5. \A s \in EndSequences : /\ Head(s) \in {"recording.stop", "session.end"}
                              /\ Len(s) # 1 => Tail(s) \in EndSequences /\ Head(Tail(s)) # "recording.stop"
  BY <1>1, <1>2 DEF EndSequences
<1>6. /\ StartSteps(TRUE) \in StartSequences /\ Head(StartSteps(TRUE)) = "recording.start"
      /\ StartSteps(FALSE) \in StartSequences
      /\ EndSteps(TRUE) \in EndSequences /\ Head(EndSteps(TRUE)) = "recording.stop"
      /\ EndSteps(FALSE) \in EndSequences
  BY <1>2 DEF StartSteps, EndSteps, StartSequences, EndSequences
<1> QED BY <1>3, <1>4, <1>5, <1>6

LEMMA IdleFlow == flow' = Idle => FlowInv'
BY DEF FlowInv, Idle

LEMMA AskingFlow ==
    ASSUME NEW q \in {"early", "take"}, NEW w \in {"start", "end"},
           flow' = [Idle EXCEPT !.at = q, !.way = w]
    PROVE  FlowInv'
<1>1. flow' = [at |-> q, way |-> w, steps |-> <<>>, taken |-> FALSE]
  BY DEF Idle
<1>2. /\ flow' \in [at : {"idle", "early", "take", "steps"}, way : {"start", "end"},
                   steps : {<<>>} \cup StartSequences \cup EndSequences, taken : BOOLEAN]
      /\ flow'.at # "steps" /\ flow'.steps = <<>>
  BY <1>1 DEF Idle
<1> QED BY <1>2 DEF FlowInv

LEMMA LaunchedFlow ==
    ASSUME NEW way \in {"start", "end"}, NEW yes \in BOOLEAN, Launch(way, yes)
    PROVE  FlowInv'
<1>1. CASE way = "start"
  <2>1. flow' = [at |-> "steps", way |-> "start", taken |-> yes, steps |-> StartSteps(yes)]
    BY <1>1 DEF Launch
  <2>2. StartSteps(yes) \in StartSequences /\ (yes => Head(StartSteps(yes)) = "recording.start")
    BY Sequences
  <2> QED BY <2>1, <2>2 DEF FlowInv
<1>2. CASE way = "end"
  <2>1. flow' = [at |-> "steps", way |-> "end", taken |-> yes, steps |-> EndSteps(yes)]
    BY <1>2 DEF Launch
  <2>2. EndSteps(yes) \in EndSequences /\ (yes => Head(EndSteps(yes)) = "recording.stop")
    BY Sequences
  <2> QED BY <2>1, <2>2 DEF FlowInv
<1> QED BY <1>1, <1>2

LEMMA ProceededFlow ==
    ASSUME FlowInv, flow.at = "steps", Proceeds,
           flow.taken => (flow.way = "start" /\ take'.on) \/ (flow.way = "end" /\ ~take'.on)
    PROVE  FlowInv'
<1>1. CASE Len(flow.steps) = 1
  BY <1>1, IdleFlow DEF Proceeds
<1>2. CASE Len(flow.steps) # 1
  <2>1. flow' = [flow EXCEPT !.steps = Tail(@)]
    BY <1>2 DEF Proceeds
  <2>2. /\ flow'.at = "steps" /\ flow'.way = flow.way /\ flow'.taken = flow.taken
        /\ flow'.steps = Tail(flow.steps)
        /\ Tail(flow.steps) \in StartSequences \cup EndSequences => flow' \in
                [at : {"idle", "early", "take", "steps"}, way : {"start", "end"},
                 steps : {<<>>} \cup StartSequences \cup EndSequences, taken : BOOLEAN]
    BY <2>1 DEF FlowInv
  <2>3. CASE flow.way = "start"
    <3>1. Tail(flow.steps) \in StartSequences
      BY <1>2, <2>3, Sequences DEF FlowInv
    <3> QED BY <2>2, <2>3, <3>1 DEF FlowInv
  <2>4. CASE flow.way = "end"
    <3>1. Tail(flow.steps) \in EndSequences
      BY <1>2, <2>4, Sequences DEF FlowInv
    <3> QED BY <2>2, <2>4, <3>1 DEF FlowInv
  <2> QED BY <2>3, <2>4 DEF FlowInv
<1> QED BY <1>1, <1>2

\* What a step of the sequence knows of the take.
LEMMA TakeIsDone ==
    ASSUME FlowInv, flow.at = "steps", flow.taken
    PROVE  /\ Head(flow.steps) \in {"session.start", "scene.set"} => flow.way = "start" /\ take.on
           /\ Head(flow.steps) = "session.end" => flow.way = "end" /\ ~take.on
           /\ Head(flow.steps) = "recording.start" => flow.way = "start"
           /\ Head(flow.steps) = "recording.stop" => flow.way = "end"
<1>1. CASE flow.way = "start"
  <2>1. flow.steps \in StartSequences /\ (Head(flow.steps) = "recording.start" \/ take.on)
    BY <1>1 DEF FlowInv
  <2> QED BY <1>1, <2>1, Sequences
<1>2. CASE flow.way = "end"
  <2>1. flow.steps \in EndSequences /\ (Head(flow.steps) = "recording.stop" \/ ~take.on)
    BY <1>2 DEF FlowInv
  <2> QED BY <1>2, <2>1, Sequences
<1> QED BY <1>1, <1>2 DEF FlowInv

\* Only a hand on the recording moves the take while a sequence runs, and it says so.
LEMMA FlowStep ==
    ASSUME FlowInv, [DrivingNext]_drivingVars
    PROVE  FlowInv'
<1> USE DEF obsVars
<1>1. CASE UNCHANGED <<flow, take>>
  BY <1>1 DEF FlowInv
<1>2. CASE Tick \/ Sweep \/ Lift \/ HubLost \/ HubBack \/ LeaveAir
  BY <1>1, <1>2 DEF Tick, Sweep, Lift, HubLost, HubBack, LeaveAir
<1>3. CASE \/ \E t \in Own : Reset(t) \/ PinTalk(t) \/ \E way \in {"start", "end"} : Decide(t, way)
           \/ \E t \in SlotIds : Override(t)
  BY <1>1, <1>3 DEF Reset, PinTalk, Decide, Override
<1>4. CASE RecordByHand
  BY <1>4 DEF RecordByHand, FlowInv
<1>5. ASSUME NEW way \in {"start", "end"}, Proceed(way) PROVE FlowInv'
  <2>1. CASE AsksTake(way)
    <3>1. flow' = [Idle EXCEPT !.at = "take", !.way = way]
      BY <1>5, <2>1 DEF Proceed
    <3> QED BY <3>1, AskingFlow
  <2>2. CASE ~AsksTake(way)
    BY <1>5, <2>2, LaunchedFlow DEF Proceed
  <2> QED BY <2>1, <2>2
<1>6. ASSUME NEW way \in {"start", "end"}, Press(way) PROVE FlowInv'
  <2>1. flow' = [Idle EXCEPT !.at = "early", !.way = way] \/ Proceed(way)
    BY <1>6 DEF Press
  <2> QED BY <1>5, <2>1, AskingFlow
<1>7. CASE Confirm
  BY <1>5, <1>7 DEF Confirm, FlowInv
<1>8. ASSUME NEW yes \in BOOLEAN, AnswerTake(yes) PROVE FlowInv'
  BY <1>8, LaunchedFlow DEF AnswerTake, FlowInv
<1>9. CASE Cancel
  BY <1>9, IdleFlow DEF Cancel
<1>10. CASE StartTake
  <2>1. flow.at = "steps" /\ Head(flow.steps) = "recording.start" /\ (Stops \/ (take'.on /\ Proceeds))
    BY <1>10 DEF StartTake, Step
  <2> QED BY <2>1, IdleFlow, ProceededFlow, TakeIsDone DEF Stops
<1>11. CASE StopTake
  <2>1. flow.at = "steps" /\ Head(flow.steps) = "recording.stop" /\ (Stops \/ (~take'.on /\ Proceeds))
    BY <1>11 DEF StopTake, Step
  <2> QED BY <2>1, IdleFlow, ProceededFlow, TakeIsDone DEF Stops
<1>12. ASSUME NEW way \in {"start", "end"}, DecideTarget(way) PROVE FlowInv'
  <2>1. /\ flow.at = "steps" /\ Head(flow.steps) \in {"session.start", "session.end"}
        /\ Proceeds /\ take' = take
    BY <1>12 DEF DecideTarget, Step
  <2> QED BY <2>1, ProceededFlow, TakeIsDone
<1>13. CASE SetScene
  <2>1. flow.at = "steps" /\ Head(flow.steps) = "scene.set" /\ Proceeds /\ take' = take
    BY <1>13 DEF SetScene, Step
  <2> QED BY <2>1, ProceededFlow, TakeIsDone
<1>14. CASE UNCHANGED drivingVars
  BY <1>1, <1>14 DEF drivingVars
<1>15. CASE Others
  BY <1>2, <1>3, <1>4, <1>15 DEF Others
<1>16. CASE Surface
  BY <1>6, <1>7, <1>8, <1>9, <1>10, <1>11, <1>12, <1>13, <1>16 DEF Surface
<1> QED BY <1>2, <1>14, <1>15, <1>16 DEF DrivingNext
-----------------------------------------------------------------------------
\* What a step changes, and which steps change it.
LEMMA Changes ==
    ASSUME [DrivingNext]_drivingVars
    PROVE  /\ export' = export
           /\ UNCHANGED <<flipped, slots>> \/ \E t \in SlotIds : Override(t)
           /\ now' = now \/ (now < MaxTime /\ now' = now + 1)
           /\ hub' \in {hub, TRUE, FALSE}
           /\ \/ UNCHANGED take
              \/ take' = [on |-> FALSE, of |-> NoSlot]
              \/ \E t : take' = [on |-> TRUE, of |-> t]
           /\ \/ UNCHANGED statuses /\ pin' \in {pin, NoSlot} \cup Own
              \/ Sweep
              \/ \E t \in Own : Reset(t) \/ \E way \in {"start", "end"} : Decide(t, way)
              \/ \E way \in {"start", "end"} : DecideTarget(way)
<1> USE DEF DrivingNext, Others, Surface, drivingVars, dayVars, obsVars, Tick, PinTalk, Lift, HubLost, HubBack,
            RecordByHand, LeaveAir, Press, Confirm, AnswerTake, Cancel, StartTake, StopTake, SetScene
<1>1. UNCHANGED <<export, flipped, slots>> \/ \E t \in SlotIds : Override(t)
  BY DEF Sweep, Decide, Reset, DecideTarget
<1>2. export' = export
  BY <1>1 DEF Override
<1>3. now' = now \/ (now < MaxTime /\ now' = now + 1)
  BY DEF Sweep, Decide, Reset, DecideTarget, Override
<1>4. hub' \in {hub, TRUE, FALSE}
  BY DEF Sweep, Decide, Reset, DecideTarget, Override
<1>5. \/ UNCHANGED take
      \/ take' = [on |-> FALSE, of |-> NoSlot]
      \/ \E t : take' = [on |-> TRUE, of |-> t]
  BY DEF Sweep, Decide, Reset, DecideTarget, Override
<1>6. \/ UNCHANGED statuses /\ pin' \in {pin, NoSlot} \cup Own
      \/ Sweep
      \/ \E t \in Own : Reset(t) \/ \E way \in {"start", "end"} : Decide(t, way)
      \/ \E way \in {"start", "end"} : DecideTarget(way)
  BY DEF Override
<1> QED BY <1>1, <1>2, <1>3, <1>4, <1>5, <1>6

\* The day and the lifecycle stay what they are.
LEMMA DayStep ==
    ASSUME DayInv, StatusInv, [DrivingNext]_drivingVars
    PROVE  /\ DayInv' /\ StatusInv'
           /\ Clear(export) => Clear(export)'
<1>1. export' = export
  BY Changes
<1>2. UNCHANGED <<flipped, slots>> \/ \E t \in SlotIds : Override(t)
  BY Changes
<1>3. DayInv'
  <2>1. slots' = Served(Corrected(flipped), Here)'
    <3>1. CASE UNCHANGED <<flipped, slots>>
      BY <1>1, <3>1 DEF DayInv, Corrected
    <3>2. ASSUME NEW t \in SlotIds, Override(t) PROVE slots' = Served(Corrected(flipped), Here)'
      BY <1>1, <3>2 DEF Override, Corrected
    <3> QED BY <1>2, <3>1, <3>2
  <2> QED BY <1>1, <2>1 DEF DayInv
<1>4. now' \in Nat
  <2>1. now' = now \/ now' = now + 1
    BY Changes
  <2> QED BY <2>1 DEF StatusInv
<1>5. \A t \in DOMAIN statuses' : statuses'[t] \in {"running", "ended"}
  <2>1. ASSUME NEW t, NEW s \in {"scheduled", "running", "ended"}, Write(t, s)
        PROVE  \A u \in DOMAIN statuses' : statuses'[u] \in {"running", "ended"}
    <3>1. CASE s = "scheduled"
      BY <2>1, <3>1 DEF Write, StatusInv
    <3>2. CASE s # "scheduled"
      BY <2>1, <3>2 DEF Write, StatusInv
    <3> QED BY <3>1, <3>2
  <2>2. CASE Sweep
    BY <2>2 DEF Sweep, StatusInv
  <2>3. ASSUME NEW t \in Own, NEW way \in {"start", "end"}, Decide(t, way)
        PROVE  \A u \in DOMAIN statuses' : statuses'[u] \in {"running", "ended"}
    BY <2>1, <2>3 DEF Decide
  <2>4. ASSUME NEW t \in Own, Reset(t)
        PROVE  \A u \in DOMAIN statuses' : statuses'[u] \in {"running", "ended"}
    BY <2>1, <2>4 DEF Reset
  <2>5. ASSUME NEW way \in {"start", "end"}, DecideTarget(way)
        PROVE  \A u \in DOMAIN statuses' : statuses'[u] \in {"running", "ended"}
    <3>1. CASE UNCHANGED statuses
      BY <3>1 DEF StatusInv
    <3>2. CASE Write(Target.id, IF way = "start" THEN "running" ELSE "ended")
      <4> DEFINE id == Target.id
      <4>1. Write(id, IF way = "start" THEN "running" ELSE "ended")
        BY <3>2
      <4> HIDE DEF id
      <4> QED BY <2>1, <4>1
    <3> QED BY <2>5, <3>1, <3>2 DEF DecideTarget
  <2>6. CASE UNCHANGED statuses
    BY <2>6 DEF StatusInv
  <2>7. \/ Sweep \/ UNCHANGED statuses
        \/ \E t \in Own : Reset(t) \/ \E way \in {"start", "end"} : Decide(t, way)
        \/ \E way \in {"start", "end"} : DecideTarget(way)
    BY Changes
  <2> QED BY <2>2, <2>3, <2>4, <2>5, <2>6, <2>7
<1> QED BY <1>1, <1>3, <1>4, <1>5 DEF Clear, StatusInv

LEMMA DayBegins ==
    ASSUME DrivingInit
    PROVE  DayInv /\ StatusInv /\ FlowInv
<1>1. Scheduled(export)
  BY ProgrammesAssumption DEF DrivingInit
<1>2. Corrected({}) = export
  <2>1. \A i \in DOMAIN export : Corrected({})[i] = export[i]
    BY DEF Corrected
  <2>2. export \in Seq(Slot)
    BY <1>1 DEF Scheduled
  <2>3. Len(export) \in Nat /\ export \in [1..Len(export) -> Slot]
    BY <2>2, LenProperties
  <2> QED BY <2>3 DEF Corrected
<1>3. DayInv
  BY <1>1, <1>2 DEF DayInv, DrivingInit
<1>4. StatusInv
  BY DEF StatusInv, DrivingInit
<1>5. FlowInv
  BY DEF FlowInv, DrivingInit, Idle
<1> QED BY <1>3, <1>4, <1>5

TakeInv == take.on \in BOOLEAN

LEMMA TakeStep ==
    ASSUME TakeInv, [DrivingNext]_drivingVars
    PROVE  TakeInv'
<1>1. \/ UNCHANGED take
      \/ take' = [on |-> FALSE, of |-> NoSlot]
      \/ \E t : take' = [on |-> TRUE, of |-> t]
  BY Changes
<1>2. ASSUME NEW on \in BOOLEAN, NEW t, take' = [on |-> on, of |-> t] PROVE take'.on \in BOOLEAN
  BY <1>2
<1>3. CASE UNCHANGED take
  BY <1>3 DEF TakeInv
<1>4. CASE take' = [on |-> FALSE, of |-> NoSlot] \/ \E t : take' = [on |-> TRUE, of |-> t]
  BY <1>2, <1>4 DEF TakeInv
<1> QED BY <1>1, <1>3, <1>4

\* A decision taken by the sequence finds the take where it asked for it.
LEMMA TakeFirst ==
    ASSUME FlowInv, TakeInv, DrivingNext, flow.at = "steps", flow.taken, statuses' # statuses, flow' # flow
    PROVE  take.on = (flow.way = "start")
<1>1. PICK way \in {"start", "end"} : DecideTarget(way)
  BY Changes DEF Sweep, Reset, Decide
<1>2. Head(flow.steps) \in {"session.start", "session.end"}
  BY <1>1 DEF DecideTarget, Step
<1>3. CASE Head(flow.steps) = "session.start"
  BY <1>3, TakeIsDone DEF TakeInv
<1>4. CASE Head(flow.steps) = "session.end"
  BY <1>4, TakeIsDone DEF TakeInv
<1> QED BY <1>2, <1>3, <1>4

\* The state every step keeps.
DrivingInv == DayInv /\ StatusInv /\ FlowInv /\ TakeInv

LEMMA DrivingStep == DrivingInv /\ [DrivingNext]_drivingVars => DrivingInv'
BY DayStep, FlowStep, TakeStep DEF DrivingInv

LEMMA DrivingStarts == DrivingInit => DrivingInv
BY DayBegins DEF DrivingInv, TakeInv, DrivingInit

\* What the buttons aim at is a talk of the programme.
LEMMA TargetIs ==
    ASSUME DayInv, now \in Nat, Target # NoSlot
    PROVE  Target.id \in SlotIds
<1> DEFINE P == PinnedAt(slots, statuses, pin)
           C == CurrentAt(slots, now)
           A == OnAirAt(slots, statuses)
           N == NextTalkAt(slots, now, statuses)
           T == TargetAt(slots, now, statuses, pin)
<1>1. Target = At(slots, T)
  <2>1. CASE P # 0
    <3>1. P \in DOMAIN slots
      BY <2>1, PinnedIs
    <3> QED BY <2>1, <3>1 DEF Target, Position, RoomPosition, TargetAt, At
  <2>2. CASE P = 0
    BY <2>2 DEF Target, Position, RoomPosition
  <2> QED BY <2>1, <2>2
<1>2. T \in DOMAIN slots /\ Target = slots[T]
  BY <1>1 DEF At
<1>3. slots[T].kind = "talk"
  <2>1. T = IF P # 0 THEN P ELSE IF C # 0 /\ slots[C].kind = "talk" THEN C ELSE IF A # 0 THEN A ELSE N
    BY DEF TargetAt
  <2>2. 0 \notin DOMAIN slots
    BY DayIs DEF Ordered
  <2>3. N # 0 => slots[N].kind = "talk"
    BY NextTalkIs
  <2> HIDE DEF T, N
  <2> QED BY <1>2, <2>1, <2>2, <2>3, PinnedIs, OnAirIs
<1>4. T \in DOMAIN export /\ slots[T].id = export[T].id
  <2> HIDE DEF T
  <2> QED BY <1>2, <1>3, TalksAreOwn
<1> QED BY <1>2, <1>4 DEF SlotIds

\* Only the hub writes lifecycles and pins, and only of slots of the programme.
LEMMA TypeStep ==
    ASSUME DrivingInv, DrivingTypeOK, [DrivingNext]_drivingVars
    PROVE  DrivingTypeOK'
<1>1. export' = export
  BY Changes
<1>2. SlotIds' = SlotIds /\ Own \subseteq SlotIds
  BY <1>1 DEF SlotIds, Own
<1>3. flipped' \subseteq SlotIds
  BY Changes DEF Override, DrivingTypeOK
<1>4. now' \in 0 .. MaxTime
  <2>1. now' = now \/ (now < MaxTime /\ now' = now + 1)
    BY Changes
  <2> QED BY <2>1, DrivingAssumption DEF DrivingTypeOK
<1>5. hub' \in BOOLEAN
  BY Changes DEF DrivingTypeOK
<1>6. take'.on \in BOOLEAN /\ (~take'.on => take'.of = NoSlot)
  <2>1. \/ UNCHANGED take
        \/ take' = [on |-> FALSE, of |-> NoSlot]
        \/ \E t : take' = [on |-> TRUE, of |-> t]
    BY Changes
  <2>2. CASE UNCHANGED take
    BY <2>2 DEF DrivingTypeOK
  <2>3. CASE take' = [on |-> FALSE, of |-> NoSlot]
    BY <2>3
  <2>4. CASE \E t : take' = [on |-> TRUE, of |-> t]
    BY <2>4
  <2> QED BY <2>1, <2>2, <2>3, <2>4
<1>7. flow'.at \in {"idle", "early", "take", "steps"} /\ ((flow'.at = "steps") <=> (flow'.steps # <<>>))
  <2>1. FlowInv'
    BY FlowStep DEF DrivingInv
  <2> QED BY <2>1, Sequences DEF FlowInv
<1>8. DOMAIN statuses' \subseteq SlotIds /\ pin' \in SlotIds \cup {NoSlot}
  <2>1. ASSUME NEW t \in SlotIds, NEW s, Write(t, s)
        PROVE  DOMAIN statuses' \subseteq SlotIds /\ pin' \in SlotIds \cup {NoSlot}
    <3>1. pin' \in SlotIds \cup {NoSlot}
      BY <2>1 DEF Write, DrivingTypeOK
    <3>2. DOMAIN statuses' = DOMAIN statuses \ {t} \/ DOMAIN statuses' = DOMAIN statuses \cup {t}
      BY <2>1 DEF Write
    <3> QED BY <3>1, <3>2 DEF DrivingTypeOK
  <2>2. CASE Sweep
    BY <2>2 DEF Sweep, DrivingTypeOK
  <2>3. ASSUME NEW t \in Own, Reset(t) \/ \E way \in {"start", "end"} : Decide(t, way)
        PROVE  DOMAIN statuses' \subseteq SlotIds /\ pin' \in SlotIds \cup {NoSlot}
    BY <1>2, <2>1, <2>3 DEF Reset, Decide
  <2>4. ASSUME NEW way \in {"start", "end"}, DecideTarget(way)
        PROVE  DOMAIN statuses' \subseteq SlotIds /\ pin' \in SlotIds \cup {NoSlot}
    <3> DEFINE id == Target.id
    <3>1. CASE UNCHANGED <<statuses, pin>>
      BY <3>1 DEF DrivingTypeOK
    <3>2. CASE Target # NoSlot /\ Write(id, IF way = "start" THEN "running" ELSE "ended")
      <4>1. id \in SlotIds
        BY <3>2, TargetIs DEF DrivingInv, StatusInv
      <4> HIDE DEF id
      <4> QED BY <2>1, <3>2, <4>1
    <3> QED BY <2>4, <3>1, <3>2 DEF DecideTarget
  <2>5. CASE UNCHANGED statuses /\ pin' \in {pin, NoSlot} \cup Own
    BY <1>2, <2>5 DEF DrivingTypeOK
  <2>6. \/ UNCHANGED statuses /\ pin' \in {pin, NoSlot} \cup Own
        \/ Sweep
        \/ \E t \in Own : Reset(t) \/ \E way \in {"start", "end"} : Decide(t, way)
        \/ \E way \in {"start", "end"} : DecideTarget(way)
    BY Changes
  <2> QED BY <2>2, <2>3, <2>4, <2>5, <2>6
<1>9. StatusInv'
  BY DayStep DEF DrivingInv
<1> QED BY <1>2, <1>3, <1>4, <1>5, <1>6, <1>7, <1>8, <1>9 DEF DrivingTypeOK, StatusInv

\* Type correctness: decisions, pins and lifecycles are of slots of the programme,
\* and a sequence has steps left exactly while it runs.
THEOREM DrivingTypes == DrivingSpec => []DrivingTypeOK
<1> DEFINE Typed == DrivingInv /\ DrivingTypeOK
<1>1. DrivingInit => Typed
  <2> SUFFICES ASSUME DrivingInit PROVE Typed
    OBVIOUS
  <2>1. DrivingInv
    BY DrivingStarts
  <2> QED BY <2>1, DrivingAssumption DEF DrivingTypeOK, DrivingInit, Idle
<1>2. Typed /\ [DrivingNext]_drivingVars => Typed'
  BY DrivingStep, TypeStep
<1> QED BY <1>1, <1>2, PTL DEF DrivingSpec

\* What a room announces next stays announced until its turn: on any programme,
\* whatever the clock, the console, the sweep and the surface do.
THEOREM NextIsAnnouncedUntilItsTurn == DrivingSpec => AnnouncedUntilItsTurn
<1> DEFINE Kept ==
        LET after == RoomPosition(slots, now', statuses', pin') IN
        slots' = slots /\ after.next # Position.next /\ after.pinned = Position.pinned
          => \A i \in DOMAIN slots : Position.next # NoSlot /\ slots[i] = Position.next =>
                IF Position.pinned = NoSlot THEN slots[i].start <= now'
                ELSE \/ StatusIn(statuses', slots[i].id) # "scheduled"
                     \/ \E j \in DOMAIN slots : j < i /\ PutBack(j)
                     \/ Over(slots, i, now') /\ ~JumpedOver(i)
<1>1. DrivingInv /\ [DrivingNext]_drivingVars => [Kept]_drivingVars
  <2> SUFFICES ASSUME DrivingInv, DrivingNext, slots' = slots PROVE Kept
    OBVIOUS
  <2>1. DayInv /\ StatusInv /\ now \in Nat
    BY DEF DrivingInv, StatusInv
  <2>2. now' = now + 1 \/ now' = now
    BY Changes
  <2>3. now' \in Nat /\ now <= now'
    BY <2>1, <2>2
  <2> QED BY <2>1, <2>3, NextStays
<1> QED BY <1>1, DrivingStarts, DrivingStep, PTL DEF DrivingSpec, AnnouncedUntilItsTurn

\* On programmes whose slots last and do not overlap in a room, the badge of a
\* room and the buttons of its control app agree at every moment.
THEOREM BadgeAlwaysAgrees ==
    ASSUME \A program \in Programmes : Clear(program)
    PROVE  DrivingSpec => []BadgeAgreesWithTarget
<1> DEFINE Agrees == DrivingInv /\ Clear(export)
<1>1. DrivingInit => Agrees
  BY DrivingStarts DEF DrivingInit
<1>2. Agrees /\ [DrivingNext]_drivingVars => Agrees'
  BY DrivingStep, DayStep DEF DrivingInv
<1>3. Agrees => BadgeAgreesWithTarget
  BY BadgeAgrees DEF DrivingInv
<1> QED BY <1>1, <1>2, <1>3, PTL DEF DrivingSpec

\* On such programmes, no decision of the console makes a room inherit a break
\* that covers a slot of its own or moves its end.
THEOREM BreaksAlwaysFit ==
    ASSUME \A program \in Programmes : Clear(program)
    PROVE  DrivingSpec => []InheritedBreaksFit
<1> DEFINE Fits == DrivingInv /\ Clear(export)
<1>1. DrivingInit => Fits
  BY DrivingStarts DEF DrivingInit
<1>2. Fits /\ [DrivingNext]_drivingVars => Fits'
  BY DrivingStep, DayStep DEF DrivingInv
<1>3. Fits => InheritedBreaksFit
  BY BreaksFit DEF DrivingInv
<1> QED BY <1>1, <1>2, <1>3, PTL DEF DrivingSpec

\* A talk started by a sequence asked with its take is recorded as it starts, and
\* one ended by it is no longer: whatever is pressed by hand meanwhile.
THEOREM TakeAlwaysGoesFirst == DrivingSpec => TakeGoesFirst
<1>1. DrivingInv /\ [DrivingNext]_drivingVars =>
        [flow.at = "steps" /\ flow.taken /\ statuses' # statuses /\ flow' # flow
            => take.on = (flow.way = "start")]_drivingVars
  <2> SUFFICES ASSUME DrivingInv, DrivingNext, flow.at = "steps", flow.taken, statuses' # statuses, flow' # flow
               PROVE  take.on = (flow.way = "start")
    OBVIOUS
  <2> QED BY TakeFirst DEF DrivingInv
<1> QED BY <1>1, DrivingStarts, DrivingStep, PTL DEF DrivingSpec, TakeGoesFirst
=============================================================================
