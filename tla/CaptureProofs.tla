---------------------------- MODULE CaptureProofs ----------------------------
(***************************************************************************)
(* Theorems about Capture, for any calls and any numbers of takes, parts   *)
(* and breaks.                                                             *)
(***************************************************************************)
EXTENDS Capture, SequenceTheorems, TLAPS

-----------------------------------------------------------------------------
(***************************************************************************)
(* Types.                                                                  *)
(***************************************************************************)

SomeTake == 0..MaxTakes
SomeFile == Files \cup {NoFile}
Call == [phase : Phases, path : Paths, take : SomeTake]
Request == [call : Calls, what : {"start", "stop"}]
Message == [type : {"reply"}, call : Calls, ok : BOOLEAN, take : SomeTake]
               \cup [type : {"record"}, active : BOOLEAN, file : Files, take : SomeTake]
               \cup [type : {"file"}, file : Files, take : SomeTake]
               \cup {StatusRead}

Types ==
    /\ obs \in {"off", "on", "stopping"} /\ (obs # "off" => Now # 0)
    /\ parts \in Seq(1..MaxParts) /\ Now <= MaxTakes
    /\ asked \subseteq Request /\ wire \in Seq(Message)
    /\ ~Connected => wire = <<>> /\ asked = {}
    /\ link \in {"lost", "down", "reading", "up"} /\ status \in BOOLEAN
    /\ open \in SomeTake /\ segments \in [Takes -> Seq(Files)] /\ announced \in SomeFile
    /\ recording \in BOOLEAN /\ pending \in Calls \cup {NoCall} /\ closing \in BOOLEAN
    /\ call \in [Everyone -> Call]
    /\ DOMAIN sidecars = Takes
    /\ breaks \in 0..MaxBreaks /\ missed \subseteq SomeTake

LEMMA Numbers ==
    ASSUME Types
    PROVE  /\ MaxTakes \in Nat /\ MaxParts \in Nat /\ MaxParts >= 1 /\ MaxBreaks \in Nat
           /\ Now \in Nat /\ Now \in SomeTake
BY BoundsAssumption, LenProperties DEF Types, Now, SomeTake

\* What is said of a recording is a message, and bears its take.
LEMMA Messages ==
    ASSUME Types
    PROVE  /\ StatusRead \in Message /\ StatusRead.type = "status"
           /\ \A c \in Calls, ok \in BOOLEAN :
                 Reply(c, ok) \in Message /\ Reply(c, ok).type = "reply" /\ Reply(c, ok).call = c
                 /\ Reply(c, ok).ok = ok /\ Reply(c, ok).take = Now
           /\ \A on \in BOOLEAN, f \in Files :
                 RecordState(on, f) \in Message /\ RecordState(on, f).type = "record"
           /\ \A f \in Files : RecordFile(f) \in Message /\ RecordFile(f).type = "file"
<1>1. \A f \in Files : f.take \in SomeTake
  BY Numbers DEF Files, SomeTake
<1>2. Now \in SomeTake
  BY Numbers
<1> QED BY <1>1, <1>2 DEF Message, StatusRead, Reply, RecordState, RecordFile

\* What is heard, by its type.
LEMMA MessageIs ==
    ASSUME NEW m \in Message
    PROVE  /\ m.take \in SomeTake \/ m = StatusRead
           /\ m.type = "reply" => m.call \in Calls /\ m.ok \in BOOLEAN /\ m.take \in SomeTake
           /\ m.type = "record" => m.active \in BOOLEAN /\ m.file \in Files
           /\ m.type = "file" => m.file \in Files
           /\ m.type \in {"reply", "record", "file", "status"}
BY DEF Message, StatusRead

LEMMA FileIs ==
    ASSUME Types, obs # "off"
    PROVE  /\ Now \in 1..Len(parts) /\ parts[Now] \in 1..MaxParts
           /\ \A part \in 1..MaxParts : File(Now, part) \in Files
<1>1. Now \in 1..Len(parts)
  BY Numbers DEF Types, Now
<1>2. parts[Now] \in 1..MaxParts
  BY <1>1, ElementOfSeq DEF Types
<1>3. Now \in 1..MaxTakes
  BY Numbers DEF Types
<1> QED BY <1>1, <1>2, <1>3 DEF File, Files

LEMMA RangeIs ==
    ASSUME NEW s \in Seq(Message)
    PROVE  /\ Range(s) \subseteq Message
           /\ s # <<>> => Head(s) \in Range(s) /\ Tail(s) \in Seq(Message) /\ Range(Tail(s)) \subseteq Range(s)
           /\ \A m \in Message : Append(s, m) \in Seq(Message) /\ Range(Append(s, m)) \subseteq Range(s) \cup {m}
           /\ \A t \in Seq(Message) : s \o t \in Seq(Message) /\ Range(s \o t) \subseteq Range(s) \cup Range(t)
<1>1. Range(s) \subseteq Message
  BY DEF Range
<1>2. ASSUME s # <<>>
      PROVE  Head(s) \in Range(s) /\ Tail(s) \in Seq(Message) /\ Range(Tail(s)) \subseteq Range(s)
  <2>1. /\ Tail(s) \in Seq(Message) /\ Len(s) \in Nat /\ Len(Tail(s)) = Len(s) - 1 /\ Len(s) >= 1
        /\ \A i \in 1..Len(Tail(s)) : Tail(s)[i] = s[i + 1] /\ i + 1 \in 1..Len(s)
        /\ Head(s) = s[1] /\ DOMAIN s = 1..Len(s) /\ DOMAIN Tail(s) = 1..Len(Tail(s))
    BY <1>2, HeadTailProperties, LenProperties, EmptySeq
  <2>2. 1 \in DOMAIN s
    BY <2>1
  <2>3. ASSUME NEW i \in DOMAIN Tail(s) PROVE Tail(s)[i] \in Range(s)
    <3>1. i + 1 \in DOMAIN s /\ Tail(s)[i] = s[i + 1]
      BY <2>1
    <3> QED BY <3>1 DEF Range
  <2> QED BY <2>1, <2>2, <2>3 DEF Range
<1>3. ASSUME NEW m \in Message
      PROVE  Append(s, m) \in Seq(Message) /\ Range(Append(s, m)) \subseteq Range(s) \cup {m}
  <2>1. /\ Append(s, m) \in Seq(Message) /\ Len(s) \in Nat /\ Len(Append(s, m)) = Len(s) + 1
        /\ \A i \in 1..Len(s) : Append(s, m)[i] = s[i]
        /\ Append(s, m)[Len(s) + 1] = m
        /\ DOMAIN s = 1..Len(s) /\ DOMAIN Append(s, m) = 1..Len(Append(s, m))
    BY AppendProperties, LenProperties
  <2>2. ASSUME NEW i \in DOMAIN Append(s, m) PROVE Append(s, m)[i] \in Range(s) \cup {m}
    <3>1. i \in 1..Len(s) \/ i = Len(s) + 1
      BY <2>1
    <3> QED BY <2>1, <3>1 DEF Range
  <2> QED BY <2>1, <2>2 DEF Range
<1>4. ASSUME NEW t \in Seq(Message)
      PROVE  s \o t \in Seq(Message) /\ Range(s \o t) \subseteq Range(s) \cup Range(t)
  <2>1. /\ s \o t \in Seq(Message) /\ Len(s) \in Nat /\ Len(t) \in Nat /\ Len(s \o t) = Len(s) + Len(t)
        /\ \A i \in 1..Len(s) + Len(t) : (s \o t)[i] = IF i <= Len(s) THEN s[i] ELSE t[i - Len(s)]
        /\ DOMAIN s = 1..Len(s) /\ DOMAIN t = 1..Len(t) /\ DOMAIN (s \o t) = 1..Len(s \o t)
    BY ConcatProperties, LenProperties
  <2>2. ASSUME NEW i \in DOMAIN (s \o t) PROVE (s \o t)[i] \in Range(s) \cup Range(t)
    <3>1. i \in 1..Len(s) + Len(t)
      BY <2>1
    <3>2. CASE i <= Len(s)
      BY <2>1, <3>1, <3>2 DEF Range
    <3>3. CASE ~(i <= Len(s))
      <4>1. i - Len(s) \in DOMAIN t /\ (s \o t)[i] = t[i - Len(s)]
        BY <2>1, <3>1, <3>3
      <4> QED BY <4>1 DEF Range
    <3> QED BY <3>2, <3>3
  <2> QED BY <2>1, <2>2 DEF Range
<1> QED BY <1>1, <1>2, <1>3, <1>4

\* One message, or two.
LEMMA Said ==
    ASSUME Types, NEW ms \in Seq(Message), Say(ms)
    PROVE  /\ wire' \in Seq(Message) /\ missed' \subseteq SomeTake
           /\ ~Connected => wire' = wire
           /\ Range(wire') \subseteq Range(wire) \cup Range(ms)
<1>1. wire \in Seq(Message) /\ missed \subseteq SomeTake
  BY DEF Types
<1>2. {m.take : m \in Range(ms)} \subseteq SomeTake
  <2>1. StatusRead.take \in SomeTake
    BY Numbers DEF StatusRead, SomeTake
  <2> QED BY <2>1, RangeIs, MessageIs
<1> QED BY <1>1, <1>2, RangeIs DEF Say

LEMMA SaidOne ==
    ASSUME NEW m \in Message
    PROVE  <<m>> \in Seq(Message) /\ Range(<<m>>) = {m}
BY DEF Range

LEMMA SaidTwo ==
    ASSUME NEW m \in Message, NEW n \in Message
    PROVE  <<m, n>> \in Seq(Message) /\ Range(<<m, n>>) = {m, n}
<1> DEFINE s == <<m, n>>
<1>1. s \in Seq(Message) /\ DOMAIN s = {1, 2} /\ s[1] = m /\ s[2] = n
  OBVIOUS
<1> HIDE DEF s
<1>2. Range(s) = {m, n}
  BY <1>1 DEF Range
<1> QED BY <1>1, <1>2 DEF s

LEMMA TypesInit == ASSUME Init PROVE Types
<1>1. /\ 0 \in SomeTake /\ 0 \in 0..MaxBreaks /\ Now = 0
  BY BoundsAssumption DEF Init, SomeTake, Now
<1>2. Idle \in Call
  BY <1>1 DEF Idle, Call, Phases, Paths
<1>3. segments \in [Takes -> Seq(Files)] /\ DOMAIN sidecars = Takes /\ call \in [Everyone -> Call]
  BY <1>2 DEF Init
<1>4. Now <= MaxTakes
  BY <1>1, BoundsAssumption
<1>5. parts \in Seq(1..MaxParts) /\ wire \in Seq(Message)
  BY DEF Init
<1>6. open \in SomeTake /\ announced \in SomeFile /\ breaks \in 0..MaxBreaks
  BY <1>1 DEF Init, SomeFile
<1> HIDE DEF Now
<1> QED BY <1>3, <1>4, <1>5, <1>6 DEF Init, Types

\* A step of OBS's, its requests served and its messages sent.
LEMMA ObsMoves ==
    ASSUME Types, UNCHANGED <<link, status, breaks, session, roomVars, call, sidecars>>,
           obs' \in {"off", "on", "stopping"}, obs' # "off" => Now' # 0,
           parts' \in Seq(1..MaxParts), Now' <= MaxTakes, asked' \subseteq asked,
           wire' \in Seq(Message), missed' \subseteq SomeTake, ~Connected => wire' = wire
    PROVE  Types'
BY DEF Types, session, roomVars, Connected

LEMMA Begins ==
    ASSUME Types, Begin
    PROVE  /\ obs' = "on" /\ parts' \in Seq(1..MaxParts) /\ Now' = Now + 1 /\ Now' <= MaxTakes /\ Now' # 0
           /\ Began \in Message /\ Began.type = "record"
           /\ Now + 1 \in SomeTake
<1>1. 1 \in 1..MaxParts /\ parts \in Seq(1..MaxParts)
  BY Numbers DEF Types
<1>2. parts' \in Seq(1..MaxParts) /\ Len(parts') = Len(parts) + 1
  BY <1>1, AppendProperties DEF Begin
<1>3. Now' = Now + 1 /\ Now' <= MaxTakes /\ Now' # 0 /\ Now + 1 \in Takes /\ Now + 1 \in SomeTake
  BY <1>2, Numbers DEF Begin, Now, Takes, SomeTake
<1>4. File(Now + 1, 1) \in Files
  BY <1>1, <1>3 DEF Files, File, Takes
<1> QED BY <1>2, <1>3, <1>4, Messages DEF Begin, Began

\* OBS as it was.
LEMMA ObsIs ==
    ASSUME Types
    PROVE  /\ obs \in {"off", "on", "stopping"} /\ parts \in Seq(1..MaxParts) /\ Now <= MaxTakes
           /\ obs # "off" => Now # 0
           /\ wire \in Seq(Message) /\ missed \subseteq SomeTake /\ asked \subseteq Request
BY DEF Types

\* What OBS, or a hand in it, does to its recording and says of it: no reply, unless
\* to a request it takes, and of the recording it began if that asks for one.
ObsStep ==
    /\ UNCHANGED <<link, status, breaks, session, roomVars, call, sidecars>>
    /\ Now' \in {Now, Now + 1} /\ Now' <= MaxTakes
    /\ asked' \subseteq asked
    /\ \A m \in Range(wire') :
          \/ m \in Range(wire)
          \/ m.type # "reply"
          \/ \E r \in asked : /\ m.call = r.call
                              /\ r.what = "start" /\ m.ok => m.take = Now + 1 /\ Now' = Now + 1

LEMMA ObsStepIs ==
    ASSUME Types,
           ObsStart \/ ObsStop \/ ObsStopped \/ ObsSplit \/ ObsAnswersStart \/ ObsAnswersStop
    PROVE  Types' /\ ObsStep
<1>1. /\ Now \in Nat /\ Now <= MaxTakes
      /\ UNCHANGED <<link, status, breaks, session, roomVars, call, sidecars>>
      /\ asked' \subseteq asked
  BY Numbers, ObsIs DEF ObsStart, ObsStop, ObsStopped, ObsSplit, ObsAnswersStart, ObsAnswersStop, linkVars
<1>2. CASE ObsStart
  <2>1. /\ Begin /\ Say(<<Began>>)
    BY <1>2 DEF ObsStart
  <2>2. <<Began>> \in Seq(Message) /\ Range(<<Began>>) = {Began} /\ Began.type = "record"
    BY <2>1, Begins, SaidOne
  <2>3. /\ wire' \in Seq(Message) /\ missed' \subseteq SomeTake
        /\ ~Connected => wire' = wire
        /\ Range(wire') \subseteq Range(wire) \cup {Began}
    BY <2>1, <2>2, Said
  <2>4. Types'
    BY <1>1, <2>1, <2>3, Begins, ObsMoves
  <2> QED BY <1>1, <2>1, <2>2, <2>3, <2>4, Begins DEF ObsStep
<1>3. CASE ObsStop
  <2>1. obs = "on" /\ obs' = "stopping" /\ UNCHANGED <<parts, asked, wire, linkVars>>
    BY <1>3 DEF ObsStop
  <2>2. Now' = Now
    BY <2>1 DEF Now
  <2>3. Types'
    BY <1>1, <2>1, <2>2, ObsIs, ObsMoves DEF linkVars
  <2> QED BY <1>1, <2>1, <2>2, <2>3 DEF ObsStep
<1>4. CASE ObsStopped
  <2> DEFINE m == RecordState(FALSE, File(Now, parts[Now]))
  <2>1. obs # "off" /\ obs' = "off" /\ Say(<<m>>) /\ UNCHANGED parts
    BY <1>4 DEF ObsStopped
  <2>2. Now' = Now /\ parts' \in Seq(1..MaxParts)
    BY <2>1, ObsIs DEF Now
  <2>3. m \in Message /\ m.type = "record"
    BY <2>1, FileIs, Messages
  <2> HIDE DEF m
  <2>4. <<m>> \in Seq(Message) /\ Range(<<m>>) = {m}
    BY <2>3, SaidOne
  <2>5. /\ wire' \in Seq(Message) /\ missed' \subseteq SomeTake
        /\ ~Connected => wire' = wire
        /\ Range(wire') \subseteq Range(wire) \cup {m}
    BY <2>1, <2>4, Said
  <2>6. Types'
    BY <1>1, <2>1, <2>2, <2>5, ObsMoves
  <2> QED BY <1>1, <2>2, <2>3, <2>5, <2>6 DEF ObsStep
<1>5. CASE ObsSplit
  <2> DEFINE m == RecordFile(File(Now, parts[Now] + 1))
  <2>1. obs = "on" /\ parts[Now] < MaxParts /\ UNCHANGED obs /\ Say(<<m>>)
        /\ parts' = [parts EXCEPT ![Now] = @ + 1]
    BY <1>5 DEF ObsSplit
  <2>2. Now \in 1..Len(parts) /\ parts[Now] + 1 \in 1..MaxParts
    BY <2>1, FileIs, Numbers
  <2>3. parts' \in Seq(1..MaxParts) /\ Len(parts') = Len(parts)
    BY <2>1, <2>2, ObsIs, ExceptSeq
  <2>4. Now' = Now
    BY <2>3 DEF Now
  <2>5. m \in Message /\ m.type = "file"
    BY <2>1, <2>2, FileIs, Messages
  <2> HIDE DEF m
  <2>6. <<m>> \in Seq(Message) /\ Range(<<m>>) = {m}
    BY <2>5, SaidOne
  <2>7. /\ wire' \in Seq(Message) /\ missed' \subseteq SomeTake
        /\ ~Connected => wire' = wire
        /\ Range(wire') \subseteq Range(wire) \cup {m}
    BY <2>1, <2>6, Said
  <2>8. Types'
    BY <1>1, <2>1, <2>3, <2>4, <2>7, ObsIs, ObsMoves
  <2> QED BY <1>1, <2>4, <2>5, <2>7, <2>8 DEF ObsStep
<1>6. CASE ObsAnswersStart
  <2>1. PICK r \in asked :
           LET yes == [Reply(r.call, TRUE) EXCEPT !.take = Now + 1]
           IN  /\ r.what = "start"
               /\ \/ Begin /\ (Say(<<yes, Began>>) \/ Say(<<Began, yes>>))
                  \/ /\ obs # "off" \/ Now = MaxTakes
                     /\ Say(<<Reply(r.call, FALSE)>>)
                     /\ UNCHANGED outputs
    BY <1>6 DEF ObsAnswersStart
  <2> DEFINE yes == [Reply(r.call, TRUE) EXCEPT !.take = Now + 1]
             no == Reply(r.call, FALSE)
  <2>2. r.call \in Calls
    BY ObsIs DEF Request
  <2>3. CASE Begin /\ (Say(<<yes, Began>>) \/ Say(<<Began, yes>>))
    <3>1. /\ yes \in Message /\ yes.call = r.call /\ yes.take = Now + 1
      BY <2>2, <2>3, Begins DEF Reply, Message
    <3> HIDE DEF yes
    <3>2. Began \in Message /\ Began.type = "record"
      BY <2>3, Begins
    <3>3. /\ <<yes, Began>> \in Seq(Message) /\ Range(<<yes, Began>>) = {yes, Began}
          /\ <<Began, yes>> \in Seq(Message) /\ Range(<<Began, yes>>) = {Began, yes}
      BY <3>1, <3>2, SaidTwo
    <3>4. /\ wire' \in Seq(Message) /\ missed' \subseteq SomeTake
          /\ ~Connected => wire' = wire
          /\ Range(wire') \subseteq Range(wire) \cup {yes, Began}
      BY <2>3, <3>3, Said
    <3>5. Types'
      BY <1>1, <2>3, <3>4, Begins, ObsMoves
    <3> QED BY <1>1, <2>3, <3>1, <3>2, <3>4, <3>5, Begins DEF ObsStep
  <2>4. CASE Say(<<no>>) /\ UNCHANGED outputs
    <3>1. no \in Message /\ no.call = r.call /\ no.ok = FALSE
      BY <2>2, Messages
    <3> HIDE DEF no
    <3>2. <<no>> \in Seq(Message) /\ Range(<<no>>) = {no}
      BY <3>1, SaidOne
    <3>3. /\ wire' \in Seq(Message) /\ missed' \subseteq SomeTake
          /\ ~Connected => wire' = wire
          /\ Range(wire') \subseteq Range(wire) \cup {no}
      BY <2>4, <3>2, Said
    <3>4. obs' = obs /\ parts' = parts /\ Now' = Now
      BY <2>4 DEF outputs, Now
    <3>5. Types'
      BY <1>1, <3>3, <3>4, ObsIs, ObsMoves
    <3> QED BY <1>1, <3>1, <3>3, <3>4, <3>5 DEF ObsStep
  <2> QED BY <2>1, <2>3, <2>4
<1>7. CASE ObsAnswersStop
  <2>1. PICK r \in asked : /\ r.what = "stop" /\ Say(<<Reply(r.call, obs # "off")>>)
                           /\ obs' = IF obs = "on" THEN "stopping" ELSE obs
                           /\ UNCHANGED parts
    BY <1>7 DEF ObsAnswersStop
  <2>2. r.call \in Calls /\ (obs # "off") \in BOOLEAN
    BY ObsIs DEF Request
  <2>3. PICK m \in Message : m.call = r.call /\ Say(<<m>>)
    BY <2>1, <2>2, Messages
  <2>4. <<m>> \in Seq(Message) /\ Range(<<m>>) = {m}
    BY SaidOne
  <2>5. /\ wire' \in Seq(Message) /\ missed' \subseteq SomeTake
        /\ ~Connected => wire' = wire
        /\ Range(wire') \subseteq Range(wire) \cup {m}
    BY <2>3, <2>4, Said
  <2>6. /\ obs' \in {"off", "on", "stopping"} /\ (obs' # "off" => Now' # 0)
        /\ Now' = Now /\ parts' = parts
    BY <2>1, ObsIs DEF Now
  <2>7. Types'
    BY <1>1, <2>5, <2>6, ObsIs, ObsMoves
  <2> QED BY <1>1, <2>1, <2>3, <2>5, <2>6, <2>7 DEF ObsStep
<1> QED BY <1>2, <1>3, <1>4, <1>5, <1>6, <1>7

\* A step of the room's.
LEMMA RoomIs ==
    ASSUME Types
    PROVE  /\ asked \subseteq Request /\ wire \in Seq(Message)
           /\ (~Connected => wire = <<>> /\ asked = {})
           /\ link \in {"lost", "down", "reading", "up"} /\ status \in BOOLEAN
           /\ open \in SomeTake /\ segments \in [Takes -> Seq(Files)] /\ announced \in SomeFile
           /\ recording \in BOOLEAN /\ pending \in Calls \cup {NoCall} /\ closing \in BOOLEAN
           /\ call \in [Everyone -> Call] /\ DOMAIN sidecars = Takes
           /\ breaks \in 0..MaxBreaks /\ missed \subseteq SomeTake
           /\ Idle \in Call /\ NoFile \in SomeFile /\ NoFile \in Paths /\ 0 \in SomeTake
           /\ Calls \subseteq Everyone /\ ByObs \in Everyone
<1>1. 0 \in SomeTake
  BY Numbers DEF SomeTake
<1> QED BY <1>1 DEF Types, Idle, Call, Phases, Paths, SomeFile, Everyone

LEMMA RoomMoves ==
    ASSUME Types, UNCHANGED outputs,
           asked' \subseteq Request, wire' \in Seq(Message), ~Connected' => wire' = <<>> /\ asked' = {},
           link' \in {"lost", "down", "reading", "up"}, status' \in BOOLEAN,
           open' \in SomeTake, segments' \in [Takes -> Seq(Files)], announced' \in SomeFile,
           recording' \in BOOLEAN, pending' \in Calls \cup {NoCall}, closing' \in BOOLEAN,
           call' \in [Everyone -> Call], DOMAIN sidecars' = Takes,
           breaks' \in 0..MaxBreaks, missed' \subseteq SomeTake
    PROVE  Types'
BY DEF Types, outputs, Now

LEMMA CallsAre ==
    ASSUME Types, NEW c \in Everyone
    PROVE  /\ call[c] \in Call
           /\ \A p \in Phases : [call EXCEPT ![c].phase = p] \in [Everyone -> Call]
           /\ \A f \in Paths : [call EXCEPT ![c].path = f] \in [Everyone -> Call]
           /\ \A r \in Call : [call EXCEPT ![c] = r] \in [Everyone -> Call]
           /\ \A p \in Phases, f \in Paths : [call EXCEPT ![c].phase = p, ![c].path = f] \in [Everyone -> Call]
           /\ \A p \in Phases, t \in SomeTake : [call EXCEPT ![c].phase = p, ![c].take = t] \in [Everyone -> Call]
BY RoomIs DEF Call

LEMMA NotesIs ==
    ASSUME Types, NEW file \in SomeFile, NoteSegment(file)
    PROVE  open' = open /\ segments' \in [Takes -> Seq(Files)] /\ announced' \in SomeFile
<1>1. segments \in [Takes -> Seq(Files)] /\ announced \in SomeFile
  BY RoomIs
<1>2. CASE file = NoFile
  BY <1>1, <1>2 DEF NoteSegment, session
<1>3. CASE file # NoFile /\ open = 0
  BY <1>1, <1>3 DEF NoteSegment
<1>4. CASE file # NoFile /\ open # 0
  <2>1. open \in Takes /\ file \in Files
    BY <1>4, Numbers, RoomIs DEF Takes, SomeTake, SomeFile
  <2>2. segments[open] \in Seq(Files) /\ Append(segments[open], file) \in Seq(Files)
    BY <1>1, <2>1, AppendProperties
  <2> QED BY <1>1, <1>4, <2>1, <2>2 DEF NoteSegment
<1> QED BY <1>2, <1>3, <1>4

LEMMA ResolveIs ==
    ASSUME Types, NEW c \in Everyone, NEW path \in Paths, call' = Resolve(call, c, path)
    PROVE  /\ call' \in [Everyone -> Call]
           /\ \A d \in Everyone : call'[d].phase = call[d].phase /\ call'[d].take = call[d].take
BY RoomIs DEF Resolve, Call

LEMMA PhasesAre ==
    /\ "idle" \in Phases /\ "naming" \in Phases /\ "starting" \in Phases
    /\ "stopping" \in Phases /\ "waiting" \in Phases /\ "locating" \in Phases
    /\ \A f \in SomeFile : f \in Paths
    /\ Awaited \in Paths
BY DEF Phases, Paths, SomeFile

LEMMA TypesStart ==
    ASSUME Types, NEW c \in Calls, StartRecording(c) \/ AskStart(c) \/ StopRecording(c)
    PROVE  Types'
<1>1. c \in Everyone
  BY RoomIs
<1>2. CASE StartRecording(c)
  <2>1. call' \in [Everyone -> Call]
    BY <1>1, <1>2, CallsAre, PhasesAre DEF StartRecording
  <2> QED BY <1>2, <2>1, RoomIs, RoomMoves DEF StartRecording, obsVars, linkVars, session, roomVars, Connected
<1>3. CASE AskStart(c)
  <2>1. call' \in [Everyone -> Call]
    <3>1. CASE Connected
      BY <1>1, <1>3, <3>1, CallsAre, PhasesAre DEF AskStart
    <3>2. CASE ~Connected
      <4>1. call' = [call EXCEPT ![c] = Idle]
        BY <1>3, <3>2 DEF AskStart
      <4> QED BY <1>1, <4>1, CallsAre, RoomIs
    <3> QED BY <3>1, <3>2
  <2>2. asked' \subseteq Request /\ (~Connected => asked' = asked)
    BY <1>3, RoomIs DEF AskStart, Ask, Request
  <2> QED BY <1>3, <2>1, <2>2, RoomIs, RoomMoves DEF AskStart, linkVars, roomVars, Connected
<1>4. CASE StopRecording(c)
  <2>1. [phase |-> "stopping", path |-> Awaited, take |-> 0] \in Call
    BY PhasesAre, RoomIs DEF Call
  <2>2. call' \in [Everyone -> Call] /\ closing' \in BOOLEAN
    <3>1. CASE Connected
      <4>1. /\ call' = [call EXCEPT ![c] = [phase |-> "stopping", path |-> Awaited, take |-> 0]]
            /\ closing' = TRUE
        BY <1>4, <3>1 DEF StopRecording
      <4> QED BY <1>1, <2>1, <4>1, CallsAre
    <3>2. CASE ~Connected
      <4>1. call' = [call EXCEPT ![c].path = Awaited] /\ closing' = FALSE
        BY <1>4, <3>2 DEF StopRecording
      <4> QED BY <1>1, <4>1, CallsAre, PhasesAre
    <3> QED BY <3>1, <3>2
  <2>3. asked' \subseteq Request /\ (~Connected => asked' = asked) /\ missed' \subseteq SomeTake
    BY <1>4, RoomIs DEF StopRecording, Ask, Request
  <2> QED BY <1>4, <2>2, <2>3, RoomIs, RoomMoves DEF StopRecording, session, Connected
<1> QED BY <1>2, <1>3, <1>4

LEMMA TypesClose ==
    ASSUME Types, NEW c \in Everyone, PathTimesOut(c) \/ TakePath(c) \/ Close(c)
    PROVE  Types'
<1>1. CASE PathTimesOut(c)
  <2>1. call' \in [Everyone -> Call]
    BY <1>1, ResolveIs, RoomIs DEF PathTimesOut
  <2> QED BY <1>1, <2>1, RoomIs, RoomMoves DEF PathTimesOut, obsVars, linkVars, session, Connected
<1>2. CASE TakePath(c)
  <2>1. call[c].path \in SomeFile
    <3>1. call[c].path \in Paths /\ call[c].path # Awaited
      BY <1>2, CallsAre DEF TakePath, Armed, Call
    <3> QED BY <3>1 DEF Paths, SomeFile
  <2>2. /\ call' \in [Everyone -> Call] /\ closing' \in BOOLEAN
        /\ open' \in SomeTake /\ segments' \in [Takes -> Seq(Files)] /\ announced' \in SomeFile
    <3>1. CASE open = 0
      <4>1. call' = [call EXCEPT ![c] = Idle] /\ closing' = FALSE /\ UNCHANGED session
        BY <1>2, <3>1 DEF TakePath
      <4>2. call' \in [Everyone -> Call]
        BY <4>1, CallsAre, RoomIs
      <4> QED BY <4>1, <4>2, RoomIs DEF session
    <3>2. CASE open # 0
      <4>1. /\ call' = [call EXCEPT ![c].phase = "locating", ![c].take = open]
            /\ NoteSegment(call[c].path) /\ UNCHANGED closing
        BY <1>2, <3>2 DEF TakePath
      <4>2. call' \in [Everyone -> Call]
        BY <4>1, CallsAre, PhasesAre, RoomIs
      <4> QED BY <2>1, <4>1, <4>2, NotesIs, RoomIs
    <3> QED BY <3>1, <3>2
  <2> QED BY <1>2, <2>2, RoomIs, RoomMoves DEF TakePath, obsVars, linkVars, Connected
<1>3. CASE Close(c)
  <2>1. call' \in [Everyone -> Call] /\ DOMAIN sidecars' = Takes
    BY <1>3, CallsAre, RoomIs DEF Close
  <2> QED BY <1>3, <2>1, RoomIs, RoomMoves DEF Close, obsVars, linkVars, Connected
<1> QED BY <1>1, <1>2, <1>3

LEMMA RefusedIs ==
    ASSUME Types
    PROVE  /\ RefusedCalls \in [Everyone -> Call]
           /\ \A c \in Everyone :
                 RefusedCalls[c].phase = IF call[c].phase \in {"starting", "stopping"} THEN "idle"
                                         ELSE call[c].phase
           /\ \A c \in Everyone : call[c].phase \notin {"starting", "stopping"} => RefusedCalls[c] = call[c]
<1>1. Idle.phase = "idle"
  BY DEF Idle
<1> QED BY <1>1, RoomIs, PhasesAre DEF RefusedCalls, Call

LEMMA Breaks ==
    ASSUME Types, Break
    PROVE  breaks' \in 0..MaxBreaks
BY RoomIs, Numbers DEF Break

LEMMA TypesLink ==
    ASSUME Types, LinkLost \/ ObsDies \/ Connect \/ ObsAnswersStatus \/ Restart \/ Reconnect \/ Reattach
    PROVE  Types'
<1>1. ASSUME Lose, Break, obs' \in {"off", obs}, UNCHANGED <<parts, status, session, recording, pending, sidecars>>
      PROVE  Types'
  <2>1. /\ asked' = {} /\ wire' = <<>> /\ link' = "lost" /\ call' \in [Everyone -> Call]
    BY <1>1, RefusedIs DEF Lose
  <2>2. closing' \in BOOLEAN
    BY <1>1, RoomIs DEF Lose
  <2>3. missed' \subseteq SomeTake
    <3>1. {m.take : m \in Range(wire)} \subseteq SomeTake
      <4>1. StatusRead.take \in SomeTake
        BY RoomIs DEF StatusRead
      <4> QED BY <4>1, RangeIs, MessageIs, RoomIs
    <3> QED BY <1>1, <3>1, Numbers, RoomIs DEF Lose
  <2>4. obs' \in {"off", "on", "stopping"} /\ (obs' # "off" => Now' # 0) /\ Now' = Now /\ parts' = parts
    BY <1>1, ObsIs DEF Now
  <2> QED BY <1>1, <2>1, <2>2, <2>3, <2>4, Breaks, ObsIs, RoomIs DEF Types, session, Connected
<1>2. CASE LinkLost \/ ObsDies
  BY <1>1, <1>2 DEF LinkLost, ObsDies
<1>3. CASE Connect
  <2>1. status' \in BOOLEAN
    BY <1>3 DEF Connect
  <2> QED BY <1>3, <2>1, RoomIs, RoomMoves DEF Connect, obsVars, outputs, session, roomVars, Connected
<1>4. CASE ObsAnswersStatus
  <2>1. wire' \in Seq(Message) /\ Connected /\ Connected'
    BY <1>4, RangeIs, Messages, RoomIs DEF ObsAnswersStatus, Connected, linkVars
  <2> QED BY <1>4, <2>1, RoomIs, RoomMoves DEF ObsAnswersStatus, linkVars, session, roomVars
<1>5. ASSUME Afresh PROVE /\ asked' = {} /\ wire' = <<>> /\ link' = "down" /\ open' = 0 /\ announced' = NoFile
                          /\ missed' \subseteq SomeTake /\ breaks' \in 0..MaxBreaks
                          /\ UNCHANGED <<outputs, status, segments, sidecars>>
  BY <1>5, Breaks, Numbers, RoomIs DEF Afresh
<1>6. CASE Restart
  <2>1. call' \in [Everyone -> Call]
    BY <1>6, RoomIs DEF Restart
  <2>2. recording' = FALSE /\ pending' = NoCall /\ closing' = FALSE /\ Afresh
    BY <1>6 DEF Restart
  <2>3. UNCHANGED <<outputs, status, segments, sidecars>> /\ announced' = NoFile /\ open' = 0
    BY <1>5, <2>2
  <2>4. segments' \in [Takes -> Seq(Files)] /\ DOMAIN sidecars' = Takes /\ status' \in BOOLEAN
    BY <2>3, RoomIs
  <2>5. /\ asked' = {} /\ wire' = <<>> /\ link' = "down" /\ missed' \subseteq SomeTake /\ breaks' \in 0..MaxBreaks
        /\ asked' \subseteq Request /\ wire' \in Seq(Message) /\ UNCHANGED outputs
    BY <1>5, <2>2
  <2>6. recording' \in BOOLEAN /\ pending' \in Calls \cup {NoCall} /\ closing' \in BOOLEAN
    BY <2>2
  <2>7. open' \in SomeTake /\ announced' \in SomeFile
    BY <2>3, RoomIs
  <2> QED BY <2>1, <2>4, <2>5, <2>6, <2>7, RoomMoves
<1>7. CASE Reconnect
  BY <1>5, <1>7, RoomIs, RoomMoves DEF Reconnect, roomVars
<1>8. CASE Reattach
  BY <1>8, RoomIs, RoomMoves DEF Reattach, obsVars, session, roomVars, Connected
<1> QED BY <1>2, <1>3, <1>4, <1>6, <1>7, <1>8

LEMMA TypesHear == ASSUME Types, Hear PROVE Types'
<1> DEFINE m == Head(wire)
<1>1. /\ wire # <<>> /\ wire' = Tail(wire) /\ link' = (IF m.type = "status" THEN "up" ELSE link)
      /\ UNCHANGED <<outputs, asked, status, breaks, missed>>
  BY DEF Hear
<1>2. m \in Message /\ wire' \in Seq(Message)
  BY <1>1, RangeIs, RoomIs
<1>3. Connected /\ Connected' /\ link' \in {"lost", "down", "reading", "up"}
  BY <1>1, RoomIs DEF Connected
<1>4. SUFFICES /\ open' \in SomeTake /\ segments' \in [Takes -> Seq(Files)] /\ announced' \in SomeFile
               /\ recording' \in BOOLEAN /\ pending' \in Calls \cup {NoCall} /\ closing' \in BOOLEAN
               /\ call' \in [Everyone -> Call] /\ DOMAIN sidecars' = Takes
  BY <1>1, <1>2, <1>3, RoomIs, RoomMoves
<1>5. ASSUME NEW c \in Calls, m.type = "reply", HearStart(c)
      PROVE  /\ open' \in SomeTake /\ segments' \in [Takes -> Seq(Files)] /\ announced' \in SomeFile
             /\ call' \in [Everyone -> Call] /\ UNCHANGED <<roomVars, sidecars>>
  <2>1. call' \in [Everyone -> Call] /\ UNCHANGED <<roomVars, sidecars>>
    BY <1>5, CallsAre, RoomIs DEF HearStart
  <2>2. CASE m.ok
    <3>1. m.take \in SomeTake
      BY <1>2, <1>5, MessageIs
    <3>2. (IF announced = NoFile THEN <<>> ELSE <<announced>>) \in Seq(Files)
      BY RoomIs DEF SomeFile
    <3>3. /\ open' = m.take /\ announced' = NoFile
          /\ segments' = [segments EXCEPT ![m.take] = IF announced = NoFile THEN <<>> ELSE <<announced>>]
      BY <1>5, <2>2 DEF HearStart
    <3>4. segments' \in [Takes -> Seq(Files)]
      BY <3>2, <3>3, RoomIs
    <3> QED BY <2>1, <3>1, <3>3, <3>4, RoomIs
  <2>3. CASE ~m.ok
    BY <1>5, <2>1, <2>3, RoomIs DEF HearStart, session
  <2> QED BY <2>2, <2>3
<1>6. ASSUME NEW c \in Calls, HearStop(c)
      PROVE  call' \in [Everyone -> Call] /\ closing' \in BOOLEAN /\ UNCHANGED <<session, recording, pending, sidecars>>
  <2>1. call[c].path \in Paths /\ c \in Everyone
    BY CallsAre, RoomIs DEF Call
  <2>2. CASE m.ok
    <3>1. call' = [call EXCEPT ![c].phase = "waiting"] /\ UNCHANGED closing
      BY <1>6, <2>2 DEF HearStop
    <3> QED BY <1>6, <2>1, <3>1, CallsAre, PhasesAre, RoomIs DEF HearStop
  <2>3. CASE ~m.ok
    <3>1. PICK f \in Paths : f = IF Armed(c) THEN call[c].path ELSE NoFile
      BY <2>1, RoomIs
    <3>2. call' = [call EXCEPT ![c].phase = "idle", ![c].path = f]
      BY <1>6, <2>3, <3>1 DEF HearStop
    <3> QED BY <1>6, <2>1, <2>3, <3>2, CallsAre, PhasesAre DEF HearStop
  <2> QED BY <2>2, <2>3
<1>7. CASE HearRecord
  <2>1. /\ m.type = "record" /\ m.active \in BOOLEAN /\ m.file \in Files /\ m.file \in SomeFile /\ m.file \in Paths
    BY <1>2, <1>7, MessageIs, PhasesAre DEF HearRecord, SomeFile
  <2>2. recording' \in BOOLEAN /\ DOMAIN sidecars' = Takes
    BY <1>7, <2>1, RoomIs DEF HearRecord
  <2>3. CASE NoteSegment(m.file) /\ UNCHANGED <<pending, closing, call>>
    BY <2>1, <2>2, <2>3, NotesIs, RoomIs
  <2>4. CASE pending # NoCall /\ call' = Resolve(call, pending, m.file) /\ pending' = NoCall
             /\ UNCHANGED <<session, closing>>
    <3>1. pending \in Everyone
      BY <2>4, RoomIs
    <3>2. call' \in [Everyone -> Call]
      BY <2>1, <2>4, <3>1, ResolveIs
    <3> QED BY <2>2, <2>4, <3>2, RoomIs DEF session
  <2>5. CASE CloseStopFromObs(m.file) /\ UNCHANGED <<session, pending>>
    <3>1. call' \in [Everyone -> Call] /\ closing' \in BOOLEAN
      <4>1. CASE UNCHANGED <<call, closing>>
        BY <4>1, RoomIs
      <4>2. CASE /\ call' = [call EXCEPT ![ByObs] = [phase |-> "waiting", path |-> m.file, take |-> 0]]
                 /\ closing' = TRUE
        <5>1. [phase |-> "waiting", path |-> m.file, take |-> 0] \in Call
          BY <2>1, PhasesAre, RoomIs DEF Call
        <5> QED BY <4>2, <5>1, CallsAre, RoomIs
      <4> QED BY <2>5, <4>1, <4>2 DEF CloseStopFromObs
    <3> QED BY <2>2, <2>5, <3>1, RoomIs DEF session
  <2> QED BY <1>7, <2>3, <2>4, <2>5 DEF HearRecord
<1>8. CASE HearFile
  <2>1. m.file \in SomeFile
    BY <1>2, <1>8, MessageIs DEF HearFile, SomeFile
  <2> QED BY <1>8, <2>1, NotesIs, RoomIs DEF HearFile, roomVars
<1>9. CASE Adopt
  BY <1>9, RoomIs DEF Adopt, session
<1> HIDE DEF m
<1>10. CASE \E c \in Calls : m.type = "reply" /\ (HearStart(c) \/ HearStop(c))
  <2>1. PICK c \in Calls : m.type = "reply" /\ (HearStart(c) \/ HearStop(c))
    BY <1>10
  <2>2. CASE HearStart(c)
    BY <1>5, <2>1, <2>2, RoomIs DEF roomVars
  <2>3. CASE HearStop(c)
    BY <1>6, <2>3, RoomIs DEF session
  <2> QED BY <2>1, <2>2, <2>3
<1> QED BY <1>7, <1>8, <1>9, <1>10 DEF Hear, m

LEMMA TypesStep == Types /\ [Next]_vars => Types'
<1> SUFFICES ASSUME Types, [Next]_vars PROVE Types'
  OBVIOUS
<1>1. CASE UNCHANGED vars
  <2>1. /\ UNCHANGED <<outputs, asked, wire, link, status, breaks, missed>>
        /\ UNCHANGED <<open, segments, announced, recording, pending, closing, call, sidecars>>
    BY <1>1 DEF vars, obsVars, linkVars, session, roomVars
  <2> QED BY <2>1, RoomIs, RoomMoves DEF Connected
<1>2. CASE ObsStart \/ ObsStop \/ ObsStopped \/ ObsSplit \/ ObsAnswersStart \/ ObsAnswersStop
  BY <1>2, ObsStepIs
<1>3. CASE LinkLost \/ ObsDies \/ Connect \/ ObsAnswersStatus \/ Restart \/ Reconnect \/ Reattach
  BY <1>3, TypesLink
<1>4. CASE Hear
  BY <1>4, TypesHear
<1>5. ASSUME NEW c \in Calls, StartRecording(c) \/ AskStart(c) \/ StopRecording(c) PROVE Types'
  BY <1>5, TypesStart
<1>6. ASSUME NEW c \in Everyone, PathTimesOut(c) \/ TakePath(c) \/ Close(c) PROVE Types'
  BY <1>6, TypesClose
<1> QED BY <1>1, <1>2, <1>3, <1>4, <1>5, <1>6 DEF Next

\* In every reachable state, whatever crosses and whatever breaks, what OBS records, what is
\* on its way and what the session knows have their types, and nothing travels without a link.
THEOREM CaptureTypes == Spec => []TypeOK
<1>1. Init => Types
  BY TypesInit
<1>2. Types => TypeOK
  <2> SUFFICES ASSUME Types PROVE TypeOK
    OBVIOUS
  <2>1. {status, recording, closing} \subseteq BOOLEAN
    BY DEF Types
  <2>2. \A t \in Takes : Range(segments[t]) \subseteq Files
    <3> SUFFICES ASSUME NEW t \in Takes PROVE Range(segments[t]) \subseteq Files
      OBVIOUS
    <3>1. segments[t] \in Seq(Files)
      BY RoomIs
    <3> QED BY <3>1 DEF Range
  <2>3. call \in [Everyone -> [phase : Phases, path : Paths, take : 0..MaxTakes]]
    BY DEF Types, Call, SomeTake
  <2>4. asked \subseteq [call : Calls, what : {"start", "stop"}]
    BY DEF Types, Request
  <2> QED BY <2>1, <2>2, <2>3, <2>4 DEF Types, TypeOK, SomeTake, SomeFile
<1> QED BY <1>1, <1>2, TypesStep, PTL DEF Spec
-----------------------------------------------------------------------------
(***************************************************************************)
(* A take has one sidecar.  When nothing is started or stopped while that  *)
(* is being done, one call at most is at work, the take it closes is the   *)
(* one that is open, and no take is opened again after it.                 *)
(***************************************************************************)

Busy(c) == call[c].phase # "idle"
Starting(c) == call[c].phase \in {"naming", "starting"}

\* A start, while no take is open; or a closing, that is known as one.
OneAtATime ==
    /\ \A c, d \in Everyone : Busy(c) /\ Busy(d) => c = d
    /\ \A c \in Everyone : Busy(c) => IF Starting(c) THEN open = 0 ELSE closing
    /\ \A c \in Everyone : call[c].phase = "locating" => open # 0 /\ call[c].take = open

\* Who starts is told of its own request only, and of a take nobody closed.
OwnReplies ==
    \A c \in Calls :
        /\ call[c].phase = "naming" => asked = {} /\ \A m \in Range(wire) : m.type # "reply"
        /\ call[c].phase = "starting" =>
              /\ \A r \in asked : r.what = "start"
              /\ \A m \in Range(wire) : m.type = "reply" /\ m.call = c /\ m.ok =>
                    m.take \in 1..Now /\ sidecars[m.take] = <<>>

\* Neither the take that is open nor those to come have a sidecar.
Written ==
    /\ open <= Now
    /\ \A t \in Takes : sidecars[t] = <<>> \/ Len(sidecars[t]) = 1
    /\ \A t \in Takes : t = open \/ t > Now => sidecars[t] = <<>>

Guard == OneAtATime /\ OwnReplies /\ Written
CloseInv == Types /\ (~Crossings => Guard)

\* Nobody is at work any more.
LEMMA NobodyWorks ==
    ASSUME \A d \in Everyone : call'[d].phase = "idle", Written', Calls \subseteq Everyone
    PROVE  Guard'
<1>1. OneAtATime'
  BY DEF OneAtATime, Busy
<1>2. OwnReplies'
  BY DEF OwnReplies
<1> QED BY <1>1, <1>2 DEF Guard

\* One closes.
LEMMA OneCloses ==
    ASSUME NEW c \in Everyone, \A d \in Everyone : d # c => call'[d].phase = "idle",
           call'[c].phase \in {"stopping", "waiting", "locating"}, closing',
           call'[c].phase = "locating" => open' # 0 /\ call'[c].take = open',
           Written', Calls \subseteq Everyone
    PROVE  Guard'
<1>1. OneAtATime'
  BY DEF OneAtATime, Busy, Starting
<1>2. OwnReplies'
  <2>1. \A d \in Calls : call'[d].phase \notin {"naming", "starting"}
    BY Zenon, Calls \subseteq Everyone
  <2> QED BY <2>1 DEF OwnReplies
<1> QED BY <1>1, <1>2 DEF Guard

\* Those who are at work go on.
LEMMA WorkGoesOn ==
    ASSUME Types, Guard,
           \A d \in Everyone : call'[d].phase = call[d].phase /\ call'[d].take = call[d].take,
           open' = open, closing => closing', sidecars' = sidecars, Now' = Now, asked' \subseteq asked,
           \A m \in Range(wire') : m \in Range(wire) \/ m.type # "reply"
    PROVE  Guard'
<1>1. OneAtATime'
  BY DEF Guard, OneAtATime, Busy, Starting
<1>2. OwnReplies'
  <2> SUFFICES ASSUME NEW c \in Calls
               PROVE  /\ call'[c].phase = "naming" => asked' = {} /\ \A m \in Range(wire') : m.type # "reply"
                      /\ call'[c].phase = "starting" =>
                            /\ \A r \in asked' : r.what = "start"
                            /\ \A m \in Range(wire') : m.type = "reply" /\ m.call = c /\ m.ok =>
                                  m.take \in 1..Now' /\ sidecars'[m.take] = <<>>
    BY DEF OwnReplies
  <2>1. call'[c].phase = call[c].phase
    BY RoomIs
  <2> QED BY <2>1 DEF Guard, OwnReplies
<1>3. Written'
  BY DEF Guard, Written
<1> QED BY <1>1, <1>2, <1>3 DEF Guard

LEMMA ObsKeepsGuard ==
    ASSUME Types, Guard, ObsStep
    PROVE  Guard'
<1>1. Now \in Nat /\ MaxTakes \in Nat /\ Now' \in {Now, Now + 1} /\ Now' <= MaxTakes
  BY Numbers DEF ObsStep
<1>2. UNCHANGED <<open, closing, call, sidecars>> /\ asked' \subseteq asked
  BY DEF ObsStep, session, roomVars
<1>3. OneAtATime'
  BY <1>2 DEF Guard, OneAtATime, Busy, Starting
<1>4. Written'
  BY <1>1, <1>2, RoomIs DEF Guard, Written, Takes, SomeTake
<1>5. OwnReplies'
  <2> SUFFICES ASSUME NEW c \in Calls
               PROVE  /\ call[c].phase = "naming" => asked' = {} /\ \A m \in Range(wire') : m.type # "reply"
                      /\ call[c].phase = "starting" =>
                            /\ \A r \in asked' : r.what = "start"
                            /\ \A m \in Range(wire') : m.type = "reply" /\ m.call = c /\ m.ok =>
                                  m.take \in 1..Now' /\ sidecars[m.take] = <<>>
    BY <1>2 DEF OwnReplies
  <2>1. ASSUME call[c].phase = "naming"
        PROVE  asked' = {} /\ \A m \in Range(wire') : m.type # "reply"
    <3>1. asked = {} /\ \A m \in Range(wire) : m.type # "reply"
      BY <2>1 DEF Guard, OwnReplies
    <3> QED BY <1>2, <3>1 DEF ObsStep
  <2>2. ASSUME call[c].phase = "starting"
        PROVE  /\ \A r \in asked' : r.what = "start"
               /\ \A m \in Range(wire') : m.type = "reply" /\ m.call = c /\ m.ok =>
                     m.take \in 1..Now' /\ sidecars[m.take] = <<>>
    <3>1. \A r \in asked : r.what = "start"
      BY <2>2 DEF Guard, OwnReplies
    <3>2. ASSUME NEW m \in Range(wire'), m.type = "reply", m.call = c, m.ok
          PROVE  m.take \in 1..Now' /\ sidecars[m.take] = <<>>
      <4>1. CASE m \in Range(wire)
        <5>1. m.take \in 1..Now /\ sidecars[m.take] = <<>>
          BY <2>2, <3>2, <4>1 DEF Guard, OwnReplies
        <5> QED BY <1>1, <5>1
      <4>2. CASE \E r \in asked : /\ m.call = r.call
                                  /\ r.what = "start" /\ m.ok => m.take = Now + 1 /\ Now' = Now + 1
        <5>1. m.take = Now + 1 /\ Now' = Now + 1
          BY <3>1, <3>2, <4>2
        <5>2. Now + 1 \in Takes /\ Now + 1 > Now
          BY <1>1, <5>1 DEF Takes
        <5> QED BY <1>1, <5>1, <5>2 DEF Guard, Written
      <4> QED BY <3>2, <4>1, <4>2 DEF ObsStep
    <3> QED BY <1>2, <3>1, <3>2
  <2> QED BY <2>1, <2>2
<1> QED BY <1>3, <1>4, <1>5 DEF Guard

\* Nothing is on its way, and nobody at work, when somebody acts.
LEMMA HandIsFree ==
    ASSUME ~Crossings, FreeHand
    PROVE  wire = <<>> /\ asked = {} /\ \A c \in Everyone : call[c].phase = "idle"
BY DEF FreeHand, Idle

LEMMA NothingSaid == Range(<<>>) = {}
BY DEF Range

LEMMA WrittenKept ==
    ASSUME Types, Guard, Now' = Now, open' \in {0, open}, sidecars' = sidecars
    PROVE  Written'
<1>1. Now \in Nat
  BY Numbers
<1>2. \A t \in Takes : t # 0
  BY Numbers DEF Takes
<1> QED BY <1>1, <1>2 DEF Guard, Written

\* Only one is at work: the others are idle.
LEMMA OthersIdle ==
    ASSUME Guard, NEW c \in Everyone, Busy(c)
    PROVE  /\ \A d \in Everyone : d # c => call[d].phase = "idle"
           /\ (IF Starting(c) THEN open = 0 ELSE closing)
BY DEF Guard, OneAtATime, Busy

LEMMA GuardStart ==
    ASSUME Types, Guard, ~Crossings, NEW c \in Calls,
           StartRecording(c) \/ AskStart(c) \/ StopRecording(c)
    PROVE  Guard'
<1>1. c \in Everyone /\ Calls \subseteq Everyone /\ call \in [Everyone -> Call]
  BY RoomIs
<1>2. CASE StartRecording(c)
  <2>1. /\ wire' = <<>> /\ asked' = {} /\ open = 0 /\ call' = [call EXCEPT ![c].phase = "naming"]
        /\ \A d \in Everyone : call[d].phase = "idle"
        /\ open' = open /\ Now' = Now /\ sidecars' = sidecars
    BY <1>2, HandIsFree DEF StartRecording, Gesture, obsVars, outputs, session, Now
  <2>2. /\ call'[c].phase = "naming"
        /\ \A d \in Everyone : d # c => call'[d].phase = "idle"
    BY <1>1, <2>1 DEF Call
  <2>3. OneAtATime'
    BY <1>1, <2>1, <2>2 DEF OneAtATime, Busy, Starting
  <2>4. OwnReplies'
    BY <1>1, <2>1, <2>2, NothingSaid DEF OwnReplies
  <2>5. Written'
    BY <2>1, WrittenKept
  <2> QED BY <2>3, <2>4, <2>5 DEF Guard
<1>3. CASE AskStart(c)
  <2>1. /\ call[c].phase = "naming" /\ wire' = wire /\ open' = open /\ Now' = Now /\ sidecars' = sidecars
    BY <1>3 DEF AskStart, outputs, Now
  <2>2. /\ \A d \in Everyone : d # c => call[d].phase = "idle"
        /\ open = 0 /\ asked = {} /\ \A m \in Range(wire) : m.type # "reply"
    BY <1>1, <2>1, OthersIdle DEF Busy, Starting, Guard, OwnReplies
  <2>3. Written'
    BY <2>1, WrittenKept
  <2>4. CASE Connected
    <3>1. Ask(c, "start") /\ call' = [call EXCEPT ![c].phase = "starting"]
      BY <1>3, <2>4 DEF AskStart
    <3>2. /\ call'[c].phase = "starting"
          /\ \A d \in Everyone : d # c => call'[d].phase = "idle"
          /\ \A r \in asked' : r.what = "start"
      BY <1>1, <2>2, <3>1 DEF Call, Ask
    <3>3. OneAtATime'
      BY <1>1, <2>1, <2>2, <3>2 DEF OneAtATime, Busy, Starting
    <3>4. OwnReplies'
      BY <1>1, <2>1, <2>2, <3>2 DEF OwnReplies
    <3> QED BY <2>3, <3>3, <3>4 DEF Guard
  <2>5. CASE ~Connected
    <3>1. call' = [call EXCEPT ![c] = Idle]
      BY <1>3, <2>5 DEF AskStart
    <3>2. \A d \in Everyone : call'[d].phase = "idle"
      BY <1>1, <2>2, <3>1 DEF Idle
    <3> QED BY <1>1, <2>3, <3>2, NobodyWorks
  <2> QED BY <2>4, <2>5
<1>4. CASE StopRecording(c)
  <2>1. /\ \A d \in Everyone : call[d].phase = "idle"
        /\ open' = open /\ Now' = Now /\ sidecars' = sidecars
    BY <1>4, HandIsFree DEF StopRecording, Gesture, outputs, session, Now
  <2>2. Written'
    BY <2>1, WrittenKept
  <2>3. CASE Connected
    <3>1. /\ call' = [call EXCEPT ![c] = [phase |-> "stopping", path |-> Awaited, take |-> 0]]
          /\ closing' = TRUE
      BY <1>4, <2>3 DEF StopRecording
    <3>2. /\ call'[c].phase = "stopping"
          /\ \A d \in Everyone : d # c => call'[d].phase = "idle"
      BY <1>1, <2>1, <3>1
    <3> QED BY <1>1, <2>2, <3>1, <3>2, OneCloses
  <2>4. CASE ~Connected
    <3>1. call' = [call EXCEPT ![c].path = Awaited]
      BY <1>4, <2>4 DEF StopRecording
    <3>2. \A d \in Everyone : call'[d].phase = "idle"
      BY <1>1, <2>1, <3>1 DEF Call
    <3> QED BY <1>1, <2>2, <3>2, NobodyWorks
  <2> QED BY <2>3, <2>4
<1> QED BY <1>2, <1>3, <1>4

\* What a closing writes, of the files it knows.
LEMMA ClosedWith ==
    ASSUME Types, NEW c \in Everyone, Close(c), open # 0, call[c].take = open, sidecars[open] = <<>>
    PROVE  \E one :
              /\ sidecars' = [sidecars EXCEPT ![open] = one]
              /\ \/ one = <<>>
                 \/ \E named, unfound :
                       /\ one = Append(<<>>, [named |-> named, unfound |-> unfound])
                       /\ named \subseteq Range(segments[open]) \cup {File(open, 1)}
                       /\ Range(segments[open]) \subseteq named \cup unfound
<1>1. PICK found \in SUBSET Range(segments[open]), byName \in BOOLEAN, stored \in BOOLEAN :
         LET named == IF found # {} THEN found ELSE IF byName THEN {File(open, 1)} ELSE {}
         IN  sidecars' = [sidecars EXCEPT ![open] =
                 IF named # {} /\ stored
                 THEN Append(@, [named |-> named, unfound |-> Range(segments[open]) \ found])
                 ELSE @]
  BY DEF Close, FilesKnown
<1> DEFINE named == IF found # {} THEN found ELSE IF byName THEN {File(open, 1)} ELSE {}
           unfound == Range(segments[open]) \ found
           one == IF named # {} /\ stored THEN Append(<<>>, [named |-> named, unfound |-> unfound]) ELSE <<>>
<1>2. sidecars' = [sidecars EXCEPT ![open] = one]
  BY <1>1
<1>3. /\ named \subseteq Range(segments[open]) \cup {File(open, 1)}
      /\ Range(segments[open]) \subseteq named \cup unfound
  OBVIOUS
<1> HIDE DEF named, unfound
<1>4. one = <<>> \/ one = Append(<<>>, [named |-> named, unfound |-> unfound])
  OBVIOUS
<1> QED BY <1>2, <1>3, <1>4

LEMMA GuardClose ==
    ASSUME Types, Guard, NEW c \in Everyone, PathTimesOut(c) \/ TakePath(c) \/ Close(c)
    PROVE  Guard'
<1>1. Calls \subseteq Everyone /\ call \in [Everyone -> Call]
  BY RoomIs
<1>2. CASE PathTimesOut(c)
  <2>1. /\ call' = Resolve(call, c, NoFile)
        /\ UNCHANGED <<asked, wire, open, closing, sidecars>> /\ Now' = Now
    BY <1>2 DEF PathTimesOut, obsVars, outputs, session, Now
  <2>2. \A d \in Everyone : call'[d].phase = call[d].phase /\ call'[d].take = call[d].take
    BY <2>1, ResolveIs, RoomIs
  <2> QED BY <2>1, <2>2, WorkGoesOn
<1>3. CASE TakePath(c)
  <2>1. /\ call[c].phase = "waiting" /\ Now' = Now /\ sidecars' = sidecars
    BY <1>3 DEF TakePath, obsVars, outputs, Now
  <2>2. /\ \A d \in Everyone : d # c => call[d].phase = "idle"
        /\ closing
    BY <2>1, OthersIdle DEF Busy, Starting
  <2>3. CASE open = 0
    <3>1. call' = [call EXCEPT ![c] = Idle] /\ open' = open
      BY <1>3, <2>3 DEF TakePath, session
    <3>2. \A d \in Everyone : call'[d].phase = "idle"
      BY <1>1, <2>2, <3>1 DEF Idle
    <3> QED BY <1>1, <2>1, <3>1, <3>2, NobodyWorks, WrittenKept
  <2>4. CASE open # 0
    <3>1. /\ call' = [call EXCEPT ![c].phase = "locating", ![c].take = open]
          /\ closing' = closing /\ open' = open
      BY <1>3, <2>4 DEF TakePath, NoteSegment, session
    <3>2. /\ call'[c].phase = "locating" /\ call'[c].take = open
          /\ \A d \in Everyone : d # c => call'[d].phase = "idle"
      BY <1>1, <2>2, <3>1 DEF Call
    <3>3. Written'
      BY <2>1, <3>1, WrittenKept
    <3> QED BY <1>1, <2>2, <2>4, <3>1, <3>2, <3>3, OneCloses
  <2> QED BY <2>3, <2>4
<1>4. CASE Close(c)
  <2>1. /\ call[c].phase = "locating" /\ Now' = Now /\ open' = 0 /\ call' = [call EXCEPT ![c] = Idle]
    BY <1>4 DEF Close, obsVars, outputs, Now
  <2>2. open # 0 /\ call[c].take = open /\ sidecars[open] = <<>> /\ open \in Takes /\ open <= Now
    BY <2>1, Numbers, RoomIs DEF Guard, OneAtATime, Written, Takes, SomeTake
  <2>3. PICK one : sidecars' = [sidecars EXCEPT ![open] = one] /\ (one = <<>> \/ Len(one) = 1)
    <3>1. PICK one : /\ sidecars' = [sidecars EXCEPT ![open] = one]
                     /\ one = <<>> \/ \E named, unfound : one = Append(<<>>, [named |-> named, unfound |-> unfound])
      BY <1>4, <2>2, ClosedWith
    <3>2. \A x : Len(Append(<<>>, x)) = 1
      OBVIOUS
    <3> QED BY <3>1, <3>2
  <2>4. DOMAIN sidecars = Takes
    BY RoomIs
  <2>5. /\ sidecars'[open] = one
        /\ \A t \in Takes : t # open => sidecars'[t] = sidecars[t]
    BY <2>2, <2>3, <2>4
  <2>6. Written'
    <3>1. \A t \in Takes : sidecars'[t] = <<>> \/ Len(sidecars'[t]) = 1
      BY <2>3, <2>5 DEF Guard, Written
    <3>2. \A t \in Takes : t = 0 \/ t > Now => sidecars'[t] = <<>>
      BY <2>2, <2>5, Numbers, RoomIs DEF Guard, Written, Takes
    <3> QED BY <2>1, <3>1, <3>2, Numbers DEF Written
  <2>7. \A d \in Everyone : call'[d].phase = "idle"
    BY <1>1, <2>1, OthersIdle DEF Busy, Idle
  <2> QED BY <1>1, <2>6, <2>7, NobodyWorks
<1> QED BY <1>2, <1>3, <1>4

LEMMA GuardLink ==
    ASSUME Types, Guard, LinkLost \/ ObsDies \/ Connect \/ ObsAnswersStatus \/ Restart \/ Reconnect \/ Reattach
    PROVE  Guard'
<1>1. Calls \subseteq Everyone /\ call \in [Everyone -> Call]
  BY RoomIs
<1>2. ASSUME Lose, UNCHANGED <<parts, session, sidecars>> PROVE Guard'
  <2>1. /\ asked' = {} /\ wire' = <<>> /\ call' = RefusedCalls /\ Now' = Now
        /\ open' = open /\ sidecars' = sidecars
        /\ closing' = (closing /\ \A c \in Calls : call[c].phase # "stopping")
    BY <1>2 DEF Lose, Now, session
  <2>2. Written'
    BY <2>1, WrittenKept
  <2>3. CASE \E c \in Everyone : call[c].phase \in {"starting", "stopping"}
    <3>1. PICK c \in Everyone : call[c].phase \in {"starting", "stopping"}
      BY <2>3
    <3>2. \A d \in Everyone : d # c => call[d].phase = "idle"
      BY <3>1, OthersIdle DEF Busy
    <3>3. \A d \in Everyone : call'[d].phase = "idle"
      BY <2>1, <3>1, <3>2, RefusedIs
    <3> QED BY <1>1, <2>2, <3>3, NobodyWorks
  <2>4. CASE \A c \in Everyone : call[c].phase \notin {"starting", "stopping"}
    <3>1. \A d \in Everyone : call'[d].phase = call[d].phase /\ call'[d].take = call[d].take
      BY <2>1, <2>4, RefusedIs
    <3>2. closing => closing'
      BY <1>1, <2>1, <2>4
    <3>3. asked' \subseteq asked /\ Range(wire') = {}
      BY <2>1, NothingSaid
    <3> QED BY <2>1, <3>1, <3>2, <3>3, WorkGoesOn
  <2> QED BY <2>3, <2>4
<1>3. CASE LinkLost \/ ObsDies
  BY <1>2, <1>3 DEF LinkLost, ObsDies
<1>4. CASE Connect \/ Reattach
  <2>1. UNCHANGED <<parts, asked, wire, open, closing, call, sidecars>> /\ Now' = Now
    BY <1>4 DEF Connect, Reattach, obsVars, outputs, session, roomVars, Now
  <2> QED BY <2>1, WorkGoesOn
<1>5. CASE ObsAnswersStatus
  <2>1. /\ UNCHANGED <<asked, open, closing, call, sidecars>> /\ Now' = Now
        /\ wire' = Append(wire, StatusRead)
    BY <1>5 DEF ObsAnswersStatus, outputs, session, roomVars, Now
  <2>2. \A m \in Range(wire') : m \in Range(wire) \/ m.type # "reply"
    BY <2>1, RangeIs, Messages, RoomIs
  <2> QED BY <2>1, <2>2, WorkGoesOn
<1>6. CASE Restart \/ Reconnect
  <2>1. open' = 0 /\ sidecars' = sidecars /\ Now' = Now
    BY <1>6 DEF Restart, Reconnect, Afresh, outputs, Now
  <2>2. \A d \in Everyone : call'[d].phase = "idle"
    BY <1>6 DEF Restart, Reconnect, Idle
  <2> QED BY <1>1, <2>1, <2>2, WrittenKept, NobodyWorks
<1> QED BY <1>3, <1>4, <1>5, <1>6

LEMMA GuardHear == ASSUME Types, Guard, Hear PROVE Guard'
<1> DEFINE m == Head(wire)
<1>1. /\ wire # <<>> /\ wire' = Tail(wire) /\ Now' = Now /\ asked' = asked
  BY DEF Hear, outputs, Now
<1>2. m \in Message /\ m \in Range(wire) /\ Range(wire') \subseteq Range(wire)
  BY <1>1, RangeIs, RoomIs
<1>3. Calls \subseteq Everyone /\ call \in [Everyone -> Call] /\ ByObs \in Everyone
  BY RoomIs
<1>4. ASSUME \A d \in Everyone : call'[d].phase = call[d].phase /\ call'[d].take = call[d].take,
             open' = open, closing' = closing, sidecars' = sidecars
      PROVE  Guard'
  BY <1>1, <1>2, <1>4, WorkGoesOn
<1>5. ASSUME NEW c \in Calls, m.type = "reply", m.call = c, HearStart(c) PROVE Guard'
  <2>1. /\ call[c].phase = "starting" /\ call' = [call EXCEPT ![c] = Idle] /\ sidecars' = sidecars
    BY <1>5 DEF HearStart
  <2>2. \A d \in Everyone : call'[d].phase = "idle"
    BY <1>3, <2>1, OthersIdle DEF Busy, Idle
  <2>3. CASE m.ok
    <3>1. open' = m.take /\ m.take \in 1..Now /\ sidecars[m.take] = <<>>
      BY <1>2, <1>5, <2>1, <2>3 DEF HearStart, Guard, OwnReplies
    <3>2. Written'
      BY <1>1, <2>1, <3>1, Numbers DEF Guard, Written
    <3> QED BY <1>3, <2>2, <3>2, NobodyWorks
  <2>4. CASE ~m.ok
    <3>1. open' = open
      BY <1>5, <2>4 DEF HearStart, session
    <3> QED BY <1>1, <1>3, <2>1, <2>2, <3>1, WrittenKept, NobodyWorks
  <2> QED BY <2>3, <2>4
<1>6. ASSUME NEW c \in Calls, HearStop(c) PROVE Guard'
  <2>1. /\ call[c].phase = "stopping" /\ sidecars' = sidecars /\ open' = open /\ c \in Everyone
    BY <1>3, <1>6 DEF HearStop, session
  <2>2. closing /\ \A d \in Everyone : d # c => call[d].phase = "idle"
    BY <2>1, OthersIdle DEF Busy, Starting
  <2>3. Written'
    BY <1>1, <2>1, WrittenKept
  <2>4. CASE m.ok
    <3>1. call' = [call EXCEPT ![c].phase = "waiting"] /\ closing' = closing
      BY <1>6, <2>4 DEF HearStop
    <3>2. call'[c].phase = "waiting" /\ \A d \in Everyone : d # c => call'[d].phase = "idle"
      BY <1>3, <2>1, <2>2, <3>1 DEF Call
    <3> QED BY <1>3, <2>1, <2>2, <2>3, <3>1, <3>2, OneCloses
  <2>5. CASE ~m.ok
    <3>1. PICK f : call' = [call EXCEPT ![c].phase = "idle", ![c].path = f]
      BY <1>6, <2>5 DEF HearStop
    <3>2. \A d \in Everyone : call'[d].phase = "idle"
      BY <1>3, <2>1, <2>2, <3>1 DEF Call
    <3> QED BY <1>3, <2>3, <3>2, NobodyWorks
  <2> QED BY <2>4, <2>5
<1>7. CASE HearRecord
  <2>1. m.file \in SomeFile /\ m.file \in Paths /\ sidecars' = sidecars
    BY <1>2, <1>7, MessageIs, PhasesAre DEF HearRecord, SomeFile
  <2>2. CASE NoteSegment(m.file) /\ UNCHANGED <<pending, closing, call>>
    BY <1>4, <2>1, <2>2, NotesIs
  <2>3. CASE pending # NoCall /\ call' = Resolve(call, pending, m.file) /\ UNCHANGED <<session, closing>>
    <3>1. pending \in Everyone
      BY <2>3, RoomIs
    <3> QED BY <1>4, <2>1, <2>3, <3>1, ResolveIs DEF session
  <2>4. CASE CloseStopFromObs(m.file) /\ UNCHANGED <<session, pending>>
    <3>1. CASE UNCHANGED <<call, closing>>
      BY <1>4, <2>1, <2>4, <3>1 DEF session
    <3>2. CASE /\ ~(open = 0 \/ closing)
               /\ call' = [call EXCEPT ![ByObs] = [phase |-> "waiting", path |-> m.file, take |-> 0]]
               /\ closing' = TRUE
      <4>1. \A d \in Everyone : call[d].phase = "idle"
        BY <3>2 DEF Guard, OneAtATime, Busy
      <4>2. call'[ByObs].phase = "waiting" /\ \A d \in Everyone : d # ByObs => call'[d].phase = "idle"
        BY <1>3, <3>2, <4>1
      <4>3. Written'
        BY <1>1, <2>1, <2>4, WrittenKept DEF session
      <4> QED BY <1>3, <3>2, <4>2, <4>3, OneCloses
    <3> QED BY <2>4, <3>1, <3>2 DEF CloseStopFromObs
  <2> QED BY <1>7, <2>2, <2>3, <2>4 DEF HearRecord
<1>8. CASE HearFile
  <2>1. m.file \in SomeFile
    BY <1>2, <1>8, MessageIs DEF HearFile, SomeFile
  <2> QED BY <1>4, <1>8, <2>1, NotesIs DEF HearFile, roomVars
<1>9. CASE Adopt
  BY <1>4, <1>9 DEF Adopt, session
<1> QED BY <1>5, <1>6, <1>7, <1>8, <1>9 DEF Hear

LEMMA CloseInvStep == CloseInv /\ [Next]_vars => CloseInv'
<1> SUFFICES ASSUME CloseInv, [Next]_vars PROVE CloseInv'
  OBVIOUS
<1>1. Types /\ Types'
  BY TypesStep DEF CloseInv
<1> SUFFICES ASSUME ~Crossings PROVE Guard'
  BY <1>1 DEF CloseInv
<1>2. Guard
  BY DEF CloseInv
<1>3. CASE UNCHANGED vars
  <2>1. UNCHANGED <<parts, asked, wire, open, closing, call, sidecars>> /\ Now' = Now
    BY <1>3 DEF vars, obsVars, outputs, session, roomVars, Now
  <2> QED BY <1>1, <1>2, <2>1, WorkGoesOn
<1>4. CASE ObsStart \/ ObsStop \/ ObsStopped \/ ObsSplit \/ ObsAnswersStart \/ ObsAnswersStop
  BY <1>1, <1>2, <1>4, ObsStepIs, ObsKeepsGuard
<1>5. CASE LinkLost \/ ObsDies \/ Connect \/ ObsAnswersStatus \/ Restart \/ Reconnect \/ Reattach
  BY <1>1, <1>2, <1>5, GuardLink
<1>6. CASE Hear
  BY <1>1, <1>2, <1>6, GuardHear
<1>7. ASSUME NEW c \in Calls, StartRecording(c) \/ AskStart(c) \/ StopRecording(c) PROVE Guard'
  BY <1>1, <1>2, <1>7, GuardStart
<1>8. ASSUME NEW c \in Everyone, PathTimesOut(c) \/ TakePath(c) \/ Close(c) PROVE Guard'
  BY <1>1, <1>2, <1>8, GuardClose
<1> QED BY <1>3, <1>4, <1>5, <1>6, <1>7, <1>8 DEF Next

LEMMA CloseInvInit == Init => CloseInv
<1> SUFFICES ASSUME Init PROVE CloseInv
  OBVIOUS
<1>1. Types
  BY TypesInit
<1>2. /\ \A c \in Everyone : call[c].phase = "idle"
      /\ \A t \in Takes : sidecars[t] = <<>>
      /\ open = 0 /\ Now = 0
  BY DEF Init, Idle, Now
<1>3. OneAtATime
  BY <1>2 DEF OneAtATime, Busy
<1>4. OwnReplies
  BY <1>2, <1>1, RoomIs DEF OwnReplies
<1>5. Written
  BY <1>2 DEF Written
<1> QED BY <1>1, <1>3, <1>4, <1>5 DEF CloseInv, Guard

\* A take never has two sidecars, though two paths lead to one: the stop that is asked for,
\* which may have stopped waiting for the file's name, and the one OBS reports (captureClosing).
\* It takes that nothing is started or stopped while that is being done already; the link
\* and either program may break at any moment.
THEOREM TakesAreClosedOnce == Spec => [](~Crossings => OneSidecarPerTake)
<1>1. CloseInv => (~Crossings => OneSidecarPerTake)
  <2> SUFFICES ASSUME Guard PROVE OneSidecarPerTake
    BY DEF CloseInv
  <2> SUFFICES ASSUME NEW t \in Takes PROVE Len(sidecars[t]) <= 1
    BY DEF OneSidecarPerTake
  <2>1. sidecars[t] = <<>> \/ Len(sidecars[t]) = 1
    BY DEF Guard, Written
  <2>2. CASE sidecars[t] = <<>>
    <3>1. Len(<<>>) = 0
      OBVIOUS
    <3>2. Len(sidecars[t]) = 0
      BY <2>2, <3>1, Zenon
    <3> QED BY <3>2
  <2>3. CASE Len(sidecars[t]) = 1
    <3> DEFINE n == Len(sidecars[t])
    <3>1. n = 1
      BY <2>3
    <3> HIDE DEF n
    <3>2. n <= 1
      BY <3>1
    <3> QED BY <3>2 DEF n
  <2> QED BY <2>1, <2>2, <2>3, Zenon
<1> QED BY <1>1, CloseInvInit, CloseInvStep, PTL DEF Spec
-----------------------------------------------------------------------------
(***************************************************************************)
(* The take that is open is the one OBS records, and it keeps its files.   *)
(* Two programs agree through a wire and a call, so the invariant says     *)
(* what is on its way: the end of the take, or somebody who closes it; the *)
(* files the session does not know yet, in their order and no others; and, *)
(* before the take is open, the same of the reply that will open it.       *)
(***************************************************************************)

\* A take the session has open, nothing about which was cut short.
Live == open # 0 /\ open \notin missed
Closes(c) == call[c].phase \in {"stopping", "waiting", "locating"}

\* Messages that name a file OBS goes on in, that say it has stopped, that it began.
Names(m) == m.type = "file" \/ (m.type = "record" /\ m.active)
Stopped(m) == m.type = "record" /\ ~m.active
Yes(m) == m.type = "reply" /\ m.ok

\* The files the session knows, of a take that is open or about to be.
Heard == IF open # 0 THEN segments[open]
         ELSE IF announced = NoFile THEN <<>> ELSE <<announced>>

\* The first files of take n are known, h, and the others, up to the last, are on the wire.
Comes(h, w, n, last) ==
    /\ Len(h) <= last /\ \A i \in 1..Len(h) : h[i] = File(n, i)
    /\ \A part \in Len(h) + 1..last : \E i \in 1..Len(w) : Names(w[i]) /\ w[i].file = File(n, part)
    /\ \A i \in 1..Len(w) : Names(w[i]) => w[i].file.take = n /\ w[i].file.part \in Len(h) + 1..last
    /\ \A i, j \in 1..Len(w) :
          i < j /\ Names(w[i]) /\ Names(w[j]) => w[i].file.part < w[j].file.part

\* What is asked is what a call waits for, and is not answered yet.
Exchange ==
    /\ \A r, s \in asked : r = s
    /\ \A r \in asked : call[r.call].phase = IF r.what = "start" THEN "starting" ELSE "stopping"
    /\ asked # {} => \A m \in Range(wire) : m.type # "reply"
    /\ \A m \in Range(wire) : m.type \in {"record", "file"} => m.take = m.file.take

\* The call that waits for a path is the one it goes to; a closing is some call's.
Armings ==
    /\ \A c \in Everyone : Armed(c) <=> pending = c
    /\ \A c \in Everyone : Armed(c) => call[c].phase # "locating"
    /\ closing => \E c \in Everyone : Closes(c)
    /\ call[ByObs].phase \in {"idle", "waiting", "locating"}

\* While a take is being started, no recording ends.
Starts ==
    \A c \in Everyone : Starting(c) =>
        /\ \A d \in Everyone : call[d].path = NoFile
        /\ obs # "stopping"
        /\ \A m \in Range(wire) : ~Stopped(m) /\ (Yes(m) => obs = "on")
        /\ obs = "off" => /\ \A m \in Range(wire) : ~Names(m)
                          /\ call[c].phase = "starting" => announced = NoFile

\* Who is told yes opens the take OBS has begun.
Opens ==
    \A c \in Everyone : call[c].phase = "starting" =>
        \A p \in 1..Len(wire) : Yes(wire[p]) =>
            /\ wire[p].take = Now
            /\ Now \notin missed =>
                  /\ Comes(Heard, wire, Now, parts[Now])
                  /\ \A i \in 1..Len(wire) : i < p /\ Names(wire[i]) => wire[i].file.part = 1

\* The end of the take is on its way, or it is being closed.
Followed == Live =>
    /\ open = Now
    /\ obs = "off" => (\E m \in Range(wire) : Stopped(m)) \/ \E c \in Everyone : Closes(c)
    /\ \A c \in Everyone : Armed(c) => Closes(c)
    /\ \A c \in Everyone : call[c].phase = "stopping" =>
          /\ asked # {} \/ \E m \in Range(wire) : m.type = "reply" /\ m.take = Now
          /\ asked # {} => obs = "on"
          /\ \A m \in Range(wire) : m.type = "reply" => m.ok

\* Whatever names a file of the take names one of OBS's recording.
Own == Live =>
    /\ \A m \in Range(wire) : m.type \in {"record", "file"} => m.file.take = Now
    /\ \A c \in Everyone : call[c].path \in Files => call[c].path.take = Now
    /\ \A f \in Range(segments[open]) : f.take = Now

\* The files it has, and those to come: not minded once its last path is taken.
Known == Live /\ (\A c \in Everyone : call[c].phase # "locating") =>
    Comes(segments[open], wire, Now, parts[Now])

TakesKept == Exchange /\ Armings /\ Starts /\ Opens /\ Followed /\ Own /\ Known /\ NoForeignFile

\* The wire, a message longer.
LEMMA Longer ==
    ASSUME NEW w \in Seq(Message), NEW m \in Message
    PROVE  /\ Append(w, m) \in Seq(Message) /\ Len(w) \in Nat /\ Len(Append(w, m)) = Len(w) + 1
           /\ \A i \in 1..Len(w) : Append(w, m)[i] = w[i]
           /\ Append(w, m)[Len(w) + 1] = m
           /\ Range(Append(w, m)) = Range(w) \cup {m}
           /\ w \o <<m>> = Append(w, m)
<1>1. /\ Append(w, m) \in Seq(Message) /\ Len(w) \in Nat /\ Len(Append(w, m)) = Len(w) + 1
      /\ \A i \in 1..Len(w) : Append(w, m)[i] = w[i]
      /\ Append(w, m)[Len(w) + 1] = m
      /\ DOMAIN w = 1..Len(w) /\ DOMAIN Append(w, m) = 1..Len(Append(w, m))
  BY AppendProperties, LenProperties
<1>2. DOMAIN Append(w, m) = DOMAIN w \cup {Len(w) + 1}
  BY <1>1
<1>3. Range(Append(w, m)) = Range(w) \cup {m}
  BY <1>1, <1>2, Zenon DEF Range
<1>4. w \o <<m>> = Append(w, m)
  BY AppendIsConcat
<1> QED BY <1>1, <1>3, <1>4

LEMMA LongerByTwo ==
    ASSUME NEW w \in Seq(Message), NEW m \in Message, NEW n \in Message
    PROVE  w \o <<m, n>> = Append(Append(w, m), n)
<1>1. <<m>> \in Seq(Message) /\ <<n>> \in Seq(Message) /\ <<m, n>> = <<m>> \o <<n>>
  <2>1. <<m>> \in Seq(Message) /\ <<n>> \in Seq(Message)
    BY SaidOne
  <2>2. <<m>> \o <<n>> = Append(<<m>>, n)
    BY <2>1, Longer
  <2>3. Append(<<m>>, n) = <<m, n>>
    <3> DEFINE s == Append(<<m>>, n)
               t == <<m, n>>
    <3>1. Len(<<m>>) = 1 /\ <<m>>[1] = m
      OBVIOUS
    <3>2. s \in Seq(Message) /\ Len(s) = 2 /\ s[1] = m /\ s[2] = n
      BY <2>1, <3>1, Longer
    <3>3. t \in Seq(Message) /\ Len(t) = 2 /\ t[1] = m /\ t[2] = n
      OBVIOUS
    <3> HIDE DEF s, t
    <3>4. \A i \in 1..2 : s[i] = t[i]
      BY <3>2, <3>3
    <3>5. s = t
      BY <3>2, <3>3, <3>4, SeqEqual
    <3> QED BY <3>5 DEF s, t
  <2> QED BY <2>1, <2>2, <2>3
<1>2. w \o (<<m>> \o <<n>>) = (w \o <<m>>) \o <<n>>
  BY <1>1, ConcatAssociative
<1>3. w \o <<m>> = Append(w, m) /\ Append(w, m) \in Seq(Message)
  BY Longer
<1>4. Append(w, m) \o <<n>> = Append(Append(w, m), n)
  BY <1>3, Longer
<1> QED BY <1>1, <1>2, <1>3, <1>4

\* The wire, a message heard.
LEMMA Shorter ==
    ASSUME NEW w \in Seq(Message), w # <<>>
    PROVE  /\ Head(w) \in Message /\ Head(w) = w[1] /\ Len(w) \in Nat /\ Len(w) >= 1
           /\ Tail(w) \in Seq(Message) /\ Len(Tail(w)) = Len(w) - 1
           /\ \A i \in 1..Len(w) - 1 : Tail(w)[i] = w[i + 1] /\ i + 1 \in 1..Len(w)
           /\ Range(w) = {Head(w)} \cup Range(Tail(w))
<1>1. /\ Tail(w) \in Seq(Message) /\ Len(w) \in Nat /\ Len(Tail(w)) = Len(w) - 1 /\ Len(w) >= 1
      /\ \A i \in 1..Len(Tail(w)) : Tail(w)[i] = w[i + 1] /\ i + 1 \in 1..Len(w)
      /\ Head(w) = w[1] /\ DOMAIN w = 1..Len(w) /\ DOMAIN Tail(w) = 1..Len(Tail(w))
  BY HeadTailProperties, LenProperties, EmptySeq
<1>2. Head(w) \in Range(w) /\ Range(Tail(w)) \subseteq Range(w) /\ Range(w) \subseteq Message
  BY RangeIs
<1>3. Range(w) \subseteq {Head(w)} \cup Range(Tail(w))
  <2> SUFFICES ASSUME NEW i \in 1..Len(w) PROVE w[i] \in {Head(w)} \cup Range(Tail(w))
    BY <1>1 DEF Range
  <2>1. CASE i = 1
    BY <1>1, <2>1
  <2>2. CASE i # 1
    <3>1. i - 1 \in 1..Len(Tail(w)) /\ i - 1 + 1 = i
      BY <1>1, <2>2
    <3>2. Tail(w)[i - 1] = w[i]
      BY <1>1, <3>1
    <3> QED BY <1>1, <3>1, <3>2 DEF Range
  <2> QED BY <2>1, <2>2
<1> QED BY <1>1, <1>2, <1>3

\* By place or as a set, the messages are the same.
LEMMA OnTheWire ==
    ASSUME NEW w \in Seq(Message)
    PROVE  /\ \A i \in 1..Len(w) : w[i] \in Range(w) /\ w[i] \in Message
           /\ \A m \in Range(w) : \E i \in 1..Len(w) : w[i] = m
<1>1. DOMAIN w = 1..Len(w) /\ \A i \in 1..Len(w) : w[i] \in Message
  BY LenProperties, ElementOfSeq
<1> QED BY <1>1 DEF Range

\* Who names a file, or says that OBS has stopped, says of which take.
LEMMA NamesAre ==
    ASSUME NEW m \in Message, Names(m) \/ Stopped(m)
    PROVE  m.file \in Files /\ m.file.take \in Nat /\ m.file.part \in Nat /\ m.file.part >= 1
           /\ m.type \in {"record", "file"} /\ m.file \in SomeFile /\ m.file # NoFile
<1>1. m.file \in Files /\ m.type \in {"record", "file"}
  BY MessageIs DEF Names, Stopped
<1> QED BY <1>1, NoFileAssumption, BoundsAssumption DEF Files, SomeFile

LEMMA FilesAre ==
    ASSUME NEW f \in Files, NEW n \in Nat, NEW part \in Nat
    PROVE  /\ f = File(n, part) <=> f.take = n /\ f.part = part
           /\ File(n, part).take = n /\ File(n, part).part = part
BY DEF Files, File

\* All the files are known when nothing is on the wire.
LEMMA AllKnown ==
    ASSUME NEW h \in Seq(Files), NEW n \in Nat, NEW last \in Nat, Comes(h, <<>>, n, last)
    PROVE  h = [part \in 1..last |-> File(n, part)]
<1>1. Len(<<>>) = 0 /\ Len(h) \in Nat /\ DOMAIN h = 1..Len(h)
  BY LenProperties
<1>2. Len(h) = last
  <2> DEFINE l == Len(h)
  <2>0. l \in Nat /\ l <= last
    BY <1>1 DEF Comes
  <2> SUFFICES ASSUME l < last PROVE FALSE
    <3> HIDE DEF l
    <3>1. ~(l < last) => l = last
      BY <2>0
    <3> QED BY <3>1 DEF l
  <2>1. Len(h) + 1 \in Len(h) + 1..last
    BY <1>1
  <2>2. \E i \in 1..Len(<<>>) : TRUE
    BY <2>1 DEF Comes
  <2> QED BY <1>1, <2>2
<1>3. \A i \in 1..last : h[i] = File(n, i)
  BY <1>2 DEF Comes
<1>4. h = [i \in DOMAIN h |-> h[i]]
  OBVIOUS
<1> QED BY <1>1, <1>2, <1>3, <1>4

\* When the wire names no file, all the files are known, whatever else it carries.
LEMMA NothingComes ==
    ASSUME NEW h, NEW w, NEW v, NEW n, NEW last, Comes(h, w, n, last),
           \A i \in 1..Len(w) : ~Names(w[i]), \A i \in 1..Len(v) : ~Names(v[i])
    PROVE  Comes(h, v, n, last)
BY DEF Comes

\* What is known is of the take.
LEMMA KnownAreOwn ==
    ASSUME NEW h \in Seq(Files), NEW w, NEW n \in Nat, NEW last \in Nat, Comes(h, w, n, last)
    PROVE  \A f \in Range(h) : f.take = n
<1>1. DOMAIN h = 1..Len(h) /\ Len(h) \in Nat
  BY LenProperties
<1>2. \A i \in 1..Len(h) : h[i].take = n
  BY <1>1 DEF Comes, File
<1> QED BY <1>1, <1>2 DEF Range

\* A message that names no file is said, or heard.
LEMMA OtherSaid ==
    ASSUME NEW h \in Seq(Files), NEW w \in Seq(Message), NEW n \in Nat, NEW last \in Nat,
           Comes(h, w, n, last), NEW m \in Message, ~Names(m)
    PROVE  Comes(h, Append(w, m), n, last)
<1> DEFINE v == Append(w, m)
<1>1. /\ Len(w) \in Nat /\ Len(v) = Len(w) + 1 /\ v[Len(w) + 1] = m
      /\ \A i \in 1..Len(w) : v[i] = w[i]
  BY Longer
<1> HIDE DEF v
<1>2. \A i \in 1..Len(v) : Names(v[i]) => i \in 1..Len(w) /\ v[i] = w[i]
  <2> SUFFICES ASSUME NEW i \in 1..Len(v), Names(v[i]) PROVE i \in 1..Len(w)
    BY <1>1
  <2>1. i \in 1..Len(w) \/ i = Len(w) + 1
    BY <1>1
  <2> QED BY <1>1, <2>1
<1>3. \A i \in 1..Len(w) : i \in 1..Len(v) /\ v[i] = w[i]
  BY <1>1
<1> QED BY <1>2, <1>3 DEF Comes, v

LEMMA OtherHeard ==
    ASSUME NEW h \in Seq(Files), NEW w \in Seq(Message), NEW n \in Nat, NEW last \in Nat,
           w # <<>>, Comes(h, w, n, last), ~Names(Head(w))
    PROVE  Comes(h, Tail(w), n, last)
<1> DEFINE v == Tail(w)
<1>1. /\ Len(w) \in Nat /\ Len(w) >= 1 /\ Len(v) = Len(w) - 1 /\ w[1] = Head(w)
      /\ \A i \in 1..Len(w) - 1 : v[i] = w[i + 1] /\ i + 1 \in 1..Len(w)
  BY Shorter
<1> HIDE DEF v
<1>2. \A i \in 1..Len(v) : i \in Nat /\ v[i] = w[i + 1] /\ i + 1 \in 1..Len(w)
  BY <1>1
<1>3. \A i, j \in 1..Len(v) : i < j => i + 1 < j + 1
  BY <1>1
<1>4. \A part \in Len(h) + 1..last : \E i \in 1..Len(v) : Names(v[i]) /\ v[i].file = File(n, part)
  <2> SUFFICES ASSUME NEW part \in Len(h) + 1..last
               PROVE  \E i \in 1..Len(v) : Names(v[i]) /\ v[i].file = File(n, part)
    OBVIOUS
  <2>1. PICK i \in 1..Len(w) : Names(w[i]) /\ w[i].file = File(n, part)
    BY DEF Comes
  <2>2. i # 1
    BY <1>1, <2>1
  <2>3. i - 1 \in 1..Len(v) /\ i - 1 \in 1..Len(w) - 1 /\ i - 1 + 1 = i
    BY <1>1, <2>2
  <2>4. v[i - 1] = w[i]
    BY <1>1, <2>3
  <2> QED BY <2>1, <2>3, <2>4
<1>5. \A i \in 1..Len(v) : Names(v[i]) => v[i].file.take = n /\ v[i].file.part \in Len(h) + 1..last
  BY <1>2 DEF Comes
<1>6. \A i, j \in 1..Len(v) : i < j /\ Names(v[i]) /\ Names(v[j]) => v[i].file.part < v[j].file.part
  BY <1>2, <1>3 DEF Comes
<1> QED BY <1>4, <1>5, <1>6 DEF Comes, v

\* OBS goes on in one more file, and says so.
LEMMA NewsSaid ==
    ASSUME NEW h \in Seq(Files), NEW w \in Seq(Message), NEW n \in Nat, NEW last \in Nat,
           Comes(h, w, n, last), NEW m \in Message, Names(m), m.file = File(n, last + 1)
    PROVE  Comes(h, Append(w, m), n, last + 1)
<1> DEFINE v == Append(w, m)
<1>1. /\ Len(w) \in Nat /\ Len(v) = Len(w) + 1 /\ v[Len(w) + 1] = m
      /\ \A i \in 1..Len(w) : v[i] = w[i]
  BY Longer
<1> HIDE DEF v
<1>2. \A i \in 1..Len(v) : (i \in 1..Len(w) /\ v[i] = w[i]) \/ (i = Len(w) + 1 /\ v[i] = m)
  BY <1>1
<1>3. Len(h) \in Nat /\ Len(h) <= last /\ m.file.take = n /\ m.file.part = last + 1
  BY LenProperties DEF Comes, File
<1>4. \A i \in 1..Len(w) : Names(w[i]) => w[i].file.take = n /\ w[i].file.part \in Len(h) + 1..last
  BY DEF Comes
<1>5. \A part \in Len(h) + 1..last + 1 : \E i \in 1..Len(v) : Names(v[i]) /\ v[i].file = File(n, part)
  <2> SUFFICES ASSUME NEW part \in Len(h) + 1..last + 1
               PROVE  \E i \in 1..Len(v) : Names(v[i]) /\ v[i].file = File(n, part)
    OBVIOUS
  <2>1. CASE part = last + 1
    <3>1. Len(w) + 1 \in 1..Len(v)
      BY <1>1
    <3> QED BY <1>1, <2>1, <3>1
  <2>2. CASE part # last + 1
    <3>1. part \in Len(h) + 1..last
      BY <1>3, <2>2
    <3>2. PICK i \in 1..Len(w) : Names(w[i]) /\ w[i].file = File(n, part)
      BY <3>1 DEF Comes
    <3>3. i \in 1..Len(v) /\ v[i] = w[i]
      BY <1>1
    <3> QED BY <3>2, <3>3
  <2> QED BY <2>1, <2>2
<1>6. \A i \in 1..Len(v) : Names(v[i]) => v[i].file.take = n /\ v[i].file.part \in Len(h) + 1..last + 1
  <2> SUFFICES ASSUME NEW i \in 1..Len(v), Names(v[i])
               PROVE  v[i].file.take = n /\ v[i].file.part \in Len(h) + 1..last + 1
    OBVIOUS
  <2>1. CASE i \in 1..Len(w) /\ v[i] = w[i]
    <3>1. v[i].file.take = n /\ v[i].file.part \in Len(h) + 1..last
      BY <1>4, <2>1
    <3> QED BY <1>3, <3>1
  <2>2. CASE v[i] = m
    BY <1>3, <2>2
  <2> QED BY <1>2, <2>1, <2>2
<1>7. \A i, j \in 1..Len(v) : i < j /\ Names(v[i]) /\ Names(v[j]) => v[i].file.part < v[j].file.part
  <2> SUFFICES ASSUME NEW i \in 1..Len(v), NEW j \in 1..Len(v), i < j, Names(v[i]), Names(v[j])
               PROVE  v[i].file.part < v[j].file.part
    OBVIOUS
  <2>1. i \in 1..Len(w) /\ v[i] = w[i]
    BY <1>1
  <2>2. v[i].file.part \in Len(h) + 1..last
    BY <1>4, <2>1
  <2>3. CASE j \in 1..Len(w) /\ v[j] = w[j]
    BY <2>1, <2>3 DEF Comes
  <2>4. CASE v[j] = m
    BY <1>3, <2>2, <2>4
  <2> QED BY <1>2, <2>3, <2>4
<1>8. Len(h) <= last + 1
  BY <1>3
<1> QED BY <1>5, <1>6, <1>7, <1>8 DEF Comes, v

\* The session hears of the file that follows those it knows.
LEMMA NewsHeard ==
    ASSUME NEW h \in Seq(Files), NEW w \in Seq(Message), NEW n \in Nat, NEW last \in Nat,
           w # <<>>, Comes(h, w, n, last), Names(Head(w))
    PROVE  /\ Head(w).file = File(n, Len(h) + 1) /\ Head(w).file \notin Range(h)
           /\ Comes(Append(h, Head(w).file), Tail(w), n, last)
<1> DEFINE v == Tail(w)
           f == Head(w).file
           g == Append(h, f)
<1>1. /\ Len(w) \in Nat /\ Len(w) >= 1 /\ Len(v) = Len(w) - 1 /\ w[1] = Head(w) /\ Head(w) \in Message
      /\ \A i \in 1..Len(w) - 1 : v[i] = w[i + 1] /\ i + 1 \in 1..Len(w)
  BY Shorter
<1>2. f \in Files /\ f.part \in Nat
  BY <1>1, NamesAre
<1>3. /\ Len(h) \in Nat /\ Len(g) = Len(h) + 1 /\ g[Len(h) + 1] = f
      /\ \A i \in 1..Len(h) : g[i] = h[i]
      /\ DOMAIN h = 1..Len(h)
  BY <1>2, AppendProperties, LenProperties
<1>4. 1 \in 1..Len(w) /\ f.take = n /\ f.part \in Len(h) + 1..last
  BY <1>1 DEF Comes
<1>5. f.part = Len(h) + 1
  <2>1. Len(h) + 1 \in Len(h) + 1..last
    BY <1>3, <1>4
  <2>2. PICK i \in 1..Len(w) : Names(w[i]) /\ w[i].file = File(n, Len(h) + 1)
    BY <2>1 DEF Comes
  <2>3. w[i].file.part = Len(h) + 1
    BY <2>2 DEF File
  <2>4. CASE i = 1
    BY <1>1, <2>3, <2>4
  <2>5. CASE i # 1
    <3>1. 1 < i
      BY <1>1, <2>5
    <3>2. f.part < w[i].file.part
      BY <1>1, <1>4, <2>2, <3>1 DEF Comes
    <3> QED BY <1>2, <1>3, <1>4, <2>3, <3>2
  <2> QED BY <2>4, <2>5
<1>6. f = File(n, Len(h) + 1)
  <2>1. \A part \in Nat : f = File(n, part) <=> f.take = n /\ f.part = part
    BY <1>2, FilesAre
  <2>2. Len(h) + 1 \in Nat
    BY <1>3
  <2> QED BY <1>4, <1>5, <2>1, <2>2, Zenon
<1>7. \A i \in 1..Len(h) : h[i] = File(n, i) /\ h[i] # f
  <2> SUFFICES ASSUME NEW i \in 1..Len(h) PROVE h[i] = File(n, i) /\ h[i] # f
    OBVIOUS
  <2>1. h[i] = File(n, i)
    BY DEF Comes
  <2>2. h[i].part = i
    BY <2>1 DEF File
  <2>3. i # Len(h) + 1
    BY <1>3
  <2> QED BY <1>5, <2>1, <2>2, <2>3
<1>8. f \notin Range(h)
  BY <1>3, <1>7 DEF Range
<1> HIDE DEF v, f, g
<1>9. \A i \in 1..Len(v) : i \in Nat /\ v[i] = w[i + 1] /\ i + 1 \in 1..Len(w) /\ 1 < i + 1
  BY <1>1
<1>10. Len(g) <= last /\ \A i \in 1..Len(g) : g[i] = File(n, i)
  <2>1. Len(g) <= last
    BY <1>3, <1>4, <1>5
  <2>2. \A i \in 1..Len(g) : i \in 1..Len(h) \/ i = Len(h) + 1
    BY <1>3
  <2> QED BY <1>3, <1>6, <1>7, <2>1, <2>2
<1>11. \A part \in Len(g) + 1..last : \E i \in 1..Len(v) : Names(v[i]) /\ v[i].file = File(n, part)
  <2> SUFFICES ASSUME NEW part \in Len(g) + 1..last
               PROVE  \E i \in 1..Len(v) : Names(v[i]) /\ v[i].file = File(n, part)
    OBVIOUS
  <2>1. part \in Len(h) + 1..last /\ part # Len(h) + 1
    BY <1>3
  <2>2. PICK i \in 1..Len(w) : Names(w[i]) /\ w[i].file = File(n, part)
    BY <2>1 DEF Comes
  <2>3. w[i].file.part = part
    BY <2>2 DEF File
  <2>4. i # 1
    BY <1>1, <1>5, <2>1, <2>3 DEF f
  <2>5. i - 1 \in 1..Len(v) /\ i - 1 \in 1..Len(w) - 1 /\ i - 1 + 1 = i
    BY <1>1, <2>4
  <2>6. v[i - 1] = w[i]
    BY <1>1, <2>5
  <2> QED BY <2>2, <2>5, <2>6
<1>12. \A i \in 1..Len(v) : Names(v[i]) => v[i].file.take = n /\ v[i].file.part \in Len(g) + 1..last
  <2> SUFFICES ASSUME NEW i \in 1..Len(v), Names(v[i])
               PROVE  v[i].file.take = n /\ v[i].file.part \in Len(g) + 1..last
    OBVIOUS
  <2>1. v[i] = w[i + 1] /\ i + 1 \in 1..Len(w) /\ 1 < i + 1
    BY <1>9
  <2>2. v[i].file.take = n /\ v[i].file.part \in Len(h) + 1..last
    BY <2>1 DEF Comes
  <2>3. f.part < v[i].file.part
    BY <1>1, <1>4, <2>1 DEF Comes, f
  <2> QED BY <1>3, <1>5, <2>2, <2>3
<1>13. \A i, j \in 1..Len(v) : i < j /\ Names(v[i]) /\ Names(v[j]) => v[i].file.part < v[j].file.part
  <2>1. \A i, j \in 1..Len(v) : i < j => i + 1 < j + 1
    BY <1>9
  <2> QED BY <1>9, <2>1 DEF Comes
<1>14. Comes(g, v, n, last)
  BY <1>10, <1>11, <1>12, <1>13 DEF Comes
<1> QED BY <1>6, <1>8, <1>14 DEF f, g, v

\* OBS begins: none of the take's files is known, the first is on its way.
LEMMA NothingYet ==
    ASSUME NEW w \in Seq(Message), NEW n \in Nat, \A m \in Range(w) : ~Names(m)
    PROVE  Comes(<<>>, w, n, 0)
<1>1. \A i \in 1..Len(w) : ~Names(w[i])
  BY OnTheWire
<1>2. Len(<<>>) = 0 /\ \A i \in 1..0 : FALSE
  OBVIOUS
<1>3. \A part \in 0 + 1..0 : FALSE
  OBVIOUS
<1> QED BY <1>1, <1>2, <1>3 DEF Comes

LEMMA FilesAppended ==
    ASSUME NEW s \in Seq(Files), NEW f \in Files
    PROVE  Range(Append(s, f)) \subseteq Range(s) \cup {f}
<1>1. /\ Len(s) \in Nat /\ DOMAIN s = 1..Len(s) /\ DOMAIN Append(s, f) = 1..Len(s) + 1
      /\ Append(s, f)[Len(s) + 1] = f /\ \A i \in 1..Len(s) : Append(s, f)[i] = s[i]
  BY AppendProperties, LenProperties
<1>2. \A i \in 1..Len(s) + 1 : i \in 1..Len(s) \/ i = Len(s) + 1
  BY <1>1
<1> QED BY <1>1, <1>2, Zenon DEF Range

\* Files of the take that is open, and the wire that names the others.
LEMMA LiveIs ==
    ASSUME Types, TakesKept, Live
    PROVE  /\ open = Now /\ open \in Takes /\ segments[open] \in Seq(Files)
           /\ Now \in Nat /\ Now \in 1..Len(parts) /\ parts[Now] \in Nat /\ wire \in Seq(Message)
<1>1. open = Now /\ open # 0
  BY DEF TakesKept, Followed, Live
<1>2. Now \in Nat /\ Now = Len(parts) /\ parts \in Seq(1..MaxParts) /\ MaxParts \in Nat
  BY Numbers, ObsIs DEF Now
<1>3. Now \in 1..Len(parts)
  BY <1>1, <1>2
<1>4. parts[Now] \in 1..MaxParts
  BY <1>2, <1>3, ElementOfSeq
<1>5. open \in Takes
  BY <1>1, Numbers, RoomIs DEF Takes, SomeTake
<1> QED BY <1>1, <1>2, <1>3, <1>4, <1>5, RoomIs

LEMMA NobodyStarts ==
    ASSUME \A c \in Everyone : call'[c].phase \notin {"naming", "starting"}
    PROVE  Starts' /\ Opens'
BY DEF Starts, Opens, Starting

LEMMA NothingLive ==
    ASSUME ~Live'
    PROVE  Followed' /\ Own' /\ Known'
BY DEF Followed, Own, Known

LEMMA StaysCut ==
    ASSUME open' \in {0, open}, missed \subseteq missed', Live'
    PROVE  Live /\ open' = open
BY DEF Live

LEMMA SidecarsKept ==
    ASSUME NoForeignFile, sidecars' = sidecars, missed \subseteq missed'
    PROVE  NoForeignFile'
BY DEF NoForeignFile, Takes

\* What the messages of OBS say.
LEMMA SaysIt ==
    /\ \A on \in BOOLEAN : \A file :
        /\ RecordState(on, file).active = on /\ RecordState(on, file).file = file
        /\ RecordState(on, file).take = file.take /\ RecordState(on, file).type = "record"
    /\ \A file : /\ RecordFile(file).file = file /\ RecordFile(file).take = file.take
                 /\ RecordFile(file).type = "file"
BY DEF RecordState, RecordFile

\* What is said is the last of the wire, or nobody hears of that take.
LEMMA Heeded ==
    ASSUME Types, NEW m \in Message, Say(<<m>>)
    PROVE  /\ missed \subseteq missed'
           /\ \/ Connected /\ wire' = Append(wire, m) /\ missed' = missed
              \/ wire = <<>> /\ wire' = <<>> /\ asked = {} /\ m.take \in missed'
           /\ Range(wire) \subseteq Range(wire') /\ Range(wire') \subseteq Range(wire) \cup {m}
<1>1. wire \in Seq(Message) /\ Range(<<m>>) = {m} /\ (~Connected => wire = <<>> /\ asked = {})
  BY RoomIs, SaidOne
<1>2. wire \o <<m>> = Append(wire, m) /\ Range(Append(wire, m)) = Range(wire) \cup {m}
  BY <1>1, Longer
<1> QED BY <1>1, <1>2 DEF Say

LEMMA BothHeeded ==
    ASSUME Types, NEW m \in Message, NEW n \in Message, Say(<<m, n>>), Connected
    PROVE  /\ wire' = Append(Append(wire, m), n) /\ missed' = missed
           /\ Range(wire') = Range(wire) \cup {m, n}
<1>1. wire \in Seq(Message)
  BY RoomIs
<1>2. wire \o <<m, n>> = Append(Append(wire, m), n)
  BY <1>1, LongerByTwo
<1>3. Append(wire, m) \in Seq(Message) /\ Range(Append(wire, m)) = Range(wire) \cup {m}
  BY <1>1, Longer
<1>4. Range(Append(Append(wire, m), n)) = Range(Append(wire, m)) \cup {n}
  BY <1>3, Longer
<1>5. Range(Append(Append(wire, m), n)) = Range(wire) \cup {m, n}
  BY <1>3, <1>4
<1> QED BY <1>2, <1>5 DEF Say

LEMMA KeptObsStart ==
    ASSUME Types, Types', Guard, TakesKept, ~Crossings, ObsStart
    PROVE  TakesKept'
<1>1. wire = <<>> /\ asked = {} /\ \A c \in Everyone : call[c].phase = "idle"
  BY HandIsFree DEF ObsStart
<1>2. /\ Begin /\ Say(<<Began>>) /\ obs = "off" /\ asked' = asked
      /\ UNCHANGED <<open, closing, pending, call, sidecars>>
  BY DEF ObsStart, session, roomVars, Begin
<1>3. Began \in Message /\ Began.type = "record" /\ Began.take = Began.file.take
  <2>1. Began.take = Began.file.take
    BY DEF Began, RecordState
  <2> QED BY <1>2, <2>1, Begins
<1>4. missed \subseteq missed' /\ Range(wire') \subseteq {Began}
  BY <1>1, <1>2, <1>3, Heeded, NothingSaid
<1>5. ~Live
  BY <1>1, <1>2, NothingSaid DEF TakesKept, Followed, Closes
<1>6. ~Live'
  BY <1>2, <1>4, <1>5, StaysCut
<1>7. Exchange'
  BY <1>1, <1>2, <1>3, <1>4 DEF Exchange
<1>8. Armings'
  BY <1>2 DEF TakesKept, Armings, Armed, Closes
<1>9. NoForeignFile'
  BY <1>2, <1>4, SidecarsKept DEF TakesKept
<1> QED BY <1>1, <1>2, <1>6, <1>7, <1>8, <1>9, NobodyStarts, NothingLive DEF TakesKept

LEMMA KeptObsStop ==
    ASSUME Types, Types', Guard, TakesKept, ~Crossings, ObsStop
    PROVE  TakesKept'
<1>1. wire = <<>> /\ asked = {} /\ \A c \in Everyone : call[c].phase = "idle"
  BY HandIsFree DEF ObsStop
<1>2. /\ obs' = "stopping" /\ Now' = Now
      /\ UNCHANGED <<parts, asked, wire, missed, open, segments, closing, pending, call, sidecars>>
  BY DEF ObsStop, linkVars, session, roomVars, Now
<1>3. Live' = Live
  BY <1>2 DEF Live
<1>4. Exchange' /\ Armings'
  BY <1>2 DEF TakesKept, Exchange, Armings, Armed, Closes
<1>5. Followed'
  BY <1>1, <1>2, <1>3 DEF TakesKept, Followed, Armed, Closes
<1>6. Own' /\ Known'
  BY <1>2, <1>3 DEF TakesKept, Own, Known
<1>7. NoForeignFile'
  BY <1>2, SidecarsKept DEF TakesKept
<1> QED BY <1>1, <1>2, <1>4, <1>5, <1>6, <1>7, NobodyStarts DEF TakesKept

\* OBS has stopped: a free hand's doing, or that of a stop.
LEMMA KeptObsStopped ==
    ASSUME Types, Types', Guard, TakesKept, ~Crossings, ObsStopped
    PROVE  TakesKept'
<1> DEFINE m == RecordState(FALSE, File(Now, parts[Now]))
<1>1. /\ obs # "off" /\ obs' = "off" /\ Say(<<m>>) /\ Now' = Now
      /\ UNCHANGED <<parts, asked, open, segments, closing, pending, call, sidecars>>
  BY DEF ObsStopped, session, roomVars, Now
<1>2. m \in Message /\ Stopped(m) /\ ~Names(m) /\ m.type = "record" /\ m.take = m.file.take /\ m.file.take = Now
  <2>1. File(Now, parts[Now]) \in Files /\ File(Now, parts[Now]).take = Now /\ FALSE \in BOOLEAN
    BY <1>1, FileIs DEF File
  <2>2. m \in Message /\ m.type = "record" /\ m.active = FALSE /\ m.file = File(Now, parts[Now])
    BY <2>1, Messages, SaysIt
  <2>3. m.take = m.file.take
    BY <2>1, SaysIt
  <2> HIDE DEF m
  <2> QED BY <2>1, <2>2, <2>3 DEF Stopped, Names
<1> HIDE DEF m
<1>3. /\ missed \subseteq missed'
      /\ \/ Connected /\ wire' = Append(wire, m) /\ missed' = missed
         \/ wire = <<>> /\ wire' = <<>> /\ asked = {} /\ Now \in missed'
      /\ Range(wire) \subseteq Range(wire') /\ Range(wire') \subseteq Range(wire) \cup {m}
  BY <1>1, <1>2, Heeded
<1>4. \A c \in Everyone : call[c].phase \notin {"naming", "starting"}
  <2>1. CASE obs = "stopping"
    BY <2>1 DEF TakesKept, Starts, Starting
  <2>2. CASE FreeHand
    BY <2>2, HandIsFree
  <2> QED BY <2>1, <2>2 DEF ObsStopped
<1>5. ASSUME NEW c \in Everyone, call[c].phase = "stopping" PROVE obs = "stopping"
  <2>1. ~FreeHand
    BY <1>5, HandIsFree
  <2> QED BY <2>1 DEF ObsStopped
<1>6. Exchange'
  <2>1. \A x \in Range(wire') : x \in Range(wire) \/ x = m
    BY <1>3
  <2> QED BY <1>1, <1>2, <2>1 DEF TakesKept, Exchange
<1>7. Armings'
  BY <1>1 DEF TakesKept, Armings, Armed, Closes
<1>8. NoForeignFile'
  BY <1>1, <1>3, SidecarsKept DEF TakesKept
<1>9. ASSUME Live' PROVE Live /\ open = Now /\ wire' = Append(wire, m) /\ missed' = missed /\ Range(wire') = Range(wire) \cup {m}
  <2>1. Live /\ open = Now
    BY <1>1, <1>3, <1>9, StaysCut DEF TakesKept, Followed
  <2>2. wire' = Append(wire, m) /\ missed' = missed
    BY <1>1, <1>3, <1>9, <2>1 DEF Live
  <2>3. Range(wire') = Range(wire) \cup {m}
    BY <1>2, <2>2, Longer, RoomIs
  <2> QED BY <2>1, <2>2, <2>3
<1>10. Followed'
  <2> SUFFICES ASSUME Live' PROVE Followed'
    BY DEF Followed
  <2>1. m \in Range(wire') /\ m.type # "reply"
    BY <1>2, <1>9
  <2>2. \A c \in Everyone : call[c].phase = "stopping" =>
          /\ asked = {} /\ (\E x \in Range(wire) : x.type = "reply" /\ x.take = Now)
          /\ \A x \in Range(wire) : x.type = "reply" => x.ok
    BY <1>5, <1>9 DEF TakesKept, Followed
  <2>3. \A c \in Everyone : Armed(c) => Closes(c)
    BY <1>9 DEF TakesKept, Followed
  <2> QED BY <1>1, <1>2, <1>9, <2>1, <2>2, <2>3 DEF Followed, Armed, Closes
<1>11. Own'
  BY <1>1, <1>2, <1>9 DEF TakesKept, Own
<1>12. Known'
  <2> SUFFICES ASSUME Live', \A c \in Everyone : call[c].phase # "locating"
               PROVE  Comes(segments[open], wire', Now, parts[Now])
    BY <1>1 DEF Known
  <2>1. Comes(segments[open], wire, Now, parts[Now])
    BY <1>9 DEF TakesKept, Known
  <2>2. segments[open] \in Seq(Files) /\ Now \in Nat /\ parts[Now] \in Nat /\ wire \in Seq(Message)
    BY <1>1, <1>9, FileIs, Numbers, RoomIs DEF Live, Takes, SomeTake
  <2> QED BY <1>2, <1>9, <2>1, <2>2, OtherSaid
<1> QED BY <1>1, <1>4, <1>6, <1>7, <1>8, <1>10, <1>11, <1>12, NobodyStarts DEF TakesKept

\* OBS goes on in a new file.
LEMMA KeptObsSplit ==
    ASSUME Types, Types', Guard, TakesKept, ~Crossings, ObsSplit
    PROVE  TakesKept'
<1> DEFINE m == RecordFile(File(Now, parts[Now] + 1))
<1>1. /\ obs = "on" /\ obs' = "on" /\ Say(<<m>>) /\ parts' = [parts EXCEPT ![Now] = @ + 1]
      /\ UNCHANGED <<asked, open, segments, announced, closing, pending, call, sidecars>>
  BY DEF ObsSplit, session, roomVars
<1>2. /\ Now \in 1..Len(parts) /\ Now \in Nat /\ parts[Now] \in Nat /\ parts[Now] + 1 \in 1..MaxParts
      /\ parts \in Seq(1..MaxParts)
  BY <1>1, FileIs, Numbers, RoomIs, ObsIs DEF ObsSplit
<1>3. Now' = Now /\ parts'[Now] = parts[Now] + 1
  BY <1>1, <1>2, ExceptSeq DEF Now
<1>4. m \in Message /\ Names(m) /\ ~Stopped(m) /\ m.type = "file" /\ m.take = m.file.take /\ m.file.take = Now
      /\ m.file = File(Now, parts[Now] + 1)
  <2>1. File(Now, parts[Now] + 1) \in Files /\ File(Now, parts[Now] + 1).take = Now
    BY <1>1, <1>2, FileIs DEF File
  <2> QED BY <2>1, Messages, SaysIt DEF Stopped, Names
<1> HIDE DEF m
<1>5. /\ missed \subseteq missed'
      /\ \/ Connected /\ wire' = Append(wire, m) /\ missed' = missed
         \/ wire = <<>> /\ wire' = <<>> /\ asked = {} /\ Now \in missed'
      /\ Range(wire) \subseteq Range(wire') /\ Range(wire') \subseteq Range(wire) \cup {m}
  BY <1>1, <1>4, Heeded
<1>6. \A x \in Range(wire') : x \in Range(wire) \/ x = m
  BY <1>5
<1>7. Exchange'
  BY <1>1, <1>4, <1>6 DEF TakesKept, Exchange
<1>8. Armings'
  BY <1>1 DEF TakesKept, Armings, Armed, Closes
<1>9. NoForeignFile'
  BY <1>1, <1>5, SidecarsKept DEF TakesKept
<1>10. Starts'
  BY <1>1, <1>4, <1>6 DEF TakesKept, Starts, Starting, Yes
<1>11. wire \in Seq(Message) /\ Heard' = Heard
  BY <1>1, RoomIs DEF Heard
<1>12. ASSUME wire' = Append(wire, m) PROVE Opens'
  <2> SUFFICES ASSUME NEW c \in Everyone, call[c].phase = "starting", NEW p \in 1..Len(wire'), Yes(wire'[p])
               PROVE  /\ wire'[p].take = Now
                      /\ Now \notin missed' =>
                            /\ Comes(Heard, wire', Now, parts'[Now])
                            /\ \A i \in 1..Len(wire') : i < p /\ Names(wire'[i]) => wire'[i].file.part = 1
    BY <1>1, <1>3, <1>11 DEF Opens
  <2>1. /\ Len(wire) \in Nat /\ Len(wire') = Len(wire) + 1 /\ wire'[Len(wire) + 1] = m
        /\ \A i \in 1..Len(wire) : wire'[i] = wire[i]
    BY <1>4, <1>11, <1>12, Longer
  <2>2. p # Len(wire) + 1
    BY <1>4, <2>1 DEF Yes
  <2>3. p \in 1..Len(wire) /\ wire'[p] = wire[p]
    BY <2>1, <2>2
  <2>4. wire[p].take = Now
    BY <2>3 DEF TakesKept, Opens
  <2>5. ASSUME Now \notin missed'
        PROVE  /\ Comes(Heard, wire', Now, parts'[Now])
               /\ \A i \in 1..Len(wire') : i < p /\ Names(wire'[i]) => wire'[i].file.part = 1
    <3>1. Now \notin missed
      BY <1>5, <2>5
    <3>2. /\ Comes(Heard, wire, Now, parts[Now])
          /\ \A i \in 1..Len(wire) : i < p /\ Names(wire[i]) => wire[i].file.part = 1
      BY <2>3, <3>1 DEF TakesKept, Opens
    <3>3. c \in Everyone /\ Starting(c)
      BY DEF Starting
    <3>4. open = 0
      BY <3>3 DEF Guard, OneAtATime, Busy, Starting
    <3>5. Heard \in Seq(Files)
      BY <3>4, RoomIs DEF Heard, SomeFile
    <3>6. Comes(Heard, wire', Now, parts'[Now])
      BY <1>2, <1>3, <1>4, <1>11, <1>12, <3>2, <3>5, NewsSaid
    <3>7. \A i \in 1..Len(wire') : i < p => i \in 1..Len(wire) /\ wire'[i] = wire[i]
      BY <2>1, <2>3
    <3> QED BY <3>2, <3>6, <3>7
  <2> QED BY <2>3, <2>4, <2>5
<1>13. ASSUME wire' = <<>> PROVE Opens'
  <2>1. Len(<<>>) = 0 /\ \A i \in 1..0 : FALSE
    OBVIOUS
  <2> QED BY <1>13, <2>1 DEF Opens
<1>14. ASSUME Live' PROVE Live /\ open = Now /\ wire' = Append(wire, m) /\ missed' = missed
  <2>1. Live /\ open = Now
    BY <1>1, <1>5, <1>14, StaysCut DEF TakesKept, Followed
  <2> QED BY <1>1, <1>5, <1>14, <2>1 DEF Live
<1>15. Followed'
  <2> SUFFICES ASSUME Live' PROVE Followed'
    BY DEF Followed
  <2>1. \A c \in Everyone : call[c].phase = "stopping" =>
          /\ asked # {} \/ \E x \in Range(wire) : x.type = "reply" /\ x.take = Now
          /\ \A x \in Range(wire) : x.type = "reply" => x.ok
    BY <1>14 DEF TakesKept, Followed
  <2>2. \A c \in Everyone : Armed(c) => Closes(c)
    BY <1>14 DEF TakesKept, Followed
  <2> QED BY <1>1, <1>3, <1>4, <1>5, <1>6, <1>14, <2>1, <2>2 DEF Followed, Armed, Closes
<1>16. Own'
  BY <1>1, <1>3, <1>4, <1>6, <1>14 DEF TakesKept, Own
<1>17. Known'
  <2> SUFFICES ASSUME Live', \A c \in Everyone : call[c].phase # "locating"
               PROVE  Comes(segments[open], wire', Now, parts[Now] + 1)
    BY <1>1, <1>3 DEF Known
  <2>1. Comes(segments[open], wire, Now, parts[Now])
    BY <1>14 DEF TakesKept, Known
  <2>2. segments[open] \in Seq(Files)
    BY <1>14, Numbers, RoomIs DEF Live, Takes, SomeTake
  <2> QED BY <1>2, <1>4, <1>11, <1>14, <2>1, <2>2, NewsSaid
<1> QED BY <1>5, <1>7, <1>8, <1>9, <1>10, <1>12, <1>13, <1>15, <1>16, <1>17 DEF TakesKept

\* OBS answers who asked for a take: it begins it, or records already.
LEMMA KeptAnswersStart ==
    ASSUME Types, Types', Guard, TakesKept, ~Crossings, ObsAnswersStart
    PROVE  TakesKept'
<1>1. PICK r \in asked :
         LET yes == [Reply(r.call, TRUE) EXCEPT !.take = Now + 1]
         IN  /\ r.what = "start"
             /\ asked' = asked \ {r}
             /\ \/ Begin /\ (Say(<<yes, Began>>) \/ Say(<<Began, yes>>))
                \/ /\ obs # "off" \/ Now = MaxTakes
                   /\ Say(<<Reply(r.call, FALSE)>>)
                   /\ UNCHANGED outputs
  BY DEF ObsAnswersStart
<1> DEFINE yes == [Reply(r.call, TRUE) EXCEPT !.take = Now + 1]
           no == Reply(r.call, FALSE)
<1>2. UNCHANGED <<open, segments, announced, closing, pending, call, sidecars>>
  BY DEF ObsAnswersStart, session, roomVars
<1>3. /\ r.call \in Calls /\ r.call \in Everyone /\ call[r.call].phase = "starting"
      /\ asked' = {} /\ wire \in Seq(Message) /\ Connected
      /\ \A m \in Range(wire) : m.type # "reply"
      /\ \A m \in Range(wire) : m.type \in {"record", "file"} => m.take = m.file.take
  BY <1>1, RoomIs DEF TakesKept, Exchange, Request
<1>4. /\ open = 0 /\ \A c \in Everyone : c # r.call => call[c].phase = "idle"
      /\ Starting(r.call)
  BY <1>3, OthersIdle DEF Busy, Starting
<1>5. ~Live' /\ Armings'
  BY <1>2, <1>4 DEF TakesKept, Live, Armings, Armed, Closes
<1>6. /\ \A d \in Everyone : call[d].path = NoFile
      /\ \A m \in Range(wire) : ~Stopped(m)
      /\ obs = "off" => (\A m \in Range(wire) : ~Names(m)) /\ announced = NoFile
  BY <1>3, <1>4 DEF TakesKept, Starts
<1>7. CASE Begin /\ (Say(<<yes, Began>>) \/ Say(<<Began, yes>>))
  <2>1. /\ obs = "off" /\ obs' = "on" /\ Now' = Now + 1 /\ Now \in Nat /\ Now + 1 \in Nat
        /\ parts' = Append(parts, 1)
    BY <1>7, Begins, Numbers DEF Begin
  <2>2. parts'[Now'] = 1
    BY <2>1, ObsIs, AppendProperties DEF Now
  <2>3. /\ yes \in Message /\ yes.type = "reply" /\ yes.take = Now + 1 /\ yes.ok = TRUE
    BY <1>3, <1>7, Begins DEF Reply, Message
  <2> HIDE DEF yes
  <2>4. Began \in Message /\ Began.type = "record" /\ Began.active = TRUE /\ Began.take = Began.file.take
        /\ Began.file = File(Now + 1, 1) /\ Began.file.part = 1 /\ Began.file = File(Now + 1, 0 + 1)
    <3>1. File(Now + 1, 1) = File(Now + 1, 0 + 1)
      OBVIOUS
    <3> QED BY <1>7, <3>1, Begins DEF Began, RecordState, File
  <2>5. Names(Began) /\ ~Stopped(Began) /\ ~Names(yes) /\ ~Stopped(yes) /\ Yes(yes) /\ ~Yes(Began)
    BY <2>3, <2>4 DEF Names, Stopped, Yes
  <2>6. /\ missed' = missed /\ Range(wire') = Range(wire) \cup {yes, Began}
        /\ \/ wire' = Append(Append(wire, yes), Began)
           \/ wire' = Append(Append(wire, Began), yes)
    <3>1. CASE Say(<<yes, Began>>)
      BY <1>3, <2>3, <2>4, <3>1, BothHeeded
    <3>2. CASE Say(<<Began, yes>>)
      BY <1>3, <2>3, <2>4, <3>2, BothHeeded
    <3> QED BY <1>7, <3>1, <3>2
  <2>7. \A x \in Range(wire') : x \in Range(wire) \/ x = yes \/ x = Began
    BY <2>6
  <2>8. Exchange'
    BY <1>3, <2>3, <2>4, <2>7 DEF Exchange
  <2>9. NoForeignFile'
    BY <1>2, <2>6, SidecarsKept DEF TakesKept
  <2>10. Starts'
    BY <1>2, <1>6, <2>1, <2>5, <2>7 DEF Starts
  <2>11. Comes(<<>>, wire', Now', 1)
    <3>1. <<>> \in Seq(Files) /\ 0 \in Nat /\ 0 + 1 = 1 /\ Comes(<<>>, wire, Now + 1, 0)
      BY <1>3, <1>6, <2>1, NothingYet
    <3>2. CASE wire' = Append(Append(wire, yes), Began)
      <4>1. Comes(<<>>, Append(wire, yes), Now + 1, 0) /\ Append(wire, yes) \in Seq(Message)
        BY <1>3, <2>1, <2>3, <2>5, <3>1, OtherSaid, Longer
      <4>2. Comes(<<>>, Append(Append(wire, yes), Began), Now + 1, 0 + 1)
        BY <2>1, <2>4, <2>5, <3>1, <4>1, NewsSaid
      <4> QED BY <2>1, <3>1, <3>2, <4>2
    <3>3. CASE wire' = Append(Append(wire, Began), yes)
      <4>1. Comes(<<>>, Append(wire, Began), Now + 1, 0 + 1) /\ Append(wire, Began) \in Seq(Message)
        BY <1>3, <2>1, <2>4, <2>5, <3>1, NewsSaid, Longer
      <4>2. Comes(<<>>, Append(Append(wire, Began), yes), Now + 1, 0 + 1)
        BY <2>1, <2>3, <2>5, <3>1, <4>1, OtherSaid
      <4> QED BY <2>1, <3>1, <3>3, <4>2
    <3> QED BY <2>6, <3>2, <3>3
  <2>12. Heard' = <<>>
    BY <1>2, <1>4, <1>6, <2>1 DEF Heard
  <2>13. wire' \in Seq(Message)
    BY RoomIs DEF Types
  <2>14. \A i \in 1..Len(wire') : /\ Yes(wire'[i]) => wire'[i] = yes
                                  /\ Names(wire'[i]) => wire'[i] = Began
    <3> SUFFICES ASSUME NEW i \in 1..Len(wire')
                 PROVE  /\ Yes(wire'[i]) => wire'[i] = yes
                        /\ Names(wire'[i]) => wire'[i] = Began
      OBVIOUS
    <3>1. wire'[i] \in Range(wire')
      BY <2>13, OnTheWire
    <3> QED BY <1>3, <1>6, <2>1, <2>5, <2>7, <3>1 DEF Yes
  <2>15. Opens'
    BY <2>1, <2>2, <2>3, <2>4, <2>11, <2>12, <2>14 DEF Opens
  <2> QED BY <1>5, <2>8, <2>9, <2>10, <2>15, NothingLive DEF TakesKept
<1>8. CASE Say(<<no>>) /\ UNCHANGED outputs
  <2>1. no \in Message /\ no.type = "reply" /\ no.ok = FALSE /\ ~Names(no) /\ ~Stopped(no) /\ ~Yes(no)
    BY <1>3, Messages DEF Names, Stopped, Yes
  <2> HIDE DEF no
  <2>2. missed \subseteq missed' /\ \A x \in Range(wire') : x \in Range(wire) \/ x = no
    BY <1>8, <2>1, Heeded
  <2>3. Exchange'
    BY <1>3, <2>1, <2>2 DEF Exchange
  <2>4. NoForeignFile'
    BY <1>2, <2>2, SidecarsKept DEF TakesKept
  <2>5. obs' = obs
    BY <1>8 DEF outputs
  <2>6. Starts'
    BY <1>2, <2>1, <2>2, <2>5 DEF TakesKept, Starts, Starting
  <2>7. wire' \in Seq(Message)
    BY RoomIs DEF Types
  <2>8. \A i \in 1..Len(wire') : ~Yes(wire'[i])
    <3> SUFFICES ASSUME NEW i \in 1..Len(wire') PROVE ~Yes(wire'[i])
      OBVIOUS
    <3>1. wire'[i] \in Range(wire')
      BY <2>7, OnTheWire
    <3> QED BY <1>3, <2>1, <2>2, <3>1 DEF Yes
  <2>9. Opens'
    BY <2>8 DEF Opens
  <2> QED BY <1>5, <2>3, <2>4, <2>6, <2>9, NothingLive DEF TakesKept
<1> QED BY <1>1, <1>7, <1>8

\* OBS answers who asked for the end.
LEMMA KeptAnswersStop ==
    ASSUME Types, Types', Guard, TakesKept, ~Crossings, ObsAnswersStop
    PROVE  TakesKept'
<1>1. PICK r \in asked : /\ r.what = "stop" /\ asked' = asked \ {r}
                         /\ Say(<<Reply(r.call, obs # "off")>>)
                         /\ obs' = IF obs = "on" THEN "stopping" ELSE obs
  BY DEF ObsAnswersStop
<1> DEFINE m == Reply(r.call, obs # "off")
<1>2. Now' = Now /\ UNCHANGED <<parts, open, segments, announced, closing, pending, call, sidecars>>
  BY DEF ObsAnswersStop, session, roomVars, Now
<1>3. /\ r.call \in Calls /\ r.call \in Everyone /\ call[r.call].phase = "stopping"
      /\ asked' = {} /\ wire \in Seq(Message) /\ Connected
      /\ \A x \in Range(wire) : x.type # "reply"
      /\ \A x \in Range(wire) : x.type \in {"record", "file"} => x.take = x.file.take
  BY <1>1, RoomIs DEF TakesKept, Exchange, Request
<1>4. \A c \in Everyone : c # r.call => call[c].phase = "idle"
  BY <1>3, OthersIdle DEF Busy
<1>5. /\ m \in Message /\ m.type = "reply" /\ m.take = Now /\ ~Names(m) /\ ~Stopped(m)
      /\ obs # "off" => m.ok
  <2>1. (obs # "off") \in BOOLEAN
    OBVIOUS
  <2>2. m \in Message /\ m.type = "reply" /\ m.take = Now /\ (m.ok <=> obs # "off")
    BY <1>3, <2>1, Messages
  <2> HIDE DEF m
  <2> QED BY <2>2 DEF Names, Stopped
<1>6. Say(<<m>>)
  BY <1>1
<1> HIDE DEF m
<1>7. wire' = Append(wire, m) /\ missed' = missed /\ Range(wire') = Range(wire) \cup {m}
  <2>1. wire' = Append(wire, m) /\ missed' = missed
    BY <1>1, <1>5, <1>6, Heeded
  <2> QED BY <1>3, <1>5, <2>1, Longer
<1>8. Exchange'
  BY <1>3, <1>5, <1>7 DEF Exchange
<1>9. Armings'
  BY <1>2 DEF TakesKept, Armings, Armed, Closes
<1>10. NoForeignFile'
  BY <1>2, <1>7, SidecarsKept DEF TakesKept
<1>11. Starts' /\ Opens'
  BY <1>2, <1>3, <1>4, NobodyStarts
<1>12. ASSUME Live' PROVE Live /\ open = Now /\ obs = "on"
  <2>1. Live
    BY <1>2, <1>7, <1>12 DEF Live
  <2> QED BY <1>1, <1>3, <2>1 DEF TakesKept, Followed
<1>13. Followed'
  <2> SUFFICES ASSUME Live' PROVE Followed'
    BY DEF Followed
  <2>1. obs' = "stopping" /\ m.ok
    BY <1>1, <1>5, <1>12
  <2>2. \A c \in Everyone : Armed(c) => Closes(c)
    BY <1>12 DEF TakesKept, Followed
  <2> QED BY <1>2, <1>3, <1>5, <1>7, <1>12, <2>1, <2>2 DEF Followed, Armed, Closes
<1>14. Own'
  BY <1>2, <1>5, <1>7, <1>12 DEF TakesKept, Own
<1>15. Known'
  <2> SUFFICES ASSUME Live', \A c \in Everyone : call[c].phase # "locating"
               PROVE  Comes(segments[open], wire', Now, parts[Now])
    BY <1>2 DEF Known
  <2>1. Comes(segments[open], wire, Now, parts[Now])
    BY <1>12 DEF TakesKept, Known
  <2>2. segments[open] \in Seq(Files) /\ Now \in Nat /\ parts[Now] \in Nat
    BY <1>2, <1>12, FileIs, Numbers, RoomIs DEF Live, Takes, SomeTake
  <2> QED BY <1>3, <1>5, <1>7, <2>1, <2>2, OtherSaid
<1> QED BY <1>8, <1>9, <1>10, <1>11, <1>13, <1>14, <1>15 DEF TakesKept

\* The link is lost, or OBS: what was on its way is missed.
LEMMA KeptLost ==
    ASSUME Types, Types', Guard, TakesKept, Lose, obs' \in {"off", obs},
           UNCHANGED <<parts, session, pending, sidecars>>
    PROVE  TakesKept'
<1>1. /\ asked' = {} /\ wire' = <<>> /\ Range(wire') = {} /\ call' = RefusedCalls /\ Now' = Now
      /\ UNCHANGED <<open, segments, announced, pending, sidecars, parts>>
      /\ closing' = (closing /\ \A c \in Calls : call[c].phase # "stopping")
      /\ missed \subseteq missed' /\ \A m \in Range(wire) : m.take \in missed'
      /\ asked # {} \/ obs' # obs => Now \in missed'
  BY NothingSaid DEF Lose, session, Now
<1>2. /\ \A c \in Everyone : call'[c].phase = IF call[c].phase \in {"starting", "stopping"} THEN "idle"
                                               ELSE call[c].phase
      /\ \A c \in Everyone : call[c].phase \notin {"starting", "stopping"} => call'[c] = call[c]
  BY <1>1, RefusedIs
<1>3. \A c \in Everyone : call'[c].path = call[c].path
  <2> SUFFICES ASSUME NEW c \in Everyone PROVE call'[c].path = call[c].path
    OBVIOUS
  <2>1. CASE call[c].phase = "starting"
    BY <1>1, <2>1 DEF RefusedCalls, Idle, TakesKept, Starts, Starting
  <2>2. CASE call[c].phase = "stopping"
    BY <1>1, <2>2, CallsAre DEF RefusedCalls, Call
  <2> QED BY <1>2, <2>1, <2>2
<1>4. Exchange'
  BY <1>1 DEF Exchange
<1>5. Armings'
  <2>1. \A c \in Everyone : /\ Armed(c)' <=> pending' = c
                            /\ Armed(c)' => call'[c].phase # "locating"
    BY <1>1, <1>2, <1>3 DEF TakesKept, Armings, Armed
  <2>2. call'[ByObs].phase \in {"idle", "waiting", "locating"}
    BY <1>2, RoomIs DEF TakesKept, Armings
  <2>3. ASSUME closing' PROVE \E c \in Everyone : Closes(c)'
    <3>1. PICK c \in Everyone : Closes(c)
      BY <1>1, <2>3 DEF TakesKept, Armings
    <3>2. call[c].phase # "stopping"
      BY <1>1, <2>3 DEF TakesKept, Armings, Everyone
    <3> QED BY <1>2, <3>1, <3>2 DEF Closes
  <2> QED BY <2>1, <2>2, <2>3 DEF Armings
<1>6. Starts'
  <2> SUFFICES ASSUME NEW c \in Everyone, call'[c].phase \in {"naming", "starting"}
               PROVE  /\ \A d \in Everyone : call'[d].path = NoFile
                      /\ obs' # "stopping"
                      /\ \A m \in Range(wire') : ~Stopped(m) /\ (Yes(m) => obs' = "on")
                      /\ obs' = "off" => /\ \A m \in Range(wire') : ~Names(m)
                                         /\ call'[c].phase = "starting" => announced' = NoFile
    BY DEF Starts, Starting
  <2>1. Starting(c) /\ call'[c].phase = "naming"
    BY <1>2 DEF Starting
  <2>2. obs # "stopping" /\ \A d \in Everyone : call[d].path = NoFile
    BY <2>1 DEF TakesKept, Starts
  <2> QED BY <1>1, <1>3, <2>1, <2>2
<1>7. Opens'
  BY <1>2 DEF Opens
<1>8. ASSUME Live'
      PROVE  /\ Live /\ open = Now /\ asked = {} /\ obs' = obs
             /\ \A m \in Range(wire) : ~Names(m) /\ ~Stopped(m)
             /\ \A c \in Everyone : call[c].phase # "stopping"
  <2>1. Live /\ open = Now /\ Now \notin missed'
    BY <1>1, <1>8, StaysCut DEF Live, TakesKept, Followed
  <2>2. asked = {} /\ obs' = obs
    BY <1>1, <2>1
  <2>3. \A m \in Range(wire) : m.type \in {"record", "file"} => m.take = Now
    BY <2>1 DEF TakesKept, Own, Exchange
  <2>4. \A m \in Range(wire) : ~Names(m) /\ ~Stopped(m)
    BY <1>1, <2>1, <2>3 DEF Names, Stopped
  <2>5. \A c \in Everyone : call[c].phase # "stopping"
    BY <1>1, <2>1, <2>2 DEF TakesKept, Followed
  <2> QED BY <2>1, <2>2, <2>4, <2>5
<1>9. Followed'
  <2> SUFFICES ASSUME Live' PROVE Followed'
    BY DEF Followed
  <2>1. \A c \in Everyone : Closes(c) => Closes(c)'
    BY <1>2, <1>8 DEF Closes
  <2>2. obs = "off" => \E c \in Everyone : Closes(c)
    BY <1>8 DEF TakesKept, Followed
  <2>3. \A c \in Everyone : Armed(c)' => Closes(c)'
    BY <1>3, <1>8, <2>1 DEF TakesKept, Followed, Armed
  <2>4. \A c \in Everyone : call'[c].phase # "stopping"
    BY <1>2, <1>8
  <2> QED BY <1>1, <1>8, <2>1, <2>2, <2>3, <2>4 DEF Followed
<1>10. Own'
  BY <1>1, <1>3, <1>8 DEF TakesKept, Own
<1>11. Known'
  <2> SUFFICES ASSUME Live', \A c \in Everyone : call'[c].phase # "locating"
               PROVE  Comes(segments[open], wire', Now, parts[Now])
    BY <1>1 DEF Known
  <2>1. Comes(segments[open], wire, Now, parts[Now])
    BY <1>2, <1>8 DEF TakesKept, Known
  <2>2. \A i \in 1..Len(wire) : ~Names(wire[i])
    BY <1>8, OnTheWire, RoomIs
  <2>3. \A i \in 1..Len(<<>>) : FALSE
    OBVIOUS
  <2> QED BY <1>1, <2>1, <2>2, <2>3, NothingComes
<1>12. NoForeignFile'
  BY <1>1, SidecarsKept DEF TakesKept
<1> QED BY <1>4, <1>5, <1>6, <1>7, <1>9, <1>10, <1>11, <1>12 DEF TakesKept

\* Nothing of it changes.
LEMMA KeptSame ==
    ASSUME TakesKept, UNCHANGED <<obs, parts, asked, wire, missed, open, segments, announced, pending,
                                  closing, call, sidecars>>
    PROVE  TakesKept'
<1>1. Now' = Now /\ Live' = Live /\ Heard' = Heard
  BY DEF Now, Live, Heard
<1>2. Exchange' /\ Armings' /\ Starts' /\ NoForeignFile'
  BY DEF TakesKept, Exchange, Armings, Starts, NoForeignFile, Armed, Closes, Starting, Takes
<1>3. Opens' /\ Followed' /\ Own' /\ Known'
  BY <1>1 DEF TakesKept, Opens, Followed, Own, Known, Armed, Closes
<1> QED BY <1>2, <1>3 DEF TakesKept

\* A session starts afresh.
LEMMA KeptAfresh ==
    ASSUME Types, Types', Guard, TakesKept, Restart \/ Reconnect
    PROVE  TakesKept'
<1>1. /\ asked' = {} /\ wire' = <<>> /\ Range(wire') = {} /\ open' = 0 /\ missed \subseteq missed'
      /\ sidecars' = sidecars
  BY NothingSaid DEF Restart, Reconnect, Afresh
<1>2. \A c \in Everyone : call'[c].phase = "idle"
  BY DEF Restart, Reconnect, Idle
<1>3. Armings'
  <2>1. CASE Restart
    <3>1. pending' = NoCall /\ closing' = FALSE /\ \A c \in Everyone : call'[c] = Idle
      BY <2>1 DEF Restart
    <3>2. \A c \in Everyone : call'[c].path # Awaited /\ c # NoCall
      BY <3>1, NoFileAssumption, NamesAssumption DEF Idle, Everyone
    <3> QED BY <1>2, <3>1, <3>2, RoomIs DEF Armings, Armed
  <2>2. CASE Reconnect
    BY <2>2 DEF TakesKept, Armings, Armed, Closes, Reconnect, roomVars
  <2> QED BY <2>1, <2>2
<1>4. ~Live'
  BY <1>1 DEF Live
<1>5. Exchange'
  BY <1>1 DEF Exchange
<1> QED BY <1>1, <1>2, <1>3, <1>4, <1>5, NobodyStarts, NothingLive, SidecarsKept DEF TakesKept

\* What OBS is doing is read.
LEMMA KeptReads ==
    ASSUME Types, Types', Guard, TakesKept, ObsAnswersStatus
    PROVE  TakesKept'
<1> DEFINE m == StatusRead
<1>1. /\ wire' = Append(wire, m) /\ Now' = Now
      /\ UNCHANGED <<obs, parts, asked, missed, open, segments, announced, pending, closing, call, sidecars>>
  BY DEF ObsAnswersStatus, outputs, linkVars, session, roomVars, Now
<1>2. m \in Message /\ m.type = "status" /\ ~Names(m) /\ ~Stopped(m) /\ ~Yes(m) /\ wire \in Seq(Message)
  BY Messages, RoomIs DEF Names, Stopped, Yes
<1> HIDE DEF m
<1>3. /\ Range(wire') = Range(wire) \cup {m} /\ Len(wire) \in Nat /\ Len(wire') = Len(wire) + 1
      /\ \A i \in 1..Len(wire) : wire'[i] = wire[i]
      /\ wire'[Len(wire) + 1] = m
  BY <1>1, <1>2, Longer
<1>4. Live' = Live /\ Heard' = Heard
  BY <1>1 DEF Live, Heard
<1>5. Exchange' /\ Armings' /\ Starts' /\ NoForeignFile'
  BY <1>1, <1>2, <1>3, SidecarsKept DEF TakesKept, Exchange, Armings, Starts, Armed, Closes, Starting
<1>6. Followed'
  <2> SUFFICES ASSUME Live PROVE Followed'
    BY <1>4 DEF Followed
  <2>1. /\ open = Now
        /\ obs = "off" => (\E x \in Range(wire) : Stopped(x)) \/ \E c \in Everyone : Closes(c)
        /\ \A c \in Everyone : Armed(c) => Closes(c)
        /\ \A c \in Everyone : call[c].phase = "stopping" =>
              /\ asked # {} \/ \E x \in Range(wire) : x.type = "reply" /\ x.take = Now
              /\ asked # {} => obs = "on"
              /\ \A x \in Range(wire) : x.type = "reply" => x.ok
    BY DEF TakesKept, Followed
  <2> QED BY <1>1, <1>2, <1>3, <2>1 DEF Followed, Armed, Closes
<1>7. Own'
  BY <1>1, <1>2, <1>3, <1>4 DEF TakesKept, Own
<1>8. Known'
  <2> SUFFICES ASSUME Live, \A c \in Everyone : call[c].phase # "locating"
               PROVE  Comes(segments[open], wire', Now, parts[Now])
    BY <1>1, <1>4 DEF Known
  <2>1. Comes(segments[open], wire, Now, parts[Now])
    BY DEF TakesKept, Known
  <2> QED BY <1>1, <1>2, <2>1, LiveIs, OtherSaid
<1>9. Opens'
  <2> SUFFICES ASSUME NEW c \in Everyone, call[c].phase = "starting", NEW p \in 1..Len(wire'), Yes(wire'[p])
               PROVE  /\ wire'[p].take = Now
                      /\ Now \notin missed =>
                            /\ Comes(Heard, wire', Now, parts[Now])
                            /\ \A i \in 1..Len(wire') : i < p /\ Names(wire'[i]) => wire'[i].file.part = 1
    BY <1>1, <1>4 DEF Opens
  <2>1. p # Len(wire) + 1
    BY <1>2, <1>3
  <2>2. p \in 1..Len(wire) /\ wire'[p] = wire[p]
    BY <1>3, <2>1
  <2>3. wire[p].take = Now
    BY <2>2 DEF TakesKept, Opens
  <2>4. ASSUME Now \notin missed
        PROVE  /\ Comes(Heard, wire', Now, parts[Now])
               /\ \A i \in 1..Len(wire') : i < p /\ Names(wire'[i]) => wire'[i].file.part = 1
    <3>1. /\ Comes(Heard, wire, Now, parts[Now])
          /\ \A i \in 1..Len(wire) : i < p /\ Names(wire[i]) => wire[i].file.part = 1
      BY <2>2, <2>4 DEF TakesKept, Opens
    <3>2. open = 0 /\ obs = "on"
      <4>1. Starting(c)
        BY DEF Starting
      <4>2. wire[p] \in Range(wire)
        BY <1>2, <2>2, OnTheWire
      <4> QED BY <2>2, <4>1, <4>2 DEF Guard, OneAtATime, Busy, Starting, TakesKept, Starts
    <3>3. Heard \in Seq(Files) /\ Now \in Nat /\ parts[Now] \in Nat
      <4>1. Heard \in Seq(Files)
        BY <3>2, RoomIs DEF Heard, SomeFile
      <4>2. parts[Now] \in 1..MaxParts /\ Now \in Nat
        BY <3>2, FileIs, Numbers
      <4> QED BY <4>1, <4>2
    <3>4. Comes(Heard, wire', Now, parts[Now])
      BY <1>1, <1>2, <3>1, <3>3, OtherSaid
    <3>5. \A i \in 1..Len(wire') : i < p => i \in 1..Len(wire) /\ wire'[i] = wire[i]
      BY <1>3, <2>2
    <3> QED BY <3>1, <3>4, <3>5
  <2> QED BY <2>2, <2>3, <2>4
<1> QED BY <1>5, <1>6, <1>7, <1>8, <1>9 DEF TakesKept

\* Something is heard.
Hearing == wire # <<>> /\ wire' = Tail(wire) /\ UNCHANGED <<outputs, asked, missed>>

LEMMA HearingIs ==
    ASSUME Types, Hearing
    PROVE  /\ Head(wire) \in Message /\ Head(wire) = wire[1] /\ Head(wire) \in Range(wire)
           /\ wire \in Seq(Message) /\ Len(wire) \in Nat /\ Len(wire) >= 1 /\ 1 \in 1..Len(wire)
           /\ Len(wire') = Len(wire) - 1
           /\ \A i \in 1..Len(wire') : wire'[i] = wire[i + 1] /\ i + 1 \in 1..Len(wire) /\ i \in Nat
           /\ Range(wire) = {Head(wire)} \cup Range(wire')
           /\ obs' = obs /\ parts' = parts /\ Now' = Now /\ asked' = asked /\ missed' = missed
<1>1. wire \in Seq(Message) /\ wire # <<>> /\ wire' = Tail(wire)
  BY RoomIs DEF Hearing
<1>2. /\ Head(wire) \in Message /\ Head(wire) = wire[1] /\ Len(wire) \in Nat /\ Len(wire) >= 1
      /\ Len(wire') = Len(wire) - 1
      /\ \A i \in 1..Len(wire) - 1 : wire'[i] = wire[i + 1] /\ i + 1 \in 1..Len(wire)
      /\ Range(wire) = {Head(wire)} \cup Range(wire')
  BY <1>1, Shorter
<1> QED BY <1>1, <1>2 DEF Hearing, outputs, Now

\* Who was told yes has the take open, with the files it had heard of.
LEMMA KeptTold ==
    ASSUME Types, Types', Guard, TakesKept, Hearing, NEW c \in Calls,
           Head(wire).type = "reply", Head(wire).call = c, HearStart(c)
    PROVE  TakesKept'
<1> DEFINE m == Head(wire)
<1>1. /\ m \in Message /\ m = wire[1] /\ m \in Range(wire) /\ 1 \in 1..Len(wire)
      /\ Range(wire) = {m} \cup Range(wire') /\ obs' = obs /\ parts' = parts /\ Now' = Now
      /\ asked' = asked /\ missed' = missed /\ wire \in Seq(Message)
  BY HearingIs
<1>2. /\ call[c].phase = "starting" /\ call' = [call EXCEPT ![c] = Idle]
      /\ UNCHANGED <<closing, pending, sidecars>> /\ m.type = "reply"
  BY DEF HearStart, roomVars
<1>3. c \in Everyone /\ call \in [Everyone -> Call] /\ ByObs \in Everyone
  BY RoomIs
<1>4. Starting(c) /\ open = 0 /\ \A d \in Everyone : d # c => call[d].phase = "idle"
  BY <1>2, <1>3, OthersIdle DEF Busy, Starting
<1>5. /\ \A d \in Everyone : call[d].path = NoFile
      /\ \A x \in Range(wire) : ~Stopped(x) /\ (Yes(x) => obs = "on")
  BY <1>3, <1>4 DEF TakesKept, Starts
<1>6. \A d \in Everyone : call'[d].phase = "idle" /\ call'[d].path = NoFile
  BY <1>2, <1>3, <1>4, <1>5 DEF Idle
<1>7. \A d \in Everyone : pending # d
  BY <1>5, NoFileAssumption DEF TakesKept, Armings, Armed
<1>8. ~closing
  BY <1>2, <1>4, <1>3 DEF TakesKept, Armings, Closes
<1>9. Armings'
  BY <1>2, <1>3, <1>6, <1>7, <1>8, NoFileAssumption DEF Armings, Armed
<1>10. asked = {}
  BY <1>1, <1>2 DEF TakesKept, Exchange
<1>11. Exchange'
  BY <1>1, <1>10 DEF TakesKept, Exchange
<1>12. NoForeignFile'
  BY <1>1, <1>2, SidecarsKept DEF TakesKept
<1>13. Starts' /\ Opens'
  BY <1>6, NobodyStarts
<1>14. CASE ~m.ok
  <2>1. open' = open
    BY <1>14 DEF HearStart, session
  <2>2. ~Live'
    BY <1>4, <2>1 DEF Live
  <2> QED BY <1>9, <1>11, <1>12, <1>13, <2>2, NothingLive DEF TakesKept
<1>15. CASE m.ok
  <2>1. /\ open' = m.take
        /\ segments' = [segments EXCEPT ![m.take] = IF announced = NoFile THEN <<>> ELSE <<announced>>]
    BY <1>15 DEF HearStart
  <2>2. Yes(m) /\ ~Names(m)
    BY <1>2, <1>15 DEF Yes, Names
  <2>3. m.take = Now /\ obs = "on" /\ (Now \notin missed => Comes(Heard, wire, Now, parts[Now]))
    BY <1>1, <1>2, <1>3, <1>5, <2>2 DEF TakesKept, Opens
  <2>4. Now \in Takes /\ Now \in Nat /\ parts[Now] \in Nat
    <3>1. Now \in 1..Len(parts) /\ parts[Now] \in 1..MaxParts
      BY <2>3, FileIs
    <3>2. Now \in Nat /\ Now <= MaxTakes /\ MaxTakes \in Nat
      BY Numbers, ObsIs
    <3> QED BY <3>1, <3>2 DEF Takes
  <2>5. Heard = (IF announced = NoFile THEN <<>> ELSE <<announced>>) /\ Heard \in Seq(Files)
    BY <1>4, RoomIs DEF Heard, SomeFile
  <2>6. segments'[Now] = Heard
    BY <2>1, <2>3, <2>4, <2>5, RoomIs
  <2>7. ASSUME Live' PROVE Comes(Heard, wire, Now, parts[Now]) /\ Comes(Heard, wire', Now, parts[Now])
    <3>1. Comes(Heard, wire, Now, parts[Now])
      BY <1>1, <2>1, <2>3, <2>7 DEF Live
    <3>2. wire # <<>> /\ wire' = Tail(wire)
      BY DEF Hearing
    <3> QED BY <1>1, <2>2, <2>4, <2>5, <3>1, <3>2, OtherHeard
  <2>8. Followed'
    BY <1>1, <1>6, <2>1, <2>3, NoFileAssumption DEF Followed, Armed
  <2>9. Own'
    <3> SUFFICES ASSUME Live'
                 PROVE  /\ \A x \in Range(wire') : x.type \in {"record", "file"} => x.file.take = Now
                        /\ \A d \in Everyone : call'[d].path \notin Files
                        /\ \A f \in Range(segments'[Now]) : f.take = Now
      BY <1>1, <2>1, <2>3 DEF Own
    <3>1. \A f \in Range(segments'[Now]) : f.take = Now
      BY <2>4, <2>5, <2>6, <2>7, KnownAreOwn
    <3>2. \A d \in Everyone : call'[d].path \notin Files
      BY <1>6, NoFileAssumption
    <3>3. ASSUME NEW x \in Range(wire'), x.type \in {"record", "file"} PROVE x.file.take = Now
      <4>1. x \in Range(wire) /\ ~Stopped(x)
        BY <1>1, <1>5
      <4>2. Names(x)
        BY <3>3, <4>1, RangeIs, <1>1, MessageIs DEF Names, Stopped
      <4>3. PICK i \in 1..Len(wire) : wire[i] = x
        BY <1>1, <4>1, OnTheWire
      <4> QED BY <2>7, <4>2, <4>3 DEF Comes
    <3> QED BY <3>1, <3>2, <3>3
  <2>10. Known'
    BY <1>1, <2>1, <2>3, <2>6, <2>7 DEF Known
  <2> QED BY <1>9, <1>11, <1>12, <1>13, <2>8, <2>9, <2>10 DEF TakesKept
<1> QED BY <1>14, <1>15

\* Who asked for the end is answered.
LEMMA KeptAnswered ==
    ASSUME Types, Types', Guard, TakesKept, Hearing, NEW c \in Calls,
           Head(wire).type = "reply", Head(wire).call = c, HearStop(c)
    PROVE  TakesKept'
<1> DEFINE m == Head(wire)
<1>1. /\ m \in Message /\ m \in Range(wire) /\ Range(wire) = {m} \cup Range(wire')
      /\ obs' = obs /\ parts' = parts /\ Now' = Now /\ asked' = asked /\ missed' = missed
      /\ wire \in Seq(Message)
  BY HearingIs
<1>2. /\ call[c].phase = "stopping" /\ m.type = "reply" /\ ~Names(m) /\ ~Stopped(m)
      /\ UNCHANGED <<open, segments, announced, pending, sidecars>>
  BY DEF HearStop, session, Names, Stopped
<1>3. c \in Everyone /\ call \in [Everyone -> Call] /\ ByObs \in Everyone
  BY RoomIs
<1>4. \A d \in Everyone : d # c => call[d].phase = "idle"
  BY <1>2, <1>3, OthersIdle DEF Busy
<1>5. asked = {}
  BY <1>1, <1>2 DEF TakesKept, Exchange
<1>6. Exchange'
  BY <1>1, <1>5 DEF TakesKept, Exchange
<1>7. NoForeignFile'
  BY <1>1, <1>2, SidecarsKept DEF TakesKept
<1>8. c # ByObs
  BY <1>2 DEF TakesKept, Armings
<1>9. CASE m.ok
  <2>1. call' = [call EXCEPT ![c].phase = "waiting"] /\ closing' = closing
    BY <1>9 DEF HearStop
  <2>2. /\ call'[c].phase = "waiting" /\ \A d \in Everyone : d # c => call'[d].phase = "idle"
        /\ \A d \in Everyone : call'[d].path = call[d].path
    BY <1>3, <1>4, <2>1 DEF Call
  <2>3. Armings'
    BY <1>2, <1>3, <1>8, <2>1, <2>2 DEF TakesKept, Armings, Armed, Closes
  <2>4. Starts' /\ Opens'
    BY <1>3, <2>2, NobodyStarts
  <2>5. Live' = Live
    BY <1>1, <1>2 DEF Live
  <2>6. Followed'
    <3> SUFFICES ASSUME Live PROVE Followed'
      BY <2>5 DEF Followed
    <3>1. open = Now /\ \A d \in Everyone : Armed(d) => Closes(d)
      BY DEF TakesKept, Followed
    <3>2. Closes(c)' /\ \A d \in Everyone : call'[d].phase # "stopping"
      BY <2>2 DEF Closes
    <3>3. \A d \in Everyone : Armed(d)' => Closes(d)'
      BY <1>4, <2>2, <3>1, <3>2 DEF Armed, Closes
    <3> QED BY <1>1, <1>2, <1>3, <3>1, <3>2, <3>3 DEF Followed
  <2>7. Own'
    BY <1>1, <1>2, <2>2, <2>5 DEF TakesKept, Own
  <2>8. Known'
    <3> SUFFICES ASSUME Live PROVE Comes(segments[open], wire', Now, parts[Now])
      BY <1>1, <1>2, <2>5 DEF Known
    <3>1. \A d \in Everyone : call[d].phase # "locating"
      BY <1>2, <1>4
    <3>2. Comes(segments[open], wire, Now, parts[Now])
      BY <3>1 DEF TakesKept, Known
    <3>3. wire # <<>> /\ wire' = Tail(wire)
      BY DEF Hearing
    <3> QED BY <1>2, <3>2, <3>3, LiveIs, OtherHeard
  <2> QED BY <1>6, <1>7, <2>3, <2>4, <2>6, <2>7, <2>8 DEF TakesKept
<1>10. CASE ~m.ok
  <2>1. ~Live
    BY <1>1, <1>2, <1>3, <1>10 DEF TakesKept, Followed
  <2>2. ~Live'
    BY <1>1, <1>2, <2>1 DEF Live
  <2>3. PICK f : f = IF Armed(c) THEN call[c].path ELSE NoFile
    OBVIOUS
  <2>4. call' = [call EXCEPT ![c].phase = "idle", ![c].path = f] /\ closing' = FALSE
    BY <1>10, <2>3 DEF HearStop
  <2>5. /\ call'[c].phase = "idle" /\ call'[c].path = f
        /\ \A d \in Everyone : d # c => call'[d] = call[d]
    BY <1>3, <2>4 DEF Call
  <2>6. \A d \in Everyone : Armed(d)' <=> Armed(d)
    BY <2>3, <2>5, NoFileAssumption DEF Armed
  <2>7. Armings'
    BY <1>2, <1>3, <1>8, <2>4, <2>5, <2>6 DEF TakesKept, Armings
  <2>8. Starts' /\ Opens'
    BY <1>4, <2>5, NobodyStarts
  <2> QED BY <1>6, <1>7, <2>2, <2>7, <2>8, NothingLive DEF TakesKept
<1> QED BY <1>9, <1>10

\* A message that changes nothing the calls do, and ends nothing, is heard.
LEMMA KeptCallsHear ==
    ASSUME Types, TakesKept, Hearing, UNCHANGED <<open, closing, pending, call, sidecars>>
    PROVE  /\ Exchange' /\ Armings' /\ NoForeignFile' /\ Live' = Live
           /\ ~Stopped(Head(wire)) /\ Head(wire).type # "reply" => Followed'
<1>1. /\ Range(wire) = {Head(wire)} \cup Range(wire')
      /\ obs' = obs /\ Now' = Now /\ asked' = asked /\ missed' = missed
  BY HearingIs
<1>2. Exchange' /\ Armings'
  BY <1>1 DEF TakesKept, Exchange, Armings, Armed, Closes
<1>3. NoForeignFile' /\ Live' = Live
  BY <1>1, SidecarsKept DEF TakesKept, Live
<1>4. ASSUME ~Stopped(Head(wire)), Head(wire).type # "reply" PROVE Followed'
  <2> SUFFICES ASSUME Live PROVE Followed'
    BY <1>3 DEF Followed
  <2>1. \A x \in Range(wire) : Stopped(x) \/ x.type = "reply" => x \in Range(wire')
    BY <1>1, <1>4
  <2>2. /\ open = Now
        /\ obs = "off" => (\E m \in Range(wire) : Stopped(m)) \/ \E c \in Everyone : Closes(c)
        /\ \A c \in Everyone : Armed(c) => Closes(c)
        /\ \A c \in Everyone : call[c].phase = "stopping" =>
              /\ asked # {} \/ \E m \in Range(wire) : m.type = "reply" /\ m.take = Now
              /\ asked # {} => obs = "on"
              /\ \A m \in Range(wire) : m.type = "reply" => m.ok
    BY DEF TakesKept, Followed
  <2>3. obs = "off" => (\E m \in Range(wire') : Stopped(m)) \/ \E c \in Everyone : Closes(c)
    BY <2>1, <2>2
  <2>4. \A c \in Everyone : call[c].phase = "stopping" =>
              /\ asked # {} \/ \E m \in Range(wire') : m.type = "reply" /\ m.take = Now
              /\ asked # {} => obs = "on"
              /\ \A m \in Range(wire') : m.type = "reply" => m.ok
    BY <1>1, <2>1, <2>2
  <2> QED BY <1>1, <2>2, <2>3, <2>4 DEF Followed, Armed, Closes
<1> QED BY <1>2, <1>3, <1>4

\* The link is adopted.
LEMMA KeptAdopted ==
    ASSUME Types, TakesKept, Guard, Hearing, UNCHANGED <<session, closing, pending, call, sidecars>>,
           Head(wire).type = "status"
    PROVE  TakesKept'
<1> DEFINE m == Head(wire)
<1>1. /\ wire \in Seq(Message) /\ Range(wire') \subseteq Range(wire) /\ wire # <<>> /\ wire' = Tail(wire)
      /\ obs' = obs /\ parts' = parts /\ Now' = Now /\ missed' = missed
      /\ \A i \in 1..Len(wire') : wire'[i] = wire[i + 1] /\ i + 1 \in 1..Len(wire) /\ i \in Nat
  BY HearingIs DEF Hearing
<1>2. ~Names(m) /\ ~Stopped(m) /\ m.type # "reply"
  BY DEF Names, Stopped
<1>3. UNCHANGED <<open, segments, announced>> /\ Heard' = Heard
  BY DEF session, Heard
<1>4. Exchange' /\ Armings' /\ NoForeignFile' /\ Live' = Live /\ Followed'
  BY <1>2, <1>3, KeptCallsHear
<1>5. Starts'
  BY <1>1, <1>3 DEF TakesKept, Starts, Starting
<1>6. Own'
  BY <1>1, <1>3, <1>4 DEF TakesKept, Own
<1>7. Known'
  BY <1>1, <1>2, <1>3, <1>4, LiveIs, OtherHeard DEF TakesKept, Known
<1>8. Opens'
  <2> SUFFICES ASSUME NEW c \in Everyone, call[c].phase = "starting", NEW p \in 1..Len(wire'), Yes(wire'[p])
               PROVE  /\ wire'[p].take = Now
                      /\ Now \notin missed =>
                            /\ Comes(Heard, wire', Now, parts[Now])
                            /\ \A i \in 1..Len(wire') : i < p /\ Names(wire'[i]) => wire'[i].file.part = 1
    BY <1>1, <1>3 DEF Opens
  <2>1. p + 1 \in 1..Len(wire) /\ wire'[p] = wire[p + 1] /\ Yes(wire[p + 1])
    BY <1>1
  <2>2. wire[p + 1].take = Now
    BY <2>1 DEF TakesKept, Opens
  <2>3. ASSUME Now \notin missed
        PROVE  /\ Comes(Heard, wire', Now, parts[Now])
               /\ \A i \in 1..Len(wire') : i < p /\ Names(wire'[i]) => wire'[i].file.part = 1
    <3>1. /\ Comes(Heard, wire, Now, parts[Now])
          /\ \A i \in 1..Len(wire) : i < p + 1 /\ Names(wire[i]) => wire[i].file.part = 1
      BY <2>1, <2>3 DEF TakesKept, Opens
    <3>2. Starting(c) /\ open = 0 /\ obs = "on"
      <4>1. Starting(c)
        BY DEF Starting
      <4>2. wire[p + 1] \in Range(wire)
        BY <1>1, <2>1, OnTheWire
      <4> QED BY <2>1, <4>1, <4>2 DEF Guard, OneAtATime, Busy, Starting, TakesKept, Starts
    <3>3. Heard \in Seq(Files) /\ Now \in Nat /\ parts[Now] \in Nat
      <4>1. Heard \in Seq(Files)
        BY <3>2, RoomIs DEF Heard, SomeFile
      <4>2. parts[Now] \in 1..MaxParts /\ Now \in Nat
        BY <3>2, FileIs, Numbers
      <4> QED BY <4>1, <4>2
    <3>4. Comes(Heard, wire', Now, parts[Now])
      BY <1>1, <1>2, <3>1, <3>3, OtherHeard
    <3>5. \A i \in 1..Len(wire') : i < p => i + 1 < p + 1
      BY <1>1
    <3> QED BY <1>1, <3>1, <3>4, <3>5
  <2> QED BY <2>1, <2>2, <2>3
<1> QED BY <1>4, <1>5, <1>6, <1>7, <1>8 DEF TakesKept

\* A file is named: of the open take, or before the take is open.
LEMMA KeptNamed ==
    ASSUME Types, Types', Guard, TakesKept, Hearing, Names(Head(wire)), NoteSegment(Head(wire).file),
           UNCHANGED <<closing, pending, call, sidecars>>
    PROVE  TakesKept'
<1> DEFINE m == Head(wire)
<1>1. /\ wire \in Seq(Message) /\ Range(wire') \subseteq Range(wire) /\ wire # <<>> /\ wire' = Tail(wire)
      /\ m \in Message /\ m \in Range(wire) /\ m = wire[1]
      /\ obs' = obs /\ parts' = parts /\ Now' = Now /\ missed' = missed /\ Len(wire) \in Nat
      /\ \A i \in 1..Len(wire') : wire'[i] = wire[i + 1] /\ i + 1 \in 1..Len(wire) /\ i \in Nat
  BY HearingIs DEF Hearing
<1>2. /\ m.file \in Files /\ m.file # NoFile /\ m.file \in SomeFile /\ m.file.part \in Nat
      /\ m.type \in {"record", "file"} /\ ~Stopped(m) /\ m.type # "reply"
  <2>1. ~Stopped(m)
    BY DEF Names, Stopped
  <2> QED BY <1>1, <2>1, NamesAre
<1>3. open' = open
  BY <1>2, NotesIs
<1>4. Exchange' /\ Armings' /\ NoForeignFile' /\ Live' = Live /\ Followed'
  BY <1>2, <1>3, KeptCallsHear
<1>5. ASSUME NEW c \in Everyone, Starting(c) PROVE obs # "off" /\ open = 0
  BY <1>1, <1>5 DEF TakesKept, Starts, Guard, OneAtATime, Busy, Starting
<1>6. Starts'
  <2> SUFFICES ASSUME NEW c \in Everyone, Starting(c)
               PROVE  /\ \A d \in Everyone : call[d].path = NoFile
                      /\ obs # "stopping" /\ obs # "off"
                      /\ \A x \in Range(wire') : ~Stopped(x) /\ (Yes(x) => obs = "on")
    BY <1>1 DEF Starts, Starting
  <2> QED BY <1>1, <1>5 DEF TakesKept, Starts
<1>7. Opens'
  <2> SUFFICES ASSUME NEW c \in Everyone, call[c].phase = "starting", NEW p \in 1..Len(wire'), Yes(wire'[p])
               PROVE  /\ wire'[p].take = Now
                      /\ Now \notin missed =>
                            /\ Comes(Heard', wire', Now, parts[Now])
                            /\ \A i \in 1..Len(wire') : i < p /\ Names(wire'[i]) => wire'[i].file.part = 1
    BY <1>1 DEF Opens
  <2>1. p + 1 \in 1..Len(wire) /\ wire'[p] = wire[p + 1] /\ Yes(wire[p + 1]) /\ 1 < p + 1 /\ 1 \in 1..Len(wire)
    BY <1>1
  <2>2. wire[p + 1].take = Now
    BY <2>1 DEF TakesKept, Opens
  <2>3. ASSUME Now \notin missed
        PROVE  /\ Comes(Heard', wire', Now, parts[Now])
               /\ \A i \in 1..Len(wire') : i < p /\ Names(wire'[i]) => wire'[i].file.part = 1
    <3>1. /\ Comes(Heard, wire, Now, parts[Now])
          /\ \A i \in 1..Len(wire) : i < p + 1 /\ Names(wire[i]) => wire[i].file.part = 1
      BY <2>1, <2>3 DEF TakesKept, Opens
    <3>2. open = 0 /\ obs # "off"
      BY <1>5 DEF Starting
    <3>3. Heard \in Seq(Files) /\ Now \in Nat /\ parts[Now] \in Nat
      <4>1. Heard \in Seq(Files)
        BY <3>2, RoomIs DEF Heard, SomeFile
      <4>2. parts[Now] \in 1..MaxParts /\ Now \in Nat
        BY <3>2, FileIs, Numbers
      <4> QED BY <4>1, <4>2
    <3>4. m.file = File(Now, Len(Heard) + 1) /\ Comes(Append(Heard, m.file), wire', Now, parts[Now])
      BY <1>1, <3>1, <3>3, NewsHeard
    <3>5. m.file.part = 1 /\ m.file.part = Len(Heard) + 1
      <4>1. m.file.part = 1
        BY <1>1, <2>1, <3>1
      <4>2. m.file.part = Len(Heard) + 1
        BY <3>4 DEF File
      <4> QED BY <4>1, <4>2
    <3>6. Heard = <<>>
      <4>1. Len(Heard) \in Nat
        BY <3>3, LenProperties
      <4>2. Len(Heard) = 0
        BY <3>5, <4>1
      <4> QED BY <3>3, <4>2, EmptySeq
    <3>7. announced' = m.file
      BY <1>2, <3>2 DEF NoteSegment
    <3>8. Heard' = <<m.file>> /\ Append(<<>>, m.file) = <<m.file>>
      BY <1>2, <1>3, <3>2, <3>7 DEF Heard
    <3>9. \A i \in 1..Len(wire') : i < p => i + 1 < p + 1
      BY <1>1
    <3> QED BY <1>1, <3>1, <3>4, <3>6, <3>8, <3>9
  <2> QED BY <2>1, <2>2, <2>3
<1>8. ASSUME Live
      PROVE  /\ open = Now /\ open \in Takes /\ segments[open] \in Seq(Files)
             /\ segments'[open] = IF m.file \in Range(segments[open]) THEN segments[open]
                                  ELSE Append(segments[open], m.file)
  <2>1. open = Now /\ open \in Takes /\ segments[open] \in Seq(Files) /\ open # 0
    BY <1>8, LiveIs DEF Live
  <2> QED BY <1>2, <2>1, RoomIs DEF NoteSegment
<1>9. Own'
  <2> SUFFICES ASSUME Live
               PROVE  /\ \A x \in Range(wire') : x.type \in {"record", "file"} => x.file.take = Now
                      /\ \A c \in Everyone : call[c].path \in Files => call[c].path.take = Now
                      /\ \A f \in Range(segments'[open]) : f.take = Now
    BY <1>1, <1>3, <1>4 DEF Own
  <2>1. /\ \A x \in Range(wire) : x.type \in {"record", "file"} => x.file.take = Now
        /\ \A c \in Everyone : call[c].path \in Files => call[c].path.take = Now
        /\ \A f \in Range(segments[open]) : f.take = Now
    BY DEF TakesKept, Own
  <2>2. m.file.take = Now
    BY <1>1, <1>2, <2>1
  <2>3. Range(Append(segments[open], m.file)) \subseteq Range(segments[open]) \cup {m.file}
    BY <1>2, <1>8, FilesAppended
  <2> QED BY <1>1, <1>8, <2>1, <2>2, <2>3
<1>10. Known'
  <2> SUFFICES ASSUME Live, \A c \in Everyone : call[c].phase # "locating"
               PROVE  Comes(segments'[open], wire', Now, parts[Now])
    BY <1>1, <1>3, <1>4 DEF Known
  <2>1. Comes(segments[open], wire, Now, parts[Now])
    BY DEF TakesKept, Known
  <2>2. m.file \notin Range(segments[open]) /\ Comes(Append(segments[open], m.file), wire', Now, parts[Now])
    BY <1>1, <2>1, LiveIs, NewsHeard
  <2> QED BY <1>8, <2>2
<1> QED BY <1>4, <1>6, <1>7, <1>9, <1>10 DEF TakesKept

\* The end is heard: by the call that waits for it, or by nobody, and the take is closed.
LEMMA KeptEnded ==
    ASSUME Types, Types', Guard, TakesKept, Hearing, Stopped(Head(wire)),
           UNCHANGED <<session, sidecars>>,
           \/ /\ pending # NoCall /\ pending' = NoCall /\ UNCHANGED closing
              /\ call' = Resolve(call, pending, Head(wire).file)
           \/ pending = NoCall /\ CloseStopFromObs(Head(wire).file) /\ UNCHANGED pending
    PROVE  TakesKept'
<1> DEFINE m == Head(wire)
<1>1. /\ wire \in Seq(Message) /\ Range(wire) = {m} \cup Range(wire') /\ wire # <<>> /\ wire' = Tail(wire)
      /\ m \in Message /\ obs' = obs /\ parts' = parts /\ Now' = Now /\ missed' = missed /\ asked' = asked
  BY HearingIs DEF Hearing
<1>2. /\ m.file \in Files /\ m.file # NoFile /\ m.file # Awaited /\ m.file \in Paths
      /\ m.type = "record" /\ ~Names(m) /\ m.type # "reply"
  <2>1. m.file \in Files /\ m.type = "record"
    BY <1>1, NamesAre DEF Stopped
  <2>2. ~Names(m) /\ m.type # "reply"
    BY <2>1 DEF Names, Stopped
  <2> QED BY <2>1, <2>2, NoFileAssumption DEF Paths
<1>3. UNCHANGED <<open, segments, announced>> /\ Live' = Live
  BY <1>1 DEF session, Live
<1>4. call \in [Everyone -> Call] /\ ByObs \in Everyone /\ Calls \subseteq Everyone
      /\ pending \in Calls \cup {NoCall} /\ NoCall \notin Everyone
  BY RoomIs, NamesAssumption DEF Everyone
<1>5. \A c \in Everyone : ~Starting(c)
  BY <1>1 DEF TakesKept, Starts
<1>6. NoForeignFile'
  BY <1>1, SidecarsKept DEF TakesKept
<1>7. ASSUME Live
      PROVE  /\ m.file.take = Now
             /\ \A x \in Range(wire) : x.type = "reply" => x \in Range(wire')
  BY <1>1, <1>2, <1>7 DEF TakesKept, Own
<1>8. ASSUME \A c \in Everyone : call[c].phase # "locating" \/ call'[c].phase = "locating"
      PROVE  Known'
  <2> SUFFICES ASSUME Live, \A c \in Everyone : call'[c].phase # "locating"
               PROVE  Comes(segments[open], wire', Now, parts[Now])
    BY <1>1, <1>3 DEF Known
  <2>1. Comes(segments[open], wire, Now, parts[Now])
    BY <1>8 DEF TakesKept, Known
  <2> QED BY <1>1, <1>2, <2>1, LiveIs, OtherHeard
<1>9. ASSUME \A c \in Everyone : call'[c].phase = call[c].phase,
             \A c \in Everyone : Armed(c)' => Armed(c),
             Live => \E c \in Everyone : Closes(c)
      PROVE  Followed' /\ Exchange' /\ Starts' /\ Opens'
  <2>1. Followed'
    <3> SUFFICES ASSUME Live PROVE Followed'
      BY <1>3 DEF Followed
    <3>1. /\ open = Now
          /\ \A c \in Everyone : Armed(c) => Closes(c)
          /\ \A c \in Everyone : call[c].phase = "stopping" =>
                /\ asked # {} \/ \E x \in Range(wire) : x.type = "reply" /\ x.take = Now
                /\ asked # {} => obs = "on"
                /\ \A x \in Range(wire) : x.type = "reply" => x.ok
      BY DEF TakesKept, Followed
    <3>2. \E c \in Everyone : Closes(c)'
      BY <1>9 DEF Closes
    <3>3. \A c \in Everyone : Armed(c)' => Closes(c)'
      BY <1>9, <3>1 DEF Closes
    <3>4. \A c \in Everyone : call'[c].phase = "stopping" =>
                /\ asked # {} \/ \E x \in Range(wire') : x.type = "reply" /\ x.take = Now
                /\ asked # {} => obs = "on"
                /\ \A x \in Range(wire') : x.type = "reply" => x.ok
      BY <1>1, <1>7, <1>9, <3>1
    <3> QED BY <1>1, <1>3, <3>1, <3>2, <3>3, <3>4 DEF Followed
  <2>2. Exchange'
    <3>1. \A r \in asked : r.call \in Everyone
      BY <1>4, RoomIs DEF Request
    <3> QED BY <1>1, <1>9, <3>1 DEF TakesKept, Exchange
  <2>3. Starts' /\ Opens'
    BY <1>5, <1>9, NobodyStarts DEF Starting
  <2> QED BY <2>1, <2>2, <2>3
<1>10. CASE /\ pending # NoCall /\ pending' = NoCall /\ UNCHANGED closing
            /\ call' = Resolve(call, pending, m.file)
  <2>1. pending \in Everyone /\ Armed(pending) /\ \A c \in Everyone : Armed(c) => c = pending
    BY <1>4, <1>10 DEF TakesKept, Armings
  <2>2. \A c \in Everyone : call'[c].phase = call[c].phase
    BY <1>2, <1>10, <2>1, ResolveIs
  <2>3. /\ \A c \in Everyone : c # pending => call'[c].path = call[c].path
        /\ call'[pending].path = NoFile \/ call'[pending].path = m.file
    BY <1>4, <1>10, <2>1 DEF Resolve, Call
  <2>4. \A c \in Everyone : ~Armed(c)'
    BY <1>2, <2>1, <2>3, NoFileAssumption DEF Armed
  <2>5. Armings'
    BY <1>4, <1>10, <2>2, <2>4 DEF TakesKept, Armings, Closes
  <2>6. Live => \E c \in Everyone : Closes(c)
    BY <2>1 DEF TakesKept, Followed
  <2>7. Followed' /\ Exchange' /\ Starts' /\ Opens'
    BY <1>9, <2>2, <2>4, <2>6
  <2>8. Own'
    BY <1>1, <1>3, <1>7, <2>1, <2>3, NoFileAssumption DEF TakesKept, Own
  <2>9. Known'
    BY <1>8, <2>2
  <2> QED BY <1>6, <2>5, <2>7, <2>8, <2>9 DEF TakesKept
<1>11. CASE pending = NoCall /\ (open = 0 \/ closing) /\ UNCHANGED <<call, closing, pending>>
  <2>1. Armings'
    BY <1>11 DEF TakesKept, Armings, Armed, Closes
  <2>2. Live => \E c \in Everyone : Closes(c)
    BY <1>11 DEF TakesKept, Armings, Live
  <2>3. Followed' /\ Exchange' /\ Starts' /\ Opens'
    BY <1>9, <1>11, <2>2 DEF Armed
  <2>4. Own'
    BY <1>1, <1>3, <1>11 DEF TakesKept, Own
  <2>5. Known'
    BY <1>8, <1>11
  <2> QED BY <1>6, <2>1, <2>3, <2>4, <2>5 DEF TakesKept
<1>12. CASE /\ pending = NoCall /\ ~(open = 0 \/ closing) /\ pending' = pending /\ closing' = TRUE
            /\ call[ByObs] = Idle
            /\ call' = [call EXCEPT ![ByObs] = [phase |-> "waiting", path |-> m.file, take |-> 0]]
  <2>1. \A c \in Everyone : call[c].phase = "idle" /\ ~Armed(c)
    <3>1. \A c \in Everyone : call[c].phase = "idle"
      BY <1>12 DEF Guard, OneAtATime, Busy
    <3> QED BY <1>4, <1>12, <3>1 DEF TakesKept, Armings
  <2>2. /\ call'[ByObs].phase = "waiting" /\ call'[ByObs].path = m.file
        /\ \A c \in Everyone : c # ByObs => call'[c] = call[c]
    BY <1>4, <1>12
  <2>3. \A c \in Everyone : ~Armed(c)'
    BY <1>2, <2>1, <2>2 DEF Armed
  <2>4. Armings'
    BY <1>4, <1>12, <2>2, <2>3 DEF Armings, Closes
  <2>5. Starts' /\ Opens'
    BY <2>1, <2>2, NobodyStarts
  <2>6. asked = {}
    <3>1. \A r \in asked : r.call \in Everyone /\ call[r.call].phase # "idle"
      BY <1>4, RoomIs DEF Request, TakesKept, Exchange
    <3> QED BY <2>1, <3>1
  <2>7. Exchange'
    BY <1>1, <2>6 DEF TakesKept, Exchange
  <2>8. Followed'
    <3>1. Live => open = Now
      BY DEF TakesKept, Followed
    <3>2. Closes(ByObs)' /\ \A c \in Everyone : call'[c].phase # "stopping"
      BY <2>1, <2>2 DEF Closes
    <3> QED BY <1>1, <1>3, <1>4, <2>3, <3>1, <3>2 DEF Followed
  <2>9. Own'
    BY <1>1, <1>3, <1>7, <2>2 DEF TakesKept, Own
  <2>10. Known'
    BY <1>8, <2>1
  <2> QED BY <1>6, <2>4, <2>5, <2>7, <2>8, <2>9, <2>10 DEF TakesKept
<1> QED BY <1>10, <1>11, <1>12 DEF CloseStopFromObs

LEMMA KeptHear ==
    ASSUME Types, Types', Guard, TakesKept, Hear
    PROVE  TakesKept'
<1>1. Hearing
  BY DEF Hear, Hearing
<1>2. CASE \E c \in Calls : /\ Head(wire).type = "reply" /\ Head(wire).call = c
                            /\ HearStart(c) \/ HearStop(c)
  BY <1>1, <1>2, KeptTold, KeptAnswered
<1>3. CASE HearRecord
  <2>1. Head(wire).type = "record" /\ UNCHANGED sidecars
    BY <1>3 DEF HearRecord
  <2>2. CASE Head(wire).active /\ NoteSegment(Head(wire).file) /\ UNCHANGED <<pending, closing, call>>
    <3>1. Names(Head(wire))
      BY <2>1, <2>2 DEF Names
    <3> QED BY <1>1, <2>1, <2>2, <3>1, KeptNamed
  <2>3. CASE ~Head(wire).active
    <3>1. Stopped(Head(wire))
      BY <2>1, <2>3 DEF Stopped
    <3> QED BY <1>1, <1>3, <2>1, <2>3, <3>1, KeptEnded DEF HearRecord
  <2> QED BY <1>3, <2>2, <2>3 DEF HearRecord
<1>4. CASE HearFile
  <2>1. Names(Head(wire)) /\ NoteSegment(Head(wire).file) /\ UNCHANGED <<closing, pending, call, sidecars>>
    BY <1>4 DEF HearFile, Names, roomVars
  <2> QED BY <1>1, <2>1, KeptNamed
<1>5. CASE Adopt
  BY <1>1, <1>5, KeptAdopted DEF Adopt
<1> QED BY <1>2, <1>3, <1>4, <1>5 DEF Hear

\* The control room starts a take...
LEMMA KeptStart ==
    ASSUME Types, Types', Guard, TakesKept, ~Crossings, NEW c \in Calls, StartRecording(c)
    PROVE  TakesKept'
<1>1. wire = <<>> /\ asked = {} /\ obs # "stopping" /\ \A d \in Everyone : call[d] = Idle
  BY DEF StartRecording, Gesture, FreeHand
<1>2. /\ open = 0 /\ call' = [call EXCEPT ![c].phase = "naming"]
      /\ UNCHANGED <<obs, asked, wire, missed, open, closing, pending, sidecars>>
  BY DEF StartRecording, obsVars, outputs, linkVars, session, roomVars
<1>3. c \in Everyone /\ call \in [Everyone -> Call] /\ ByObs \in Everyone /\ c # ByObs
  BY RoomIs, NamesAssumption
<1>4. \A d \in Everyone : /\ call'[d].path = NoFile /\ call[d].path = NoFile /\ call[d].phase = "idle"
                          /\ call'[d].phase \in {"idle", "naming"} /\ (d # c => call'[d].phase = "idle")
  BY <1>1, <1>2, <1>3 DEF Idle, Call
<1>5. ~Live'
  BY <1>2 DEF Live
<1>6. Exchange'
  BY <1>1, <1>2, NothingSaid DEF Exchange
<1>7. Armings'
  BY <1>2, <1>3, <1>4, NoFileAssumption DEF TakesKept, Armings, Armed, Closes
<1>8. Starts' /\ Opens'
  BY <1>1, <1>2, <1>4, NothingSaid DEF Starts, Opens
<1>9. NoForeignFile'
  BY <1>2, SidecarsKept DEF TakesKept
<1> QED BY <1>5, <1>6, <1>7, <1>8, <1>9, NothingLive DEF TakesKept

\* ... and asks OBS for it, no name being kept from before.
LEMMA KeptAsk ==
    ASSUME Types, Types', Guard, TakesKept, NEW c \in Calls, AskStart(c)
    PROVE  TakesKept'
<1>1. /\ call[c].phase = "naming" /\ announced' = NoFile
      /\ UNCHANGED <<obs, wire, missed, open, closing, pending, sidecars>>
  BY DEF AskStart, outputs, linkVars, roomVars
<1>2. c \in Everyone /\ call \in [Everyone -> Call] /\ ByObs \in Everyone /\ c # ByObs
  BY RoomIs, NamesAssumption
<1>3. /\ Starting(c) /\ open = 0 /\ \A d \in Everyone : d # c => call[d].phase = "idle"
  BY <1>1, <1>2, OthersIdle DEF Busy, Starting
<1>4. asked = {} /\ \A m \in Range(wire) : m.type # "reply"
  BY <1>1 DEF Guard, OwnReplies
<1>5. /\ \A d \in Everyone : call[d].path = NoFile
      /\ obs # "stopping" /\ \A m \in Range(wire) : ~Stopped(m)
      /\ obs = "off" => \A m \in Range(wire) : ~Names(m)
  BY <1>2, <1>3 DEF TakesKept, Starts
<1>6. ~closing /\ ~Live'
  BY <1>1, <1>2, <1>3 DEF TakesKept, Armings, Closes, Live
<1>7. NoForeignFile'
  BY <1>1, SidecarsKept DEF TakesKept
<1>8. ASSUME \A d \in Everyone : call'[d].path = NoFile, call'[ByObs].phase = "idle" PROVE Armings'
  BY <1>1, <1>2, <1>5, <1>6, <1>8, NoFileAssumption DEF TakesKept, Armings, Armed
<1>9. CASE Connected
  <2>1. asked' = {[call |-> c, what |-> "start"]} /\ call' = [call EXCEPT ![c].phase = "starting"]
    BY <1>4, <1>9 DEF AskStart, Ask
  <2>2. /\ call'[c].phase = "starting" /\ \A d \in Everyone : d # c => call'[d] = call[d]
        /\ \A d \in Everyone : call'[d].path = NoFile
    BY <1>2, <1>5, <2>1 DEF Call
  <2>3. Armings'
    BY <1>2, <1>3, <1>8, <2>2
  <2>4. Exchange'
    BY <1>1, <1>4, <2>1, <2>2 DEF TakesKept, Exchange
  <2>5. Starts'
    BY <1>1, <1>4, <1>5, <2>2 DEF Starts, Yes
  <2>6. Opens'
    <3>1. \A i \in 1..Len(wire') : ~Yes(wire'[i])
      BY <1>1, <1>4, OnTheWire, RoomIs DEF Yes
    <3> QED BY <3>1 DEF Opens
  <2> QED BY <1>6, <1>7, <2>3, <2>4, <2>5, <2>6, NothingLive DEF TakesKept
<1>10. CASE ~Connected
  <2>1. asked' = asked /\ call' = [call EXCEPT ![c] = Idle]
    BY <1>10 DEF AskStart
  <2>2. \A d \in Everyone : call'[d].phase = "idle" /\ call'[d].path = NoFile
    BY <1>2, <1>3, <1>5, <2>1 DEF Idle
  <2>3. Armings'
    BY <1>2, <1>8, <2>2
  <2>4. Exchange'
    BY <1>1, <1>4, <2>1 DEF TakesKept, Exchange
  <2>5. Starts' /\ Opens'
    BY <2>2, NobodyStarts
  <2> QED BY <1>6, <1>7, <2>3, <2>4, <2>5, NothingLive DEF TakesKept
<1> QED BY <1>9, <1>10

\* The control room stops the take: OBS records it still, or it is missed.
LEMMA KeptStop ==
    ASSUME Types, Types', Guard, TakesKept, ~Crossings, NEW c \in Calls, StopRecording(c)
    PROVE  TakesKept'
<1>1. wire = <<>> /\ asked = {} /\ obs # "stopping" /\ \A d \in Everyone : call[d] = Idle
  BY DEF StopRecording, Gesture, FreeHand
<1>2. /\ open # 0 /\ pending' = c /\ Now' = Now /\ missed \subseteq missed'
      /\ UNCHANGED <<obs, parts, wire, open, segments, announced, sidecars>>
  <2>1. missed \subseteq missed'
    BY DEF StopRecording
  <2> QED BY <2>1 DEF StopRecording, outputs, session, Now
<1>3. c \in Everyone /\ call \in [Everyone -> Call] /\ ByObs \in Everyone /\ c # ByObs
  BY RoomIs, NamesAssumption
<1>4. NoForeignFile'
  BY <1>2, SidecarsKept DEF TakesKept
<1>5. ASSUME call'[c].path = Awaited, \A d \in Everyone : d # c => call'[d] = call[d],
             call'[c].phase \in {"idle", "stopping"}, closing' => call'[c].phase = "stopping"
      PROVE  Armings' /\ Starts' /\ Opens'
  <2>1. \A d \in Everyone : d # c => call'[d].phase = "idle" /\ call'[d].path = NoFile
    BY <1>1, <1>5 DEF Idle
  <2>2. Armings'
    BY <1>2, <1>3, <1>5, <2>1, NoFileAssumption DEF Armings, Armed, Closes
  <2>3. Starts' /\ Opens'
    <3>1. \A d \in Everyone : call'[d].phase \notin {"naming", "starting"}
      BY <1>5, <2>1
    <3> QED BY <3>1, NobodyStarts
  <2> QED BY <2>2, <2>3
<1>6. CASE Connected
  <2>1. /\ asked' = {[call |-> c, what |-> "stop"]} /\ closing' = TRUE /\ missed' = missed
        /\ call' = [call EXCEPT ![c] = [phase |-> "stopping", path |-> Awaited, take |-> 0]]
    BY <1>1, <1>6 DEF StopRecording, Ask
  <2>2. /\ call'[c].phase = "stopping" /\ call'[c].path = Awaited
        /\ \A d \in Everyone : d # c => call'[d] = call[d]
    BY <1>3, <2>1
  <2>3. Armings' /\ Starts' /\ Opens'
    BY <1>5, <2>2
  <2>4. Exchange'
    BY <1>1, <1>2, <2>1, <2>2, NothingSaid DEF Exchange
  <2>5. Live' = Live
    BY <1>2, <2>1 DEF Live
  <2>6. Followed'
    <3> SUFFICES ASSUME Live PROVE Followed'
      BY <2>5 DEF Followed
    <3>1. open = Now /\ obs = "on"
      <4>1. \A d \in Everyone : ~Closes(d)
        BY <1>1 DEF Closes, Idle
      <4>2. open = Now /\ obs # "off"
        BY <1>1, <4>1, NothingSaid DEF TakesKept, Followed
      <4> QED BY <1>1, <4>2, ObsIs
    <3>2. \A d \in Everyone : Armed(d)' => Closes(d)'
      BY <1>1, <2>2, NoFileAssumption DEF Armed, Closes, Idle
    <3> QED BY <1>1, <1>2, <2>1, <3>1, <3>2, NothingSaid DEF Followed
  <2>7. Own'
    <3>1. \A d \in Everyone : call'[d].path \notin Files
      BY <1>1, <2>2, NoFileAssumption DEF Idle
    <3> QED BY <1>1, <1>2, <2>5, <3>1, NothingSaid DEF TakesKept, Own
  <2>8. Known'
    <3>1. \A d \in Everyone : call[d].phase # "locating"
      BY <1>1 DEF Idle
    <3> QED BY <1>2, <2>5, <3>1 DEF TakesKept, Known
  <2> QED BY <1>4, <2>3, <2>4, <2>6, <2>7, <2>8 DEF TakesKept
<1>7. CASE ~Connected
  <2>1. asked' = asked /\ closing' = FALSE /\ open \in missed' /\ call' = [call EXCEPT ![c].path = Awaited]
    BY <1>7 DEF StopRecording
  <2>2. /\ call'[c].phase = "idle" /\ call'[c].path = Awaited
        /\ \A d \in Everyone : d # c => call'[d] = call[d]
    BY <1>1, <1>3, <2>1 DEF Call, Idle
  <2>3. Armings' /\ Starts' /\ Opens'
    BY <1>5, <2>1, <2>2
  <2>4. Exchange'
    BY <1>1, <1>2, <2>1, NothingSaid DEF Exchange
  <2>5. ~Live'
    BY <1>2, <2>1 DEF Live
  <2> QED BY <1>4, <2>3, <2>4, <2>5, NothingLive DEF TakesKept
<1> QED BY <1>6, <1>7

\* The wait for a path ends.
LEMMA KeptTimedOut ==
    ASSUME Types, Types', Guard, TakesKept, NEW c \in Everyone, PathTimesOut(c)
    PROVE  TakesKept'
<1>1. /\ Armed(c) /\ call' = Resolve(call, c, NoFile) /\ pending' = NoCall /\ Now' = Now
      /\ UNCHANGED <<obs, parts, asked, wire, missed, open, segments, announced, closing, sidecars>>
  BY DEF PathTimesOut, obsVars, outputs, linkVars, session, Now
<1>2. pending = c /\ \A d \in Everyone : Armed(d) => d = c
  BY <1>1 DEF TakesKept, Armings
<1>3. /\ \A d \in Everyone : call'[d].phase = call[d].phase
      /\ \A d \in Everyone : d # c => call'[d].path = call[d].path
      /\ call'[c].path = NoFile
  BY <1>1, ResolveIs, RoomIs DEF Resolve, Call
<1>4. \A d \in Everyone : ~Armed(d)' /\ d # NoCall
  BY <1>2, <1>3, NoFileAssumption, NamesAssumption DEF Armed, Everyone
<1>5. Armings'
  BY <1>1, <1>3, <1>4, RoomIs DEF TakesKept, Armings, Closes
<1>6. \A d \in Everyone : call'[d].phase \notin {"naming", "starting"}
  <2>1. call[c].path # NoFile
    BY <1>1, NoFileAssumption DEF Armed
  <2> QED BY <1>3, <2>1 DEF TakesKept, Starts, Starting
<1>7. Exchange'
  <2>1. \A r \in asked : r.call \in Everyone
    BY RoomIs DEF Request
  <2> QED BY <1>1, <1>3, <2>1 DEF TakesKept, Exchange
<1>8. NoForeignFile' /\ Live' = Live
  BY <1>1, SidecarsKept DEF TakesKept, Live
<1>9. Followed'
  <2> SUFFICES ASSUME Live PROVE Followed'
    BY <1>8 DEF Followed
  <2>1. /\ open = Now
        /\ obs = "off" => (\E m \in Range(wire) : Stopped(m)) \/ \E d \in Everyone : Closes(d)
        /\ \A d \in Everyone : call[d].phase = "stopping" =>
              /\ asked # {} \/ \E m \in Range(wire) : m.type = "reply" /\ m.take = Now
              /\ asked # {} => obs = "on"
              /\ \A m \in Range(wire) : m.type = "reply" => m.ok
    BY DEF TakesKept, Followed
  <2>2. obs = "off" => (\E m \in Range(wire) : Stopped(m)) \/ \E d \in Everyone : Closes(d)'
    BY <1>3, <2>1 DEF Closes
  <2> QED BY <1>1, <1>3, <1>4, <2>1, <2>2 DEF Followed
<1>10. Own'
  BY <1>1, <1>3, <1>8, NoFileAssumption DEF TakesKept, Own
<1>11. Known'
  BY <1>1, <1>3, <1>8 DEF TakesKept, Known
<1> QED BY <1>5, <1>6, <1>7, <1>8, <1>9, <1>10, <1>11, NobodyStarts DEF TakesKept

\* A call that closes has nothing left to wait for: it is the only one.
LEMMA CloserIs ==
    ASSUME Types, Guard, TakesKept, NEW c \in Everyone, call[c].phase \in {"waiting", "locating"}
    PROVE  /\ asked = {} /\ \A d \in Everyone : d # c => call[d].phase = "idle"
<1>1. \A d \in Everyone : d # c => call[d].phase = "idle"
  BY OthersIdle DEF Busy
<1>2. \A r \in asked : r.call \in Everyone /\ call[r.call].phase \in {"starting", "stopping"}
  BY RoomIs DEF TakesKept, Exchange, Request
<1> QED BY <1>1, <1>2

LEMMA KeptPath ==
    ASSUME Types, Types', Guard, TakesKept, NEW c \in Everyone, TakePath(c)
    PROVE  TakesKept'
<1>1. /\ call[c].phase = "waiting" /\ ~Armed(c) /\ Now' = Now
      /\ UNCHANGED <<obs, parts, asked, wire, missed, pending, sidecars>>
  BY DEF TakePath, obsVars, outputs, linkVars, Now
<1>2. asked = {} /\ \A d \in Everyone : d # c => call[d].phase = "idle"
  BY <1>1, CloserIs
<1>3. call \in [Everyone -> Call] /\ ByObs \in Everyone /\ call[c].path # Awaited
  BY <1>1, RoomIs DEF Armed
<1>4. Exchange'
  BY <1>1, <1>2 DEF TakesKept, Exchange
<1>5. NoForeignFile'
  BY <1>1, SidecarsKept DEF TakesKept
<1>6. CASE open = 0
  <2>1. call' = [call EXCEPT ![c] = Idle] /\ closing' = FALSE /\ open' = 0
    BY <1>6 DEF TakePath, session
  <2>2. \A d \in Everyone : call'[d].phase = "idle" /\ (d # c => call'[d] = call[d])
    BY <1>2, <1>3, <2>1 DEF Idle
  <2>3. call'[c].path = NoFile
    BY <1>3, <2>1 DEF Idle
  <2>4. \A d \in Everyone : Armed(d)' <=> Armed(d)
    BY <1>1, <2>2, <2>3, NoFileAssumption DEF Armed
  <2>5. Armings'
    BY <1>1, <1>3, <2>1, <2>2, <2>4 DEF TakesKept, Armings
  <2>6. ~Live'
    BY <2>1 DEF Live
  <2> QED BY <1>4, <1>5, <2>2, <2>5, <2>6, NobodyStarts, NothingLive DEF TakesKept
<1>7. CASE open # 0
  <2>1. /\ call' = [call EXCEPT ![c].phase = "locating", ![c].take = open]
        /\ NoteSegment(call[c].path) /\ closing' = closing
    BY <1>7 DEF TakePath
  <2>2. /\ call'[c].phase = "locating" /\ call'[c].path = call[c].path
        /\ \A d \in Everyone : d # c => call'[d] = call[d]
    BY <1>3, <2>1 DEF Call
  <2>3. call[c].path \in SomeFile /\ open' = open
    <3>1. call[c].path \in Paths
      BY <1>3 DEF Call
    <3>2. call[c].path \in SomeFile
      BY <1>3, <3>1 DEF Paths, SomeFile
    <3> QED BY <2>1, <3>2, NotesIs
  <2>4. \A d \in Everyone : (Armed(d)' <=> Armed(d)) /\ (Closes(d) => Closes(d)')
    BY <2>2 DEF Armed, Closes
  <2>5. Armings'
    BY <1>1, <1>3, <2>1, <2>2, <2>4 DEF TakesKept, Armings
  <2>6. Starts' /\ Opens'
    <3>1. \A d \in Everyone : call'[d].phase \notin {"naming", "starting"}
      BY <1>2, <2>2
    <3> QED BY <3>1, NobodyStarts
  <2>7. Live' = Live
    BY <1>1, <2>3 DEF Live
  <2>8. Followed'
    <3> SUFFICES ASSUME Live PROVE Followed'
      BY <2>7 DEF Followed
    <3>1. open = Now /\ \A d \in Everyone : Armed(d) => Closes(d)
      BY DEF TakesKept, Followed
    <3>2. Closes(c)' /\ \A d \in Everyone : call'[d].phase # "stopping"
      BY <1>2, <2>2 DEF Closes
    <3> QED BY <1>1, <2>3, <2>4, <3>1, <3>2 DEF Followed
  <2>9. Own'
    <3> SUFFICES ASSUME Live
                 PROVE  /\ \A x \in Range(wire) : x.type \in {"record", "file"} => x.file.take = Now
                        /\ \A d \in Everyone : call'[d].path \in Files => call'[d].path.take = Now
                        /\ \A f \in Range(segments'[open]) : f.take = Now
      BY <1>1, <2>3, <2>7 DEF Own
    <3>1. /\ \A x \in Range(wire) : x.type \in {"record", "file"} => x.file.take = Now
          /\ \A d \in Everyone : call[d].path \in Files => call[d].path.take = Now
          /\ \A f \in Range(segments[open]) : f.take = Now
      BY DEF TakesKept, Own
    <3>2. \A d \in Everyone : call'[d].path = call[d].path
      BY <2>2
    <3>3. open \in Takes /\ segments[open] \in Seq(Files)
      BY LiveIs
    <3>4. CASE call[c].path = NoFile
      <4>1. segments' = segments
        BY <2>1, <3>4 DEF NoteSegment, session
      <4> QED BY <3>1, <3>2, <4>1
    <3>5. CASE call[c].path # NoFile
      <4>1. call[c].path \in Files /\ call[c].path.take = Now
        BY <2>3, <3>1, <3>5 DEF SomeFile
      <4>2. segments'[open] = IF call[c].path \in Range(segments[open]) THEN segments[open]
                              ELSE Append(segments[open], call[c].path)
        BY <1>7, <2>1, <3>3, <3>5, RoomIs DEF NoteSegment
      <4>3. Range(Append(segments[open], call[c].path)) \subseteq Range(segments[open]) \cup {call[c].path}
        BY <3>3, <4>1, FilesAppended
      <4> QED BY <3>1, <3>2, <4>1, <4>2, <4>3
    <3> QED BY <3>4, <3>5
  <2>10. Known'
    BY <2>2 DEF Known
  <2> QED BY <1>4, <1>5, <2>5, <2>6, <2>8, <2>9, <2>10 DEF TakesKept
<1> QED BY <1>6, <1>7

\* The take is closed: what its sidecar names is its own.
LEMMA KeptClosed ==
    ASSUME Types, Types', Guard, TakesKept, NEW c \in Everyone, Close(c)
    PROVE  TakesKept'
<1>1. /\ call[c].phase = "locating" /\ open' = 0 /\ closing' = FALSE /\ call' = [call EXCEPT ![c] = Idle]
      /\ UNCHANGED <<asked, wire, missed, pending>>
  BY DEF Close, obsVars, linkVars
<1>2. asked = {} /\ \A d \in Everyone : d # c => call[d].phase = "idle"
  BY <1>1, CloserIs
<1>3. call \in [Everyone -> Call] /\ ByObs \in Everyone /\ ~Armed(c)
  BY <1>1, RoomIs DEF TakesKept, Armings
<1>4. Exchange'
  BY <1>1, <1>2 DEF TakesKept, Exchange
<1>5. /\ \A d \in Everyone : call'[d].phase = "idle" /\ (d # c => call'[d] = call[d])
      /\ call'[c].path = NoFile
  BY <1>1, <1>2, <1>3 DEF Idle
<1>6. \A d \in Everyone : Armed(d)' <=> Armed(d)
  BY <1>3, <1>5, NoFileAssumption DEF Armed
<1>7. Armings'
  BY <1>1, <1>3, <1>5, <1>6 DEF TakesKept, Armings
<1>8. ~Live'
  BY <1>1 DEF Live
<1>9. NoForeignFile'
  <2>1. open # 0 /\ call[c].take = open /\ open \in Takes /\ sidecars[open] = <<>>
    BY <1>1, Numbers, RoomIs DEF Guard, OneAtATime, Written, Takes, SomeTake
  <2>2. PICK one :
           /\ sidecars' = [sidecars EXCEPT ![open] = one]
           /\ \/ one = <<>>
              \/ \E named, unfound :
                    /\ one = Append(<<>>, [named |-> named, unfound |-> unfound])
                    /\ named \subseteq Range(segments[open]) \cup {File(open, 1)}
    BY <2>1, ClosedWith
  <2>3. \A t \in Takes : t # open => sidecars'[t] = sidecars[t]
    BY <2>1, <2>2, RoomIs
  <2>4. sidecars'[open] = one
    BY <2>1, <2>2, RoomIs
  <2>5. DOMAIN <<>> = {} /\ \A x : DOMAIN Append(<<>>, x) = {1} /\ Append(<<>>, x)[1] = x
    OBVIOUS
  <2>6. ASSUME open \notin missed PROVE \A f \in Range(segments[open]) \cup {File(open, 1)} : f.take = open
    <3>1. Live
      BY <2>1, <2>6 DEF Live
    <3> QED BY <3>1 DEF TakesKept, Own, Followed, File
  <2> SUFFICES ASSUME NEW t \in Takes \ missed, NEW i \in DOMAIN sidecars'[t], NEW f \in sidecars'[t][i].named
               PROVE  f.take = t
    BY <1>1 DEF NoForeignFile, Takes
  <2>7. CASE t = open
    <3>1. sidecars'[t][i].named \subseteq Range(segments[open]) \cup {File(open, 1)}
      BY <2>2, <2>4, <2>5, <2>7
    <3> QED BY <2>6, <2>7, <3>1
  <2>8. CASE t # open
    BY <2>3, <2>8 DEF TakesKept, NoForeignFile
  <2> QED BY <2>7, <2>8
<1> QED BY <1>4, <1>5, <1>7, <1>8, <1>9, NobodyStarts, NothingLive DEF TakesKept

KeptInv == CloseInv /\ (~Crossings => TakesKept)

LEMMA KeptStep == KeptInv /\ [Next]_vars => KeptInv'
<1> SUFFICES ASSUME KeptInv, [Next]_vars PROVE KeptInv'
  OBVIOUS
<1>1. CloseInv /\ CloseInv'
  BY CloseInvStep DEF KeptInv
<1> SUFFICES ASSUME ~Crossings PROVE TakesKept'
  BY <1>1 DEF KeptInv
<1>2. Types /\ Types' /\ Guard /\ TakesKept
  BY <1>1 DEF KeptInv, CloseInv
<1>3. CASE UNCHANGED vars
  <2>1. UNCHANGED <<obs, parts, asked, wire, missed, open, segments, announced, pending, closing, call, sidecars>>
    BY <1>3 DEF vars, obsVars, outputs, linkVars, session, roomVars
  <2> QED BY <1>2, <2>1, KeptSame
<1>4. CASE ObsStart \/ ObsStop \/ ObsStopped \/ ObsSplit \/ ObsAnswersStart \/ ObsAnswersStop
  BY <1>2, <1>4, KeptObsStart, KeptObsStop, KeptObsStopped, KeptObsSplit, KeptAnswersStart, KeptAnswersStop
<1>5. CASE LinkLost \/ ObsDies
  <2>1. Lose /\ obs' \in {"off", obs} /\ UNCHANGED <<parts, session, pending, sidecars>>
    BY <1>5 DEF LinkLost, ObsDies
  <2> QED BY <1>2, <2>1, KeptLost
<1>6. CASE Connect \/ Reattach
  <2>1. UNCHANGED <<obs, parts, asked, wire, missed, open, segments, announced, pending, closing, call, sidecars>>
    BY <1>6 DEF Connect, Reattach, obsVars, outputs, session, roomVars
  <2> QED BY <1>2, <2>1, KeptSame
<1>7. CASE ObsAnswersStatus
  BY <1>2, <1>7, KeptReads
<1>8. CASE Restart \/ Reconnect
  BY <1>2, <1>8, KeptAfresh
<1>9. CASE Hear
  BY <1>2, <1>9, KeptHear
<1>10. ASSUME NEW c \in Calls, StartRecording(c) \/ AskStart(c) \/ StopRecording(c) PROVE TakesKept'
  BY <1>2, <1>10, KeptStart, KeptAsk, KeptStop
<1>11. ASSUME NEW c \in Everyone, PathTimesOut(c) \/ TakePath(c) \/ Close(c) PROVE TakesKept'
  BY <1>2, <1>11, KeptTimedOut, KeptPath, KeptClosed
<1> QED BY <1>3, <1>4, <1>5, <1>6, <1>7, <1>8, <1>9, <1>10, <1>11 DEF Next

LEMMA KeptInit == Init => KeptInv
<1> SUFFICES ASSUME Init PROVE KeptInv
  OBVIOUS
<1>1. /\ asked = {} /\ wire = <<>> /\ Range(wire) = {} /\ open = 0 /\ pending = NoCall /\ closing = FALSE
      /\ \A c \in Everyone : call[c].phase = "idle" /\ call[c].path = NoFile /\ c # NoCall
      /\ \A t \in Takes : sidecars[t] = <<>>
  BY NothingSaid, NamesAssumption DEF Init, Idle, Everyone
<1>2. Exchange /\ Starts /\ Opens
  BY <1>1 DEF Exchange, Starts, Opens, Starting
<1>3. Armings
  BY <1>1, NoFileAssumption, TypesInit, RoomIs DEF Armings, Armed
<1>4. Followed /\ Own /\ Known
  BY <1>1 DEF Followed, Own, Known, Live
<1>5. NoForeignFile
  BY <1>1 DEF NoForeignFile
<1> QED BY <1>2, <1>3, <1>4, <1>5, CloseInvInit DEF KeptInv, TakesKept

-----------------------------------------------------------------------------
(***************************************************************************)
(* A take is not closed while OBS records it, and is closed with all its   *)
(* files.  What ends a take, on the wire or in a call, comes when OBS is   *)
(* no longer recording and has named all it will; and nothing about a take *)
(* precedes its beginning.                                                 *)
(***************************************************************************)

\* OBS says that it has stopped, or answers who stopped it.
Stopping == \E c \in Everyone : call[c].phase = "stopping"
Ending(m) == Stopped(m) \/ (m.type = "reply" /\ Stopping)

Finishes(c) == call[c].phase \in {"waiting", "locating"}
Whole == \A part \in 1..parts[Now] : File(Now, part) \in Range(segments[open])

\* Nothing is said of the take after its end, and who closes it has been told it all.
Ended == Live =>
    /\ \A i \in 1..Len(wire) : Ending(wire[i]) =>
          obs # "on" /\ \A j \in 1..Len(wire) : i < j => ~Names(wire[j])
    /\ \A c \in Everyone : Finishes(c) => obs # "on" /\ Whole

\* A take has no files before it begins, and is open as long as it is recorded.
Held ==
    /\ \A t \in Takes : t > Now => segments[t] = <<>>
    /\ Now \in Takes /\ Now \notin missed /\ segments[Now] # <<>> /\ obs = "on" => open = Now

\* What is written of a take is written once OBS is no longer recording it.
Stored ==
    /\ NoFileForgotten
    /\ \A t \in Takes \ missed : sidecars[t] # <<>> /\ t = Now => obs # "on"

Finish == Ended /\ Held /\ Stored

\* The calls and OBS are as they were, and the wire, or what is left of it.
LEMMA EndsAsBefore ==
    ASSUME Ended, Live' => Live /\ open' = open, NEW k \in {0, 1},
           \A i \in 1..Len(wire') : /\ wire'[i] = wire[i + k] /\ i + k \in 1..Len(wire) /\ i \in Nat
                                    /\ Stopping' => Stopping,
           Now' = Now, parts' = parts, obs' = "on" => obs = "on",
           Live => Range(segments[open]) \subseteq Range(segments'[open]),
           Live => \A c \in Everyone : Finishes(c)' => Finishes(c) \/ (obs # "on" /\ Whole)
    PROVE  Ended'
<1> SUFFICES ASSUME Live'
             PROVE  /\ \A i \in 1..Len(wire') : Ending(wire[i])' =>
                          obs' # "on" /\ \A j \in 1..Len(wire') : i < j => ~Names(wire'[j])
                    /\ \A c \in Everyone : Finishes(c)' => obs' # "on" /\ Whole'
  BY DEF Ended, Names
<1>1. /\ Live /\ open' = open
      /\ \A i \in 1..Len(wire) : Ending(wire[i]) =>
            obs # "on" /\ \A j \in 1..Len(wire) : i < j => ~Names(wire[j])
      /\ \A c \in Everyone : Finishes(c) => obs # "on" /\ Whole
  BY DEF Ended
<1>2. ASSUME NEW i \in 1..Len(wire'), Ending(wire[i])'
      PROVE  obs' # "on" /\ \A j \in 1..Len(wire') : i < j => ~Names(wire'[j])
  <2>1. wire'[i] = wire[i + k] /\ i + k \in 1..Len(wire)
    OBVIOUS
  <2>2. Ending(wire[i + k])
    BY <1>2, <2>1 DEF Ending, Stopped
  <2>3. \A j \in 1..Len(wire') : i < j => i + k < j + k
    OBVIOUS
  <2> QED BY <1>1, <2>1, <2>2, <2>3
<1>3. Whole => Whole'
  BY <1>1 DEF Whole
<1> QED BY <1>1, <1>2, <1>3

LEMMA HeldAsBefore ==
    ASSUME Types, Guard, Held, Now' = Now, missed \subseteq missed', obs' = "on" => obs = "on",
           open' = open \/ Now \in missed', \A t \in Takes : t # open => segments'[t] = segments[t]
    PROVE  Held'
<1>1. Now \in Nat /\ open \in Nat /\ open <= Now
  BY Numbers, RoomIs DEF Guard, Written, SomeTake
<1>2. \A t \in Takes : t \in Nat /\ (t > Now => t # open)
  BY <1>1, Numbers DEF Takes
<1>3. \A t \in Takes' : t \in Takes
  BY DEF Takes
<1>4. \A t \in Takes : t > Now => segments'[t] = <<>>
  BY <1>2 DEF Held
<1>5. ASSUME Now \in Takes, Now \notin missed', segments'[Now] # <<>>, obs' = "on" PROVE open' = Now
  BY <1>5 DEF Held
<1> QED BY <1>3, <1>4, <1>5 DEF Held

LEMMA StoredAsBefore ==
    ASSUME Stored, sidecars' = sidecars, parts' = parts, missed \subseteq missed', obs' = "on" => obs = "on"
    PROVE  Stored'
BY DEF Stored, NoFileForgotten, Takes, FilesOf, Now

\* A message more is on the wire, which ends the take if OBS is no longer recording, and
\* names a file of it if OBS is.
LEMMA EndsAppended ==
    ASSUME Types, Ended, Live' => Live, UNCHANGED <<open, segments>>, Now' = Now,
           NEW m \in Message, wire' = Append(wire, m), obs' = "on" => obs = "on",
           Ending(m)' => obs' # "on", Names(m) => obs = "on",
           \A n : n \in Range(wire) /\ Ending(n)' => Ending(n),
           \A c \in Everyone : Finishes(c)' => Finishes(c) /\ parts' = parts
    PROVE  Ended'
<1>1. /\ wire \in Seq(Message) /\ Len(wire) \in Nat /\ Len(wire') = Len(wire) + 1
      /\ \A i \in 1..Len(wire) : wire'[i] = wire[i] /\ wire[i] \in Range(wire)
      /\ wire'[Len(wire) + 1] = m
  BY Longer, OnTheWire, RoomIs
<1> SUFFICES ASSUME Live'
             PROVE  /\ \A i \in 1..Len(wire') : Ending(wire[i])' =>
                          obs' # "on" /\ \A j \in 1..Len(wire') : i < j => ~Names(wire'[j])
                    /\ \A c \in Everyone : Finishes(c)' => obs' # "on" /\ Whole'
  BY DEF Ended, Names
<1>2. /\ \A i \in 1..Len(wire) : Ending(wire[i]) =>
            obs # "on" /\ \A j \in 1..Len(wire) : i < j => ~Names(wire[j])
      /\ \A c \in Everyone : Finishes(c) => obs # "on" /\ Whole
  BY DEF Ended
<1>3. ASSUME NEW i \in 1..Len(wire'), Ending(wire[i])'
      PROVE  obs' # "on" /\ \A j \in 1..Len(wire') : i < j => ~Names(wire'[j])
  <2>1. CASE i = Len(wire) + 1
    <3>1. \A j \in 1..Len(wire') : ~(i < j)
      BY <1>1, <2>1
    <3>2. Ending(m)'
      BY <1>1, <1>3, <2>1 DEF Ending, Stopped
    <3> QED BY <3>1, <3>2
  <2>2. CASE i \in 1..Len(wire)
    <3>1. wire'[i] = wire[i] /\ wire[i] \in Range(wire)
      BY <1>1, <2>2
    <3>2. Ending(wire[i])
      <4> DEFINE n == wire[i]
      <4>1. n \in Range(wire) /\ (Stopped(n) \/ (n.type = "reply" /\ Stopping'))
        BY <1>3, <3>1 DEF Ending, Stopped
      <4> HIDE DEF n
      <4>2. Ending(n)
        BY <4>1 DEF Ending
      <4> QED BY <4>2 DEF n
    <3>3. obs # "on" /\ (\A j \in 1..Len(wire) : i < j => ~Names(wire[j])) /\ ~Names(m)
      BY <1>2, <2>2, <3>2
    <3>4. \A j \in 1..Len(wire') : j \in 1..Len(wire) \/ j = Len(wire) + 1
      BY <1>1
    <3> QED BY <1>1, <3>3, <3>4
  <2> QED BY <1>1, <2>1, <2>2
<1>4. ASSUME NEW c \in Everyone, Finishes(c)' PROVE obs' # "on" /\ Whole'
  BY <1>2, <1>4 DEF Whole
<1> QED BY <1>3, <1>4

\* A take that has a sidecar has begun.
LEMMA WrittenIs ==
    ASSUME Types, Guard, NEW t \in Takes, sidecars[t] # <<>>
    PROVE  t \in 1..Now /\ t \in DOMAIN parts
<1>1. t \in Nat /\ t >= 1
  BY Numbers DEF Takes
<1>2. ~(t > Now) /\ Now \in Nat
  BY Numbers DEF Guard, Written
<1> QED BY <1>1, <1>2, ObsIs, LenProperties DEF Now

\* OBS begins a take: of the one that is open, if any, nobody hears any more.
LEMMA FinishBegun ==
    ASSUME Types, Guard, TakesKept', Finish, Begin, missed \subseteq missed',
           UNCHANGED <<open, segments, sidecars>>
    PROVE  Finish'
<1>1. /\ Now' = Now + 1 /\ Now \in Nat /\ open \in Nat /\ open <= Now /\ parts \in Seq(1..MaxParts)
      /\ parts' = Append(parts, 1)
  BY Begins, Numbers, RoomIs, ObsIs DEF Guard, Written, SomeTake, Begin
<1>2. Ended'
  BY <1>1 DEF Ended, TakesKept, Followed
<1>3. Held'
  <2>1. \A t \in Takes : t > Now + 1 => t > Now
    BY <1>1 DEF Takes
  <2>2. Now + 1 > Now
    BY <1>1
  <2> QED BY <1>1, <2>1, <2>2 DEF Finish, Held, Takes
<1>4. ASSUME NEW t \in Takes \ missed', sidecars[t] # <<>>
      PROVE  t \in Takes \ missed /\ t # Now' /\ parts'[t] = parts[t]
  <2>1. t \in 1..Now
    BY <1>4, WrittenIs
  <2>2. parts'[t] = parts[t]
    <3>1. 1 \in 1..MaxParts /\ t \in 1..Len(parts)
      BY <2>1, Numbers DEF Now
    <3>2. parts \in Seq(1..MaxParts) /\ parts' = Append(parts, 1)
      BY <1>1
    <3> QED BY <3>1, <3>2, AppendProperties
  <2>3. t \in Takes \ missed
    OBVIOUS
  <2>4. t # Now'
    BY <1>1, <2>1
  <2> QED BY <2>2, <2>3, <2>4
<1>5. Stored'
  <2>1. ASSUME NEW t \in Takes \ missed', NEW i \in DOMAIN sidecars[t]
        PROVE  /\ Range(FilesOf(t))' \subseteq sidecars[t][i].named \cup sidecars[t][i].unfound
    <3>1. sidecars[t] # <<>>
      BY DOMAIN <<>> = {}
    <3>2. FilesOf(t)' = FilesOf(t) /\ t \in Takes \ missed
      BY <1>4, <3>1 DEF FilesOf
    <3> QED BY <3>2 DEF Finish, Stored, NoFileForgotten
  <2>2. NoFileForgotten'
    BY <2>1 DEF NoFileForgotten, Takes
  <2>3. \A t \in Takes \ missed' : sidecars[t] # <<>> => t # Now'
    BY <1>4
  <2> QED BY <2>2, <2>3 DEF Stored, Takes
<1> QED BY <1>2, <1>3, <1>5 DEF Finish

\* OBS, and a hand in it.
LEMMA FinishObs ==
    ASSUME Types, Types', Guard, TakesKept, TakesKept', Finish, ~Crossings,
           ObsStart \/ ObsStop \/ ObsStopped \/ ObsAnswersStart \/ ObsAnswersStop
    PROVE  Finish'
<1>1. /\ UNCHANGED <<open, segments, call, sidecars>> /\ Stopping' = Stopping
      /\ \A c \in Everyone : Finishes(c)' = Finishes(c)
  <2>1. UNCHANGED <<open, segments, call, sidecars>>
    BY DEF ObsStart, ObsStop, ObsStopped, ObsAnswersStart, ObsAnswersStop, session
  <2> QED BY <2>1 DEF Stopping, Finishes
<1>2. CASE ObsStart
  <2>1. Begin /\ Say(<<Began>>)
    BY <1>2 DEF ObsStart
  <2>2. missed \subseteq missed'
    BY <2>1, Begins, Heeded
  <2> QED BY <1>1, <2>1, <2>2, FinishBegun
<1>3. CASE ObsStop
  <2>1. wire' = <<>> /\ Len(wire') = 0 /\ obs' # "on" /\ Now' = Now /\ UNCHANGED <<parts, missed, wire, segments>>
    <3>1. Len(<<>>) = 0
      OBVIOUS
    <3> QED BY <1>1, <1>3, <3>1, HandIsFree DEF ObsStop, linkVars, Now
  <2>2. Ended'
    <3>1. \A i \in 1..Len(wire') : wire'[i] = wire[i + 0] /\ i + 0 \in 1..Len(wire) /\ i \in Nat
      BY <2>1
    <3> QED BY <1>1, <2>1, <3>1, EndsAsBefore DEF Finish, Live
  <2>3. Held' /\ Stored'
    BY <1>1, <2>1, HeldAsBefore, StoredAsBefore DEF Finish
  <2> QED BY <2>2, <2>3 DEF Finish
<1>4. ASSUME NEW m \in Message, Say(<<m>>), m.take = Now, Now' = Now, parts' = parts, obs' = "on" => obs = "on",
             Ending(m)' => obs' # "on" \/ ~Live', ~Names(m)
      PROVE  Finish'
  <2>1. /\ missed \subseteq missed'
        /\ \/ wire' = Append(wire, m)
           \/ Now \in missed'
    BY <1>4, Heeded
  <2>2. Ended'
    <3> SUFFICES ASSUME Live' PROVE Ended'
      BY DEF Ended
    <3>1. Live /\ wire' = Append(wire, m)
      BY <1>1, <1>4, <2>1 DEF Live, TakesKept, Followed
    <3>2. \A n : n \in Range(wire) /\ Ending(n)' => Ending(n)
      BY <1>1 DEF Ending
    <3> QED BY <1>1, <1>4, <3>1, <3>2, EndsAppended DEF Finish
  <2>3. Held' /\ Stored'
    BY <1>1, <1>4, <2>1, HeldAsBefore, StoredAsBefore DEF Finish
  <2> QED BY <2>2, <2>3 DEF Finish
<1>5. CASE ObsStopped
  <2>0. PICK m : m = RecordState(FALSE, File(Now, parts[Now]))
    OBVIOUS
  <2>1. obs # "off" /\ obs' = "off" /\ Say(<<m>>) /\ parts' = parts /\ Now' = Now
    BY <1>5, <2>0 DEF ObsStopped, Now
  <2>2. m \in Message /\ m.take = Now /\ ~Names(m)
    <3>1. File(Now, parts[Now]) \in Files /\ File(Now, parts[Now]).take = Now /\ FALSE \in BOOLEAN
      BY <2>1, FileIs DEF File
    <3>2. m \in Message /\ m.type = "record" /\ m.active = FALSE /\ m.take = Now
      BY <2>0, <3>1, Messages, SaysIt
    <3> QED BY <3>2 DEF Names
  <2> QED BY <1>4, <2>1, <2>2
<1>6. CASE ObsAnswersStart
  <2>1. PICK r \in asked :
           LET yes == [Reply(r.call, TRUE) EXCEPT !.take = Now + 1]
           IN  /\ r.what = "start"
               /\ \/ Begin /\ (Say(<<yes, Began>>) \/ Say(<<Began, yes>>))
                  \/ /\ obs # "off" \/ Now = MaxTakes
                     /\ Say(<<Reply(r.call, FALSE)>>)
                     /\ UNCHANGED outputs
    BY <1>6 DEF ObsAnswersStart
  <2>2. r.call \in Calls /\ r.call \in Everyone /\ call[r.call].phase = "starting"
    BY <2>1, RoomIs DEF TakesKept, Exchange, Request
  <2>3. CASE Begin
    <3>1. missed \subseteq missed'
      BY <2>1 DEF Say
    <3> QED BY <1>1, <2>3, <3>1, FinishBegun
  <2>4. CASE Say(<<Reply(r.call, FALSE)>>) /\ UNCHANGED outputs
    <3>0. PICK m : m = Reply(r.call, FALSE)
      OBVIOUS
    <3>1. m \in Message /\ m.type = "reply" /\ m.take = Now
      BY <2>2, <3>0, Messages
    <3>2. Say(<<m>>) /\ Now' = Now /\ UNCHANGED <<obs, parts>>
      BY <2>4, <3>0 DEF outputs, Now
    <3>3. ~Names(m) /\ (Ending(m)' => obs' # "on" \/ ~Live')
      <4>1. Starting(r.call) /\ Busy(r.call)
        BY <2>2 DEF Starting, Busy
      <4>2. open = 0
        BY <2>2, <4>1 DEF Guard, OneAtATime
      <4> QED BY <1>1, <3>1, <4>2 DEF Names, Live
    <3> QED BY <1>4, <3>1, <3>2, <3>3
  <2> QED BY <2>1, <2>3, <2>4
<1>7. CASE ObsAnswersStop
  <2>1. PICK r \in asked : /\ r.what = "stop" /\ Say(<<Reply(r.call, obs # "off")>>)
                           /\ obs' = IF obs = "on" THEN "stopping" ELSE obs
    BY <1>7 DEF ObsAnswersStop
  <2>2. r.call \in Calls /\ Now' = Now /\ parts' = parts
    BY <1>7, RoomIs DEF Request, ObsAnswersStop, Now
  <2>0. PICK m : m = Reply(r.call, obs # "off")
    OBVIOUS
  <2>3. m \in Message /\ m.type = "reply" /\ m.take = Now
    <3>1. (obs # "off") \in BOOLEAN
      OBVIOUS
    <3> QED BY <2>0, <2>2, <3>1, Messages
  <2>4. Say(<<m>>)
    BY <2>0, <2>1
  <2> QED BY <1>4, <2>1, <2>2, <2>3, <2>4 DEF Names
<1> QED BY <1>2, <1>3, <1>5, <1>6, <1>7

\* OBS goes on in a new file, which it does while it records only.
LEMMA FinishSplit ==
    ASSUME Types, Types', Guard, TakesKept, TakesKept', Finish, ObsSplit
    PROVE  Finish'
<1>0. PICK m : m = RecordFile(File(Now, parts[Now] + 1))
  OBVIOUS
<1>1. /\ obs = "on" /\ obs' = "on" /\ Say(<<m>>) /\ parts' = [parts EXCEPT ![Now] = @ + 1]
      /\ UNCHANGED <<open, segments, call, sidecars>>
  BY <1>0 DEF ObsSplit, session
<1>2. /\ Now \in 1..Len(parts) /\ parts[Now] + 1 \in 1..MaxParts /\ parts \in Seq(1..MaxParts)
  BY <1>1, FileIs, Numbers, ObsIs DEF ObsSplit
<1>3. Now' = Now /\ \A t \in DOMAIN parts : t # Now => parts'[t] = parts[t]
  <2>1. Now' = Now
    BY <1>1, <1>2, ExceptSeq DEF Now
  <2>2. \A t \in DOMAIN parts : t # Now => parts'[t] = parts[t]
    BY <1>1
  <2> QED BY <1>1, <2>1, <2>2
<1>4. m \in Message /\ m.type = "file" /\ m.take = Now
  <2>1. File(Now, parts[Now] + 1) \in Files /\ File(Now, parts[Now] + 1).take = Now
    BY <1>1, <1>2, FileIs DEF File
  <2> QED BY <1>0, <2>1, Messages, SaysIt
<1>5. /\ missed \subseteq missed'
      /\ \/ wire' = Append(wire, m)
         \/ Now \in missed'
  BY <1>1, <1>4, Heeded
<1>6. Ended'
  <2> SUFFICES ASSUME Live' PROVE Ended'
    BY DEF Ended
  <2>1. Live /\ wire' = Append(wire, m) /\ wire \in Seq(Message)
    BY <1>1, <1>5, RoomIs DEF Live, TakesKept, Followed
  <2>2. /\ \A i \in 1..Len(wire) : ~Ending(wire[i])
        /\ \A c \in Everyone : ~Finishes(c)
    BY <1>1, <2>1 DEF Finish, Ended
  <2>3. \A n \in Range(wire) : ~Ending(n)
    BY <2>1, <2>2, OnTheWire
  <2>4. \A n : n \in Range(wire) /\ Ending(n)' => Ending(n)
    BY <1>1 DEF Ending, Stopping
  <2>5. ~Ending(m)'
    BY <1>4 DEF Ending, Stopped
  <2>6. \A c \in Everyone : Finishes(c)' => Finishes(c) /\ parts' = parts
    <3>1. \A c \in Everyone : Finishes(c)' = Finishes(c)
      BY <1>1 DEF Finishes
    <3> QED BY <2>2, <3>1
  <2> QED BY <1>1, <1>3, <1>4, <2>1, <2>4, <2>5, <2>6, EndsAppended DEF Finish
<1>7. Held'
  BY <1>1, <1>3, <1>5, HeldAsBefore DEF Finish
<1>8. Stored'
  <2>1. ASSUME NEW t \in Takes \ missed', NEW i \in DOMAIN sidecars[t]
        PROVE  Range(FilesOf(t))' \subseteq sidecars[t][i].named \cup sidecars[t][i].unfound
    <3>1. sidecars[t] # <<>> /\ t \in Takes \ missed
      BY <1>5, DOMAIN <<>> = {}
    <3>2. t # Now /\ t \in DOMAIN parts
      BY <1>1, <3>1, WrittenIs DEF Finish, Stored
    <3>3. FilesOf(t)' = FilesOf(t)
      BY <1>3, <3>2 DEF FilesOf
    <3> QED BY <3>1, <3>3 DEF Finish, Stored, NoFileForgotten
  <2>2. NoFileForgotten'
    BY <1>1, <2>1 DEF NoFileForgotten, Takes
  <2> QED BY <1>1, <1>3, <1>5, <2>2 DEF Finish, Stored, Takes
<1> QED BY <1>6, <1>7, <1>8 DEF Finish

\* Nothing is heard: what was on the wire is there, or is lost.
LEMMA FinishUnheard ==
    ASSUME Types, Guard, Finish, Live' => Live /\ open' = open, wire' = wire \/ wire' = <<>>,
           wire' # <<>> => (Stopping' => Stopping), Now' = Now, parts' = parts, obs' = "on" => obs = "on",
           missed \subseteq missed', open' = open \/ Now \in missed', UNCHANGED <<segments, sidecars>>,
           \A c \in Everyone : Finishes(c)' => Finishes(c)
    PROVE  Finish'
<1>1. \A i \in 1..Len(wire') : /\ wire'[i] = wire[i + 0] /\ i + 0 \in 1..Len(wire) /\ i \in Nat
                               /\ Stopping' => Stopping
  <2>1. CASE wire' = <<>>
    <3>1. Len(<<>>) = 0 /\ \A i \in 1..0 : FALSE
      OBVIOUS
    <3> QED BY <2>1, <3>1
  <2>2. CASE wire' # <<>>
    BY <2>2
  <2> QED BY <2>1, <2>2
<1>2. Ended'
  BY <1>1, EndsAsBefore DEF Finish
<1>3. Held' /\ Stored'
  BY HeldAsBefore, StoredAsBefore DEF Finish
<1> QED BY <1>2, <1>3 DEF Finish

LEMMA FinishLink ==
    ASSUME Types, Types', Guard, TakesKept, Finish,
           LinkLost \/ ObsDies \/ Connect \/ Reattach \/ Restart \/ Reconnect \/ UNCHANGED vars
    PROVE  Finish'
<1>1. CASE LinkLost \/ ObsDies
  <2>1. /\ Lose /\ wire' = <<>> /\ obs' \in {"off", obs} /\ UNCHANGED <<parts, open, segments, sidecars>>
        /\ missed \subseteq missed' /\ Now' = Now
    BY <1>1 DEF LinkLost, ObsDies, Lose, session, Now
  <2>2. \A c \in Everyone : Finishes(c)' => Finishes(c)
    BY <2>1, RefusedIs DEF Finishes, Lose
  <2> QED BY <2>1, <2>2, FinishUnheard DEF Live
<1>2. CASE Restart \/ Reconnect
  <2>1. /\ wire' = <<>> /\ open' = 0 /\ missed \subseteq missed' /\ Now \in missed'
        /\ UNCHANGED <<obs, parts, segments, sidecars>> /\ Now' = Now
    BY <1>2 DEF Restart, Reconnect, Afresh, outputs, Now
  <2>2. \A c \in Everyone : ~Finishes(c)'
    BY <1>2 DEF Restart, Reconnect, Finishes, Idle
  <2> QED BY <2>1, <2>2, FinishUnheard DEF Live
<1>3. CASE Connect \/ Reattach \/ UNCHANGED vars
  <2>1. /\ UNCHANGED <<obs, parts, wire, missed, open, segments, call, sidecars>> /\ Now' = Now
    BY <1>3 DEF Connect, Reattach, vars, obsVars, outputs, linkVars, session, Now
  <2>2. Stopping' = Stopping /\ \A c \in Everyone : Finishes(c)' = Finishes(c)
    BY <2>1 DEF Stopping, Finishes
  <2> QED BY <2>1, <2>2, FinishUnheard DEF Live
<1> QED BY <1>1, <1>2, <1>3

\* What OBS is doing is read.
LEMMA FinishReads ==
    ASSUME Types, Types', Guard, TakesKept, Finish, ObsAnswersStatus
    PROVE  Finish'
<1>1. /\ wire' = Append(wire, StatusRead) /\ Now' = Now
      /\ UNCHANGED <<obs, parts, missed, open, segments, call, sidecars>>
  BY DEF ObsAnswersStatus, outputs, linkVars, session, Now
<1>2. StatusRead \in Message /\ StatusRead.type = "status"
  BY Messages
<1>3. PICK m \in Message : m = StatusRead /\ ~Names(m) /\ ~Stopped(m) /\ m.type # "reply"
  BY <1>2 DEF Names, Stopped
<1>4. /\ \A n : n \in Range(wire) /\ Ending(n)' => Ending(n)
      /\ ~Ending(m)'
      /\ \A c \in Everyone : Finishes(c)' = Finishes(c)
  BY <1>1, <1>3 DEF Ending, Stopping, Finishes
<1>5. Ended'
  BY <1>1, <1>3, <1>4, EndsAppended DEF Finish, Live
<1>6. Held' /\ Stored'
  BY <1>1, HeldAsBefore, StoredAsBefore DEF Finish
<1> QED BY <1>5, <1>6 DEF Finish

\* The control room starts a take, or stops it; a path is no longer waited for.
LEMMA FinishCalls ==
    ASSUME Types, Types', Guard, TakesKept, Finish, ~Crossings, NEW c \in Everyone,
           \/ c \in Calls /\ (StartRecording(c) \/ AskStart(c) \/ StopRecording(c))
           \/ PathTimesOut(c)
    PROVE  Finish'
<1>1. call \in [Everyone -> Call] /\ c \in Everyone
  BY RoomIs
<1>2. CASE StartRecording(c) \/ StopRecording(c)
  <2>1. /\ wire' = <<>> /\ \A d \in Everyone : call[d] = Idle
        /\ UNCHANGED <<obs, parts, open, segments, sidecars>> /\ Now' = Now /\ missed \subseteq missed'
    <3>1. wire' = <<>> /\ \A d \in Everyone : call[d] = Idle
      BY <1>2 DEF StartRecording, StopRecording, Gesture, FreeHand, obsVars
    <3>2. missed \subseteq missed'
      BY <1>2 DEF StartRecording, StopRecording, linkVars
    <3> QED BY <1>2, <3>1, <3>2 DEF StartRecording, StopRecording, obsVars, outputs, session, Now
  <2>2. \A d \in Everyone : d # c => call'[d] = call[d]
    BY <1>1, <1>2 DEF StartRecording, StopRecording
  <2>3. call'[c].phase \in {"naming", "stopping", "idle"}
    <3>1. CASE StartRecording(c)
      BY <1>1, <3>1 DEF StartRecording, Call
    <3>2. CASE StopRecording(c)
      <4>1. \/ call' = [call EXCEPT ![c] = [phase |-> "stopping", path |-> Awaited, take |-> 0]]
            \/ call' = [call EXCEPT ![c].path = Awaited]
        BY <3>2 DEF StopRecording
      <4>2. call[c].phase = "idle"
        BY <2>1 DEF Idle
      <4> QED BY <1>1, <4>1, <4>2 DEF Call
    <3> QED BY <1>2, <3>1, <3>2
  <2>4. \A d \in Everyone : ~Finishes(d)'
    BY <2>1, <2>2, <2>3 DEF Finishes, Idle
  <2> QED BY <2>1, <2>4, FinishUnheard DEF Live
<1>3. CASE AskStart(c)
  <2>1. /\ call[c].phase = "naming" /\ Now' = Now
        /\ UNCHANGED <<obs, parts, wire, missed, open, segments, sidecars>>
    BY <1>3 DEF AskStart, outputs, linkVars, Now
  <2>2. /\ \A d \in Everyone : d # c => call'[d] = call[d]
        /\ call'[c].phase \in {"idle", "starting"}
    BY <1>1, <1>3 DEF AskStart, Call, Idle
  <2>3. \A d \in Everyone : /\ Finishes(d)' => Finishes(d)
                            /\ call'[d].phase = "stopping" => call[d].phase = "stopping"
    BY <2>2 DEF Finishes
  <2>4. Stopping' => Stopping
    BY <2>3 DEF Stopping
  <2> QED BY <2>1, <2>3, <2>4, FinishUnheard DEF Live
<1>4. CASE PathTimesOut(c)
  <2>1. /\ call' = Resolve(call, c, NoFile) /\ Now' = Now
        /\ UNCHANGED <<obs, parts, wire, missed, open, segments, sidecars>>
    BY <1>4 DEF PathTimesOut, obsVars, outputs, linkVars, session, Now
  <2>2. \A d \in Everyone : call'[d].phase = call[d].phase
    BY <2>1, ResolveIs, RoomIs
  <2>3. Stopping' = Stopping /\ \A d \in Everyone : Finishes(d)' = Finishes(d)
    BY <2>2 DEF Stopping, Finishes
  <2> QED BY <2>1, <2>3, FinishUnheard DEF Live
<1> QED BY <1>2, <1>3, <1>4

\* The list of a take only grows.
LEMMA ListGrows ==
    ASSUME Types, NEW file \in SomeFile, NoteSegment(file)
    PROVE  /\ open' = open /\ \A t \in Takes : t # open => segments'[t] = segments[t]
           /\ open # 0 => Range(segments[open]) \subseteq Range(segments'[open])
<1>1. open' = open
  BY NotesIs
<1>2. CASE UNCHANGED segments
  BY <1>1, <1>2
<1>3. CASE /\ open # 0 /\ file \in Files
           /\ segments' = [segments EXCEPT ![open] = IF file \in Range(@) THEN @ ELSE Append(@, file)]
  <2>1. open \in Takes /\ segments \in [Takes -> Seq(Files)]
    BY <1>3, Numbers, RoomIs DEF Takes, SomeTake
  <2>2. /\ segments'[open] = IF file \in Range(segments[open]) THEN segments[open]
                             ELSE Append(segments[open], file)
        /\ \A t \in Takes : t # open => segments'[t] = segments[t]
    BY <1>3, <2>1
  <2>3. Range(segments[open]) \subseteq Range(Append(segments[open], file))
    <3> DEFINE s == segments[open]
    <3>1. s \in Seq(Files) /\ file \in Files
      BY <1>3, <2>1
    <3> HIDE DEF s
    <3>2. /\ Len(s) \in Nat /\ DOMAIN s = 1..Len(s) /\ DOMAIN Append(s, file) = 1..Len(s) + 1
          /\ \A i \in 1..Len(s) : Append(s, file)[i] = s[i]
      BY <3>1, AppendProperties, LenProperties
    <3>3. \A i \in 1..Len(s) : i \in 1..Len(s) + 1
      BY <3>2
    <3>4. Range(s) \subseteq Range(Append(s, file))
      BY <3>2, <3>3, Zenon DEF Range
    <3> QED BY <3>4 DEF s
  <2> QED BY <1>1, <2>2, <2>3
<1>4. UNCHANGED segments \/ (/\ open # 0 /\ file \in Files
           /\ segments' = [segments EXCEPT ![open] = IF file \in Range(@) THEN @ ELSE Append(@, file)])
  BY DEF NoteSegment, session, SomeFile
<1> QED BY <1>2, <1>3, <1>4

\* The path is taken.
LEMMA FinishPath ==
    ASSUME Types, Types', Guard, TakesKept, Finish, NEW c \in Everyone, TakePath(c)
    PROVE  Finish'
<1>1. /\ call[c].phase = "waiting" /\ ~Armed(c) /\ Now' = Now
      /\ UNCHANGED <<obs, parts, wire, missed, sidecars>>
  BY DEF TakePath, obsVars, outputs, linkVars, Now
<1>2. call \in [Everyone -> Call] /\ call[c].path \in SomeFile
  BY <1>1, RoomIs DEF Armed, Call, Paths, SomeFile
<1>3. /\ open' = open /\ \A t \in Takes : t # open => segments'[t] = segments[t]
      /\ open # 0 => Range(segments[open]) \subseteq Range(segments'[open])
  <2>1. UNCHANGED session \/ NoteSegment(call[c].path)
    BY DEF TakePath
  <2> QED BY <1>2, <2>1, ListGrows DEF session
<1>4. /\ \A d \in Everyone : d # c => call'[d] = call[d]
      /\ call'[c].phase \in {"idle", "locating"}
  BY <1>2 DEF TakePath, Call, Idle
<1>5. \A d \in Everyone : /\ Finishes(d)' => Finishes(d)
                          /\ call'[d].phase = "stopping" => call[d].phase = "stopping"
  BY <1>1, <1>4 DEF Finishes
<1>6. Stopping' => Stopping
  BY <1>5 DEF Stopping
<1>7. \A i \in 1..Len(wire') : /\ wire'[i] = wire[i + 0] /\ i + 0 \in 1..Len(wire) /\ i \in Nat
                               /\ Stopping' => Stopping
  BY <1>1, <1>6
<1>8. Ended'
  BY <1>1, <1>3, <1>5, <1>7, EndsAsBefore DEF Finish, Live
<1>9. Held' /\ Stored'
  BY <1>1, <1>3, HeldAsBefore, StoredAsBefore DEF Finish
<1> QED BY <1>8, <1>9 DEF Finish

\* What is on the wire no longer names a file after its first message: all are known.
LEMMA AllNamed ==
    ASSUME Types, TakesKept, Live, wire # <<>>, ~Names(Head(wire)),
           \A j \in 1..Len(wire) : 1 < j => ~Names(wire[j]),
           \A c \in Everyone : call[c].phase # "locating"
    PROVE  Whole
<1>1. Comes(segments[open], wire, Now, parts[Now]) /\ segments[open] \in Seq(Files) /\ parts[Now] \in Nat
  BY LiveIs DEF TakesKept, Known
<1>2. \A j \in 1..Len(wire) : ~Names(wire[j])
  <2>1. wire \in Seq(Message) /\ Head(wire) = wire[1]
    BY RoomIs, Shorter
  <2>2. \A j \in 1..Len(wire) : j = 1 \/ 1 < j
    OBVIOUS
  <2> QED BY <2>1, <2>2
<1>3. \A i \in 1..Len(<<>>) : ~Names(<<>>[i])
  OBVIOUS
<1>4. Comes(segments[open], <<>>, Now, parts[Now])
  BY <1>1, <1>2, <1>3, NothingComes
<1>5. segments[open] = [part \in 1..parts[Now] |-> File(Now, part)]
  BY <1>1, <1>4, AllKnown, Numbers
<1> QED BY <1>5 DEF Whole, Range

\* The end of the take is heard.
LEMMA EndIsHeard ==
    ASSUME Types, TakesKept, Finish, Live, wire # <<>>, Ending(Head(wire)), ~Names(Head(wire)),
           \A c \in Everyone : call[c].phase # "locating"
    PROVE  obs # "on" /\ Whole
<1>1. wire \in Seq(Message) /\ Head(wire) = wire[1] /\ 1 \in 1..Len(wire)
  BY RoomIs, Shorter
<1>2. obs # "on" /\ \A j \in 1..Len(wire) : 1 < j => ~Names(wire[j])
  BY <1>1 DEF Finish, Ended
<1> QED BY <1>2, AllNamed

\* A message is heard that changes at most the calls, and the list of the take.
LEMMA FinishHeard ==
    ASSUME Types, Guard, Finish, Hearing, open' = open, UNCHANGED sidecars,
           \A t \in Takes : t # open => segments'[t] = segments[t],
           Live => Range(segments[open]) \subseteq Range(segments'[open]),
           Stopping' => Stopping,
           Live => \A c \in Everyone : Finishes(c)' => Finishes(c) \/ (obs # "on" /\ Whole)
    PROVE  Finish'
<1>1. /\ \A i \in 1..Len(wire') : wire'[i] = wire[i + 1] /\ i + 1 \in 1..Len(wire) /\ i \in Nat
      /\ obs' = obs /\ parts' = parts /\ Now' = Now /\ missed' = missed
  BY HearingIs
<1>2. Ended'
  BY <1>1, EndsAsBefore DEF Finish, Live
<1>3. Held' /\ Stored'
  BY <1>1, HeldAsBefore, StoredAsBefore DEF Finish
<1> QED BY <1>2, <1>3 DEF Finish

\* Who asked for a take is answered.
LEMMA FinishTold ==
    ASSUME Types, Types', Guard, TakesKept, Finish, Hearing, NEW c \in Calls,
           Head(wire).type = "reply", HearStart(c)
    PROVE  Finish'
<1> DEFINE m == Head(wire)
<1>1. /\ m \in Message /\ m = wire[1] /\ m \in Range(wire) /\ 1 \in 1..Len(wire)
      /\ Range(wire) = {m} \cup Range(wire') /\ wire' \in Seq(Message)
      /\ UNCHANGED <<obs, parts, missed>> /\ Now' = Now
  BY HearingIs, RoomIs DEF Types
<1>2. /\ call[c].phase = "starting" /\ call' = [call EXCEPT ![c] = Idle] /\ sidecars' = sidecars
  BY DEF HearStart
<1>3. c \in Everyone /\ call \in [Everyone -> Call] /\ Starting(c)
  BY <1>2, RoomIs DEF Starting
<1>4. \A d \in Everyone : d # c => call[d].phase = "idle"
  BY <1>3, OthersIdle DEF Busy, Starting
<1>5. \A d \in Everyone : call'[d].phase = "idle"
  BY <1>2, <1>3, <1>4 DEF Idle
<1>6. \A x \in Range(wire) : ~Stopped(x) /\ (Yes(x) => obs = "on")
  BY <1>3 DEF TakesKept, Starts
<1>7. Ended'
  <2>1. \A i \in 1..Len(wire') : wire'[i] \in Range(wire')
    BY <1>1, OnTheWire
  <2>2. ~Stopping'
    BY <1>5 DEF Stopping
  <2>3. \A i \in 1..Len(wire') : ~Ending(wire[i])'
    <3> SUFFICES ASSUME NEW i \in 1..Len(wire') PROVE ~Stopped(wire'[i])
      BY <2>2 DEF Ending, Stopped
    <3> QED BY <1>1, <1>6, <2>1
  <2>4. \A d \in Everyone : ~Finishes(d)'
    BY <1>5 DEF Finishes
  <2> QED BY <2>3, <2>4 DEF Ended
<1>8. Stored'
  BY <1>1, <1>2, StoredAsBefore DEF Finish
<1>9. CASE ~m.ok
  <2>1. Held'
    BY <1>1, <1>9, HeldAsBefore DEF HearStart, session, Finish
  <2> QED BY <1>7, <1>8, <2>1 DEF Finish
<1>10. CASE m.ok
  <2>1. Yes(m)
    BY <1>10 DEF Yes
  <2>2. m.take = Now
    BY <1>1, <1>2, <1>3, <2>1 DEF TakesKept, Opens
  <2>3. /\ open' = Now
        /\ \A t \in Takes : t # Now => segments'[t] = segments[t]
    BY <1>10, <2>2, RoomIs DEF HearStart
  <2>4. Held'
    <3>1. \A t \in Takes : t > Now => t # Now
      BY Numbers DEF Takes
    <3> QED BY <1>1, <2>3, <3>1 DEF Finish, Held, Takes
  <2> QED BY <1>7, <1>8, <2>4 DEF Finish
<1> QED BY <1>9, <1>10

\* Who asked for the end is answered: OBS names no more files.
LEMMA FinishAnswered ==
    ASSUME Types, Types', Guard, TakesKept, Finish, Hearing, NEW c \in Calls,
           Head(wire).type = "reply", Head(wire).call = c, HearStop(c)
    PROVE  Finish'
<1>1. /\ call[c].phase = "stopping" /\ UNCHANGED <<open, segments, sidecars>> /\ wire # <<>>
  BY DEF HearStop, session, Hearing
<1>2. c \in Everyone /\ call \in [Everyone -> Call]
  BY RoomIs
<1>3. \A d \in Everyone : d # c => call[d].phase = "idle"
  BY <1>1, <1>2, OthersIdle DEF Busy
<1>4. /\ \A d \in Everyone : d # c => call'[d] = call[d]
      /\ call'[c].phase \in {"idle", "waiting"}
  BY <1>2 DEF HearStop, Call
<1>5. ~Stopping'
  BY <1>3, <1>4 DEF Stopping
<1>6. Ending(Head(wire)) /\ ~Names(Head(wire))
  BY <1>1, <1>2 DEF Ending, Stopping, Names
<1>7. \A d \in Everyone : call[d].phase # "locating"
  BY <1>1, <1>3
<1>8. Live => obs # "on" /\ Whole
  BY <1>1, <1>6, <1>7, EndIsHeard
<1> QED BY <1>1, <1>5, <1>8, FinishHeard

LEMMA FinishHear ==
    ASSUME Types, Types', Guard, TakesKept, Finish, Hear
    PROVE  Finish'
<1>1. Hearing /\ wire # <<>>
  BY DEF Hear, Hearing
<1>2. CASE \E c \in Calls : /\ Head(wire).type = "reply" /\ Head(wire).call = c
                            /\ HearStart(c) \/ HearStop(c)
  BY <1>1, <1>2, FinishTold, FinishAnswered
<1>3. ASSUME UNCHANGED <<call, sidecars>>, UNCHANGED <<open, segments>> \/ (NoteSegment(Head(wire).file) /\ Names(Head(wire)))
      PROVE  Finish'
  <2>1. /\ open' = open /\ \A t \in Takes : t # open => segments'[t] = segments[t]
        /\ open # 0 => Range(segments[open]) \subseteq Range(segments'[open])
    <3>1. CASE UNCHANGED <<open, segments>>
      BY <3>1
    <3>2. CASE NoteSegment(Head(wire).file) /\ Names(Head(wire))
      <4>1. Head(wire) \in Message
        BY <1>1, HearingIs
      <4>2. Head(wire).file \in SomeFile
        BY <3>2, <4>1, NamesAre
      <4> QED BY <3>2, <4>2, ListGrows
    <3> QED BY <1>3, <3>1, <3>2
  <2>2. Stopping' = Stopping /\ \A c \in Everyone : Finishes(c)' = Finishes(c)
    BY <1>3 DEF Stopping, Finishes
  <2> QED BY <1>1, <1>3, <2>1, <2>2, FinishHeard DEF Live
<1>4. CASE HearFile
  BY <1>3, <1>4 DEF HearFile, Names
<1>5. CASE Adopt
  <2>1. UNCHANGED <<call, sidecars>> /\ UNCHANGED <<open, segments>>
    BY <1>5 DEF Adopt, session
  <2> QED BY <1>3, <2>1
<1>6. CASE HearRecord /\ Head(wire).active
  BY <1>3, <1>6 DEF HearRecord, Names
<1>7. CASE HearRecord /\ ~Head(wire).active
  <2>1. /\ Stopped(Head(wire)) /\ Ending(Head(wire)) /\ ~Names(Head(wire))
        /\ UNCHANGED <<open, segments, sidecars>>
    BY <1>7 DEF HearRecord, Stopped, Ending, Names, session
  <2>2. call \in [Everyone -> Call] /\ ByObs \in Everyone /\ Calls \subseteq Everyone
    BY RoomIs
  <2>3. CASE pending # NoCall /\ call' = Resolve(call, pending, Head(wire).file)
    <3>1. pending \in Everyone /\ Head(wire).file \in Paths
      <4>1. Head(wire) \in Message
        BY <1>1, HearingIs
      <4> QED BY <2>1, <2>2, <2>3, <4>1, NamesAre, RoomIs DEF Paths
    <3>2. \A d \in Everyone : call'[d].phase = call[d].phase
      BY <2>3, <3>1, ResolveIs, RoomIs
    <3>3. Stopping' = Stopping /\ \A d \in Everyone : Finishes(d)' = Finishes(d)
      BY <3>2 DEF Stopping, Finishes
    <3> QED BY <1>1, <2>1, <3>3, FinishHeard
  <2>4. CASE call' = call
    <3>1. Stopping' = Stopping /\ \A d \in Everyone : Finishes(d)' = Finishes(d)
      BY <2>4 DEF Stopping, Finishes
    <3> QED BY <1>1, <2>1, <3>1, FinishHeard
  <2>5. CASE /\ ~(open = 0 \/ closing)
             /\ call' = [call EXCEPT ![ByObs] = [phase |-> "waiting", path |-> Head(wire).file, take |-> 0]]
    <3>1. \A d \in Everyone : call[d].phase = "idle"
      BY <2>5 DEF Guard, OneAtATime, Busy
    <3>2. ~Stopping'
      BY <2>2, <2>5, <3>1 DEF Stopping
    <3>3. Live => obs # "on" /\ Whole
      BY <1>1, <2>1, <3>1, EndIsHeard
    <3> QED BY <1>1, <2>1, <3>2, <3>3, FinishHeard
  <2> QED BY <1>7, <2>3, <2>4, <2>5 DEF HearRecord, CloseStopFromObs
<1> QED BY <1>2, <1>4, <1>5, <1>6, <1>7 DEF Hear

\* The take is closed, with the files it has.
LEMMA FinishClosed ==
    ASSUME Types, Types', Guard, TakesKept, Finish, NEW c \in Everyone, Close(c)
    PROVE  Finish'
<1>1. /\ call[c].phase = "locating" /\ open' = 0 /\ Now' = Now
      /\ UNCHANGED <<obs, parts, missed, segments>>
  BY DEF Close, obsVars, outputs, linkVars, Now
<1>2. /\ open # 0 /\ call[c].take = open /\ sidecars[open] = <<>> /\ open \in Takes
      /\ open <= Now /\ Now \in Nat
  BY <1>1, Numbers, RoomIs DEF Guard, OneAtATime, Written, Takes, SomeTake
<1>3. Live => open = Now /\ obs # "on" /\ Whole
  BY <1>1 DEF Finish, Ended, Finishes, TakesKept, Followed
<1>4. Ended'
  BY <1>1 DEF Ended, Live
<1>5. Held'
  <2>1. ASSUME Now \in Takes, Now \notin missed, segments[Now] # <<>>, obs = "on" PROVE FALSE
    BY <1>2, <1>3, <2>1 DEF Finish, Held, Live
  <2> QED BY <1>1, <2>1 DEF Finish, Held, Takes
<1>6. PICK one :
         /\ sidecars' = [sidecars EXCEPT ![open] = one]
         /\ \/ one = <<>>
            \/ \E named, unfound :
                  /\ one = Append(<<>>, [named |-> named, unfound |-> unfound])
                  /\ Range(segments[open]) \subseteq named \cup unfound
  BY <1>2, ClosedWith
<1>7. sidecars'[open] = one /\ \A t \in Takes : t # open => sidecars'[t] = sidecars[t]
  BY <1>2, <1>6, RoomIs
<1>8. DOMAIN <<>> = {} /\ \A x : DOMAIN Append(<<>>, x) = {1} /\ Append(<<>>, x)[1] = x
  OBVIOUS
<1>9. \A t : FilesOf(t)' = FilesOf(t)
  BY <1>1 DEF FilesOf
<1>10. ASSUME NEW t \in Takes \ missed, NEW i \in DOMAIN sidecars'[t]
       PROVE  Range(FilesOf(t)) \subseteq sidecars'[t][i].named \cup sidecars'[t][i].unfound
  <2>1. CASE t = open
    <3>1. Range(FilesOf(t)) \subseteq Range(segments[open])
      <4>1. t = Now /\ Whole
        BY <1>2, <1>3, <2>1 DEF Live
      <4> QED BY <4>1 DEF Whole, FilesOf, Range
    <3>2. Range(segments[open]) \subseteq sidecars'[t][i].named \cup sidecars'[t][i].unfound
      BY <1>6, <1>7, <1>8, <1>10, <2>1
    <3> QED BY <3>1, <3>2
  <2>2. CASE t # open
    <3>1. sidecars'[t] = sidecars[t]
      BY <1>7, <2>2
    <3> QED BY <1>10, <3>1 DEF Finish, Stored, NoFileForgotten
  <2> QED BY <2>1, <2>2
<1>11. NoFileForgotten'
  BY <1>1, <1>9, <1>10 DEF NoFileForgotten, Takes
<1>12. \A t \in Takes \ missed : sidecars'[t] # <<>> /\ t = Now => obs # "on"
  BY <1>2, <1>3, <1>7 DEF Finish, Stored, Live
<1>13. Stored'
  BY <1>1, <1>11, <1>12 DEF Stored, Takes
<1> QED BY <1>4, <1>5, <1>13 DEF Finish

WholeInv == KeptInv /\ (~Crossings => Finish)

LEMMA WholeStep == WholeInv /\ [Next]_vars => WholeInv'
<1> SUFFICES ASSUME WholeInv, [Next]_vars PROVE WholeInv'
  OBVIOUS
<1>1. KeptInv /\ KeptInv'
  BY KeptStep DEF WholeInv
<1> SUFFICES ASSUME ~Crossings PROVE Finish'
  BY <1>1 DEF WholeInv
<1>2. Types /\ Types' /\ Guard /\ TakesKept /\ TakesKept' /\ Finish
  BY <1>1 DEF WholeInv, KeptInv, CloseInv
<1>3. CASE ObsStart \/ ObsStop \/ ObsStopped \/ ObsAnswersStart \/ ObsAnswersStop
  BY <1>2, <1>3, FinishObs
<1>4. CASE ObsSplit
  BY <1>2, <1>4, FinishSplit
<1>5. CASE LinkLost \/ ObsDies \/ Connect \/ Reattach \/ Restart \/ Reconnect \/ UNCHANGED vars
  BY <1>2, <1>5, FinishLink
<1>6. CASE ObsAnswersStatus
  BY <1>2, <1>6, FinishReads
<1>7. CASE Hear
  BY <1>2, <1>7, FinishHear
<1>8. ASSUME NEW c \in Calls, StartRecording(c) \/ AskStart(c) \/ StopRecording(c) PROVE Finish'
  BY <1>2, <1>8, FinishCalls DEF Everyone
<1>9. ASSUME NEW c \in Everyone, PathTimesOut(c) \/ TakePath(c) \/ Close(c) PROVE Finish'
  BY <1>2, <1>9, FinishCalls, FinishPath, FinishClosed
<1> QED BY <1>3, <1>4, <1>5, <1>6, <1>7, <1>8, <1>9 DEF Next

LEMMA WholeInit == Init => WholeInv
<1> SUFFICES ASSUME Init PROVE Finish
  BY KeptInit DEF WholeInv
<1>1. open = 0 /\ \A t \in Takes : sidecars[t] = <<>> /\ segments[t] = <<>>
  BY DEF Init
<1>2. DOMAIN <<>> = {}
  OBVIOUS
<1> QED BY <1>1, <1>2 DEF Finish, Ended, Held, Stored, NoFileForgotten, Live

\* The take that is open is the one OBS records, once nothing is on its way or being done: a
\* take that was stopped, in the room or in OBS, and whenever OBS named its file or never did,
\* is not left open (captureClosing, awaitOutputPath), none is left under another's name, and one
\* whose files the session has is not closed while OBS still records it. It takes that nothing is
\* started or stopped while that is being done already, and that no break cut short what was said
\* about the take; the link and either program may break at any moment.
THEOREM TheOpenTakeIsRecorded == Spec => [](~Crossings => OpenTakeIsRecorded)
<1>1. WholeInv => (~Crossings => OpenTakeIsRecorded)
  <2> SUFFICES ASSUME Types, Followed, Finish, Quiet PROVE OpenTakeIsRecorded
    BY DEF WholeInv, KeptInv, CloseInv, TakesKept, OpenTakeIsRecorded
  <2>1. Live => obs # "off" /\ open = Now
    BY NothingSaid DEF Followed, Quiet, Closes
  <2>2. obs = "on" => Now \in Takes
    BY Numbers, ObsIs DEF Takes
  <2> QED BY <2>1, <2>2 DEF OpenTakeIsRecorded, Live, Finish, Held
<1> QED BY <1>1, WholeInit, WholeStep, PTL DEF Spec

\* A take has all its files, in order, whether OBS named the first before it answered or after
\* (announcedAtStart), and none of another take's, in the session (onOutputs, openTake); and the
\* sidecar it is closed with names none of another's, and every one of its own but those that were
\* looked for and not found (closeTake). Under the same conditions.
THEOREM TheTakesKeepTheirFiles == Spec => [](~Crossings => TakesKeepTheirFiles)
<1>1. WholeInv => (~Crossings => TakesKeepTheirFiles)
  <2> SUFFICES ASSUME Types, TakesKept, Finish PROVE EveryFileIsKnown /\ NoForeignFile /\ NoFileForgotten
    BY DEF WholeInv, KeptInv, CloseInv, TakesKeepTheirFiles
  <2> SUFFICES ASSUME Quiet, Live PROVE segments[open] = FilesOf(open)
    BY DEF TakesKept, EveryFileIsKnown, Live, Finish, Stored
  <2>1. wire = <<>> /\ Comes(segments[open], wire, Now, parts[Now])
    BY DEF TakesKept, Known, Quiet
  <2>2. segments[open] = [part \in 1..parts[Now] |-> File(Now, part)]
    BY <2>1, LiveIs, AllKnown
  <2> QED BY <2>2, LiveIs DEF FilesOf
<1> QED BY <1>1, WholeInit, WholeStep, PTL DEF Spec
=============================================================================
