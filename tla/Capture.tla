------------------------------- MODULE Capture -------------------------------
(***************************************************************************)
(* A room's takes: the recording session (recording.ts), the handlers of   *)
(* the room application that start and stop it and listen to OBS           *)
(* (room-app.ts), and the connection of the OBS that captures (obs.ts).    *)
(*                                                                         *)
(* A take is open in the session while its file is open in OBS: two        *)
(* states, in two programs, that the events of a socket keep together. A   *)
(* take is started and stopped from the control room or in OBS itself, OBS *)
(* continues it in a new file when it likes, and a closing waits for OBS   *)
(* to name the file, then for the disk, while the session is still open.   *)
(***************************************************************************)
EXTENDS Naturals, Sequences, FiniteSets, SequencesExt

CONSTANTS
    Calls,      \* calls of the control room
    ByObs,      \* the closing of a take that was stopped in OBS
    NoCall,
    NoFile,     \* a path OBS does not give
    Awaited,    \* a path that is waited for
    Crossings,  \* a take may be started or stopped while that is being done already
    MaxTakes,   \* bound of the model: recordings OBS starts
    MaxParts,   \* bound of the model: files of a recording
    MaxBreaks   \* bound of the model: breaks of the link and of either program

ASSUME NamesAssumption == ByObs \notin Calls /\ NoCall \notin Calls \cup {ByObs}
ASSUME CrossingsAssumption == Crossings \in BOOLEAN
ASSUME BoundsAssumption == {MaxTakes, MaxBreaks} \subseteq Nat /\ MaxParts \in Nat \ {0}

Files == [take : 1..MaxTakes, part : 1..MaxParts]
ASSUME NoFileAssumption == NoFile # Awaited /\ {NoFile, Awaited} \cap Files = {}

VARIABLES
    obs,       \* OBS's recording: "off", "on" or "stopping"
    parts,     \* of each recording OBS made, the number of its files
    asked,     \* requests on their way to OBS
    wire,      \* replies and events on their way to the room, in OBS's order
    link,      \* "lost", "down" (being connected), "reading" (what OBS is doing
               \* is being read) or "up"
    status,    \* what GetRecordStatus said of this connection
    open,      \* the session's take, 0 for none
    segments,  \* of each take, the files the session knows
    announced, \* announcedAtStart
    recording, \* state().recording: what the room shows and reports
    pending,   \* pendingOutputPath: the call OBS's path goes to
    closing,   \* captureClosing
    call,      \* of each call, [phase, path, take]
    sidecars,  \* of each take, the sidecars written, [named, unfound]: unfound, the
               \* files the room knew and did not find, is logged, not written
    breaks,    \* breaks so far
    missed     \* history: the takes an exchange about which a break cut short

outputs == <<obs, parts>>
obsVars == <<outputs, asked, wire>>
linkVars == <<link, status, breaks, missed>>
session == <<open, segments, announced>>
roomVars == <<recording, pending, closing>>
vars == <<obsVars, linkVars, session, roomVars, call, sidecars>>
-----------------------------------------------------------------------------
Everyone == Calls \cup {ByObs}
Idle == [phase |-> "idle", path |-> NoFile, take |-> 0]

\* The call waits for a path, as long as its five seconds run.
Armed(c) == call[c].path = Awaited
Takes == 1..MaxTakes
Now == Len(parts)                         \* OBS's recording, the last or current
File(take, part) == [take |-> take, part |-> part]
FilesOf(take) == [part \in 1..parts[take] |-> File(take, part)]

Connected == link \in {"reading", "up"}
Reply(c, ok) == [type |-> "reply", call |-> c, ok |-> ok, take |-> Now]
RecordState(active, file) ==
    [type |-> "record", active |-> active, file |-> file, take |-> file.take]
RecordFile(file) == [type |-> "file", file |-> file, take |-> file.take]
StatusRead == [type |-> "status", take |-> 0]

\* What OBS says reaches nobody while the link is down.
Say(messages) ==
    /\ wire' = IF Connected THEN wire \o messages ELSE wire
    /\ missed' = IF Connected THEN missed ELSE missed \cup {m.take : m \in Range(messages)}

\* Nothing is being done to a take, or anything may be.
FreeHand ==
    \/ Crossings
    \/ /\ wire = <<>> /\ asked = {} /\ obs # "stopping"
       /\ \A c \in Everyone : call[c] = Idle

Break == breaks < MaxBreaks /\ breaks' = breaks + 1

Init ==
    /\ obs = "off" /\ parts = <<>>
    /\ asked = {} /\ wire = <<>>
    /\ link = "up" /\ status = FALSE
    /\ open = 0 /\ segments = [t \in Takes |-> <<>>] /\ announced = NoFile
    /\ recording = FALSE /\ pending = NoCall /\ closing = FALSE
    /\ call = [c \in Everyone |-> Idle]
    /\ sidecars = [t \in Takes |-> <<>>]
    /\ breaks = 0 /\ missed = {}
-----------------------------------------------------------------------------
(***************************************************************************)
(* OBS.                                                                    *)
(***************************************************************************)

Begin ==
    /\ obs = "off" /\ Now < MaxTakes
    /\ obs' = "on"
    /\ parts' = Append(parts, 1)

Began == RecordState(TRUE, File(Now + 1, 1))

\* The operator's hand in OBS.
ObsStart ==
    /\ FreeHand
    /\ Begin
    /\ Say(<<Began>>)
    /\ UNCHANGED <<asked, link, status, breaks, session, roomVars, call, sidecars>>

ObsStop ==
    /\ FreeHand
    /\ obs = "on"
    /\ obs' = "stopping"
    /\ UNCHANGED <<parts, asked, wire, linkVars, session, roomVars, call, sidecars>>

\* The file is closed, and only now named: isSettledTransition lets this event
\* through, and the one of the stopping not. OBS may also give up by itself.
ObsStopped ==
    /\ obs = "stopping" \/ (obs = "on" /\ FreeHand)
    /\ obs' = "off"
    /\ Say(<<RecordState(FALSE, File(Now, parts[Now]))>>)
    /\ UNCHANGED <<parts, asked, link, status, breaks, session, roomVars, call, sidecars>>

ObsSplit ==
    /\ obs = "on" /\ parts[Now] < MaxParts
    /\ parts' = [parts EXCEPT ![Now] = @ + 1]
    /\ Say(<<RecordFile(File(Now, parts[Now] + 1))>>)
    /\ UNCHANGED <<obs, asked, link, status, breaks, session, roomVars, call, sidecars>>

\* OBS answers before or after it says that it records.
ObsAnswersStart ==
    \E r \in asked :
        LET yes == [Reply(r.call, TRUE) EXCEPT !.take = Now + 1]
        IN  /\ r.what = "start"
            /\ asked' = asked \ {r}
            /\ \/ Begin /\ (Say(<<yes, Began>>) \/ Say(<<Began, yes>>))
               \/ /\ obs # "off" \/ Now = MaxTakes
                  /\ Say(<<Reply(r.call, FALSE)>>)
                  /\ UNCHANGED outputs
            /\ UNCHANGED <<link, status, breaks, session, roomVars, call, sidecars>>

\* A stop of an inactive output is an error.
ObsAnswersStop ==
    \E r \in asked :
        /\ r.what = "stop"
        /\ asked' = asked \ {r}
        /\ Say(<<Reply(r.call, obs # "off")>>)
        /\ obs' = IF obs = "on" THEN "stopping" ELSE obs
        /\ UNCHANGED <<parts, link, status, breaks, session, roomVars, call, sidecars>>
-----------------------------------------------------------------------------
(***************************************************************************)
(* The link.                                                               *)
(***************************************************************************)

\* The calls that wait for an answer of OBS are refused with the socket. The
\* path a stop waits for is not: its timer is the room's own.
RefusedCalls ==
    [c \in Everyone |->
        IF call[c].phase = "starting" THEN Idle
        ELSE IF call[c].phase = "stopping"
             THEN [call[c] EXCEPT !.phase = "idle"]
             ELSE call[c]]

Lose ==
    /\ asked' = {} /\ wire' = <<>>
    /\ link' = "lost"
    /\ call' = RefusedCalls
    /\ closing' = (closing /\ \A c \in Calls : call[c].phase # "stopping")
    /\ missed' = missed \cup {m.take : m \in Range(wire)}
                        \cup IF asked # {} \/ obs' # obs THEN {Now} ELSE {}

\* The room keeps showing what it knew.
LinkLost ==
    /\ Break
    /\ Connected
    /\ UNCHANGED obs
    /\ Lose
    /\ UNCHANGED <<parts, status, session, recording, pending, sidecars>>

\* OBS dies: its recording ends with it, and nobody is told.
ObsDies ==
    /\ Break
    /\ obs' = "off"
    /\ Lose
    /\ UNCHANGED <<parts, status, session, recording, pending, sidecars>>

\* keepObsConnected insists until OBS is there, once: nothing starts it again when
\* the link is lost. What OBS is doing is read...
Connect ==
    /\ link = "down"
    /\ link' = "reading"
    /\ status' = (obs # "off")
    /\ UNCHANGED <<obsVars, breaks, missed, session, roomVars, call, sidecars>>

\* ... then whether it streams, and only then is it adopted.
ObsAnswersStatus ==
    /\ link = "reading" /\ StatusRead \notin Range(wire)
    /\ wire' = Append(wire, StatusRead)
    /\ UNCHANGED <<outputs, asked, linkVars, session, roomVars, call, sidecars>>
-----------------------------------------------------------------------------
(***************************************************************************)
(* The control room, and what it hears.                                    *)
(***************************************************************************)

\* The same file twice is one segment; before the take is open, the name is kept
\* for it.
NoteSegment(file) ==
    IF file = NoFile THEN UNCHANGED session
    ELSE IF open = 0 THEN announced' = file /\ UNCHANGED <<open, segments>>
    ELSE /\ segments' = [segments EXCEPT ![open] =
                            IF file \in Range(@) THEN @ ELSE Append(@, file)]
         /\ UNCHANGED <<open, announced>>

Ask(c, what) == asked' = asked \cup {[call |-> c, what |-> what]}

\* A phone only asks for what the room does not show already.
Gesture(c, on) ==
    /\ FreeHand
    /\ call[c] = Idle
    /\ \E from \in {"console", "phone"} : from = "phone" => recording # on

\* startRecording: the name of the file is dictated, which may fail...
StartRecording(c) ==
    /\ Gesture(c, TRUE)
    /\ open = 0
    /\ call' = [call EXCEPT ![c].phase = "naming"]
    /\ UNCHANGED <<obsVars, linkVars, session, roomVars, sidecars>>

AskStart_KeepsTheName(c) ==    \* mutant: a name from before the take is kept
    /\ call[c].phase = "naming" /\ Connected
    /\ Ask(c, "start") /\ call' = [call EXCEPT ![c].phase = "starting"]
    /\ UNCHANGED <<outputs, wire, linkVars, session, roomVars, sidecars>>

\* ... then OBS is asked to record.
AskStart(c) ==
    /\ call[c].phase = "naming"
    /\ announced' = NoFile
    /\ IF Connected
       THEN Ask(c, "start") /\ call' = [call EXCEPT ![c].phase = "starting"]
       ELSE call' = [call EXCEPT ![c] = Idle] /\ UNCHANGED asked
    /\ UNCHANGED <<outputs, wire, linkVars, open, segments, roomVars, sidecars>>

HearStart_FromScratch(c) ==    \* mutant: the name OBS gave before its answer is lost
    /\ call[c].phase = "starting"
    /\ call' = [call EXCEPT ![c] = Idle]
    /\ open' = IF Head(wire).ok THEN Head(wire).take ELSE open
    /\ announced' = NoFile
    /\ UNCHANGED <<segments, roomVars, sidecars>>

\* The take is that of the last who was told yes.
HearStart(c) ==
    LET m == Head(wire)
    IN  /\ call[c].phase = "starting"
        /\ call' = [call EXCEPT ![c] = Idle]
        /\ IF m.ok
           THEN /\ open' = m.take
                /\ segments' = [segments EXCEPT ![m.take] =
                                    IF announced = NoFile THEN <<>> ELSE <<announced>>]
                /\ announced' = NoFile
           ELSE UNCHANGED session
        /\ UNCHANGED <<roomVars, sidecars>>

\* stopRecording: the path is awaited from before the request.
StopRecording(c) ==
    /\ Gesture(c, FALSE)
    /\ open # 0
    /\ pending' = c
    /\ IF Connected
       THEN /\ Ask(c, "stop") /\ closing' = TRUE
            /\ call' = [call EXCEPT ![c] = [phase |-> "stopping", path |-> Awaited, take |-> 0]]
            /\ UNCHANGED missed
       ELSE /\ closing' = FALSE
            /\ call' = [call EXCEPT ![c].path = Awaited]
            /\ missed' = missed \cup {open}
            /\ UNCHANGED asked
    /\ UNCHANGED <<outputs, wire, link, status, breaks, session, recording, sidecars>>

HearStop(c) ==
    /\ call[c].phase = "stopping"
    /\ IF Head(wire).ok
       THEN call' = [call EXCEPT ![c].phase = "waiting"] /\ UNCHANGED closing
       ELSE /\ call' = [call EXCEPT ![c].phase = "idle",
                                   ![c].path = IF Armed(c) THEN @ ELSE NoFile]
            /\ closing' = FALSE
    /\ UNCHANGED <<session, recording, pending, sidecars>>

\* The call the path goes to may be gone.
Resolve(calls, c, path) ==
    [calls EXCEPT ![c].path = IF calls[c].phase = "idle" THEN NoFile ELSE path]

PathTimesOut_WhileConnected(c) ==    \* mutant: the wait ends with the socket's timers
    /\ Armed(c) /\ Connected
    /\ call' = Resolve(call, c, NoFile)
    /\ pending' = NoCall
    /\ UNCHANGED <<obsVars, linkVars, session, recording, closing, sidecars>>

\* awaitOutputPath gives up, and disarms whoever is waiting.
PathTimesOut(c) ==
    /\ Armed(c)
    /\ call' = Resolve(call, c, NoFile)
    /\ pending' = NoCall
    /\ UNCHANGED <<obsVars, linkVars, session, recording, closing, sidecars>>

CloseStopFromObs_Unguarded(file) ==    \* mutant: two closings at a time
    IF open = 0 THEN UNCHANGED <<call, closing>>
    ELSE /\ call' = [call EXCEPT ![ByObs] = [phase |-> "waiting", path |-> file, take |-> 0]]
         /\ closing' = TRUE

CloseStopFromObs_NotAsked(file) ==    \* mutant: a stop nobody asked for closes nothing
    UNCHANGED <<call, closing>>

\* Bound of the model: a closing that OBS brought is over before the next one.
CloseStopFromObs(file) ==
    IF open = 0 \/ closing THEN UNCHANGED <<call, closing>>
    ELSE /\ call[ByObs] = Idle
         /\ call' = [call EXCEPT ![ByObs] = [phase |-> "waiting", path |-> file, take |-> 0]]
         /\ closing' = TRUE

HearRecord_AnyChange ==    \* mutant: any change of the recording is taken for its end
    LET m == Head(wire)
    IN  /\ m.type = "record"
        /\ recording' = m.active
        /\ IF pending # NoCall
           THEN call' = Resolve(call, pending, m.file) /\ pending' = NoCall /\ UNCHANGED closing
           ELSE CloseStopFromObs(m.file) /\ UNCHANGED pending
        /\ UNCHANGED <<session, sidecars>>

\* The event of a stop goes to the call that waits for it, or closes the take.
HearRecord ==
    LET m == Head(wire)
    IN  /\ m.type = "record"
        /\ recording' = m.active
        /\ \/ /\ m.active
              /\ NoteSegment(m.file)
              /\ UNCHANGED <<pending, closing, call>>
           \/ /\ ~m.active /\ pending # NoCall
              /\ call' = Resolve(call, pending, m.file)
              /\ pending' = NoCall
              /\ UNCHANGED <<session, closing>>
           \/ /\ ~m.active /\ pending = NoCall
              /\ CloseStopFromObs(m.file)
              /\ UNCHANGED <<session, pending>>
        /\ UNCHANGED sidecars

HearFile ==
    /\ Head(wire).type = "file"
    /\ NoteSegment(Head(wire).file)
    /\ UNCHANGED <<roomVars, call, sidecars>>

\* connect ends, with what it read before.
Adopt ==
    /\ Head(wire).type = "status"
    /\ recording' = status
    /\ UNCHANGED <<session, pending, closing, call, sidecars>>

Hear ==
    /\ wire # <<>>
    /\ wire' = Tail(wire)
    /\ \/ \E c \in Calls :
             /\ Head(wire).type = "reply" /\ Head(wire).call = c
             /\ HearStart(c) \/ HearStop(c)
       \/ HearRecord
       \/ HearFile
       \/ Adopt
    /\ link' = IF Head(wire).type = "status" THEN "up" ELSE link
    /\ UNCHANGED <<outputs, asked, status, breaks, missed>>
-----------------------------------------------------------------------------
(***************************************************************************)
(* The closing.                                                            *)
(***************************************************************************)

\* The path is there: it ends the list of the take that is open now, if any.
TakePath(c) ==
    /\ call[c].phase = "waiting" /\ ~Armed(c)
    /\ IF open = 0
       THEN /\ call' = [call EXCEPT ![c] = Idle]    \* there is nothing to read
            /\ closing' = FALSE
            /\ UNCHANGED session
       ELSE /\ call' = [call EXCEPT ![c].phase = "locating", ![c].take = open]
            /\ NoteSegment(call[c].path)
            /\ UNCHANGED closing
    /\ UNCHANGED <<obsVars, linkVars, recording, pending, sidecars>>

FilesKnown_TheLast(take) ==    \* mutant: the file the stop named, and no other
    IF segments[take] = <<>> THEN {} ELSE {Last(segments[take])}

FilesKnown(take) == Range(segments[take])

\* The files that are found on the disk are named by a sidecar; without any, the
\* one that has the dictated name, the take's first; without it, there is none.
\* Then the session has no take. (No two takes are of one talk: they would share
\* that name.)
Close(c) ==
    LET take == call[c].take
        known == FilesKnown(take)
    IN  /\ call[c].phase = "locating"
        /\ \E found \in SUBSET known, byName, stored \in BOOLEAN :
             LET named == IF found # {} THEN found
                          ELSE IF byName THEN {File(take, 1)} ELSE {}
             IN  sidecars' = [sidecars EXCEPT ![take] =
                     IF named # {} /\ stored
                     THEN Append(@, [named |-> named, unfound |-> known \ found])
                     ELSE @]
        /\ open' = 0
        /\ closing' = FALSE
        /\ call' = [call EXCEPT ![c] = Idle]
        /\ UNCHANGED <<obsVars, linkVars, segments, announced, recording, pending>>
-----------------------------------------------------------------------------
\* A new session on a new link.
Afresh ==
    /\ Break
    /\ link' = "down" /\ asked' = {} /\ wire' = <<>>
    /\ open' = 0 /\ announced' = NoFile
    /\ missed' = missed \cup {Now, open}
    /\ UNCHANGED <<outputs, status, segments, sidecars>>

\* The machine restarts.
Restart ==
    /\ Afresh
    /\ recording' = FALSE /\ pending' = NoCall /\ closing' = FALSE
    /\ call' = [c \in Everyone |-> Idle]

\* The capture is connected again by hand, from the console. Bound of the model:
\* not while a call is out, which would end with the session it began with.
Reconnect ==
    /\ \A c \in Everyone : call[c].phase = "idle"
    /\ Afresh
    /\ UNCHANGED <<roomVars, call>>

\* The projection of a room with a single OBS is connected again by hand, and the
\* capture that lives in it follows, with its session.
Reattach ==
    /\ link = "lost"
    /\ link' = "down"
    /\ UNCHANGED <<obsVars, status, breaks, missed, session, roomVars, call, sidecars>>

Next ==
    \/ ObsStart \/ ObsStop \/ ObsStopped \/ ObsSplit \/ ObsAnswersStart \/ ObsAnswersStop
    \/ LinkLost \/ ObsDies \/ Connect \/ ObsAnswersStatus
    \/ Restart \/ Reconnect \/ Reattach
    \/ Hear
    \/ \E c \in Calls : StartRecording(c) \/ AskStart(c) \/ StopRecording(c)
    \/ \E c \in Everyone : PathTimesOut(c) \/ TakePath(c) \/ Close(c)

\* The timers of the room run, the socket delivers, and OBS answers.
Fairness ==
    /\ WF_vars(Connect) /\ WF_vars(ObsAnswersStatus)
    /\ WF_vars(Hear) /\ WF_vars(ObsAnswersStart) /\ WF_vars(ObsAnswersStop)
    /\ \A c \in Calls : WF_vars(AskStart(c))
    /\ \A c \in Everyone : WF_vars(PathTimesOut(c)) /\ WF_vars(TakePath(c)) /\ WF_vars(Close(c))

Spec == Init /\ [][Next]_vars /\ Fairness
-----------------------------------------------------------------------------
(***************************************************************************)
(* What is checked.                                                        *)
(***************************************************************************)

Phases == {"idle", "naming", "starting", "stopping", "waiting", "locating"}
Paths == Files \cup {NoFile, Awaited}

TypeOK ==
    /\ obs \in {"off", "on", "stopping"}
    /\ parts \in Seq(1..MaxParts) /\ Now <= MaxTakes
    /\ asked \subseteq [call : Calls, what : {"start", "stop"}]
    /\ link \in {"lost", "down", "reading", "up"}
    /\ ~Connected => wire = <<>> /\ asked = {}
    /\ open \in 0..MaxTakes
    /\ \A t \in Takes : Range(segments[t]) \subseteq Files
    /\ announced \in Files \cup {NoFile}
    /\ {status, recording, closing} \subseteq BOOLEAN
    /\ pending \in Calls \cup {NoCall}
    /\ call \in [Everyone -> [phase : Phases, path : Paths, take : 0..MaxTakes]]
    /\ breaks \in 0..MaxBreaks
    /\ missed \subseteq 0..MaxTakes

\* Nothing is on its way or being done.
Quiet ==
    /\ link = "up" /\ wire = <<>> /\ asked = {}
    /\ \A c \in Everyone : call[c].phase = "idle"

\* The take that is open is the one OBS records: a take that was stopped, from
\* wherever and however long OBS took to name its file, is closed, and one that
\* was opened, whose files the session has, is not closed under a recording that
\* goes on. The control room can act on nothing
\* else: an open take refuses the next start, and a closed one the stop.
OpenTakeIsRecorded ==
    Quiet =>
        /\ open # 0 /\ open \notin missed => obs # "off" /\ open = Now
        /\ obs = "on" /\ Now \notin missed /\ segments[Now] # <<>> => open = Now

\* The session knows every file of its take, in order: the first, which OBS names
\* once, before or after it answers, and those it went on in.
EveryFileIsKnown ==
    Quiet /\ open # 0 /\ open \notin missed => segments[open] = FilesOf(open)

\* What a sidecar names was recorded for its take: not the files of a recording
\* launched in OBS before it, nor of the take that follows.
NoForeignFile ==
    \A t \in Takes \ missed :
        \A i \in DOMAIN sidecars[t] : \A f \in sidecars[t][i].named : f.take = t

\* A take is closed with every file OBS made of it: a sidecar leaves out none but
\* those that were looked for on the disk and not found.
NoFileForgotten ==
    \A t \in Takes \ missed :
        \A i \in DOMAIN sidecars[t] :
            Range(FilesOf(t)) \subseteq sidecars[t][i].named \cup sidecars[t][i].unfound

\* A take keeps its files, all of them and no other's, whatever order OBS names
\* them in (onOutputs, sidecar).
TakesKeepTheirFiles == EveryFileIsKnown /\ NoForeignFile /\ NoFileForgotten

\* A take has one sidecar, though two paths lead to it: the stop that is asked
\* for, which may have stopped waiting, and the one that OBS reports.
OneSidecarPerTake == \A t \in Takes : Len(sidecars[t]) <= 1

\* The control room gets an answer, OBS there or not.
CallsReturn == \A c \in Everyone : call[c] # Idle ~> call[c] = Idle
=============================================================================
