----------------------------- MODULE SceneSwitch -----------------------------
(***************************************************************************)
(* The scene on air: ObsController's switches and its watchdog (obs.ts),   *)
(* and the OBS they talk to.                                               *)
(*                                                                         *)
(* OBS loses count of a scene's sources when it is switched back to that   *)
(* scene while it is still leaving it: the scene is on air and frozen. The *)
(* controller waits for a transition to end before it switches again, on   *)
(* the word of OBS's events, and looks every five seconds for a scene that *)
(* froze all the same, to select it again. Hands switch scenes in OBS too. *)
(***************************************************************************)
EXTENDS Naturals, Sequences, SequencesExt

CONSTANTS
    Scenes,
    NoScene,
    Overtaking,   \* a scene may be switched while the watchdog acts on another
    MaxSwitches,  \* bound of the model: switches asked of the room
    MaxHands,     \* bound of the model: switches made in OBS
    MaxFaults     \* bound of the model: refusals, lost events, broken links

ASSUME NoSceneAssumption == NoScene \notin Scenes
ASSUME FlagAssumption == Overtaking \in BOOLEAN
ASSUME BoundsAssumption == {MaxSwitches, MaxHands, MaxFaults} \subseteq Nat

VARIABLES
    program,     \* OBS's program scene
    fade,        \* OBS's transition, [from, to, ours], NoFade without one
    frozen,      \* scenes OBS counts as inactive though they may be on air
    asked,       \* requests on their way to OBS
    wire,        \* replies and events on their way to the room, in OBS's order
    link,        \* "down", "reading" (the inventory is being read) or "up"
    read,        \* the program scene of the inventory
    switching,   \* the switches, one after the other: [scene, by]
    sent,        \* the first of them is with OBS
    transition,  \* a transition runs, as far as the room knows
    current,     \* state.currentSceneName
    watch,       \* the watchdog, [phase, scene]
    unrepairable,
    wanted,      \* history: the scene someone asked for last, NoScene if OBS refused
                 \* or the room gave up hearing that it is on air
    mark,        \* history: what became of the room's own mark of its last switch:
                 \* "kept"; "lost", an end heard before OBS answered took it away; or
                 \* "blind", another switch went out since
    switches, hands, faults

obsVars == <<program, fade, frozen>>
wires == <<asked, wire>>
linkVars == <<link, read>>
roomVars == <<switching, sent, transition, current, watch, unrepairable, mark>>
counts == <<switches, hands, faults>>
vars == <<obsVars, wires, linkVars, roomVars, counts, wanted>>
-----------------------------------------------------------------------------
NoFade == [from |-> NoScene, to |-> NoScene, ours |-> FALSE]
Asleep == [phase |-> "asleep", scene |-> NoScene]
OnAir == IF fade = NoFade THEN {program} ELSE {fade.from, fade.to}

Started == [type |-> "started"]
Ended == [type |-> "ended"]
Changed(s) == [type |-> "changed", scene |-> s]
Answer(ok) == [type |-> "answer", ok |-> ok]
Sources(inactive) == [type |-> "sources", inactive |-> inactive]
Inventory == [type |-> "inventory"]

Connected == link # "down"
Say(messages) == wire' = IF Connected THEN wire \o messages ELSE wire
Fault == faults < MaxFaults /\ faults' = faults + 1

\* The watchdog has looked twice and is about to act.
Acting == watch.phase = "second"

Init ==
    /\ program \in Scenes
    /\ fade = NoFade /\ frozen = {}
    /\ asked = <<>> /\ wire = <<>>
    /\ link = "up" /\ read = NoScene
    /\ switching = <<>> /\ sent = FALSE /\ transition = FALSE
    /\ current = program /\ watch = Asleep /\ unrepairable = NoScene
    /\ wanted = program
    /\ switches = 0 /\ hands = 0 /\ faults = 0
    /\ mark = "kept"
-----------------------------------------------------------------------------
(***************************************************************************)
(* OBS.                                                                    *)
(***************************************************************************)

\* A transition to a scene, from the one OBS was leaving if it was leaving one.
Leave(scene, ours) ==
    LET from == IF fade = NoFade THEN program ELSE fade.from
    IN  /\ fade' = [from |-> from, to |-> scene, ours |-> ours]
        /\ \/ fade # NoFade /\ frozen' = frozen \cup (IF scene = from THEN {scene} ELSE {})
           \/ fade = NoFade /\ scene = program /\ frozen' = frozen \ {scene}
           \/ fade = NoFade /\ UNCHANGED frozen    \* not every scene is repaired by it
        /\ UNCHANGED program

\* A cut is over when it is announced.
Cut(scene) ==
    /\ fade = NoFade
    /\ program' = scene
    /\ UNCHANGED <<fade, frozen>>

ObsSwitches ==
    /\ asked # <<>> /\ Head(asked).type = "switch"
    /\ asked' = Tail(asked)
    /\ LET scene == Head(asked).scene
       IN  \/ /\ Leave(scene, TRUE)
              /\ Say(<<Started, Answer(TRUE)>>) \/ Say(<<Answer(TRUE), Started>>)
              /\ UNCHANGED <<faults, wanted>>
           \/ /\ Cut(scene)
              /\ Say(<<Changed(scene), Answer(TRUE)>>) \/ Say(<<Answer(TRUE), Changed(scene)>>)
              /\ UNCHANGED <<faults, wanted>>
           \/ /\ Fault
              /\ Say(<<Answer(FALSE)>>)
              /\ wanted' = NoScene
              /\ UNCHANGED obsVars
    /\ UNCHANGED <<linkVars, roomVars, switches, hands>>

\* A transition ends, and says so twice; or the two events are lost.
ObsEnds ==
    /\ fade # NoFade
    /\ program' = fade.to /\ fade' = NoFade
    /\ \/ Say(<<Changed(fade.to), Ended>>) /\ UNCHANGED faults
       \/ Say(<<Ended, Changed(fade.to)>>) /\ UNCHANGED faults
       \/ Fault /\ UNCHANGED wire
    /\ UNCHANGED <<frozen, asked, linkVars, roomVars, switches, hands, wanted>>

\* A source is active while its scene is on air, unless OBS lost count.
ObsLooks ==
    /\ asked # <<>> /\ Head(asked).type = "look"
    /\ asked' = Tail(asked)
    /\ Say(<<Sources(Head(asked).scene \in frozen \/ Head(asked).scene \notin OnAir)>>)
    /\ UNCHANGED <<obsVars, linkVars, roomVars, counts, wanted>>

\* A click in OBS, or on a Stream Deck. Bound of the model: not while the room has
\* asked for a scene, of two asked for at once none is the last.
HandSwitches(scene) ==
    /\ switching = <<>>
    /\ Overtaking \/ (link # "reading" /\ ~Acting)
    /\ hands < MaxHands /\ hands' = hands + 1
    /\ wanted' = scene
    /\ \/ Leave(scene, FALSE) /\ Say(<<Started>>)
       \/ Cut(scene) /\ Say(<<Changed(scene)>>)
    /\ UNCHANGED <<asked, linkVars, roomVars, switches, faults>>
-----------------------------------------------------------------------------
(***************************************************************************)
(* The switches.                                                           *)
(***************************************************************************)

Proceed_OnItsStart(q, isSent, running, requests, m) ==    \* mutant: ours once OBS says so
    /\ switching' = q
    /\ LET goes == q # <<>> /\ ~isSent /\ ~running
       IN  /\ sent' = (isSent \/ goes)
           /\ transition' = running
           /\ asked' = IF goes THEN Append(requests, [type |-> "switch", scene |-> Head(q).scene])
                       ELSE requests
           /\ mark' = m

\* The first of the switches q goes out unless a transition runs: the rest of
\* switchTo, that follows whatever released it. Ours from the request on.
Proceed(q, isSent, running, requests, m) ==
    /\ switching' = q
    /\ LET goes == q # <<>> /\ ~isSent /\ ~running
       IN  /\ sent' = (isSent \/ goes)
           /\ transition' = (running \/ goes)
           /\ asked' = IF goes THEN Append(requests, [type |-> "switch", scene |-> Head(q).scene])
                       ELSE requests
           /\ mark' = IF goes /\ m # "kept" THEN "blind" ELSE m

\* setRole. Bound of the model: not before OBS's scenes are known.
SetRole(scene) ==
    /\ link = "up" /\ (Overtaking \/ ~Acting)
    /\ switches < MaxSwitches /\ switches' = switches + 1
    /\ wanted' = scene
    /\ Proceed(Append(switching, [scene |-> scene, by |-> "control"]), sent, transition, asked, mark)
    /\ UNCHANGED <<obsVars, wire, linkVars, current, watch, unrepairable, hands, faults>>

Wake(phase) == watch' = [watch EXCEPT !.phase = phase]

\* The watchdog that waits for a transition rests when it is over.
TransitionEnded ==
    /\ Proceed(switching, sent, FALSE, asked, IF sent THEN "lost" ELSE "kept")
    /\ IF watch.phase = "settling" THEN Wake("resting") ELSE UNCHANGED watch

HearStarted ==
    /\ Head(wire).type = "started"
    /\ transition' = TRUE
    /\ mark' = IF mark = "lost" THEN "kept" ELSE mark
    /\ UNCHANGED <<asked, linkVars, switching, sent, current, watch, unrepairable>>

HearEnded ==
    /\ Head(wire).type = "ended"
    /\ TransitionEnded
    /\ UNCHANGED <<linkVars, current, unrepairable>>

HearChanged ==
    /\ Head(wire).type = "changed"
    /\ TransitionEnded
    /\ current' = Head(wire).scene
    /\ UNCHANGED <<linkVars, unrepairable>>

HearAnswer_StillWatching ==    \* mutant: no finally, a watch that fails is the last
    LET running == transition /\ Head(wire).ok
    IN  /\ Head(wire).type = "answer"
        /\ Proceed(Tail(switching), FALSE, running, asked, mark)
        /\ IF Head(switching).by = "control" \/ ~Head(wire).ok THEN UNCHANGED watch
           ELSE Wake(IF running THEN "settling" ELSE "resting")
        /\ UNCHANGED <<linkVars, current, unrepairable>>

\* A switch is over when OBS answers; one it refuses begins no transition.
HearAnswer ==
    LET running == transition /\ Head(wire).ok
    IN  /\ Head(wire).type = "answer"
        /\ Proceed(Tail(switching), FALSE, running, asked, mark)
        /\ IF Head(switching).by = "control" THEN UNCHANGED watch
           ELSE IF ~Head(wire).ok THEN watch' = Asleep
           ELSE Wake(IF running THEN "settling" ELSE "resting")
        /\ UNCHANGED <<linkVars, current, unrepairable>>

GiveUp_Watching ==    \* mutant: only the watchdog's wait has an end
    /\ transition /\ watch.phase = "settling"
    /\ fade = NoFade /\ wire = <<>> /\ asked = <<>>
    /\ TransitionEnded
    /\ wanted' = IF switching = <<>> /\ current # program THEN NoScene ELSE wanted
    /\ UNCHANGED <<obsVars, wire, linkVars, current, unrepairable, counts>>

\* transitionSettled waits five seconds at most; nothing OBS does lasts that
\* long, so its events were lost. A watchdog that stops waiting like this, and does
\* not know of the scene on air, may put another in its place.
GiveUp ==
    /\ transition
    /\ (switching # <<>> /\ ~sent) \/ watch.phase = "settling"
    /\ fade = NoFade /\ wire = <<>> /\ asked = <<>>
    /\ TransitionEnded
    /\ wanted' = IF switching = <<>> /\ current # program THEN NoScene ELSE wanted
    /\ UNCHANGED <<obsVars, wire, linkVars, current, unrepairable, counts>>
-----------------------------------------------------------------------------
(***************************************************************************)
(* The watchdog.                                                           *)
(***************************************************************************)

Look(scene) == asked' = Append(asked, [type |-> "look", scene |-> scene])

WatchTick ==
    /\ link = "up" /\ watch.phase = "asleep"
    /\ current # NoScene /\ ~transition
    /\ unrepairable' = IF unrepairable = current THEN current ELSE NoScene
    /\ unrepairable # current
    /\ watch' = [phase |-> "first", scene |-> current]
    /\ Look(current)
    /\ UNCHANGED <<obsVars, wire, linkVars, switching, sent, transition, mark, current,
                   counts, wanted>>

Confirm_Blindly ==    \* mutant: the scene is not looked at again
    /\ watch.phase = "confirming" /\ wire \o asked = <<>>
    /\ Wake("second") /\ Look(watch.scene)
    /\ UNCHANGED <<obsVars, wire, linkVars, switching, sent, transition, mark, current,
                   unrepairable, counts, wanted>>

\* A second later, what was said before is heard: a source may have been caught in the middle of a switch.
Confirm ==
    /\ watch.phase = "confirming" /\ wire \o asked = <<>>
    /\ IF transition \/ current # watch.scene
       THEN watch' = Asleep /\ UNCHANGED asked
       ELSE Wake("second") /\ Look(watch.scene)
    /\ UNCHANGED <<obsVars, wire, linkVars, switching, sent, transition, mark, current,
                   unrepairable, counts, wanted>>

\* A second after its switch is over: was it of use?
Rest ==
    /\ watch.phase = "resting"
    /\ IF current # watch.scene
       THEN watch' = Asleep /\ UNCHANGED asked
       ELSE Wake("third") /\ Look(watch.scene)
    /\ UNCHANGED <<obsVars, wire, linkVars, switching, sent, transition, mark, current,
                   unrepairable, counts, wanted>>

HearSources ==
    LET inactive == Head(wire).inactive
    IN  /\ Head(wire).type = "sources"
        /\ \/ /\ ~inactive
              /\ watch' = Asleep
              /\ UNCHANGED <<asked, switching, sent, transition, mark, unrepairable>>
           \/ /\ inactive /\ watch.phase = "first"
              /\ Wake("confirming")
              /\ UNCHANGED <<asked, switching, sent, transition, mark, unrepairable>>
           \/ /\ inactive /\ watch.phase = "second"
              /\ Wake("switching")
              /\ Proceed(Append(switching, [scene |-> watch.scene, by |-> "watchdog"]),
                         sent, transition, asked, mark)
              /\ UNCHANGED unrepairable
           \/ /\ inactive /\ watch.phase = "third"
              /\ watch' = Asleep
              /\ unrepairable' = watch.scene
              /\ UNCHANGED <<asked, switching, sent, transition, mark>>
        /\ UNCHANGED <<linkVars, current>>
-----------------------------------------------------------------------------
(***************************************************************************)
(* The link.                                                               *)
(***************************************************************************)

\* Every request is refused, the ones that waited too.
Lose ==
    /\ asked' = <<>> /\ wire' = <<>>
    /\ switching' = <<>> /\ sent' = FALSE /\ transition' = FALSE /\ mark' = "kept"
    /\ current' = NoScene
    /\ watch' = CASE watch.phase = "settling" -> [watch EXCEPT !.phase = "resting"]
                  [] watch.phase \in {"confirming", "resting"} -> watch
                  [] OTHER -> Asleep
    /\ link' = "down" /\ read' = NoScene
    /\ wanted' = IF switching = <<>> THEN wanted ELSE NoScene

LinkLost ==
    /\ Fault
    /\ Connected
    /\ Lose
    /\ UNCHANGED <<obsVars, unrepairable, switches, hands>>

\* The projection is connected again by hand, with a controller of its own: what
\* is on air is read... No transition lasts as long as that takes.
Reconnect ==
    /\ link = "down" /\ fade = NoFade
    /\ link' = "reading" /\ read' = program
    /\ watch' = Asleep /\ unrepairable' = NoScene
    /\ UNCHANGED <<obsVars, wires, switching, sent, transition, mark, current, counts, wanted>>

\* ... then the recording and the stream, and only then is it adopted.
ObsAnswersStatus ==
    /\ link = "reading" /\ Inventory \notin Range(wire)
    /\ wire' = Append(wire, Inventory)
    /\ UNCHANGED <<obsVars, asked, linkVars, roomVars, counts, wanted>>

Adopt ==
    /\ Head(wire).type = "inventory"
    /\ link' = "up"
    /\ current' = read /\ read' = NoScene
    /\ UNCHANGED <<asked, switching, sent, transition, mark, watch, unrepairable>>

Hear ==
    /\ wire # <<>>
    /\ wire' = Tail(wire)
    /\ HearStarted \/ HearEnded \/ HearChanged \/ HearAnswer \/ HearSources \/ Adopt
    /\ UNCHANGED <<obsVars, counts, wanted>>

Next ==
    \/ ObsSwitches \/ ObsEnds \/ ObsLooks
    \/ Hear \/ GiveUp
    \/ WatchTick \/ Confirm \/ Rest
    \/ LinkLost \/ Reconnect \/ ObsAnswersStatus
    \/ \E s \in Scenes : HandSwitches(s) \/ SetRole(s)

\* OBS answers and ends what it began, the socket delivers and the timers run.
Fairness ==
    /\ WF_vars(ObsSwitches) /\ WF_vars(ObsEnds) /\ WF_vars(ObsLooks)
    /\ WF_vars(Hear) /\ WF_vars(GiveUp) /\ WF_vars(ObsAnswersStatus)
    /\ WF_vars(WatchTick) /\ WF_vars(Confirm) /\ WF_vars(Rest)

Spec == Init /\ [][Next]_vars /\ Fairness
-----------------------------------------------------------------------------
(***************************************************************************)
(* What is checked.                                                        *)
(***************************************************************************)

WatchPhases == {"asleep", "first", "confirming", "second", "switching", "settling",
                "resting", "third"}

TypeOK ==
    /\ program \in Scenes
    /\ fade \in [from : Scenes, to : Scenes, ours : BOOLEAN] \cup {NoFade}
    /\ frozen \subseteq Scenes
    /\ asked \in Seq([type : {"switch", "look"}, scene : Scenes])
    /\ link \in {"down", "reading", "up"} /\ read \in Scenes \cup {NoScene}
    /\ switching \in Seq([scene : Scenes, by : {"control", "watchdog"}])
    /\ {sent, transition} \subseteq BOOLEAN /\ mark \in {"kept", "lost", "blind"}
    /\ sent => switching # <<>>
    /\ {current, unrepairable, wanted} \subseteq Scenes \cup {NoScene}
    /\ watch \in [phase : WatchPhases, scene : Scenes \cup {NoScene}]
    /\ switches \in 0..MaxSwitches /\ hands \in 0..MaxHands /\ faults \in 0..MaxFaults

Quiet ==
    /\ link = "up" /\ asked = <<>> /\ wire = <<>>
    /\ switching = <<>> /\ fade = NoFade

\* switchTo: "never while a transition is still running".  While OBS makes a
\* transition the room began, no other switch of the room is on its way to it,
\* whether OBS announces the transition before or after it answers.  One case is
\* left out, and is the code's: a transition ends on two events, each of which ends
\* whatever the room holds for running.  The first lets the next switch go, and the
\* second takes that one's mark away; if OBS answers it before it announces it, the
\* room believes that nothing runs, and what it sends next is sent blindly (and so
\* is the one after, if OBS refuses it: a refusal ends what the room holds too).
NeverHurried ==
    fade.ours /\ (\E i \in DOMAIN asked : asked[i].type = "switch") => mark = "blind"

\* However many switches wait for one another, and whatever the watchdog does
\* about the scene on air, the scene that stays is the last one asked for.
LastAskedStays == Quiet /\ wanted # NoScene => program = wanted

\* OBS ended a transition and the room never heard of it.
Deaf == transition /\ fade = NoFade /\ wire = <<>> /\ asked = <<>>

\* A frozen scene does not stay on air: the watchdog brings it back, or tries
\* once and says that it could not. It is blind for as long as the room waits for
\* a transition OBS lost the end of, and for a scene the room does not know of.
FrozenIsRepaired ==
    link = "up" /\ current = program /\ program \in frozen
        ~> \/ program \notin frozen \/ unrepairable = program
           \/ link # "up" \/ current # program \/ Deaf

\* A switch that waits does not wait for ever, whatever OBS lost.
SwitchesReturn == switching # <<>> ~> switching = <<>>
=============================================================================
