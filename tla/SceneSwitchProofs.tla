-------------------------- MODULE SceneSwitchProofs --------------------------
(***************************************************************************)
(* Theorems about SceneSwitch, for any scenes and bounds.                  *)
(***************************************************************************)
EXTENDS SceneSwitch, SequenceTheorems, TLAPS

-----------------------------------------------------------------------------
(***************************************************************************)
(* Requests and their answers.  The room asks one switch at a time, and    *)
(* the watchdog one look: what answers is on the wire once.                *)
(***************************************************************************)

Message == {Started, Ended, Inventory}
               \cup {Changed(s) : s \in Scenes}
               \cup {Answer(ok) : ok \in BOOLEAN} \cup {Sources(off) : off \in BOOLEAN}
Request == [type : {"switch", "look"}, scene : Scenes]

\* Of a kind k, a sequence has nothing, or one at most.
Nowhere(s, k) == \A i \in 1..Len(s) : s[i].type # k
Once(s, k) == \A i, j \in 1..Len(s) : s[i].type = k /\ s[j].type = k => i = j

\* A request of kind k and its answer, of kind a: neither is out, or one of them is.
Neither(asks, says, k, a) == Nowhere(asks, k) /\ Nowhere(says, a)
OneOut(asks, says, k, a) ==
    /\ Once(asks, k) /\ Once(says, a)
    /\ Nowhere(asks, k) \/ Nowhere(says, a)

LEMMA Fewer ==
    ASSUME NEW S, NEW s \in Seq(S), s # <<>>, NEW k
    PROVE  /\ Nowhere(s, k) => Nowhere(Tail(s), k)
           /\ Once(s, k) => Once(Tail(s), k)
           /\ Once(s, k) /\ Head(s).type = k => Nowhere(Tail(s), k)
<1>1. /\ Len(s) \in Nat /\ Len(Tail(s)) = Len(s) - 1 /\ Len(s) >= 1
      /\ \A i \in 1..Len(Tail(s)) : Tail(s)[i] = s[i + 1]
  BY HeadTailProperties, LenProperties, EmptySeq
<1>2. Head(s) = s[1]
  BY <1>1
<1>3. \A i \in 1..Len(Tail(s)) : i + 1 \in 1..Len(s) /\ i + 1 # 1
  BY <1>1
<1>4. Nowhere(s, k) => Nowhere(Tail(s), k)
  BY <1>1, <1>3 DEF Nowhere
<1>5. Once(s, k) => Once(Tail(s), k)
  <2> SUFFICES ASSUME Once(s, k), NEW i \in 1..Len(Tail(s)), NEW j \in 1..Len(Tail(s)),
                      Tail(s)[i].type = k, Tail(s)[j].type = k
               PROVE  i = j
    BY DEF Once
  <2>1. i + 1 = j + 1
    BY <1>1, <1>3 DEF Once
  <2> QED BY <2>1
<1>6. Once(s, k) /\ Head(s).type = k => Nowhere(Tail(s), k)
  BY <1>1, <1>2, <1>3 DEF Once, Nowhere
<1> QED BY <1>4, <1>5, <1>6

LEMMA OneMore ==
    ASSUME NEW S, NEW s \in Seq(S), NEW e \in S, NEW k
    PROVE  /\ Nowhere(s, k) /\ e.type # k => Nowhere(Append(s, e), k)
           /\ Once(s, k) /\ e.type # k => Once(Append(s, e), k)
           /\ Nowhere(s, k) => Once(Append(s, e), k)
<1>1. /\ Len(s) \in Nat /\ Len(Append(s, e)) = Len(s) + 1
      /\ \A i \in 1..Len(s) : Append(s, e)[i] = s[i]
      /\ Append(s, e)[Len(s) + 1] = e
  BY AppendProperties, LenProperties
<1>2. \A i \in 1..Len(Append(s, e)) : i \in 1..Len(s) \/ i = Len(s) + 1
  BY <1>1
<1>3. Nowhere(s, k) /\ e.type # k => Nowhere(Append(s, e), k)
  BY <1>1, <1>2 DEF Nowhere
<1>4. Once(s, k) /\ e.type # k => Once(Append(s, e), k)
  BY <1>1, <1>2 DEF Once
<1>5. Nowhere(s, k) => Once(Append(s, e), k)
  BY <1>1, <1>2 DEF Once, Nowhere
<1> QED BY <1>3, <1>4, <1>5

\* The request is made, when nothing is out.
LEMMA Asked ==
    ASSUME NEW asks \in Seq(Request), NEW says \in Seq(Message), NEW r \in Request, NEW k, NEW a
    PROVE  /\ Neither(asks, says, k, a) => OneOut(Append(asks, r), says, k, a)
           /\ r.type # k /\ Neither(asks, says, k, a) => Neither(Append(asks, r), says, k, a)
           /\ r.type # k /\ OneOut(asks, says, k, a) => OneOut(Append(asks, r), says, k, a)
<1>1. Nowhere(says, a) => Once(says, a)
  BY DEF Nowhere, Once
<1> QED BY <1>1, OneMore DEF Neither, OneOut

\* It is taken by OBS.
LEMMA Served ==
    ASSUME NEW asks \in Seq(Request), NEW says \in Seq(Message), asks # <<>>, NEW k, NEW a
    PROVE  /\ Neither(asks, says, k, a) => Neither(Tail(asks), says, k, a)
           /\ OneOut(asks, says, k, a) => OneOut(Tail(asks), says, k, a)
           /\ OneOut(asks, says, k, a) /\ Head(asks).type = k => Neither(Tail(asks), says, k, a)
<1>1. OneOut(asks, says, k, a) /\ Head(asks).type = k => Nowhere(says, a)
  <2>1. 1 \in 1..Len(asks) /\ Head(asks) = asks[1]
    BY LenProperties, EmptySeq
  <2> QED BY <2>1 DEF OneOut, Nowhere
<1> QED BY <1>1, Fewer DEF Neither, OneOut

\* OBS says something, the answer perhaps.
LEMMA Said ==
    ASSUME NEW asks \in Seq(Request), NEW says \in Seq(Message), NEW m \in Message, NEW k, NEW a
    PROVE  /\ Neither(asks, says, k, a) => OneOut(asks, Append(says, m), k, a)
           /\ m.type # a /\ Neither(asks, says, k, a) => Neither(asks, Append(says, m), k, a)
           /\ m.type # a /\ OneOut(asks, says, k, a) => OneOut(asks, Append(says, m), k, a)
<1>1. Nowhere(asks, k) => Once(asks, k)
  BY DEF Nowhere, Once
<1> QED BY <1>1, OneMore DEF Neither, OneOut

\* It is heard.
LEMMA Heard ==
    ASSUME NEW asks \in Seq(Request), NEW says \in Seq(Message), says # <<>>, NEW k, NEW a
    PROVE  /\ Neither(asks, says, k, a) => Neither(asks, Tail(says), k, a)
           /\ OneOut(asks, says, k, a) => OneOut(asks, Tail(says), k, a)
           /\ OneOut(asks, says, k, a) /\ Head(says).type = a => Neither(asks, Tail(says), k, a)
<1>1. OneOut(asks, says, k, a) /\ Head(says).type = a => Nowhere(asks, k)
  <2>1. 1 \in 1..Len(says) /\ Head(says) = says[1]
    BY LenProperties, EmptySeq
  <2> QED BY <2>1 DEF OneOut, Nowhere
<1> QED BY <1>1, Fewer DEF Neither, OneOut
-----------------------------------------------------------------------------
(***************************************************************************)
(* What is known in every state.                                           *)
(***************************************************************************)

Switch == [scene : Scenes, by : {"control", "watchdog"}]
SomeScene == Scenes \cup {NoScene}
Looking == {"first", "second", "third"}

Types ==
    /\ program \in Scenes /\ fade \in [from : Scenes, to : Scenes, ours : BOOLEAN] \cup {NoFade}
    /\ frozen \subseteq Scenes
    /\ asked \in Seq(Request) /\ wire \in Seq(Message)
    /\ link \in {"down", "reading", "up"} /\ read \in SomeScene
    /\ switching \in Seq(Switch)
    /\ sent \in BOOLEAN /\ transition \in BOOLEAN
    /\ current \in SomeScene /\ unrepairable \in SomeScene /\ wanted \in SomeScene
    /\ watch \in [phase : WatchPhases, scene : SomeScene]
    /\ switches \in 0..MaxSwitches /\ hands \in 0..MaxHands /\ faults \in 0..MaxFaults

\* Nothing waits without a link; a switch is with OBS, or its answer on its way,
\* only while the room says so, and it is the first of those that wait.
Waiting ==
    /\ ~Connected => /\ asked = <<>> /\ wire = <<>> /\ switching = <<>> /\ ~transition
                      /\ current = NoScene
    /\ sent => switching # <<>>
    /\ OneOut(asked, wire, "switch", "answer")
    /\ sent \/ Neither(asked, wire, "switch", "answer")

OneByWatchdog(q, phase) ==
    /\ \A i, j \in 1..Len(q) : q[i].by = "watchdog" /\ q[j].by = "watchdog" => i = j
    /\ \A i \in 1..Len(q) : q[i].by = "watchdog" => phase = "switching"

\* A look is out only in a phase that waits for it; the watchdog has a scene while
\* it is awake, and one switch at most, in the phase of that name.
Watching ==
    /\ OneOut(asked, wire, "look", "sources")
    /\ watch.phase \in Looking \/ Neither(asked, wire, "look", "sources")
    /\ watch.phase = "asleep" \/ watch.scene \in Scenes
    /\ OneByWatchdog(switching, watch.phase)

Shape == Types /\ Waiting /\ Watching

LEMMA Messages ==
    /\ Started \in Message /\ Ended \in Message /\ Inventory \in Message
    /\ \A s \in Scenes : Changed(s) \in Message
    /\ \A ok \in BOOLEAN : Answer(ok) \in Message /\ Sources(ok) \in Message
    /\ Started.type = "started" /\ Ended.type = "ended" /\ Inventory.type = "inventory"
    /\ \A s : Changed(s).type = "changed" /\ Changed(s).scene = s
    /\ \A ok : Answer(ok).type = "answer" /\ Answer(ok).ok = ok
    /\ \A off : Sources(off).type = "sources" /\ Sources(off).inactive = off
BY DEF Message, Started, Ended, Inventory, Changed, Answer, Sources

\* What is heard, by its type.
LEMMA MessageIs ==
    ASSUME NEW m \in Message
    PROVE  /\ m.type = "changed" => m.scene \in Scenes
           /\ m.type = "answer" => m.ok \in BOOLEAN /\ m = Answer(m.ok)
           /\ m.type = "sources" => m.inactive \in BOOLEAN
           /\ m.type = "started" => m = Started
BY DEF Message, Started, Ended, Inventory, Changed, Answer, Sources

LEMMA SayOne ==
    ASSUME Types, NEW m \in Message, Say(<<m>>)
    PROVE  /\ wire' \in Seq(Message)
           /\ wire' = IF Connected THEN Append(wire, m) ELSE wire
<1>1. wire \in Seq(Message)
  BY DEF Types
<1>2. wire \o <<m>> = Append(wire, m) /\ Append(wire, m) \in Seq(Message)
  BY <1>1, AppendIsConcat, AppendProperties
<1> QED BY <1>1, <1>2 DEF Say

LEMMA Pairs ==
    ASSUME NEW s \in Seq(Message), NEW m \in Message, NEW n \in Message
    PROVE  /\ Append(s, m) \in Seq(Message) /\ Append(Append(s, m), n) \in Seq(Message)
           /\ s \o <<m, n>> = Append(Append(s, m), n)
<1> DEFINE t == Append(s, m)
           u == Append(t, n)
           p == <<m, n>>
<1>1. /\ t \in Seq(Message) /\ Len(s) \in Nat /\ Len(t) = Len(s) + 1
      /\ \A i \in 1..Len(s) : t[i] = s[i]
      /\ t[Len(s) + 1] = m
  BY AppendProperties, LenProperties
<1>2. /\ u \in Seq(Message) /\ Len(u) = Len(t) + 1
      /\ \A i \in 1..Len(t) : u[i] = t[i]
      /\ u[Len(t) + 1] = n
  <2> HIDE DEF t
  <2> QED BY <1>1, AppendProperties
<1>3. p \in Seq(Message) /\ Len(p) = 2 /\ p[1] = m /\ p[2] = n
  OBVIOUS
<1> HIDE DEF t, u, p
<1>4. /\ s \o p \in Seq(Message) /\ Len(s \o p) = Len(s) + 2
      /\ \A i \in 1..Len(s) + 2 : (s \o p)[i] = IF i <= Len(s) THEN s[i] ELSE p[i - Len(s)]
  <2>1. p \in Seq(Message)
    BY <1>3
  <2>2. /\ s \o p \in Seq(Message) /\ Len(s \o p) = Len(s) + Len(p)
        /\ \A i \in 1..Len(s) + Len(p) : (s \o p)[i] = IF i <= Len(s) THEN s[i] ELSE p[i - Len(s)]
    BY ONLY <2>1, s \in Seq(Message), ConcatProperties
  <2> QED BY <1>3, <2>2
<1>5. Len(u) = Len(s \o p)
  BY <1>1, <1>2, <1>4
<1>6. ASSUME NEW i \in 1..Len(u) PROVE u[i] = (s \o p)[i]
  <2>1. i \in 1..Len(s) \/ i = Len(s) + 1 \/ i = Len(s) + 2
    BY <1>1, <1>2
  <2>2. CASE i \in 1..Len(s)
    BY <1>1, <1>2, <1>4, <2>2
  <2>3. CASE i = Len(s) + 1
    BY <1>1, <1>2, <1>3, <1>4, <2>3
  <2>4. CASE i = Len(s) + 2
    BY <1>1, <1>2, <1>3, <1>4, <2>4
  <2> QED BY <2>1, <2>2, <2>3, <2>4
<1>7. u = s \o p
  BY <1>2, <1>4, <1>5, <1>6, SeqEqual
<1> QED BY <1>1, <1>2, <1>7 DEF t, u, p

LEMMA SayTwo ==
    ASSUME Types, NEW m \in Message, NEW n \in Message, Say(<<m, n>>)
    PROVE  /\ wire' \in Seq(Message) /\ Append(wire, m) \in Seq(Message)
           /\ wire' = IF Connected THEN Append(Append(wire, m), n) ELSE wire
<1>1. wire \in Seq(Message)
  BY DEF Types
<1> QED BY <1>1, Pairs DEF Say

\* The rest of a switch, once the room knows where it stands.
LEMMA Proceeds ==
    ASSUME NEW q \in Seq(Switch), NEW isSent \in BOOLEAN, NEW running \in BOOLEAN,
           NEW requests \in Seq(Request), NEW says \in Seq(Message),
           NEW m, Proceed(q, isSent, running, requests, m), isSent => q # <<>>,
           OneOut(requests, says, "switch", "answer"),
           isSent \/ Neither(requests, says, "switch", "answer"),
           OneOut(requests, says, "look", "sources")
    PROVE  /\ switching' = q /\ sent' \in BOOLEAN /\ transition' \in BOOLEAN
           /\ asked' \in Seq(Request) /\ (sent' => switching' # <<>>)
           /\ q = <<>> => asked' = requests
           /\ OneOut(asked', says, "switch", "answer")
           /\ sent' \/ Neither(asked', says, "switch", "answer")
           /\ OneOut(asked', says, "look", "sources")
           /\ Neither(requests, says, "look", "sources") => Neither(asked', says, "look", "sources")
           /\ isSent \/ running => asked' = requests /\ sent' = isSent /\ transition' = running
           /\ transition' \/ q = <<>> \/ isSent
<1>1. CASE q # <<>> /\ ~isSent /\ ~running
  <2> DEFINE r == [type |-> "switch", scene |-> Head(q).scene]
  <2>1. r \in Request /\ r.type = "switch"
    <3>1. Head(q) \in Switch
      BY <1>1, HeadTailProperties
    <3>2. Head(q).scene \in Scenes
      BY <3>1 DEF Switch
    <3> QED BY <3>2 DEF Request
  <2>2. asked' = Append(requests, r) /\ sent' = TRUE /\ transition' = TRUE /\ switching' = q
    BY <1>1 DEF Proceed
  <2> HIDE DEF r
  <2>3. /\ OneOut(asked', says, "switch", "answer")
        /\ OneOut(asked', says, "look", "sources")
        /\ Neither(requests, says, "look", "sources") => Neither(asked', says, "look", "sources")
    BY <1>1, <2>1, <2>2, Asked
  <2>4. asked' \in Seq(Request)
    BY <2>1, <2>2, AppendProperties
  <2> QED BY <1>1, <2>2, <2>3, <2>4
<1>2. CASE ~(q # <<>> /\ ~isSent /\ ~running)
  <2>1. asked' = requests /\ sent' = isSent /\ transition' = running /\ switching' = q
    BY <1>2 DEF Proceed
  <2> QED BY <1>2, <2>1
<1> QED BY <1>1, <1>2

LEMMA SaidTwo ==
    ASSUME NEW asks \in Seq(Request), NEW says \in Seq(Message), NEW m \in Message, NEW n \in Message,
           NEW k, NEW a
    PROVE  LET t == Append(Append(says, m), n)
           IN  /\ Neither(asks, says, k, a) /\ (m.type # a \/ n.type # a) => OneOut(asks, t, k, a)
               /\ m.type # a /\ n.type # a /\ OneOut(asks, says, k, a) => OneOut(asks, t, k, a)
               /\ m.type # a /\ n.type # a /\ Neither(asks, says, k, a) => Neither(asks, t, k, a)
<1>1. PICK s \in Seq(Message) : s = Append(says, m)
  BY Pairs
<1>2. /\ Neither(asks, says, k, a) => OneOut(asks, s, k, a)
      /\ m.type # a /\ Neither(asks, says, k, a) => Neither(asks, s, k, a)
      /\ m.type # a /\ OneOut(asks, says, k, a) => OneOut(asks, s, k, a)
  BY <1>1, Said
<1>3. /\ Neither(asks, s, k, a) => OneOut(asks, Append(s, n), k, a)
      /\ n.type # a /\ Neither(asks, s, k, a) => Neither(asks, Append(s, n), k, a)
      /\ n.type # a /\ OneOut(asks, s, k, a) => OneOut(asks, Append(s, n), k, a)
  BY Said
<1> QED BY <1>1, <1>2, <1>3

Fades == [from : Scenes, to : Scenes, ours : BOOLEAN] \cup {NoFade}

LEMMA FadeIs ==
    /\ NoFade.ours = FALSE
    /\ \A f \in Fades : f # NoFade => f.from \in Scenes /\ f.to \in Scenes /\ f.ours \in BOOLEAN
BY DEF NoFade, Fades

LEMMA LeaveIs ==
    ASSUME Types, NEW scene \in Scenes, NEW ours \in BOOLEAN, Leave(scene, ours)
    PROVE  fade' \in Fades /\ fade'.ours = ours /\ frozen' \subseteq Scenes /\ program' \in Scenes
<1>1. fade \in Fades /\ program \in Scenes
  BY DEF Types, Fades
<1>2. PICK from \in Scenes : fade' = [from |-> from, to |-> scene, ours |-> ours]
  BY <1>1, FadeIs DEF Leave
<1>3. fade' \in Fades /\ fade'.ours = ours
  BY <1>2 DEF Fades
<1>4. frozen' \subseteq Scenes /\ program' \in Scenes
  BY DEF Leave, Types
<1> QED BY <1>3, <1>4

LEMMA CutIs ==
    ASSUME Types, NEW scene \in Scenes, Cut(scene)
    PROVE  fade' = NoFade /\ fade' \in Fades /\ frozen' \subseteq Scenes /\ program' \in Scenes
BY DEF Cut, Types, Fades

\* What OBS, or a hand in it, does.
LEMMA ObsFrame ==
    ASSUME Shape, UNCHANGED <<linkVars, roomVars>>,
           program' \in Scenes, fade' \in Fades, frozen' \subseteq Scenes,
           wanted' \in SomeScene,
           switches' \in 0..MaxSwitches, hands' \in 0..MaxHands, faults' \in 0..MaxFaults,
           asked' \in Seq(Request), wire' \in Seq(Message), ~Connected => asked' = <<>> /\ wire' = <<>>,
           OneOut(asked', wire', "switch", "answer"), OneOut(asked', wire', "look", "sources"),
           Neither(asked, wire, "switch", "answer") => Neither(asked', wire', "switch", "answer"),
           Neither(asked, wire, "look", "sources") => Neither(asked', wire', "look", "sources")
    PROVE  Shape'
<1> USE DEF linkVars, roomVars
<1>1. Types'
  BY DEF Shape, Types, Fades
<1>2. Waiting'
  <2>1. Connected' = Connected
    BY DEF Connected
  <2> QED BY <2>1 DEF Shape, Waiting
<1>3. Watching'
  BY DEF Shape, Watching
<1> QED BY <1>1, <1>2, <1>3 DEF Shape

\* Facts of Shape the steps of OBS start from.
LEMMA Starts ==
    ASSUME Shape
    PROVE  /\ Types /\ asked \in Seq(Request) /\ wire \in Seq(Message)
           /\ wanted \in SomeScene /\ fade \in Fades
           /\ frozen \subseteq Scenes /\ program \in Scenes
           /\ switches \in 0..MaxSwitches /\ hands \in 0..MaxHands /\ faults \in 0..MaxFaults
           /\ OneOut(asked, wire, "switch", "answer") /\ OneOut(asked, wire, "look", "sources")
           /\ ~Connected => asked = <<>> /\ wire = <<>>
           /\ Fault => faults' \in 0..MaxFaults
<1>1. Fault => faults' \in 0..MaxFaults
  BY BoundsAssumption DEF Shape, Types, Fault
<1> QED BY <1>1 DEF Shape, Types, Waiting, Watching, Fades

\* The request at the head of those OBS has.
LEMMA HeadAsked ==
    ASSUME Shape, asked # <<>>
    PROVE  /\ Connected /\ Head(asked) \in Request /\ Head(asked).scene \in Scenes
           /\ Tail(asked) \in Seq(Request)
           /\ OneOut(Tail(asked), wire, "switch", "answer") /\ OneOut(Tail(asked), wire, "look", "sources")
           /\ Head(asked).type = "switch" => sent /\ Neither(Tail(asked), wire, "switch", "answer")
           /\ Head(asked).type = "look" => watch.phase \in Looking /\ Neither(Tail(asked), wire, "look", "sources")
           /\ Neither(asked, wire, "switch", "answer") => Neither(Tail(asked), wire, "switch", "answer")
           /\ Neither(asked, wire, "look", "sources") => Neither(Tail(asked), wire, "look", "sources")
           /\ Head(asked).type = "switch" => ~Neither(asked, wire, "switch", "answer")
           /\ Head(asked).type = "look" => ~Neither(asked, wire, "look", "sources")
<1>1. /\ Head(asked) \in Request /\ Tail(asked) \in Seq(Request) /\ asked[1] = Head(asked) /\ 1 \in 1..Len(asked)
  BY Starts, HeadTailProperties, LenProperties, EmptySeq
<1>2. Head(asked).scene \in Scenes
  BY <1>1 DEF Request
<1>3. \A k, a : Head(asked).type = k => ~Neither(asked, wire, k, a)
  BY <1>1 DEF Neither, Nowhere
<1>4. sent \/ Neither(asked, wire, "switch", "answer")
  BY DEF Shape, Waiting
<1>5. watch.phase \in Looking \/ Neither(asked, wire, "look", "sources")
  BY DEF Shape, Watching
<1>6. Connected
  BY Starts
<1>7. \A k, a : /\ Neither(asked, wire, k, a) => Neither(Tail(asked), wire, k, a)
                /\ OneOut(asked, wire, k, a) => OneOut(Tail(asked), wire, k, a)
                /\ OneOut(asked, wire, k, a) /\ Head(asked).type = k => Neither(Tail(asked), wire, k, a)
  BY Starts, Served
<1> QED BY Starts, <1>1, <1>2, <1>3, <1>4, <1>5, <1>6, <1>7

\* A switch is answered once, whatever OBS says with it.
LEMMA StepObsSwitches == ASSUME Shape, ObsSwitches PROVE Shape'
<1> DEFINE scene == Head(asked).scene
<1>1. /\ asked # <<>> /\ Head(asked).type = "switch" /\ asked' = Tail(asked)
      /\ UNCHANGED <<linkVars, roomVars, switches, hands>>
  BY DEF ObsSwitches
<1>2. /\ Connected /\ scene \in Scenes /\ asked' \in Seq(Request)
      /\ Neither(asked', wire, "switch", "answer")
      /\ OneOut(asked', wire, "look", "sources")
      /\ Neither(asked, wire, "look", "sources") => Neither(asked', wire, "look", "sources")
      /\ ~Neither(asked, wire, "switch", "answer")
  BY <1>1, HeadAsked
<1>3. switches' \in 0..MaxSwitches /\ hands' \in 0..MaxHands
  BY <1>1, Starts
<1>4. SUFFICES /\ program' \in Scenes /\ fade' \in Fades /\ frozen' \subseteq Scenes
               /\ wanted' \in SomeScene /\ faults' \in 0..MaxFaults
               /\ wire' \in Seq(Message)
               /\ OneOut(asked', wire', "switch", "answer") /\ OneOut(asked', wire', "look", "sources")
               /\ Neither(asked, wire, "look", "sources") => Neither(asked', wire', "look", "sources")
  BY <1>1, <1>2, <1>3, ObsFrame
<1>5. ASSUME NEW m \in Message, NEW n \in Message, Say(<<m, n>>), m.type = "answer",
             n.type \in {"started", "changed"}
      PROVE  /\ wire' \in Seq(Message)
             /\ OneOut(asked', wire', "switch", "answer") /\ OneOut(asked', wire', "look", "sources")
             /\ Neither(asked, wire, "look", "sources") => Neither(asked', wire', "look", "sources")
  <2>1. wire' \in Seq(Message) /\ wire' = Append(Append(wire, m), n) /\ wire \in Seq(Message)
    BY <1>2, <1>5, Starts, SayTwo
  <2> QED BY <1>2, <1>5, <2>1, SaidTwo
<1>6. ASSUME NEW m \in Message, NEW n \in Message, Say(<<m, n>>), n.type = "answer",
             m.type \in {"started", "changed"}
      PROVE  /\ wire' \in Seq(Message)
             /\ OneOut(asked', wire', "switch", "answer") /\ OneOut(asked', wire', "look", "sources")
             /\ Neither(asked, wire, "look", "sources") => Neither(asked', wire', "look", "sources")
  <2>1. wire' \in Seq(Message) /\ wire' = Append(Append(wire, m), n) /\ wire \in Seq(Message)
    BY <1>2, <1>6, Starts, SayTwo
  <2> QED BY <1>2, <1>6, <2>1, SaidTwo
<1>7. CASE /\ Leave(scene, TRUE)
           /\ Say(<<Started, Answer(TRUE)>>) \/ Say(<<Answer(TRUE), Started>>)
           /\ UNCHANGED <<faults, wanted>>
  <2>2. program' \in Scenes /\ fade' \in Fades /\ frozen' \subseteq Scenes
    BY <1>2, <1>7, LeaveIs, Starts
  <2>4. wanted' \in SomeScene /\ faults' \in 0..MaxFaults
    BY <1>7, Starts
  <2>5. CASE Say(<<Started, Answer(TRUE)>>)
    BY <1>6, <2>2, <2>4, <2>5, Messages
  <2>6. CASE Say(<<Answer(TRUE), Started>>)
    BY <1>5, <2>2, <2>4, <2>6, Messages
  <2> QED BY <1>7, <2>5, <2>6
<1>8. CASE /\ Cut(scene)
           /\ Say(<<Changed(scene), Answer(TRUE)>>) \/ Say(<<Answer(TRUE), Changed(scene)>>)
           /\ UNCHANGED <<faults, wanted>>
  <2>2. program' \in Scenes /\ fade' \in Fades /\ frozen' \subseteq Scenes
    BY <1>2, <1>8, CutIs, Starts
  <2>3. wanted' \in SomeScene /\ faults' \in 0..MaxFaults
    BY <1>8, Starts
  <2>4. /\ Changed(scene) \in Message /\ Changed(scene).type = "changed"
        /\ Answer(TRUE) \in Message /\ Answer(TRUE).type = "answer"
    BY <1>2, Messages
  <2>5. CASE Say(<<Changed(scene), Answer(TRUE)>>)
    <3>1. /\ wire' \in Seq(Message)
          /\ OneOut(asked', wire', "switch", "answer") /\ OneOut(asked', wire', "look", "sources")
          /\ Neither(asked, wire, "look", "sources") => Neither(asked', wire', "look", "sources")
      BY <1>6, <2>4, <2>5
    <3> QED BY <2>2, <2>3, <3>1, Zenon
  <2>6. CASE Say(<<Answer(TRUE), Changed(scene)>>)
    <3>1. /\ wire' \in Seq(Message)
          /\ OneOut(asked', wire', "switch", "answer") /\ OneOut(asked', wire', "look", "sources")
          /\ Neither(asked, wire, "look", "sources") => Neither(asked', wire', "look", "sources")
      BY <1>5, <2>4, <2>6
    <3> QED BY <2>2, <2>3, <3>1, Zenon
  <2> QED BY <1>8, <2>5, <2>6
<1>9. CASE /\ Fault /\ Say(<<Answer(FALSE)>>) /\ wanted' = NoScene /\ UNCHANGED obsVars
  <2>1. wire' \in Seq(Message) /\ wire' = Append(wire, Answer(FALSE)) /\ Answer(FALSE) \in Message
        /\ Answer(FALSE).type = "answer"
    BY <1>2, <1>9, Starts, SayOne, Messages
  <2>2. /\ OneOut(asked', wire', "switch", "answer") /\ OneOut(asked', wire', "look", "sources")
        /\ Neither(asked, wire, "look", "sources") => Neither(asked', wire', "look", "sources")
    BY <1>2, <2>1, Starts, Said
  <2>3. wanted' \in SomeScene
    BY <1>9 DEF SomeScene
  <2> QED BY <1>9, <2>1, <2>2, <2>3, Starts DEF obsVars
<1> QED BY <1>7, <1>8, <1>9 DEF ObsSwitches

LEMMA StepObsEnds == ASSUME Shape, ObsEnds PROVE Shape'
<1>1. /\ program' = fade.to /\ fade' = NoFade /\ fade # NoFade
      /\ UNCHANGED <<frozen, asked, linkVars, roomVars, switches, hands, wanted>>
  BY DEF ObsEnds
<1>2. program' \in Scenes /\ fade' \in Fades
  BY <1>1, Starts, FadeIs DEF Fades
<1>3. ASSUME NEW m \in Message, NEW n \in Message, Say(<<m, n>>),
             m.type \notin {"answer", "sources"}, n.type \notin {"answer", "sources"}, UNCHANGED faults
      PROVE  Shape'
  <2>1. wire' \in Seq(Message) /\ wire' = IF Connected THEN Append(Append(wire, m), n) ELSE wire
    BY <1>3, Starts, SayTwo
  <2>2. CASE Connected
    <3>1. /\ OneOut(asked, wire', "switch", "answer") /\ OneOut(asked, wire', "look", "sources")
          /\ Neither(asked, wire, "switch", "answer") => Neither(asked, wire', "switch", "answer")
          /\ Neither(asked, wire, "look", "sources") => Neither(asked, wire', "look", "sources")
      BY <1>3, <2>1, <2>2, Starts, SaidTwo
    <3> QED BY <1>1, <1>2, <1>3, <2>1, <2>2, <3>1, Starts, ObsFrame
  <2>3. CASE ~Connected
    BY <1>1, <1>2, <1>3, <2>1, <2>3, Starts, ObsFrame
  <2> QED BY <2>2, <2>3
<1>4. CASE Say(<<Changed(fade.to), Ended>>) /\ UNCHANGED faults
  BY <1>1, <1>2, <1>3, <1>4, Messages
<1>5. CASE Say(<<Ended, Changed(fade.to)>>) /\ UNCHANGED faults
  BY <1>1, <1>2, <1>3, <1>5, Messages
<1>6. CASE Fault /\ UNCHANGED wire
  BY <1>1, <1>2, <1>6, Starts, ObsFrame
<1> QED BY <1>4, <1>5, <1>6 DEF ObsEnds

LEMMA StepObsLooks == ASSUME Shape, ObsLooks PROVE Shape'
<1>1. /\ asked # <<>> /\ Head(asked).type = "look" /\ asked' = Tail(asked)
      /\ UNCHANGED <<obsVars, linkVars, roomVars, counts, wanted>>
  BY DEF ObsLooks
<1>2. PICK off \in BOOLEAN : Say(<<Sources(off)>>)
  BY DEF ObsLooks
<1>3. /\ Connected /\ asked' \in Seq(Request)
      /\ Neither(asked', wire, "look", "sources")
      /\ OneOut(asked', wire, "switch", "answer")
      /\ Neither(asked, wire, "switch", "answer") => Neither(asked', wire, "switch", "answer")
      /\ ~Neither(asked, wire, "look", "sources")
  BY <1>1, HeadAsked
<1>4. PICK m \in Message : m = Sources(off) /\ m.type = "sources"
  BY <1>2, Messages
<1>5. wire' \in Seq(Message) /\ wire' = Append(wire, m)
  BY <1>2, <1>3, <1>4, Starts, SayOne
<1>6. /\ OneOut(asked', wire', "switch", "answer") /\ OneOut(asked', wire', "look", "sources")
      /\ Neither(asked, wire, "switch", "answer") => Neither(asked', wire', "switch", "answer")
  BY <1>3, <1>4, <1>5, Starts, Said
<1> QED BY <1>1, <1>3, <1>5, <1>6, Starts, ObsFrame DEF obsVars, counts

LEMMA StepHandSwitches == ASSUME Shape, NEW scene \in Scenes, HandSwitches(scene) PROVE Shape'
<1>1. /\ hands < MaxHands /\ hands' = hands + 1 /\ wanted' = scene
      /\ UNCHANGED <<asked, linkVars, roomVars, switches, faults>>
  BY DEF HandSwitches
<1>2. hands' \in 0..MaxHands /\ wanted' \in SomeScene
  BY <1>1, Starts, BoundsAssumption DEF SomeScene
<1>3. PICK m \in Message : m.type \in {"started", "changed"} /\ Say(<<m>>)
  BY Messages DEF HandSwitches
<1>4. program' \in Scenes /\ fade' \in Fades /\ frozen' \subseteq Scenes
  BY LeaveIs, CutIs, Starts DEF HandSwitches
<1>5. wire' \in Seq(Message) /\ wire' = IF Connected THEN Append(wire, m) ELSE wire
  BY <1>3, Starts, SayOne
<1>6. CASE Connected
  <2>1. /\ OneOut(asked, wire', "switch", "answer") /\ OneOut(asked, wire', "look", "sources")
        /\ Neither(asked, wire, "switch", "answer") => Neither(asked, wire', "switch", "answer")
        /\ Neither(asked, wire, "look", "sources") => Neither(asked, wire', "look", "sources")
    BY <1>3, <1>5, <1>6, Starts, Said
  <2> QED BY <1>1, <1>2, <1>4, <1>5, <1>6, <2>1, Starts, ObsFrame
<1>7. CASE ~Connected
  BY <1>1, <1>2, <1>4, <1>5, <1>7, Starts, ObsFrame
<1> QED BY <1>6, <1>7
-----------------------------------------------------------------------------
\* What the room does.

LEMMA OneByWatchdogKept ==
    ASSUME NEW q \in Seq(Switch), NEW phase, OneByWatchdog(q, phase)
    PROVE  /\ q # <<>> => /\ OneByWatchdog(Tail(q), phase) /\ Tail(q) \in Seq(Switch)
                          /\ Head(q) \in Switch
                          /\ Head(q).by = "watchdog" => \A p : OneByWatchdog(Tail(q), p)
           /\ \A s \in Switch : s.by = "control" =>
                 Append(q, s) \in Seq(Switch) /\ OneByWatchdog(Append(q, s), phase)
           /\ phase # "switching" => \A p : OneByWatchdog(q, p)
           /\ phase # "switching" => \A s \in Switch :
                 Append(q, s) \in Seq(Switch) /\ OneByWatchdog(Append(q, s), "switching")
<1>1. ASSUME q # <<>> PROVE /\ OneByWatchdog(Tail(q), phase) /\ Tail(q) \in Seq(Switch)
                            /\ Head(q) \in Switch
                            /\ Head(q).by = "watchdog" => \A p : OneByWatchdog(Tail(q), p)
  <2>1. /\ Tail(q) \in Seq(Switch) /\ Len(q) \in Nat /\ Len(Tail(q)) = Len(q) - 1 /\ Len(q) >= 1
        /\ \A i \in 1..Len(Tail(q)) : Tail(q)[i] = q[i + 1] /\ i + 1 \in 1..Len(q) /\ i + 1 # 1
        /\ Head(q) \in Switch /\ Head(q) = q[1]
    BY <1>1, HeadTailProperties, LenProperties, EmptySeq
  <2>2. ASSUME NEW i \in 1..Len(Tail(q)), NEW j \in 1..Len(Tail(q)),
               Tail(q)[i].by = "watchdog", Tail(q)[j].by = "watchdog"
        PROVE  i = j
    <3>1. i + 1 = j + 1
      BY <2>1, <2>2 DEF OneByWatchdog
    <3> QED BY <3>1
  <2>3. OneByWatchdog(Tail(q), phase)
    BY <2>1, <2>2 DEF OneByWatchdog
  <2>4. ASSUME Head(q).by = "watchdog", NEW i \in 1..Len(Tail(q)) PROVE Tail(q)[i].by # "watchdog"
    BY <2>1, <2>4 DEF OneByWatchdog
  <2> QED BY <2>1, <2>3, <2>4 DEF OneByWatchdog
<1>2. ASSUME NEW s \in Switch
      PROVE  /\ Append(q, s) \in Seq(Switch)
             /\ s.by = "control" => OneByWatchdog(Append(q, s), phase)
             /\ phase # "switching" => OneByWatchdog(Append(q, s), "switching")
  <2>1. /\ Append(q, s) \in Seq(Switch) /\ Len(q) \in Nat /\ Len(Append(q, s)) = Len(q) + 1
        /\ \A i \in 1..Len(q) : Append(q, s)[i] = q[i]
        /\ Append(q, s)[Len(q) + 1] = s
    BY AppendProperties, LenProperties
  <2>2. \A i \in 1..Len(Append(q, s)) : i \in 1..Len(q) \/ i = Len(q) + 1
    BY <2>1
  <2>3. s.by = "control" => OneByWatchdog(Append(q, s), phase)
    BY <2>1, <2>2 DEF OneByWatchdog
  <2>4. phase # "switching" => OneByWatchdog(Append(q, s), "switching")
    BY <2>1, <2>2 DEF OneByWatchdog
  <2> QED BY <2>1, <2>3, <2>4
<1>3. phase # "switching" => \A p : OneByWatchdog(q, p)
  BY DEF OneByWatchdog
<1> QED BY <1>1, <1>2, <1>3

\* What the room hears first.
LEMMA HeadHeard ==
    ASSUME Shape, wire # <<>>
    PROVE  /\ Connected /\ Head(wire) \in Message /\ Tail(wire) \in Seq(Message)
           /\ OneOut(asked, Tail(wire), "switch", "answer") /\ OneOut(asked, Tail(wire), "look", "sources")
           /\ sent \/ Neither(asked, Tail(wire), "switch", "answer")
           /\ watch.phase \in Looking \/ Neither(asked, Tail(wire), "look", "sources")
           /\ Head(wire).type = "answer" => sent /\ Neither(asked, Tail(wire), "switch", "answer")
           /\ Head(wire).type = "sources" => watch.phase \in Looking /\ Neither(asked, Tail(wire), "look", "sources")
<1>1. /\ Head(wire) \in Message /\ Tail(wire) \in Seq(Message) /\ wire[1] = Head(wire) /\ 1 \in 1..Len(wire)
  BY Starts, HeadTailProperties, LenProperties, EmptySeq
<1>3. \A k, a : Head(wire).type = a => ~Neither(asked, wire, k, a)
  BY <1>1 DEF Neither, Nowhere
<1>4. sent \/ Neither(asked, wire, "switch", "answer")
  BY DEF Shape, Waiting
<1>5. watch.phase \in Looking \/ Neither(asked, wire, "look", "sources")
  BY DEF Shape, Watching
<1>6. Connected
  BY Starts
<1>7. \A k, a : /\ Neither(asked, wire, k, a) => Neither(asked, Tail(wire), k, a)
                /\ OneOut(asked, wire, k, a) => OneOut(asked, Tail(wire), k, a)
                /\ OneOut(asked, wire, k, a) /\ Head(wire).type = a => Neither(asked, Tail(wire), k, a)
  BY Starts, Heard
<1> QED BY Starts, <1>1, <1>3, <1>4, <1>5, <1>6, <1>7

\* The room's own part of Types.
LEMMA Rooms ==
    ASSUME Shape
    PROVE  /\ switching \in Seq(Switch) /\ sent \in BOOLEAN /\ transition \in BOOLEAN
           /\ current \in SomeScene /\ unrepairable \in SomeScene /\ read \in SomeScene
           /\ watch \in [phase : WatchPhases, scene : SomeScene] /\ link \in {"down", "reading", "up"}
           /\ (sent => switching # <<>>) /\ (~Connected => switching = <<>> /\ ~transition /\ current = NoScene)
           /\ sent \/ Neither(asked, wire, "switch", "answer")
           /\ watch.phase \in Looking \/ Neither(asked, wire, "look", "sources")
           /\ watch.phase = "asleep" \/ watch.scene \in Scenes
           /\ OneByWatchdog(switching, watch.phase)
           /\ watch.phase \in WatchPhases
BY DEF Shape, Types, Waiting, Watching

LEMMA RoomFrame ==
    ASSUME Shape, UNCHANGED <<obsVars, hands>>, wanted' \in SomeScene,
           switches' \in 0..MaxSwitches, faults' \in 0..MaxFaults,
           link' \in {"down", "reading", "up"}, read' \in SomeScene,
           asked' \in Seq(Request), wire' \in Seq(Message), switching' \in Seq(Switch),
           sent' \in BOOLEAN, transition' \in BOOLEAN, current' \in SomeScene, unrepairable' \in SomeScene,
           watch' \in [phase : WatchPhases, scene : SomeScene], Waiting', Watching'
    PROVE  Shape'
BY DEF Shape, Types, obsVars

LEMMA WakeIs ==
    ASSUME Shape, NEW phase \in WatchPhases, Wake(phase)
    PROVE  /\ watch' \in [phase : WatchPhases, scene : SomeScene]
           /\ watch'.phase = phase /\ watch'.scene = watch.scene
BY Rooms DEF Wake

LEMMA AsleepIs ==
    /\ Asleep \in [phase : WatchPhases, scene : SomeScene] /\ Asleep.phase = "asleep"
BY DEF Asleep, WatchPhases, SomeScene

\* The room's variables after a step of its own that lets switches go.
RoomAfter ==
    /\ asked' \in Seq(Request) /\ switching' \in Seq(Switch)
    /\ sent' \in BOOLEAN /\ transition' \in BOOLEAN
    /\ sent' => switching' # <<>>
    /\ OneOut(asked', wire', "switch", "answer") /\ OneOut(asked', wire', "look", "sources")
    /\ sent' \/ Neither(asked', wire', "switch", "answer")
WatchAfter ==
    /\ watch' \in [phase : WatchPhases, scene : SomeScene]
    /\ watch'.phase \in Looking \/ Neither(asked', wire', "look", "sources")
    /\ watch'.phase = "asleep" \/ watch'.scene \in Scenes
    /\ OneByWatchdog(switching', watch'.phase)

LEMMA RoomMoves ==
    ASSUME Shape, RoomAfter, WatchAfter, Connected', wire' \in Seq(Message),
           UNCHANGED <<obsVars, hands>>, wanted' \in SomeScene,
           switches' \in 0..MaxSwitches, faults' \in 0..MaxFaults,
           link' \in {"down", "reading", "up"}, read' \in SomeScene,
           current' \in SomeScene, unrepairable' \in SomeScene
    PROVE  Shape'
<1>1. Waiting'
  BY DEF RoomAfter, Waiting
<1>2. Watching'
  BY DEF RoomAfter, WatchAfter, Watching
<1> QED BY <1>1, <1>2, RoomFrame DEF RoomAfter, WatchAfter

LEMMA Ends ==
    ASSUME Shape, wire' \in Seq(Message), TransitionEnded,
           OneOut(asked, wire', "switch", "answer"), OneOut(asked, wire', "look", "sources"),
           sent \/ Neither(asked, wire', "switch", "answer"),
           watch.phase \in Looking \/ Neither(asked, wire', "look", "sources")
    PROVE  RoomAfter /\ WatchAfter
<1>1. /\ switching' = switching /\ sent' \in BOOLEAN /\ transition' \in BOOLEAN
      /\ asked' \in Seq(Request) /\ (sent' => switching' # <<>>)
      /\ OneOut(asked', wire', "switch", "answer")
      /\ sent' \/ Neither(asked', wire', "switch", "answer")
      /\ OneOut(asked', wire', "look", "sources")
      /\ Neither(asked, wire', "look", "sources") => Neither(asked', wire', "look", "sources")
  BY Starts, Rooms, Proceeds DEF TransitionEnded
<1>2. RoomAfter
  BY <1>1, Rooms DEF RoomAfter
<1>3. CASE watch.phase = "settling"
  <2>1. /\ watch' \in [phase : WatchPhases, scene : SomeScene]
        /\ watch'.phase = "resting" /\ watch'.scene = watch.scene
    BY <1>3, WakeIs DEF TransitionEnded, WatchPhases
  <2>2. Neither(asked', wire', "look", "sources")
    BY <1>1, <1>3 DEF Looking
  <2>3. OneByWatchdog(switching', "resting")
    BY <1>1, <1>3, Rooms, OneByWatchdogKept
  <2> QED BY <1>2, <1>3, <2>1, <2>2, <2>3, Rooms DEF WatchAfter
<1>4. CASE watch.phase # "settling"
  <2>1. watch' = watch
    BY <1>4 DEF TransitionEnded
  <2> QED BY <1>1, <1>2, <2>1, Rooms DEF WatchAfter
<1> QED BY <1>3, <1>4

LEMMA StepGiveUp == ASSUME Shape, GiveUp PROVE Shape'
<1>1. TransitionEnded /\ UNCHANGED <<obsVars, wire, linkVars, current, unrepairable, counts>>
      /\ wire = <<>> /\ transition
  BY DEF GiveUp
<1>0. wanted' \in SomeScene
  BY Starts DEF GiveUp, SomeScene
<1>2. RoomAfter /\ WatchAfter
  BY <1>1, Starts, Rooms, Ends
<1>3. Connected /\ Connected'
  BY <1>1, Rooms DEF Connected, linkVars
<1> QED BY <1>0, <1>1, <1>2, <1>3, Starts, Rooms, RoomMoves DEF linkVars, counts

LEMMA StepSetRole == ASSUME Shape, NEW scene \in Scenes, SetRole(scene) PROVE Shape'
<1> DEFINE q == Append(switching, [scene |-> scene, by |-> "control"])
<1>1. /\ link = "up" /\ switches < MaxSwitches /\ switches' = switches + 1 /\ wanted' = scene
      /\ Proceed(q, sent, transition, asked, mark)
      /\ UNCHANGED <<obsVars, wire, linkVars, current, watch, unrepairable, hands, faults>>
  BY DEF SetRole
<1>2. switches' \in 0..MaxSwitches /\ wanted' \in SomeScene
  BY <1>1, Starts, BoundsAssumption DEF SomeScene
<1>3. [scene |-> scene, by |-> "control"] \in Switch
  BY DEF Switch
<1>4. q \in Seq(Switch) /\ q # <<>> /\ OneByWatchdog(q, watch.phase)
  BY <1>3, Rooms, OneByWatchdogKept, AppendProperties
<1> HIDE DEF q
<1>5. /\ switching' = q /\ sent' \in BOOLEAN /\ transition' \in BOOLEAN
      /\ asked' \in Seq(Request) /\ (sent' => switching' # <<>>)
      /\ OneOut(asked', wire, "switch", "answer")
      /\ sent' \/ Neither(asked', wire, "switch", "answer")
      /\ OneOut(asked', wire, "look", "sources")
      /\ Neither(asked, wire, "look", "sources") => Neither(asked', wire, "look", "sources")
  BY <1>1, <1>4, Starts, Rooms, Proceeds
<1>6. RoomAfter
  BY <1>1, <1>4, <1>5 DEF RoomAfter
<1>7. WatchAfter
  BY <1>1, <1>4, <1>5, Rooms DEF WatchAfter
<1>8. Connected'
  BY <1>1 DEF Connected, linkVars
<1> QED BY <1>1, <1>2, <1>6, <1>7, <1>8, Starts, Rooms, RoomMoves DEF linkVars, obsVars

\* The watchdog looks, with nothing of its own out.
LEMMA Looks ==
    ASSUME Shape, NEW scene \in Scenes, Look(scene), wire' = wire,
           UNCHANGED <<switching, sent, transition>>, watch' \in [phase : WatchPhases, scene : SomeScene],
           watch'.phase \in Looking, watch'.scene = scene,
           Neither(asked, wire, "look", "sources"), watch.phase # "switching"
    PROVE  RoomAfter /\ WatchAfter
<1> DEFINE r == [type |-> "look", scene |-> scene]
<1>1. r \in Request /\ r.type # "switch" /\ asked' = Append(asked, r)
  BY DEF Request, Look
<1> HIDE DEF r
<1>2. asked' \in Seq(Request)
  BY <1>1, Starts, AppendProperties
<1>3. /\ OneOut(asked', wire, "look", "sources") /\ OneOut(asked', wire, "switch", "answer")
      /\ Neither(asked, wire, "switch", "answer") => Neither(asked', wire, "switch", "answer")
  BY <1>1, Starts, Asked
<1>4. OneByWatchdog(switching, watch'.phase)
  BY Rooms, OneByWatchdogKept
<1>5. RoomAfter
  BY <1>2, <1>3, Rooms DEF RoomAfter
<1>6. WatchAfter
  BY <1>4 DEF WatchAfter
<1> QED BY <1>5, <1>6

\* The watchdog changes its phase, and does nothing.
LEMMA OnlyWatches ==
    ASSUME Shape, UNCHANGED <<asked, wire, switching, sent, transition>>,
           watch' \in [phase : WatchPhases, scene : SomeScene],
           watch'.phase = "asleep" \/ watch'.scene \in Scenes,
           Neither(asked, wire, "look", "sources"), watch.phase # "switching"
    PROVE  RoomAfter /\ WatchAfter
<1>1. OneByWatchdog(switching, watch'.phase)
  BY Rooms, OneByWatchdogKept
<1>2. RoomAfter
  BY Starts, Rooms DEF RoomAfter
<1> QED BY <1>1, <1>2 DEF WatchAfter

LEMMA StepWatchTick == ASSUME Shape, WatchTick PROVE Shape'
<1>1. /\ link = "up" /\ watch.phase = "asleep" /\ current # NoScene
      /\ unrepairable' = IF unrepairable = current THEN current ELSE NoScene
      /\ watch' = [phase |-> "first", scene |-> current] /\ Look(current)
      /\ UNCHANGED <<obsVars, wire, linkVars, switching, sent, transition, current, counts, wanted>>
  BY DEF WatchTick
<1>2. current \in Scenes /\ unrepairable' \in SomeScene
  BY <1>1, Rooms DEF SomeScene
<1>3. /\ watch' \in [phase : WatchPhases, scene : SomeScene] /\ watch'.phase \in Looking
      /\ watch'.scene = current
  BY <1>1, <1>2 DEF WatchPhases, SomeScene, Looking
<1>4. Neither(asked, wire, "look", "sources")
  BY <1>1, Rooms DEF Looking
<1>5. RoomAfter /\ WatchAfter
  BY <1>1, <1>2, <1>3, <1>4, Looks
<1>6. Connected'
  BY <1>1 DEF Connected, linkVars
<1> QED BY <1>1, <1>2, <1>5, <1>6, Starts, Rooms, RoomMoves DEF linkVars, counts

LEMMA StepConfirmUp == ASSUME Shape, Confirm, Connected PROVE Shape'
<1>1. /\ watch.phase = "confirming"
      /\ UNCHANGED <<obsVars, wire, linkVars, switching, sent, transition, current,
                     unrepairable, counts, wanted>>
  BY DEF Confirm
<1>2. Neither(asked, wire, "look", "sources") /\ watch.scene \in Scenes
  BY <1>1, Rooms DEF Looking
<1>3. CASE watch' = Asleep /\ UNCHANGED asked
  <2>1. RoomAfter /\ WatchAfter
    BY <1>1, <1>2, <1>3, AsleepIs, OnlyWatches
  <2> QED BY <1>1, <2>1, Starts, Rooms, RoomMoves DEF linkVars, counts, Connected
<1>4. CASE Wake("second") /\ Look(watch.scene)
  <2>1. /\ watch' \in [phase : WatchPhases, scene : SomeScene]
        /\ watch'.phase = "second" /\ watch'.scene = watch.scene
    BY <1>4, WakeIs DEF WatchPhases
  <2>2. RoomAfter /\ WatchAfter
    BY <1>1, <1>2, <1>4, <2>1, Looks DEF Looking
  <2> QED BY <1>1, <2>2, Starts, Rooms, RoomMoves DEF linkVars, counts, Connected
<1> QED BY <1>3, <1>4 DEF Confirm

LEMMA StepRestUp == ASSUME Shape, Rest, Connected PROVE Shape'
<1>1. /\ watch.phase = "resting"
      /\ UNCHANGED <<obsVars, wire, linkVars, switching, sent, transition, current,
                     unrepairable, counts, wanted>>
  BY DEF Rest
<1>2. Neither(asked, wire, "look", "sources") /\ watch.scene \in Scenes
  BY <1>1, Rooms DEF Looking
<1>3. CASE watch' = Asleep /\ UNCHANGED asked
  <2>1. RoomAfter /\ WatchAfter
    BY <1>1, <1>2, <1>3, AsleepIs, OnlyWatches
  <2> QED BY <1>1, <2>1, Starts, Rooms, RoomMoves DEF linkVars, counts, Connected
<1>4. CASE Wake("third") /\ Look(watch.scene)
  <2>1. /\ watch' \in [phase : WatchPhases, scene : SomeScene]
        /\ watch'.phase = "third" /\ watch'.scene = watch.scene
    BY <1>4, WakeIs DEF WatchPhases
  <2>2. RoomAfter /\ WatchAfter
    BY <1>1, <1>2, <1>4, <2>1, Looks DEF Looking
  <2> QED BY <1>1, <2>2, Starts, Rooms, RoomMoves DEF linkVars, counts, Connected
<1> QED BY <1>3, <1>4 DEF Rest

\* Nothing is out and nothing waits.
LEMMA NothingOut ==
    /\ \A k, a : Neither(<<>>, <<>>, k, a) /\ OneOut(<<>>, <<>>, k, a)
    /\ \A p : OneByWatchdog(<<>>, p)
    /\ <<>> \in Seq(Request) /\ <<>> \in Seq(Message) /\ <<>> \in Seq(Switch)
BY DEF Neither, OneOut, Nowhere, Once, OneByWatchdog

LEMMA RoomIsStill ==
    ASSUME Shape, UNCHANGED <<obsVars, hands, switches>>, wanted' \in SomeScene,
           faults' \in 0..MaxFaults, link' = "down", read' \in SomeScene,
           asked' = <<>>, wire' = <<>>, switching' = <<>>, sent' = FALSE, transition' = FALSE,
           current' = NoScene, unrepairable' \in SomeScene,
           watch' \in [phase : WatchPhases, scene : SomeScene],
           watch'.phase = "asleep" \/ watch'.scene \in Scenes
    PROVE  Shape'
<1>1. Waiting'
  BY NothingOut DEF Waiting
<1>2. Watching'
  BY NothingOut DEF Watching
<1>3. current' \in SomeScene
  BY DEF SomeScene
<1> QED BY <1>1, <1>2, <1>3, NothingOut, Starts, RoomFrame

\* The watchdog that slept while the link broke goes back to sleep: it knows no scene.
LEMMA StepDown ==
    ASSUME Shape, ~Connected, watch' = Asleep,
           UNCHANGED <<obsVars, asked, wire, linkVars, switching, sent, transition, current,
                       unrepairable, counts, wanted>>
    PROVE  Shape'
<1>1. link' = "down" /\ sent' = FALSE /\ transition' = FALSE
  BY Rooms DEF Connected, linkVars
<1> QED BY <1>1, AsleepIs, Starts, Rooms, RoomIsStill DEF counts, linkVars

LEMMA StepConfirm == ASSUME Shape, Confirm PROVE Shape'
<1>1. CASE Connected
  BY <1>1, StepConfirmUp
<1>2. CASE ~Connected
  <2>1. current # watch.scene
    BY <1>2, Rooms, NoSceneAssumption DEF Confirm
  <2> QED BY <1>2, <2>1, StepDown DEF Confirm
<1> QED BY <1>1, <1>2

LEMMA StepRest == ASSUME Shape, Rest PROVE Shape'
<1>1. CASE Connected
  BY <1>1, StepRestUp
<1>2. CASE ~Connected
  <2>1. current # watch.scene
    BY <1>2, Rooms, NoSceneAssumption DEF Rest
  <2> QED BY <1>2, <2>1, StepDown DEF Rest
<1> QED BY <1>1, <1>2

LEMMA StepLinkLost == ASSUME Shape, LinkLost PROVE Shape'
<1>1. /\ Fault /\ Lose /\ UNCHANGED <<obsVars, unrepairable, switches, hands>>
  BY DEF LinkLost
<1>2. faults' \in 0..MaxFaults
  BY <1>1, Starts
<1>3. wanted' \in SomeScene /\ read' \in SomeScene
  BY <1>1, Starts DEF Lose, SomeScene
<1>4. /\ watch' \in [phase : WatchPhases, scene : SomeScene]
      /\ watch'.phase = "asleep" \/ watch'.scene \in Scenes
  <2>1. CASE watch.phase = "settling"
    <3>1. Wake("resting")
      BY <1>1, <2>1 DEF Lose, Wake
    <3> QED BY <2>1, <3>1, WakeIs, Rooms DEF WatchPhases
  <2>2. CASE watch.phase \in {"confirming", "resting"}
    <3>1. watch' = watch
      BY <1>1, <2>2 DEF Lose
    <3> QED BY <2>2, <3>1, Rooms
  <2>3. CASE watch.phase \notin {"settling", "confirming", "resting"}
    <3>1. watch' = Asleep
      BY <1>1, <2>3 DEF Lose
    <3> QED BY <3>1, AsleepIs
  <2> QED BY <2>1, <2>2, <2>3
<1> QED BY <1>1, <1>2, <1>3, <1>4, Starts, Rooms, RoomIsStill DEF Lose

LEMMA StepReconnect == ASSUME Shape, Reconnect PROVE Shape'
<1>1. /\ link = "down" /\ link' = "reading" /\ read' = program
      /\ watch' = Asleep /\ unrepairable' = NoScene
      /\ UNCHANGED <<obsVars, wires, switching, sent, transition, current, counts, wanted>>
  BY DEF Reconnect
<1>2. ~Connected /\ Connected'
  BY <1>1 DEF Connected
<1>3. asked' = <<>> /\ wire' = <<>> /\ switching' = <<>>
  BY <1>1, <1>2, Starts, Rooms DEF wires
<1>4. read' \in SomeScene /\ unrepairable' \in SomeScene
  BY <1>1, Starts DEF SomeScene
<1>5. RoomAfter
  BY <1>1, <1>2, <1>3, NothingOut, Rooms DEF RoomAfter
<1>6. WatchAfter
  BY <1>1, <1>3, NothingOut, AsleepIs DEF WatchAfter
<1> QED BY <1>1, <1>2, <1>3, <1>4, <1>5, <1>6, NothingOut, Starts, Rooms, RoomMoves DEF counts

LEMMA StepObsAnswersStatus == ASSUME Shape, ObsAnswersStatus PROVE Shape'
<1>1. /\ link = "reading" /\ wire' = Append(wire, Inventory)
      /\ UNCHANGED <<obsVars, asked, linkVars, roomVars, counts, wanted>>
  BY DEF ObsAnswersStatus
<1>2. Connected
  BY <1>1 DEF Connected
<1>3. wire' \in Seq(Message)
  BY <1>1, Starts, Messages, AppendProperties
<1>4. /\ OneOut(asked, wire', "switch", "answer") /\ OneOut(asked, wire', "look", "sources")
      /\ Neither(asked, wire, "switch", "answer") => Neither(asked, wire', "switch", "answer")
      /\ Neither(asked, wire, "look", "sources") => Neither(asked, wire', "look", "sources")
  BY <1>1, Starts, Messages, Said
<1> QED BY <1>1, <1>2, <1>3, <1>4, Starts, ObsFrame DEF obsVars, counts
-----------------------------------------------------------------------------
\* What the room hears.

Hears == wire # <<>> /\ wire' = Tail(wire) /\ UNCHANGED <<obsVars, counts, wanted>>

LEMMA HearMoves ==
    ASSUME Shape, Hears, RoomAfter, WatchAfter, Connected',
           link' \in {"down", "reading", "up"}, read' \in SomeScene,
           current' \in SomeScene, unrepairable' \in SomeScene
    PROVE  Shape'
<1>1. wire' \in Seq(Message)
  BY HeadHeard DEF Hears
<1> QED BY <1>1, Starts, RoomMoves DEF Hears, counts

LEMMA StepHearStarted == ASSUME Shape, Hears, HearStarted PROVE Shape'
<1>1. /\ transition' = TRUE
      /\ UNCHANGED <<asked, linkVars, switching, sent, current, watch, unrepairable>>
  BY DEF HearStarted
<1>2. Connected /\ Connected'
  BY <1>1, HeadHeard DEF Hears, linkVars, Connected
<1>3. RoomAfter
  BY <1>1, HeadHeard, Starts, Rooms DEF Hears, RoomAfter
<1>4. WatchAfter
  BY <1>1, HeadHeard, Rooms DEF Hears, WatchAfter
<1> QED BY <1>1, <1>2, <1>3, <1>4, Rooms, HearMoves DEF linkVars

LEMMA StepHearEnded == ASSUME Shape, Hears, HearEnded \/ HearChanged PROVE Shape'
<1>1. TransitionEnded /\ UNCHANGED <<linkVars, unrepairable>>
  BY DEF HearEnded, HearChanged
<1>2. Connected /\ Connected'
  BY <1>1, HeadHeard DEF Hears, linkVars, Connected
<1>3. RoomAfter /\ WatchAfter
  BY <1>1, HeadHeard, Ends DEF Hears
<1>4. current' \in SomeScene
  BY HeadHeard, MessageIs, Rooms DEF Hears, HearEnded, HearChanged, SomeScene
<1> QED BY <1>1, <1>2, <1>3, <1>4, Rooms, HearMoves DEF linkVars

LEMMA StepHearAnswer == ASSUME Shape, Hears, HearAnswer PROVE Shape'
<1> DEFINE running == transition /\ Head(wire).ok
<1>1. /\ Head(wire).type = "answer" /\ Proceed(Tail(switching), FALSE, running, asked, mark)
      /\ UNCHANGED <<linkVars, current, unrepairable>>
  BY DEF HearAnswer
<1>2. Connected /\ Connected'
  BY <1>1, HeadHeard DEF Hears, linkVars, Connected
<1>3. running \in BOOLEAN
  <2>1. transition \in BOOLEAN /\ Head(wire).ok \in BOOLEAN
    BY <1>1, HeadHeard, MessageIs, Rooms DEF Hears
  <2> QED BY <2>1
<1>4. sent /\ switching # <<>> /\ Neither(asked, wire', "switch", "answer") /\ wire' \in Seq(Message)
  BY <1>1, HeadHeard, Rooms DEF Hears
<1>5. /\ OneByWatchdog(Tail(switching), watch.phase) /\ Tail(switching) \in Seq(Switch)
      /\ Head(switching) \in Switch
      /\ Head(switching).by = "watchdog" => \A p : OneByWatchdog(Tail(switching), p)
      /\ Head(switching).by = "watchdog" => watch.phase = "switching"
  <2>1. Head(switching) = switching[1] /\ 1 \in 1..Len(switching)
    BY <1>4, Rooms, LenProperties, EmptySeq
  <2> QED BY <1>4, <2>1, Rooms, OneByWatchdogKept DEF OneByWatchdog
<1> HIDE DEF running
<1>6. /\ OneOut(asked, wire', "switch", "answer") /\ OneOut(asked, wire', "look", "sources")
      /\ watch.phase \in Looking \/ Neither(asked, wire', "look", "sources")
  BY <1>1, HeadHeard DEF Hears
<1>7. /\ switching' = Tail(switching) /\ sent' \in BOOLEAN /\ transition' \in BOOLEAN
      /\ asked' \in Seq(Request) /\ (sent' => switching' # <<>>)
      /\ OneOut(asked', wire', "switch", "answer")
      /\ sent' \/ Neither(asked', wire', "switch", "answer")
      /\ OneOut(asked', wire', "look", "sources")
      /\ Neither(asked, wire', "look", "sources") => Neither(asked', wire', "look", "sources")
  <2>1. asked \in Seq(Request)
    BY Starts
  <2> QED BY <1>1, <1>3, <1>4, <1>5, <1>6, <2>1, Proceeds
<1>8. RoomAfter
  BY <1>5, <1>7 DEF RoomAfter
<1>9. WatchAfter
  <2>1. CASE UNCHANGED watch
    BY <1>5, <1>6, <1>7, <2>1, Rooms DEF WatchAfter
  <2>2. CASE /\ Head(switching).by = "watchdog"
             /\ watch' = Asleep \/ \E p \in {"settling", "resting"} : Wake(p)
    <3>1. /\ watch.phase = "switching" /\ \A p : OneByWatchdog(switching', p)
      BY <1>5, <1>7, <2>2
    <3>2. watch.scene \in Scenes /\ Neither(asked', wire', "look", "sources")
      BY <1>6, <1>7, <3>1, Rooms DEF Looking
    <3>3. CASE watch' = Asleep
      BY <3>1, <3>2, <3>3, AsleepIs DEF WatchAfter
    <3>4. ASSUME NEW p \in {"settling", "resting"}, Wake(p) PROVE WatchAfter
      <4>1. /\ watch' \in [phase : WatchPhases, scene : SomeScene]
            /\ watch'.phase = p /\ watch'.scene = watch.scene
        BY <3>4, WakeIs DEF WatchPhases
      <4> QED BY <3>1, <3>2, <4>1 DEF WatchAfter
    <3> QED BY <2>2, <3>3, <3>4
  <2>3. Head(switching).by \in {"control", "watchdog"}
    BY <1>5 DEF Switch
  <2> QED BY <2>1, <2>2, <2>3 DEF HearAnswer
<1> QED BY <1>1, <1>2, <1>8, <1>9, Rooms, HearMoves DEF linkVars

LEMMA StepHearSources == ASSUME Shape, Hears, HearSources PROVE Shape'
<1>1. /\ Head(wire).type = "sources" /\ UNCHANGED <<linkVars, current>>
  BY DEF HearSources
<1>2. Connected /\ Connected'
  BY <1>1, HeadHeard DEF Hears, linkVars, Connected
<1>3. /\ watch.phase \in Looking /\ Neither(asked, wire', "look", "sources") /\ wire' \in Seq(Message)
      /\ OneOut(asked, wire', "switch", "answer") /\ OneOut(asked, wire', "look", "sources")
      /\ sent \/ Neither(asked, wire', "switch", "answer")
  BY <1>1, HeadHeard DEF Hears
<1>4. watch.phase # "switching" /\ watch.scene \in Scenes
  BY <1>3, Rooms DEF Looking
<1>5. /\ \A p : OneByWatchdog(switching, p)
      /\ \A s \in Switch : Append(switching, s) \in Seq(Switch) /\ OneByWatchdog(Append(switching, s), "switching")
  BY <1>4, Rooms, OneByWatchdogKept
<1>6. ASSUME UNCHANGED <<asked, switching, sent, transition>>,
             watch' = Asleep \/ Wake("confirming")
      PROVE  RoomAfter /\ WatchAfter
  <2>1. RoomAfter
    <3>1. asked' = asked /\ switching' = switching /\ sent' = sent /\ transition' = transition
      BY <1>6
    <3>2. asked \in Seq(Request)
      BY Starts
    <3> QED BY <1>3, <3>1, <3>2, Rooms DEF RoomAfter
  <2>2. CASE watch' = Asleep
    <3>1. Neither(asked', wire', "look", "sources") /\ OneByWatchdog(switching', "asleep")
      BY <1>3, <1>5, <1>6
    <3> QED BY <2>1, <2>2, <3>1, AsleepIs DEF WatchAfter
  <2>3. CASE Wake("confirming")
    <3>1. /\ watch' \in [phase : WatchPhases, scene : SomeScene]
          /\ watch'.phase = "confirming" /\ watch'.scene = watch.scene
      BY <2>3, WakeIs DEF WatchPhases
    <3> QED BY <2>1, <1>3, <1>4, <1>5, <1>6, <3>1 DEF WatchAfter
  <2> QED BY <1>6, <2>1, <2>2, <2>3
<1>7. CASE watch' = Asleep /\ UNCHANGED <<asked, switching, sent, transition, unrepairable>>
  BY <1>1, <1>2, <1>6, <1>7, Rooms, HearMoves DEF linkVars
<1>8. CASE Wake("confirming") /\ UNCHANGED <<asked, switching, sent, transition, unrepairable>>
  BY <1>1, <1>2, <1>6, <1>8, Rooms, HearMoves DEF linkVars
<1>9. CASE /\ Wake("switching") /\ UNCHANGED unrepairable
           /\ Proceed(Append(switching, [scene |-> watch.scene, by |-> "watchdog"]), sent, transition, asked, mark)
  <2>1. PICK s \in Switch : s = [scene |-> watch.scene, by |-> "watchdog"]
    BY <1>4 DEF Switch
  <2>2. PICK q \in Seq(Switch) : q = Append(switching, s) /\ q # <<>> /\ OneByWatchdog(q, "switching")
    <3>1. switching \in Seq(Switch)
      BY Rooms
    <3>2. Append(switching, s) \in Seq(Switch) /\ Append(switching, s) # <<>>
      BY <3>1, AppendProperties
    <3> QED BY <1>5, <3>2
  <2>3. /\ switching' = q /\ sent' \in BOOLEAN /\ transition' \in BOOLEAN
        /\ asked' \in Seq(Request) /\ (sent' => switching' # <<>>)
        /\ OneOut(asked', wire', "switch", "answer")
        /\ sent' \/ Neither(asked', wire', "switch", "answer")
        /\ OneOut(asked', wire', "look", "sources")
        /\ Neither(asked', wire', "look", "sources")
    <3>1. Proceed(q, sent, transition, asked, mark) /\ asked \in Seq(Request) /\ sent \in BOOLEAN /\ transition \in BOOLEAN
      BY <1>9, <2>1, <2>2, Starts, Rooms
    <3>2. PICK says \in Seq(Message) : says = wire'
      BY <1>3
    <3>3. /\ OneOut(asked, says, "switch", "answer") /\ OneOut(asked, says, "look", "sources")
          /\ sent \/ Neither(asked, says, "switch", "answer")
          /\ Neither(asked, says, "look", "sources") /\ q # <<>>
      BY <1>3, <2>2, <3>2
    <3>4. /\ switching' = q /\ sent' \in BOOLEAN /\ transition' \in BOOLEAN
          /\ asked' \in Seq(Request) /\ (sent' => switching' # <<>>)
          /\ OneOut(asked', says, "switch", "answer")
          /\ sent' \/ Neither(asked', says, "switch", "answer")
          /\ OneOut(asked', says, "look", "sources")
          /\ Neither(asked', says, "look", "sources")
      BY <3>1, <3>3, Proceeds
    <3> QED BY <3>2, <3>4
  <2>4. RoomAfter
    BY <2>3 DEF RoomAfter
  <2>5. WatchAfter
    <3>1. /\ watch' \in [phase : WatchPhases, scene : SomeScene]
          /\ watch'.phase = "switching" /\ watch'.scene = watch.scene
      BY <1>9, WakeIs DEF WatchPhases
    <3> QED BY <1>4, <2>2, <2>3, <3>1 DEF WatchAfter
  <2> QED BY <1>1, <1>2, <1>9, <2>4, <2>5, Rooms, HearMoves DEF linkVars
<1>10. CASE /\ watch' = Asleep /\ unrepairable' = watch.scene
            /\ UNCHANGED <<asked, switching, sent, transition>>
  <2>1. unrepairable' \in SomeScene
    BY <1>4, <1>10 DEF SomeScene
  <2> QED BY <1>1, <1>2, <1>6, <1>10, <2>1, Rooms, HearMoves DEF linkVars
<1> QED BY <1>7, <1>8, <1>9, <1>10 DEF HearSources

LEMMA StepAdopt == ASSUME Shape, Hears, Adopt PROVE Shape'
<1>1. /\ Head(wire).type = "inventory" /\ link' = "up" /\ current' = read /\ read' = NoScene
      /\ UNCHANGED <<asked, switching, sent, transition, watch, unrepairable>>
  BY DEF Adopt
<1>2. Connected'
  BY <1>1 DEF Connected
<1>3. RoomAfter
  BY <1>1, HeadHeard, Starts, Rooms DEF Hears, RoomAfter
<1>4. WatchAfter
  BY <1>1, HeadHeard, Rooms DEF Hears, WatchAfter
<1>5. read' \in SomeScene
  BY <1>1 DEF SomeScene
<1> QED BY <1>1, <1>2, <1>3, <1>4, <1>5, Rooms, HearMoves

LEMMA StepHear == ASSUME Shape, Hear PROVE Shape'
BY StepHearStarted, StepHearEnded, StepHearAnswer, StepHearSources, StepAdopt DEF Hear, Hears
-----------------------------------------------------------------------------
LEMMA ShapeInit == ASSUME Init PROVE Shape
<1> USE DEF Init
<1>1. Types
  <2>1. /\ faults \in 0..MaxFaults /\ switches \in 0..MaxSwitches /\ hands \in 0..MaxHands
    BY BoundsAssumption
  <2> QED BY <2>1, NothingOut, AsleepIs DEF Types, SomeScene
<1>2. Waiting
  BY NothingOut DEF Waiting, Connected
<1>3. Watching
  BY NothingOut, AsleepIs DEF Watching
<1> QED BY <1>1, <1>2, <1>3 DEF Shape

LEMMA ShapeStep == Shape /\ [Next]_vars => Shape'
<1> SUFFICES ASSUME Shape, [Next]_vars PROVE Shape'
  OBVIOUS
<1>1. CASE UNCHANGED vars
  <2>1. UNCHANGED <<program, fade, frozen, asked, wire, link, read>>
        /\ UNCHANGED <<switching, sent, transition, current, watch, unrepairable>>
        /\ UNCHANGED <<switches, hands, faults, wanted>>
    BY <1>1 DEF vars, obsVars, wires, linkVars, roomVars, counts
  <2> QED BY <2>1 DEF Shape, Types, Waiting, Watching, Connected
<1>2. CASE ObsSwitches \/ ObsEnds \/ ObsLooks
  BY <1>2, StepObsSwitches, StepObsEnds, StepObsLooks
<1>3. CASE Hear \/ GiveUp
  BY <1>3, StepHear, StepGiveUp
<1>4. CASE WatchTick \/ Confirm \/ Rest
  BY <1>4, StepWatchTick, StepConfirm, StepRest
<1>5. CASE LinkLost \/ Reconnect \/ ObsAnswersStatus
  BY <1>5, StepLinkLost, StepReconnect, StepObsAnswersStatus
<1>6. ASSUME NEW s \in Scenes, HandSwitches(s) \/ SetRole(s) PROVE Shape'
  BY <1>6, StepHandSwitches, StepSetRole
<1> QED BY <1>1, <1>2, <1>3, <1>4, <1>5, <1>6 DEF Next

\* What the room believes of the switch with OBS, and what became of its mark.
Marks == {"kept", "lost", "blind"}
MarkInv == mark \in Marks /\ (sent /\ ~transition => mark = "lost")

LEMMA MarkProceeds ==
    ASSUME NEW q, NEW isSent \in BOOLEAN, NEW running \in BOOLEAN, NEW requests,
           NEW m \in Marks, Proceed(q, isSent, running, requests, m), isSent /\ ~running => m = "lost"
    PROVE  MarkInv'
BY DEF Proceed, MarkInv, Marks

LEMMA MarkInvStep == Shape /\ MarkInv /\ [Next]_vars => MarkInv'
<1> SUFFICES ASSUME Shape, MarkInv, [Next]_vars PROVE MarkInv'
  OBVIOUS
<1>1. mark \in Marks /\ sent \in BOOLEAN /\ transition \in BOOLEAN
  BY DEF Shape, Types, MarkInv
<1>2. ASSUME UNCHANGED <<mark, sent, transition>> PROVE MarkInv'
  BY <1>2 DEF MarkInv
<1>3. ASSUME TransitionEnded PROVE MarkInv'
  <2> DEFINE m == IF sent THEN "lost" ELSE "kept"
  <2>1. m \in Marks /\ (sent => m = "lost")
    BY DEF Marks
  <2>2. Proceed(switching, sent, FALSE, asked, m)
    BY <1>3 DEF TransitionEnded
  <2> HIDE DEF m
  <2> QED BY <1>1, <2>1, <2>2, MarkProceeds
<1>4. ASSUME NEW q, Proceed(q, sent, transition, asked, mark) PROVE MarkInv'
  BY <1>1, <1>4, MarkProceeds DEF MarkInv
<1>5. CASE ObsSwitches \/ ObsEnds \/ ObsLooks \/ ObsAnswersStatus \/ (\E s \in Scenes : HandSwitches(s))
           \/ UNCHANGED vars
  BY <1>2, <1>5 DEF ObsSwitches, ObsEnds, ObsLooks, ObsAnswersStatus, HandSwitches, vars, roomVars
<1>6. CASE WatchTick \/ Confirm \/ Rest \/ Reconnect
  BY <1>2, <1>6 DEF WatchTick, Confirm, Rest, Reconnect
<1>7. CASE GiveUp
  BY <1>3, <1>7 DEF GiveUp
<1>8. CASE LinkLost
  BY <1>8 DEF LinkLost, Lose, MarkInv, Marks
<1>9. CASE \E s \in Scenes : SetRole(s)
  BY <1>4, <1>9 DEF SetRole
<1>10. CASE Hear
  <2>1. CASE HearStarted
    BY <1>1, <2>1 DEF HearStarted, MarkInv, Marks
  <2>2. CASE HearEnded \/ HearChanged
    BY <1>3, <2>2 DEF HearEnded, HearChanged
  <2>3. CASE HearAnswer
    <3>1. Head(wire).ok \in BOOLEAN
      BY <1>10, <2>3, HeadHeard, MessageIs DEF Hear, HearAnswer
    <3>2. Proceed(Tail(switching), FALSE, transition /\ Head(wire).ok, asked, mark)
      BY <2>3 DEF HearAnswer
    <3>3. (transition /\ Head(wire).ok) \in BOOLEAN
      BY <1>1, <3>1
    <3> QED BY <1>1, <3>2, <3>3, MarkProceeds
  <2>4. CASE HearSources
    BY <1>2, <1>4, <2>4 DEF HearSources
  <2>5. CASE Adopt
    BY <1>2, <2>5 DEF Adopt
  <2> QED BY <1>10, <2>1, <2>2, <2>3, <2>4, <2>5 DEF Hear
<1> QED BY <1>5, <1>6, <1>7, <1>8, <1>9, <1>10 DEF Next

\* In every reachable state the state of the switches, of the watchdog and of OBS is
\* one of those the types allow.
THEOREM SceneTypes == Spec => []TypeOK
<1>1. Init => Shape /\ MarkInv
  BY ShapeInit DEF Init, MarkInv, Marks
<1>2. Shape /\ MarkInv => TypeOK
  <2> SUFFICES ASSUME Shape, MarkInv PROVE TypeOK
    OBVIOUS
  <2>1. {sent, transition} \subseteq BOOLEAN /\ mark \in {"kept", "lost", "blind"}
    BY DEF Shape, Types, MarkInv, Marks
  <2> QED BY <2>1 DEF Shape, Types, Waiting, TypeOK, Request, Switch, SomeScene
<1> QED BY <1>1, <1>2, ShapeStep, MarkInvStep, PTL DEF Spec
-----------------------------------------------------------------------------
(***************************************************************************)
(* No switch of the room falls into a transition of another, unless it was *)
(* sent blindly.  While OBS makes a transition of ours, either the answer  *)
(* to the switch that began it is still to be heard, and the room waits    *)
(* for it; or it is heard, and the room believes that a transition runs or *)
(* has lost its mark; or the next one went out since, blindly.             *)
(***************************************************************************)

Releasing == {"ended", "changed", "answer"}
Silent(w) == \A i \in 1..Len(w) : w[i].type \notin Releasing

\* On the wire w, the answer to the switch is at place k, 0 once it is heard; nothing
\* after it says that a transition is over.
Held(w, k) ==
    /\ k \in 0..Len(w)
    /\ \A i \in 1..Len(w) : i > k => w[i].type \notin Releasing
    /\ k > 0 => w[k].type = "answer"

\* What OBS refused while a transition of ours runs was sent blindly, and nothing said
\* before that ends what the room holds.
Refused(w, k, m) ==
    k > 0 /\ ~w[k].ok => m = "blind" /\ \A i \in 1..Len(w) : i < k => w[i].type \notin Releasing

\* A transition of the room's that no other switch can reach: its answer is heard, and
\* it is believed to run, or its mark is lost; or it is awaited.
Waited ==
    /\ Nowhere(asked, "switch")
    /\ \E k \in Nat :
          /\ Held(wire, k)
          /\ k > 0 => sent
          /\ k = 0 => transition \/ mark # "kept"
          /\ Refused(wire, k, mark)

Blind == sent /\ mark = "blind" /\ Silent(wire)

OursIsHeld == Connected /\ fade.ours => Waited \/ Blind

SwitchInv == Shape /\ MarkInv /\ OursIsHeld

\* Something else is said after it.
LEMMA HeldOn ==
    ASSUME NEW w \in Seq(Message), NEW m \in Message, m.type \notin Releasing, NEW k \in Nat, Held(w, k),
           NEW mk, Refused(w, k, mk)
    PROVE  Held(Append(w, m), k) /\ Refused(Append(w, m), k, mk)
<1>1. /\ Len(w) \in Nat /\ Len(Append(w, m)) = Len(w) + 1
      /\ \A i \in 1..Len(w) : Append(w, m)[i] = w[i]
      /\ Append(w, m)[Len(w) + 1] = m
  BY AppendProperties, LenProperties
<1>2. k \in 0..Len(Append(w, m)) /\ k \in 0..Len(w)
  BY <1>1 DEF Held
<1>3. \A i \in 1..Len(Append(w, m)) : i > k => Append(w, m)[i].type \notin Releasing
  <2> SUFFICES ASSUME NEW i \in 1..Len(Append(w, m)), i > k PROVE Append(w, m)[i].type \notin Releasing
    OBVIOUS
  <2>1. i \in 1..Len(w) \/ i = Len(w) + 1
    BY <1>1
  <2> QED BY <1>1, <2>1 DEF Held
<1>4. k > 0 => Append(w, m)[k] = w[k]
  BY <1>1, <1>2
<1>5. \A i \in 1..Len(Append(w, m)) : i < k => i \in 1..Len(w) /\ Append(w, m)[i] = w[i]
  BY <1>1, <1>2
<1>6. Refused(Append(w, m), k, mk)
  BY <1>4, <1>5 DEF Refused
<1> QED BY <1>2, <1>3, <1>4, <1>6 DEF Held

\* The room hears what comes first.
LEMMA HeldOut ==
    ASSUME NEW w \in Seq(Message), w # <<>>, NEW k \in Nat, Held(w, k), Once(w, "answer"),
           NEW mk, Refused(w, k, mk)
    PROVE  /\ k = 0 => Head(w).type \notin Releasing /\ Held(Tail(w), 0)
           /\ k > 0 => Held(Tail(w), k - 1)
           /\ k = 1 => Head(w).type = "answer" /\ (~Head(w).ok => mk = "blind")
           /\ k > 1 => Head(w).type # "answer" /\ Refused(Tail(w), k - 1, mk)
           /\ k > 1 /\ Head(w).type \in Releasing => \A any : Refused(Tail(w), k - 1, any)
           /\ k > 1 /\ mk # "blind" => \A any : Refused(Tail(w), k - 1, any)
<1>1. /\ Len(w) \in Nat /\ Len(Tail(w)) = Len(w) - 1 /\ Len(w) >= 1 /\ Tail(w) \in Seq(Message)
      /\ \A i \in 1..Len(Tail(w)) : Tail(w)[i] = w[i + 1] /\ i + 1 \in 1..Len(w)
      /\ Head(w) = w[1] /\ k \in 0..Len(w)
  BY HeadTailProperties, LenProperties, EmptySeq DEF Held
<1>2. \A i \in 1..Len(Tail(w)) : i > k - 1 => Tail(w)[i].type \notin Releasing
  <2> SUFFICES ASSUME NEW i \in 1..Len(Tail(w)), i > k - 1 PROVE Tail(w)[i].type \notin Releasing
    OBVIOUS
  <2>1. i + 1 > k /\ i + 1 \in 1..Len(w)
    BY <1>1
  <2> QED BY <1>1, <2>1 DEF Held
<1>3. k = 0 => Head(w).type \notin Releasing
  BY <1>1 DEF Held
<1>4. k = 0 => Held(Tail(w), 0)
  BY <1>1, <1>2 DEF Held
<1>5. k > 0 => w[k].type = "answer"
  BY DEF Held
<1>6. ASSUME k = 1 PROVE Head(w).type = "answer" /\ (~Head(w).ok => mk = "blind")
  <2>1. w[1].type = "answer" /\ (~w[1].ok => mk = "blind")
    BY <1>5, <1>6 DEF Refused
  <2> QED BY <1>1, <2>1
<1>7. ASSUME k > 1 PROVE Head(w).type # "answer"
  <2>1. k > 0 /\ k \in 1..Len(w) /\ 1 \in 1..Len(w) /\ k # 1
    BY <1>1, <1>7
  <2> QED BY <1>1, <1>5, <2>1 DEF Once
<1>8. ASSUME k > 1 PROVE k - 1 \in 1..Len(Tail(w)) /\ Tail(w)[k - 1] = w[k]
  <2>1. k - 1 \in 1..Len(Tail(w)) /\ (k - 1) + 1 = k
    BY <1>1, <1>8
  <2> QED BY <1>1, <2>1
<1>9. ASSUME k > 0 PROVE Held(Tail(w), k - 1)
  <2>1. k - 1 \in 0..Len(Tail(w))
    BY <1>1, <1>9
  <2>2. k - 1 > 0 => Tail(w)[k - 1].type = "answer"
    BY <1>5, <1>8, <1>9
  <2> QED BY <1>2, <2>1, <2>2 DEF Held
<1>10. ASSUME k > 1, NEW any, ~w[k].ok => any = "blind" PROVE Refused(Tail(w), k - 1, any)
  <2>1. ASSUME ~w[k].ok, NEW i \in 1..Len(Tail(w)), i < k - 1 PROVE Tail(w)[i].type \notin Releasing
    <3>1. i + 1 < k /\ i + 1 \in 1..Len(w) /\ Tail(w)[i] = w[i + 1] /\ k > 0
      BY <1>1, <1>10, <2>1
    <3> QED BY <2>1, <3>1 DEF Refused
  <2> QED BY <1>8, <1>10, <2>1 DEF Refused
<1>11. ASSUME k > 1, Head(w).type \in Releasing \/ mk # "blind" PROVE w[k].ok
  <2>1. k > 0 /\ 1 \in 1..Len(w) /\ 1 < k
    BY <1>1, <1>11
  <2> QED BY <1>1, <1>11, <2>1 DEF Refused
<1>12. k > 1 => (~w[k].ok => mk = "blind")
  BY DEF Refused
<1> QED BY <1>3, <1>4, <1>6, <1>7, <1>9, <1>10, <1>11, <1>12

\* A switch with OBS, or a transition, keeps the others where they are; without
\* either one goes out, blindly if the mark is lost.
LEMMA OneGoes ==
    ASSUME NEW q, NEW isSent \in BOOLEAN, NEW running \in BOOLEAN, NEW requests, NEW m,
           Proceed(q, isSent, running, requests, m)
    PROVE  \/ asked' = requests /\ sent' = isSent /\ transition' = running /\ mark' = m
           \/ ~isSent /\ ~running /\ sent' = TRUE /\ (m # "kept" => mark' = "blind")
BY DEF Proceed

\* What is queued behind a transition of ours waits for it, or goes out blindly.
LEMMA QueuedIsHeld ==
    ASSUME Shape, NEW q, Proceed(q, sent, transition, asked, mark), NEW k \in Nat, Held(wire', k),
           Nowhere(asked, "switch"), k > 0 => sent, k = 0 => transition \/ mark # "kept",
           Refused(wire', k, mark)
    PROVE  Waited' \/ Blind'
<1>1. sent \in BOOLEAN /\ transition \in BOOLEAN
  BY Rooms
<1>2. CASE asked' = asked /\ sent' = sent /\ transition' = transition /\ mark' = mark
  BY <1>2 DEF Waited
<1>3. CASE ~sent /\ ~transition /\ sent' = TRUE /\ (mark # "kept" => mark' = "blind")
  <2>1. k = 0 /\ mark' = "blind"
    BY <1>3
  <2>2. Silent(wire)'
    BY <2>1 DEF Held, Silent
  <2> QED BY <1>3, <2>1, <2>2 DEF Blind
<1> QED BY <1>1, <1>2, <1>3, OneGoes

\* Where ours is held, no switch goes out but blindly, whatever the room hears next.
LEMMA HearKeepsWaited ==
    ASSUME Shape, MarkInv, Hear, Waited
    PROVE  Waited' \/ Blind'
<1>1. /\ wire # <<>> /\ wire' = Tail(wire)
      /\ HearStarted \/ HearEnded \/ HearChanged \/ HearAnswer \/ HearSources \/ Adopt
  BY DEF Hear
<1>2. /\ wire \in Seq(Message) /\ Once(wire, "answer") /\ Head(wire) \in Message
      /\ sent \in BOOLEAN /\ transition \in BOOLEAN
  BY <1>1, HeadHeard, Starts, Rooms DEF OneOut
<1>3. Nowhere(asked, "switch")
  BY DEF Waited
<1>4. PICK k \in Nat : /\ Held(wire, k) /\ Refused(wire, k, mark)
                       /\ (k > 0 => sent) /\ (k = 0 => transition \/ mark # "kept")
  BY DEF Waited
<1>5. /\ k = 0 => Head(wire).type \notin Releasing /\ Held(wire', 0)
      /\ k > 0 => Held(wire', k - 1)
      /\ k = 1 => Head(wire).type = "answer" /\ (~Head(wire).ok => mark = "blind")
      /\ k > 1 => Head(wire).type # "answer" /\ Refused(wire', k - 1, mark)
      /\ k > 1 /\ Head(wire).type \in Releasing => \A any : Refused(wire', k - 1, any)
      /\ k > 1 /\ mark # "blind" => \A any : Refused(wire', k - 1, any)
  BY <1>1, <1>2, <1>4, HeldOut
<1>6. \A any : Refused(wire', 0, any)
  BY DEF Refused
<1>7. ASSUME NEW j \in Nat, Held(wire', j), asked' = asked, j > 0 => sent',
             j = 0 => transition' \/ mark' # "kept", Refused(wire', j, mark')
      PROVE  Waited'
  BY <1>3, <1>7 DEF Waited
<1>8. ASSUME NEW j \in Nat, Held(wire', j), HearSources, j > 0 => sent,
             j = 0 => transition \/ mark # "kept", Refused(wire', j, mark)
      PROVE  Waited' \/ Blind'
  <2>1. CASE UNCHANGED <<asked, sent, transition, mark>>
    BY <1>7, <1>8, <2>1
  <2>2. CASE Proceed(Append(switching, [scene |-> watch.scene, by |-> "watchdog"]), sent, transition, asked, mark)
    BY <1>3, <1>8, <2>2, QueuedIsHeld
  <2> QED BY <1>8, <2>1, <2>2 DEF HearSources
<1>9. CASE k = 0
  <2>1. (transition \/ mark # "kept") /\ Head(wire).type \notin Releasing /\ Held(wire', 0)
    BY <1>4, <1>5, <1>9
  <2>2. HearStarted \/ HearSources \/ Adopt
    BY <1>1, <2>1 DEF Releasing, HearEnded, HearChanged, HearAnswer
  <2>3. CASE HearStarted
    BY <1>6, <1>7, <2>1, <2>3 DEF HearStarted
  <2>4. CASE Adopt
    BY <1>6, <1>7, <2>1, <2>4 DEF Adopt
  <2> QED BY <1>6, <1>8, <2>1, <2>2, <2>3, <2>4
<1>10. CASE k = 1
  <2>1. sent /\ Head(wire).type = "answer" /\ (~Head(wire).ok => mark = "blind") /\ Held(wire', 0)
    BY <1>4, <1>5, <1>10
  <2>2. HearAnswer
    BY <1>1, <2>1 DEF HearStarted, HearEnded, HearChanged, HearSources, Adopt
  <2> DEFINE running == transition /\ Head(wire).ok
  <2>3. running \in BOOLEAN /\ (~running => mark # "kept")
    <3>1. Head(wire).ok \in BOOLEAN
      BY <1>2, <2>1, MessageIs
    <3>2. ~transition => mark = "lost"
      BY <2>1 DEF MarkInv
    <3> QED BY <1>2, <2>1, <3>1, <3>2
  <2>4. Proceed(Tail(switching), FALSE, running, asked, mark)
    BY <2>2 DEF HearAnswer
  <2> HIDE DEF running
  <2>5. \/ asked' = asked /\ sent' = FALSE /\ transition' = running /\ mark' = mark
        \/ ~running /\ sent' = TRUE /\ (mark # "kept" => mark' = "blind")
    BY <2>3, <2>4, OneGoes
  <2>6. CASE asked' = asked /\ sent' = FALSE /\ transition' = running /\ mark' = mark
    BY <1>6, <1>7, <2>1, <2>3, <2>6
  <2>7. CASE ~running /\ sent' = TRUE /\ (mark # "kept" => mark' = "blind")
    <3>1. Silent(wire)'
      BY <2>1 DEF Held, Silent
    <3> QED BY <2>3, <2>7, <3>1 DEF Blind
  <2> QED BY <2>5, <2>6, <2>7
<1>11. CASE k > 1
  <2>1. /\ sent = TRUE /\ Head(wire).type # "answer" /\ Held(wire', k - 1) /\ Refused(wire', k - 1, mark)
        /\ k - 1 \in Nat /\ k - 1 # 0
    BY <1>2, <1>4, <1>5, <1>11
  <2>2. HearStarted \/ HearEnded \/ HearChanged \/ HearSources \/ Adopt
    BY <1>1, <2>1 DEF HearAnswer
  <2>3. CASE HearEnded \/ HearChanged
    <3>1. Head(wire).type \in Releasing
      BY <2>3 DEF HearEnded, HearChanged, Releasing
    <3>2. \E m : Proceed(switching, sent, FALSE, asked, m)
      BY <2>3 DEF HearEnded, HearChanged, TransitionEnded
    <3>3. asked' = asked /\ sent' = TRUE
      BY <2>1, <3>2, OneGoes
    <3>4. Refused(wire', k - 1, mark')
      BY <1>5, <1>11, <3>1
    <3> QED BY <1>7, <2>1, <3>3, <3>4
  <2>4. CASE HearStarted
    <3>1. asked' = asked /\ sent' = sent /\ (mark = "blind" => mark' = mark)
      BY <2>4 DEF HearStarted
    <3>2. Refused(wire', k - 1, mark')
      BY <1>5, <1>11, <2>1, <3>1
    <3> QED BY <1>7, <2>1, <3>1, <3>2
  <2>5. CASE Adopt
    BY <1>7, <2>1, <2>5 DEF Adopt
  <2> QED BY <1>8, <2>1, <2>2, <2>3, <2>4, <2>5
<1> QED BY <1>9, <1>10, <1>11

LEMMA HearKeepsBlind ==
    ASSUME Shape, Hear, Blind
    PROVE  Blind'
<1>1. /\ wire # <<>> /\ wire' = Tail(wire)
      /\ HearStarted \/ HearEnded \/ HearChanged \/ HearAnswer \/ HearSources \/ Adopt
  BY DEF Hear
<1>2. /\ Len(wire) \in Nat /\ Len(Tail(wire)) = Len(wire) - 1 /\ Len(wire) >= 1
      /\ \A i \in 1..Len(Tail(wire)) : Tail(wire)[i] = wire[i + 1] /\ i + 1 \in 1..Len(wire)
      /\ Head(wire) = wire[1] /\ 1 \in 1..Len(wire)
  BY <1>1, Starts, HeadTailProperties, LenProperties, EmptySeq
<1>3. Head(wire).type \notin Releasing /\ Silent(wire)'
  BY <1>1, <1>2 DEF Blind, Silent
<1>4. HearStarted \/ HearSources \/ Adopt
  BY <1>1, <1>3 DEF Releasing, HearEnded, HearChanged, HearAnswer
<1>5. sent' = sent /\ mark' = mark
  <2>1. CASE HearStarted
    BY <2>1 DEF HearStarted, Blind
  <2>2. CASE HearSources
    <3>1. CASE Proceed(Append(switching, [scene |-> watch.scene, by |-> "watchdog"]), sent, transition, asked, mark)
      BY <3>1, Rooms, OneGoes DEF Blind
    <3> QED BY <2>2, <3>1 DEF HearSources
  <2>3. CASE Adopt
    BY <2>3 DEF Adopt
  <2> QED BY <1>4, <2>1, <2>2, <2>3
<1> QED BY <1>3, <1>5 DEF Blind

\* The room's own steps send none but blindly, and end no transition.
LEMMA RoomKeepsOurs ==
    ASSUME Shape, Waited \/ Blind, WatchTick \/ Confirm \/ Rest \/ \E s \in Scenes : SetRole(s)
    PROVE  Waited' \/ Blind'
<1>1. asked \in Seq(Request) /\ sent \in BOOLEAN /\ transition \in BOOLEAN
  BY Starts, Rooms
<1>2. wire' = wire
  BY DEF WatchTick, Confirm, Rest, SetRole
<1>3. ASSUME UNCHANGED <<sent, transition, mark>>, Nowhere(asked, "switch") => Nowhere(asked', "switch")
      PROVE  Waited' \/ Blind'
  BY <1>2, <1>3 DEF Waited, Blind
<1>4. ASSUME NEW s \in Scenes, Look(s) PROVE Nowhere(asked, "switch") => Nowhere(asked', "switch")
  <2> DEFINE r == [type |-> "look", scene |-> s]
  <2>1. r \in Request /\ r.type # "switch" /\ asked' = Append(asked, r)
    BY <1>4 DEF Request, Look
  <2> HIDE DEF r
  <2> QED BY <1>1, <2>1, OneMore
<1>5. CASE \E s \in Scenes : SetRole(s)
  <2>1. PICK s \in Scenes : SetRole(s)
    BY <1>5
  <2> DEFINE q == Append(switching, [scene |-> s, by |-> "control"])
  <2>2. Proceed(q, sent, transition, asked, mark)
    BY <2>1 DEF SetRole
  <2> HIDE DEF q
  <2>3. CASE Blind
    <3>1. sent' = sent /\ mark' = mark
      BY <1>1, <2>2, <2>3, OneGoes DEF Blind
    <3> QED BY <1>2, <2>3, <3>1 DEF Blind
  <2>4. CASE Waited
    <3>1. Nowhere(asked, "switch")
      BY <2>4 DEF Waited
    <3>2. PICK k \in Nat : /\ Held(wire', k) /\ Refused(wire', k, mark)
                           /\ (k > 0 => sent) /\ (k = 0 => transition \/ mark # "kept")
      BY <1>2, <2>4 DEF Waited
    <3> QED BY <2>2, <3>1, <3>2, QueuedIsHeld
  <2> QED BY <2>3, <2>4
<1>6. CASE WatchTick
  <2>1. current \in Scenes /\ Look(current) /\ UNCHANGED <<sent, transition, mark>>
    BY <1>6, Rooms DEF WatchTick, SomeScene
  <2> QED BY <1>3, <1>4, <2>1
<1>7. CASE Confirm \/ Rest
  <2>1. watch.scene \in Scenes /\ UNCHANGED <<sent, transition, mark>>
    BY <1>7, Rooms DEF Confirm, Rest
  <2>2. UNCHANGED asked \/ Look(watch.scene)
    BY <1>7 DEF Confirm, Rest
  <2> QED BY <1>3, <1>4, <2>1, <2>2
<1> QED BY <1>5, <1>6, <1>7

\* Something OBS says of a source, or of its own state, does not release it either.
LEMMA ObsKeepsOurs ==
    ASSUME Shape, Waited \/ Blind, ObsLooks \/ ObsAnswersStatus, Connected
    PROVE  Waited' \/ Blind'
<1>1. asked \in Seq(Request) /\ wire \in Seq(Message)
  BY Starts
<1>2. sent' = sent /\ transition' = transition /\ mark' = mark
  BY DEF ObsLooks, ObsAnswersStatus, roomVars
<1>3. Nowhere(asked, "switch") => Nowhere(asked', "switch")
  BY <1>1, Fewer DEF ObsLooks, ObsAnswersStatus
<1>4. PICK m \in Message : m.type \notin Releasing /\ wire' = Append(wire, m)
  <2>1. CASE ObsLooks
    <3>1. PICK off \in BOOLEAN : Say(<<Sources(off)>>)
      BY <2>1 DEF ObsLooks
    <3>2. Sources(off) \in Message /\ Sources(off).type = "sources"
      BY <3>1, Messages
    <3>3. wire' = Append(wire, Sources(off))
      BY <3>1, <3>2, Starts, SayOne
    <3> QED BY <3>2, <3>3 DEF Releasing
  <2>2. CASE ObsAnswersStatus
    BY <2>2, Messages DEF ObsAnswersStatus, Releasing
  <2> QED BY <2>1, <2>2
<1>5. CASE Waited
  <2>1. PICK k \in Nat : /\ Held(wire, k) /\ Refused(wire, k, mark)
                         /\ (k > 0 => sent) /\ (k = 0 => transition \/ mark # "kept")
    BY <1>5 DEF Waited
  <2>2. Held(wire', k) /\ Refused(wire', k, mark)
    BY <1>1, <1>4, <2>1, HeldOn
  <2>3. Nowhere(asked', "switch")
    BY <1>3, <1>5 DEF Waited
  <2> QED BY <1>2, <2>1, <2>2, <2>3 DEF Waited
<1>6. CASE Blind
  <2>1. Silent(wire)'
    <3>1. Len(wire) \in Nat /\ Len(wire') = Len(wire) + 1 /\ wire'[Len(wire) + 1] = m
          /\ \A i \in 1..Len(wire) : wire'[i] = wire[i]
      BY <1>1, <1>4, AppendProperties, LenProperties
    <3>2. \A i \in 1..Len(wire') : i \in 1..Len(wire) \/ i = Len(wire) + 1
      BY <3>1
    <3> QED BY <1>4, <1>6, <3>1, <3>2 DEF Blind, Silent
  <2> QED BY <1>2, <1>6, <2>1 DEF Blind
<1> QED BY <1>5, <1>6

\* OBS leaves for the scene the room asked for, and says so before it answers or after.
LEMMA OursBegins ==
    ASSUME Shape, asked # <<>>, Head(asked).type = "switch", asked' = Tail(asked),
           UNCHANGED <<linkVars, roomVars>>,
           Say(<<Started, Answer(TRUE)>>) \/ Say(<<Answer(TRUE), Started>>)
    PROVE  Waited'
<1>1. /\ Connected /\ sent /\ Nowhere(asked', "switch") /\ wire \in Seq(Message)
  BY HeadAsked, Starts DEF Neither
<1>2. /\ Started \in Message /\ Answer(TRUE) \in Message /\ Started.type \notin Releasing
      /\ Answer(TRUE).type = "answer" /\ Answer(TRUE).ok = TRUE
  BY Messages DEF Releasing
<1>3. PICK m \in Message, n \in Message : /\ wire' = Append(Append(wire, m), n) /\ Append(wire, m) \in Seq(Message)
                       /\ \/ m = Started /\ n = Answer(TRUE)
                          \/ m = Answer(TRUE) /\ n = Started
  <2>1. CASE Say(<<Started, Answer(TRUE)>>)
    BY <1>1, <1>2, <2>1, Starts, SayTwo
  <2>2. CASE Say(<<Answer(TRUE), Started>>)
    BY <1>1, <1>2, <2>2, Starts, SayTwo
  <2> QED BY <2>1, <2>2
<1>4. PICK u \in Seq(Message) : u = Append(wire, m)
  BY <1>3
<1>5. /\ Len(wire) \in Nat /\ Len(u) = Len(wire) + 1 /\ u[Len(wire) + 1] = m
  BY <1>1, <1>4, AppendProperties, LenProperties
<1>6. /\ Len(wire') = Len(wire) + 2 /\ wire'[Len(wire) + 2] = n /\ wire'[Len(wire) + 1] = m
  <2>1. Len(wire') = Len(u) + 1 /\ wire'[Len(u) + 1] = n /\ \A i \in 1..Len(u) : wire'[i] = u[i]
    BY <1>3, <1>4, AppendProperties
  <2>2. Len(wire) + 1 \in 1..Len(u) /\ Len(u) + 1 = Len(wire) + 2
    BY <1>5
  <2> QED BY <1>5, <2>1, <2>2
<1>7. sent'
  BY <1>1 DEF roomVars
<1>8. ASSUME NEW k \in Nat, k = Len(wire) + 1 \/ k = Len(wire) + 2, wire'[k] = Answer(TRUE),
             \A i \in 1..Len(wire') : i > k => wire'[i] = Started
      PROVE  Waited'
  <2>1. k > 0 /\ k # 0 /\ k \in 0..Len(wire')
    BY <1>5, <1>6, <1>8
  <2>2. wire'[k].type = "answer" /\ wire'[k].ok = TRUE
    BY <1>2, <1>8, Zenon
  <2>3. Held(wire', k)
    BY <1>2, <1>8, <2>1, <2>2 DEF Held
  <2>4. Refused(wire', k, mark')
    BY <2>2 DEF Refused
  <2> QED BY <1>1, <1>7, <2>1, <2>3, <2>4 DEF Waited
<1>9. CASE m = Started /\ n = Answer(TRUE)
  <2> DEFINE k == Len(wire) + 2
  <2>1. k \in Nat /\ k = Len(wire) + 2 /\ \A i \in 1..Len(wire') : ~(i > k)
    BY <1>5, <1>6
  <2>2. wire'[k] = Answer(TRUE)
    BY <1>6, <1>9
  <2> HIDE DEF k
  <2> QED BY <1>8, <2>1, <2>2
<1>10. CASE m = Answer(TRUE) /\ n = Started
  <2> DEFINE k == Len(wire) + 1
  <2>1. k \in Nat /\ k = Len(wire) + 1 /\ \A i \in 1..Len(wire') : i > k => i = Len(wire) + 2
    BY <1>5, <1>6
  <2>2. wire'[k] = Answer(TRUE) /\ wire'[Len(wire) + 2] = Started
    BY <1>6, <1>10
  <2> HIDE DEF k
  <2> QED BY <1>8, <2>1, <2>2
<1> QED BY <1>3, <1>9, <1>10

\* OBS refuses one that was sent blindly.
LEMMA OursGoesOn ==
    ASSUME Shape, asked # <<>>, Head(asked).type = "switch", asked' = Tail(asked),
           UNCHANGED <<linkVars, roomVars>>, Say(<<Answer(FALSE)>>), Blind
    PROVE  Waited'
<1>1. /\ Connected /\ Nowhere(asked', "switch") /\ wire \in Seq(Message)
  BY HeadAsked, Starts DEF Neither
<1>2. Answer(FALSE) \in Message /\ Answer(FALSE).type = "answer" /\ wire' = Append(wire, Answer(FALSE))
  BY <1>1, Messages, Starts, SayOne
<1>3. /\ Len(wire) \in Nat /\ Len(wire') = Len(wire) + 1 /\ wire'[Len(wire) + 1] = Answer(FALSE)
      /\ \A i \in 1..Len(wire) : wire'[i] = wire[i]
  <2>1. PICK m \in Message : m = Answer(FALSE)
    BY <1>2
  <2>2. wire' = Append(wire, m)
    BY <1>2, <2>1
  <2>3. /\ Len(wire) \in Nat /\ Len(wire') = Len(wire) + 1 /\ wire'[Len(wire) + 1] = m
        /\ \A i \in 1..Len(wire) : wire'[i] = wire[i]
    BY <1>1, <2>2, AppendProperties, LenProperties
  <2> QED BY <2>1, <2>3, Zenon
<1>4. sent' /\ mark' = "blind"
  BY DEF Blind, roomVars
<1> DEFINE k == Len(wire) + 1
<1>5. k \in Nat /\ k > 0 /\ k # 0 /\ k \in 0..Len(wire')
  BY <1>3
<1>6. \A i \in 1..Len(wire') : ~(i > k) /\ (i < k => i \in 1..Len(wire))
  BY <1>3
<1>7. wire'[k].type = "answer"
  BY <1>2, <1>3, Zenon
<1>8. \A i \in 1..Len(wire') : i < k => wire'[i].type \notin Releasing
  BY <1>3, <1>6 DEF Blind, Silent
<1> HIDE DEF k
<1>9. Held(wire', k) /\ Refused(wire', k, mark')
  BY <1>4, <1>5, <1>6, <1>7, <1>8 DEF Held, Refused
<1> QED BY <1>1, <1>4, <1>5, <1>9 DEF Waited

LEMMA OursIsHeldStep ==
    ASSUME Shape, MarkInv, OursIsHeld, [Next]_vars
    PROVE  OursIsHeld'
<1>1. SUFFICES ASSUME link' # "down", fade'.ours PROVE Waited' \/ Blind'
  BY DEF OursIsHeld, Connected
<1>2. fade = NoFade => ~fade.ours
  BY FadeIs
<1>3. CASE UNCHANGED vars
  <2>1. UNCHANGED <<fade, asked, wire, link, sent, transition, mark>>
    BY <1>3 DEF vars, obsVars, wires, linkVars, roomVars
  <2>2. Waited \/ Blind
    BY <1>1, <2>1 DEF OursIsHeld, Connected
  <2> QED BY <2>1, <2>2 DEF Waited, Blind
<1>4. CASE ObsSwitches
  <2>1. /\ asked # <<>> /\ Head(asked).type = "switch" /\ asked' = Tail(asked)
        /\ UNCHANGED <<linkVars, roomVars>>
    BY <1>4 DEF ObsSwitches
  <2>2. fade.ours => Blind
    <3>1. Connected /\ asked[1] = Head(asked) /\ 1 \in 1..Len(asked)
      BY <2>1, HeadAsked, Starts, LenProperties, EmptySeq
    <3> QED BY <2>1, <3>1 DEF OursIsHeld, Waited, Nowhere
  <2>3. CASE Say(<<Started, Answer(TRUE)>>) \/ Say(<<Answer(TRUE), Started>>)
    BY <2>1, <2>3, OursBegins
  <2>4. CASE Cut(Head(asked).scene)
    BY <1>1, <1>2, <2>4 DEF Cut
  <2>5. CASE Say(<<Answer(FALSE)>>) /\ UNCHANGED obsVars
    <3>1. Blind
      BY <1>1, <2>2, <2>5 DEF obsVars
    <3> QED BY <2>1, <2>5, <3>1, OursGoesOn
  <2> QED BY <1>4, <2>3, <2>4, <2>5 DEF ObsSwitches
<1>5. CASE ObsEnds
  BY <1>1, <1>5, FadeIs DEF ObsEnds
<1>6. CASE ObsLooks \/ ObsAnswersStatus
  <2>1. fade' = fade /\ link' = link
    BY <1>6 DEF ObsLooks, ObsAnswersStatus, obsVars, linkVars
  <2>2. Connected /\ (Waited \/ Blind)
    BY <1>1, <2>1 DEF OursIsHeld, Connected
  <2> QED BY <1>6, <2>2, ObsKeepsOurs
<1>7. CASE Hear
  <2>1. fade' = fade /\ Connected
    BY <1>7, HeadHeard DEF Hear, obsVars
  <2> QED BY <1>1, <1>7, <2>1, HearKeepsWaited, HearKeepsBlind DEF OursIsHeld
<1>8. CASE GiveUp
  BY <1>1, <1>2, <1>8 DEF GiveUp, obsVars
<1>9. CASE WatchTick \/ Confirm \/ Rest \/ \E s \in Scenes : SetRole(s)
  <2>1. fade' = fade /\ link' = link
    BY <1>9 DEF WatchTick, Confirm, Rest, SetRole, obsVars, linkVars
  <2>2. Waited \/ Blind
    BY <1>1, <2>1 DEF OursIsHeld, Connected
  <2> QED BY <1>9, <2>2, RoomKeepsOurs
<1>10. CASE LinkLost
  BY <1>1, <1>10 DEF LinkLost, Lose
<1>11. CASE Reconnect
  BY <1>1, <1>2, <1>11 DEF Reconnect, obsVars
<1>12. ASSUME NEW s \in Scenes, HandSwitches(s) PROVE ~fade'.ours
  <2>1. CASE Leave(s, FALSE)
    BY <2>1, Starts, LeaveIs
  <2>2. CASE Cut(s)
    BY <2>2, Starts, CutIs, FadeIs
  <2> QED BY <1>12, <2>1, <2>2 DEF HandSwitches
<1> QED BY <1>1, <1>3, <1>4, <1>5, <1>6, <1>7, <1>8, <1>9, <1>10, <1>11, <1>12 DEF Next

\* switchTo's promise, whether OBS announces a transition before or after it answers
\* the switch that began it: no switch of the room reaches OBS while it makes a
\* transition of the room's, unless the mark of that transition was taken away by the end
\* of another. It holds whatever hands do in OBS and whatever the watchdog repairs
\* meanwhile, however often the link breaks, and whatever OBS refuses or keeps silent.
THEOREM TransitionsAreWaitedFor == Spec => []NeverHurried
<1>1. Init => SwitchInv
  <2> SUFFICES ASSUME Init PROVE SwitchInv
    OBVIOUS
  <2>1. OursIsHeld
    BY FadeIs DEF Init, OursIsHeld
  <2>2. MarkInv
    BY DEF Init, MarkInv, Marks
  <2> QED BY <2>1, <2>2, ShapeInit DEF SwitchInv
<1>2. SwitchInv /\ [Next]_vars => SwitchInv'
  BY ShapeStep, MarkInvStep, OursIsHeldStep DEF SwitchInv
<1>3. SwitchInv => NeverHurried
  <2> SUFFICES ASSUME SwitchInv, fade.ours, NEW i \in DOMAIN asked, asked[i].type = "switch"
               PROVE  mark = "blind"
    BY DEF NeverHurried
  <2>1. asked \in Seq(Request) /\ DOMAIN asked = 1..Len(asked) /\ Connected
    BY Starts, LenProperties, EmptySeq DEF SwitchInv
  <2>2. ~Nowhere(asked, "switch")
    BY <2>1 DEF Nowhere
  <2> QED BY <2>1, <2>2 DEF SwitchInv, OursIsHeld, Waited, Blind
<1> QED BY <1>1, <1>2, <1>3, PTL DEF Spec
-----------------------------------------------------------------------------
(***************************************************************************)
(* The last scene asked for stays.  Until OBS has done every switch of the *)
(* room, the last of them is for the scene wanted; from then on OBS is at  *)
(* it or on its way there, and the room hears it, or waits for a           *)
(* transition.  So the watchdog acts on no other scene.                    *)
(***************************************************************************)

\* The switch with OBS is the first that waits, and it is answered.
OutFor(asks, says, q, isSent) ==
    /\ isSent => ~Nowhere(asks, "switch") \/ ~Nowhere(says, "answer")
    /\ \A i \in 1..Len(asks) : asks[i].type = "switch" => asks[i].scene = Head(q).scene
Outstanding == OutFor(asked, wire, switching, sent)

\* What waits waits for something.
NoneIdles == switching = <<>> \/ sent \/ transition

\* OBS did all that the room asked.
IdleIn(asks, q, isSent) == q = <<>> \/ (isSent /\ Nowhere(asks, "switch") /\ Len(q) = 1)
Idle == IdleIn(asked, switching, sent)

Heading == IF fade = NoFade THEN program ELSE fade.to

\* The message ends the room's wait for a transition.
Releases(m) == m.type \in {"ended", "changed"} \/ m = Answer(FALSE)

\* When all of w is heard, the room waits for a transition.
FadeHeard(w, t) ==
    \E k \in 0..Len(w) :
        /\ k = 0 => t
        /\ k > 0 => w[k] = Started
        /\ \A i \in 1..Len(w) : i > k => ~Releases(w[i])

\* When all of w is heard, the room knows that the scene s is on air.
ProgramHeard(w, c, s) ==
    \E k \in 0..Len(w) :
        /\ k = 0 => c = s
        /\ k > 0 => w[k] = Changed(s)
        /\ \A i \in 1..Len(w) : i > k => w[i].type # "changed"

\* While the inventory is read nothing else happens.
Reads ==
    /\ link = "up" => Nowhere(wire, "inventory")
    /\ link = "reading" =>
        /\ read = program /\ fade = NoFade /\ switching = <<>> /\ asked = <<>>
        /\ watch.phase = "asleep" /\ wire \in {<<>>, <<Inventory>>}

Promised == wanted = NoScene \/ (IF Idle THEN Heading ELSE switching[Len(switching)].scene) = wanted
Minded == Acting /\ wanted # NoScene => watch.scene = wanted
Told ==
    Idle /\ wanted # NoScene /\ link = "up" =>
        FadeHeard(wire, transition) \/ (fade = NoFade /\ ProgramHeard(wire, current, program))

Asking == Outstanding /\ NoneIdles
Kept == Reads /\ Promised /\ Minded /\ Told
AskedInv == Shape /\ Asking /\ (~Overtaking => Kept)

LEMMA NowhereIn ==
    ASSUME NEW S, NEW s \in Seq(S), NEW k
    PROVE  /\ \A e \in S : Nowhere(Append(s, e), k) <=> Nowhere(s, k) /\ e.type # k
           /\ s # <<>> => (Nowhere(s, k) <=> Nowhere(Tail(s), k) /\ Head(s).type # k)
<1>1. ASSUME NEW e \in S PROVE Nowhere(Append(s, e), k) <=> Nowhere(s, k) /\ e.type # k
  <2>1. /\ Len(s) \in Nat /\ Len(Append(s, e)) = Len(s) + 1
        /\ \A i \in 1..Len(s) : Append(s, e)[i] = s[i]
        /\ Append(s, e)[Len(s) + 1] = e
    BY AppendProperties, LenProperties
  <2>2. \A i \in 1..Len(Append(s, e)) : i \in 1..Len(s) \/ i = Len(s) + 1
    BY <2>1
  <2>3. \A i \in 1..Len(s) : i \in 1..Len(Append(s, e))
    BY <2>1
  <2>4. Len(s) + 1 \in 1..Len(Append(s, e))
    BY <2>1
  <2> QED BY <2>1, <2>2, <2>3, <2>4 DEF Nowhere
<1>2. ASSUME s # <<>> PROVE Nowhere(s, k) <=> Nowhere(Tail(s), k) /\ Head(s).type # k
  <2>1. /\ Len(s) \in Nat /\ Len(Tail(s)) = Len(s) - 1 /\ Len(s) >= 1
        /\ \A i \in 1..Len(Tail(s)) : Tail(s)[i] = s[i + 1]
        /\ Head(s) = s[1]
    BY <1>2, HeadTailProperties, LenProperties, EmptySeq
  <2>2. \A i \in 1..Len(Tail(s)) : i + 1 \in 1..Len(s)
    BY <2>1
  <2>3. \A i \in 1..Len(s) : i = 1 \/ (i - 1 \in 1..Len(Tail(s)) /\ (i - 1) + 1 = i)
    BY <2>1
  <2>4. 1 \in 1..Len(s)
    BY <2>1
  <2>5. Nowhere(s, k) => Nowhere(Tail(s), k) /\ Head(s).type # k
    BY <2>1, <2>2, <2>4 DEF Nowhere
  <2>6. ASSUME Nowhere(Tail(s), k), Head(s).type # k, NEW i \in 1..Len(s) PROVE s[i].type # k
    <3>1. CASE i = 1
      BY <2>1, <2>6, <3>1
    <3>2. CASE i # 1
      <4>1. PICK j \in 1..Len(Tail(s)) : s[i] = Tail(s)[j]
        BY <2>1, <2>3, <3>2
      <4> QED BY <2>6, <4>1 DEF Nowhere
    <3> QED BY <3>1, <3>2
  <2> QED BY <2>5, <2>6 DEF Nowhere
<1> QED BY <1>1, <1>2

\* One message more.
LEMMA HeardMore ==
    ASSUME NEW w \in Seq(Message), NEW m \in Message
    PROVE  /\ \A t : FadeHeard(w, t) /\ ~Releases(m) => FadeHeard(Append(w, m), t)
           /\ m = Started => \A t : FadeHeard(Append(w, m), t)
           /\ \A c, s : ProgramHeard(w, c, s) /\ m.type # "changed" => ProgramHeard(Append(w, m), c, s)
           /\ \A c, s : m = Changed(s) => ProgramHeard(Append(w, m), c, s)
<1> DEFINE v == Append(w, m)
<1>1. /\ Len(w) \in Nat /\ Len(v) = Len(w) + 1
      /\ \A i \in 1..Len(w) : v[i] = w[i]
      /\ v[Len(w) + 1] = m
  BY AppendProperties, LenProperties
<1> HIDE DEF v
<1>2. \A i \in 1..Len(v) : i \in 1..Len(w) \/ i = Len(w) + 1
  BY <1>1
<1>3. \A k \in 0..Len(w) : k \in 0..Len(v) /\ (k > 0 => k \in 1..Len(w))
  BY <1>1
<1>4. Len(v) \in 0..Len(v) /\ Len(v) > 0 /\ ~(Len(v) = 0) /\ v[Len(v)] = m /\ \A i \in 1..Len(v) : ~(i > Len(v))
  BY <1>1
<1>5. ASSUME NEW t, FadeHeard(w, t), ~Releases(m) PROVE FadeHeard(v, t)
  <2>1. PICK k \in 0..Len(w) : /\ k = 0 => t
                               /\ k > 0 => w[k] = Started
                               /\ \A i \in 1..Len(w) : i > k => ~Releases(w[i])
    BY <1>5 DEF FadeHeard
  <2>2. k > 0 => v[k] = Started
    BY <1>1, <1>3, <2>1
  <2>3. \A i \in 1..Len(v) : i > k => ~Releases(v[i])
    BY <1>1, <1>2, <1>5, <2>1
  <2>4. k \in 0..Len(v) /\ (k = 0 => t)
    BY <1>3, <2>1
  <2> HIDE <1>1, <1>2, <1>3, <1>4
  <2> QED BY <2>2, <2>3, <2>4 DEF FadeHeard
<1>6. ASSUME m = Started, NEW t PROVE FadeHeard(v, t)
  BY <1>4, <1>6 DEF FadeHeard
<1>7. ASSUME NEW c, NEW s, ProgramHeard(w, c, s), m.type # "changed" PROVE ProgramHeard(v, c, s)
  <2>1. PICK k \in 0..Len(w) : /\ k = 0 => c = s
                               /\ k > 0 => w[k] = Changed(s)
                               /\ \A i \in 1..Len(w) : i > k => w[i].type # "changed"
    BY <1>7 DEF ProgramHeard
  <2>2. k > 0 => v[k] = Changed(s)
    BY <1>1, <1>3, <2>1
  <2>3. \A i \in 1..Len(v) : i > k => v[i].type # "changed"
    BY <1>1, <1>2, <1>7, <2>1
  <2>4. k \in 0..Len(v) /\ (k = 0 => c = s)
    BY <1>3, <2>1
  <2> QED BY <2>2, <2>3, <2>4 DEF ProgramHeard
<1>8. ASSUME NEW c, NEW s, m = Changed(s) PROVE ProgramHeard(v, c, s)
  BY <1>4, <1>8 DEF ProgramHeard
<1> QED BY <1>5, <1>6, <1>7, <1>8 DEF v

\* One message is heard.
LEMMA HeardLess ==
    ASSUME NEW w \in Seq(Message), w # <<>>
    PROVE  /\ \A t \in BOOLEAN : FadeHeard(w, t) =>
                 \/ ((t /\ ~Releases(Head(w))) \/ Head(w) = Started) /\ FadeHeard(Tail(w), TRUE)
                 \/ \A u \in BOOLEAN : FadeHeard(Tail(w), u)
           /\ \A c, s : ProgramHeard(w, c, s) =>
                 \/ ((c = s /\ Head(w).type # "changed") \/ Head(w) = Changed(s)) /\ ProgramHeard(Tail(w), s, s)
                 \/ \A d : ProgramHeard(Tail(w), d, s)
<1> DEFINE v == Tail(w)
<1>1. /\ Len(w) \in Nat /\ Len(w) >= 1 /\ Len(v) = Len(w) - 1 /\ Head(w) = w[1]
      /\ \A i \in 1..Len(v) : v[i] = w[i + 1]
  BY HeadTailProperties, LenProperties, EmptySeq
<1> HIDE DEF v
<1>2. \A i \in 1..Len(v) : i + 1 \in 1..Len(w)
  BY <1>1
<1>3. 0 \in 0..Len(v) /\ 1 \in 1..Len(w) /\ ~(0 > 0)
  BY <1>1
<1>4. ASSUME NEW t \in BOOLEAN, FadeHeard(w, t)
      PROVE  \/ ((t /\ ~Releases(Head(w))) \/ Head(w) = Started) /\ FadeHeard(v, TRUE)
             \/ \A u \in BOOLEAN : FadeHeard(v, u)
  <2>1. PICK k \in 0..Len(w) : /\ k = 0 => t
                               /\ k > 0 => w[k] = Started
                               /\ \A i \in 1..Len(w) : i > k => ~Releases(w[i])
    BY <1>4 DEF FadeHeard
  <2>0. k = 0 \/ k = 1 \/ k > 1
    BY <1>1
  <2>2. ASSUME k <= 1 PROVE FadeHeard(v, TRUE)
    <3>1. \A i \in 1..Len(v) : ~Releases(v[i])
      BY <1>1, <1>2, <2>1, <2>2
    <3> QED BY <1>3, <3>1 DEF FadeHeard
  <2>4. CASE k = 0
    <3>1. 1 > k /\ k <= 1
      BY <2>4
    <3>2. t
      BY <2>1, <2>4, Zenon
    <3>3. ~Releases(w[1])
      BY <1>3, <2>1, <3>1
    <3> QED BY <1>1, <2>2, <3>1, <3>2, <3>3, Zenon
  <2>5. CASE k = 1
    <3>1. w[k] = Started
      BY <2>1, <2>5
    <3>2. Head(w) = Started
      BY <1>1, <2>5, <3>1
    <3>3. k <= 1
      BY <2>5
    <3> QED BY <2>2, <3>2, <3>3, Zenon
  <2>3. CASE k > 1
    <3>1. k - 1 \in 0..Len(v) /\ k - 1 \in 1..Len(v) /\ (k - 1) + 1 = k /\ ~(k - 1 = 0) /\ k > 0
      BY <1>1, <2>1, <2>3
    <3>2. v[k - 1] = Started
      BY <1>1, <2>1, <3>1
    <3>3. \A i \in 1..Len(v) : i > k - 1 => ~Releases(v[i])
      BY <1>1, <1>2, <2>1
    <3> QED BY <3>1, <3>2, <3>3 DEF FadeHeard
  <2> QED BY <2>0, <2>3, <2>4, <2>5, Zenon
<1>5. ASSUME NEW c, NEW s, ProgramHeard(w, c, s)
      PROVE  \/ ((c = s /\ Head(w).type # "changed") \/ Head(w) = Changed(s)) /\ ProgramHeard(v, s, s)
             \/ \A d : ProgramHeard(v, d, s)
  <2>1. PICK k \in 0..Len(w) : /\ k = 0 => c = s
                               /\ k > 0 => w[k] = Changed(s)
                               /\ \A i \in 1..Len(w) : i > k => w[i].type # "changed"
    BY <1>5 DEF ProgramHeard
  <2>2. CASE k <= 1
    <3>1. \A i \in 1..Len(v) : v[i].type # "changed"
      BY <1>1, <1>2, <2>1, <2>2
    <3>2. ProgramHeard(v, s, s)
      BY <1>3, <3>1 DEF ProgramHeard
    <3>3. CASE k = 0
      <4>1. 1 > k /\ c = s
        BY <2>1, <3>3
      <4>2. w[1].type # "changed"
        BY <1>3, <2>1, <4>1
      <4> QED BY <1>1, <3>2, <4>1, <4>2
    <3>4. CASE k = 1
      BY <1>1, <2>1, <3>2, <3>4
    <3> QED BY <2>1, <2>2, <3>3, <3>4
  <2>3. CASE k > 1
    <3>1. k - 1 \in 0..Len(v) /\ k - 1 \in 1..Len(v) /\ (k - 1) + 1 = k /\ ~(k - 1 = 0) /\ k > 0
      BY <1>1, <2>1, <2>3
    <3>2. v[k - 1] = Changed(s)
      BY <1>1, <2>1, <3>1
    <3>3. \A i \in 1..Len(v) : i > k - 1 => v[i].type # "changed"
      BY <1>1, <1>2, <2>1
    <3> QED BY <3>1, <3>2, <3>3 DEF ProgramHeard
  <2> QED BY <2>1, <2>2, <2>3
<1> QED BY <1>4, <1>5 DEF v
-----------------------------------------------------------------------------
\* Whoever asks is answered.

LEMMA AskedFor ==
    ASSUME NEW asks \in Seq(Request), NEW scene
    PROVE  LET For(s) == \A i \in 1..Len(s) : s[i].type = "switch" => s[i].scene = scene
           IN  /\ Nowhere(asks, "switch") => For(asks)
               /\ \A r \in Request : For(asks) /\ (r.type = "switch" => r.scene = scene) => For(Append(asks, r))
               /\ asks # <<>> => /\ For(asks) => For(Tail(asks))
                                 /\ For(asks) /\ Head(asks).type = "switch" => Head(asks).scene = scene
<1> DEFINE For(s) == \A i \in 1..Len(s) : s[i].type = "switch" => s[i].scene = scene
<1>1. ASSUME NEW r \in Request, For(asks), r.type = "switch" => r.scene = scene PROVE For(Append(asks, r))
  <2>1. /\ Len(asks) \in Nat /\ Len(Append(asks, r)) = Len(asks) + 1
        /\ \A i \in 1..Len(asks) : Append(asks, r)[i] = asks[i]
        /\ Append(asks, r)[Len(asks) + 1] = r
    BY AppendProperties, LenProperties
  <2>2. \A i \in 1..Len(Append(asks, r)) : i \in 1..Len(asks) \/ i = Len(asks) + 1
    BY <2>1
  <2> QED BY <1>1, <2>1, <2>2
<1>2. ASSUME asks # <<>>, For(asks) PROVE /\ For(Tail(asks))
                                          /\ Head(asks).type = "switch" => Head(asks).scene = scene
  <2>1. /\ Len(asks) \in Nat /\ Len(Tail(asks)) = Len(asks) - 1 /\ Len(asks) >= 1
        /\ \A i \in 1..Len(Tail(asks)) : Tail(asks)[i] = asks[i + 1] /\ i + 1 \in 1..Len(asks)
        /\ Head(asks) = asks[1] /\ 1 \in 1..Len(asks)
    BY <1>2, HeadTailProperties, LenProperties, EmptySeq
  <2> QED BY <1>2, <2>1
<1> QED BY <1>1, <1>2 DEF Nowhere

LEMMA Goes ==
    ASSUME NEW q \in Seq(Switch), NEW isSent \in BOOLEAN, NEW running \in BOOLEAN,
           NEW requests \in Seq(Request), NEW says,
           NEW m, Proceed(q, isSent, running, requests, m), OutFor(requests, says, q, isSent)
    PROVE  /\ switching' = q /\ OutFor(asked', says, q, sent')
           /\ switching' = <<>> \/ sent' \/ transition'
           /\ isSent \/ q = <<>> => asked' = requests /\ sent' = isSent /\ transition' = running
           /\ q # <<>> /\ ~isSent => ~IdleIn(asked', switching', sent')
<1>0. switching' = q
  BY DEF Proceed
<1>1. CASE q # <<>> /\ ~isSent /\ ~running
  <2> DEFINE r == [type |-> "switch", scene |-> Head(q).scene]
  <2>1. r \in Request /\ r.type = "switch" /\ r.scene = Head(q).scene
    <3>1. Head(q) \in Switch
      BY <1>1, HeadTailProperties
    <3>2. Head(q).scene \in Scenes
      BY <3>1 DEF Switch
    <3> QED BY <3>2 DEF Request
  <2>2. asked' = Append(requests, r) /\ sent' = TRUE /\ transition' = TRUE
    BY <1>1 DEF Proceed
  <2> HIDE DEF r
  <2>3. ~Nowhere(asked', "switch")
    BY <2>1, <2>2, NowhereIn
  <2>4. OutFor(asked', says, q, sent')
    BY <2>1, <2>2, <2>3, AskedFor DEF OutFor
  <2> QED BY <1>0, <1>1, <2>2, <2>3, <2>4 DEF IdleIn
<1>2. CASE ~(q # <<>> /\ ~isSent /\ ~running)
  <2>1. asked' = requests /\ sent' = isSent /\ transition' = running
    BY <1>2 DEF Proceed
  <2>2. OutFor(asked', says, q, sent')
    BY <2>1 DEF OutFor
  <2>3. q # <<>> /\ ~isSent => ~IdleIn(asked', switching', sent')
    BY <1>0, <2>1 DEF IdleIn
  <2> QED BY <1>0, <1>2, <2>1, <2>2, <2>3
<1> QED BY <1>1, <1>2

\* A queue whose switch is answered asks for what is left.
LEMMA Queued ==
    ASSUME Shape, Asking
    PROVE  /\ \A s \in Switch : /\ Append(switching, s) \in Seq(Switch) /\ Append(switching, s) # <<>>
                                /\ Len(Append(switching, s)) = Len(switching) + 1
                                /\ Append(switching, s)[Len(switching) + 1] = s
                                /\ OutFor(asked, wire, Append(switching, s), sent)
           /\ wire # <<>> => OutFor(asked, Tail(wire), switching, sent) \/ Head(wire).type = "answer"
           /\ wire # <<>> /\ Head(wire).type = "answer" =>
                 OutFor(asked, Tail(wire), Tail(switching), FALSE) /\ Nowhere(asked, "switch")
<1>0. /\ asked \in Seq(Request) /\ wire \in Seq(Message) /\ switching \in Seq(Switch) /\ sent \in BOOLEAN
      /\ OutFor(asked, wire, switching, sent)
  BY Starts, Rooms DEF Asking, Outstanding
<1>1. ~sent => Nowhere(asked, "switch")
  BY Rooms DEF Neither
<1>2. ASSUME NEW s \in Switch
      PROVE  /\ Append(switching, s) \in Seq(Switch) /\ Append(switching, s) # <<>>
             /\ Len(Append(switching, s)) = Len(switching) + 1
             /\ Append(switching, s)[Len(switching) + 1] = s
             /\ switching # <<>> => Head(Append(switching, s)) = Head(switching)
  <2>1. /\ Append(switching, s) \in Seq(Switch) /\ Len(switching) \in Nat
        /\ Len(Append(switching, s)) = Len(switching) + 1
        /\ \A i \in 1..Len(switching) : Append(switching, s)[i] = switching[i]
        /\ Append(switching, s)[Len(switching) + 1] = s
    BY <1>0, AppendProperties, LenProperties
  <2>2. Append(switching, s) # <<>>
    BY <2>1, EmptySeq
  <2>3. switching # <<>> => /\ 1 \in 1..Len(switching) /\ Head(switching) = switching[1]
                            /\ Head(Append(switching, s)) = Append(switching, s)[1]
    BY <1>0, <2>1, <2>2, HeadTailProperties, EmptySeq, LenProperties
  <2> QED BY <2>1, <2>2, <2>3
<1>3. ASSUME NEW s \in Switch PROVE OutFor(asked, wire, Append(switching, s), sent)
  <2>1. CASE switching = <<>>
    <3>1. ~sent /\ Nowhere(asked, "switch")
      BY <1>1, <2>1, Rooms
    <3> QED BY <3>1 DEF OutFor, Nowhere
  <2>2. CASE switching # <<>>
    BY <1>0, <1>2, <2>2 DEF OutFor
  <2> QED BY <2>1, <2>2
<1>4. ASSUME wire # <<>>, Head(wire).type # "answer" PROVE OutFor(asked, Tail(wire), switching, sent)
  <2>1. Nowhere(wire, "answer") <=> Nowhere(Tail(wire), "answer")
    BY <1>0, <1>4, NowhereIn
  <2> QED BY <1>0, <2>1 DEF OutFor
<1>5. ASSUME wire # <<>>, Head(wire).type = "answer"
      PROVE  OutFor(asked, Tail(wire), Tail(switching), FALSE) /\ Nowhere(asked, "switch")
  <2>1. Nowhere(asked, "switch")
    BY <1>5, HeadHeard DEF Neither
  <2> QED BY <2>1 DEF OutFor, Nowhere
<1> QED BY <1>2, <1>3, <1>4, <1>5

\* A look asks for no switch.
LEMMA LookAsks ==
    ASSUME Shape, NEW scene \in Scenes, Look(scene)
    PROVE  /\ Nowhere(asked', "switch") <=> Nowhere(asked, "switch")
           /\ \A says, q, isSent : OutFor(asked, says, q, isSent) => OutFor(asked', says, q, isSent)
<1> DEFINE r == [type |-> "look", scene |-> scene]
<1>1. r \in Request /\ r.type # "switch" /\ asked' = Append(asked, r) /\ asked \in Seq(Request)
  BY Starts DEF Request, Look
<1> HIDE DEF r
<1>2. Nowhere(asked', "switch") <=> Nowhere(asked, "switch")
  BY <1>1, NowhereIn
<1> QED BY <1>1, <1>2, AskedFor DEF OutFor

\* What OBS says comes after what it said.
LEMMA SaidMore ==
    ASSUME Shape, NEW m \in Message, NEW n \in Message, Say(<<m>>) \/ Say(<<m, n>>)
    PROVE  /\ \A k : Nowhere(wire', k) => Nowhere(wire, k)
           /\ Connected => \A k : /\ Nowhere(wire', k) => m.type # k
                                  /\ Say(<<m, n>>) => (Nowhere(wire', k) => n.type # k)
                                  /\ m.type # k /\ n.type # k /\ Nowhere(wire, k) => Nowhere(wire', k)
<1>1. /\ wire \in Seq(Message) /\ Types /\ Append(wire, m) \in Seq(Message)
  BY Starts, Pairs
<1>2. CASE ~Connected
  <2>1. wire' = wire
    BY <1>2 DEF Say
  <2> QED BY <1>2, <2>1
<1>3. \A k : Nowhere(Append(wire, m), k) <=> Nowhere(wire, k) /\ m.type # k
  BY <1>1, NowhereIn
<1>4. \A k : Nowhere(Append(Append(wire, m), n), k) <=> Nowhere(Append(wire, m), k) /\ n.type # k
  BY <1>1, NowhereIn
<1>5. CASE Connected /\ Say(<<m, n>>)
  <2>1. wire' = Append(Append(wire, m), n)
    BY <1>1, <1>5, SayTwo
  <2> QED BY <1>3, <1>4, <2>1
<1>6. CASE Connected /\ Say(<<m>>) /\ ~Say(<<m, n>>)
  <2>1. wire' = Append(wire, m)
    BY <1>1, <1>6, SayOne
  <2> QED BY <1>3, <1>6, <2>1
<1> QED BY <1>2, <1>5, <1>6

LEMMA AskingHear == ASSUME Shape, Asking, Hear PROVE Asking'
<1>1. /\ wire # <<>> /\ wire' = Tail(wire)
      /\ HearStarted \/ HearEnded \/ HearChanged \/ HearAnswer \/ HearSources \/ Adopt
  BY DEF Hear
<1>2. /\ asked \in Seq(Request) /\ switching \in Seq(Switch) /\ sent \in BOOLEAN /\ transition \in BOOLEAN
      /\ (switching = <<>> \/ sent \/ transition)
  BY Starts, Rooms DEF Asking, NoneIdles
<1>3. ASSUME Head(wire).type # "answer", UNCHANGED <<asked, switching, sent>>, transition => transition'
      PROVE  Asking'
  <2>1. OutFor(asked, wire', switching, sent)
    BY <1>1, <1>3, Queued
  <2>2. switching = <<>> \/ sent \/ transition'
    BY <1>2, <1>3, Zenon
  <2> QED BY <1>3, <2>1, <2>2 DEF Asking, Outstanding, NoneIdles
<1>4. ASSUME NEW q \in Seq(Switch), NEW running \in BOOLEAN, NEW isSent \in BOOLEAN,
             NEW m, Proceed(q, isSent, running, asked, m), OutFor(asked, wire', q, isSent)
      PROVE  Asking'
  BY <1>2, <1>4, Goes DEF Asking, Outstanding, NoneIdles
<1>5. CASE HearEnded \/ HearChanged
  <2>1. Head(wire).type # "answer" /\ Proceed(switching, sent, FALSE, asked, IF sent THEN "lost" ELSE "kept")
    BY <1>5 DEF HearEnded, HearChanged, TransitionEnded
  <2> QED BY <1>1, <1>2, <1>4, <2>1, Queued
<1>6. CASE HearStarted \/ Adopt
  BY <1>3, <1>6 DEF HearStarted, Adopt
<1>7. CASE HearAnswer
  <2>1. /\ Head(wire).type = "answer" /\ Head(wire).ok \in BOOLEAN
        /\ Proceed(Tail(switching), FALSE, transition /\ Head(wire).ok, asked, mark)
        /\ Tail(switching) \in Seq(Switch)
    BY <1>1, <1>7, HeadHeard, MessageIs, Rooms, OneByWatchdogKept DEF HearAnswer
  <2>2. (transition /\ Head(wire).ok) \in BOOLEAN
    BY <1>2, <2>1, Zenon
  <2> QED BY <1>1, <1>4, <2>1, <2>2, Queued
<1>8. CASE HearSources
  <2>1. Head(wire).type # "answer"
    BY <1>8 DEF HearSources
  <2>2. CASE Proceed(Append(switching, [scene |-> watch.scene, by |-> "watchdog"]), sent, transition, asked, mark)
             /\ watch.phase = "second"
    <3> DEFINE s == [scene |-> watch.scene, by |-> "watchdog"]
    <3>1. s \in Switch
      BY <2>2, Rooms DEF Switch
    <3> HIDE DEF s
    <3>2. PICK q \in Seq(Switch) : q = Append(switching, s) /\ OutFor(asked, wire, q, sent)
      BY <3>1, Queued
    <3>3. OutFor(asked, wire', q, sent)
      <4>1. Nowhere(wire, "answer") <=> Nowhere(wire', "answer")
        BY <1>1, <2>1, Starts, NowhereIn
      <4> QED BY <3>2, <4>1 DEF OutFor
    <3>4. Proceed(q, sent, transition, asked, mark)
      BY <2>2, <3>2 DEF s
    <3> QED BY <1>2, <1>4, <3>3, <3>4
  <2>3. CASE UNCHANGED <<asked, switching, sent, transition>>
    BY <1>3, <2>1, <2>3
  <2> QED BY <1>8, <2>2, <2>3 DEF HearSources
<1> QED BY <1>1, <1>5, <1>6, <1>7, <1>8

LEMMA AskingStep == ASSUME Shape, Asking, [Next]_vars PROVE Asking'
<1>0. /\ asked \in Seq(Request) /\ switching \in Seq(Switch) /\ sent \in BOOLEAN /\ transition \in BOOLEAN
      /\ OutFor(asked, wire, switching, sent) /\ NoneIdles
  BY Starts, Rooms DEF Asking, Outstanding
<1>1. ASSUME UNCHANGED roomVars, Nowhere(wire', "answer") => Nowhere(wire, "answer"),
             asked' = asked \/ (/\ asked # <<>> /\ Head(asked).type # "switch" /\ asked' = Tail(asked))
      PROVE  Asking'
  <2>1. Nowhere(asked', "switch") => Nowhere(asked, "switch")
    BY <1>0, <1>1, NowhereIn
  <2>2. \A i \in 1..Len(asked') : asked'[i].type = "switch" => asked'[i].scene = Head(switching).scene
    <3>1. CASE asked' = asked
      BY <1>0, <3>1 DEF OutFor
    <3>2. CASE asked # <<>> /\ asked' = Tail(asked)
      BY <1>0, <3>2, AskedFor DEF OutFor
    <3> QED BY <1>1, <3>1, <3>2
  <2>3. switching' = switching /\ sent' = sent /\ transition' = transition
    BY <1>1 DEF roomVars
  <2> QED BY <1>0, <1>1, <2>1, <2>2, <2>3 DEF Asking, Outstanding, OutFor, NoneIdles
<1>2. CASE UNCHANGED vars
  BY <1>1, <1>2 DEF vars, wires, roomVars
<1>3. CASE ObsSwitches
  <2>1. /\ asked # <<>> /\ asked' = Tail(asked) /\ UNCHANGED roomVars
        /\ Head(asked).type = "switch" /\ Head(asked).scene \in Scenes /\ Connected
    BY <1>3, HeadAsked DEF ObsSwitches
  <2>2. PICK m \in Message, n \in Message : \/ Say(<<m>>) /\ m.type = "answer"
                                            \/ Say(<<m, n>>) /\ (m.type = "answer" \/ n.type = "answer")
    BY <1>3, <2>1, Messages DEF ObsSwitches
  <2>3. ~Nowhere(wire', "answer")
    BY <2>1, <2>2, SaidMore
  <2>4. switching' = switching /\ sent' = sent /\ transition' = transition
    BY <2>1 DEF roomVars
  <2>5. \A i \in 1..Len(asked') : asked'[i].type = "switch" => asked'[i].scene = Head(switching).scene
    BY <1>0, <2>1, AskedFor DEF OutFor
  <2> QED BY <1>0, <2>3, <2>4, <2>5 DEF Asking, Outstanding, OutFor, NoneIdles
<1>4. CASE ObsEnds
  <2>1. UNCHANGED <<asked, roomVars>>
    BY <1>4 DEF ObsEnds
  <2>2. Nowhere(wire', "answer") => Nowhere(wire, "answer")
    <3>1. CASE UNCHANGED wire
      BY <3>1
    <3>2. CASE ~UNCHANGED wire
      <4>1. fade.to \in Scenes
        BY <1>4, Starts, FadeIs DEF ObsEnds
      <4>2. PICK m \in Message, n \in Message : Say(<<m, n>>)
        BY <1>4, <3>2, <4>1, Messages DEF ObsEnds
      <4> QED BY <4>2, SaidMore
    <3> QED BY <3>1, <3>2
  <2> QED BY <1>1, <2>1, <2>2
<1>5. CASE ObsLooks
  <2>1. /\ asked # <<>> /\ Head(asked).type # "switch" /\ asked' = Tail(asked) /\ UNCHANGED roomVars
    BY <1>5 DEF ObsLooks
  <2>2. PICK off \in BOOLEAN : Say(<<Sources(off)>>)
    BY <1>5 DEF ObsLooks
  <2>3. PICK m \in Message : Say(<<m>>)
    BY <2>2, Messages
  <2> QED BY <1>1, <2>1, <2>3, SaidMore
<1>6. CASE Hear
  BY <1>6, AskingHear
<1>7. CASE GiveUp
  <2>1. Proceed(switching, sent, FALSE, asked, IF sent THEN "lost" ELSE "kept") /\ wire' = wire
    BY <1>7 DEF GiveUp, TransitionEnded
  <2>2. /\ switching' = switching /\ OutFor(asked', wire, switching, sent')
        /\ switching' = <<>> \/ sent' \/ transition'
    BY ONLY <1>0, <2>1, Goes
  <2> QED BY <2>1, <2>2 DEF Asking, Outstanding, NoneIdles
<1>8. ASSUME NEW scene \in Scenes, Look(scene), UNCHANGED <<wire, switching, sent, transition>> PROVE Asking'
  <2>1. OutFor(asked', wire, switching, sent)
    BY <1>0, <1>8, LookAsks
  <2> QED BY <1>0, <1>8, <2>1 DEF Asking, Outstanding, NoneIdles
<1>9. CASE WatchTick \/ Confirm \/ Rest
  <2>1. UNCHANGED <<wire, switching, sent, transition>>
    BY <1>9 DEF WatchTick, Confirm, Rest
  <2>2. CASE UNCHANGED asked
    BY <1>0, <2>1, <2>2 DEF Asking, Outstanding, NoneIdles
  <2>3. CASE ~UNCHANGED asked
    <3>1. \E scene \in Scenes : Look(scene)
      BY <1>9, <2>3, Rooms DEF WatchTick, Confirm, Rest, SomeScene
    <3> QED BY <1>8, <2>1, <3>1
  <2> QED BY <2>2, <2>3
<1>10. CASE LinkLost
  <2>1. asked' = <<>> /\ sent' = FALSE /\ switching' = <<>>
    BY <1>10 DEF LinkLost, Lose
  <2> QED BY <2>1 DEF Asking, Outstanding, OutFor, NoneIdles
<1>11. CASE Reconnect
  <2>1. UNCHANGED <<asked, wire, switching, sent, transition>>
    BY <1>11 DEF Reconnect, wires
  <2> QED BY <1>0, <2>1 DEF Asking, Outstanding, NoneIdles
<1>12. CASE ObsAnswersStatus
  <2>1. /\ wire' = Append(wire, Inventory) /\ UNCHANGED <<asked, roomVars>>
        /\ Inventory \in Message
    BY <1>12, Messages DEF ObsAnswersStatus
  <2>2. Nowhere(wire', "answer") => Nowhere(wire, "answer")
    BY <2>1, Starts, NowhereIn
  <2> QED BY <1>1, <2>1, <2>2
<1>13. ASSUME NEW s \in Scenes, HandSwitches(s) PROVE Asking'
  <2>1. UNCHANGED <<asked, roomVars>>
    BY <1>13 DEF HandSwitches
  <2>2. PICK m \in Message : Say(<<m>>)
    BY <1>13, Messages DEF HandSwitches
  <2> QED BY <1>1, <2>1, <2>2, SaidMore
<1>14. ASSUME NEW s \in Scenes, SetRole(s) PROVE Asking'
  <2> DEFINE x == [scene |-> s, by |-> "control"]
  <2>1. x \in Switch
    BY DEF Switch
  <2>2. Proceed(Append(switching, x), sent, transition, asked, mark) /\ wire' = wire
    BY <1>14 DEF SetRole
  <2> HIDE DEF x
  <2>3. PICK q \in Seq(Switch) : q = Append(switching, x) /\ OutFor(asked, wire, q, sent)
    BY <2>1, Queued DEF Asking
  <2>4. /\ switching' = q /\ OutFor(asked', wire, q, sent')
        /\ switching' = <<>> \/ sent' \/ transition'
    <3>1. Proceed(q, sent, transition, asked, mark)
      BY <2>2, <2>3
    <3>2. q \in Seq(Switch) /\ OutFor(asked, wire, q, sent) /\ asked \in Seq(Request)
      BY <1>0, <2>3
    <3>3. sent \in BOOLEAN /\ transition \in BOOLEAN
      BY <1>0
    <3> QED BY ONLY <3>1, <3>2, <3>3, Goes
  <2> QED BY <2>2, <2>4 DEF Asking, Outstanding, NoneIdles
<1> QED BY <1>2, <1>3, <1>4, <1>5, <1>6, <1>7, <1>9, <1>10, <1>11, <1>12, <1>13, <1>14 DEF Next
-----------------------------------------------------------------------------
\* The scene that is promised.

LEMMA PromiseStands ==
    ASSUME Promised, UNCHANGED <<wanted, fade, program, switching>>, Idle' <=> Idle
    PROVE  Promised'
<1>1. Heading' = Heading
  BY DEF Heading
<1> QED BY <1>1 DEF Promised

\* In a wire that is heard, the last word is the same.
LEMMA ToldOn ==
    ASSUME Shape, Told, wire # <<>>, wire' = Tail(wire), link = "up", UNCHANGED <<link, fade, program, wanted>>,
           Idle' => Idle,
           Idle' /\ Head(wire) = Started => transition' = TRUE,
           Idle' /\ transition /\ ~Releases(Head(wire)) => transition' = TRUE,
           Head(wire).type = "changed" => current' = Head(wire).scene,
           Head(wire).type # "changed" => current' = current,
           transition' \in BOOLEAN
    PROVE  Told'
<1> SUFFICES ASSUME Idle', wanted # NoScene
             PROVE  \/ FadeHeard(wire', transition')
                    \/ fade = NoFade /\ ProgramHeard(wire', current', program)
  BY DEF Told
<1>1. wire \in Seq(Message) /\ transition \in BOOLEAN
  BY Starts, Rooms
<1>2. CASE FadeHeard(wire, transition)
  <2>1. \/ ((transition /\ ~Releases(Head(wire))) \/ Head(wire) = Started) /\ FadeHeard(wire', TRUE)
        \/ \A u \in BOOLEAN : FadeHeard(wire', u)
    BY <1>1, <1>2, HeardLess, Zenon
  <2>2. CASE ((transition /\ ~Releases(Head(wire))) \/ Head(wire) = Started) /\ FadeHeard(wire', TRUE)
    <3>1. transition' = TRUE
      BY <2>2, Zenon
    <3> QED BY <2>2, <3>1, Zenon
  <2>3. CASE \A u \in BOOLEAN : FadeHeard(wire', u)
    BY <2>3, Zenon
  <2> QED BY <2>1, <2>2, <2>3
<1>3. CASE fade = NoFade /\ ProgramHeard(wire, current, program)
  <2>1. \/ /\ (current = program /\ Head(wire).type # "changed") \/ Head(wire) = Changed(program)
           /\ ProgramHeard(wire', program, program)
        \/ \A d : ProgramHeard(wire', d, program)
    BY <1>1, <1>3, HeardLess, Zenon
  <2>2. CASE current = program /\ Head(wire).type # "changed" /\ ProgramHeard(wire', program, program)
    BY <1>3, <2>2, Zenon
  <2>3. CASE Head(wire) = Changed(program) /\ ProgramHeard(wire', program, program)
    <3>1. current' = program
      BY <2>3, Messages
    <3> QED BY <1>3, <2>3, <3>1, Zenon
  <2>4. CASE \A d : ProgramHeard(wire', d, program)
    BY <1>3, <2>4, Zenon
  <2> QED BY <2>1, <2>2, <2>3, <2>4, Zenon
<1> QED BY <1>2, <1>3 DEF Told

\* What is over, by its type.
LEMMA ReleasesIs ==
    ASSUME NEW m \in Message
    PROVE  /\ m.type \in {"ended", "changed"} => Releases(m) /\ m # Started
           /\ m.type \in {"started", "sources", "inventory"} => ~Releases(m)
           /\ m.type \in {"sources", "inventory", "answer"} => m # Started
           /\ m.type = "answer" => (Releases(m) <=> ~m.ok)
<1>1. \A ok \in BOOLEAN : Answer(ok).type = "answer" /\ Answer(ok).ok = ok
  BY Messages
<1>2. m.type = "answer" => m.ok \in BOOLEAN /\ m = Answer(m.ok)
  BY MessageIs
<1>3. m.type = "answer" => (m = Answer(FALSE) <=> ~m.ok)
  <2>1. m = Answer(FALSE) => m.ok = FALSE
    BY <1>1
  <2>2. m.type = "answer" /\ ~m.ok => m.ok = FALSE
    BY <1>2
  <2>3. m.type = "answer" /\ m.ok = FALSE => m = Answer(FALSE)
    BY <1>2
  <2> QED BY <2>1, <2>2, <2>3, Zenon
<1> QED BY <1>1, <1>3, Messages DEF Releases

\* While a switch waits that is not with OBS, or is, not all is done.
LEMMA IdleIs ==
    ASSUME Shape, Asking
    PROVE  /\ Idle <=> switching = <<>> \/ (sent /\ Nowhere(asked, "switch") /\ Len(switching) = 1)
           /\ wire # <<>> /\ Head(wire).type = "answer" => (Idle <=> Len(switching) = 1)
           /\ asked # <<>> /\ Head(asked).type = "switch" =>
                 ~Idle /\ sent /\ switching # <<>> /\ Head(asked).scene = Head(switching).scene
           /\ wire = <<>> /\ asked = <<>> => ~sent /\ (Idle <=> switching = <<>>)
           /\ asked # <<>> => (Head(asked).type # "switch" => (Nowhere(asked, "switch") <=> Nowhere(Tail(asked), "switch")))
           /\ switching # <<>> => Len(switching) \in Nat \ {0}
<1>0. asked \in Seq(Request) /\ wire \in Seq(Message) /\ switching \in Seq(Switch)
  BY Starts, Rooms
<1>1. Idle <=> switching = <<>> \/ (sent /\ Nowhere(asked, "switch") /\ Len(switching) = 1)
  BY DEF Idle, IdleIn
<1>2. switching # <<>> => Len(switching) \in Nat \ {0}
  BY <1>0, EmptySeq, LenProperties
<1>3. ASSUME wire # <<>>, Head(wire).type = "answer" PROVE Idle <=> Len(switching) = 1
  <2>1. sent /\ Nowhere(asked, "switch") /\ switching # <<>>
    BY <1>3, HeadHeard, Rooms DEF Neither
  <2> QED BY <1>1, <2>1
<1>4. ASSUME asked # <<>>, Head(asked).type = "switch"
      PROVE  ~Idle /\ sent /\ switching # <<>> /\ Head(asked).scene = Head(switching).scene
  <2>1. sent /\ switching # <<>>
    BY <1>4, HeadAsked, Rooms
  <2>2. ~Nowhere(asked, "switch")
    BY <1>0, <1>4, NowhereIn
  <2>3. Head(asked).scene = Head(switching).scene
    BY <1>0, <1>4, AskedFor DEF Asking, Outstanding, OutFor
  <2> QED BY <1>1, <2>1, <2>2, <2>3
<1>5. ASSUME wire = <<>>, asked = <<>> PROVE ~sent
  <2>1. Nowhere(wire, "answer") /\ Nowhere(asked, "switch")
    BY <1>5 DEF Nowhere
  <2> QED BY <2>1 DEF Asking, Outstanding, OutFor
<1> QED BY <1>0, <1>1, <1>2, <1>3, <1>4, <1>5, NowhereIn

LEMMA LastOf ==
    ASSUME NEW q \in Seq(Switch), q # <<>>
    PROVE  /\ Len(q) = 1 => Tail(q) = <<>> /\ q[Len(q)] = Head(q)
           /\ Len(q) # 1 => Tail(q) # <<>> /\ Tail(q)[Len(Tail(q))] = q[Len(q)]
<1>1. /\ Len(q) \in Nat /\ Len(q) >= 1 /\ Len(Tail(q)) = Len(q) - 1 /\ Head(q) = q[1]
      /\ Tail(q) \in Seq(Switch) /\ \A i \in 1..Len(Tail(q)) : Tail(q)[i] = q[i + 1]
  BY HeadTailProperties, LenProperties, EmptySeq
<1>2. Len(q) = 1 => Tail(q) = <<>>
  <2>1. PICK v \in Seq(Switch) : v = Tail(q)
    BY <1>1
  <2>2. Len(v) = 0 => v = <<>>
    BY EmptySeq
  <2> QED BY <1>1, <2>1, <2>2
<1>3. ASSUME Len(q) # 1 PROVE Tail(q) # <<>> /\ Tail(q)[Len(Tail(q))] = q[Len(q)]
  <2>1. Len(Tail(q)) \in 1..Len(Tail(q)) /\ Len(Tail(q)) + 1 = Len(q) /\ Len(Tail(q)) # 0
    BY <1>1, <1>3
  <2>2. Tail(q) # <<>>
    BY <1>1, <2>1, EmptySeq
  <2> QED BY <1>1, <2>1, <2>2
<1> QED BY <1>1, <1>2, <1>3

LEMMA KeptAnswer ==
    ASSUME Shape, Asking, Kept, Hear, HearAnswer, link = "up"
    PROVE  Kept'
<1>1. /\ wire # <<>> /\ wire' = Tail(wire) /\ UNCHANGED <<fade, program, wanted, link, current>>
      /\ Head(wire).type = "answer"
  BY DEF Hear, HearAnswer, obsVars, linkVars
<1>2. /\ Head(wire) \in Message /\ Head(wire).ok \in BOOLEAN /\ sent /\ transition \in BOOLEAN
      /\ switching # <<>> /\ switching \in Seq(Switch) /\ Tail(switching) \in Seq(Switch)
      /\ asked \in Seq(Request) /\ wire \in Seq(Message)
  BY <1>1, HeadHeard, MessageIs, Rooms, OneByWatchdogKept, Starts
<1>3. OutFor(asked, wire', Tail(switching), FALSE)
  BY <1>1, Queued
<1>4. Proceed(Tail(switching), FALSE, transition /\ Head(wire).ok, asked, mark)
  BY DEF HearAnswer
<1>5. PICK running \in BOOLEAN : running = (transition /\ Head(wire).ok)
  OBVIOUS
<1>6. /\ switching' = Tail(switching)
      /\ Tail(switching) = <<>> => transition' = running
      /\ Tail(switching) # <<>> => ~Idle'
  <2>1. Proceed(Tail(switching), FALSE, running, asked, mark)
    BY <1>4, <1>5
  <2>2. /\ switching' = Tail(switching)
        /\ Tail(switching) = <<>> => transition' = running
        /\ Tail(switching) # <<>> => ~IdleIn(asked', switching', sent')
    BY ONLY <1>2, <1>3, <2>1, Goes
  <2> QED BY <2>2 DEF Idle
<1>7. Idle <=> Len(switching) = 1
  BY <1>1, IdleIs
<1>8. /\ Len(switching) = 1 => Tail(switching) = <<>>
      /\ Len(switching) # 1 => Tail(switching) # <<>> /\ Tail(switching)[Len(Tail(switching))] = switching[Len(switching)]
  BY <1>2, LastOf
<1>9. Idle' <=> Idle
  <2>1. Tail(switching) = <<>> => Idle'
    BY <1>6 DEF Idle, IdleIn
  <2> QED BY <1>6, <1>7, <1>8, <2>1
<1>10. Promised'
  <2>1. Heading' = Heading
    BY <1>1 DEF Heading
  <2>2. ~Idle => switching'[Len(switching')] = switching[Len(switching)]
    BY <1>6, <1>7, <1>8
  <2> QED BY <1>1, <1>9, <2>1, <2>2 DEF Kept, Promised
<1>11. Told'
  <2>1. Idle' => transition' = running
    BY <1>6
  <2>2. Head(wire) # Started /\ Head(wire).type # "changed"
    BY <1>1, <1>2, ReleasesIs
  <2>3. ~Releases(Head(wire)) => Head(wire).ok = TRUE
    BY <1>1, <1>2, ReleasesIs
  <2>4. Idle' /\ transition /\ ~Releases(Head(wire)) => transition' = TRUE
    BY <1>5, <2>1, <2>3, Zenon
  <2>5. transition' \in BOOLEAN
    BY <1>4, <1>5, <1>2 DEF Proceed
  <2> QED BY <1>1, <1>9, <2>2, <2>4, <2>5, ToldOn DEF Kept
<1>12. Minded'
  <2>1. Acting' => Acting /\ watch' = watch
    <3>1. \/ UNCHANGED watch \/ watch' = Asleep \/ Wake("settling") \/ Wake("resting")
      BY DEF HearAnswer
    <3> QED BY <3>1, WakeIs, AsleepIs DEF Acting, WatchPhases
  <2> QED BY <1>1, <2>1 DEF Kept, Minded
<1>13. Reads'
  <2>1. Nowhere(wire', "inventory")
    BY <1>1, <1>2, NowhereIn DEF Kept, Reads
  <2> QED BY <1>1, <2>1 DEF Reads
<1> QED BY <1>10, <1>11, <1>12, <1>13 DEF Kept

LEMMA KeptEnded ==
    ASSUME Shape, Asking, Kept, Hear, HearEnded \/ HearChanged, link = "up"
    PROVE  Kept'
<1>1. /\ wire # <<>> /\ wire' = Tail(wire) /\ UNCHANGED <<fade, program, wanted, link>>
      /\ Head(wire).type \in {"ended", "changed"} /\ TransitionEnded
      /\ Head(wire).type = "changed" => current' = Head(wire).scene
      /\ Head(wire).type # "changed" => current' = current
  BY DEF Hear, HearEnded, HearChanged, obsVars, linkVars
<1>2. /\ Head(wire) \in Message /\ sent \in BOOLEAN /\ transition \in BOOLEAN
      /\ switching \in Seq(Switch) /\ asked \in Seq(Request) /\ wire \in Seq(Message)
  BY <1>1, HeadHeard, Rooms, Starts
<1>3. OutFor(asked, wire', switching, sent) /\ Proceed(switching, sent, FALSE, asked, IF sent THEN "lost" ELSE "kept")
  BY <1>1, Queued DEF TransitionEnded
<1>4. /\ switching' = switching
      /\ switching = <<>> \/ sent => asked' = asked /\ sent' = sent
      /\ switching # <<>> /\ ~sent => ~Idle'
  <2>1. /\ switching' = switching
        /\ switching = <<>> \/ sent => asked' = asked /\ sent' = sent
        /\ switching # <<>> /\ ~sent => ~IdleIn(asked', switching', sent')
    BY ONLY <1>2, <1>3, Goes
  <2> QED BY <2>1 DEF Idle
<1>5. Idle' <=> Idle
  <2>1. CASE switching = <<>> \/ sent
    BY <1>4, <2>1 DEF Idle
  <2>2. CASE ~(switching = <<>> \/ sent)
    BY <1>4, <2>2 DEF Idle, IdleIn
  <2> QED BY <2>1, <2>2
<1>6. Promised'
  BY <1>1, <1>4, <1>5, PromiseStands DEF Kept
<1>7. Told'
  <2>1. Releases(Head(wire)) /\ Head(wire) # Started
    BY <1>1, <1>2, ReleasesIs
  <2>2. transition' \in BOOLEAN
    BY <1>3 DEF Proceed
  <2> QED BY <1>1, <1>5, <2>1, <2>2, ToldOn DEF Kept
<1>8. Minded'
  <2>1. Acting' => Acting /\ watch' = watch
    <3>1. UNCHANGED watch \/ Wake("resting")
      BY <1>1 DEF TransitionEnded
    <3> QED BY <3>1, WakeIs DEF Acting, WatchPhases
  <2> QED BY <1>1, <2>1 DEF Kept, Minded
<1>9. Reads'
  <2>1. Nowhere(wire', "inventory")
    BY <1>1, <1>2, NowhereIn DEF Kept, Reads
  <2> QED BY <1>1, <2>1 DEF Reads
<1> QED BY <1>6, <1>7, <1>8, <1>9 DEF Kept

LEMMA KeptStarted ==
    ASSUME Shape, Asking, Kept, Hear, HearStarted, link = "up"
    PROVE  Kept'
<1>1. /\ wire # <<>> /\ wire' = Tail(wire) /\ UNCHANGED <<fade, program, wanted, link, switching, sent, asked, watch, current>>
      /\ Head(wire).type = "started" /\ transition' = TRUE
  BY DEF Hear, HearStarted, obsVars, linkVars
<1>2. Head(wire) \in Message /\ wire \in Seq(Message)
  BY <1>1, HeadHeard, Starts
<1>3. Idle' <=> Idle
  BY <1>1 DEF Idle
<1>4. Promised'
  BY <1>1, <1>3, PromiseStands DEF Kept
<1>5. Told'
  BY <1>1, <1>3, ToldOn DEF Kept
<1>6. Minded'
  BY <1>1 DEF Kept, Minded, Acting
<1>7. Reads'
  <2>1. Nowhere(wire', "inventory")
    BY <1>1, <1>2, NowhereIn DEF Kept, Reads
  <2> QED BY <1>1, <2>1 DEF Reads
<1> QED BY <1>4, <1>5, <1>6, <1>7 DEF Kept

LEMMA KeptSources ==
    ASSUME Shape, Asking, Kept, Hear, HearSources, link = "up"
    PROVE  Kept'
<1>1. /\ wire # <<>> /\ wire' = Tail(wire) /\ UNCHANGED <<fade, program, wanted, link, current>>
      /\ Head(wire).type = "sources"
  BY DEF Hear, HearSources, obsVars, linkVars
<1>2. /\ Head(wire) \in Message /\ wire \in Seq(Message) /\ asked \in Seq(Request)
      /\ switching \in Seq(Switch) /\ sent \in BOOLEAN /\ transition \in BOOLEAN
      /\ ~Releases(Head(wire)) /\ Head(wire) # Started
  <2>1. Head(wire) \in Message
    BY <1>1, HeadHeard
  <2> QED BY <1>1, <2>1, ReleasesIs, Rooms, Starts
<1>3. Reads'
  <2>1. Nowhere(wire', "inventory")
    BY <1>1, <1>2, NowhereIn DEF Kept, Reads
  <2> QED BY <1>1, <2>1 DEF Reads
<1>4. Minded'
  <2>1. ~Acting'
    <3>1. watch' = Asleep \/ Wake("confirming") \/ Wake("switching")
      BY DEF HearSources
    <3> QED BY <3>1, WakeIs, AsleepIs DEF Acting, WatchPhases
  <2> QED BY <2>1 DEF Minded
<1>5. CASE UNCHANGED <<asked, switching, sent, transition>>
  <2>1. Idle' <=> Idle
    BY <1>5 DEF Idle
  <2>2. Promised'
    BY <1>1, <1>5, <2>1, PromiseStands DEF Kept
  <2>3. transition' = transition /\ (transition => transition' = TRUE) /\ transition' \in BOOLEAN
    BY <1>2, <1>5
  <2>4. Told'
    BY <1>1, <1>2, <2>1, <2>3, ToldOn DEF Kept
  <2> QED BY <1>3, <1>4, <2>2, <2>4 DEF Kept
<1>6. CASE /\ watch.phase = "second"
           /\ Proceed(Append(switching, [scene |-> watch.scene, by |-> "watchdog"]), sent, transition, asked, mark)
  <2> DEFINE s == [scene |-> watch.scene, by |-> "watchdog"]
  <2>1. s \in Switch /\ s.scene = watch.scene
    BY <1>6, Rooms DEF Switch
  <2>2. Proceed(Append(switching, s), sent, transition, asked, mark)
    BY <1>6
  <2> HIDE DEF s
  <2>3. PICK q \in Seq(Switch) : /\ q = Append(switching, s) /\ q # <<>> /\ Len(q) = Len(switching) + 1
                                 /\ q[Len(switching) + 1] = s /\ OutFor(asked, wire, q, sent)
    BY <2>1, Queued
  <2>4. Proceed(q, sent, transition, asked, mark)
    BY <2>2, <2>3
  <2>5. /\ switching' = q
        /\ sent => sent' = sent /\ asked' = asked
        /\ ~sent => ~IdleIn(asked', switching', sent')
    <3>1. q \in Seq(Switch) /\ OutFor(asked, wire, q, sent) /\ asked \in Seq(Request) /\ q # <<>>
      BY <1>2, <2>3
    <3>2. sent \in BOOLEAN /\ transition \in BOOLEAN
      BY <1>2
    <3> QED BY ONLY <2>4, <3>1, <3>2, Goes
  <2>6. ~Idle'
    <3>1. CASE sent
      <4>1. Len(switching) \in Nat \ {0}
        BY <3>1, Rooms, IdleIs
      <4>2. Len(switching') # 1 /\ switching' # <<>>
        BY <2>3, <2>5, <4>1
      <4> QED BY <4>2 DEF Idle, IdleIn
    <3>2. CASE ~sent
      BY <2>5, <3>2 DEF Idle
    <3> QED BY <3>1, <3>2
  <2>7. Promised'
    <3>1. switching'[Len(switching')].scene = watch.scene
      BY <2>1, <2>3, <2>5
    <3>2. wanted # NoScene => watch.scene = wanted
      BY <1>6 DEF Kept, Minded, Acting
    <3> QED BY <1>1, <2>6, <3>1, <3>2 DEF Promised
  <2>8. Told'
    BY <2>6 DEF Told
  <2> QED BY <1>3, <1>4, <2>7, <2>8 DEF Kept
<1> QED BY <1>5, <1>6 DEF HearSources

LEMMA KeptHear ==
    ASSUME Shape, Asking, Kept, Hear
    PROVE  Kept'
<1>1. /\ wire # <<>> /\ wire' = Tail(wire) /\ UNCHANGED <<fade, program, wanted>> /\ Connected
      /\ HearStarted \/ HearEnded \/ HearChanged \/ HearAnswer \/ HearSources \/ Adopt
  BY HeadHeard DEF Hear, obsVars
<1>2. CASE link = "up"
  <2>1. ~Adopt
    <3>1. Head(wire).type # "inventory"
      BY <1>1, <1>2, Starts, NowhereIn DEF Kept, Reads
    <3> QED BY <3>1 DEF Adopt
  <2> QED BY <1>1, <1>2, <2>1, KeptAnswer, KeptEnded, KeptStarted, KeptSources
<1>3. CASE link # "up"
  <2>1. link = "reading"
    BY <1>1, <1>3, Rooms DEF Connected
  <2>2. /\ read = program /\ fade = NoFade /\ switching = <<>> /\ watch.phase = "asleep" /\ wire = <<Inventory>>
    BY <1>1, <2>1 DEF Kept, Reads
  <2>3. Head(wire).type = "inventory" /\ wire' = <<>>
    BY <1>1, <2>2, Messages
  <2>4. Adopt
    BY <1>1, <2>3 DEF HearStarted, HearEnded, HearChanged, HearAnswer, HearSources
  <2>5. link' = "up" /\ current' = program /\ UNCHANGED <<switching, watch>>
    BY <2>2, <2>4 DEF Adopt
  <2>6. Reads' /\ Minded'
    BY <2>2, <2>3, <2>5 DEF Reads, Nowhere, Minded, Acting
  <2>7. Idle /\ Idle'
    BY <2>2, <2>5 DEF Idle, IdleIn
  <2>8. Promised'
    BY <1>1, <2>5, <2>7, PromiseStands DEF Kept
  <2>9. ProgramHeard(wire', current', program')
    <3>1. 0 \in 0..Len(wire') /\ \A i \in 1..Len(wire') : FALSE
      BY <2>3
    <3>2. current' = program' /\ ~(0 > 0)
      BY <1>1, <2>5
    <3> QED BY <3>1, <3>2 DEF ProgramHeard
  <2>10. Told'
    BY <1>1, <2>2, <2>9 DEF Told
  <2> QED BY <2>6, <2>8, <2>10 DEF Kept
<1> QED BY <1>2, <1>3

\* OBS leaves for a scene, or cuts to it: it is where OBS is heading.
LEMMA HeadsFor ==
    ASSUME Shape, NEW scene \in Scenes
    PROVE  /\ \A ours : Leave(scene, ours) => Heading' = scene /\ fade' # NoFade
           /\ Cut(scene) => Heading' = scene /\ fade' = NoFade /\ program' = scene
<1>1. ASSUME NEW ours, Leave(scene, ours) PROVE Heading' = scene /\ fade' # NoFade
  <2>1. fade'.to = scene
    BY <1>1 DEF Leave
  <2>2. NoFade.to = NoScene
    BY DEF NoFade
  <2> QED BY <2>1, <2>2, NoSceneAssumption DEF Heading
<1>2. ASSUME Cut(scene) PROVE Heading' = scene /\ fade' = NoFade /\ program' = scene
  BY <1>2 DEF Cut, Heading
<1> QED BY <1>1, <1>2

\* What it says of it: the room will hear it.
LEMMA ToldBySaying ==
    ASSUME Shape, Connected, NEW m \in Message, NEW n \in Message
    PROVE  /\ Say(<<m>>) /\ m = Started => FadeHeard(wire', transition')
           /\ Say(<<m, n>>) /\ (n = Started \/ (m = Started /\ ~Releases(n))) => FadeHeard(wire', transition')
           /\ \A c, s : Say(<<m>>) /\ m = Changed(s) => ProgramHeard(wire', c, s)
           /\ \A c, s : Say(<<m, n>>) /\ (n = Changed(s) \/ (m = Changed(s) /\ n.type # "changed")) =>
                           ProgramHeard(wire', c, s)
<1>1. PICK v \in Seq(Message) : v = Append(wire, m)
  BY Starts, Pairs
<1>2. /\ Say(<<m>>) => wire' = v
      /\ Say(<<m, n>>) => wire' = Append(v, n)
  <2>1. Say(<<m>>) => wire' = v
    BY <1>1, Starts, SayOne
  <2>2. Say(<<m, n>>) => wire' = Append(v, n)
    BY <1>1, Starts, SayTwo
  <2> QED BY <2>1, <2>2
<1>3. /\ m = Started => FadeHeard(v, transition')
      /\ \A c, s : m = Changed(s) => ProgramHeard(v, c, s)
  BY <1>1, Starts, HeardMore, Zenon
<1>4. /\ FadeHeard(v, transition') /\ ~Releases(n) => FadeHeard(Append(v, n), transition')
      /\ n = Started => FadeHeard(Append(v, n), transition')
      /\ \A c, s : ProgramHeard(v, c, s) /\ n.type # "changed" => ProgramHeard(Append(v, n), c, s)
      /\ \A c, s : n = Changed(s) => ProgramHeard(Append(v, n), c, s)
  BY HeardMore, Zenon
<1> QED BY <1>2, <1>3, <1>4, Zenon

LEMMA Answers ==
    ~Releases(Answer(TRUE)) /\ ~Releases(Started) /\ Answer(TRUE).type # "changed"
BY ReleasesIs, Messages

LEMMA KeptObsSwitches ==
    ASSUME Shape, Asking, Kept, ObsSwitches
    PROVE  Kept'
<1> DEFINE scene == Head(asked).scene
<1>1. /\ asked # <<>> /\ Head(asked).type = "switch" /\ asked' = Tail(asked)
      /\ UNCHANGED <<link, read, switching, sent, transition, current, watch>>
  BY DEF ObsSwitches, linkVars, roomVars
<1>2. /\ Connected /\ scene \in Scenes /\ Neither(asked', wire, "switch", "answer")
      /\ ~Idle /\ sent /\ switching # <<>> /\ scene = Head(switching).scene
      /\ switching \in Seq(Switch) /\ asked' \in Seq(Request)
  BY <1>1, HeadAsked, IdleIs, Rooms
<1>3. link = "up"
  BY <1>1, <1>2, Rooms DEF Kept, Reads, Connected
<1>4. Idle' <=> Len(switching) = 1
  BY <1>1, <1>2 DEF Idle, IdleIn, Neither
<1>5. Len(switching) = 1 => switching[Len(switching)] = Head(switching)
  BY <1>2, LastOf
<1>6. Promised'
  <2>1. CASE wanted' = NoScene
    BY <2>1 DEF Promised
  <2>2. CASE wanted' # NoScene
    <3>1. wanted' = wanted /\ Heading' = scene
      BY <1>2, <2>2, HeadsFor DEF ObsSwitches
    <3>2. switching[Len(switching)].scene = wanted
      BY <1>2, <2>2, <3>1 DEF Kept, Promised
    <3> QED BY <1>1, <1>2, <1>4, <1>5, <3>1, <3>2 DEF Promised
  <2> QED BY <2>1, <2>2
<1>7. Told'
  <2> SUFFICES ASSUME wanted' # NoScene
               PROVE  FadeHeard(wire', transition') \/ (fade' = NoFade /\ ProgramHeard(wire', current', program'))
    BY DEF Told
  <2>1. /\ Started \in Message /\ Answer(TRUE) \in Message /\ Changed(scene) \in Message
    BY <1>2, Messages
  <2>2. CASE Say(<<Started, Answer(TRUE)>>)
    BY <1>2, <2>1, <2>2, Answers, ToldBySaying, Zenon
  <2>3. CASE Say(<<Answer(TRUE), Started>>)
    BY <1>2, <2>1, <2>3, Answers, ToldBySaying, Zenon
  <2>4. CASE Cut(scene) /\ Say(<<Changed(scene), Answer(TRUE)>>)
    <3>1. fade' = NoFade /\ program' = scene
      BY <2>4, <1>2, HeadsFor
    <3> QED BY <1>2, <2>1, <2>4, <3>1, Answers, ToldBySaying, Zenon
  <2>5. CASE Cut(scene) /\ Say(<<Answer(TRUE), Changed(scene)>>)
    <3>1. fade' = NoFade /\ program' = scene
      BY <2>5, <1>2, HeadsFor
    <3> QED BY <1>2, <2>1, <2>5, <3>1, Answers, ToldBySaying, Zenon
  <2> QED BY <2>2, <2>3, <2>4, <2>5 DEF ObsSwitches
<1>8. Minded'
  <2>1. wanted' = wanted \/ wanted' = NoScene
    BY DEF ObsSwitches
  <2> QED BY <1>1, <2>1 DEF Kept, Minded, Acting
<1>9. Reads'
  <2>1. PICK m \in Message, n \in Message :
             /\ Say(<<m>>) \/ Say(<<m, n>>)
             /\ m.type # "inventory" /\ n.type # "inventory"
    BY <1>2, Messages DEF ObsSwitches
  <2>2. Nowhere(wire', "inventory")
    BY <1>2, <1>3, <2>1, SaidMore DEF Kept, Reads
  <2> QED BY <1>1, <1>3, <2>2 DEF Reads
<1> QED BY <1>6, <1>7, <1>8, <1>9 DEF Kept

LEMMA KeptObsEnds ==
    ASSUME Shape, Asking, Kept, ObsEnds
    PROVE  Kept'
<1>1. /\ fade # NoFade /\ program' = fade.to /\ fade' = NoFade
      /\ UNCHANGED <<link, read, switching, sent, transition, current, watch, wanted, asked>>
  BY DEF ObsEnds, linkVars, roomVars
<1>2. fade.to \in Scenes
  BY <1>1, Starts, FadeIs
<1>3. Promised'
  <2>1. Heading' = Heading
    BY <1>1 DEF Heading
  <2>2. Idle' <=> Idle
    BY <1>1 DEF Idle
  <2> QED BY <1>1, <2>1, <2>2 DEF Kept, Promised
<1>4. Minded'
  BY <1>1 DEF Kept, Minded, Acting
<1>5. CASE UNCHANGED wire
  <2>1. Told'
    <3>1. Idle' <=> Idle
      BY <1>1 DEF Idle
    <3>2. Idle /\ wanted # NoScene /\ link = "up" => FadeHeard(wire, transition)
      BY <1>1, Zenon DEF Kept, Told
    <3> QED BY <1>1, <1>5, <3>1, <3>2, Zenon DEF Told
  <2>2. Reads'
    BY <1>1, <1>5 DEF Kept, Reads
  <2> QED BY <1>3, <1>4, <2>1, <2>2 DEF Kept
<1>6. CASE Say(<<Changed(fade.to), Ended>>) \/ Say(<<Ended, Changed(fade.to)>>)
  <2>1. Changed(fade.to) \in Message /\ Ended \in Message /\ Ended.type = "ended"
        /\ Changed(fade.to).type = "changed"
    BY <1>2, Messages
  <2>2. Told'
    <3> SUFFICES ASSUME Connected PROVE ProgramHeard(wire', current', program')
      BY <1>1 DEF Told, Connected
    <3>1. Ended.type # "changed"
      BY <2>1
    <3> QED BY <1>1, <1>6, <2>1, <3>1, ToldBySaying, Zenon
  <2>3. Reads'
    <3>1. link # "reading"
      BY <1>1 DEF Kept, Reads
    <3>2. link = "up" => Nowhere(wire', "inventory")
      BY <1>6, <2>1, SaidMore DEF Kept, Reads, Connected
    <3> QED BY <1>1, <3>1, <3>2 DEF Reads
  <2> QED BY <1>3, <1>4, <2>2, <2>3 DEF Kept
<1> QED BY <1>5, <1>6 DEF ObsEnds

LEMMA KeptHand ==
    ASSUME Shape, Asking, Kept, ~Overtaking, NEW scene \in Scenes, HandSwitches(scene)
    PROVE  Kept'
<1>1. /\ switching = <<>> /\ link # "reading" /\ ~Acting /\ wanted' = scene
      /\ UNCHANGED <<link, read, switching, sent, transition, current, watch, asked>>
  BY DEF HandSwitches, linkVars, roomVars
<1>2. Promised'
  <2>1. Heading' = scene
    BY HeadsFor DEF HandSwitches
  <2>2. Idle'
    BY <1>1 DEF Idle, IdleIn
  <2> QED BY <1>1, <2>1, <2>2 DEF Promised
<1>3. Minded'
  BY <1>1 DEF Minded, Acting
<1>4. Started \in Message /\ Changed(scene) \in Message /\ Started.type = "started"
      /\ Changed(scene).type = "changed"
  BY Messages
<1>5. Told'
  <2> SUFFICES ASSUME Connected
               PROVE  FadeHeard(wire', transition') \/ (fade' = NoFade /\ ProgramHeard(wire', current', program'))
    BY <1>1 DEF Told, Connected
  <2>1. CASE Say(<<Started>>)
    BY <1>4, <2>1, ToldBySaying, Zenon
  <2>2. CASE Cut(scene) /\ Say(<<Changed(scene)>>)
    <3>1. fade' = NoFade /\ program' = scene
      BY <2>2, HeadsFor
    <3> QED BY <1>4, <2>2, <3>1, ToldBySaying, Zenon
  <2> QED BY <2>1, <2>2 DEF HandSwitches
<1>6. Reads'
  <2>1. link = "up" => Nowhere(wire', "inventory")
    <3>1. Say(<<Started>>) \/ Say(<<Changed(scene)>>)
      BY DEF HandSwitches
    <3> QED BY <1>4, <3>1, SaidMore DEF Kept, Reads, Connected
  <2> QED BY <1>1, <2>1 DEF Reads
<1> QED BY <1>2, <1>3, <1>5, <1>6 DEF Kept

LEMMA KeptSetRole ==
    ASSUME Shape, Asking, Kept, ~Overtaking, NEW scene \in Scenes, SetRole(scene)
    PROVE  Kept'
<1> DEFINE s == [scene |-> scene, by |-> "control"]
<1>1. /\ link = "up" /\ ~Acting /\ wanted' = scene
      /\ Proceed(Append(switching, s), sent, transition, asked, mark)
      /\ UNCHANGED <<wire, link, watch>>
  BY DEF SetRole, linkVars
<1>2. s \in Switch /\ s.scene = scene
  BY DEF Switch
<1> HIDE DEF s
<1>3. PICK q \in Seq(Switch) : /\ q = Append(switching, s) /\ q # <<>> /\ Len(q) = Len(switching) + 1
                               /\ q[Len(switching) + 1] = s /\ OutFor(asked, wire, q, sent)
  BY <1>2, Queued
<1>4. Proceed(q, sent, transition, asked, mark)
  BY <1>1, <1>3
<1>5. /\ switching' = q
      /\ sent => sent' = sent /\ asked' = asked
      /\ ~sent => ~IdleIn(asked', switching', sent')
  <2>1. q \in Seq(Switch) /\ OutFor(asked, wire, q, sent) /\ asked \in Seq(Request)
    BY <1>3, Starts
  <2>2. sent \in BOOLEAN /\ transition \in BOOLEAN
    BY Rooms
  <2> QED BY ONLY <1>4, <2>1, <2>2, <1>3, Goes
<1>6. ~Idle'
  <2>1. CASE sent
    <3>1. Len(switching) \in Nat \ {0}
      BY <2>1, Rooms, IdleIs
    <3>2. Len(switching') # 1 /\ switching' # <<>>
      BY <1>3, <1>5, <3>1
    <3> QED BY <3>2 DEF Idle, IdleIn
  <2>2. CASE ~sent
    BY <1>5, <2>2 DEF Idle
  <2> QED BY <2>1, <2>2
<1>7. switching'[Len(switching')].scene = scene
  BY <1>2, <1>3, <1>5
<1>8. Promised' /\ Told' /\ Minded'
  BY <1>1, <1>6, <1>7 DEF Promised, Told, Minded, Acting
<1>9. Reads'
  BY <1>1 DEF Kept, Reads
<1> QED BY <1>8, <1>9 DEF Kept

LEMMA KeptGiveUp ==
    ASSUME Shape, Asking, Kept, GiveUp
    PROVE  Kept'
<1>1. /\ wire = <<>> /\ asked = <<>> /\ fade = NoFade
      /\ wanted' = IF switching = <<>> /\ current # program THEN NoScene ELSE wanted
      /\ UNCHANGED <<program, fade, wire, link, read, current>>
      /\ Proceed(switching, sent, FALSE, asked, IF sent THEN "lost" ELSE "kept")
      /\ UNCHANGED watch \/ Wake("resting")
      /\ switching # <<>> \/ watch.phase = "settling"
  BY DEF GiveUp, TransitionEnded, obsVars, linkVars
<1>2. ~sent /\ (Idle <=> switching = <<>>)
  BY <1>1, IdleIs
<1>3. OutFor(asked, wire, switching, sent) /\ sent \in BOOLEAN /\ asked \in Seq(Request)
      /\ switching \in Seq(Switch)
  BY Starts, Rooms DEF Asking, Outstanding
<1>4. /\ switching' = switching
      /\ switching # <<>> => ~Idle'
  <2>1. /\ switching' = switching
        /\ switching # <<>> /\ ~sent => ~IdleIn(asked', switching', sent')
    BY ONLY <1>1, <1>3, Goes
  <2> QED BY <1>2, <2>1 DEF Idle
<1>5. Idle' <=> Idle
  BY <1>2, <1>4 DEF Idle, IdleIn
<1>6. Heading' = Heading
  BY <1>1 DEF Heading
<1>7. Promised'
  BY <1>1, <1>4, <1>5, <1>6 DEF Kept, Promised
<1>8. Told'
  <2> SUFFICES ASSUME Idle', wanted' # NoScene PROVE fade' = NoFade /\ ProgramHeard(wire', current', program')
    BY DEF Told
  <2>1. current = program
    BY <1>1, <1>2, <1>5
  <2>2. 0 \in 0..Len(wire') /\ ~(0 > 0) /\ \A i \in 1..Len(wire') : FALSE
    BY <1>1
  <2> QED BY <1>1, <2>1, <2>2 DEF ProgramHeard
<1>9. Minded'
  <2>1. Acting' => Acting /\ watch' = watch
    BY <1>1, WakeIs DEF Acting, WatchPhases
  <2> QED BY <1>1, <2>1 DEF Kept, Minded
<1>10. Reads'
  <2>1. link # "reading"
    BY <1>1 DEF Kept, Reads
  <2> QED BY <1>1, <2>1 DEF Kept, Reads
<1> QED BY <1>7, <1>8, <1>9, <1>10 DEF Kept

\* Before the watchdog acts it has heard all, and waits for no transition: the scene it
\* looked at is the one wanted.
LEMMA Confirmed ==
    ASSUME Shape, Asking, Kept, wire = <<>>, asked = <<>>, ~transition, link = "up", wanted # NoScene
    PROVE  current = wanted
<1>1. switching = <<>> /\ Idle
  BY IdleIs DEF Asking, NoneIdles
<1>2. ~FadeHeard(wire, transition)
  <2>1. \A k \in 0..Len(wire) : k = 0
    OBVIOUS
  <2> QED BY <2>1, Zenon DEF FadeHeard
<1>3. fade = NoFade /\ ProgramHeard(wire, current, program)
  BY <1>1, <1>2, Zenon DEF Kept, Told
<1>4. current = program
  <2>1. \A k \in 0..Len(wire) : k = 0
    OBVIOUS
  <2> QED BY <1>3, <2>1 DEF ProgramHeard
<1> QED BY <1>1, <1>3, <1>4 DEF Kept, Promised, Heading

LEMMA KeptLook ==
    ASSUME Shape, Asking, Kept, UNCHANGED <<program, fade, link, read, switching, sent, transition, current, wanted>>,
           Nowhere(asked', "switch") <=> Nowhere(asked, "switch"),
           Acting' /\ wanted # NoScene => watch'.scene = wanted,
           \/ UNCHANGED wire
           \/ Connected /\ \E off \in BOOLEAN : Say(<<Sources(off)>>),
           link = "reading" => UNCHANGED <<asked, watch, wire>>
    PROVE  Kept'
<1>1. Idle' <=> Idle
  BY DEF Idle, IdleIn
<1>2. Promised'
  BY <1>1, PromiseStands DEF Kept
<1>3. Minded'
  BY DEF Minded
<1>4. CASE UNCHANGED wire
  <2>1. Told'
    BY <1>1, <1>4, Zenon DEF Kept, Told
  <2>2. Reads'
    BY <1>4 DEF Kept, Reads
  <2> QED BY <1>2, <1>3, <2>1, <2>2 DEF Kept
<1>5. CASE Connected /\ \E off \in BOOLEAN : Say(<<Sources(off)>>)
  <2>1. PICK m \in Message : m.type = "sources" /\ Say(<<m>>)
    BY <1>5, Messages
  <2>2. wire' = Append(wire, m) /\ wire \in Seq(Message) /\ ~Releases(m) /\ m.type # "changed"
    BY <1>5, <2>1, Starts, SayOne, ReleasesIs
  <2>3. /\ FadeHeard(wire, transition) => FadeHeard(wire', transition)
        /\ ProgramHeard(wire, current, program) => ProgramHeard(wire', current, program)
    BY <2>2, HeardMore, Zenon
  <2>4. Told'
    BY <1>1, <2>3, Zenon DEF Kept, Told
  <2>5. Nowhere(wire, "inventory") => Nowhere(wire', "inventory")
    BY <2>1, <2>2, NowhereIn
  <2>6. Reads'
    BY <2>5 DEF Kept, Reads
  <2> QED BY <1>2, <1>3, <2>4, <2>6 DEF Kept
<1> QED BY <1>4, <1>5

LEMMA KeptWatch ==
    ASSUME Shape, Asking, Kept, WatchTick \/ Confirm \/ Rest
    PROVE  Kept'
<1>1. UNCHANGED <<program, fade, link, read, wire, switching, sent, transition, current, wanted>>
  BY DEF WatchTick, Confirm, Rest, obsVars, linkVars
<1>2. link # "reading"
  <2>1. CASE WatchTick
    BY <2>1 DEF WatchTick
  <2>2. CASE Confirm \/ Rest
    BY <2>2 DEF Confirm, Rest, Kept, Reads
  <2> QED BY <2>1, <2>2
<1>3. Nowhere(asked', "switch") <=> Nowhere(asked, "switch")
  <2>1. CASE UNCHANGED asked
    BY <2>1
  <2>2. CASE ~UNCHANGED asked
    <3>1. \E scene \in Scenes : Look(scene)
      BY <2>2, Rooms DEF WatchTick, Confirm, Rest, SomeScene
    <3> QED BY <3>1, LookAsks
  <2> QED BY <2>1, <2>2
<1>4. ASSUME Acting', wanted # NoScene PROVE watch'.scene = wanted
  <2>1. watch' # Asleep /\ ~Wake("third") /\ ~(\E s : watch' = [phase |-> "first", scene |-> s])
    BY <1>4, WakeIs, AsleepIs DEF Acting, WatchPhases
  <2>2. Confirm /\ Wake("second") /\ ~transition /\ current = watch.scene /\ wire \o asked = <<>>
    BY <2>1 DEF WatchTick, Confirm, Rest
  <2>3. wire = <<>> /\ asked = <<>>
    <3>1. wire \in Seq(Message) /\ asked \in Seq(Request)
      BY Starts
    <3>2. \A w, a : w \in Seq(Message) /\ a \in Seq(Request) /\ w \o a = <<>> => w = <<>> /\ a = <<>>
      <4> SUFFICES ASSUME NEW w \in Seq(Message), NEW a \in Seq(Request), w \o a = <<>>
                   PROVE  w = <<>> /\ a = <<>>
        OBVIOUS
      <4>1. w \in Seq(Message \cup Request) /\ a \in Seq(Message \cup Request)
        OBVIOUS
      <4>2. Len(w \o a) = Len(w) + Len(a) /\ Len(w) \in Nat /\ Len(a) \in Nat
        BY <4>1, ConcatProperties, LenProperties
      <4>3. Len(w \o a) = 0
        OBVIOUS
      <4>4. Len(w) = 0 /\ Len(a) = 0
        BY <4>2, <4>3
      <4> QED BY <4>1, <4>4, EmptySeq
    <3> QED BY <2>2, <3>1, <3>2
  <2>4. watch.scene \in Scenes
    BY <2>2, Rooms DEF Confirm
  <2>5. link = "up"
    BY <1>2, <2>2, <2>4, Rooms, NoSceneAssumption DEF Connected
  <2>6. watch'.scene = watch.scene
    BY <2>2, WakeIs DEF WatchPhases
  <2> QED BY <1>4, <2>2, <2>3, <2>5, <2>6, Confirmed
<1> QED BY <1>1, <1>2, <1>3, <1>4, KeptLook

LEMMA KeptStep ==
    ASSUME Shape, Asking, Kept, ~Overtaking, [Next]_vars
    PROVE  Kept'
<1>1. CASE UNCHANGED vars
  <2>1. UNCHANGED <<program, fade, link, read, asked, wire, switching, sent, transition, current, watch, wanted>>
    BY <1>1 DEF vars, obsVars, wires, linkVars, roomVars
  <2> QED BY <2>1, KeptLook DEF Kept, Minded, Acting
<1>2. CASE ObsSwitches \/ ObsEnds \/ Hear \/ GiveUp
  BY <1>2, KeptObsSwitches, KeptObsEnds, KeptHear, KeptGiveUp
<1>3. CASE WatchTick \/ Confirm \/ Rest
  BY <1>3, KeptWatch
<1>4. CASE ObsLooks
  <2>1. UNCHANGED <<program, fade, link, read, switching, sent, transition, current, watch, wanted>>
        /\ asked # <<>> /\ Head(asked).type # "switch" /\ asked' = Tail(asked)
        /\ \E off \in BOOLEAN : Say(<<Sources(off)>>)
    BY <1>4 DEF ObsLooks, obsVars, linkVars, roomVars
  <2>2. Nowhere(asked', "switch") <=> Nowhere(asked, "switch")
    BY <2>1, IdleIs
  <2>3. Connected /\ link # "reading"
    BY <2>1, HeadAsked DEF Kept, Reads
  <2> QED BY <2>1, <2>2, <2>3, KeptLook DEF Kept, Minded, Acting
<1>5. CASE LinkLost
  <2>1. /\ link' = "down" /\ switching' = <<>> /\ UNCHANGED <<program, fade>>
        /\ wanted' = IF switching = <<>> THEN wanted ELSE NoScene
        /\ watch' = CASE watch.phase = "settling" -> [watch EXCEPT !.phase = "resting"]
                      [] watch.phase \in {"confirming", "resting"} -> watch
                      [] OTHER -> Asleep
    BY <1>5 DEF LinkLost, Lose, obsVars
  <2>2. ~Acting'
    <3>1. CASE watch.phase = "settling"
      <4>1. watch' = [watch EXCEPT !.phase = "resting"]
        BY <2>1, <3>1
      <4>2. watch'.phase = "resting"
        BY <4>1, Rooms
      <4> QED BY <4>2 DEF Acting
    <3>2. CASE watch.phase \in {"confirming", "resting"}
      BY <2>1, <3>2 DEF Acting
    <3>3. CASE watch.phase \notin {"confirming", "resting", "settling"}
      <4>1. watch' = Asleep
        BY <2>1, <3>3
      <4> QED BY <4>1, AsleepIs DEF Acting
    <3> QED BY <3>1, <3>2, <3>3
  <2>3. Idle' /\ Heading' = Heading
    BY <2>1 DEF Idle, IdleIn, Heading
  <2>4. wanted' # NoScene => wanted' = wanted /\ Idle
    BY <2>1 DEF Idle, IdleIn
  <2> QED BY <2>1, <2>2, <2>3, <2>4 DEF Kept, Promised, Minded, Told, Reads
<1>6. CASE Reconnect
  <2>1. /\ link = "down" /\ fade = NoFade /\ link' = "reading" /\ read' = program /\ watch' = Asleep
        /\ UNCHANGED <<program, fade, asked, wire, switching, wanted, sent>>
    BY <1>6 DEF Reconnect, obsVars, wires
  <2>2. asked = <<>> /\ wire = <<>> /\ switching = <<>>
    BY <2>1, Starts, Rooms DEF Connected
  <2>3. Idle' <=> Idle
    BY <2>1 DEF Idle
  <2>4. Promised'
    BY <2>1, <2>3, PromiseStands DEF Kept
  <2>5. ~Acting'
    BY <2>1, AsleepIs DEF Acting
  <2>6. watch'.phase = "asleep"
    BY <2>1, AsleepIs
  <2> QED BY <2>1, <2>2, <2>4, <2>5, <2>6 DEF Kept, Minded, Told, Reads
<1>7. CASE ObsAnswersStatus
  <2>1. /\ link = "reading" /\ Inventory \notin Range(wire) /\ wire' = Append(wire, Inventory)
        /\ UNCHANGED <<program, fade, asked, link, read, switching, sent, watch, wanted>>
    BY <1>7 DEF ObsAnswersStatus, obsVars, linkVars, roomVars
  <2>2. wire = <<>>
    <3>1. wire \in {<<>>, <<Inventory>>}
      BY <2>1 DEF Kept, Reads
    <3>2. wire = <<Inventory>> => Inventory \in Range(wire)
      <4> SUFFICES ASSUME wire = <<Inventory>> PROVE Inventory \in Range(wire)
        OBVIOUS
      <4>1. 1 \in DOMAIN wire /\ wire[1] = Inventory
        OBVIOUS
      <4> QED BY <4>1 DEF Range
    <3> QED BY <2>1, <3>1, <3>2
  <2>3. wire' = <<Inventory>>
    BY <2>1, <2>2
  <2>4. Idle' <=> Idle
    BY <2>1 DEF Idle
  <2>5. Promised'
    BY <2>1, <2>4, PromiseStands DEF Kept
  <2> QED BY <2>1, <2>3, <2>5 DEF Kept, Minded, Acting, Told, Reads
<1>8. ASSUME NEW s \in Scenes, HandSwitches(s) \/ SetRole(s) PROVE Kept'
  BY <1>8, KeptHand, KeptSetRole
<1> QED BY <1>1, <1>2, <1>3, <1>4, <1>5, <1>6, <1>7, <1>8 DEF Next

\* However many switches wait for one another, however OBS and the link fail, and
\* whatever the watchdog makes of the scene on air: when all is quiet the scene on air is
\* the one asked for last, by the room or by a hand in OBS, unless OBS refused it or ended
\* its transition unheard. The watchdog is out of it as long as nobody switches a scene
\* between its second look and its switch, which nothing in the code prevents.
THEOREM TheLastAskedStays == Spec => [](~Overtaking => LastAskedStays)
<1>1. Init => AskedInv
  <2> SUFFICES ASSUME Init PROVE AskedInv
    OBVIOUS
  <2>1. /\ fade = NoFade /\ asked = <<>> /\ wire = <<>> /\ link = "up" /\ switching = <<>> /\ ~sent
        /\ current = program /\ watch = Asleep /\ wanted = program
    BY DEF Init
  <2>2. Asking /\ Idle
    BY <2>1 DEF Asking, Outstanding, OutFor, NoneIdles, Idle, IdleIn
  <2>3. ProgramHeard(wire, current, program)
    <3>1. 0 \in 0..Len(wire) /\ ~(0 > 0) /\ \A i \in 1..Len(wire) : FALSE
      BY <2>1
    <3> QED BY <2>1, <3>1 DEF ProgramHeard
  <2>4. Kept
    <3>1. Promised
      BY <2>1, <2>2 DEF Promised, Heading
    <3>2. Minded
      BY <2>1, AsleepIs DEF Minded, Acting
    <3>3. Reads
      BY <2>1 DEF Reads, Nowhere
    <3> QED BY <2>1, <2>3, <3>1, <3>2, <3>3 DEF Kept, Told
  <2> QED BY <2>2, <2>4, ShapeInit DEF AskedInv
<1>2. AskedInv /\ [Next]_vars => AskedInv'
  BY ShapeStep, AskingStep, KeptStep DEF AskedInv
<1>3. AskedInv => (~Overtaking => LastAskedStays)
  <2> SUFFICES ASSUME Kept, Quiet, wanted # NoScene PROVE program = wanted
    BY DEF AskedInv, LastAskedStays
  <2>1. Idle /\ Heading = program
    BY DEF Quiet, Idle, IdleIn, Heading
  <2> QED BY <2>1 DEF Kept, Promised
<1> QED BY <1>1, <1>2, <1>3, PTL DEF Spec
=============================================================================
