-------------------------- MODULE SessionsProofs --------------------------
(***************************************************************************)
(* What holds of the terminal sessions for every number of producers,      *)
(* launchers, launches and slots.                                          *)
(***************************************************************************)
EXTENDS Sessions, SequenceTheorems, FiniteSetTheorems, TLAPS

------------------------------------------------------------------------------
(* Lists of launches.                                                       *)

\* A list loses one place; the other launches keep theirs.
LEMMA RemoveAtLength ==
  ASSUME NEW S, NEW s \in Seq(S), NEW i \in DOMAIN s
  PROVE  Len(RemoveAt(s, i)) = Len(s) - 1
<1> DEFINE front == SubSeq(s, 1, i - 1)
           back == SubSeq(s, i + 1, Len(s))
<1>1. front \in Seq(S) /\ Len(front) = i - 1
  OBVIOUS
<1>2. back \in Seq(S) /\ Len(back) = Len(s) - i
  OBVIOUS
<1>3. Len(front \o back) = Len(front) + Len(back)
  BY <1>1, <1>2
<1>4. RemoveAt(s, i) = front \o back
  BY DEF RemoveAt
<1>5. Len(s) \in Nat /\ i \in 1..Len(s)
  OBVIOUS
<1> HIDE DEF front, back
<1>6. QED BY <1>1, <1>2, <1>3, <1>4, <1>5

LEMMA RemoveAtElements ==
  ASSUME NEW S, NEW s \in Seq(S), NEW i \in DOMAIN s, NEW j \in 1..(Len(s) - 1)
  PROVE  RemoveAt(s, i)[j] = IF j < i THEN s[j] ELSE s[j + 1]
<1>1. CASE j < i
  BY <1>1 DEF RemoveAt
<1>2. CASE ~(j < i)
  BY <1>2 DEF RemoveAt
<1>3. QED BY <1>1, <1>2

LEMMA RemoveAtType ==
  ASSUME NEW S, NEW s \in Seq(S), NEW i \in DOMAIN s
  PROVE  RemoveAt(s, i) \in Seq(S)
BY DEF RemoveAt

\* From a list without doubles, removing a place removes its launch.
LEMMA RemoveAtInjective ==
  ASSUME NEW S, NEW s \in Seq(S), NEW i \in DOMAIN s, IsInjective(s)
  PROVE  /\ RemoveAt(s, i) \in Seq(S)
         /\ IsInjective(RemoveAt(s, i))
         /\ Range(RemoveAt(s, i)) = Range(s) \ {s[i]}
<1> DEFINE t == RemoveAt(s, i)
<1>1. /\ t \in Seq(S) /\ DOMAIN t = 1..(Len(s) - 1)
      /\ Len(s) \in Nat /\ DOMAIN s = 1..Len(s)
      /\ \A j \in 1..(Len(s) - 1) : t[j] = IF j < i THEN s[j] ELSE s[j + 1]
  <2>1. t \in Seq(S) /\ Len(t) = Len(s) - 1
    BY RemoveAtType, RemoveAtLength
  <2>2. \A j \in 1..(Len(s) - 1) : t[j] = IF j < i THEN s[j] ELSE s[j + 1]
    BY RemoveAtElements
  <2> HIDE DEF t
  <2>3. QED BY <2>1, <2>2
<1> HIDE DEF t
<1>2. IsInjective(t)
  <2> SUFFICES ASSUME NEW x \in DOMAIN t, NEW y \in DOMAIN t, t[x] = t[y]
               PROVE  x = y
    BY DEF IsInjective
  <2> DEFINE u == IF x < i THEN x ELSE x + 1
             v == IF y < i THEN y ELSE y + 1
  <2>1. u \in DOMAIN s /\ v \in DOMAIN s /\ t[x] = s[u] /\ t[y] = s[v]
    BY <1>1
  <2>2. u = v
    BY <2>1 DEF IsInjective
  <2>3. QED BY <1>1, <2>2
<1>3. ASSUME NEW k \in DOMAIN s, k # i
      PROVE  \E j \in DOMAIN t : t[j] = s[k]
  <2>1. CASE k < i
    BY <1>1, <1>3, <2>1
  <2>2. CASE ~(k < i)
    <3>1. k - 1 \in DOMAIN t /\ t[k - 1] = s[k]
      BY <1>1, <1>3, <2>2
    <3>2. QED BY <3>1
  <2>3. QED BY <2>1, <2>2
<1>4. \A j \in DOMAIN t : \E k \in DOMAIN s : k # i /\ t[j] = s[k]
  BY <1>1
<1>5. Range(t) = Range(s) \ {s[i]}
  BY <1>3, <1>4 DEF Range, IsInjective
<1>6. QED BY <1>1, <1>2, <1>5 DEF t

LEMMA WithoutType ==
  ASSUME NEW S, NEW s \in Seq(S), NEW r
  PROVE  Without(s, r) \in Seq(S)
<1>1. CASE \E i \in DOMAIN s : s[i] = r
  <2>1. (CHOOSE i \in DOMAIN s : s[i] = r) \in DOMAIN s
    BY <1>1
  <2>2. QED BY <1>1, <2>1, RemoveAtType DEF Without
<1>2. QED BY <1>1 DEF Without

\* A list without doubles keeps all launches but the one that is taken out.
LEMMA WithoutInjective ==
  ASSUME NEW S, NEW s \in Seq(S), NEW r, IsInjective(s)
  PROVE  IsInjective(Without(s, r)) /\ Range(Without(s, r)) = Range(s) \ {r}
<1>1. CASE \E i \in DOMAIN s : s[i] = r
  <2> DEFINE k == CHOOSE i \in DOMAIN s : s[i] = r
  <2>1. k \in DOMAIN s /\ s[k] = r
    BY <1>1
  <2>2. Without(s, r) = RemoveAt(s, k)
    BY <1>1 DEF Without
  <2> HIDE DEF k
  <2>3. QED BY <2>1, <2>2, RemoveAtInjective
<1>2. CASE ~\E i \in DOMAIN s : s[i] = r
  BY <1>2 DEF Without, Range
<1>3. QED BY <1>1, <1>2

------------------------------------------------------------------------------
(* Type correctness.                                                        *)

\* The first event or request, and the rest.
LEMMA HeadTail ==
  ASSUME NEW S, NEW s \in Seq(S), s # <<>>
  PROVE  /\ Tail(s) \in Seq(S) /\ Head(s) \in S
         /\ 1 \in DOMAIN s /\ Head(s) = s[1]
         /\ \A k \in DOMAIN Tail(s) : k + 1 \in DOMAIN s /\ Tail(s)[k] = s[k + 1]
OBVIOUS

LEMMA AppendElements ==
  ASSUME NEW S, NEW s \in Seq(S), NEW x \in S
  PROVE  /\ Append(s, x) \in Seq(S)
         /\ \A k \in DOMAIN Append(s, x) :
              \/ k \in DOMAIN s /\ Append(s, x)[k] = s[k]
              \/ k = Len(s) + 1 /\ Append(s, x)[k] = x
OBVIOUS

\* The type invariant, in three parts.
HandlersOK ==
  /\ conn \in [Conns -> Phases]
  /\ source \in [Conns -> Launchers \union {Manual}]
  /\ alive \subseteq Conns /\ killing \subseteq Conns /\ registered \subseteq Conns
  /\ frames \in [Conns -> Seq({"screen", "exit"})]
  /\ forwarder \in [Conns -> {"none", "running", "exited", "closed", "done"}]
  /\ events \in Seq([kind : {"Connected", "Disconnected"}, sid : Conns])
  /\ adding \in Conns \union {NoConn}

LaunchesOK ==
  /\ pending \in [Launchers -> Seq(Requests)]
  /\ due \subseteq Requests
  /\ timer \in [Requests -> {"none", "sleeping", "done"}]
  /\ inbox \in Seq(Commands)
  /\ script \in [req : Requests \union {NoReq},
                 launcher : Launchers \union {Unknown}, opened : BOOLEAN]
  /\ (~Idle => script.launcher \in Launchers)
  /\ windows \in [Launchers -> Nat]

PhoneOK ==
  /\ phone \in [up : BOOLEAN, sessions : SUBSET Conns,
                launches : [Requests ->
                  [status : {"none", "running", "succeeded", "rejected"},
                   sid : Conns \union {NoConn}]]]
  /\ restarts \in Nat
  /\ told \in [Conns -> Seq(Words)]
  /\ answers \in [Requests -> Seq([word : {"succeeded", "rejected"},
                                   sid : Conns \union {NoConn}])]

LEMMA TypeParts ==
  /\ TypeOK <=> HandlersOK /\ LaunchesOK /\ PhoneOK
  /\ TypeOK' <=> HandlersOK' /\ LaunchesOK' /\ PhoneOK'
BY DEF TypeOK, HandlersOK, LaunchesOK, PhoneOK

\* What is said keeps the types.
LEMMA SayType ==
  ASSUME PhoneOK, NEW p \in Conns, NEW words \in Seq(Words), Say(p, words)
  PROVE  told' \in [Conns -> Seq(Words)]
BY DEF PhoneOK, Say

LEMMA ListType ==
  ASSUME PhoneOK, NEW sessions \in SUBSET Conns, List(sessions),
         UNCHANGED <<restarts, answers>>, told' \in [Conns -> Seq(Words)]
  PROVE  PhoneOK'
BY DEF PhoneOK, List

LEMMA WordSequences ==
  /\ <<"added">> \in Seq(Words) /\ <<"screen">> \in Seq(Words)
  /\ <<"removed">> \in Seq(Words) /\ <<"exited", "removed">> \in Seq(Words)
BY DEF Words

LEMMA SayAddedType ==
  ASSUME PhoneOK, NEW p \in Conns, SayAdded(p), UNCHANGED <<restarts, answers>>
  PROVE  PhoneOK'
<1>1. phone.sessions \union {p} \in SUBSET Conns
  BY DEF PhoneOK
<1>2. QED BY <1>1, SayType, ListType, WordSequences DEF SayAdded

LEMMA SayRemovedType ==
  ASSUME PhoneOK, NEW p \in Conns, NEW words \in Seq(Words), SayRemoved(p, words),
         UNCHANGED <<restarts, answers>>
  PROVE  PhoneOK'
<1>1. phone.sessions \ {p} \in SUBSET Conns
  BY DEF PhoneOK
<1>2. QED BY <1>1, SayType, ListType DEF SayRemoved

LEMMA AnswerType ==
  ASSUME PhoneOK, NEW r \in Requests, NEW word \in {"succeeded", "rejected"},
         NEW p \in Conns \union {NoConn}, Answer(r, word, p),
         UNCHANGED <<restarts, told>>
  PROVE  PhoneOK'
<1>1. answers' \in [Requests -> Seq([word : {"succeeded", "rejected"},
                                     sid : Conns \union {NoConn}])]
  <2> DEFINE answer == [word |-> word, sid |-> p]
             Answers == [word : {"succeeded", "rejected"}, sid : Conns \union {NoConn}]
  <2>1. answer \in Answers /\ answers[r] \in Seq(Answers)
    BY DEF PhoneOK
  <2>2. answers' = [answers EXCEPT ![r] = Append(answers[r], answer)]
    BY DEF Answer
  <2> HIDE DEF answer
  <2>3. Append(answers[r], answer) \in Seq(Answers)
    BY <2>1
  <2>4. QED BY <2>2, <2>3 DEF PhoneOK
<1>2. CASE phone.up /\ phone.launches[r].status # "none"
  <2> DEFINE launch == [phone.launches[r] EXCEPT !.status = word, !.sid = p]
  <2>1. launch \in [status : {"none", "running", "succeeded", "rejected"},
                    sid : Conns \union {NoConn}]
    BY DEF PhoneOK
  <2>2. phone' = [phone EXCEPT !.launches = [phone.launches EXCEPT ![r] = launch]]
    BY <1>2 DEF Answer, PhoneOK
  <2> HIDE DEF launch
  <2>3. QED BY <1>1, <2>1, <2>2 DEF PhoneOK
<1>3. CASE ~(phone.up /\ phone.launches[r].status # "none")
  BY <1>1, <1>3 DEF PhoneOK, Answer
<1>4. QED BY <1>2, <1>3

\* The producers.
LEMMA ProducerType ==
  ASSUME TypeOK, NEW p \in Conns, Producer(p)
  PROVE  TypeOK'
<1> USE TypeParts DEF connVars, launchVars
<1>1. ASSUME NEW src \in Launchers \union {Manual}, Connect(p, src)
      PROVE  TypeOK'
  <2>1. HandlersOK' /\ PhoneOK'
    BY <1>1 DEF Connect, HandlersOK, PhoneOK, Phases
  <2>2. windows' \in [Launchers -> Nat]
    <3>1. CASE src = Manual
      BY <1>1, <3>1 DEF Connect, LaunchesOK
    <3>2. CASE src # Manual
      <4>1. windows[src] - 1 \in Nat
        BY <1>1, <3>2 DEF Connect, LaunchesOK
      <4>2. QED BY <1>1, <3>2, <4>1 DEF Connect, LaunchesOK
    <3>3. QED BY <3>1, <3>2
  <2>3. LaunchesOK'
    BY <1>1, <2>2 DEF Connect, LaunchesOK, Idle, Commands
  <2>4. QED BY <2>1, <2>3
<1>2. CASE ShowScreen(p) \/ ChildExits(p) \/ ObeyKill(p) \/ WindowCloses(p)
  <2>1. HandlersOK'
    <3>1. \A word \in {"screen", "exit"} :
            frames[p] \o <<word>> \in Seq({"screen", "exit"})
      BY DEF HandlersOK
    <3>2. frames' \in [Conns -> Seq({"screen", "exit"})]
      BY <1>2, <3>1
         DEF ShowScreen, ChildExits, ObeyKill, WindowCloses, Send, HandlersOK
    <3>3. QED BY <1>2, <3>2
              DEF ShowScreen, ChildExits, ObeyKill, WindowCloses, HandlersOK
  <2>2. LaunchesOK' /\ PhoneOK'
    BY <1>2 DEF ShowScreen, ChildExits, ObeyKill, WindowCloses, LaunchesOK,
                PhoneOK, Idle
  <2>3. QED BY <2>1, <2>2
<1>3. QED BY <1>1, <1>2 DEF Producer

\* The handler of a connection.
LEMMA HandlerType ==
  ASSUME TypeOK, NEW p \in Conns, Handler(p)
  PROVE  TypeOK'
<1> USE TypeParts DEF launchVars, HandlerKeeps
<1>1. /\ HandlerKeeps
      /\ \E phase \in Phases : Goto(p, phase)
      /\ registered' \subseteq Conns
  BY DEF Handler, Register, Welcome, Announce, ReadsEnd, Cleanup, Report, Phases,
         HandlersOK
<1>2. events' \in Seq([kind : {"Connected", "Disconnected"}, sid : Conns])
  <2>1. \A kind \in {"Connected", "Disconnected"} :
          Append(events, [kind |-> kind, sid |-> p]) \in
            Seq([kind : {"Connected", "Disconnected"}, sid : Conns])
    BY DEF HandlersOK
  <2>2. \/ UNCHANGED events
        \/ \E kind \in {"Connected", "Disconnected"} :
             events' = Append(events, [kind |-> kind, sid |-> p])
    BY DEF Handler, Register, Welcome, Announce, ReadsEnd, Cleanup, Report
  <2>3. QED BY <2>1, <2>2 DEF HandlersOK
<1>3. HandlersOK'
  BY <1>1, <1>2 DEF HandlersOK, Goto
<1>4. LaunchesOK' /\ PhoneOK'
  BY <1>1 DEF LaunchesOK, PhoneOK, Idle
<1>5. QED BY <1>3, <1>4

\* The event loop.
LEMMA EventLoopType ==
  ASSUME TypeOK, EventLoop
  PROVE  TypeOK'
<1> USE TypeParts DEF connVars, launchVars
<1>1. ASSUME events # <<>>
      PROVE  /\ Head(events).sid \in Conns
             /\ Tail(events) \in Seq([kind : {"Connected", "Disconnected"}, sid : Conns])
  <2> DEFINE Events == [kind : {"Connected", "Disconnected"}, sid : Conns]
  <2>1. events \in Seq(Events)
    BY DEF HandlersOK
  <2>2. Head(events) \in Events /\ Tail(events) \in Seq(Events)
    BY <1>1, <2>1, HeadTail
  <2>3. QED BY <2>2
<1>2. CASE MatchLaunch
  <2> DEFINE p == Head(events).sid
             l == source[p]
  <2>1. p \in Conns /\ events' \in Seq([kind : {"Connected", "Disconnected"}, sid : Conns])
    BY <1>1, <1>2 DEF MatchLaunch, EventIs
  <2>2. HandlersOK'
    BY <1>2, <2>1 DEF MatchLaunch, HandlersOK
  <2>3. ASSUME l \in Launchers, NEW i \in DOMAIN pending[l],
               pending' = [pending EXCEPT ![l] = RemoveAt(@, i)], Ack(pending[l][i], p)
        PROVE  pending' \in [Launchers -> Seq(Requests)] /\ PhoneOK'
    <3>1. pending[l] \in Seq(Requests) /\ pending[l][i] \in Requests
      BY <2>3 DEF LaunchesOK
    <3>2. RemoveAt(pending[l], i) \in Seq(Requests)
      BY <3>1, RemoveAtType
    <3>3. pending' \in [Launchers -> Seq(Requests)]
      BY <2>3, <3>2 DEF LaunchesOK
    <3>4. PhoneOK'
      BY <1>2, <2>1, <2>3, <3>1, AnswerType DEF MatchLaunch, Ack
    <3>5. QED BY <3>3, <3>4
  <2>4. pending' \in [Launchers -> Seq(Requests)] /\ PhoneOK'
    <3>1. CASE UNCHANGED <<pending, answers, phone>>
      BY <1>2, <3>1 DEF MatchLaunch, LaunchesOK, PhoneOK
    <3>2. QED BY <1>2, <2>3, <3>1 DEF MatchLaunch
  <2>5. LaunchesOK'
    BY <1>2, <2>4 DEF MatchLaunch, LaunchesOK, Idle
  <2>6. QED BY <2>2, <2>4, <2>5
<1>3. CASE AddSession
  <2>1. adding \in Conns
    BY <1>3 DEF AddSession, HandlersOK
  <2>2. HandlersOK' /\ LaunchesOK'
    BY <1>3, <2>1 DEF AddSession, HandlersOK, LaunchesOK, Idle
  <2>3. PhoneOK'
    BY <1>3, <2>1, SayAddedType DEF AddSession
  <2>4. QED BY <2>2, <2>3
<1>4. CASE DropSession
  <2>1. Head(events).sid \in Conns
    BY <1>1, <1>4 DEF DropSession, EventIs
  <2>2. HandlersOK'
    BY <1>1, <1>4 DEF DropSession, EventIs, HandlersOK
  <2>3. LaunchesOK'
    BY <1>4 DEF DropSession, LaunchesOK, Idle
  <2>4. PhoneOK'
    <3>1. CASE UNCHANGED <<told, phone>>
      BY <1>4, <3>1 DEF DropSession, PhoneOK
    <3>2. CASE SayRemoved(Head(events).sid, <<"removed">>)
      BY <1>4, <2>1, <3>2, SayRemovedType, WordSequences DEF DropSession
    <3>3. QED BY <1>4, <3>1, <3>2 DEF DropSession
  <2>5. QED BY <2>2, <2>3, <2>4
<1>5. QED BY <1>2, <1>3, <1>4 DEF EventLoop

\* The frame task of a session.
LEMMA ForwarderType ==
  ASSUME TypeOK, NEW p \in Conns, Forwarder(p)
  PROVE  TypeOK'
<1> USE TypeParts DEF launchVars, ForwarderKeeps
<1>1. /\ ForwarderKeeps /\ registered' \subseteq Conns
      /\ \/ UNCHANGED forwarder
         \/ \E where \in {"exited", "closed", "done"} :
              forwarder' = [forwarder EXCEPT ![p] = where]
  BY DEF Forwarder, ForwardScreen, TakeExit, SayExited, ChannelCloses, SayClosed,
         HandlersOK
<1>2. frames' \in [Conns -> Seq({"screen", "exit"})]
  <2>1. frames[p] # <<>> => Tail(frames[p]) \in Seq({"screen", "exit"})
    BY HeadTail DEF HandlersOK
  <2>2. QED
    BY <2>1 DEF Forwarder, ForwardScreen, TakeExit, SayExited, ChannelCloses,
                SayClosed, Takes, HandlersOK
<1>3. HandlersOK'
  BY <1>1, <1>2 DEF HandlersOK
<1>4. LaunchesOK'
  BY <1>1 DEF LaunchesOK, Idle
<1>5. PhoneOK'
  <2>1. CASE ForwardScreen(p)
    <3>1. told' \in [Conns -> Seq(Words)]
      BY <2>1, SayType, WordSequences DEF ForwardScreen, PhoneOK
    <3>2. QED BY <2>1, <3>1 DEF ForwardScreen, PhoneOK
  <2>2. CASE TakeExit(p) \/ ChannelCloses(p)
    BY <1>1, <2>2 DEF TakeExit, ChannelCloses, PhoneOK
  <2>3. CASE SayExited(p)
    BY <1>1, <2>3, SayRemovedType, WordSequences DEF SayExited
  <2>4. CASE SayClosed(p)
    BY <1>1, <2>4, SayRemovedType, WordSequences DEF SayClosed
  <2>5. QED BY <2>1, <2>2, <2>3, <2>4 DEF Forwarder
<1>6. QED BY <1>3, <1>4, <1>5

\* The request at the head of the dispatcher's queue.
LEMMA RequestType ==
  ASSUME TypeOK, NEW kind, RequestIs(kind)
  PROVE  /\ Tail(inbox) \in Seq(Commands) /\ Head(inbox) \in Commands
         /\ Head(inbox).kind = kind
         /\ kind = "launch" => /\ Head(inbox).req \in Requests
                               /\ Head(inbox).launcher \in Launchers \union {Unknown}
<1>1. inbox \in Seq(Commands) /\ inbox # <<>> /\ Head(inbox).kind = kind
  BY DEF TypeOK, RequestIs
<1>2. Tail(inbox) \in Seq(Commands) /\ Head(inbox) \in Commands
  BY <1>1, HeadTail
<1>3. QED BY <1>1, <1>2 DEF Commands

\* The dispatcher, and Terminal.
LEMMA DispatcherType ==
  ASSUME TypeOK, Dispatcher \/ TerminalOpens
  PROVE  TypeOK'
<1> USE TypeParts DEF DispatcherKeeps
<1>1. HandlersOK'
  BY DEF Dispatcher, LaunchSession, TerminalOpens, ScriptSucceeds, ScriptFails,
         KillSession, HandlersOK
<1>2. CASE LaunchSession
  <2> DEFINE r == Head(inbox).req
             l == Head(inbox).launcher
  <2>1. /\ r \in Requests /\ l \in Launchers \union {Unknown}
        /\ inbox' \in Seq(Commands)
    BY <1>2, RequestType DEF LaunchSession
  <2> HIDE DEF r, l
  <2>2. CASE l \in Launchers
    <3>1. Append(pending[l], r) \in Seq(Requests)
      BY <2>1, <2>2 DEF LaunchesOK
    <3>2. pending' \in [Launchers -> Seq(Requests)]
      BY <1>2, <2>2, <3>1 DEF LaunchSession, LaunchesOK, r, l
    <3>3. /\ script' = [req |-> r, launcher |-> l, opened |-> FALSE]
          /\ timer' = [timer EXCEPT ![r] = "sleeping"]
      BY <1>2, <2>2 DEF LaunchSession, r, l
    <3>4. LaunchesOK' /\ PhoneOK'
      BY <1>2, <2>1, <2>2, <3>2, <3>3 DEF LaunchSession, LaunchesOK, PhoneOK, Idle, r, l
    <3>5. QED BY <1>1, <3>4
  <2>3. CASE l \notin Launchers
    <3>1. Reject(r) /\ UNCHANGED <<pending, timer, script, due, windows, restarts, told>>
      BY <1>2, <2>3 DEF LaunchSession, r, l
    <3>2. PhoneOK'
      BY <2>1, <3>1, AnswerType DEF Reject
    <3>3. LaunchesOK'
      BY <2>1, <3>1 DEF LaunchesOK, Idle
    <3>4. QED BY <1>1, <3>2, <3>3
  <2>4. QED BY <2>2, <2>3
<1>3. CASE TerminalOpens
  <2>1. script.launcher \in Launchers
    BY <1>3 DEF TerminalOpens, LaunchesOK
  <2>2. windows' \in [Launchers -> Nat]
    <3>1. windows[script.launcher] + 1 \in Nat
      BY <2>1 DEF LaunchesOK
    <3>2. QED BY <1>3, <2>1, <3>1 DEF TerminalOpens, LaunchesOK
  <2>3. LaunchesOK'
    BY <1>3, <2>1, <2>2 DEF TerminalOpens, LaunchesOK, Idle
  <2>4. PhoneOK'
    BY <1>3 DEF TerminalOpens, PhoneOK
  <2>5. QED BY <1>1, <2>3, <2>4
<1>4. CASE ScriptSucceeds
  BY <1>1, <1>4 DEF ScriptSucceeds, LaunchesOK, PhoneOK, Idle, NoScript
<1>5. CASE ScriptFails
  <2>1. script.launcher \in Launchers /\ script.req \in Requests
    BY <1>5 DEF ScriptFails, LaunchesOK, Idle
  <2>2. PhoneOK'
    BY <1>5, <2>1, AnswerType DEF ScriptFails, Reject
  <2>3. Without(pending[script.launcher], script.req) \in Seq(Requests)
    BY <2>1, WithoutType DEF LaunchesOK
  <2>4. LaunchesOK'
    BY <1>5, <2>1, <2>3 DEF ScriptFails, LaunchesOK, Idle, NoScript
  <2>5. QED BY <1>1, <2>2, <2>4
<1>6. CASE KillSession
  <2>1. inbox' \in Seq(Commands)
    BY <1>6, RequestType DEF KillSession
  <2>2. LaunchesOK' /\ PhoneOK'
    BY <1>6, <2>1 DEF KillSession, LaunchesOK, PhoneOK, Idle
  <2>3. QED BY <1>1, <2>2
<1>7. QED BY <1>2, <1>3, <1>4, <1>5, <1>6 DEF Dispatcher

\* Deadlines and timers.
LEMMA TimerType ==
  ASSUME TypeOK, NEW r \in Requests, DeadlinePasses(r) \/ TimerFires(r)
  PROVE  TypeOK'
<1> USE TypeParts DEF DispatcherKeeps
<1>1. HandlersOK'
  BY DEF DeadlinePasses, TimerFires, HandlersOK
<1>2. CASE DeadlinePasses(r)
  BY <1>1, <1>2 DEF DeadlinePasses, LaunchesOK, PhoneOK, Idle
<1>3. CASE TimerFires(r)
  <2>1. \A l \in Launchers : Without(pending[l], r) \in Seq(Requests)
    BY WithoutType DEF LaunchesOK
  <2>2. pending' \in [Launchers -> Seq(Requests)]
    BY <1>3, <2>1 DEF TimerFires, LaunchesOK
  <2>3. LaunchesOK'
    BY <1>3, <2>2 DEF TimerFires, LaunchesOK, Idle
  <2>4. PhoneOK'
    <3>1. CASE UNCHANGED <<answers, phone>>
      BY <1>3, <3>1 DEF TimerFires, PhoneOK
    <3>2. CASE Reject(r)
      BY <1>3, <3>2, AnswerType DEF TimerFires, Reject
    <3>3. QED BY <1>3, <3>1, <3>2 DEF TimerFires
  <2>5. QED BY <1>1, <2>3, <2>4
<1>4. QED BY <1>2, <1>3

\* The phone.
LEMMA PhoneType ==
  ASSUME TypeOK, Phone
  PROVE  TypeOK'
<1> USE TypeParts DEF PhoneKeeps, connVars
<1>1. HandlersOK'
  BY DEF Phone, Launch, Kill, PruneLaunch, PhoneDies, PhoneReconnects, HandlersOK
<1>2. inbox' \in Seq(Commands)
  <2>1. ASSUME NEW r \in Requests, NEW l \in Launchers \union {Unknown}, Launch(r, l)
        PROVE  inbox' \in Seq(Commands)
    <3>1. [kind |-> "launch", req |-> r, launcher |-> l, sid |-> NoConn] \in Commands
      BY DEF Commands
    <3>2. QED BY <2>1, <3>1, AppendElements DEF Launch, Ask, LaunchesOK
  <2>2. ASSUME NEW p \in Conns, Kill(p)
        PROVE  inbox' \in Seq(Commands)
    <3>1. [kind |-> "kill", req |-> NoReq, launcher |-> Unknown, sid |-> p] \in Commands
      BY DEF Commands
    <3>2. QED BY <2>2, <3>1, AppendElements DEF Kill, Ask, LaunchesOK
  <2>3. QED BY <2>1, <2>2 DEF Phone, PruneLaunch, PhoneDies, PhoneReconnects, LaunchesOK
<1>3. LaunchesOK'
  BY <1>2 DEF Phone, Launch, Kill, PruneLaunch, PhoneDies, PhoneReconnects,
              LaunchesOK, Idle
<1>4. PhoneOK'
  <2>1. ASSUME NEW r \in Requests, NEW l \in Launchers \union {Unknown}, Launch(r, l)
        PROVE  PhoneOK'
    BY <2>1 DEF Launch, PhoneOK, NoLaunch
  <2>2. ASSUME NEW r \in Requests, PruneLaunch(r)
        PROVE  PhoneOK'
    BY <2>2 DEF PruneLaunch, PhoneOK, NoLaunch
  <2>3. ASSUME NEW p \in Conns, Kill(p)
        PROVE  PhoneOK'
    BY <2>3 DEF Kill, PhoneOK
  <2>4. FreshPhone \in [up : BOOLEAN, sessions : SUBSET Conns,
                        launches : [Requests ->
                          [status : {"none", "running", "succeeded", "rejected"},
                           sid : Conns \union {NoConn}]]]
    BY DEF FreshPhone, NoLaunch
  <2>5. CASE PhoneDies \/ PhoneReconnects
    <3> DEFINE Phones == [up : BOOLEAN, sessions : SUBSET Conns,
                          launches : [Requests ->
                            [status : {"none", "running", "succeeded", "rejected"},
                             sid : Conns \union {NoConn}]]]
    <3>1. [FreshPhone EXCEPT !.up = FALSE] \in Phones
      BY <2>4
    <3>2. phone' \in Phones
      BY <2>4, <2>5, <3>1 DEF PhoneDies, PhoneReconnects
    <3>3. restarts' \in Nat /\ UNCHANGED <<told, answers>>
      BY <2>5 DEF PhoneDies, PhoneReconnects, PhoneOK
    <3>4. QED BY <3>2, <3>3 DEF PhoneOK
  <2>6. QED BY <2>1, <2>2, <2>3, <2>5 DEF Phone
<1>5. QED BY <1>1, <1>3, <1>4

LEMMA TypeStep == TypeOK /\ [Next]_vars => TypeOK'
<1> SUFFICES ASSUME TypeOK, [Next]_vars PROVE TypeOK'
  OBVIOUS
<1>1. CASE UNCHANGED vars
  BY <1>1, TypeParts
     DEF vars, connVars, launchVars, HandlersOK, LaunchesOK, PhoneOK, Idle
<1>2. QED
  BY <1>1, ProducerType, HandlerType, ForwarderType, EventLoopType, DispatcherType,
     TimerType, PhoneType DEF Next

LEMMA TypeInit == Init => TypeOK
<1> SUFFICES ASSUME Init PROVE TypeOK
  OBVIOUS
<1>1. HandlersOK
  BY DEF Init, HandlersOK, Phases
<1>2. LaunchesOK
  BY DEF Init, LaunchesOK, Idle, NoScript
<1>3. PhoneOK
  BY DEF Init, PhoneOK, FreshPhone, NoLaunch
<1>4. QED BY <1>1, <1>2, <1>3, TypeParts

\* Type correctness: every variable has its type, for all constants.
THEOREM TypeCorrect == Spec => []TypeOK
BY TypeInit, TypeStep, PTL DEF Spec

------------------------------------------------------------------------------
(* The slots of the registry.                                               *)

SlotsInv == TypeOK /\ IsFiniteSet(registered) /\ SlotsAreOwned

\* A step outside the handlers frees slots at most, and a connection's handler
\* moves only if it is the new connection's.
LEMMA OthersLeaveSlots ==
  ASSUME TypeOK,
         \/ \E p \in Conns : Producer(p) \/ Forwarder(p)
         \/ EventLoop \/ Dispatcher \/ TerminalOpens \/ Phone
         \/ \E r \in Requests : DeadlinePasses(r) \/ TimerFires(r)
  PROVE  /\ registered' \subseteq registered
         /\ \A p \in Conns : conn[p] # "free" => conn'[p] = conn[p]
<1> USE DEF connVars, launchVars, DispatcherKeeps, ForwarderKeeps, PhoneKeeps
<1>1. ASSUME NEW q \in Conns, Producer(q)
      PROVE  registered' = registered /\ \A p \in Conns : conn[p] # "free" => conn'[p] = conn[p]
  BY <1>1 DEF Producer, Connect, ShowScreen, ChildExits, ObeyKill, WindowCloses, TypeOK
<1>2. ASSUME NEW q \in Conns, Forwarder(q)
      PROVE  registered' \subseteq registered /\ conn' = conn
  BY <1>2 DEF Forwarder, ForwardScreen, TakeExit, SayExited, ChannelCloses, SayClosed
<1>3. ASSUME EventLoop
      PROVE  registered' \subseteq registered /\ conn' = conn
  BY <1>3 DEF EventLoop, MatchLaunch, AddSession, DropSession
<1>4. ASSUME Dispatcher \/ TerminalOpens \/ Phone
      PROVE  UNCHANGED <<registered, conn>>
  BY <1>4 DEF Dispatcher, LaunchSession, ScriptSucceeds, ScriptFails, KillSession,
              TerminalOpens, Phone, Launch, Kill, PruneLaunch, PhoneDies,
              PhoneReconnects
<1>5. ASSUME NEW r \in Requests, DeadlinePasses(r) \/ TimerFires(r)
      PROVE  UNCHANGED <<registered, conn>>
  BY <1>5 DEF DeadlinePasses, TimerFires
<1>6. QED BY <1>1, <1>2, <1>3, <1>4, <1>5

LEMMA SlotsStep == SlotsInv /\ [Next]_vars => SlotsInv'
<1> SUFFICES ASSUME SlotsInv, [Next]_vars PROVE SlotsInv'
  OBVIOUS
<1>1. TypeOK'
  BY TypeStep DEF SlotsInv
<1>2. /\ TypeOK /\ registered \subseteq Conns
      /\ IsFiniteSet(registered) /\ Cardinality(registered) <= MAX_SESSIONS
      /\ Cardinality(registered) \in Nat /\ MAX_SESSIONS \in Nat
  BY FS_CardinalityType, ConstantsAssumption DEF SlotsInv, SlotsAreOwned, TypeOK
<1>3. ASSUME registered' \subseteq registered,
             \A p \in registered' : conn'[p] \in {"welcome", "announce", "reading", "cleanup"}
      PROVE  SlotsInv'
  <2>1. /\ IsFiniteSet(registered') /\ Cardinality(registered') <= Cardinality(registered)
        /\ Cardinality(registered') \in Nat
    BY <1>2, <1>3, FS_Subset, FS_CardinalityType
  <2>2. QED BY <1>1, <1>2, <1>3, <2>1 DEF SlotsInv, SlotsAreOwned
<1>4. ASSUME NEW p \in Conns, Register(p)
      PROVE  SlotsInv'
  <2>1. CASE HasRoom
    <3>1. IsFiniteSet(registered') /\ Cardinality(registered') <= MAX_SESSIONS
      BY <1>2, <1>4, <2>1, FS_AddElement DEF Register, HasRoom
    <3>2. \A q \in registered' : conn'[q] \in {"welcome", "announce", "reading", "cleanup"}
      BY <1>2, <1>4, <2>1 DEF Register, Goto, SlotsInv, SlotsAreOwned, TypeOK
    <3>3. QED BY <1>1, <3>1, <3>2 DEF SlotsInv, SlotsAreOwned
  <2>2. CASE ~HasRoom
    BY <1>2, <1>3, <1>4, <2>2 DEF Register, Goto, SlotsInv, SlotsAreOwned, TypeOK
  <2>3. QED BY <2>1, <2>2
<1>5. ASSUME NEW p \in Conns, Welcome(p) \/ Announce(p) \/ ReadsEnd(p) \/ Cleanup(p) \/ Report(p)
      PROVE  SlotsInv'
  <2>1. /\ registered' \subseteq registered
        /\ \A q \in registered' : conn'[q] \in {"welcome", "announce", "reading", "cleanup"}
    BY <1>2, <1>5
       DEF Welcome, Announce, ReadsEnd, Cleanup, Report, Goto, SlotsInv, SlotsAreOwned, TypeOK
  <2>2. QED BY <1>3, <2>1
<1>6. CASE UNCHANGED vars
  BY <1>3, <1>6 DEF vars, connVars, SlotsInv, SlotsAreOwned
<1>7. ASSUME /\ registered' \subseteq registered
             /\ \A p \in Conns : conn[p] # "free" => conn'[p] = conn[p]
      PROVE  SlotsInv'
  BY <1>2, <1>3, <1>7 DEF SlotsInv, SlotsAreOwned
<1>8. QED BY <1>2, <1>4, <1>5, <1>6, <1>7, OthersLeaveSlots DEF Next, Handler

LEMMA SlotsInit == Init => SlotsInv
BY TypeInit, FS_EmptySet, ConstantsAssumption DEF Init, SlotsInv, SlotsAreOwned

\* No slot leaks: every slot is held by a session whose handler will free it, and
\* the registry never outgrows its limit, for any number of producers.
THEOREM NoSlotLeaks == Spec => []SlotsAreOwned
<1>1. SlotsInv => SlotsAreOwned
  BY DEF SlotsInv
<1>2. QED BY <1>1, SlotsInit, SlotsStep, PTL DEF Spec

------------------------------------------------------------------------------
(* What is said about a session: Sessions implements SessionLifecycle.      *)

\* A session that has been announced, or whose announcement is on its way.
Announced == {"reading", "cleanup", "report", "closed"}

\* What the frame task, the event loop and the phone's history know of a session.
SessionInv(p) ==
  /\ forwarder[p] = "none" <=> told[p] = <<>>
  /\ forwarder[p] \in {"running", "exited", "closed"} => Lifecycle!Open(p)
  /\ adding = p => told[p] = <<>>
  /\ told[p] # <<>> \/ adding = p => conn[p] \in Announced

\* A connection that the event loop has yet to see is not known to anyone, and a
\* disconnection is the last that is heard of a handler.
EventInv(e) ==
  /\ e.kind = "Connected" =>
       /\ told[e.sid] = <<>> /\ adding # e.sid /\ conn[e.sid] \in Announced
  /\ e.kind = "Disconnected" => conn[e.sid] = "closed"

ConnectedOnce ==
  \A i, j \in DOMAIN events :
    events[i].kind = "Connected" /\ events[j].kind = "Connected"
      /\ events[i].sid = events[j].sid => i = j

LifeInv ==
  /\ SlotsInv
  /\ \A p \in Conns : SessionInv(p)
  /\ \A i \in DOMAIN events : EventInv(events[i])
  /\ ConnectedOnce

LEMMA FirstScreen == <<"added">> \o <<"screen">> = <<"added", "screen">>
<1> DEFINE a == <<"added">>
           b == <<"screen">>
           c == <<"added", "screen">>
           S == {"added", "screen"}
<1>1. a \in Seq(S) /\ Len(a) = 1 /\ a[1] = "added"
  OBVIOUS
<1>2. b \in Seq(S) /\ Len(b) = 1 /\ b[1] = "screen"
  OBVIOUS
<1>3. c \in Seq(S) /\ Len(c) = 2 /\ c[1] = "added" /\ c[2] = "screen"
  OBVIOUS
<1> HIDE DEF a, b, c, S
<1>4. /\ a \o b \in Seq(S) /\ Len(a \o b) = Len(a) + Len(b)
      /\ \A i \in 1..(Len(a) + Len(b)) :
           (a \o b)[i] = IF i <= Len(a) THEN a[i] ELSE b[i - Len(a)]
  BY <1>1, <1>2, ConcatProperties
<1>5. Len(a \o b) = 2 /\ (a \o b)[1] = c[1] /\ (a \o b)[2] = c[2]
  BY <1>1, <1>2, <1>3, <1>4
<1>6. a \o b = c
  BY <1>3, <1>4, <1>5, SeqEqual
<1>7. QED BY <1>6 DEF a, b, c

\* What the histories of an open session end with.
LEMMA OpenHistories ==
  /\ <<>> \o <<"added">> = <<"added">>
  /\ Last(<<"added">>) = "added" /\ Last(<<"added", "screen">>) = "screen"
  /\ <<"added">> # <<>> /\ <<"added", "screen">> # <<>>
BY DEF Last

LEMMA EventSids ==
  ASSUME TypeOK, NEW i \in DOMAIN events
  PROVE  events[i].sid \in Conns /\ events[i].kind \in {"Connected", "Disconnected"}
<1> DEFINE Events == [kind : {"Connected", "Disconnected"}, sid : Conns]
<1>1. events \in Seq(Events)
  BY DEF TypeOK
<1>2. events[i] \in Events
  <2> HIDE DEF Events
  <2>1. QED BY <1>1
<1>3. QED BY <1>2

\* A step that neither says nor announces anything.
LEMMA LifeQuiet ==
  ASSUME LifeInv, SlotsInv', UNCHANGED <<told, forwarder, adding, events>>,
         \A p \in Conns : conn[p] \in Announced => conn'[p] \in Announced,
         \A p \in Conns : conn[p] = "closed" => conn'[p] = "closed"
  PROVE  LifeInv'
<1>1. \A p \in Conns : SessionInv(p)'
  BY DEF LifeInv, SessionInv, Lifecycle!Open
<1>2. \A i \in DOMAIN events : events[i].sid \in Conns
  BY EventSids DEF LifeInv, SlotsInv
<1>3. \A i \in DOMAIN events : EventInv(events[i])'
  BY <1>2 DEF LifeInv, EventInv
<1>4. ConnectedOnce'
  BY DEF LifeInv, ConnectedOnce
<1>5. QED BY <1>1, <1>3, <1>4 DEF LifeInv

\* The event loop takes an event.
LEMMA LifeTail ==
  ASSUME LifeInv, events # <<>>, events' = Tail(events)
  PROVE  /\ Head(events).sid \in Conns /\ EventInv(Head(events))
         /\ \A i \in DOMAIN events' :
              /\ events'[i].sid \in Conns /\ EventInv(events'[i])
              /\ Head(events).kind = "Connected" /\ events'[i].kind = "Connected"
                   => events'[i].sid # Head(events).sid
         /\ ConnectedOnce'
<1> DEFINE Events == [kind : {"Connected", "Disconnected"}, sid : Conns]
<1>1. events \in Seq(Events)
  BY DEF LifeInv, SlotsInv, TypeOK
<1>2. /\ Tail(events) \in Seq(Events) /\ Head(events) \in Events
      /\ 1 \in DOMAIN events /\ Head(events) = events[1]
      /\ \A k \in DOMAIN Tail(events) :
           k + 1 \in DOMAIN events /\ Tail(events)[k] = events[k + 1]
  BY <1>1, HeadTail
<1>3. \A k \in DOMAIN events' : k \in Nat /\ k > 0
  BY <1>1, <1>2
<1>4. ASSUME NEW i \in DOMAIN events'
      PROVE  events'[i].sid \in Conns /\ EventInv(events'[i])
  <2>1. i + 1 \in DOMAIN events /\ events'[i] = events[i + 1]
    BY <1>2
  <2>2. events[i + 1].sid \in Conns /\ EventInv(events[i + 1])
    BY <2>1, EventSids DEF LifeInv, SlotsInv
  <2>3. QED BY <2>1, <2>2
<1>5. ASSUME NEW i \in DOMAIN events', Head(events).kind = "Connected",
             events'[i].kind = "Connected"
      PROVE  events'[i].sid # Head(events).sid
  <2>1. i + 1 \in DOMAIN events /\ events'[i] = events[i + 1] /\ i + 1 # 1
    BY <1>2, <1>3
  <2>2. QED BY <1>2, <1>5, <2>1 DEF LifeInv, ConnectedOnce
<1>6. ConnectedOnce'
  <2> SUFFICES ASSUME NEW i \in DOMAIN events', NEW j \in DOMAIN events',
                      events'[i].kind = "Connected", events'[j].kind = "Connected",
                      events'[i].sid = events'[j].sid
               PROVE  i = j
    BY DEF ConnectedOnce
  <2>1. i + 1 = j + 1
    BY <1>2 DEF LifeInv, ConnectedOnce
  <2>2. QED BY <1>3, <2>1
<1>7. QED BY <1>2, <1>4, <1>5, <1>6 DEF LifeInv

\* The handler of a connection.
LEMMA LifeHandler ==
  ASSUME LifeInv, SlotsInv', NEW p \in Conns, Handler(p)
  PROVE  LifeInv' /\ UNCHANGED told
<1> USE DEF HandlerKeeps
<1> DEFINE Events == [kind : {"Connected", "Disconnected"}, sid : Conns]
<1>0. TypeOK /\ events \in Seq(Events)
  BY DEF LifeInv, SlotsInv, TypeOK
<1>1. CASE Register(p) \/ Welcome(p) \/ ReadsEnd(p) \/ Cleanup(p)
  <2>1. /\ UNCHANGED <<told, forwarder, adding, events>>
        /\ \A q \in Conns : conn[q] \in Announced => conn'[q] \in Announced
        /\ \A q \in Conns : conn[q] = "closed" => conn'[q] = "closed"
    BY <1>0, <1>1 DEF Register, Welcome, ReadsEnd, Cleanup, Goto, Announced, TypeOK
  <2>2. QED BY <2>1, LifeQuiet
<1>2. ASSUME NEW kind \in {"Connected", "Disconnected"},
             events' = Append(events, [kind |-> kind, sid |-> p]),
             UNCHANGED <<told, forwarder, adding>>,
             conn' \in [Conns -> Phases], conn'[p] \in Announced,
             \A q \in Conns \ {p} : conn'[q] = conn[q],
             conn[p] # "closed",
             kind = "Connected" => conn[p] \notin Announced,
             kind = "Disconnected" => conn'[p] = "closed"
      PROVE  LifeInv'
  <2> DEFINE e == [kind |-> kind, sid |-> p]
  <2>1. /\ \A k \in DOMAIN events' :
             \/ k \in DOMAIN events /\ events'[k] = events[k]
             \/ k = Len(events) + 1 /\ events'[k] = e
        /\ e \in Events /\ e.kind = kind /\ e.sid = p
    BY <1>0, <1>2, AppendElements
  <2> HIDE DEF e
  <2>2. \A q \in Conns : SessionInv(q)'
    BY <1>2 DEF LifeInv, SessionInv, Lifecycle!Open
  <2>3. kind = "Connected" => told[p] = <<>> /\ adding # p
    BY <1>2 DEF LifeInv, SessionInv
  <2>4. ASSUME NEW i \in DOMAIN events', i \in DOMAIN events, events'[i] = events[i]
        PROVE  EventInv(events[i])'
    <3>1. events[i].sid \in Conns
      BY <1>0, <2>4, EventSids
    <3>2. EventInv(events[i])
      BY <2>4 DEF LifeInv
    <3>3. QED BY <1>2, <2>4, <3>1, <3>2 DEF EventInv
  <2>5. \A i \in DOMAIN events' : EventInv(events[i])'
    <3>1. ASSUME NEW i \in DOMAIN events', events'[i] = e
          PROVE  EventInv(events[i])'
      BY <1>2, <2>1, <2>3, <3>1 DEF EventInv
    <3>2. QED BY <2>1, <2>4, <3>1
  <2>6. \A i \in DOMAIN events :
          kind = "Connected" /\ events[i].kind = "Connected" => events[i].sid # p
    BY <1>2 DEF LifeInv, EventInv
  <2>7. ConnectedOnce'
    BY <2>1, <2>6 DEF LifeInv, ConnectedOnce
  <2>8. QED BY <2>2, <2>5, <2>7 DEF LifeInv
<1>3. CASE Announce(p)
  BY <1>0, <1>2, <1>3 DEF Announce, Goto, Announced, TypeOK, Phases
<1>4. CASE Report(p)
  BY <1>0, <1>2, <1>4 DEF Report, Goto, Announced, TypeOK, Phases
<1>5. QED BY <1>1, <1>3, <1>4 DEF Handler

\* The event loop.
LEMMA LifeEventLoop ==
  ASSUME LifeInv, SlotsInv', EventLoop
  PROVE  LifeInv' /\ [Lifecycle!Next]_told
<1> USE DEF connVars, launchVars
<1>0. TypeOK
  BY DEF LifeInv, SlotsInv
<1>1. CASE MatchLaunch
  <2> DEFINE p == Head(events).sid
  <2>1. /\ events # <<>> /\ events' = Tail(events) /\ adding = NoConn /\ adding' = p
        /\ Head(events).kind = "Connected" /\ UNCHANGED <<told, forwarder, conn>>
    BY <1>1 DEF MatchLaunch, EventIs
  <2>2. p \in Conns /\ told[p] = <<>> /\ conn[p] \in Announced
    BY <2>1, LifeTail DEF EventInv
  <2> HIDE DEF p
  <2>3. \A q \in Conns : SessionInv(q)'
    BY <2>1, <2>2 DEF LifeInv, SessionInv, Lifecycle!Open
  <2>4. ASSUME NEW i \in DOMAIN events'
        PROVE  EventInv(events[i])'
    <3>1. /\ EventInv(events'[i]) /\ events'[i].sid \in Conns
          /\ events'[i].kind = "Connected" => events'[i].sid # p
      BY <2>1, LifeTail DEF p
    <3>2. QED BY <2>1, <3>1 DEF EventInv
  <2>5. ConnectedOnce'
    BY <2>1, LifeTail
  <2>6. QED BY <2>1, <2>3, <2>4, <2>5 DEF LifeInv
<1>2. CASE AddSession
  <2> DEFINE p == adding
  <2>1. p \in Conns /\ told[p] = <<>> /\ forwarder[p] = "none" /\ conn[p] \in Announced
    BY <1>0, <1>2 DEF AddSession, LifeInv, SessionInv, TypeOK
  <2>2. /\ told' = [told EXCEPT ![p] = <<>> \o <<"added">>]
        /\ forwarder' = [forwarder EXCEPT ![p] = "running"]
        /\ adding' = NoConn /\ UNCHANGED <<events, conn>>
    BY <1>2, <2>1 DEF AddSession, SayAdded, Say
  <2>3. told' = [told EXCEPT ![p] = <<"added">>]
    BY <2>2, OpenHistories
  <2> HIDE DEF p
  <2>4. NoConn \notin Conns
    BY ConstantsAssumption
  <2>5. \A q \in Conns : SessionInv(q)'
    BY <1>0, <2>1, <2>2, <2>3, <2>4, OpenHistories
       DEF LifeInv, SessionInv, Lifecycle!Open, TypeOK
  <2>6. ASSUME NEW i \in DOMAIN events'
        PROVE  EventInv(events[i])'
    <3>1. /\ EventInv(events[i]) /\ events'[i] = events[i] /\ events[i].sid \in Conns
      BY <1>0, <2>2, EventSids DEF LifeInv
    <3>2. events[i].kind = "Connected" => events[i].sid # p
      BY <3>1 DEF EventInv, p
    <3>3. QED BY <1>0, <2>2, <2>3, <2>4, <3>1, <3>2 DEF EventInv, TypeOK
  <2>7. ConnectedOnce'
    BY <2>2 DEF LifeInv, ConnectedOnce
  <2>8. LifeInv'
    BY <2>5, <2>6, <2>7 DEF LifeInv
  <2>9. Lifecycle!Announce(p)
    BY <2>1, <2>2 DEF Lifecycle!Announce, Lifecycle!Say
  <2>10. QED BY <2>1, <2>8, <2>9 DEF Lifecycle!Next
<1>3. CASE DropSession
  <2> DEFINE p == Head(events).sid
  <2>1. /\ events # <<>> /\ events' = Tail(events) /\ Head(events).kind = "Disconnected"
        /\ UNCHANGED <<forwarder, conn, adding>>
    BY <1>3 DEF DropSession, EventIs
  <2>2. p \in Conns /\ conn[p] = "closed"
    BY <2>1, LifeTail DEF EventInv
  <2>3. UNCHANGED told
    BY <1>3, <2>2 DEF DropSession, LifeInv, SlotsInv, SlotsAreOwned
  <2>4. \A q \in Conns : SessionInv(q)'
    BY <2>1, <2>3 DEF LifeInv, SessionInv, Lifecycle!Open
  <2>5. ASSUME NEW i \in DOMAIN events'
        PROVE  EventInv(events[i])'
    <3>1. EventInv(events'[i])
      BY <2>1, LifeTail
    <3>2. QED BY <2>1, <2>3, <3>1 DEF EventInv
  <2>6. ConnectedOnce'
    BY <2>1, LifeTail
  <2>7. QED BY <2>3, <2>4, <2>5, <2>6 DEF LifeInv
<1>4. QED BY <1>1, <1>2, <1>3 DEF EventLoop

\* The frame task of a session says its screens and its end.
LEMMA LifeForwarder ==
  ASSUME LifeInv, SlotsInv', NEW p \in Conns, Forwarder(p)
  PROVE  LifeInv' /\ [Lifecycle!Next]_told
<1> USE DEF ForwarderKeeps
<1>0. TypeOK /\ UNCHANGED <<conn, adding, events>>
  BY DEF LifeInv, SlotsInv, Forwarder, ForwardScreen, TakeExit, SayExited,
         ChannelCloses, SayClosed
<1>1. told[p] # <<>> /\ adding # p /\ Lifecycle!Open(p)
  BY OpenHistories
     DEF Forwarder, ForwardScreen, TakeExit, SayExited, ChannelCloses, SayClosed,
         LifeInv, SessionInv
<1>2. ASSUME told'[p] # <<>>, \A q \in Conns \ {p} : told'[q] = told[q] /\ forwarder'[q] = forwarder[q],
             forwarder'[p] # "none",
             forwarder'[p] \in {"running", "exited", "closed"} => Lifecycle!Open(p)'
      PROVE  LifeInv'
  <2>1. \A q \in Conns : SessionInv(q)'
    BY <1>0, <1>1, <1>2 DEF LifeInv, SessionInv, Lifecycle!Open
  <2>2. ASSUME NEW i \in DOMAIN events'
        PROVE  EventInv(events[i])'
    <3>1. /\ EventInv(events[i]) /\ events[i].sid \in Conns
      BY <1>0, EventSids DEF LifeInv
    <3>2. events[i].kind = "Connected" => events[i].sid # p
      BY <1>1, <3>1 DEF EventInv
    <3>3. QED BY <1>0, <1>2, <3>1, <3>2 DEF EventInv
  <2>3. ConnectedOnce'
    BY <1>0 DEF LifeInv, ConnectedOnce
  <2>4. QED BY <2>1, <2>2, <2>3 DEF LifeInv
<1>3. CASE TakeExit(p) \/ ChannelCloses(p)
  <2>1. /\ UNCHANGED told /\ forwarder'[p] \in {"exited", "closed"}
        /\ \A q \in Conns \ {p} : forwarder'[q] = forwarder[q]
    BY <1>0, <1>3 DEF TakeExit, ChannelCloses, TypeOK
  <2>2. QED BY <1>1, <1>2, <2>1 DEF Lifecycle!Open
<1>4. CASE ForwardScreen(p)
  <2>1. CASE Last(told[p]) = "screen"
    <3>1. UNCHANGED <<told, forwarder>>
      BY <1>4, <2>1 DEF ForwardScreen
    <3>2. forwarder[p] = "running"
      BY <1>4 DEF ForwardScreen
    <3>3. QED BY <1>1, <1>2, <3>1, <3>2 DEF Lifecycle!Open
  <2>2. CASE Last(told[p]) # "screen"
    <3>1. told[p] = <<"added">>
      BY <1>1, <2>2, OpenHistories DEF Lifecycle!Open
    <3>2. told' = [told EXCEPT ![p] = @ \o <<"screen">>] /\ UNCHANGED forwarder
      BY <1>4, <2>2 DEF ForwardScreen, Say
    <3>3. /\ told'[p] = <<"added", "screen">>
          /\ \A q \in Conns \ {p} : told'[q] = told[q]
      BY <1>0, <3>1, <3>2, FirstScreen DEF TypeOK
    <3>4. forwarder[p] = "running"
      BY <1>4 DEF ForwardScreen
    <3>5. LifeInv'
      BY <1>2, <3>2, <3>3, <3>4, OpenHistories DEF Lifecycle!Open
    <3>6. Lifecycle!Show(p)
      BY <3>1, <3>2 DEF Lifecycle!Show, Lifecycle!Say
    <3>7. QED BY <3>5, <3>6 DEF Lifecycle!Next
  <2>3. QED BY <2>1, <2>2
<1>5. CASE SayExited(p) \/ SayClosed(p)
  <2>1. /\ forwarder'[p] = "done"
        /\ \A q \in Conns \ {p} : told'[q] = told[q] /\ forwarder'[q] = forwarder[q]
        /\ \/ told' = [told EXCEPT ![p] = @ \o <<"exited", "removed">>]
           \/ told' = [told EXCEPT ![p] = @ \o <<"removed">>]
    BY <1>0, <1>5 DEF SayExited, SayClosed, SayRemoved, Say, TypeOK
  <2>2. told'[p] # <<>>
    <3>1. told[p] \in Seq(Words)
      BY <1>0 DEF TypeOK
    <3>2. \A words \in {<<"exited", "removed">>, <<"removed">>} :
            told[p] \o words # <<>>
      BY <1>1, <3>1, WordSequences, ConcatSimplifications
    <3>3. QED BY <1>0, <2>1, <3>2 DEF TypeOK
  <2>3. LifeInv'
    BY <1>2, <2>1, <2>2
  <2>4. Lifecycle!Exit(p) \/ Lifecycle!Leave(p)
    BY <1>1, <2>1 DEF Lifecycle!Exit, Lifecycle!Leave, Lifecycle!Say
  <2>5. QED BY <2>3, <2>4 DEF Lifecycle!Next
<1>6. QED BY <1>3, <1>4, <1>5 DEF Forwarder

LEMMA LifeStep == LifeInv /\ [Next]_vars => LifeInv' /\ [Lifecycle!Next]_told
<1> SUFFICES ASSUME LifeInv, [Next]_vars PROVE LifeInv' /\ [Lifecycle!Next]_told
  OBVIOUS
<1>1. SlotsInv' /\ TypeOK
  BY SlotsStep DEF LifeInv, SlotsInv
<1>2. ASSUME UNCHANGED <<told, forwarder, adding, events>>,
             \A p \in Conns : conn[p] # "free" => conn'[p] = conn[p]
      PROVE  LifeInv' /\ UNCHANGED told
  BY <1>1, <1>2, LifeQuiet DEF Announced
<1>3. ASSUME NEW p \in Conns, Producer(p)
      PROVE  UNCHANGED <<told, forwarder, adding, events>>
  BY <1>3 DEF Producer, Connect, ShowScreen, ChildExits, ObeyKill, WindowCloses
<1>4. ASSUME Dispatcher \/ TerminalOpens
      PROVE  UNCHANGED <<told, forwarder, adding, events>>
  BY <1>4 DEF Dispatcher, LaunchSession, ScriptSucceeds, ScriptFails, KillSession,
              TerminalOpens, DispatcherKeeps
<1>5. ASSUME NEW r \in Requests, DeadlinePasses(r) \/ TimerFires(r)
      PROVE  UNCHANGED <<told, forwarder, adding, events>>
  BY <1>5 DEF DeadlinePasses, TimerFires, DispatcherKeeps
<1>6. ASSUME Phone
      PROVE  UNCHANGED <<told, forwarder, adding, events>>
  BY <1>6 DEF Phone, Launch, Kill, PruneLaunch, PhoneDies, PhoneReconnects, PhoneKeeps
<1>7. CASE UNCHANGED vars
  BY <1>2, <1>7 DEF vars, connVars
<1>8. ASSUME \/ \E p \in Conns : Producer(p)
             \/ Dispatcher \/ TerminalOpens \/ Phone
             \/ \E r \in Requests : DeadlinePasses(r) \/ TimerFires(r)
      PROVE  LifeInv' /\ UNCHANGED told
  <2>1. \A p \in Conns : conn[p] # "free" => conn'[p] = conn[p]
    BY <1>1, <1>8, OthersLeaveSlots
  <2>2. QED BY <1>2, <1>3, <1>4, <1>5, <1>6, <1>8, <2>1
<1>9. QED
  BY <1>1, <1>7, <1>8, LifeHandler, LifeEventLoop, LifeForwarder DEF Next

LEMMA LifeInit == Init => LifeInv /\ Lifecycle!Init
BY SlotsInit, ConstantsAssumption
   DEF Init, LifeInv, SessionInv, EventInv, ConnectedOnce, Lifecycle!Init, Lifecycle!Open

\* What the Mac says about its sessions is what SessionLifecycle allows, for any
\* number of producers, launches and restarts of the phone.
THEOREM ImplementsLifecycle == Spec => SaidInOrder
<1>1. LifeInv /\ [Next]_vars => [Lifecycle!Next]_told
  BY LifeStep
<1>2. QED
  BY <1>1, LifeInit, LifeStep, PTL DEF Spec, SaidInOrder, Lifecycle!Spec

------------------------------------------------------------------------------
(* How a launch is answered.                                                *)

\* The lists of pending launches have no doubles, alone or together.
ListsInv ==
  /\ \A l \in Launchers : IsInjective(pending[l])
  /\ \A l, m \in Launchers : l # m => Range(pending[l]) \intersect Range(pending[m]) = {}

\* A launch is pending only before its first answer, and on its way to the
\* dispatcher only before it is pending.
WaitingInv ==
  /\ \A l \in Launchers : \A r \in Range(pending[l]) :
       answers[r] = <<>> /\ timer[r] # "none"
  /\ \A i \in DOMAIN inbox :
       inbox[i].kind = "launch" =>
         answers[inbox[i].req] = <<>> /\ timer[inbox[i].req] = "none"
  /\ \A i, j \in DOMAIN inbox :
       inbox[i].kind = "launch" /\ inbox[j].kind = "launch"
         /\ inbox[i].req = inbox[j].req => i = j

\* The launch whose script runs is in no other launcher's list.
ScriptInv ==
  ~Idle => /\ timer[script.req] # "none"
           /\ \A l \in Launchers : script.req \in Range(pending[l]) => l = script.launcher

AckInv == TypeOK /\ ListsInv /\ WaitingInv /\ ScriptInv /\ AckIsFirst

\* Adding a launch to a list that lacks it.
LEMMA AppendInList ==
  ASSUME NEW S, NEW s \in Seq(S), NEW r \in S, IsInjective(s), r \notin Range(s)
  PROVE  /\ IsInjective(Append(s, r))
         /\ Range(Append(s, r)) = Range(s) \union {r}
<1> DEFINE t == Append(s, r)
<1>1. /\ DOMAIN s = 1..Len(s) /\ Len(s) \in Nat
      /\ DOMAIN t = 1..(Len(s) + 1)
      /\ \A k \in DOMAIN s : t[k] = s[k]
      /\ t[Len(s) + 1] = r
  BY AppendProperties, LenProperties
<1> HIDE DEF t
<1>2. \A k \in DOMAIN t : k \in DOMAIN s \/ k = Len(s) + 1
  BY <1>1
<1>3. IsInjective(t)
  BY <1>1, <1>2 DEF IsInjective, Range
<1>4. Len(s) + 1 \in DOMAIN t /\ \A k \in DOMAIN s : k \in DOMAIN t
  BY <1>1
<1>5. Range(t) = Range(s) \union {r}
  BY <1>1, <1>2, <1>4 DEF Range
<1>6. QED BY <1>3, <1>5 DEF t

\* An answer, the first one if it is an acknowledgement.
LEMMA AnswerKeepsFirst ==
  ASSUME TypeOK, AckIsFirst, NEW r \in Requests, NEW word \in {"succeeded", "rejected"},
         NEW p \in Conns \union {NoConn}, Answer(r, word, p),
         word = "succeeded" => answers[r] = <<>>
  PROVE  /\ AckIsFirst'
         /\ \A q \in Requests \ {r} : answers'[q] = answers[q]
<1> DEFINE answer == [word |-> word, sid |-> p]
           Answers == [word : {"succeeded", "rejected"}, sid : Conns \union {NoConn}]
<1>1. answers \in [Requests -> Seq(Answers)] /\ answer \in Answers /\ answer.word = word
  BY DEF TypeOK
<1>2. answers' = [answers EXCEPT ![r] = Append(answers[r], answer)]
  BY DEF Answer
<1> HIDE DEF answer, Answers
<1>3. \A q \in Requests \ {r} : answers'[q] = answers[q]
  BY <1>1, <1>2
<1>4. \A i \in DOMAIN answers'[r] :
        \/ i \in DOMAIN answers[r] /\ answers'[r][i] = answers[r][i]
        \/ i = Len(answers[r]) + 1 /\ answers'[r][i] = answer
  BY <1>1, <1>2, AppendElements
<1>5. \A i \in DOMAIN answers'[r] : answers'[r][i].word = "succeeded" => i = 1
  BY <1>1, <1>4 DEF AckIsFirst
<1>6. AckIsFirst'
  BY <1>3, <1>5 DEF AckIsFirst
<1>7. QED BY <1>3, <1>6

\* A step that leaves the launches and their answers alone.
LEMMA AckQuiet ==
  ASSUME AckInv, TypeOK', UNCHANGED <<pending, timer, inbox, script, answers>>
  PROVE  AckInv'
BY DEF AckInv, ListsInv, WaitingInv, ScriptInv, AckIsFirst, Idle

LEMMA InboxRequests ==
  ASSUME TypeOK, NEW i \in DOMAIN inbox, inbox[i].kind = "launch"
  PROVE  inbox[i].req \in Requests
<1>1. inbox \in Seq(Commands)
  BY DEF TypeOK
<1>2. inbox[i] \in Commands
  BY <1>1
<1>3. QED BY <1>2 DEF Commands

LEMMA PendingRequests ==
  ASSUME TypeOK, NEW l \in Launchers
  PROVE  pending[l] \in Seq(Requests) /\ Range(pending[l]) \subseteq Requests
<1>1. pending[l] \in Seq(Requests)
  BY DEF TypeOK
<1>2. QED BY <1>1, RangeOfSeq

\* A launch leaves the lists as it is answered, or had left them before.
LEMMA LaunchLeaves ==
  ASSUME AckInv, NEW r \in Requests, timer[r] # "none", UNCHANGED inbox,
         \A q \in Requests \ {r} : answers'[q] = answers[q] /\ timer'[q] = timer[q],
         \A l \in Launchers : /\ IsInjective(pending'[l])
                              /\ Range(pending'[l]) \subseteq Range(pending[l]) \ {r}
  PROVE  ListsInv' /\ WaitingInv'
<1>1. TypeOK
  BY DEF AckInv
<1>2. ListsInv'
  BY DEF AckInv, ListsInv
<1>3. \A l \in Launchers : \A q \in Range(pending'[l]) : answers'[q] = <<>> /\ timer'[q] # "none"
  BY <1>1, PendingRequests DEF AckInv, WaitingInv
<1>4. \A i \in DOMAIN inbox : inbox[i].kind = "launch" =>
        answers'[inbox[i].req] = <<>> /\ timer'[inbox[i].req] = "none"
  BY <1>1, InboxRequests DEF AckInv, WaitingInv
<1>5. WaitingInv'
  BY <1>3, <1>4 DEF AckInv, WaitingInv
<1>6. QED BY <1>2, <1>5

\* The dispatcher takes a request.
LEMMA InboxTail ==
  ASSUME AckInv, inbox # <<>>, inbox' = Tail(inbox)
  PROVE  /\ \A i \in DOMAIN inbox' :
              inbox'[i].kind = "launch" =>
                /\ inbox'[i].req \in Requests
                /\ answers[inbox'[i].req] = <<>> /\ timer[inbox'[i].req] = "none"
                /\ Head(inbox).kind = "launch" => inbox'[i].req # Head(inbox).req
         /\ Head(inbox).kind = "launch" =>
              answers[Head(inbox).req] = <<>> /\ timer[Head(inbox).req] = "none"
         /\ \A i, j \in DOMAIN inbox' :
              inbox'[i].kind = "launch" /\ inbox'[j].kind = "launch"
                /\ inbox'[i].req = inbox'[j].req => i = j
<1>1. inbox \in Seq(Commands) /\ TypeOK
  BY DEF AckInv, TypeOK
<1>2. /\ 1 \in DOMAIN inbox /\ Head(inbox) = inbox[1]
      /\ \A k \in DOMAIN Tail(inbox) :
           k + 1 \in DOMAIN inbox /\ Tail(inbox)[k] = inbox[k + 1]
      /\ Tail(inbox) \in Seq(Commands)
  BY <1>1, HeadTail
<1>3. \A k \in DOMAIN inbox' : k \in Nat /\ k + 1 # 1
  BY <1>1, <1>2
<1>4. ASSUME NEW i \in DOMAIN inbox', inbox'[i].kind = "launch"
      PROVE  /\ inbox'[i].req \in Requests
             /\ answers[inbox'[i].req] = <<>> /\ timer[inbox'[i].req] = "none"
             /\ Head(inbox).kind = "launch" => inbox'[i].req # Head(inbox).req
  <2>1. i + 1 \in DOMAIN inbox /\ inbox'[i] = inbox[i + 1] /\ i + 1 # 1
    BY <1>2, <1>3
  <2>2. inbox[i + 1].req \in Requests
    BY <1>1, <1>4, <2>1, InboxRequests
  <2>3. QED BY <1>2, <1>4, <2>1, <2>2 DEF AckInv, WaitingInv
<1>5. ASSUME NEW i \in DOMAIN inbox', NEW j \in DOMAIN inbox',
             inbox'[i].kind = "launch", inbox'[j].kind = "launch",
             inbox'[i].req = inbox'[j].req
      PROVE  i = j
  <2>1. i + 1 = j + 1
    BY <1>2, <1>5 DEF AckInv, WaitingInv
  <2>2. QED BY <1>3, <2>1
<1>6. QED BY <1>2, <1>4, <1>5 DEF AckInv, WaitingInv

\* A connected producer answers a launch.
LEMMA AckMatch ==
  ASSUME AckInv, TypeOK', MatchLaunch
  PROVE  AckInv'
<1> USE DEF connVars
<1> DEFINE p == Head(events).sid
           l == source[p]
<1>0. /\ TypeOK /\ p \in Conns
      /\ UNCHANGED <<timer, inbox, script>>
  <2>1. events # <<>>
    BY DEF MatchLaunch, EventIs
  <2>2. 1 \in DOMAIN events /\ Head(events) = events[1]
    BY <2>1 DEF AckInv, TypeOK
  <2>3. QED BY <2>2, EventSids DEF AckInv, MatchLaunch
<1> HIDE DEF p
<1>1. CASE UNCHANGED <<pending, answers, phone>>
  BY <1>0, <1>1, AckQuiet
<1>2. ASSUME l \in Launchers, NEW i \in DOMAIN pending[l],
             pending' = [pending EXCEPT ![l] = RemoveAt(@, i)], Ack(pending[l][i], p)
      PROVE  AckInv'
  <2> DEFINE r == pending[l][i]
  <2>1. /\ pending[l] \in Seq(Requests) /\ IsInjective(pending[l])
        /\ r \in Requests /\ r \in Range(pending[l])
    <3>1. pending[l] \in Seq(Requests)
      BY <1>0, <1>2, PendingRequests
    <3>2. QED BY <1>2, <3>1 DEF AckInv, ListsInv, Range
  <2>2. answers[r] = <<>> /\ timer[r] # "none"
    BY <1>2, <2>1 DEF AckInv, WaitingInv
  <2>3. \A m \in Launchers : /\ IsInjective(pending'[m])
                             /\ Range(pending'[m]) \subseteq Range(pending[m]) \ {r}
    <3>1. pending'[l] = RemoveAt(pending[l], i) /\ \A m \in Launchers \ {l} : pending'[m] = pending[m]
      BY <1>0, <1>2 DEF TypeOK
    <3>2. IsInjective(pending'[l]) /\ Range(pending'[l]) = Range(pending[l]) \ {r}
      BY <1>2, <2>1, <3>1, RemoveAtInjective
    <3>3. \A m \in Launchers \ {l} : IsInjective(pending[m]) /\ r \notin Range(pending[m])
      BY <1>2, <2>1 DEF AckInv, ListsInv
    <3>4. QED BY <3>1, <3>2, <3>3
  <2> HIDE DEF r
  <2>4. AckIsFirst' /\ \A q \in Requests \ {r} : answers'[q] = answers[q]
    BY <1>0, <1>2, <2>1, <2>2, AnswerKeepsFirst DEF AckInv, Ack, r
  <2>5. ListsInv' /\ WaitingInv'
    BY <1>0, <2>1, <2>2, <2>3, <2>4, LaunchLeaves
  <2>6. ScriptInv'
    BY <1>0, <2>3 DEF AckInv, ScriptInv, Idle
  <2>7. QED BY <2>4, <2>5, <2>6 DEF AckInv
<1>3. QED BY <1>1, <1>2 DEF MatchLaunch, p

\* The dispatcher queues or rejects a launch.
LEMMA AckLaunch ==
  ASSUME AckInv, TypeOK', LaunchSession
  PROVE  AckInv'
<1> DEFINE r == Head(inbox).req
           l == Head(inbox).launcher
<1>1. /\ TypeOK /\ inbox # <<>> /\ inbox' = Tail(inbox) /\ Idle
      /\ Head(inbox).kind = "launch"
      /\ r \in Requests /\ l \in Launchers \union {Unknown}
  BY RequestType DEF AckInv, LaunchSession, RequestIs
<1>2. answers[r] = <<>> /\ timer[r] = "none"
  BY <1>1, InboxTail
<1>3. \A m \in Launchers : r \notin Range(pending[m])
  BY <1>2 DEF AckInv, WaitingInv
<1>4. \A i \in DOMAIN inbox' :
        inbox'[i].kind = "launch" =>
          /\ inbox'[i].req \in Requests \ {r}
          /\ answers[inbox'[i].req] = <<>> /\ timer[inbox'[i].req] = "none"
  BY <1>1, InboxTail
<1>5. \A i, j \in DOMAIN inbox' :
        inbox'[i].kind = "launch" /\ inbox'[j].kind = "launch"
          /\ inbox'[i].req = inbox'[j].req => i = j
  BY <1>1, InboxTail
<1> HIDE DEF r, l
<1>6. CASE l \in Launchers
  <2>1. /\ pending' = [pending EXCEPT ![l] = Append(pending[l], r)]
        /\ timer' = [timer EXCEPT ![r] = "sleeping"]
        /\ script' = [req |-> r, launcher |-> l, opened |-> FALSE]
        /\ UNCHANGED answers
    BY <1>6 DEF LaunchSession, r, l
  <2>2. pending[l] \in Seq(Requests) /\ IsInjective(pending[l])
    BY <1>1, <1>6, PendingRequests DEF AckInv, ListsInv
  <2>3. /\ \A m \in Launchers \ {l} : pending'[m] = pending[m]
        /\ IsInjective(pending'[l]) /\ Range(pending'[l]) = Range(pending[l]) \union {r}
    <3>1. /\ IsInjective(Append(pending[l], r))
          /\ Range(Append(pending[l], r)) = Range(pending[l]) \union {r}
      BY <1>1, <1>3, <1>6, <2>2, AppendInList
    <3>2. QED BY <1>1, <1>6, <2>1, <3>1 DEF TypeOK
  <2>4. ListsInv'
    BY <1>3, <2>3 DEF AckInv, ListsInv
  <2>5. timer'[r] = "sleeping" /\ \A q \in Requests \ {r} : timer'[q] = timer[q]
    BY <1>1, <2>1 DEF TypeOK
  <2>6. \A m \in Launchers : \A q \in Range(pending'[m]) :
          answers'[q] = <<>> /\ timer'[q] # "none"
    BY <1>1, <1>2, <2>1, <2>3, <2>5, PendingRequests DEF AckInv, WaitingInv
  <2>7. WaitingInv'
    BY <1>4, <1>5, <2>1, <2>5, <2>6 DEF WaitingInv
  <2>8. ScriptInv'
    BY <1>3, <2>1, <2>3, <2>5 DEF ScriptInv
  <2>9. AckIsFirst'
    BY <2>1 DEF AckInv, AckIsFirst
  <2>10. QED BY <2>4, <2>7, <2>8, <2>9 DEF AckInv
<1>7. CASE l \notin Launchers
  <2>1. Reject(r) /\ UNCHANGED <<pending, timer, script>>
    BY <1>7 DEF LaunchSession, r, l
  <2>2. AckIsFirst' /\ \A q \in Requests \ {r} : answers'[q] = answers[q]
    BY <1>1, <2>1, AnswerKeepsFirst DEF AckInv, Reject
  <2>3. \A m \in Launchers : \A q \in Range(pending'[m]) :
          answers'[q] = <<>> /\ timer'[q] # "none"
    BY <1>1, <1>3, <2>1, <2>2, PendingRequests DEF AckInv, WaitingInv
  <2>4. WaitingInv'
    BY <1>4, <1>5, <2>1, <2>2, <2>3 DEF WaitingInv
  <2>5. ListsInv' /\ ScriptInv'
    BY <2>1 DEF AckInv, ListsInv, ScriptInv, Idle
  <2>6. QED BY <2>2, <2>4, <2>5 DEF AckInv
<1>8. QED BY <1>6, <1>7

\* osascript, with whatever it does to the launch it was for.
LEMMA AckScript ==
  ASSUME AckInv, TypeOK', TerminalOpens \/ ScriptSucceeds \/ ScriptFails
  PROVE  AckInv'
<1> USE DEF DispatcherKeeps
<1>1. CASE TerminalOpens
  <2>1. /\ UNCHANGED <<pending, timer, inbox, answers>>
        /\ script'.req = script.req /\ script'.launcher = script.launcher
    BY <1>1 DEF TerminalOpens, AckInv, TypeOK
  <2>2. QED BY <2>1 DEF AckInv, ListsInv, WaitingInv, ScriptInv, AckIsFirst, Idle
<1>2. CASE ScriptSucceeds
  <2>1. UNCHANGED <<pending, timer, inbox, answers>> /\ Idle'
    BY <1>2 DEF ScriptSucceeds, NoScript, Idle
  <2>2. QED BY <2>1 DEF AckInv, ListsInv, WaitingInv, ScriptInv, AckIsFirst
<1>3. CASE ScriptFails
  <2> DEFINE r == script.req
             l == script.launcher
  <2>1. /\ TypeOK /\ l \in Launchers /\ r \in Requests
        /\ Reject(r) /\ Idle' /\ UNCHANGED <<timer, inbox>>
        /\ pending' = [pending EXCEPT ![l] = Without(pending[l], r)]
    BY <1>3 DEF AckInv, ScriptFails, TypeOK, NoScript, Idle
  <2>2. /\ timer[r] # "none"
        /\ \A m \in Launchers : r \in Range(pending[m]) => m = l
    BY <1>3 DEF AckInv, ScriptInv, ScriptFails
  <2> HIDE DEF r, l
  <2>3. \A m \in Launchers : /\ IsInjective(pending'[m])
                             /\ Range(pending'[m]) \subseteq Range(pending[m]) \ {r}
    <3>1. pending[l] \in Seq(Requests) /\ IsInjective(pending[l])
      BY <2>1, PendingRequests DEF AckInv, ListsInv
    <3>2. /\ pending'[l] = Without(pending[l], r)
          /\ \A m \in Launchers \ {l} : pending'[m] = pending[m]
      BY <2>1 DEF TypeOK
    <3>3. IsInjective(pending'[l]) /\ Range(pending'[l]) = Range(pending[l]) \ {r}
      BY <3>1, <3>2, WithoutInjective
    <3>4. \A m \in Launchers \ {l} : IsInjective(pending[m]) /\ r \notin Range(pending[m])
      BY <2>2 DEF AckInv, ListsInv
    <3>5. QED BY <3>2, <3>3, <3>4
  <2>4. AckIsFirst' /\ \A q \in Requests \ {r} : answers'[q] = answers[q]
    BY <2>1, AnswerKeepsFirst DEF AckInv, Reject
  <2>5. ListsInv' /\ WaitingInv'
    BY <2>1, <2>2, <2>3, <2>4, LaunchLeaves
  <2>6. QED BY <2>1, <2>4, <2>5 DEF AckInv, ScriptInv
<1>4. QED BY <1>1, <1>2, <1>3

\* The dispatcher takes a KillSession.
LEMMA AckKill ==
  ASSUME AckInv, TypeOK', KillSession
  PROVE  AckInv'
<1>1. /\ inbox # <<>> /\ inbox' = Tail(inbox)
      /\ UNCHANGED <<pending, timer, script, answers>>
  BY DEF KillSession, RequestIs
<1>2. WaitingInv'
  BY <1>1, InboxTail DEF AckInv, WaitingInv
<1>3. QED BY <1>1, <1>2 DEF AckInv, ListsInv, ScriptInv, AckIsFirst, Idle

\* A timer fires, and rejects the launch if it is still pending.
LEMMA AckTimer ==
  ASSUME AckInv, TypeOK', NEW r \in Requests, TimerFires(r)
  PROVE  AckInv'
<1>1. /\ TypeOK /\ timer[r] # "none" /\ UNCHANGED <<inbox, script>>
      /\ timer' = [timer EXCEPT ![r] = "done"]
  BY DEF AckInv, TimerFires, DispatcherKeeps
<1>2. timer'[r] # "none" /\ \A q \in Requests \ {r} : timer'[q] = timer[q]
  BY <1>1 DEF TypeOK
<1>3. \A m \in Launchers : pending[m] \in Seq(Requests) /\ IsInjective(pending[m])
  BY <1>1, PendingRequests DEF AckInv, ListsInv
<1>4. AckIsFirst' /\ \A q \in Requests \ {r} : answers'[q] = answers[q]
  <2>1. CASE Reject(r)
    BY <1>1, <2>1, AnswerKeepsFirst DEF AckInv, Reject
  <2>2. CASE UNCHANGED answers
    BY <2>2 DEF AckInv, AckIsFirst
  <2>3. QED BY <2>1, <2>2 DEF TimerFires
<1>5. \A m \in Launchers : /\ IsInjective(pending'[m])
                           /\ Range(pending'[m]) \subseteq Range(pending[m]) \ {r}
  <2>1. CASE \E m \in Launchers : Contains(pending[m], r)
    <3>1. \A m \in Launchers : pending'[m] = Without(pending[m], r)
      BY <2>1 DEF TimerFires
    <3>2. QED BY <1>3, <3>1, WithoutInjective
  <2>2. CASE ~\E m \in Launchers : Contains(pending[m], r)
    <3>1. \A m \in Launchers : pending'[m] = pending[m]
      BY <2>2 DEF TimerFires
    <3>2. \A m \in Launchers : r \notin Range(pending[m])
      BY <2>2, <1>3 DEF Contains, Range
    <3>3. QED BY <1>3, <3>1, <3>2
  <2>3. QED BY <2>1, <2>2
<1>6. ListsInv' /\ WaitingInv'
  BY <1>1, <1>2, <1>4, <1>5, LaunchLeaves
<1>7. ScriptInv'
  BY <1>1, <1>2, <1>5 DEF AckInv, ScriptInv, Idle, TypeOK
<1>8. QED BY <1>4, <1>6, <1>7 DEF AckInv

\* The phone asks for a launch or a kill.
LEMMA AckAsk ==
  ASSUME AckInv, TypeOK', NEW request \in Commands,
         inbox' = Append(inbox, request), UNCHANGED <<pending, timer, script, answers>>,
         request.kind = "launch" =>
           /\ answers[request.req] = <<>> /\ timer[request.req] = "none"
           /\ \A i \in DOMAIN inbox : inbox[i].req # request.req
  PROVE  AckInv'
<1>1. inbox \in Seq(Commands)
  BY DEF AckInv, TypeOK
<1>2. \A k \in DOMAIN inbox' :
        \/ k \in DOMAIN inbox /\ inbox'[k] = inbox[k]
        \/ k = Len(inbox) + 1 /\ inbox'[k] = request
  BY <1>1, AppendElements
<1>3. \A i \in DOMAIN inbox' : inbox'[i].kind = "launch" =>
        answers[inbox'[i].req] = <<>> /\ timer[inbox'[i].req] = "none"
  BY <1>2 DEF AckInv, WaitingInv
<1>4. \A i, j \in DOMAIN inbox' :
        inbox'[i].kind = "launch" /\ inbox'[j].kind = "launch"
          /\ inbox'[i].req = inbox'[j].req => i = j
  BY <1>2 DEF AckInv, WaitingInv
<1>5. WaitingInv'
  BY <1>3, <1>4 DEF AckInv, WaitingInv
<1>6. QED BY <1>5 DEF AckInv, ListsInv, ScriptInv, AckIsFirst, Idle

LEMMA AckPhone ==
  ASSUME AckInv, TypeOK', Phone
  PROVE  AckInv'
<1> USE DEF PhoneKeeps
<1>1. ASSUME NEW r \in Requests, NEW l \in Launchers \union {Unknown}, Launch(r, l)
      PROVE  AckInv'
  <2> DEFINE request == [kind |-> "launch", req |-> r, launcher |-> l, sid |-> NoConn]
  <2>1. request \in Commands /\ request.req = r
    BY DEF Commands
  <2>2. /\ inbox' = Append(inbox, request)
        /\ UNCHANGED <<pending, timer, script, answers>>
        /\ answers[r] = <<>> /\ timer[r] = "none"
        /\ \A i \in DOMAIN inbox : inbox[i].req # r
    BY <1>1 DEF Launch, Ask
  <2> HIDE DEF request
  <2>3. QED BY <2>1, <2>2, AckAsk
<1>2. ASSUME NEW p \in Conns, Kill(p)
      PROVE  AckInv'
  <2> DEFINE request == [kind |-> "kill", req |-> NoReq, launcher |-> Unknown, sid |-> p]
  <2>1. request \in Commands /\ request.kind # "launch"
    BY DEF Commands
  <2>2. /\ inbox' = Append(inbox, request)
        /\ UNCHANGED <<pending, timer, script, answers>>
    BY <1>2 DEF Kill, Ask
  <2> HIDE DEF request
  <2>3. QED BY <2>1, <2>2, AckAsk
<1>3. CASE PhoneDies \/ PhoneReconnects \/ \E r \in Requests : PruneLaunch(r)
  <2>1. UNCHANGED <<pending, timer, inbox, script, answers>>
    BY <1>3 DEF PhoneDies, PhoneReconnects, PruneLaunch
  <2>2. QED BY <2>1, AckQuiet
<1>4. QED BY <1>1, <1>2, <1>3 DEF Phone

LEMMA AckStep == AckInv /\ [Next]_vars => AckInv'
<1> SUFFICES ASSUME AckInv, [Next]_vars PROVE AckInv'
  OBVIOUS
<1>0. TypeOK'
  BY TypeStep DEF AckInv
<1>1. ASSUME NEW p \in Conns, Producer(p) \/ Handler(p) \/ Forwarder(p)
      PROVE  AckInv'
  <2>1. CASE Producer(p)
    BY <1>0, <2>1, AckQuiet
       DEF Producer, Connect, ShowScreen, ChildExits, ObeyKill, WindowCloses, launchVars
  <2>2. CASE Handler(p)
    BY <1>0, <2>2, AckQuiet
       DEF Handler, Register, Welcome, Announce, ReadsEnd, Cleanup, Report,
           HandlerKeeps, launchVars
  <2>3. CASE Forwarder(p)
    BY <1>0, <2>3, AckQuiet
       DEF Forwarder, ForwardScreen, TakeExit, SayExited, ChannelCloses, SayClosed,
           ForwarderKeeps, launchVars
  <2>4. QED BY <1>1, <2>1, <2>2, <2>3
<1>2. CASE AddSession \/ DropSession
  BY <1>0, <1>2, AckQuiet DEF AddSession, DropSession, launchVars
<1>3. ASSUME NEW r \in Requests, DeadlinePasses(r)
      PROVE  AckInv'
  BY <1>0, <1>3, AckQuiet DEF DeadlinePasses, DispatcherKeeps
<1>4. CASE UNCHANGED vars
  BY <1>0, <1>4, AckQuiet DEF vars, launchVars
<1>5. QED
  BY <1>0, <1>1, <1>2, <1>3, <1>4, AckMatch, AckLaunch, AckScript, AckKill, AckTimer,
     AckPhone DEF Next, EventLoop, Dispatcher

LEMMA AckInit == Init => AckInv
<1> SUFFICES ASSUME Init PROVE AckInv
  OBVIOUS
<1>1. \A l \in Launchers : DOMAIN pending[l] = {}
  BY DEF Init
<1>2. ListsInv
  BY <1>1 DEF ListsInv, IsInjective, Range
<1>3. WaitingInv
  BY <1>1 DEF Init, WaitingInv, Range
<1>4. ScriptInv /\ AckIsFirst
  BY DEF Init, ScriptInv, AckIsFirst, Idle, NoScript
<1>5. QED BY <1>2, <1>3, <1>4, TypeInit DEF AckInv

\* A launch is acknowledged only by its first answer: a producer, a timer and a
\* failing osascript never answer the same launch with an acknowledgement last.
THEOREM FirstAnswer == Spec => []AckIsFirst
<1>1. AckInv => AckIsFirst
  BY DEF AckInv
<1>2. QED BY <1>1, AckInit, AckStep, PTL DEF Spec

------------------------------------------------------------------------------
(* Which session an acknowledgement names.                                  *)

\* Only an acknowledgement names a session.
SidsInv ==
  \A r \in Requests : \A i \in DOMAIN answers[r] :
    /\ answers[r][i].word = "succeeded" => answers[r][i].sid \in Conns
    /\ answers[r][i].word = "rejected" => answers[r][i].sid = NoConn

NameInv == LifeInv /\ AckInv /\ SidsInv /\ AckNamesOneSession

\* The phone is not untold what it was told.
LEMMA ToldStays ==
  ASSUME LifeInv, LifeInv', [Next]_vars, NEW p \in Conns, told[p] # <<>>
  PROVE  told'[p] # <<>>
<1> USE DEF connVars, launchVars
<1> SUFFICES forwarder'[p] # "none"
  BY DEF LifeInv, SessionInv
<1>1. forwarder[p] # "none" /\ DOMAIN forwarder = Conns
  BY DEF LifeInv, SlotsInv, TypeOK, SessionInv
<1>2. CASE EventLoop
  <2>1. CASE AddSession
    BY <1>1, <2>1 DEF AddSession
  <2>2. CASE MatchLaunch \/ DropSession
    BY <1>1, <2>2 DEF MatchLaunch, DropSession
  <2>3. QED BY <1>2, <2>1, <2>2 DEF EventLoop
<1>3. ASSUME NEW q \in Conns, Forwarder(q)
      PROVE  forwarder'[p] # "none"
  BY <1>1, <1>3 DEF Forwarder, ForwardScreen, TakeExit, SayExited, ChannelCloses, SayClosed
<1>4. CASE \E q \in Conns : Producer(q) \/ Handler(q)
  BY <1>1, <1>4
     DEF Producer, Connect, ShowScreen, ChildExits, ObeyKill, WindowCloses, Handler,
         Register, Welcome, Announce, ReadsEnd, Cleanup, Report, HandlerKeeps
<1>5. CASE Dispatcher \/ TerminalOpens \/ Phone
  BY <1>1, <1>5
     DEF Dispatcher, LaunchSession, ScriptSucceeds, ScriptFails, KillSession,
         TerminalOpens, DispatcherKeeps, Phone, Launch, Kill, PruneLaunch, PhoneDies,
         PhoneReconnects, PhoneKeeps
<1>6. CASE \E r \in Requests : DeadlinePasses(r) \/ TimerFires(r)
  BY <1>1, <1>6 DEF DeadlinePasses, TimerFires, DispatcherKeeps
<1>7. CASE UNCHANGED vars
  BY <1>1, <1>7 DEF vars
<1>8. QED BY <1>2, <1>3, <1>4, <1>5, <1>6, <1>7 DEF Next

\* A step that rejects a launch.
LEMMA NameReject ==
  ASSUME NameInv, NEW r \in Requests, Reject(r),
         \A p \in Conns : told[p] # <<>> => told'[p] # <<>>,
         \A p \in Conns : p = adding => p = adding' \/ told'[p] # <<>>
  PROVE  SidsInv' /\ AckNamesOneSession'
<1> DEFINE Answers == [word : {"succeeded", "rejected"}, sid : Conns \union {NoConn}]
           answer == [word |-> "rejected", sid |-> NoConn]
<1>1. answers \in [Requests -> Seq(Answers)]
  BY DEF NameInv, AckInv, TypeOK
<1>2. answer \in Answers /\ answer.word = "rejected" /\ answer.sid = NoConn
  OBVIOUS
<1>3. answers' = [answers EXCEPT ![r] = Append(answers[r], answer)]
  BY DEF Reject, Answer
<1> HIDE DEF Answers, answer
<1>4. \A q \in Requests : \A i \in DOMAIN answers'[q] :
        \/ i \in DOMAIN answers[q] /\ answers'[q][i] = answers[q][i]
        \/ answers'[q][i] = answer
  BY <1>1, <1>2, <1>3, AppendElements
<1>5. SidsInv'
  BY <1>2, <1>4 DEF NameInv, SidsInv
<1>6. ASSUME NEW q \in Requests, NEW i \in DOMAIN answers'[q],
             answers'[q][i].word = "succeeded"
      PROVE  LET p == answers'[q][i].sid IN
               /\ p = adding' \/ told'[p] # <<>>
               /\ \A s \in Requests \ {q} : \A j \in DOMAIN answers'[s] :
                    answers'[s][j].sid # p
  <2> DEFINE p == answers'[q][i].sid
  <2>1. i \in DOMAIN answers[q] /\ answers[q][i] = answers'[q][i]
    BY <1>2, <1>4, <1>6
  <2>2. /\ p \in Conns /\ p # NoConn
        /\ p = adding \/ told[p] # <<>>
        /\ \A s \in Requests \ {q} : \A j \in DOMAIN answers[s] : answers[s][j].sid # p
    BY <1>6, <2>1, ConstantsAssumption DEF NameInv, SidsInv, AckNamesOneSession
  <2> HIDE DEF p
  <2>3. \A s \in Requests \ {q} : \A j \in DOMAIN answers'[s] : answers'[s][j].sid # p
    BY <1>2, <1>4, <2>2
  <2>4. QED BY <2>2, <2>3 DEF p
<1>7. AckNamesOneSession'
  BY <1>6 DEF AckNamesOneSession
<1>8. QED BY <1>5, <1>7

\* The session of a producer that connects has been named by no answer before.
LEMMA NameMatch ==
  ASSUME NameInv, MatchLaunch
  PROVE  SidsInv' /\ AckNamesOneSession'
<1> DEFINE p == Head(events).sid
           l == source[p]
           Answers == [word : {"succeeded", "rejected"}, sid : Conns \union {NoConn}]
<1>1. /\ events # <<>> /\ events' = Tail(events) /\ adding = NoConn /\ adding' = p
      /\ Head(events).kind = "Connected" /\ UNCHANGED told
  BY DEF MatchLaunch, EventIs
<1>2. p \in Conns /\ told[p] = <<>> /\ p # NoConn
  BY <1>1, LifeTail, ConstantsAssumption DEF EventInv, NameInv
<1>3. TypeOK /\ answers \in [Requests -> Seq(Answers)]
  BY DEF NameInv, AckInv, TypeOK
<1>4. \/ UNCHANGED answers
      \/ \E r \in Requests : Ack(r, p)
  <2>1. ASSUME l \in Launchers, NEW i \in DOMAIN pending[l], Ack(pending[l][i], p)
        PROVE  \E r \in Requests : Ack(r, p)
    <3>1. pending[l] \in Seq(Requests)
      BY <1>3, <2>1, PendingRequests
    <3>2. pending[l][i] \in Requests
      BY <2>1, <3>1
    <3>3. QED BY <2>1, <3>2
  <2>2. QED BY <2>1 DEF MatchLaunch
<1> HIDE DEF p, l, Answers
<1>5. \A q \in Requests : \A i \in DOMAIN answers[q] : answers[q][i].sid # p
  <2> SUFFICES ASSUME NEW q \in Requests, NEW i \in DOMAIN answers[q],
                      answers[q][i].sid = p
               PROVE  FALSE
    OBVIOUS
  <2>1. answers[q][i] \in Answers
    BY <1>3
  <2>2. answers[q][i].word \in {"succeeded", "rejected"}
    BY <2>1 DEF Answers
  <2>3. answers[q][i].word = "succeeded"
    BY <1>2, <2>2 DEF NameInv, SidsInv
  <2>4. QED BY <1>1, <1>2, <2>3 DEF NameInv, AckNamesOneSession
<1>6. \A q \in Requests : \A i \in DOMAIN answers[q] : answers[q][i].word = "succeeded" =>
        told[answers[q][i].sid] # <<>>
  BY <1>1, ConstantsAssumption DEF NameInv, SidsInv, AckNamesOneSession
<1>7. ASSUME NEW r \in Requests, Ack(r, p)
      PROVE  SidsInv' /\ AckNamesOneSession'
  <2> DEFINE answer == [word |-> "succeeded", sid |-> p]
  <2>1. answer \in Answers /\ answer.word = "succeeded" /\ answer.sid = p
    BY <1>2 DEF Answers
  <2>2. answers' = [answers EXCEPT ![r] = Append(answers[r], answer)]
    BY <1>7 DEF Ack, Answer
  <2> HIDE DEF answer
  <2>3. \A q \in Requests : \A i \in DOMAIN answers'[q] :
          \/ i \in DOMAIN answers[q] /\ answers'[q][i] = answers[q][i]
          \/ q = r /\ answers'[q][i] = answer
    BY <1>3, <2>1, <2>2, AppendElements
  <2>4. SidsInv'
    BY <1>2, <2>1, <2>3 DEF NameInv, SidsInv
  <2>5. ASSUME NEW q \in Requests, NEW i \in DOMAIN answers'[q],
               answers'[q][i].word = "succeeded"
        PROVE  /\ answers'[q][i].sid = adding' \/ told'[answers'[q][i].sid] # <<>>
               /\ \A s \in Requests \ {q} : \A j \in DOMAIN answers'[s] :
                    answers'[s][j].sid # answers'[q][i].sid
    <3>1. CASE i \in DOMAIN answers[q] /\ answers'[q][i] = answers[q][i]
      <4>1. /\ told[answers[q][i].sid] # <<>> /\ answers[q][i].sid # p
            /\ \A s \in Requests \ {q} : \A j \in DOMAIN answers[s] :
                 answers[s][j].sid # answers[q][i].sid
        BY <1>5, <1>6, <2>5, <3>1 DEF NameInv, AckNamesOneSession
      <4>2. QED BY <1>1, <2>1, <2>3, <3>1, <4>1
    <3>2. CASE q = r /\ answers'[q][i] = answer
      BY <1>1, <1>5, <2>1, <2>3, <3>2
    <3>3. QED BY <2>3, <3>1, <3>2
  <2>6. AckNamesOneSession'
    BY <2>5 DEF AckNamesOneSession
  <2>7. QED BY <2>4, <2>6
<1>8. CASE UNCHANGED answers
  <2>1. SidsInv'
    BY <1>8 DEF NameInv, SidsInv
  <2>2. AckNamesOneSession'
    BY <1>1, <1>6, <1>8 DEF NameInv, AckNamesOneSession
  <2>3. QED BY <2>1, <2>2
<1>9. QED BY <1>4, <1>7, <1>8

LEMMA NameStep == NameInv /\ [Next]_vars => NameInv'
<1> SUFFICES ASSUME NameInv, [Next]_vars PROVE NameInv'
  OBVIOUS
<1>1. LifeInv' /\ AckInv' /\ TypeOK
  BY LifeStep, AckStep DEF NameInv, AckInv
<1>2. \A p \in Conns : told[p] # <<>> => told'[p] # <<>>
  BY <1>1, ToldStays DEF NameInv
<1>3. CASE MatchLaunch
  BY <1>1, <1>3, NameMatch DEF NameInv
<1>4. CASE ~MatchLaunch
  <2>1. \A p \in Conns : p = adding => p = adding' \/ told'[p] # <<>>
    <3>1. CASE AddSession
      <4>1. forwarder'[adding] # "none" \/ adding \notin Conns
        BY <1>1, <3>1 DEF AddSession, TypeOK
      <4>2. QED BY <1>1, <4>1 DEF LifeInv, SessionInv
    <3>2. CASE ~AddSession
      <4>1. UNCHANGED adding
        BY <1>4, <3>2
           DEF Next, EventLoop, DropSession, Producer, Connect, ShowScreen, ChildExits,
               ObeyKill, WindowCloses, Handler, Register, Welcome, Announce, ReadsEnd,
               Cleanup, Report, HandlerKeeps, Forwarder, ForwardScreen, TakeExit,
               SayExited, ChannelCloses, SayClosed, ForwarderKeeps, Dispatcher,
               LaunchSession, ScriptSucceeds, ScriptFails, KillSession, TerminalOpens,
               DispatcherKeeps, DeadlinePasses, TimerFires, Phone, Launch, Kill,
               PruneLaunch, PhoneDies, PhoneReconnects, PhoneKeeps, vars
      <4>2. QED BY <4>1
    <3>3. QED BY <3>1, <3>2
  <2>2. UNCHANGED answers \/ \E r \in Requests : Reject(r)
    <3>1. CASE LaunchSession
      BY <1>1, <3>1, RequestType DEF LaunchSession
    <3>2. CASE ScriptFails
      BY <1>1, <3>2 DEF ScriptFails, Idle, TypeOK
    <3>3. ASSUME NEW r \in Requests, TimerFires(r)
          PROVE  UNCHANGED answers \/ Reject(r)
      BY <3>3 DEF TimerFires
    <3>4. QED
      BY <1>4, <3>1, <3>2, <3>3
         DEF Next, EventLoop, AddSession, DropSession, Producer, Connect, ShowScreen,
             ChildExits, ObeyKill, WindowCloses, Handler, Register, Welcome, Announce,
             ReadsEnd, Cleanup, Report, HandlerKeeps, Forwarder, ForwardScreen, TakeExit,
             SayExited, ChannelCloses, SayClosed, ForwarderKeeps, Dispatcher,
             ScriptSucceeds, KillSession, TerminalOpens, DispatcherKeeps, DeadlinePasses,
             Phone, Launch, Kill, PruneLaunch, PhoneDies, PhoneReconnects, PhoneKeeps, vars
  <2>3. CASE \E r \in Requests : Reject(r)
    BY <1>1, <1>2, <2>1, <2>3, NameReject DEF NameInv
  <2>4. CASE UNCHANGED answers
    <3>1. SidsInv'
      BY <2>4 DEF NameInv, SidsInv
    <3>2. AckNamesOneSession'
      BY <1>2, <2>1, <2>4 DEF NameInv, SidsInv, AckNamesOneSession
    <3>3. QED BY <1>1, <3>1, <3>2 DEF NameInv
  <2>5. QED BY <2>2, <2>3, <2>4
<1>5. QED BY <1>3, <1>4

\* One producer answers one launch, and the phone is told of its session next,
\* for any number of launches, whatever their timers and scripts do.
THEOREM OneSession == Spec => []AckNamesOneSession
<1>1. Init => NameInv
  BY LifeInit, AckInit DEF NameInv, SidsInv, AckNamesOneSession, Init
<1>2. NameInv => AckNamesOneSession
  BY DEF NameInv
<1>3. QED BY <1>1, <1>2, NameStep, PTL DEF Spec

\* A launch is acknowledged at most once, first, and with a session of its own,
\* whatever producers, timers and scripts do.
THEOREM RightAnswers == Spec => []AnswersAreRight
<1>1. AckIsFirst /\ AckNamesOneSession => AnswersAreRight
  BY DEF AnswersAreRight
<1>2. QED BY <1>1, FirstAnswer, OneSession, PTL

------------------------------------------------------------------------------
(* What the phone lists.                                                    *)

\* The frame task of a session the phone has yet to be told the end of.
Listed == {"running", "exited", "closed"}

\* A producer says its exit last, and its session ends only after it did.
EndsInv(p) ==
  /\ conn[p] = "free" => frames[p] = <<>> /\ p \notin alive
  /\ p \in alive => \A i \in DOMAIN frames[p] : frames[p][i] # "exit"
  /\ forwarder[p] \in {"exited", "closed", "done"} => p \notin alive \/ conn[p] = "closed"

\* The session of a producer that lives holds its slot, and the event loop will
\* add it or did.
HeldInv(p) ==
  /\ conn[p] \in {"welcome", "announce"} => p \in registered
  /\ conn[p] = "reading" /\ p \in alive => p \in registered
  /\ conn[p] = "reading" /\ forwarder[p] = "none" =>
       \/ adding = p
       \/ \E i \in DOMAIN events : events[i].kind = "Connected" /\ events[i].sid = p

\* The phone lists what it was told of, and all of it if it never restarted.
ListedInv(p) ==
  /\ p \in phone.sessions => phone.up /\ forwarder[p] \in Listed
  /\ restarts = 0 => phone.up /\ (forwarder[p] \in Listed => p \in phone.sessions)

AgreeInv == LifeInv /\ \A p \in Conns : EndsInv(p) /\ HeldInv(p) /\ ListedInv(p)

\* An answer to a launch leaves the list of sessions alone.
LEMMA AnswerLeavesList ==
  ASSUME TypeOK, NEW r, NEW word, NEW p, Answer(r, word, p)
  PROVE  phone'.sessions = phone.sessions /\ phone'.up = phone.up
BY DEF Answer, TypeOK

LEMMA ListChanges ==
  ASSUME TypeOK, NEW sessions \in SUBSET Conns, List(sessions)
  PROVE  /\ phone'.up = phone.up
         /\ phone.up => phone'.sessions = sessions
         /\ ~phone.up => phone'.sessions = phone.sessions
BY DEF List, TypeOK

\* A step that leaves the lists alone.
LEMMA ListedQuiet ==
  ASSUME NEW p \in Conns, ListedInv(p), UNCHANGED <<forwarder, restarts>>,
         phone'.sessions = phone.sessions, phone'.up = phone.up
  PROVE  ListedInv(p)'
BY DEF ListedInv

\* The producers.
LEMMA AgreeProducer ==
  ASSUME AgreeInv, NEW q \in Conns, Producer(q), NEW p \in Conns
  PROVE  EndsInv(p)' /\ HeldInv(p)' /\ ListedInv(p)'
<1>0. TypeOK /\ SessionInv(p) /\ EndsInv(p) /\ HeldInv(p) /\ ListedInv(p)
  BY DEF AgreeInv, LifeInv, SlotsInv
<1> USE DEF launchVars
<1>1. UNCHANGED <<forwarder, registered, events, adding, phone, restarts, told>>
  BY DEF Producer, Connect, ShowScreen, ChildExits, ObeyKill, WindowCloses
<1>2. ListedInv(p)'
  BY <1>0, <1>1, ListedQuiet
<1>3. ASSUME NEW src \in Launchers \union {Manual}, Connect(q, src)
      PROVE  EndsInv(p)' /\ HeldInv(p)'
  <2>1. CASE p = q
    <3>1. conn'[p] = "hello" /\ frames'[p] = <<>>
      BY <1>0, <1>3, <2>1 DEF Connect, TypeOK, EndsInv
    <3>2. forwarder[p] = "none"
      BY <1>0, <1>3, <2>1 DEF Connect, SessionInv, Announced, EndsInv
    <3>3. \A i \in DOMAIN frames'[p] : frames'[p][i] # "exit"
      <4>1. DOMAIN frames'[p] = {}
        BY <3>1
      <4>2. QED BY <4>1
    <3>4. QED BY <1>1, <3>1, <3>2, <3>3 DEF EndsInv, HeldInv
  <2>2. CASE p # q
    <3>1. conn'[p] = conn[p] /\ frames'[p] = frames[p] /\ (p \in alive' <=> p \in alive)
      BY <1>0, <1>3, <2>2 DEF Connect, TypeOK
    <3>2. QED BY <1>0, <1>1, <3>1 DEF EndsInv, HeldInv
  <2>3. QED BY <2>1, <2>2
<1>4. ASSUME ShowScreen(q)
      PROVE  EndsInv(p)' /\ HeldInv(p)'
  <2>1. conn' = conn /\ alive' = alive
    BY <1>4 DEF ShowScreen
  <2>2. CASE p = q
    <3>1. frames'[p] = <<>> \o <<"screen">>
      BY <1>0, <1>4, <2>2 DEF ShowScreen, Send, TypeOK
    <3>2. \A i \in DOMAIN frames'[p] : frames'[p][i] # "exit"
      <4>1. <<>> \o <<"screen">> = <<"screen">>
        OBVIOUS
      <4>2. QED BY <3>1, <4>1
    <3>3. conn[p] # "free"
      BY <1>4, <2>2 DEF ShowScreen, Runs
    <3>4. QED BY <1>0, <1>1, <2>1, <3>2, <3>3 DEF EndsInv, HeldInv
  <2>3. CASE p # q
    <3>1. frames'[p] = frames[p]
      BY <1>0, <1>4, <2>3 DEF ShowScreen, Send, TypeOK
    <3>2. QED BY <1>0, <1>1, <2>1, <3>1 DEF EndsInv, HeldInv
  <2>4. QED BY <2>2, <2>3
<1>5. ASSUME ChildExits(q) \/ ObeyKill(q) \/ WindowCloses(q)
      PROVE  EndsInv(p)' /\ HeldInv(p)'
  <2>1. conn' = conn /\ alive' = alive \ {q}
    BY <1>5 DEF ChildExits, ObeyKill, WindowCloses
  <2>2. CASE p = q
    <3>1. conn[p] # "free"
      BY <1>0, <1>5, <2>2 DEF ChildExits, ObeyKill, WindowCloses, Runs, EndsInv
    <3>2. QED BY <1>0, <1>1, <2>1, <2>2, <3>1 DEF EndsInv, HeldInv
  <2>3. CASE p # q
    <3>1. frames'[p] = frames[p]
      BY <1>0, <1>5, <2>3 DEF ChildExits, ObeyKill, WindowCloses, Send, TypeOK
    <3>2. QED BY <1>0, <1>1, <2>1, <2>3, <3>1 DEF EndsInv, HeldInv
  <2>4. QED BY <2>2, <2>3
<1>6. QED BY <1>2, <1>3, <1>4, <1>5 DEF Producer

\* The handler of a connection.
LEMMA AgreeHandler ==
  ASSUME AgreeInv, NEW q \in Conns, Handler(q), NEW p \in Conns
  PROVE  EndsInv(p)' /\ HeldInv(p)' /\ ListedInv(p)'
<1>0. TypeOK /\ SessionInv(p) /\ EndsInv(p) /\ HeldInv(p) /\ ListedInv(p)
  BY DEF AgreeInv, LifeInv, SlotsInv
<1> USE DEF HandlerKeeps
<1>1. /\ UNCHANGED <<alive, frames, forwarder, adding, phone, restarts, told>>
      /\ \A r \in Conns \ {q} : conn'[r] = conn[r] /\ (r \in registered' <=> r \in registered)
      /\ conn[q] # "closed" /\ conn'[q] # "free" /\ conn[q] # "free"
  BY <1>0 DEF Handler, Register, Welcome, Announce, ReadsEnd, Cleanup, Report, Goto, TypeOK
<1>2. ListedInv(p)'
  BY <1>0, <1>1, ListedQuiet
<1>3. EndsInv(p)'
  BY <1>0, <1>1 DEF EndsInv
<1> DEFINE Events == [kind : {"Connected", "Disconnected"}, sid : Conns]
           Will == \E i \in DOMAIN events : events[i].kind = "Connected" /\ events[i].sid = p
<1>4. Will => Will'
  <2>1. CASE UNCHANGED events
    BY <2>1
  <2>2. ASSUME NEW kind \in {"Connected", "Disconnected"},
               events' = Append(events, [kind |-> kind, sid |-> q])
        PROVE  Will => Will'
    <3>1. events \in Seq(Events)
      BY <1>0 DEF TypeOK
    <3>2. \A i \in DOMAIN events : i \in DOMAIN events' /\ events'[i] = events[i]
      BY <2>2, <3>1
    <3>3. QED BY <3>2
  <2>3. QED BY <2>1, <2>2 DEF Handler, Register, Welcome, Announce, ReadsEnd, Cleanup, Report
<1>5. CASE p # q
  <2> HIDE DEF Will
  <2>1. QED BY <1>0, <1>1, <1>2, <1>3, <1>4, <1>5 DEF HeldInv, Will
<1>6. CASE p = q
  <2>1. CASE Register(p) \/ Welcome(p)
    BY <1>0, <1>2, <1>3, <1>6, <2>1 DEF Register, Welcome, Goto, TypeOK, HeldInv
  <2>2. CASE Announce(p)
    <3>1. conn'[p] = "reading" /\ registered' = registered /\ conn[p] = "announce"
      BY <1>0, <2>2 DEF Announce, Goto, TypeOK
    <3>2. events \in Seq(Events) /\ events' = Append(events, [kind |-> "Connected", sid |-> p])
      BY <1>0, <2>2 DEF Announce, TypeOK
    <3>3. Len(events) + 1 \in DOMAIN events'
          /\ events'[Len(events) + 1] = [kind |-> "Connected", sid |-> p]
      BY <3>2
    <3>4. QED BY <1>0, <1>2, <1>3, <3>1, <3>3 DEF HeldInv
  <2>3. CASE ReadsEnd(p) \/ Cleanup(p) \/ Report(p)
    BY <1>0, <1>2, <1>3, <1>6, <2>3 DEF ReadsEnd, Cleanup, Report, Goto, TypeOK, HeldInv
  <2>4. QED BY <1>6, <2>1, <2>2, <2>3 DEF Handler
<1>7. QED BY <1>5, <1>6

\* The event loop.
LEMMA AgreeEventLoop ==
  ASSUME AgreeInv, EventLoop, NEW p \in Conns
  PROVE  EndsInv(p)' /\ HeldInv(p)' /\ ListedInv(p)'
<1>0. TypeOK /\ LifeInv /\ SessionInv(p) /\ EndsInv(p) /\ HeldInv(p) /\ ListedInv(p)
  BY DEF AgreeInv, LifeInv, SlotsInv
<1> USE DEF connVars, launchVars
<1> DEFINE Events == [kind : {"Connected", "Disconnected"}, sid : Conns]
           Will == \E i \in DOMAIN events : events[i].kind = "Connected" /\ events[i].sid = p
           e == Head(events)
\* What is left of the events when the first is taken.
<1>1. ASSUME events # <<>>, events' = Tail(events),
             ~(e.kind = "Connected" /\ e.sid = p)
      PROVE  Will => Will'
  <2>1. events \in Seq(Events)
    BY <1>0 DEF TypeOK
  <2>2. SUFFICES ASSUME NEW i \in DOMAIN events, events[i].kind = "Connected", events[i].sid = p
                 PROVE  Will'
    OBVIOUS
  <2>3. i # 1
    BY <1>1, <2>1, <2>2
  <2>4. i \in Nat /\ i \in 1..Len(events) /\ Len(events) \in Nat
    BY <2>1
  <2>5. i - 1 \in DOMAIN Tail(events) /\ Tail(events)[i - 1] = events[i]
    BY <1>1, <2>1, <2>3, <2>4
  <2>6. QED BY <1>1, <2>2, <2>5
<1>2. CASE MatchLaunch
  <2>1. /\ UNCHANGED <<conn, alive, frames, forwarder, registered, restarts, told>>
        /\ events # <<>> /\ events' = Tail(events) /\ adding = NoConn /\ adding' = e.sid
    BY <1>2 DEF MatchLaunch, EventIs
  <2>2. phone'.sessions = phone.sessions /\ phone'.up = phone.up
    BY <1>0, <1>2, AnswerLeavesList DEF MatchLaunch, Ack
  <2>3. ListedInv(p)'
    BY <1>0, <2>1, <2>2, ListedQuiet
  <2>4. EndsInv(p)'
    BY <1>0, <2>1 DEF EndsInv
  <2>5. adding # p
    BY <2>1, ConstantsAssumption
  <2>6. CASE e.sid = p
    <3>1. adding' = p
      BY <2>1, <2>6
    <3>2. QED BY <1>0, <2>1, <2>3, <2>4, <3>1 DEF HeldInv
  <2>7. CASE e.sid # p
    <3>1. Will => Will'
      BY <1>1, <2>1, <2>7
    <3> HIDE DEF Will
    <3>2. conn[p] = "reading" /\ forwarder[p] = "none" => Will
      BY <1>0, <2>5 DEF HeldInv, Will
    <3>3. HeldInv(p)'
      BY <1>0, <2>1, <3>1, <3>2 DEF HeldInv, Will
    <3>4. QED BY <2>3, <2>4, <3>3
  <2>8. QED BY <2>6, <2>7
<1>3. CASE AddSession
  <2>1. /\ UNCHANGED <<conn, alive, frames, registered, restarts, events>>
        /\ adding \in Conns /\ adding' = NoConn
        /\ forwarder' = [forwarder EXCEPT ![adding] = "running"]
        /\ List(phone.sessions \union {adding})
    BY <1>0, <1>3 DEF AddSession, SayAdded, TypeOK
  <2>2. phone.sessions \union {adding} \in SUBSET Conns
    BY <1>0, <2>1 DEF TypeOK
  <2>3. /\ phone'.up = phone.up
        /\ phone.up => phone'.sessions = phone.sessions \union {adding}
        /\ ~phone.up => phone'.sessions = phone.sessions
    BY <1>0, <2>1, <2>2, ListChanges
  <2>4. CASE p = adding
    <3>1. forwarder'[p] = "running"
      BY <1>0, <2>1, <2>4 DEF TypeOK
    <3>2. QED BY <1>0, <2>1, <2>3, <2>4, <3>1 DEF EndsInv, HeldInv, ListedInv, Listed
  <2>5. CASE p # adding
    <3>1. forwarder'[p] = forwarder[p]
      BY <1>0, <2>1, <2>5 DEF TypeOK
    <3>2. HeldInv(p)'
      BY <1>0, <2>1, <2>5, <3>1 DEF HeldInv
    <3>3. EndsInv(p)' /\ ListedInv(p)'
      BY <1>0, <2>1, <2>3, <2>5, <3>1 DEF EndsInv, ListedInv
    <3>4. QED BY <3>2, <3>3
  <2>6. QED BY <2>4, <2>5
<1>4. CASE DropSession
  <2>1. /\ UNCHANGED <<conn, alive, frames, forwarder, adding, restarts>>
        /\ events # <<>> /\ events' = Tail(events) /\ e.kind = "Disconnected"
        /\ registered' = registered \ {e.sid}
    BY <1>4 DEF DropSession, EventIs
  <2>2. e.sid \in Conns /\ conn[e.sid] = "closed"
    BY <1>0, <2>1, LifeTail DEF EventInv
  <2>3. registered' = registered /\ UNCHANGED phone
    BY <1>0, <1>4, <2>1, <2>2 DEF DropSession, LifeInv, SlotsInv, SlotsAreOwned
  <2>4. Will => Will'
    BY <1>1, <2>1
  <2> HIDE DEF Will
  <2>5. HeldInv(p)'
    BY <1>0, <2>1, <2>3, <2>4 DEF HeldInv, Will
  <2>6. QED BY <1>0, <2>1, <2>3, <2>5 DEF EndsInv, ListedInv
<1>5. QED BY <1>2, <1>3, <1>4 DEF EventLoop

\* The frame task of a session.
LEMMA AgreeForwarder ==
  ASSUME AgreeInv, NEW q \in Conns, Forwarder(q), NEW p \in Conns
  PROVE  EndsInv(p)' /\ HeldInv(p)' /\ ListedInv(p)'
<1>0. TypeOK /\ SessionInv(p) /\ EndsInv(p) /\ HeldInv(p) /\ ListedInv(p)
  BY DEF AgreeInv, LifeInv, SlotsInv
<1> USE DEF ForwarderKeeps
<1>1. UNCHANGED <<conn, alive, events, adding, restarts>>
  BY DEF Forwarder, ForwardScreen, TakeExit, SayExited, ChannelCloses, SayClosed
<1>2. /\ frames'[p] = frames[p] \/ (p = q /\ frames[p] # <<>> /\ frames'[p] = Tail(frames[p]))
      /\ p # q => forwarder'[p] = forwarder[p] /\ (p \in registered' <=> p \in registered)
  <2>1. \/ UNCHANGED frames
        \/ frames[q] # <<>> /\ frames' = [frames EXCEPT ![q] = Tail(frames[q])]
    BY DEF Forwarder, ForwardScreen, TakeExit, SayExited, ChannelCloses, SayClosed, Takes
  <2>2. /\ UNCHANGED forwarder \/ \E where \in {"exited", "closed", "done"} :
              forwarder' = [forwarder EXCEPT ![q] = where]
        /\ registered' = registered \/ registered' = registered \ {q}
    BY DEF Forwarder, ForwardScreen, TakeExit, SayExited, ChannelCloses, SayClosed
  <2>3. frames \in [Conns -> Seq({"screen", "exit"})]
        /\ forwarder \in [Conns -> {"none", "running", "exited", "closed", "done"}]
    BY <1>0 DEF TypeOK
  <2>4. p # q => forwarder'[p] = forwarder[p] /\ (p \in registered' <=> p \in registered)
    BY <2>2, <2>3
  <2>5. frames'[p] = frames[p] \/ (p = q /\ frames[p] # <<>> /\ frames'[p] = Tail(frames[p]))
    BY <2>1, <2>3
  <2>6. QED BY <2>4, <2>5
<1>3. p \in alive => \A i \in DOMAIN frames'[p] : frames'[p][i] # "exit"
  <2>1. frames[p] \in Seq({"screen", "exit"})
    BY <1>0 DEF TypeOK
  <2>2. CASE frames'[p] = frames[p]
    BY <1>0, <2>2 DEF EndsInv
  <2>3. CASE frames[p] # <<>> /\ frames'[p] = Tail(frames[p])
    <3>1. \A i \in DOMAIN Tail(frames[p]) :
            i + 1 \in DOMAIN frames[p] /\ Tail(frames[p])[i] = frames[p][i + 1]
      BY <2>1, <2>3, HeadTail
    <3>2. QED BY <1>0, <2>3, <3>1 DEF EndsInv
  <2>4. QED BY <1>2, <2>2, <2>3
<1>4. conn[p] = "free" => frames'[p] = <<>> /\ p \notin alive
  BY <1>0, <1>2 DEF EndsInv
\* The step ends or shows another session.
<1>5. CASE p # q
  <2>1. p \in phone'.sessions <=> p \in phone.sessions
    <3>1. CASE UNCHANGED phone
      BY <3>1
    <3>2. CASE List(phone.sessions \ {q})
      <4>1. phone.sessions \ {q} \in SUBSET Conns
        BY <1>0 DEF TypeOK
      <4>2. QED BY <1>0, <1>5, <3>2, <4>1, ListChanges
    <3>3. QED BY <3>1, <3>2 DEF Forwarder, ForwardScreen, TakeExit, SayExited,
                                ChannelCloses, SayClosed, SayRemoved
  <2>2. phone'.up = phone.up
    <3>1. phone.sessions \ {q} \in SUBSET Conns
      BY <1>0 DEF TypeOK
    <3>2. QED BY <1>0, <3>1, ListChanges
              DEF Forwarder, ForwardScreen, TakeExit, SayExited, ChannelCloses,
                  SayClosed, SayRemoved
  <2>3. QED BY <1>0, <1>1, <1>2, <1>3, <1>4, <1>5, <2>1, <2>2
            DEF EndsInv, HeldInv, ListedInv
<1>6. CASE p = q
  <2>1. CASE ForwardScreen(p)
    <3>1. UNCHANGED <<forwarder, registered, phone>>
      BY <2>1 DEF ForwardScreen
    <3>2. QED BY <1>0, <1>1, <1>3, <1>4, <3>1 DEF EndsInv, HeldInv, ListedInv
  <2>2. CASE TakeExit(p)
    <3>1. /\ forwarder[p] = "running" /\ forwarder'[p] = "exited" /\ UNCHANGED phone
          /\ frames[p] # <<>> /\ Head(frames[p]) = "exit"
      BY <1>0, <2>2 DEF TakeExit, Takes, TypeOK
    <3>2. p \notin alive
      <4>1. frames[p] \in Seq({"screen", "exit"})
        BY <1>0 DEF TypeOK
      <4>2. 1 \in DOMAIN frames[p] /\ frames[p][1] = "exit"
        BY <3>1, <4>1, HeadTail
      <4>3. QED BY <1>0, <4>2 DEF EndsInv
    <3>3. conn[p] \in Announced
      BY <1>0, <3>1 DEF SessionInv
    <3>4. QED BY <1>0, <1>1, <1>3, <1>4, <3>1, <3>2, <3>3
              DEF EndsInv, HeldInv, ListedInv, Listed, Announced
  <2>3. CASE ChannelCloses(p)
    <3>1. /\ forwarder[p] = "running" /\ forwarder'[p] = "closed" /\ UNCHANGED phone
          /\ conn[p] = "closed"
      BY <1>0, <2>3 DEF ChannelCloses, TypeOK
    <3>2. QED BY <1>0, <1>1, <1>3, <1>4, <3>1
              DEF EndsInv, HeldInv, ListedInv, Listed
  <2>4. CASE SayExited(p) \/ SayClosed(p)
    <3>1. /\ forwarder[p] \in {"exited", "closed"} /\ forwarder'[p] = "done"
          /\ UNCHANGED registered /\ List(phone.sessions \ {p})
      BY <1>0, <2>4 DEF SayExited, SayClosed, SayRemoved, TypeOK
    <3>2. phone.sessions \ {p} \in SUBSET Conns
      BY <1>0 DEF TypeOK
    <3>3. /\ phone'.up = phone.up
          /\ phone.up => phone'.sessions = phone.sessions \ {p}
          /\ ~phone.up => phone'.sessions = phone.sessions
      BY <1>0, <3>1, <3>2, ListChanges
    <3>4. HeldInv(p)' /\ EndsInv(p)'
      BY <1>0, <1>1, <1>3, <1>4, <3>1 DEF EndsInv, HeldInv
    <3>5. ListedInv(p)'
      BY <1>0, <1>1, <3>1, <3>3 DEF ListedInv, Listed
    <3>6. QED BY <3>4, <3>5
  <2>5. QED BY <1>6, <2>1, <2>2, <2>3, <2>4 DEF Forwarder
<1>7. QED BY <1>5, <1>6

\* The dispatcher, Terminal, and the timers answer launches only.
LEMMA AgreeDispatcher ==
  ASSUME AgreeInv, NEW p \in Conns,
         Dispatcher \/ TerminalOpens \/ \E r \in Requests : DeadlinePasses(r) \/ TimerFires(r)
  PROVE  EndsInv(p)' /\ HeldInv(p)' /\ ListedInv(p)'
<1>0. TypeOK /\ EndsInv(p) /\ HeldInv(p) /\ ListedInv(p)
  BY DEF AgreeInv, LifeInv, SlotsInv
<1>1. DispatcherKeeps
  BY DEF Dispatcher, LaunchSession, ScriptSucceeds, ScriptFails, KillSession,
         TerminalOpens, DeadlinePasses, TimerFires
<1>2. UNCHANGED phone \/ \E r : Reject(r)
  BY DEF Dispatcher, LaunchSession, ScriptSucceeds, ScriptFails, KillSession,
         TerminalOpens, DeadlinePasses, TimerFires
<1>3. phone'.sessions = phone.sessions /\ phone'.up = phone.up
  BY <1>0, <1>2, AnswerLeavesList DEF Reject
<1>4. ListedInv(p)'
  BY <1>0, <1>1, <1>3, ListedQuiet DEF DispatcherKeeps
<1>5. QED BY <1>0, <1>1, <1>4 DEF DispatcherKeeps, EndsInv, HeldInv

\* The phone forgets its list when its process is killed, and nothing else changes it.
LEMMA AgreePhone ==
  ASSUME AgreeInv, NEW p \in Conns, Phone
  PROVE  EndsInv(p)' /\ HeldInv(p)' /\ ListedInv(p)'
<1>0. TypeOK /\ EndsInv(p) /\ HeldInv(p) /\ ListedInv(p)
  BY DEF AgreeInv, LifeInv, SlotsInv
<1>1. PhoneKeeps
  BY DEF Phone, Launch, Kill, PruneLaunch, PhoneDies, PhoneReconnects
<1>2. EndsInv(p)' /\ HeldInv(p)'
  BY <1>0, <1>1 DEF PhoneKeeps, connVars, EndsInv, HeldInv
<1>3. ASSUME phone'.sessions = phone.sessions, phone'.up = phone.up, UNCHANGED restarts
      PROVE  ListedInv(p)'
  BY <1>0, <1>1, <1>3, ListedQuiet DEF PhoneKeeps
<1>4. CASE PhoneDies
  <2>1. restarts' # 0 /\ phone'.sessions = {}
    BY <1>0, <1>4 DEF PhoneDies, FreshPhone, TypeOK
  <2>2. QED BY <1>2, <2>1 DEF ListedInv
<1>5. CASE PhoneReconnects
  <2>1. restarts' # 0 /\ phone'.sessions = {}
    BY <1>0, <1>5 DEF PhoneReconnects, FreshPhone, ListedInv
  <2>2. QED BY <1>2, <2>1 DEF ListedInv
<1>6. ASSUME NEW r \in Requests, NEW l \in Launchers \union {Unknown}, Launch(r, l)
      PROVE  ListedInv(p)'
  BY <1>0, <1>3, <1>6 DEF Launch, TypeOK
<1>7. ASSUME NEW q \in Conns, Kill(q)
      PROVE  ListedInv(p)'
  BY <1>3, <1>7 DEF Kill
<1>8. ASSUME NEW r \in Requests, PruneLaunch(r)
      PROVE  ListedInv(p)'
  BY <1>0, <1>3, <1>8 DEF PruneLaunch, TypeOK
<1>9. QED BY <1>2, <1>4, <1>5, <1>6, <1>7, <1>8 DEF Phone

LEMMA AgreeStep == AgreeInv /\ [Next]_vars => AgreeInv'
<1> SUFFICES ASSUME AgreeInv, [Next]_vars PROVE AgreeInv'
  OBVIOUS
<1>1. LifeInv'
  BY LifeStep DEF AgreeInv
<1>2. ASSUME NEW p \in Conns
      PROVE  EndsInv(p)' /\ HeldInv(p)' /\ ListedInv(p)'
  <2>1. CASE UNCHANGED vars
    BY <2>1 DEF AgreeInv, vars, connVars, EndsInv, HeldInv, ListedInv
  <2>2. QED
    BY <2>1, AgreeProducer, AgreeHandler, AgreeForwarder, AgreeEventLoop,
       AgreeDispatcher, AgreePhone DEF Next
<1>3. QED BY <1>1, <1>2 DEF AgreeInv

LEMMA AgreeInit == Init => AgreeInv
<1> SUFFICES ASSUME Init, NEW p \in Conns
             PROVE  EndsInv(p) /\ HeldInv(p) /\ ListedInv(p)
  BY LifeInit DEF AgreeInv
<1>1. /\ conn[p] = "free" /\ frames[p] = <<>> /\ alive = {} /\ forwarder[p] = "none"
      /\ phone.sessions = {} /\ phone.up
  BY DEF Init, FreshPhone
<1>2. QED BY <1>1 DEF EndsInv, HeldInv, ListedInv, Listed

\* What a settled session is to the Mac.
LEMMA SettledSessions ==
  ASSUME AgreeInv, NEW p \in Conns, Settled(p)
  PROVE  p \in registered <=> forwarder[p] \in Listed
<1>1. TypeOK /\ SlotsAreOwned /\ SessionInv(p) /\ EndsInv(p) /\ HeldInv(p)
  BY DEF AgreeInv, LifeInv, SlotsInv
<1>2. adding # p /\ \A i \in DOMAIN events : events[i].sid # p
  BY DEF Settled
<1>3. forwarder[p] \in {"none", "running", "exited", "closed", "done"}
  BY <1>1 DEF TypeOK
<1>4. CASE conn[p] = "free"
  <2>1. p \notin registered /\ forwarder[p] = "none"
    BY <1>1, <1>4 DEF SlotsAreOwned, SessionInv, Announced
  <2>2. QED BY <2>1 DEF Listed
<1>5. CASE conn[p] = "reading"
  <2>1. p \in alive
    BY <1>5 DEF Settled
  <2>2. p \in registered /\ forwarder[p] # "none"
    BY <1>1, <1>2, <1>5, <2>1 DEF HeldInv
  <2>3. forwarder[p] = "running"
    BY <1>1, <1>3, <1>5, <2>1, <2>2 DEF EndsInv
  <2>4. QED BY <2>2, <2>3 DEF Listed
<1>6. CASE conn[p] = "closed"
  <2>1. p \notin registered
    BY <1>1, <1>6 DEF SlotsAreOwned
  <2>2. forwarder[p] \in {"none", "done"}
    BY <1>6 DEF Settled
  <2>3. QED BY <2>1, <2>2 DEF Listed
<1>7. QED BY <1>4, <1>5, <1>6 DEF Settled

\* As long as the phone's process was not killed, it lists a session that no task
\* of the Mac has anything to do for exactly if the session is registered, for any
\* number of sessions and slots.  (After a restart nothing tells it what runs.)
THEOREM PhoneListsSessions == Spec => [](restarts = 0 => PhoneAgrees)
<1>1. AgreeInv => (restarts = 0 => PhoneAgrees)
  <2> SUFFICES ASSUME AgreeInv, restarts = 0, phone.up, NEW p \in Conns, Settled(p)
               PROVE  p \in phone.sessions <=> p \in registered
    BY DEF PhoneAgrees
  <2>1. p \in phone.sessions <=> forwarder[p] \in Listed
    BY DEF AgreeInv, ListedInv
  <2>2. QED BY <2>1, SettledSessions
<1>2. QED BY <1>1, AgreeInit, AgreeStep, PTL DEF Spec

\* Whatever happens to the phone's process, a session it lists and that no task of
\* the Mac has anything to do for is registered: the phone shows no session that ended.
THEOREM ListedIsRegistered ==
  Spec => [](\A p \in Conns : Settled(p) /\ p \in phone.sessions => p \in registered)
<1> DEFINE Shown == \A p \in Conns : Settled(p) /\ p \in phone.sessions => p \in registered
<1>1. AgreeInv => Shown
  <2> SUFFICES ASSUME AgreeInv, NEW p \in Conns, Settled(p), p \in phone.sessions
               PROVE  p \in registered
    OBVIOUS
  <2>1. forwarder[p] \in Listed
    BY DEF AgreeInv, ListedInv
  <2>2. QED BY <2>1, SettledSessions
<1> HIDE DEF Shown
<1>2. Spec => []Shown
  BY <1>1, AgreeInit, AgreeStep, PTL DEF Spec
<1>3. QED BY <1>2 DEF Shown
===========================================================================
