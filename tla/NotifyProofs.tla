---------------------------- MODULE NotifyProofs ----------------------------
(***************************************************************************)
(* What holds of notifications for any number of commands, sessions,       *)
(* watchers, pairings and restarts.                                        *)
(***************************************************************************)
EXTENDS Notify, FiniteSetTheorems, TLAPS

USE DEF agentVars, engineVars, shimVars, watchVars, vars

------------------------------------------------------------------------------
(* The invariants.                                                          *)

Phases == {"none", "first", "ack", "wait", "gone"}
ShimPhases ==
  {"idle", "connecting", "registering", "registered", "unregistered", "reported", "ended"}

Handlers == [at : Phases, engine : Engines, owner : Pairings]
Forwarders == [at : {"none", "running", "ended"}, engine : Engines, owner : Pairings,
               due : SUBSET Watchers]
SocketEnds == [open : BOOLEAN, sent : SUBSET {"register", "complete"}, acked : BOOLEAN]
PushSet == [of : Commands \union Watchers, pair : Pairings \ {0}]

\* The types, but for the number of matches told, which the watchers' hits bound.
Types ==
  /\ engine \in Engines /\ pairings \in Pairings /\ restarts \in 0..MaxRestarts
  /\ engine <= pairings + restarts
  /\ pairOf \in [Engines -> Pairings]
  /\ inFlight \in [Engines -> SUBSET Commands]
  /\ watchers \in [Engines -> [Sessions -> SUBSET Watchers]]
  /\ hits \in [Watchers -> 0..MaxHits]
  /\ handler \in [Commands -> Handlers]
  /\ forwarder \in [Sessions -> Forwarders]
  /\ request \in {NoRequest} \union [session : Sessions, engine : Engines]
  /\ asked \in SUBSET Watchers
  /\ shim \in [Commands -> ShimPhases]
  /\ socket \in [Commands -> SocketEnds]
  /\ listed \in [Sessions -> SUBSET Watchers]
  /\ matched \in [Watchers -> Nat]
  /\ pushes \in SUBSET PushSet

\* Each task has an engine that was built by then, and that engine pushes to the pair
\* of the task's start or to none.
EnginesInv ==
  /\ pairOf[engine] \in {0, pairings}
  /\ \A c \in Commands : handler[c].at \notin {"none", "gone"} =>
       handler[c].engine <= engine /\ pairOf[handler[c].engine] \in {0, handler[c].owner}
  /\ \A s \in Sessions : forwarder[s].at # "none" =>
       forwarder[s].engine <= engine /\ pairOf[forwarder[s].engine] \in {0, forwarder[s].owner}

\* A report was sent by a shim that reported, and a push about a command came of it.
ReportsInv ==
  /\ \A c \in Commands : "complete" \in socket[c].sent => shim[c] = "reported"
  /\ \A p \in pushes : p.of \in Commands =>
       /\ shim[p.of] = "reported"
       /\ handler[p.of].at # "none" /\ p.pair = handler[p.of].owner

\* A watcher has one engine and one session for good.
HomeInv ==
  /\ \A e \in Engines, s \in Sessions : watchers[e][s] \subseteq asked
  /\ \A e, f \in Engines, s, t \in Sessions :
       \A w \in watchers[e][s] : w \in watchers[f][t] => e = f /\ s = t
  /\ \A s \in Sessions : listed[s] \subseteq asked /\ forwarder[s].due \subseteq asked
  /\ \A s, t \in Sessions : \A w \in forwarder[s].due : w \in forwarder[t].due => s = t
  /\ \A e \in Engines, s, t \in Sessions :
       \A w \in watchers[e][s] : w \in forwarder[t].due => s = t
  /\ \A s \in Sessions :
       /\ forwarder[s].at # "running" => forwarder[s].due = {}
       /\ forwarder[s].at = "none" =>
            listed[s] = {} /\ \A e \in Engines : watchers[e][s] = {}

WatcherPushesInv ==
  \A p \in pushes : p.of \in Watchers =>
    /\ p.of \in asked
    /\ \A e \in Engines, s \in Sessions : p.of \in watchers[e][s] => p.pair = forwarder[s].owner

\* A match that is due is a hit that the phone has not been told.
HitsInv ==
  /\ \A w \in Watchers : matched[w] <= hits[w] /\ (w \notin asked => matched[w] = hits[w])
  /\ \A s \in Sessions : \A w \in forwarder[s].due : matched[w] + 1 = hits[w]
  /\ \A e \in Engines, s \in Sessions : \A w \in watchers[e][s] :
       w \notin forwarder[s].due => matched[w] = hits[w]

\* While a request is handled, its list of the session is the one that is not yet shown.
ListsInv ==
  /\ request # NoRequest =>
       /\ forwarder[request.session].at # "none"
       /\ forwarder[request.session].engine <= request.engine /\ request.engine <= engine
  /\ \A s \in Sessions :
       forwarder[s].at = "running" /\ forwarder[s].engine = engine =>
         \/ listed[s] = watchers[engine][s]
         \/ request # NoRequest /\ request.session = s

NotifyInv ==
  /\ Types /\ EnginesInv /\ ReportsInv /\ HomeInv /\ WatcherPushesInv /\ HitsInv /\ ListsInv

------------------------------------------------------------------------------
(* Facts that the steps share.                                              *)

\* The actions of a run of `macagent notify`, which leave the agent alone.
ShimStep(c) ==
  Start(c) \/ Connect(c) \/ AckArrives(c) \/ RegisterFails(c) \/ Report(c) \/ EndSilently(c)

\* Those of its connection task, which leave the watchers alone.
HandlerStep(c) == Accept(c) \/ Register(c) \/ WriteAck(c) \/ Complete(c) \/ EndOfStream(c)

LEMMA NextSteps ==
  ASSUME [Next]_vars
  PROVE  \/ Paired \/ Restart \/ SendList
         \/ \E c \in Commands : ShimStep(c) \/ HandlerStep(c)
         \/ \E s \in Sessions : SessionConnects(s) \/ SessionEnds(s)
         \/ \E s \in Sessions, w \in Watchers : Watch(s, w) \/ Unwatch(s, w) \/ SendMatch(s, w)
         \/ \E s \in Sessions, found \in SUBSET Watchers : Feed(s, found)
         \/ UNCHANGED vars
BY DEF Next, Shim, Handle, ShimStep, HandlerStep

LEMMA ShimChanges ==
  ASSUME NEW c \in Commands, ShimStep(c)
  PROVE  UNCHANGED <<agentVars, engineVars, handler, watchVars, pushes>>
BY DEF ShimStep, Start, Connect, AckArrives, RegisterFails, Report, EndSilently, AgentKeeps

LEMMA HandlerChanges ==
  ASSUME NEW c \in Commands, HandlerStep(c)
  PROVE  UNCHANGED <<agentVars, watchVars, shim, watchers, hits>>
BY DEF HandlerStep, Accept, Register, WriteAck, Complete, EndOfStream, ShimKeeps

\* What a task adds to the pushes.
LEMMA PushAdds ==
  ASSUME NEW what, NEW task, Push(what, task), NEW p \in pushes'
  PROVE  \/ p \in pushes
         \/ /\ pairOf[task.engine] # 0
            /\ p = [of |-> what, pair |-> pairOf[task.engine]]
BY DEF Push

LEMMA PushKeeps ==
  ASSUME NEW what, NEW task, Push(what, task)
  PROVE  pushes \subseteq pushes'
BY DEF Push

LEMMA PushType ==
  ASSUME NEW what \in Commands \union Watchers, NEW task, Push(what, task),
         pairOf[task.engine] \in Pairings,
         pushes \in SUBSET PushSet
  PROVE  pushes' \in SUBSET PushSet
BY DEF Push, PushSet

\* How the records of the tasks and of a connection change.
LEMMA HandlerMoves ==
  ASSUME Types, NEW c \in Commands, NEW at \in Phases, Goes(c, at)
  PROVE  /\ handler' \in [Commands -> Handlers] /\ handler'[c].at = at
         /\ handler'[c].engine = handler[c].engine /\ handler'[c].owner = handler[c].owner
         /\ \A d \in Commands : d # c => handler'[d] = handler[d]
<1>1. handler \in [Commands -> Handlers] /\ handler' = [handler EXCEPT ![c] = [@ EXCEPT !.at = at]]
  BY DEF Types, Goes
<1>2. /\ [handler[c] EXCEPT !.at = at] \in Handlers
      /\ [handler[c] EXCEPT !.at = at].at = at
      /\ [handler[c] EXCEPT !.at = at].engine = handler[c].engine
      /\ [handler[c] EXCEPT !.at = at].owner = handler[c].owner
  BY <1>1 DEF Handlers
<1>3. QED BY <1>1, <1>2

LEMMA ForwarderMoves ==
  ASSUME Types, NEW s \in Sessions, NEW at \in {"none", "running", "ended"},
         NEW due \in SUBSET Watchers,
         forwarder' = [forwarder EXCEPT ![s] = [@ EXCEPT !.at = at, !.due = due]]
  PROVE  /\ forwarder' \in [Sessions -> Forwarders]
         /\ forwarder'[s].at = at /\ forwarder'[s].due = due
         /\ forwarder'[s].engine = forwarder[s].engine /\ forwarder'[s].owner = forwarder[s].owner
         /\ \A t \in Sessions : t # s => forwarder'[t] = forwarder[t]
<1> DEFINE f == [forwarder[s] EXCEPT !.at = at, !.due = due]
<1>1. forwarder \in [Sessions -> Forwarders] /\ forwarder' = [forwarder EXCEPT ![s] = f]
  BY DEF Types
<1>2. /\ f \in Forwarders /\ f.at = at /\ f.due = due
      /\ f.engine = forwarder[s].engine /\ f.owner = forwarder[s].owner
  BY <1>1 DEF Forwarders
<1> HIDE DEF f
<1>3. QED BY <1>1, <1>2

\* The three ways in which a frame task goes on: where it is then, and what is due.
LEMMA SessionEndsMoves ==
  ASSUME Types, NEW s \in Sessions, SessionEnds(s)
  PROVE  /\ forwarder' \in [Sessions -> Forwarders]
         /\ forwarder'[s].at = "ended" /\ forwarder'[s].due = {}
         /\ forwarder'[s].engine = forwarder[s].engine /\ forwarder'[s].owner = forwarder[s].owner
         /\ \A t \in Sessions : t # s => forwarder'[t] = forwarder[t]
<1>1. forwarder[s].due = {} /\ forwarder' = [forwarder EXCEPT ![s] = [@ EXCEPT !.at = "ended"]]
  BY DEF SessionEnds
<1>2. forwarder[s] \in Forwarders
  BY DEF Types
<1>3. [forwarder[s] EXCEPT !.at = "ended"] = [forwarder[s] EXCEPT !.at = "ended", !.due = {}]
  BY <1>1, <1>2 DEF Forwarders
<1>4. forwarder' = [forwarder EXCEPT ![s] = [@ EXCEPT !.at = "ended", !.due = {}]]
  BY <1>1, <1>3
<1>5. "ended" \in {"none", "running", "ended"} /\ {} \in SUBSET Watchers
  OBVIOUS
<1>6. QED BY <1>4, <1>5, ForwarderMoves

LEMMA FeedMoves ==
  ASSUME Types, NEW s \in Sessions, NEW found \in SUBSET Watchers, Feed(s, found)
  PROVE  /\ forwarder' \in [Sessions -> Forwarders]
         /\ forwarder'[s].at = forwarder[s].at /\ forwarder'[s].due = found
         /\ forwarder'[s].engine = forwarder[s].engine /\ forwarder'[s].owner = forwarder[s].owner
         /\ \A t \in Sessions : t # s => forwarder'[t] = forwarder[t]
<1> DEFINE at == forwarder[s].at
<1>1. forwarder' = [forwarder EXCEPT ![s] = [@ EXCEPT !.due = found]]
  BY DEF Feed
<1>2. forwarder[s] \in Forwarders /\ at \in {"none", "running", "ended"}
  BY DEF Types, Forwarders
<1>3. [forwarder[s] EXCEPT !.due = found] = [forwarder[s] EXCEPT !.at = at, !.due = found]
  BY <1>2 DEF Forwarders
<1>4. forwarder' = [forwarder EXCEPT ![s] = [@ EXCEPT !.at = at, !.due = found]]
  BY <1>1, <1>3
<1> HIDE DEF at
<1>5. QED BY <1>2, <1>4, ForwarderMoves DEF at

LEMMA SendMatchMoves ==
  ASSUME Types, NEW s \in Sessions, NEW w \in Watchers, SendMatch(s, w)
  PROVE  /\ forwarder' \in [Sessions -> Forwarders]
         /\ forwarder'[s].at = forwarder[s].at /\ forwarder'[s].due = forwarder[s].due \ {w}
         /\ forwarder'[s].engine = forwarder[s].engine /\ forwarder'[s].owner = forwarder[s].owner
         /\ \A t \in Sessions : t # s => forwarder'[t] = forwarder[t]
<1> DEFINE at == forwarder[s].at
           due == forwarder[s].due \ {w}
<1>1. forwarder' = [forwarder EXCEPT ![s] = [@ EXCEPT !.due = due]]
  BY DEF SendMatch
<1>2. forwarder[s] \in Forwarders /\ at \in {"none", "running", "ended"} /\ due \in SUBSET Watchers
  BY DEF Types, Forwarders
<1>3. [forwarder[s] EXCEPT !.due = due] = [forwarder[s] EXCEPT !.at = at, !.due = due]
  BY <1>2 DEF Forwarders
<1>4. forwarder' = [forwarder EXCEPT ![s] = [@ EXCEPT !.at = at, !.due = due]]
  BY <1>1, <1>3
<1> HIDE DEF at, due
<1>5. /\ forwarder' \in [Sessions -> Forwarders]
      /\ forwarder'[s].at = at /\ forwarder'[s].due = due
      /\ forwarder'[s].engine = forwarder[s].engine /\ forwarder'[s].owner = forwarder[s].owner
      /\ \A t \in Sessions : t # s => forwarder'[t] = forwarder[t]
  BY <1>2, <1>4, ForwarderMoves
<1>6. QED BY <1>5 DEF at, due

LEMMA SocketMoves ==
  ASSUME Types, NEW c \in Commands, NEW open \in BOOLEAN,
         NEW sent \in SUBSET {"register", "complete"}
  PROVE  /\ [socket[c] EXCEPT !.open = open, !.sent = sent] \in SocketEnds
         /\ [socket[c] EXCEPT !.open = open] \in SocketEnds
         /\ [socket[c] EXCEPT !.acked = open] \in SocketEnds
<1>1. socket[c] \in SocketEnds
  BY DEF Types
<1>2. QED BY <1>1 DEF SocketEnds

LEMMA IsRequest ==
  ASSUME NEW s, NEW e
  PROVE  [session |-> s, engine |-> e] # NoRequest
<1>1. "engine" \in DOMAIN [session |-> s, engine |-> e]
  OBVIOUS
<1>2. "engine" \notin DOMAIN NoRequest
  BY DEF NoRequest
<1>3. QED BY <1>1, <1>2

LEMMA NextEngine ==
  ASSUME Types, pairings < MaxPairings \/ restarts < MaxRestarts
  PROVE  engine + 1 \in Engines /\ engine \in Nat /\ pairings \in Nat /\ restarts \in Nat
BY BoundsAssumption DEF Types, Engines, Pairings

------------------------------------------------------------------------------
(* Type correctness.                                                        *)

LEMMA InitTypes == Init => Types
<1> SUFFICES ASSUME Init PROVE Types
  OBVIOUS
<1>1. engine \in Engines /\ pairings \in Pairings /\ restarts \in 0..MaxRestarts
      /\ engine <= pairings + restarts
  BY BoundsAssumption DEF Init, Engines, Pairings
<1>2. pairOf \in [Engines -> Pairings]
  BY BoundsAssumption DEF Init, Pairings
<1>3. hits \in [Watchers -> 0..MaxHits] /\ matched \in [Watchers -> Nat]
  BY BoundsAssumption DEF Init
<1>4. 0 \in Engines /\ 0 \in Pairings
  BY BoundsAssumption DEF Engines, Pairings
<1>5. handler \in [Commands -> Handlers]
  BY <1>4 DEF Init, NoTask, Phases, Handlers
<1>6. forwarder \in [Sessions -> Forwarders]
  BY <1>4 DEF Init, NoForwarder, Forwarders
<1>7. /\ inFlight \in [Engines -> SUBSET Commands]
      /\ watchers \in [Engines -> [Sessions -> SUBSET Watchers]]
      /\ request = NoRequest /\ asked \in SUBSET Watchers
      /\ listed \in [Sessions -> SUBSET Watchers] /\ pushes = {}
  BY DEF Init
<1>8. /\ shim \in [Commands -> ShimPhases]
      /\ socket \in [Commands -> SocketEnds]
  BY DEF Init, NoSocket, ShimPhases, SocketEnds
<1>9. QED BY <1>1, <1>2, <1>3, <1>5, <1>6, <1>7, <1>8 DEF Types

LEMMA StepTypes == Types /\ [Next]_vars => Types'
<1> SUFFICES ASSUME Types, [Next]_vars PROVE Types'
  OBVIOUS
<1>1. CASE Paired
  <2>1. engine' \in Engines /\ engine' <= pairings' + restarts
    BY <1>1, NextEngine DEF Paired, Build, Types
  <2>2. pairings' \in Pairings
    BY <1>1, BoundsAssumption DEF Paired, Types, Pairings
  <2>3. pairOf' \in [Engines -> Pairings]
    BY <1>1, <2>2 DEF Paired, Build, Types
  <2>4. QED BY <1>1, <2>1, <2>2, <2>3 DEF Paired, Types
<1>2. CASE Restart
  <2>1. PICK pair \in {0, pairings} : Build(pair)
    BY <1>2 DEF Restart
  <2>2. engine' \in Engines /\ engine' <= pairings + restarts' /\ restarts' \in 0..MaxRestarts
    <3>1. restarts < MaxRestarts /\ restarts' = restarts + 1 /\ engine' = engine + 1
      BY <1>2, <2>1 DEF Restart, Build
    <3>2. QED BY <3>1, NextEngine, BoundsAssumption DEF Types
  <2>3. pair \in Pairings
    BY BoundsAssumption DEF Types, Pairings
  <2>4. pairOf' \in [Engines -> Pairings]
    BY <2>1, <2>3 DEF Build, Types
  <2>5. handler' \in [Commands -> Handlers]
    <3>1. \A c \in Commands : handler[c] \in Handlers /\ [handler[c] EXCEPT !.at = "gone"] \in Handlers
      BY DEF Types, Handlers, Phases
    <3>2. QED BY <1>2, <3>1 DEF Restart
  <2>6. forwarder' \in [Sessions -> Forwarders]
    <3>1. \A s \in Sessions : /\ forwarder[s] \in Forwarders
                             /\ [forwarder[s] EXCEPT !.at = "ended", !.due = {}] \in Forwarders
      BY DEF Types, Forwarders
    <3>2. QED BY <1>2, <3>1 DEF Restart
  <2>7. inFlight' \in [Engines -> SUBSET Commands] /\ request' = NoRequest
        /\ watchers' \in [Engines -> [Sessions -> SUBSET Watchers]]
    BY <1>2 DEF Restart
  <2>8. UNCHANGED <<pairings, hits, shimVars, asked, listed, matched, pushes>>
    BY <1>2 DEF Restart
  <2>9. QED BY <2>2, <2>4, <2>5, <2>6, <2>7, <2>8 DEF Types
<1>3. CASE SendList
  <2>1. request \in [session : Sessions, engine : Engines]
    BY <1>3 DEF SendList, Types
  <2>2. listed' \in [Sessions -> SUBSET Watchers]
    BY <1>3, <2>1 DEF SendList, Types
  <2>3. QED BY <1>3, <2>2 DEF SendList, WatchKeeps, Types
<1>4. ASSUME NEW c \in Commands, ShimStep(c) PROVE Types'
  <2>1. /\ shim' \in [Commands -> ShimPhases]
        /\ socket' \in [Commands -> SocketEnds]
    <3>1. CASE Start(c) \/ AckArrives(c)
      BY <3>1 DEF Start, AckArrives, Becomes, Types, ShimPhases
    <3>2. CASE Connect(c)
      BY <3>2 DEF Connect, Becomes, Types, ShimPhases, SocketEnds
    <3>3. CASE RegisterFails(c) \/ EndSilently(c)
      <4>1. socket' = [socket EXCEPT ![c] = [@ EXCEPT !.open = FALSE]]
        BY <3>3 DEF RegisterFails, EndSilently
      <4>2. QED BY <3>3, <4>1, SocketMoves DEF RegisterFails, EndSilently, Becomes, Types, ShimPhases
    <3>4. CASE Report(c)
      <4>1. socket' = [socket EXCEPT ![c] =
                         [@ EXCEPT !.open = FALSE, !.sent = socket[c].sent \union {"complete"}]]
        BY <3>4 DEF Report, Types
      <4>2. socket[c].sent \union {"complete"} \in SUBSET {"register", "complete"}
        BY DEF Types, SocketEnds
      <4>3. [socket[c] EXCEPT !.open = FALSE, !.sent = socket[c].sent \union {"complete"}] \in SocketEnds
        BY <4>2, SocketMoves
      <4>4. socket' \in [Commands -> SocketEnds]
        BY <4>1, <4>3 DEF Types
      <4>5. QED BY <3>4, <4>4 DEF Report, Becomes, Types, ShimPhases
    <3>5. QED BY <1>4, <3>1, <3>2, <3>3, <3>4 DEF ShimStep
  <2>2. QED BY <1>4, <2>1, ShimChanges DEF Types
<1>5. ASSUME NEW c \in Commands, HandlerStep(c) PROVE Types'
  <2>0. UNCHANGED <<agentVars, watchVars, shim, watchers, hits>>
    BY <1>5, HandlerChanges
  <2>1. handler' \in [Commands -> Handlers]
    <3>1. CASE Accept(c)
      BY <3>1 DEF Accept, Types, Handlers, Phases
    <3>2. CASE ~Accept(c)
      <4>1. \E at \in Phases : Goes(c, at)
        BY <1>5, <3>2 DEF HandlerStep, Register, WriteAck, Complete, EndOfStream, Phases
      <4>2. QED BY <4>1, HandlerMoves
    <3>3. QED BY <3>1, <3>2
  <2>2. inFlight' \in [Engines -> SUBSET Commands]
    <3>1. \A e \in Engines : inFlight[e] \subseteq Commands
      BY DEF Types
    <3>2. handler[c].engine \in Engines
      BY DEF Types, Handlers
    <3>3. CASE Register(c)
      BY <3>1, <3>2, <3>3 DEF Register, Types
    <3>4. CASE Complete(c)
      BY <3>1, <3>2, <3>4 DEF Complete, Types
    <3>5. CASE Accept(c) \/ WriteAck(c) \/ EndOfStream(c)
      BY <3>5 DEF Accept, WriteAck, EndOfStream, Types
    <3>6. QED BY <1>5, <3>3, <3>4, <3>5 DEF HandlerStep
  <2>3. socket' \in [Commands -> SocketEnds]
    <3>1. socket' = socket \/ socket' = [socket EXCEPT ![c] = [@ EXCEPT !.acked = TRUE]]
      BY <1>5 DEF HandlerStep, Accept, Register, WriteAck, Complete, EndOfStream
    <3>2. QED BY <3>1, SocketMoves DEF Types
  <2>4. pushes' \in SUBSET PushSet
    <3>1. pairOf[handler[c].engine] \in Pairings
      BY DEF Types, Handlers
    <3>2. pushes' = pushes \/ Push(c, handler[c])
      BY <1>5 DEF HandlerStep, Accept, Register, WriteAck, Complete, EndOfStream
    <3>3. QED BY <3>1, <3>2, PushType DEF Types
  <2>5. QED BY <2>0, <2>1, <2>2, <2>3, <2>4 DEF Types
<1>6. ASSUME NEW s \in Sessions, SessionConnects(s) \/ SessionEnds(s) PROVE Types'
  <2>1. forwarder' \in [Sessions -> Forwarders]
    <3>1. CASE SessionConnects(s)
      BY <3>1 DEF SessionConnects, Types, Forwarders
    <3>2. CASE SessionEnds(s)
      BY <3>2, SessionEndsMoves
    <3>3. QED BY <1>6, <3>1, <3>2
  <2>2. QED BY <1>6, <2>1 DEF SessionConnects, SessionEnds, WatchKeeps, Types
<1>7. ASSUME NEW s \in Sessions, NEW w \in Watchers, Watch(s, w) \/ Unwatch(s, w) PROVE Types'
  <2>1. watchers' \in [Engines -> [Sessions -> SUBSET Watchers]]
    <3>1. PICK left \in SUBSET Watchers :
            watchers' = [watchers EXCEPT ![engine] = [@ EXCEPT ![s] = left]]
      <4>1. watchers[engine][s] \in SUBSET Watchers
        BY DEF Types
      <4>2. CASE Watch(s, w)
        <5>1. watchers' = [watchers EXCEPT ![engine] = [@ EXCEPT ![s] = watchers[engine][s] \union {w}]]
          BY <4>2 DEF Watch
        <5>2. QED BY <4>1, <5>1
      <4>3. CASE Unwatch(s, w)
        <5>1. watchers' = [watchers EXCEPT ![engine] = [@ EXCEPT ![s] = watchers[engine][s] \ {w}]]
          BY <4>3 DEF Unwatch
        <5>2. QED BY <4>1, <5>1
      <4>4. QED BY <1>7, <4>2, <4>3
    <3>2. watchers[engine] \in [Sessions -> SUBSET Watchers]
      BY DEF Types
    <3>3. QED BY <3>1, <3>2 DEF Types
  <2>2. request' \in [session : Sessions, engine : Engines] /\ asked' \in SUBSET Watchers
    BY <1>7 DEF Watch, Unwatch, Types
  <2>3. QED BY <1>7, <2>1, <2>2 DEF Watch, Unwatch, WatchKeeps, Types
<1>8. ASSUME NEW s \in Sessions, NEW w \in Watchers, SendMatch(s, w) PROVE Types'
  <2>1. matched' \in [Watchers -> Nat]
    BY <1>8 DEF SendMatch, Types
  <2>2. forwarder' \in [Sessions -> Forwarders]
    BY <1>8, SendMatchMoves
  <2>3. pushes' \in SUBSET PushSet
    <3>1. pairOf[forwarder[s].engine] \in Pairings
      BY DEF Types, Forwarders
    <3>2. Push(w, forwarder[s])
      BY <1>8 DEF SendMatch
    <3>3. QED BY <3>1, <3>2, PushType DEF Types
  <2>4. QED BY <1>8, <2>1, <2>2, <2>3 DEF SendMatch, WatchKeeps, Types
<1>9. ASSUME NEW s \in Sessions, NEW found \in SUBSET Watchers, Feed(s, found) PROVE Types'
  <2>1. hits' \in [Watchers -> 0..MaxHits]
    BY <1>9, BoundsAssumption DEF Feed, Types
  <2>2. forwarder' \in [Sessions -> Forwarders]
    BY <1>9, FeedMoves
  <2>3. QED BY <1>9, <2>1, <2>2 DEF Feed, WatchKeeps, Types
<1>10. CASE UNCHANGED vars
  BY <1>10 DEF Types
<1>11. QED
  BY <1>1, <1>2, <1>3, <1>4, <1>5, <1>6, <1>7, <1>8, <1>9, <1>10, NextSteps

------------------------------------------------------------------------------
(* Where pushes go.                                                         *)

LEMMA InitEngines == Init => EnginesInv
BY BoundsAssumption DEF Init, EnginesInv, NoTask, NoForwarder, Engines

LEMMA StepEngines == Types /\ EnginesInv /\ HomeInv /\ [Next]_vars => EnginesInv'
<1> SUFFICES ASSUME Types, EnginesInv, HomeInv, [Next]_vars PROVE EnginesInv'
  OBVIOUS
<1>0. /\ engine \in Nat /\ pairings \in Nat /\ pairOf \in [Engines -> Pairings]
      /\ \A c \in Commands : handler[c].engine \in Engines /\ handler[c].engine \in Nat
      /\ \A s \in Sessions : forwarder[s].engine \in Engines /\ forwarder[s].engine \in Nat
  BY BoundsAssumption DEF Types, Engines, Pairings, Handlers, Forwarders
<1>1. ASSUME UNCHANGED <<engine, pairings, pairOf>>,
             \A c \in Commands :
               \/ handler'[c].at \in {"none", "gone"}
               \/ /\ handler[c].at \notin {"none", "gone"}
                  /\ handler'[c].engine = handler[c].engine /\ handler'[c].owner = handler[c].owner
               \/ handler'[c].engine = engine /\ handler'[c].owner = pairings,
             \A s \in Sessions :
               \/ forwarder'[s].at = "none"
               \/ /\ forwarder[s].at # "none"
                  /\ forwarder'[s].engine = forwarder[s].engine
                  /\ forwarder'[s].owner = forwarder[s].owner
               \/ forwarder'[s].engine = engine /\ forwarder'[s].owner = pairings
      PROVE  EnginesInv'
  BY <1>0, <1>1 DEF EnginesInv
<1>2. ASSUME NEW pair, Build(pair), pair \in {0, pairings'},
             \A c \in Commands : handler'[c].at \notin {"none", "gone"} => handler'[c] = handler[c],
             \A s \in Sessions :
               /\ forwarder'[s].at # "none" => forwarder[s].at # "none"
               /\ forwarder'[s].engine = forwarder[s].engine
               /\ forwarder'[s].owner = forwarder[s].owner,
             engine + 1 \in Engines
      PROVE  EnginesInv'
  <2>1. engine' = engine + 1 /\ pairOf'[engine + 1] = pair
        /\ \A e \in Engines : e # engine + 1 => pairOf'[e] = pairOf[e]
    BY <1>0, <1>2 DEF Build
  <2>2. \A c \in Commands : handler'[c].at \notin {"none", "gone"} =>
          handler'[c].engine <= engine' /\ pairOf'[handler'[c].engine] \in {0, handler'[c].owner}
    BY <1>0, <1>2, <2>1 DEF EnginesInv
  <2>3. \A s \in Sessions : forwarder'[s].at # "none" =>
          forwarder'[s].engine <= engine' /\ pairOf'[forwarder'[s].engine] \in {0, forwarder'[s].owner}
    BY <1>0, <1>2, <2>1 DEF EnginesInv
  <2>4. QED BY <1>2, <2>1, <2>2, <2>3 DEF EnginesInv
<1>3. CASE Paired
  <2>1. Build(pairings + 1) /\ pairings' = pairings + 1 /\ UNCHANGED <<handler, forwarder>>
    BY <1>3 DEF Paired
  <2>2. engine + 1 \in Engines
    BY <1>3, NextEngine DEF Paired
  <2>3. QED BY <1>2, <2>1, <2>2
<1>4. CASE Restart
  <2>1. PICK pair \in {0, pairings} : Build(pair)
    BY <1>4 DEF Restart
  <2>2. engine + 1 \in Engines /\ pairings' = pairings
    BY <1>4, NextEngine DEF Restart
  <2>3. \A c \in Commands : handler'[c] = handler[c] \/ handler'[c].at = "gone"
    BY <1>4 DEF Restart, Types, Handlers
  <2>4. ASSUME NEW s \in Sessions
        PROVE  /\ forwarder'[s].at # "none" => forwarder[s].at # "none"
               /\ forwarder'[s].engine = forwarder[s].engine
               /\ forwarder'[s].owner = forwarder[s].owner
    <3>1. forwarder[s] \in Forwarders
      BY DEF Types
    <3>2. CASE forwarder[s].at = "running"
      <4>1. forwarder'[s] = [forwarder[s] EXCEPT !.at = "ended", !.due = {}]
        BY <1>4, <3>2 DEF Restart
      <4>2. QED BY <3>1, <3>2, <4>1 DEF Forwarders
    <3>3. CASE forwarder[s].at # "running"
      BY <1>4, <3>3 DEF Restart
    <3>4. QED BY <3>2, <3>3
  <2>5. QED BY <1>2, <2>1, <2>2, <2>3, <2>4
<1>5. CASE SendList
  BY <1>1, <1>5 DEF SendList, WatchKeeps
<1>6. ASSUME NEW c \in Commands, ShimStep(c) PROVE EnginesInv'
  BY <1>1, <1>6, ShimChanges
<1>7. ASSUME NEW c \in Commands, HandlerStep(c) PROVE EnginesInv'
  <2>1. UNCHANGED <<agentVars, forwarder>>
    BY <1>7, HandlerChanges
  <2>2. CASE Accept(c)
    <3>1. /\ handler'[c].engine = engine /\ handler'[c].owner = pairings
          /\ \A d \in Commands : d # c => handler'[d] = handler[d]
      BY <2>2 DEF Accept, Types
    <3>2. QED BY <1>1, <2>1, <3>1
  <2>3. CASE ~Accept(c)
    <3>1. PICK at \in Phases : Goes(c, at) /\ handler[c].at \notin {"none", "gone"}
      BY <1>7, <2>3 DEF HandlerStep, Register, WriteAck, Complete, EndOfStream, Phases
    <3>2. QED BY <1>1, <2>1, <3>1, HandlerMoves
  <2>4. QED BY <2>2, <2>3
<1>8. ASSUME NEW s \in Sessions, SessionConnects(s) PROVE EnginesInv'
  <2>1. /\ forwarder'[s].engine = engine /\ forwarder'[s].owner = pairings
        /\ \A t \in Sessions : t # s => forwarder'[t] = forwarder[t]
        /\ UNCHANGED <<agentVars, handler>>
    BY <1>8 DEF SessionConnects, WatchKeeps, Types
  <2>2. QED BY <1>1, <2>1
<1>9. ASSUME NEW s \in Sessions, UNCHANGED <<agentVars, handler>>, forwarder[s].at # "none",
             forwarder'[s].engine = forwarder[s].engine, forwarder'[s].owner = forwarder[s].owner,
             \A t \in Sessions : t # s => forwarder'[t] = forwarder[t]
      PROVE  EnginesInv'
  BY <1>1, <1>9
<1>10. ASSUME NEW s \in Sessions, SessionEnds(s) PROVE EnginesInv'
  BY <1>9, <1>10, SessionEndsMoves DEF SessionEnds, WatchKeeps
<1>11. ASSUME NEW s \in Sessions, NEW w \in Watchers, Watch(s, w) \/ Unwatch(s, w) PROVE EnginesInv'
  BY <1>1, <1>11 DEF Watch, Unwatch, WatchKeeps
<1>12. ASSUME NEW s \in Sessions, NEW w \in Watchers, SendMatch(s, w) PROVE EnginesInv'
  <2>1. forwarder[s].at # "none"
    BY <1>12 DEF HomeInv, SendMatch
  <2>2. QED BY <1>9, <1>12, <2>1, SendMatchMoves DEF SendMatch, WatchKeeps
<1>13. ASSUME NEW s \in Sessions, NEW found \in SUBSET Watchers, Feed(s, found) PROVE EnginesInv'
  BY <1>9, <1>13, FeedMoves DEF Feed, WatchKeeps
<1>14. CASE UNCHANGED vars
  BY <1>1, <1>14
<1>15. QED
  BY <1>3, <1>4, <1>5, <1>6, <1>7, <1>8, <1>10, <1>11, <1>12, <1>13, <1>14, NextSteps

LEMMA InitReports == Init => ReportsInv
BY DEF Init, ReportsInv, NoSocket

LEMMA StepReports == Types /\ EnginesInv /\ ReportsInv /\ [Next]_vars => ReportsInv'
<1> SUFFICES ASSUME Types, EnginesInv, ReportsInv, [Next]_vars PROVE ReportsInv'
  OBVIOUS
<1>0. /\ handler \in [Commands -> Handlers] /\ socket \in [Commands -> SocketEnds]
      /\ shim \in [Commands -> ShimPhases] /\ pushes \subseteq PushSet
  BY DEF Types
<1>1. ASSUME UNCHANGED <<socket, shim>>,
             \A c \in Commands : handler[c].at # "none" =>
               handler'[c].at # "none" /\ handler'[c].owner = handler[c].owner,
             \A p \in pushes' : p \in pushes \/ p.of \notin Commands
      PROVE  ReportsInv'
  BY <1>1 DEF ReportsInv
<1>2. CASE Paired
  BY <1>1, <1>2 DEF Paired
<1>3. CASE Restart
  <2>1. ASSUME NEW c \in Commands, handler[c].at # "none"
        PROVE  handler'[c].at # "none" /\ handler'[c].owner = handler[c].owner
    <3>1. handler'[c] = handler[c] \/ handler'[c] = [handler[c] EXCEPT !.at = "gone"]
      BY <1>0, <1>3 DEF Restart
    <3>2. handler[c] \in Handlers
      BY <1>0
    <3>3. QED BY <2>1, <3>1, <3>2 DEF Handlers
  <2>2. QED BY <1>1, <1>3, <2>1 DEF Restart
<1>4. CASE SendList
  BY <1>1, <1>4 DEF SendList, WatchKeeps
<1>5. ASSUME NEW c \in Commands, ShimStep(c) PROVE ReportsInv'
  <2>1. UNCHANGED <<handler, pushes>>
    BY <1>5, ShimChanges
  <2>2. /\ \A d \in Commands : shim[d] = "reported" => shim'[d] = "reported"
        /\ \A d \in Commands : "complete" \in socket'[d].sent => shim'[d] = "reported"
    <3>1. \A d \in Commands : d # c => socket'[d] = socket[d] /\ shim'[d] = shim[d]
      BY <1>0, <1>5 DEF ShimStep, Start, Connect, AckArrives, RegisterFails, Report, EndSilently, Becomes
    <3>2. shim[c] # "reported"
      BY <1>5 DEF ShimStep, Start, Connect, AckArrives, RegisterFails, Report, EndSilently
    <3>3. "complete" \notin socket[c].sent
      BY <3>2 DEF ReportsInv
    <3>4. CASE Report(c)
      <4>1. shim'[c] = "reported"
        BY <1>0, <3>4 DEF Report, Becomes
      <4>2. QED BY <3>1, <3>2, <4>1 DEF ReportsInv
    <3>5. CASE Connect(c)
      <4>1. socket'[c].sent = {"register"}
        BY <1>0, <3>5 DEF Connect
      <4>2. QED BY <3>1, <3>2, <4>1 DEF ReportsInv
    <3>6. CASE ~Report(c) /\ ~Connect(c)
      <4>1. socket' = socket \/ socket' = [socket EXCEPT ![c] = [@ EXCEPT !.open = FALSE]]
        BY <1>5, <3>6 DEF ShimStep, Start, AckArrives, RegisterFails, EndSilently
      <4>2. socket'[c].sent = socket[c].sent
        BY <1>0, <4>1 DEF SocketEnds
      <4>3. QED BY <3>1, <3>2, <3>3, <4>2 DEF ReportsInv
    <3>7. QED BY <3>4, <3>5, <3>6
  <2>3. QED BY <2>1, <2>2 DEF ReportsInv
<1>6. ASSUME NEW c \in Commands, HandlerStep(c) PROVE ReportsInv'
  <2>1. shim' = shim /\ pairOf' = pairOf
    BY <1>6, HandlerChanges
  <2>2. \A d \in Commands : socket'[d].sent = socket[d].sent
    <3>1. socket' = socket \/ socket' = [socket EXCEPT ![c] = [@ EXCEPT !.acked = TRUE]]
      BY <1>6 DEF HandlerStep, Accept, Register, WriteAck, Complete, EndOfStream
    <3>2. socket[c] \in SocketEnds
      BY <1>0
    <3>3. QED BY <1>0, <3>1, <3>2 DEF SocketEnds
  <2>3. \A d \in Commands : handler[d].at # "none" =>
          handler'[d].at # "none" /\ handler'[d].owner = handler[d].owner
    <3>1. CASE Accept(c)
      BY <1>0, <3>1 DEF Accept
    <3>2. CASE ~Accept(c)
      <4>1. PICK at \in Phases : Goes(c, at) /\ at # "none"
        BY <1>6, <3>2 DEF HandlerStep, Register, WriteAck, Complete, EndOfStream, Phases
      <4>2. QED BY <4>1, HandlerMoves
    <3>3. QED BY <3>1, <3>2
  <2>4. ASSUME NEW p \in pushes', p \notin pushes
        PROVE  /\ p.of = c /\ shim[c] = "reported"
               /\ handler[c].at # "none" /\ p.pair = handler[c].owner
    <3>1. Complete(c) /\ Push(c, handler[c])
      BY <1>6, <2>4 DEF HandlerStep, Accept, Register, WriteAck, Complete, EndOfStream
    <3>2. handler[c].at = "wait" /\ shim[c] = "reported"
      BY <3>1 DEF Complete, ReportsInv
    <3>3. /\ p = [of |-> c, pair |-> pairOf[handler[c].engine]]
          /\ pairOf[handler[c].engine] # 0
      BY <2>4, <3>1, PushAdds
    <3>4. pairOf[handler[c].engine] = handler[c].owner
      BY <3>2, <3>3 DEF EnginesInv
    <3>5. QED BY <3>2, <3>3, <3>4
  <2>5. QED BY <2>1, <2>2, <2>3, <2>4 DEF ReportsInv
<1>7. ASSUME NEW s \in Sessions, SessionConnects(s) \/ SessionEnds(s) PROVE ReportsInv'
  BY <1>1, <1>7 DEF SessionConnects, SessionEnds, WatchKeeps
<1>8. ASSUME NEW s \in Sessions, NEW w \in Watchers, Watch(s, w) \/ Unwatch(s, w) PROVE ReportsInv'
  BY <1>1, <1>8 DEF Watch, Unwatch, WatchKeeps
<1>9. ASSUME NEW s \in Sessions, NEW w \in Watchers, SendMatch(s, w) PROVE ReportsInv'
  <2>1. \A p \in pushes' : p \in pushes \/ p.of = w
    BY <1>9, PushAdds DEF SendMatch
  <2>2. QED BY <1>1, <1>9, <2>1, IdsAssumption DEF SendMatch, WatchKeeps
<1>10. ASSUME NEW s \in Sessions, NEW found \in SUBSET Watchers, Feed(s, found) PROVE ReportsInv'
  BY <1>1, <1>10 DEF Feed, WatchKeeps
<1>11. CASE UNCHANGED vars
  BY <1>1, <1>11
<1>12. QED
  BY <1>2, <1>3, <1>4, <1>5, <1>6, <1>7, <1>8, <1>9, <1>10, <1>11, NextSteps

------------------------------------------------------------------------------
(* Watchers.                                                                *)

LEMMA InitHome == Init => HomeInv
BY DEF Init, HomeInv, NoForwarder

\* What a request changes of the watchers.
LEMMA WatchMoves ==
  ASSUME Types, NEW s \in Sessions, NEW w \in Watchers, Watch(s, w) \/ Unwatch(s, w)
  PROVE  /\ \A e \in Engines, t \in Sessions :
              watchers'[e][t] = IF e = engine /\ t = s
                                THEN IF Watch(s, w) THEN watchers[e][t] \union {w}
                                     ELSE watchers[e][t] \ {w}
                                ELSE watchers[e][t]
         /\ forwarder[s].at # "none" \/ w \in listed[s]
         /\ UNCHANGED <<forwarder, listed, hits, matched, pushes, agentVars>>
         /\ Watch(s, w) => w \notin asked /\ asked' = asked \union {w}
         /\ ~Watch(s, w) => asked' = asked
         /\ request' = [session |-> s, engine |-> engine] /\ request = NoRequest
<1>1. watchers \in [Engines -> [Sessions -> SUBSET Watchers]] /\ engine \in Engines
  BY DEF Types
<1>2. CASE Watch(s, w)
  BY <1>1, <1>2 DEF Watch, WatchKeeps
<1>3. CASE Unwatch(s, w) /\ ~Watch(s, w)
  BY <1>1, <1>3 DEF Unwatch, WatchKeeps
<1>4. QED BY <1>2, <1>3

LEMMA WatchAdds ==
  ASSUME Types, NEW s \in Sessions, NEW w \in Watchers, Watch(s, w)
  PROVE  \A e \in Engines, t \in Sessions : watchers'[e][t] \subseteq watchers[e][t] \union {w}
<1> SUFFICES ASSUME NEW e \in Engines, NEW t \in Sessions
             PROVE  watchers'[e][t] \subseteq watchers[e][t] \union {w}
  OBVIOUS
<1>1. watchers'[e][t] = IF e = engine /\ t = s THEN watchers[e][t] \union {w}
                        ELSE watchers[e][t]
  BY DEF Watch, Types
<1>2. QED BY <1>1

LEMMA StepHome == Types /\ HomeInv /\ [Next]_vars => HomeInv'
<1> SUFFICES ASSUME Types, HomeInv, [Next]_vars PROVE HomeInv'
  OBVIOUS
<1>0. engine \in Engines /\ forwarder \in [Sessions -> Forwarders]
      /\ watchers \in [Engines -> [Sessions -> SUBSET Watchers]]
      /\ listed \in [Sessions -> SUBSET Watchers]
  BY DEF Types
<1>1. ASSUME UNCHANGED <<watchers, asked>>, listed' = listed,
             \A s \in Sessions :
               /\ forwarder'[s].due \subseteq forwarder[s].due
               /\ forwarder'[s].at # "running" => forwarder'[s].due = {}
               /\ forwarder'[s].at = "none" => forwarder[s].at = "none"
      PROVE  HomeInv'
  BY <1>1 DEF HomeInv
<1>2. CASE Paired
  BY <1>1, <1>2 DEF Paired, HomeInv
<1>3. CASE Restart
  <2>1. \A e \in Engines, s \in Sessions : watchers'[e][s] = {}
    BY <1>3 DEF Restart
  <2>2. ASSUME NEW s \in Sessions
        PROVE  forwarder'[s].due = {} /\ (forwarder'[s].at = "none" => forwarder[s].at = "none")
    <3>1. forwarder[s] \in Forwarders
      BY <1>0
    <3>2. CASE forwarder[s].at = "running"
      <4>1. forwarder'[s] = [forwarder[s] EXCEPT !.at = "ended", !.due = {}]
        BY <1>3, <3>2 DEF Restart
      <4>2. QED BY <3>1, <3>2, <4>1 DEF Forwarders
    <3>3. CASE forwarder[s].at # "running"
      BY <1>3, <3>3 DEF Restart, HomeInv
    <3>4. QED BY <3>2, <3>3
  <2>3. UNCHANGED <<listed, asked>>
    BY <1>3 DEF Restart
  <2>4. QED BY <2>1, <2>2, <2>3 DEF HomeInv
<1>4. CASE SendList
  <2>1. request.session \in Sessions /\ request.engine \in Engines
    BY <1>4 DEF SendList, Types
  <2>2. \A s \in Sessions : listed'[s] = IF s = request.session
                                         THEN watchers[request.engine][s] ELSE listed[s]
    BY <1>0, <1>4, <2>1 DEF SendList
  <2>3. UNCHANGED <<watchers, forwarder, asked>>
    BY <1>4 DEF SendList
  <2>4. QED BY <2>1, <2>2, <2>3 DEF HomeInv
<1>5. ASSUME NEW c \in Commands, ShimStep(c) PROVE HomeInv'
  BY <1>1, <1>5, ShimChanges DEF HomeInv
<1>6. ASSUME NEW c \in Commands, HandlerStep(c) PROVE HomeInv'
  BY <1>1, <1>6, HandlerChanges DEF HomeInv
<1>7. ASSUME NEW s \in Sessions, SessionConnects(s) PROVE HomeInv'
  <2>1. /\ forwarder'[s].due = {} /\ forwarder'[s].at = "running"
        /\ \A t \in Sessions : t # s => forwarder'[t] = forwarder[t]
        /\ UNCHANGED <<watchers, asked, listed>>
    BY <1>0, <1>7 DEF SessionConnects, WatchKeeps
  <2>2. QED BY <1>1, <2>1 DEF HomeInv
<1>8. ASSUME NEW s \in Sessions, SessionEnds(s) PROVE HomeInv'
  <2>1. UNCHANGED <<watchers, asked, listed>>
    BY <1>8 DEF SessionEnds
  <2>2. QED BY <1>1, <1>8, <2>1, SessionEndsMoves DEF HomeInv
<1>9. ASSUME NEW s \in Sessions, NEW w \in Watchers, Watch(s, w) PROVE HomeInv'
  <2>1. \A e \in Engines, t \in Sessions :
          watchers'[e][t] = IF e = engine /\ t = s THEN watchers[e][t] \union {w}
                            ELSE watchers[e][t]
    BY <1>0, <1>9 DEF Watch
  <2>2. /\ w \notin asked /\ asked' = asked \union {w} /\ UNCHANGED <<forwarder, listed>>
        /\ forwarder[s].at # "none"
    BY <1>9 DEF Watch, WatchKeeps
  <2>3. ASSUME NEW e \in Engines, NEW t \in Sessions, NEW v \in watchers'[e][t]
        PROVE  \/ v \in watchers[e][t] /\ v \in asked /\ v # w
               \/ v = w /\ e = engine /\ t = s
    <3>1. watchers[e][t] \subseteq asked
      BY DEF HomeInv
    <3>2. v \in watchers[e][t] \/ (v = w /\ e = engine /\ t = s)
      BY <2>1, <2>3
    <3>3. QED BY <2>2, <3>1, <3>2
  <2>4. \A t \in Sessions : w \notin forwarder[t].due
    BY <2>2 DEF HomeInv
  <2>5. ASSUME NEW e \in Engines, NEW f \in Engines, NEW t \in Sessions, NEW u \in Sessions,
               NEW v \in watchers'[e][t], v \in watchers'[f][u]
        PROVE  e = f /\ t = u
    <3>1. CASE v = w
      BY <2>3, <2>5, <3>1
    <3>2. CASE v # w
      <4>1. v \in watchers[e][t] /\ v \in watchers[f][u]
        BY <2>3, <2>5, <3>2
      <4>2. QED BY <4>1 DEF HomeInv
    <3>3. QED BY <3>1, <3>2
  <2>6. ASSUME NEW e \in Engines, NEW t \in Sessions, NEW u \in Sessions,
               NEW v \in watchers'[e][t], v \in forwarder'[u].due
        PROVE  t = u
    <3>1. v \in watchers[e][t]
      BY <2>2, <2>3, <2>4, <2>6
    <3>2. QED BY <2>2, <2>6, <3>1 DEF HomeInv
  <2>7. \A e \in Engines, t \in Sessions : watchers'[e][t] \subseteq asked'
    BY <2>2, <2>3
  <2>8. \A t \in Sessions : forwarder'[t].at = "none" =>
          listed'[t] = {} /\ \A e \in Engines : watchers'[e][t] = {}
    BY <2>1, <2>2 DEF HomeInv
  <2>9. /\ \A t \in Sessions : listed'[t] \subseteq asked' /\ forwarder'[t].due \subseteq asked'
        /\ \A t, u \in Sessions : \A v \in forwarder'[t].due : v \in forwarder'[u].due => t = u
        /\ \A t \in Sessions : forwarder'[t].at # "running" => forwarder'[t].due = {}
    BY <2>2 DEF HomeInv
  <2>10. QED BY <2>5, <2>6, <2>7, <2>8, <2>9 DEF HomeInv
<1>10. ASSUME NEW s \in Sessions, NEW w \in Watchers, Unwatch(s, w), ~Watch(s, w) PROVE HomeInv'
  <2>1. \A e \in Engines, t \in Sessions : watchers'[e][t] \subseteq watchers[e][t]
    BY <1>10, WatchMoves
  <2>2. UNCHANGED <<asked, forwarder, listed>>
    BY <1>10, WatchMoves
  <2>3. QED BY <2>1, <2>2 DEF HomeInv
<1>11. ASSUME NEW s \in Sessions, NEW w \in Watchers, SendMatch(s, w) PROVE HomeInv'
  <2>1. UNCHANGED <<watchers, asked, listed>>
    BY <1>11 DEF SendMatch
  <2>2. QED BY <1>1, <1>11, <2>1, SendMatchMoves DEF HomeInv
<1>12. ASSUME NEW s \in Sessions, NEW found \in SUBSET Watchers, Feed(s, found) PROVE HomeInv'
  <2>1. UNCHANGED <<watchers, asked, listed>> /\ forwarder[s].at = "running"
        /\ forwarder[s].engine \in Engines /\ found \subseteq watchers[forwarder[s].engine][s]
    BY <1>0, <1>12 DEF Feed, Forwarders
  <2>2. /\ forwarder'[s].at = "running" /\ forwarder'[s].due = found
        /\ \A t \in Sessions : t # s => forwarder'[t] = forwarder[t]
    BY <1>12, <2>1, FeedMoves
  <2>3. found \subseteq asked
    BY <2>1 DEF HomeInv
  <2>4. \A t, u \in Sessions : \A v \in forwarder'[t].due : v \in forwarder'[u].due => t = u
    BY <2>1, <2>2 DEF HomeInv
  <2>5. \A e \in Engines, t, u \in Sessions :
          \A v \in watchers[e][t] : v \in forwarder'[u].due => t = u
    BY <2>1, <2>2 DEF HomeInv
  <2>6. QED BY <2>1, <2>2, <2>3, <2>4, <2>5 DEF HomeInv
<1>13. CASE UNCHANGED vars
  BY <1>1, <1>13 DEF HomeInv
<1>14. QED
  BY <1>2, <1>3, <1>4, <1>5, <1>6, <1>7, <1>8, <1>9, <1>10, <1>11, <1>12, <1>13, NextSteps

------------------------------------------------------------------------------
(* Pushes of matches.                                                       *)

LEMMA InitWatcherPushes == Init => WatcherPushesInv
BY DEF Init, WatcherPushesInv

LEMMA StepWatcherPushes ==
  Types /\ EnginesInv /\ HomeInv /\ WatcherPushesInv /\ [Next]_vars => WatcherPushesInv'
<1> SUFFICES ASSUME Types, EnginesInv, HomeInv, WatcherPushesInv, [Next]_vars
             PROVE  WatcherPushesInv'
  OBVIOUS
<1>0. engine \in Engines /\ forwarder \in [Sessions -> Forwarders]
  BY DEF Types
<1>1. ASSUME \A p \in pushes' : p.of \in Watchers => p \in pushes,
             asked \subseteq asked',
             \A e \in Engines, s \in Sessions :
               /\ watchers'[e][s] \subseteq watchers[e][s]
               /\ watchers[e][s] # {} => forwarder'[s].owner = forwarder[s].owner
      PROVE  WatcherPushesInv'
  BY <1>1 DEF WatcherPushesInv
<1>2. CASE Paired
  BY <1>1, <1>2 DEF Paired
<1>3. CASE Restart
  BY <1>3 DEF Restart, WatcherPushesInv
<1>4. CASE SendList
  BY <1>1, <1>4 DEF SendList
<1>5. ASSUME NEW c \in Commands, ShimStep(c) PROVE WatcherPushesInv'
  BY <1>1, <1>5, ShimChanges
<1>6. ASSUME NEW c \in Commands, HandlerStep(c) PROVE WatcherPushesInv'
  <2>1. ASSUME NEW p \in pushes', p.of \in Watchers
        PROVE  p \in pushes
    <3>1. pushes' = pushes \/ Push(c, handler[c])
      BY <1>6 DEF HandlerStep, Accept, Register, WriteAck, Complete, EndOfStream
    <3>2. p \in pushes \/ p.of = c
      BY <3>1, PushAdds
    <3>3. QED BY <2>1, <3>2, IdsAssumption
  <2>2. QED BY <1>1, <1>6, <2>1, HandlerChanges
<1>7. ASSUME NEW s \in Sessions, SessionConnects(s) PROVE WatcherPushesInv'
  <2>1. /\ forwarder[s].at = "none" /\ UNCHANGED <<watchers, asked, pushes>>
        /\ \A t \in Sessions : t # s => forwarder'[t] = forwarder[t]
    BY <1>0, <1>7 DEF SessionConnects, WatchKeeps
  <2>2. QED BY <1>1, <2>1 DEF HomeInv
<1>8. ASSUME NEW s \in Sessions, SessionEnds(s) PROVE WatcherPushesInv'
  <2>1. UNCHANGED <<watchers, asked, pushes>>
    BY <1>8 DEF SessionEnds
  <2>2. \A t \in Sessions : forwarder'[t].owner = forwarder[t].owner
    BY <1>8, SessionEndsMoves
  <2>3. QED BY <1>1, <2>1, <2>2
<1>9. ASSUME NEW s \in Sessions, NEW w \in Watchers, Watch(s, w) PROVE WatcherPushesInv'
  <2>1. w \notin asked /\ asked' = asked \union {w} /\ UNCHANGED <<pushes, forwarder>>
    BY <1>9 DEF Watch, WatchKeeps
  <2>2. \A e \in Engines, t \in Sessions : watchers'[e][t] \subseteq watchers[e][t] \union {w}
    BY <1>9, WatchAdds
  <2>3. QED BY <2>1, <2>2 DEF WatcherPushesInv
<1>10. ASSUME NEW s \in Sessions, NEW w \in Watchers, Unwatch(s, w), ~Watch(s, w)
       PROVE  WatcherPushesInv'
  <2>1. /\ UNCHANGED <<asked, pushes, forwarder>>
        /\ \A e \in Engines, t \in Sessions : watchers'[e][t] \subseteq watchers[e][t]
    BY <1>10, WatchMoves
  <2>2. QED BY <1>1, <2>1
<1>11. ASSUME NEW s \in Sessions, NEW w \in Watchers, SendMatch(s, w) PROVE WatcherPushesInv'
  <2>1. UNCHANGED <<watchers, asked>> /\ w \in forwarder[s].due /\ Push(w, forwarder[s])
    BY <1>11 DEF SendMatch
  <2>2. \A t \in Sessions : forwarder'[t].owner = forwarder[t].owner
    BY <1>11, SendMatchMoves
  <2>3. ASSUME NEW p \in pushes'
        PROVE  p \in pushes \/ p = [of |-> w, pair |-> forwarder[s].owner]
    <3>1. forwarder[s].at # "none"
      BY <2>1 DEF HomeInv
    <3>2. pairOf[forwarder[s].engine] # 0 =>
            pairOf[forwarder[s].engine] = forwarder[s].owner
      BY <3>1 DEF EnginesInv
    <3>3. QED BY <2>1, <3>2, PushAdds
  <2>4. w \in asked /\ \A e \in Engines, t \in Sessions : w \in watchers[e][t] => t = s
    BY <2>1 DEF HomeInv
  <2>5. QED BY <2>1, <2>2, <2>3, <2>4 DEF WatcherPushesInv
<1>12. ASSUME NEW s \in Sessions, NEW found \in SUBSET Watchers, Feed(s, found)
       PROVE  WatcherPushesInv'
  <2>1. UNCHANGED <<watchers, asked, pushes>>
    BY <1>12 DEF Feed
  <2>2. \A t \in Sessions : forwarder'[t].owner = forwarder[t].owner
    BY <1>12, FeedMoves
  <2>3. QED BY <1>1, <2>1, <2>2
<1>13. CASE UNCHANGED vars
  BY <1>1, <1>13
<1>14. QED
  BY <1>2, <1>3, <1>4, <1>5, <1>6, <1>7, <1>8, <1>9, <1>10, <1>11, <1>12, <1>13, NextSteps

------------------------------------------------------------------------------
(* Hits and matches.                                                        *)

LEMMA InitHits == Init => HitsInv
BY DEF Init, HitsInv, NoForwarder

LEMMA StepHits == Types /\ HomeInv /\ HitsInv /\ [Next]_vars => HitsInv'
<1> SUFFICES ASSUME Types, HomeInv, HitsInv, [Next]_vars PROVE HitsInv'
  OBVIOUS
<1>0. /\ engine \in Engines /\ forwarder \in [Sessions -> Forwarders]
      /\ hits \in [Watchers -> 0..MaxHits] /\ matched \in [Watchers -> Nat]
  BY DEF Types
<1>1. ASSUME UNCHANGED <<hits, matched>>, asked \subseteq asked',
             \A e \in Engines, s \in Sessions : watchers'[e][s] \subseteq watchers[e][s],
             \A s \in Sessions : forwarder'[s].due = forwarder[s].due
      PROVE  HitsInv'
  BY <1>1 DEF HitsInv
<1>2. CASE Paired
  BY <1>1, <1>2 DEF Paired
<1>3. CASE Restart
  <2>1. UNCHANGED <<hits, matched, asked>>
        /\ \A e \in Engines, s \in Sessions : watchers'[e][s] = {}
    BY <1>3 DEF Restart
  <2>2. ASSUME NEW s \in Sessions PROVE forwarder'[s].due = {}
    <3>1. forwarder[s] \in Forwarders
      BY <1>0
    <3>2. CASE forwarder[s].at = "running"
      <4>1. forwarder'[s] = [forwarder[s] EXCEPT !.at = "ended", !.due = {}]
        BY <1>3, <3>2 DEF Restart
      <4>2. QED BY <3>1, <4>1 DEF Forwarders
    <3>3. CASE forwarder[s].at # "running"
      BY <1>3, <3>3 DEF Restart, HomeInv
    <3>4. QED BY <3>2, <3>3
  <2>3. QED BY <2>1, <2>2 DEF HitsInv
<1>4. CASE SendList
  BY <1>1, <1>4 DEF SendList
<1>5. ASSUME NEW c \in Commands, ShimStep(c) PROVE HitsInv'
  BY <1>1, <1>5, ShimChanges
<1>6. ASSUME NEW c \in Commands, HandlerStep(c) PROVE HitsInv'
  BY <1>1, <1>6, HandlerChanges
<1>7. ASSUME NEW s \in Sessions, SessionConnects(s) PROVE HitsInv'
  <2>1. /\ UNCHANGED <<watchers, asked, hits, matched>>
        /\ forwarder'[s].due = {} /\ forwarder[s].due = {}
        /\ \A t \in Sessions : t # s => forwarder'[t] = forwarder[t]
    BY <1>0, <1>7 DEF SessionConnects, HomeInv
  <2>2. QED BY <1>1, <2>1
<1>8. ASSUME NEW s \in Sessions, SessionEnds(s) PROVE HitsInv'
  <2>1. UNCHANGED <<watchers, asked, hits, matched>> /\ forwarder[s].due = {}
    BY <1>8 DEF SessionEnds
  <2>2. \A t \in Sessions : forwarder'[t].due = forwarder[t].due
    BY <1>8, <2>1, SessionEndsMoves
  <2>3. QED BY <1>1, <2>1, <2>2
<1>9. ASSUME NEW s \in Sessions, NEW w \in Watchers, Watch(s, w) PROVE HitsInv'
  <2>1. w \notin asked /\ asked' = asked \union {w} /\ UNCHANGED <<hits, matched, forwarder>>
    BY <1>9 DEF Watch, WatchKeeps
  <2>2. \A e \in Engines, t \in Sessions : watchers'[e][t] \subseteq watchers[e][t] \union {w}
    BY <1>9, WatchAdds
  <2>3. matched[w] = hits[w]
    BY <2>1 DEF HitsInv
  <2>4. QED BY <2>1, <2>2, <2>3 DEF HitsInv
<1>10. ASSUME NEW s \in Sessions, NEW w \in Watchers, Unwatch(s, w), ~Watch(s, w) PROVE HitsInv'
  <2>1. /\ UNCHANGED <<asked, hits, matched, forwarder>>
        /\ \A e \in Engines, t \in Sessions : watchers'[e][t] \subseteq watchers[e][t]
    BY <1>10, WatchMoves
  <2>2. QED BY <1>1, <2>1
<1>11. ASSUME NEW s \in Sessions, NEW w \in Watchers, SendMatch(s, w) PROVE HitsInv'
  <2>1. /\ UNCHANGED <<watchers, asked, hits>> /\ w \in forwarder[s].due
        /\ \A v \in Watchers : matched'[v] = IF v = w THEN matched[w] + 1 ELSE matched[v]
    BY <1>0, <1>11 DEF SendMatch
  <2>2. \A t \in Sessions : forwarder'[t].due = IF t = s THEN forwarder[s].due \ {w}
                                                ELSE forwarder[t].due
    BY <1>11, SendMatchMoves
  <2>3. matched'[w] = hits[w] /\ w \in asked
    BY <2>1 DEF HitsInv, HomeInv
  <2>4. \A v \in Watchers : matched'[v] <= hits'[v] /\ (v \notin asked' => matched'[v] = hits'[v])
    BY <1>0, <2>1, <2>3 DEF HitsInv
  <2>5. \A t \in Sessions : forwarder[t].due \subseteq Watchers
    BY <1>0 DEF Forwarders
  <2>6. \A t \in Sessions : \A v \in forwarder'[t].due : v # w /\ v \in forwarder[t].due
    BY <2>1, <2>2 DEF HomeInv
  <2>7. \A t \in Sessions : \A v \in forwarder'[t].due : matched'[v] + 1 = hits'[v]
    BY <2>1, <2>5, <2>6 DEF HitsInv
  <2>8. ASSUME NEW e \in Engines, NEW t \in Sessions, NEW v \in watchers'[e][t],
               v \notin forwarder'[t].due
        PROVE  matched'[v] = hits'[v]
    <3>1. CASE v = w
      BY <2>1, <2>3, <3>1
    <3>2. CASE v # w
      <4>1. v \in watchers[e][t] /\ v \notin forwarder[t].due /\ v \in Watchers
        BY <2>1, <2>2, <2>8, <3>2 DEF Types
      <4>2. QED BY <2>1, <3>2, <4>1 DEF HitsInv
    <3>3. QED BY <3>1, <3>2
  <2>9. QED BY <2>4, <2>7, <2>8 DEF HitsInv
<1>12. ASSUME NEW s \in Sessions, NEW found \in SUBSET Watchers, Feed(s, found) PROVE HitsInv'
  <2>1. /\ UNCHANGED <<watchers, asked, matched>> /\ forwarder[s].due = {}
        /\ forwarder[s].engine \in Engines /\ found \subseteq watchers[forwarder[s].engine][s]
        /\ \A v \in Watchers : hits'[v] = IF v \in found THEN hits[v] + 1 ELSE hits[v]
    BY <1>0, <1>12 DEF Feed, Forwarders
  <2>2. \A t \in Sessions : forwarder'[t].due = IF t = s THEN found ELSE forwarder[t].due
    BY <1>12, FeedMoves
  <2>3. \A v \in found : matched[v] = hits[v] /\ v \in asked
    BY <2>1 DEF HitsInv, HomeInv
  <2>4. \A v \in found, e \in Engines, t \in Sessions : v \in watchers[e][t] => t = s
    BY <2>1 DEF HomeInv
  <2>5. \A v \in found, t \in Sessions : v \in forwarder[t].due => FALSE
    BY <2>1 DEF HomeInv
  <2>6. ASSUME NEW v \in Watchers
        PROVE  matched'[v] <= hits'[v] /\ (v \notin asked' => matched'[v] = hits'[v])
    <3>1. matched[v] \in Nat /\ hits[v] \in Nat /\ matched[v] <= hits[v]
      BY <1>0, BoundsAssumption DEF HitsInv
    <3>2. QED BY <2>1, <2>3, <3>1 DEF HitsInv
  <2>7. ASSUME NEW t \in Sessions, NEW v \in forwarder'[t].due
        PROVE  matched'[v] + 1 = hits'[v]
    <3>1. CASE t = s
      <4>1. v \in found
        BY <2>2, <2>7, <3>1
      <4>2. QED BY <2>1, <2>3, <4>1
    <3>2. CASE t # s
      <4>1. v \in forwarder[t].due /\ v \in Watchers
        BY <1>0, <2>2, <2>7, <3>2 DEF Forwarders
      <4>2. v \notin found
        BY <2>5, <4>1
      <4>3. QED BY <2>1, <4>1, <4>2 DEF HitsInv
    <3>3. QED BY <3>1, <3>2
  <2>8. ASSUME NEW e \in Engines, NEW t \in Sessions, NEW v \in watchers'[e][t],
               v \notin forwarder'[t].due
        PROVE  matched'[v] = hits'[v]
    <3>1. v \notin found
      BY <2>1, <2>2, <2>4, <2>8
    <3>2. v \in watchers[e][t] /\ v \notin forwarder[t].due /\ v \in Watchers
      BY <2>1, <2>2, <2>8 DEF Types
    <3>3. QED BY <2>1, <3>1, <3>2 DEF HitsInv
  <2>9. QED BY <2>6, <2>7, <2>8 DEF HitsInv
<1>13. CASE UNCHANGED vars
  BY <1>1, <1>13
<1>14. QED
  BY <1>2, <1>3, <1>4, <1>5, <1>6, <1>7, <1>8, <1>9, <1>10, <1>11, <1>12, <1>13, NextSteps

------------------------------------------------------------------------------
(* The lists the phone is sent.                                             *)

LEMMA InitLists == Init => ListsInv
BY DEF Init, ListsInv, NoForwarder

LEMMA StepLists ==
  Types /\ EnginesInv /\ HomeInv /\ ListsInv /\ [Next]_vars => ListsInv'
<1> SUFFICES ASSUME Types, EnginesInv, HomeInv, ListsInv, [Next]_vars PROVE ListsInv'
  OBVIOUS
<1>0. /\ engine \in Engines /\ forwarder \in [Sessions -> Forwarders]
      /\ watchers \in [Engines -> [Sessions -> SUBSET Watchers]]
      /\ listed \in [Sessions -> SUBSET Watchers]
      /\ engine \in Nat
      /\ request # NoRequest =>
           request.session \in Sessions /\ request.engine \in Engines /\ request.engine \in Nat
      /\ \A s \in Sessions : forwarder[s].engine \in Nat
  BY BoundsAssumption DEF Types, Engines, Forwarders
<1>1. ASSUME UNCHANGED <<engine, watchers, listed, request>>,
             \A s \in Sessions :
               /\ forwarder'[s].engine = forwarder[s].engine
               /\ forwarder'[s].at = "running" => forwarder[s].at = "running"
               /\ forwarder[s].at # "none" => forwarder'[s].at # "none"
      PROVE  ListsInv'
  <2>1. request' # NoRequest =>
          /\ forwarder'[request'.session].at # "none"
          /\ forwarder'[request'.session].engine <= request'.engine /\ request'.engine <= engine'
    BY <1>0, <1>1 DEF ListsInv
  <2>2. QED BY <1>1, <2>1 DEF ListsInv
<1>2. CASE Paired
  <2>1. engine' = engine + 1 /\ UNCHANGED <<forwarder, request, listed, watchers>>
    BY <1>2 DEF Paired, Build
  <2>2. ASSUME NEW s \in Sessions, forwarder'[s].at = "running", forwarder'[s].engine = engine'
        PROVE  FALSE
    <3>1. forwarder[s].engine <= engine /\ engine \in Nat
      BY <1>0, <2>1, <2>2 DEF EnginesInv
    <3>2. QED BY <2>1, <2>2, <3>1
  <2>3. request # NoRequest => request.engine <= engine'
    BY <1>0, <2>1 DEF ListsInv
  <2>4. QED BY <2>1, <2>2, <2>3 DEF ListsInv
<1>3. CASE Restart
  <2>1. request' = NoRequest
    BY <1>3 DEF Restart
  <2>2. ASSUME NEW s \in Sessions PROVE forwarder'[s].at # "running"
    <3>1. CASE forwarder[s].at = "running"
      <4>1. forwarder'[s] = [forwarder[s] EXCEPT !.at = "ended", !.due = {}]
        BY <1>3, <3>1 DEF Restart
      <4>2. forwarder[s] \in Forwarders
        BY <1>0
      <4>3. QED BY <4>1, <4>2 DEF Forwarders
    <3>2. CASE forwarder[s].at # "running"
      BY <1>3, <3>2 DEF Restart
    <3>3. QED BY <3>1, <3>2
  <2>3. QED BY <2>1, <2>2 DEF ListsInv
<1>4. CASE SendList
  <2>1. /\ request # NoRequest /\ request' = NoRequest
        /\ UNCHANGED <<engine, watchers, forwarder>>
        /\ \A s \in Sessions : listed'[s] = IF s = request.session
                                            THEN watchers[request.engine][s] ELSE listed[s]
    BY <1>0, <1>4 DEF SendList, WatchKeeps
  <2>2. ASSUME NEW s \in Sessions, forwarder[s].at = "running", forwarder[s].engine = engine
        PROVE  listed'[s] = watchers[engine][s]
    <3>1. CASE s = request.session
      <4>1. request.engine = engine
        BY <1>0, <2>1, <2>2, <3>1 DEF ListsInv
      <4>2. QED BY <2>1, <3>1, <4>1
    <3>2. CASE s # request.session
      BY <2>1, <2>2, <3>2 DEF ListsInv
    <3>3. QED BY <3>1, <3>2
  <2>3. QED BY <2>1, <2>2 DEF ListsInv
<1>5. ASSUME NEW c \in Commands, ShimStep(c) PROVE ListsInv'
  BY <1>1, <1>5, ShimChanges
<1>6. ASSUME NEW c \in Commands, HandlerStep(c) PROVE ListsInv'
  BY <1>1, <1>6, HandlerChanges
<1>7. ASSUME NEW s \in Sessions, SessionConnects(s) PROVE ListsInv'
  <2>1. /\ forwarder[s].at = "none" /\ forwarder'[s].at = "running"
        /\ \A t \in Sessions : t # s => forwarder'[t] = forwarder[t]
        /\ UNCHANGED <<engine, watchers, listed, request>>
    BY <1>0, <1>7 DEF SessionConnects, WatchKeeps
  <2>2. listed[s] = {} /\ watchers[engine][s] = {}
    BY <1>0, <2>1 DEF HomeInv
  <2>3. request # NoRequest => request.session # s
    BY <2>1 DEF ListsInv
  <2>4. QED BY <1>0, <2>1, <2>2, <2>3 DEF ListsInv
<1>8. ASSUME NEW s \in Sessions, SessionEnds(s) PROVE ListsInv'
  <2>1. UNCHANGED <<engine, watchers, listed, request>>
    BY <1>8 DEF SessionEnds, WatchKeeps
  <2>2. QED BY <1>1, <1>8, <2>1, SessionEndsMoves
<1>9. ASSUME NEW s \in Sessions, NEW w \in Watchers, Watch(s, w) \/ Unwatch(s, w) PROVE ListsInv'
  <2>1. /\ request' = [session |-> s, engine |-> engine] /\ request = NoRequest
        /\ UNCHANGED <<forwarder, listed, engine>>
        /\ forwarder[s].at # "none" \/ w \in listed[s]
        /\ \A e \in Engines, t \in Sessions :
             watchers'[e][t] = IF e = engine /\ t = s
                               THEN IF Watch(s, w) THEN watchers[e][t] \union {w}
                                    ELSE watchers[e][t] \ {w}
                               ELSE watchers[e][t]
    BY <1>9, WatchMoves
  <2>2. request'.session = s /\ request'.engine = engine /\ request' # NoRequest
    BY <2>1, IsRequest
  <2>3. forwarder[s].at # "none" /\ forwarder[s].engine <= engine
    BY <2>1 DEF HomeInv, EnginesInv
  <2>4. \A t \in Sessions : t # s => watchers'[engine][t] = watchers[engine][t]
    BY <1>0, <2>1
  <2>5. QED BY <1>0, <2>1, <2>2, <2>3, <2>4 DEF ListsInv
<1>10. ASSUME NEW s \in Sessions, NEW w \in Watchers, SendMatch(s, w) PROVE ListsInv'
  <2>1. UNCHANGED <<engine, watchers, listed, request>>
    BY <1>10 DEF SendMatch, WatchKeeps
  <2>2. \A t \in Sessions : /\ forwarder'[t].at = forwarder[t].at
                            /\ forwarder'[t].engine = forwarder[t].engine
    BY <1>10, SendMatchMoves
  <2>3. QED BY <1>1, <2>1, <2>2
<1>11. ASSUME NEW s \in Sessions, NEW found \in SUBSET Watchers, Feed(s, found) PROVE ListsInv'
  <2>1. UNCHANGED <<engine, watchers, listed, request>>
    BY <1>11 DEF Feed, WatchKeeps
  <2>2. \A t \in Sessions : /\ forwarder'[t].at = forwarder[t].at
                            /\ forwarder'[t].engine = forwarder[t].engine
    BY <1>11, FeedMoves
  <2>3. QED BY <1>1, <2>1, <2>2
<1>12. CASE UNCHANGED vars
  BY <1>1, <1>12
<1>13. QED
  BY <1>2, <1>3, <1>4, <1>5, <1>6, <1>7, <1>8, <1>9, <1>10, <1>11, <1>12, NextSteps

------------------------------------------------------------------------------
(* The theorems.                                                            *)

LEMMA Invariant == Spec => []NotifyInv
<1>1. Init => NotifyInv
  BY InitTypes, InitEngines, InitReports, InitHome, InitWatcherPushes, InitHits, InitLists
     DEF NotifyInv
<1>2. NotifyInv /\ [Next]_vars => NotifyInv'
  BY StepTypes, StepEngines, StepReports, StepHome, StepWatcherPushes, StepHits, StepLists
     DEF NotifyInv
<1>3. QED BY <1>1, <1>2, PTL DEF Spec

\* Every variable has its type; in particular the phone is told of no more matches of a
\* watcher than there were.
THEOREM TypeCorrect == Spec => []TypeOK
<1>1. NotifyInv => TypeOK
  <2> SUFFICES ASSUME NotifyInv PROVE TypeOK
    OBVIOUS
  <2>1. matched \in [Watchers -> 0..MaxHits]
    <3>1. ASSUME NEW w \in Watchers PROVE matched[w] \in 0..MaxHits
      <4>1. matched[w] \in Nat /\ hits[w] \in 0..MaxHits /\ matched[w] <= hits[w]
        BY DEF NotifyInv, Types, HitsInv
      <4>2. QED BY <4>1, BoundsAssumption
    <3>2. matched \in [Watchers -> Nat]
      BY DEF NotifyInv, Types
    <3>3. QED BY <3>1, <3>2
  <2>2. QED BY <2>1 DEF NotifyInv, Types, TypeOK, Handlers, Forwarders, SocketEnds, PushSet,
                        Phases, ShimPhases
<1>2. QED BY <1>1, Invariant, PTL

\* Every push is one that somebody asked for, and goes to the pair it was meant for:
\* EngineInner::complete_notify and the frame task's pushes, whatever pairings replace
\* the engine in between.
THEOREM OnlyMeantPushes == Spec => []PushesAreMeant
<1>1. NotifyInv => PushesAreMeant
  <2> SUFFICES ASSUME NotifyInv PROVE PushesAreMeant
    OBVIOUS
  <2>1. OnlyReportedPush
    BY DEF NotifyInv, ReportsInv, OnlyReportedPush
  <2>2. ASSUME NEW p \in pushes, NEW e \in Engines, NEW s \in Sessions, p.of \in watchers[e][s]
        PROVE  p.pair = forwarder[s].owner
    <3>1. p.of \in Watchers
      BY <2>2 DEF NotifyInv, Types
    <3>2. QED BY <2>2, <3>1 DEF NotifyInv, WatcherPushesInv
  <2>3. StaysWithItsPair
    BY <2>2 DEF NotifyInv, ReportsInv, StaysWithItsPair
  <2>4. QED BY <2>1, <2>3 DEF PushesAreMeant
<1>2. QED BY <1>1, Invariant, PTL

\* What the phone is shown of its watchers is what the engine matches, and it is told
\* every hit: WatchersList and WatcherMatched of session_router.rs.
THEOREM WatchersAreKnown == Spec => []PhoneKnowsWatchers
<1>1. NotifyInv => PhoneKnowsWatchers
  <2> SUFFICES ASSUME NotifyInv PROVE PhoneKnowsWatchers
    OBVIOUS
  <2>1. ASSUME NEW e \in Engines, NEW s \in Sessions, NEW w \in watchers[e][s]
        PROVE  hits[w] = matched[w] + Cardinality({w} \intersect forwarder[s].due)
    <3>1. w \in Watchers
      BY <2>1 DEF NotifyInv, Types
    <3>2. matched[w] \in Nat /\ hits[w] \in 0..MaxHits
      BY <3>1 DEF NotifyInv, Types
    <3>3. CASE w \in forwarder[s].due
      <4>1. {w} \intersect forwarder[s].due = {w}
        BY <3>3
      <4>2. matched[w] + 1 = hits[w]
        BY <3>3 DEF NotifyInv, HitsInv
      <4>3. Cardinality({w}) = 1
        BY FS_Singleton
      <4>4. QED BY <4>1, <4>2, <4>3
    <3>4. CASE w \notin forwarder[s].due
      <4>1. {w} \intersect forwarder[s].due = {}
        BY <3>4
      <4>2. matched[w] = hits[w]
        BY <2>1, <3>4 DEF NotifyInv, HitsInv
      <4>3. Cardinality({}) = 0
        BY FS_EmptySet
      <4>4. QED BY <3>2, <4>1, <4>2, <4>3
    <3>5. QED BY <3>3, <3>4
  <2>2. HitsAreTold
    BY <2>1 DEF HitsAreTold
  <2>3. ShownIsWatched
    BY DEF NotifyInv, ListsInv, ShownIsWatched
  <2>4. QED BY <2>2, <2>3 DEF PhoneKnowsWatchers
<1>2. QED BY <1>1, Invariant, PTL
=============================================================================
