------------------------------- MODULE Notify -------------------------------
(* Notifications of the agent: `macagent notify` commands that report their   *)
(* end over the agent's socket (notify/mod.rs, agent_socket.rs), watchers of  *)
(* the lines of a session (session_router.rs), and the engine both use        *)
(* (notify_engine.rs), which a pairing replaces while they run (ui.rs).       *)
(*                                                                            *)
(* Engines are numbered in the order they are built; the engine in the cell   *)
(* is the last one.  An engine, once built, pushes to one pair for good.      *)
EXTENDS Naturals, FiniteSets

CONSTANTS
  Commands,     \* runs of `macagent notify`; each has a fresh register id
  Sessions,     \* sessions; ids are fresh
  Watchers,     \* watchers; the phone gives each a fresh id
  MaxPairings,  \* bound: pairings
  MaxRestarts,  \* bound: restarts of the agent
  MaxHits       \* bound: lines that match a watcher

ASSUME BoundsAssumption ==
  MaxPairings \in Nat /\ MaxRestarts \in Nat /\ MaxHits \in Nat

ASSUME IdsAssumption == Commands \intersect Watchers = {}

Engines == 0..(MaxPairings + MaxRestarts)
Pairings == 0..MaxPairings      \* 0: not paired
NoRequest == [session |-> {}]

VARIABLES
  engine,       \* the engine in notify_engine_cell
  pairings,     \* how many pairings there were; the last is the Mac's pair
  pairOf,       \* the pair an engine's PushClient signs for, 0 if it has none
  inFlight,     \* EngineInner::in_flight of each engine
  watchers,     \* EngineInner::watchers of each engine
  hits,         \* Watcher::hits
  handler,      \* the connection task of a command
  forwarder,    \* the frame task of a session
  request,      \* the watch request the dispatcher is in
  asked,        \* watchers the phone has made up an id for
  shim,         \* where a run of `macagent notify` is
  socket,       \* its connection: is its end open, what is on the way
  listed,       \* the last WatchersList sent of a session
  matched,      \* WatcherMatched messages sent of a watcher
  pushes,       \* the pushes started: of what, signed for which pair
  restarts

agentVars == <<engine, pairings, pairOf, restarts>>
engineVars == <<inFlight, watchers, hits>>
shimVars == <<shim, socket>>
watchVars == <<forwarder, request, asked, listed, matched>>
vars == <<agentVars, engineVars, shimVars, handler, watchVars, pushes>>

NoSocket == [open |-> FALSE, sent |-> {}, acked |-> FALSE]
NoTask == [at |-> "none", engine |-> 0, owner |-> 0]
NoForwarder == [at |-> "none", engine |-> 0, owner |-> 0, due |-> {}]

\* The agent starts with or without a pair in the keychain.
Init ==
  /\ pairings \in 0..1 /\ pairings <= MaxPairings
  /\ engine = 0
  /\ pairOf = [e \in Engines |-> IF e = 0 THEN pairings ELSE 0]
  /\ inFlight = [e \in Engines |-> {}]
  /\ watchers = [e \in Engines |-> [s \in Sessions |-> {}]]
  /\ hits = [w \in Watchers |-> 0]
  /\ handler = [c \in Commands |-> NoTask]
  /\ forwarder = [s \in Sessions |-> NoForwarder]
  /\ request = NoRequest /\ asked = {}
  /\ shim = [c \in Commands |-> "idle"]
  /\ socket = [c \in Commands |-> NoSocket]
  /\ listed = [s \in Sessions |-> {}]
  /\ matched = [w \in Watchers |-> 0]
  /\ pushes = {} /\ restarts = 0

------------------------------------------------------------------------------
(* The engine in the cell.                                                    *)

\* build_notify_engine: empty, with the pair's PushClient.
Build(pair) ==
  /\ engine' = engine + 1
  /\ pairOf' = [pairOf EXCEPT ![engine + 1] = pair]

\* Mutant: the engine stays and gets the new pair's PushClient.
PairedInPlace ==
  /\ pairings < MaxPairings
  /\ pairings' = pairings + 1
  /\ pairOf' = [pairOf EXCEPT ![engine] = pairings + 1]
  /\ UNCHANGED <<engine, restarts, engineVars, shimVars, handler, watchVars, pushes>>

\* rebuild_notify_engine after a pairing.  Tasks keep the engine they have.
Paired ==
  /\ pairings < MaxPairings
  /\ pairings' = pairings + 1
  /\ Build(pairings + 1)
  /\ UNCHANGED <<restarts, engineVars, shimVars, handler, watchVars, pushes>>

\* The agent ends and starts again, with its pair unless that was revoked: its tasks
\* and engines are gone, its sockets closed, also those nobody had accepted.
Restart ==
  /\ restarts < MaxRestarts
  /\ restarts' = restarts + 1
  /\ \E pair \in {0, pairings} : Build(pair)
  /\ inFlight' = [e \in Engines |-> {}]
  /\ watchers' = [e \in Engines |-> [s \in Sessions |-> {}]]
  /\ handler' = [c \in Commands |->
       IF shim[c] \in {"idle", "connecting"} THEN handler[c]
       ELSE [handler[c] EXCEPT !.at = "gone"]]
  /\ forwarder' = [s \in Sessions |->
       IF forwarder[s].at = "running"
       THEN [forwarder[s] EXCEPT !.at = "ended", !.due = {}] ELSE forwarder[s]]
  /\ request' = NoRequest
  /\ UNCHANGED <<pairings, hits, shimVars, asked, listed, matched, pushes>>

\* Mutant: an engine without a PushClient pushes too.
PushUnsigned(what, task) ==
  pushes' = pushes \union {[of |-> what, pair |-> pairOf[task.engine]]}

\* A push in a task of its own; nobody waits for its end or looks at it.
Push(what, task) ==
  pushes' = IF pairOf[task.engine] = 0 THEN pushes
            ELSE pushes \union {[of |-> what, pair |-> pairOf[task.engine]]}

------------------------------------------------------------------------------
(* `macagent notify -- <cmd>`.                                                *)

Becomes(c, state) == shim' = [shim EXCEPT ![c] = state]
AgentKeeps == UNCHANGED <<agentVars, engineVars, handler, watchVars, pushes>>
ShimKeeps == UNCHANGED <<agentVars, watchVars, shim>>

Start(c) ==
  /\ shim[c] = "idle"
  /\ Becomes(c, "connecting")
  /\ UNCHANGED socket /\ AgentKeeps

\* The connection is queued by the system; the agent need not have accepted it.
Connect(c) ==
  /\ shim[c] = "connecting"
  /\ Becomes(c, "registering")
  /\ socket' = [socket EXCEPT ![c] = [open |-> TRUE, sent |-> {"register"},
                                      acked |-> FALSE]]
  /\ AgentKeeps

\* The NotifyAck in time: the command runs with the connection kept.
AckArrives(c) ==
  /\ shim[c] = "registering" /\ socket[c].acked
  /\ Becomes(c, "registered")
  /\ UNCHANGED socket /\ AgentKeeps

\* No agent, no connection in 2 s, no acknowledgement in 3 s, or the end of the
\* stream: a warning, and the command runs with the connection dropped.
RegisterFails(c) ==
  /\ shim[c] \in {"connecting", "registering"}
  /\ Becomes(c, "unregistered")
  /\ socket' = [socket EXCEPT ![c].open = FALSE]
  /\ AgentKeeps

\* The command has ended and the shim reports it.
Report(c) ==
  /\ shim[c] = "registered" /\ handler[c].at # "gone"
  /\ Becomes(c, "reported")
  /\ socket' = [socket EXCEPT ![c].open = FALSE, ![c].sent = @ \union {"complete"}]
  /\ AgentKeeps

\* The command has ended without a report: it had none to make, the agent is gone,
\* it could not be started, or somebody killed it with its shim.
EndSilently(c) ==
  /\ shim[c] \in {"connecting", "registering", "registered", "unregistered"}
  /\ Becomes(c, "ended")
  /\ socket' = [socket EXCEPT ![c].open = FALSE]
  /\ AgentKeeps

------------------------------------------------------------------------------
(* The agent's end of a command's connection: handle_connection.              *)

Goes(c, at) == handler' = [handler EXCEPT ![c].at = at]

\* The accept loop gives the task the engine of this moment.
Accept(c) ==
  /\ handler[c].at = "none" /\ shim[c] \notin {"idle", "connecting"}
  /\ socket[c].sent # {}
  /\ handler' = [handler EXCEPT ![c] = [at |-> "first", engine |-> engine,
                                        owner |-> pairings]]
  /\ UNCHANGED <<engineVars, socket, pushes>> /\ ShimKeeps

\* Mutant: each frame is given to the engine of its moment.
RegisterInCurrent(c) ==
  /\ handler[c].at = "first"
  /\ inFlight' = [inFlight EXCEPT ![engine] = @ \union {c}]
  /\ Goes(c, "ack")
  /\ UNCHANGED <<watchers, hits, socket, pushes>> /\ ShimKeeps

\* register_notify.
Register(c) ==
  /\ handler[c].at = "first"
  /\ inFlight' = [inFlight EXCEPT ![handler[c].engine] = @ \union {c}]
  /\ Goes(c, "ack")
  /\ UNCHANGED <<watchers, hits, socket, pushes>> /\ ShimKeeps

\* The write fails if the shim has closed its end and the system knows by now.
WriteAck(c) ==
  /\ handler[c].at = "ack"
  /\ \/ Goes(c, "wait")
     \/ ~socket[c].open /\ Goes(c, "gone")
  /\ socket' = [socket EXCEPT ![c].acked = TRUE]
  /\ UNCHANGED <<engineVars, pushes>> /\ ShimKeeps

\* complete_notify: only what is in flight is pushed.
Complete(c) ==
  /\ handler[c].at = "wait" /\ "complete" \in socket[c].sent
  /\ inFlight' = [inFlight EXCEPT ![handler[c].engine] = @ \ {c}]
  /\ IF c \in inFlight[handler[c].engine] THEN Push(c, handler[c])
                                           ELSE UNCHANGED pushes
  /\ Goes(c, "gone")
  /\ UNCHANGED <<watchers, hits, socket>> /\ ShimKeeps

\* The stream ends before a report; the registration stays in flight.
EndOfStream(c) ==
  /\ handler[c].at = "wait" /\ ~socket[c].open /\ "complete" \notin socket[c].sent
  /\ Goes(c, "gone")
  /\ UNCHANGED <<engineVars, socket, pushes>> /\ ShimKeeps

------------------------------------------------------------------------------
(* Watchers.                                                                  *)

WatchKeeps == UNCHANGED <<agentVars, inFlight, shimVars, handler>>

\* handle_socket_event Connected: the frame task keeps the engine of this moment.
SessionConnects(s) ==
  /\ forwarder[s].at = "none"
  /\ forwarder' = [forwarder EXCEPT ![s] = [at |-> "running", engine |-> engine,
                                            owner |-> pairings, due |-> {}]]
  /\ UNCHANGED <<watchers, hits, request, asked, listed, matched, pushes>>
  /\ WatchKeeps

SessionEnds(s) ==
  /\ forwarder[s].at = "running" /\ forwarder[s].due = {}
  /\ forwarder' = [forwarder EXCEPT ![s].at = "ended"]
  /\ UNCHANGED <<watchers, hits, request, asked, listed, matched, pushes>>
  /\ WatchKeeps

\* Mutant: only a removal is answered with the list.
WatchUnanswered(s, w) ==
  /\ request = NoRequest /\ forwarder[s].at # "none" /\ w \notin asked
  /\ asked' = asked \union {w}
  /\ watchers' = [watchers EXCEPT ![engine][s] = @ \union {w}]
  /\ UNCHANGED <<hits, request, forwarder, listed, matched, pushes>> /\ WatchKeeps

\* WatchSession and UnwatchSession up to the change of the engine; the phone knows
\* the session, which may have ended since, and for a removal the watcher.
Watch(s, w) ==
  /\ request = NoRequest /\ forwarder[s].at # "none" /\ w \notin asked
  /\ asked' = asked \union {w}
  /\ watchers' = [watchers EXCEPT ![engine][s] = @ \union {w}]
  /\ request' = [session |-> s, engine |-> engine]
  /\ UNCHANGED <<hits, forwarder, listed, matched, pushes>> /\ WatchKeeps

Unwatch(s, w) ==
  /\ request = NoRequest /\ w \in listed[s]
  /\ watchers' = [watchers EXCEPT ![engine][s] = @ \ {w}]
  /\ request' = [session |-> s, engine |-> engine]
  /\ UNCHANGED <<hits, forwarder, asked, listed, matched, pushes>> /\ WatchKeeps

\* The answer: list_watchers and the send.
SendList ==
  /\ request # NoRequest
  /\ listed' = [listed EXCEPT ![request.session] =
                  watchers[request.engine][request.session]]
  /\ request' = NoRequest
  /\ UNCHANGED <<watchers, hits, forwarder, asked, matched, pushes>> /\ WatchKeeps

\* feed_session_line under the lock: the watchers the line matches.
Feed(s, found) ==
  /\ forwarder[s].at = "running" /\ forwarder[s].due = {}
  /\ found # {} /\ found \subseteq watchers[forwarder[s].engine][s]
  /\ \A w \in found : hits[w] < MaxHits
  /\ hits' = [w \in Watchers |-> IF w \in found THEN hits[w] + 1 ELSE hits[w]]
  /\ forwarder' = [forwarder EXCEPT ![s].due = found]
  /\ UNCHANGED <<watchers, request, asked, listed, matched, pushes>> /\ WatchKeeps

\* After the lock is released: one message and one push for each match.
SendMatch(s, w) ==
  /\ w \in forwarder[s].due
  /\ matched' = [matched EXCEPT ![w] = @ + 1]
  /\ Push(w, forwarder[s])
  /\ forwarder' = [forwarder EXCEPT ![s].due = @ \ {w}]
  /\ UNCHANGED <<watchers, hits, request, asked, listed>> /\ WatchKeeps

------------------------------------------------------------------------------
Shim(c) == Connect(c) \/ AckArrives(c) \/ RegisterFails(c)
Handle(c) == Register(c) \/ WriteAck(c) \/ Complete(c) \/ EndOfStream(c)

Next ==
  \/ Paired \/ Restart \/ SendList
  \/ \E c \in Commands : Start(c) \/ Shim(c) \/ Report(c) \/ EndSilently(c)
                         \/ Accept(c) \/ Handle(c)
  \/ \E s \in Sessions :
       \/ SessionConnects(s) \/ SessionEnds(s)
       \/ \E w \in Watchers : Watch(s, w) \/ Unwatch(s, w) \/ SendMatch(s, w)
       \/ \E found \in SUBSET Watchers : Feed(s, found)

Spec == Init /\ [][Next]_vars

\* The shim's timeouts fire, and a task the runtime has goes on.  Nothing makes
\* the agent accept, a command end or a phone ask.
Fairness ==
  /\ \A c \in Commands : WF_vars(Shim(c)) /\ WF_vars(Handle(c))
  /\ \A s \in Sessions, w \in Watchers : WF_vars(SendMatch(s, w))
  /\ WF_vars(SendList)

FairSpec == Spec /\ Fairness

------------------------------------------------------------------------------
(* Properties.                                                                *)

\* Every variable has its type.
TypeOK ==
  /\ engine \in Engines /\ pairings \in Pairings /\ restarts \in 0..MaxRestarts
  /\ engine <= pairings + restarts
  /\ pairOf \in [Engines -> Pairings]
  /\ inFlight \in [Engines -> SUBSET Commands]
  /\ watchers \in [Engines -> [Sessions -> SUBSET Watchers]]
  /\ hits \in [Watchers -> 0..MaxHits]
  /\ handler \in [Commands -> [at : {"none", "first", "ack", "wait", "gone"},
                               engine : Engines, owner : Pairings]]
  /\ forwarder \in [Sessions -> [at : {"none", "running", "ended"}, engine : Engines,
                                 owner : Pairings, due : SUBSET Watchers]]
  /\ request \in {NoRequest} \union [session : Sessions, engine : Engines]
  /\ asked \in SUBSET Watchers
  /\ shim \in [Commands -> {"idle", "connecting", "registering", "registered",
                            "unregistered", "reported", "ended"}]
  /\ socket \in [Commands -> [open : BOOLEAN, sent : SUBSET {"register", "complete"},
                              acked : BOOLEAN]]
  /\ listed \in [Sessions -> SUBSET Watchers]
  /\ matched \in [Watchers -> 0..MaxHits]
  /\ pushes \in SUBSET [of : Commands \union Watchers, pair : Pairings \ {0}]

\* A push about a command means that its shim reported the end: never for a
\* command it warned about ("no push"), however late the agent's acknowledgement
\* or registration came, and never for one that still runs or was killed.
OnlyReportedPush ==
  \A p \in pushes : p.of \in Commands => shim[p.of] = "reported"

\* What a task pushes goes to the pair of the moment it was started, also when
\* the Mac has been paired with another phone since.
StaysWithItsPair ==
  \A p \in pushes :
    /\ p.of \in Commands => p.pair = handler[p.of].owner
    /\ \A e \in Engines, s \in Sessions :
         p.of \in watchers[e][s] => p.pair = forwarder[s].owner

\* Every push is one that somebody asked for, and goes to the pair it was meant for.
PushesAreMeant == OnlyReportedPush /\ StaysWithItsPair

\* A watcher's hits are the matches the phone has been told and those its frame
\* task is about to tell, whatever lists are asked for in between.
HitsAreTold ==
  \A e \in Engines, s \in Sessions : \A w \in watchers[e][s] :
    hits[w] = matched[w] + Cardinality({w} \intersect forwarder[s].due)

\* The watchers the phone was last shown of a session that started with the current
\* engine are the ones its lines are matched against.
ShownIsWatched ==
  \A s \in Sessions :
    request = NoRequest /\ forwarder[s].at = "running" /\ forwarder[s].engine = engine
      => listed[s] = watchers[forwarder[s].engine][s]

\* What the phone is shown of its watchers, and the hits it counts, are the engine's.
PhoneKnowsWatchers == HitsAreTold /\ ShownIsWatched

\* A command runs whatever the agent does.
CommandRuns ==
  \A c \in Commands :
    shim[c] = "connecting" ~> shim[c] \notin {"connecting", "registering"}

\* The end that a shim reports is pushed to the pair of its connection's engine, also
\* if a pairing replaced the engine since, unless the agent is restarted.
ReportedIsPushed ==
  \A c \in Commands :
    shim[c] = "reported" /\ pairOf[handler[c].engine] # 0
      ~> restarts > 0 \/ [of |-> c, pair |-> pairOf[handler[c].engine]] \in pushes
\* A command gets its turn, and so does the report of its end.
CommandsGoOn == CommandRuns /\ ReportedIsPushed
=============================================================================
