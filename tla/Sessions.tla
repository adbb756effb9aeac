----------------------------- MODULE Sessions -----------------------------
(***************************************************************************)
(* Terminal sessions on the Mac: the registry of producers, the task that  *)
(* accepts and reads a producer's socket, the event loop, the task that    *)
(* forwards a producer's frames, the serial dispatcher of the phone's      *)
(* requests with the launches it started, their timers, and the phone's    *)
(* list of sessions and launches.                                          *)
(*                                                                         *)
(* One action is one section between two awaits.  A connection's id stands *)
(* for the fresh uuid its session gets.  The phone handles a message when  *)
(* it is sent: the channel is first in first out and the phone's requests  *)
(* have a queue of their own.                                              *)
(***************************************************************************)
EXTENDS Naturals, FiniteSets, SequencesExt

CONSTANTS
  Conns,          \* connections to the agent's socket, and their session ids
  Launchers,      \* the launchers of the Mac's configuration
  Unknown,        \* a launcher id the configuration lacks
  Manual,         \* the source of a session the Mac's user started
  Requests,       \* ids of the phone's LaunchSession requests
  NoReq, NoConn,  \* no request, no connection
  MAX_SESSIONS,   \* the size of the registry
  Busy,           \* bound: the sessions that show screens and may be killed
  MaxRestarts     \* bound: how often the phone's process is killed

ASSUME ConstantsAssumption ==
  /\ Busy \subseteq Conns
  /\ MAX_SESSIONS \in Nat /\ MaxRestarts \in Nat
  /\ Unknown \notin Launchers /\ Manual \notin Launchers
  /\ NoReq \notin Requests /\ NoConn \notin Conns

VARIABLES
  conn,        \* where the handler of each connection is
  source,      \* who started the producer of each connection
  alive,       \* connections whose producer holds its end open
  frames,      \* frames sent by each producer and not yet forwarded
  killing,     \* producers a KillRequest was sent to
  forwarder,   \* where the frame task of each session is
  registered,  \* the sids in ProducerRegistry
  events,      \* ProducerEvents on their way to the event loop
  adding,      \* the session the event loop is about to add, or NoConn
  pending,     \* per launcher, the launches that wait for a producer
  due,         \* launches whose deadline has passed
  timer,       \* the timeout task of each launch
  inbox,       \* the phone's requests on their way to the dispatcher
  script,      \* the launch whose osascript the dispatcher awaits, and
               \* whether Terminal has opened its window; or NoScript
  windows,     \* per launcher, Terminal windows that opened and not connected
  phone,       \* the phone: its process, its sessions and its launches
  restarts,    \* how often the phone's process was killed
  told,        \* history: what was sent about each session
  answers      \* history: what was sent about each launch

connVars == <<conn, source, alive, frames, killing>>
launchVars == <<pending, due, timer, inbox, script, windows>>
vars == <<connVars, forwarder, registered, events, adding, launchVars,
          phone, restarts, told, answers>>

Phases == {"free", "hello", "welcome", "announce", "reading", "cleanup",
           "report", "closed"}

NoScript == [req |-> NoReq, launcher |-> Unknown, opened |-> FALSE]

NoLaunch == [status |-> "none", sid |-> NoConn]

FreshPhone == [up |-> TRUE, sessions |-> {},
               launches |-> [r \in Requests |-> NoLaunch]]

Init ==
  /\ conn = [p \in Conns |-> "free"]
  /\ source = [p \in Conns |-> Manual]
  /\ alive = {} /\ killing = {} /\ registered = {}
  /\ frames = [p \in Conns |-> <<>>]
  /\ forwarder = [p \in Conns |-> "none"]
  /\ events = <<>> /\ adding = NoConn
  /\ pending = [l \in Launchers |-> <<>>]
  /\ due = {}
  /\ timer = [r \in Requests |-> "none"]
  /\ inbox = <<>> /\ script = NoScript
  /\ windows = [l \in Launchers |-> 0]
  /\ phone = FreshPhone /\ restarts = 0
  /\ told = [p \in Conns |-> <<>>]
  /\ answers = [r \in Requests |-> <<>>]

------------------------------------------------------------------------------
(* Messages to the phone.  One that is sent while its process is dead is    *)
(* lost; the histories record what was sent.                                *)

Say(p, words) == told' = [told EXCEPT ![p] = @ \o words]

List(sessions) ==
  phone' = IF phone.up THEN [phone EXCEPT !.sessions = sessions] ELSE phone

SayAdded(p) == Say(p, <<"added">>) /\ List(phone.sessions \union {p})

SayRemoved(p, words) == Say(p, words) /\ List(phone.sessions \ {p})

\* The phone notes an answer only if it still holds the launch.
Answer(r, word, p) ==
  /\ answers' = [answers EXCEPT ![r] = Append(@, [word |-> word, sid |-> p])]
  /\ phone' = IF phone.up /\ phone.launches[r].status # "none"
              THEN [phone EXCEPT !.launches[r].status = word,
                                 !.launches[r].sid = p]
              ELSE phone

Ack(r, p) == Answer(r, "succeeded", p)
Reject(r) == Answer(r, "rejected", NoConn)

------------------------------------------------------------------------------
(* The producers, each in a Terminal window: `macagent run`.                *)

\* Mutant: the producer of a window that no launch opened.
ConnectUninvited(p, src) ==
  /\ conn[p] = "free"
  /\ IF src = Manual THEN UNCHANGED windows
     ELSE windows' = [windows EXCEPT ![src] = @ - 1]
  /\ conn' = [conn EXCEPT ![p] = "hello"]
  /\ source' = [source EXCEPT ![p] = src]
  /\ alive' = alive \union {p}
  /\ UNCHANGED <<frames, killing, forwarder, registered, events, adding,
                 pending, due, timer, inbox, script, phone, restarts,
                 told, answers>>

\* A producer connects and sends its hello.
Connect(p, src) ==
  /\ conn[p] = "free"
  /\ IF src = Manual THEN UNCHANGED windows
     ELSE windows[src] > 0 /\ windows' = [windows EXCEPT ![src] = @ - 1]
  /\ conn' = [conn EXCEPT ![p] = "hello"]
  /\ source' = [source EXCEPT ![p] = src]
  /\ alive' = alive \union {p}
  /\ UNCHANGED <<frames, killing, forwarder, registered, events, adding,
                 pending, due, timer, inbox, script, phone, restarts,
                 told, answers>>

\* The producer got its welcome and runs.
Runs(p) == p \in alive /\ conn[p] \in {"announce", "reading"}

\* What the producer sends: one screen here, for any number.
Send(p, words) == frames' = [frames EXCEPT ![p] = @ \o words]

ShowScreen(p) ==
  /\ Runs(p) /\ frames[p] = <<>> /\ p \in Busy
  /\ Send(p, <<"screen">>)
  /\ UNCHANGED <<conn, source, alive, killing, forwarder, registered, events,
                 adding, launchVars, phone, restarts, told, answers>>

\* The child exits: the producer says so and ends.
ChildExits(p) ==
  /\ Runs(p)
  /\ Send(p, <<"exit">>)
  /\ alive' = alive \ {p}
  /\ UNCHANGED <<conn, source, killing, forwarder, registered, events, adding,
                 launchVars, phone, restarts, told, answers>>

\* KillRequest: a last screen, and the end without a ProducerExit.
ObeyKill(p) ==
  /\ Runs(p) /\ p \in killing
  /\ Send(p, <<"screen">>)
  /\ alive' = alive \ {p}
  /\ UNCHANGED <<conn, source, killing, forwarder, registered, events, adding,
                 launchVars, phone, restarts, told, answers>>

\* The window is closed, or the producer crashes, at any moment.
WindowCloses(p) ==
  /\ p \in alive
  /\ alive' = alive \ {p}
  /\ UNCHANGED <<conn, source, frames, killing, forwarder, registered, events,
                 adding, launchVars, phone, restarts, told, answers>>

Producer(p) ==
  \/ \E src \in Launchers \union {Manual} : Connect(p, src)
  \/ ShowScreen(p) \/ ChildExits(p) \/ ObeyKill(p) \/ WindowCloses(p)

------------------------------------------------------------------------------
(* The handler of one connection: handle_producer_hello.                    *)

Goto(p, phase) == conn' = [conn EXCEPT ![p] = phase]

HandlerKeeps ==
  UNCHANGED <<source, alive, frames, killing, forwarder, adding, launchVars,
              phone, restarts, told, answers>>

\* Mutant: an off-by-one in the limit.
HasRoomForOneMore == Cardinality(registered) <= MAX_SESSIONS

HasRoom == Cardinality(registered) < MAX_SESSIONS

\* The hello is registered, or refused: the connection is dropped unanswered.
Register(p) ==
  /\ conn[p] = "hello"
  /\ IF HasRoom
     THEN registered' = registered \union {p} /\ Goto(p, "welcome")
     ELSE UNCHANGED registered /\ Goto(p, "closed")
  /\ UNCHANGED events /\ HandlerKeeps

\* Mutant: a failed write of the welcome returns and keeps the slot.
WelcomeLeaks(p) ==
  /\ conn[p] = "welcome"
  /\ \/ Goto(p, "announce")
     \/ p \notin alive /\ Goto(p, "closed")
  /\ UNCHANGED <<registered, events>> /\ HandlerKeeps

\* The welcome is written, or the producer is gone and the slot is freed.
Welcome(p) ==
  /\ conn[p] = "welcome"
  /\ \/ Goto(p, "announce") /\ UNCHANGED registered
     \/ /\ p \notin alive
        /\ registered' = registered \ {p} /\ Goto(p, "closed")
  /\ UNCHANGED events /\ HandlerKeeps

Announce(p) ==
  /\ conn[p] = "announce"
  /\ events' = Append(events, [kind |-> "Connected", sid |-> p])
  /\ Goto(p, "reading")
  /\ UNCHANGED registered /\ HandlerKeeps

\* The read loop meets the end of the stream.
ReadsEnd(p) ==
  /\ conn[p] = "reading" /\ p \notin alive
  /\ Goto(p, "cleanup")
  /\ UNCHANGED <<events, registered>> /\ HandlerKeeps

Cleanup(p) ==
  /\ conn[p] = "cleanup"
  /\ registered' = registered \ {p}
  /\ Goto(p, "report")
  /\ UNCHANGED events /\ HandlerKeeps

\* The last event; the handler returns and drops the frame channel.
Report(p) ==
  /\ conn[p] = "report"
  /\ events' = Append(events, [kind |-> "Disconnected", sid |-> p])
  /\ Goto(p, "closed")
  /\ UNCHANGED registered /\ HandlerKeeps

Handler(p) == Register(p) \/ Welcome(p) \/ Announce(p) \/ ReadsEnd(p)
              \/ Cleanup(p) \/ Report(p)

------------------------------------------------------------------------------
(* The event loop, which awaits one event before it takes the next.         *)

EventIs(kind) == adding = NoConn /\ events # <<>> /\ Head(events).kind = kind

\* The places of the launches a producer of launcher l may answer.
Waiting(l) == {i \in DOMAIN pending[l] : pending[l][i] \notin due}

Oldest(l, i) == i \in Waiting(l) /\ \A j \in Waiting(l) : i <= j

\* The launches without launch r, which is among them at most once.
Without(reqs, r) ==
  IF \E i \in DOMAIN reqs : reqs[i] = r
  THEN RemoveAt(reqs, CHOOSE i \in DOMAIN reqs : reqs[i] = r)
  ELSE reqs

\* Mutant: a producer that answers a launch is acknowledged instead of announced.
AckOnly ==
  /\ EventIs("Connected")
  /\ events' = Tail(events)
  /\ LET p == Head(events).sid
         l == source[p] IN
       \/ /\ l \in Launchers
          /\ \E i \in DOMAIN pending[l] :
               /\ Oldest(l, i)
               /\ pending' = [pending EXCEPT ![l] = RemoveAt(@, i)]
               /\ Ack(pending[l][i], p)
          /\ adding' = NoConn
       \/ /\ l \in Launchers => Waiting(l) = {}
          /\ adding' = p /\ UNCHANGED <<pending, answers, phone>>
  /\ UNCHANGED <<connVars, forwarder, registered, due, timer, inbox, script,
                 windows, restarts, told>>

\* A connected producer answers the oldest launch of its launcher that waits.
MatchLaunch ==
  /\ EventIs("Connected")
  /\ LET p == Head(events).sid
         l == source[p] IN
       /\ events' = Tail(events) /\ adding' = p
       /\ \/ /\ l \in Launchers
             /\ \E i \in DOMAIN pending[l] :
                  /\ Oldest(l, i)
                  /\ pending' = [pending EXCEPT ![l] = RemoveAt(@, i)]
                  /\ Ack(pending[l][i], p)
          \/ /\ l \in Launchers => Waiting(l) = {}
             /\ UNCHANGED <<pending, answers, phone>>
  /\ UNCHANGED <<connVars, forwarder, registered, due, timer, inbox, script,
                 windows, restarts, told>>

\* The session is announced and its frame task started.
AddSession ==
  /\ adding # NoConn
  /\ SayAdded(adding)
  /\ forwarder' = [forwarder EXCEPT ![adding] = "running"]
  /\ adding' = NoConn
  /\ UNCHANGED <<connVars, registered, events, launchVars, restarts, answers>>

\* Mutant: the removal is said whether or not the session was registered.
DropSessionAlways ==
  /\ EventIs("Disconnected")
  /\ registered' = registered \ {Head(events).sid}
  /\ SayRemoved(Head(events).sid, <<"removed">>)
  /\ events' = Tail(events)
  /\ UNCHANGED <<connVars, forwarder, adding, launchVars, restarts, answers>>

\* A disconnection removes the session, and says so if it was registered.
DropSession ==
  /\ EventIs("Disconnected")
  /\ LET p == Head(events).sid IN
       /\ registered' = registered \ {p}
       /\ IF p \in registered THEN SayRemoved(p, <<"removed">>)
          ELSE UNCHANGED <<told, phone>>
  /\ events' = Tail(events)
  /\ UNCHANGED <<connVars, forwarder, adding, launchVars, restarts, answers>>

EventLoop == MatchLaunch \/ AddSession \/ DropSession

------------------------------------------------------------------------------
(* The frame task of one session.                                           *)

ForwarderKeeps ==
  UNCHANGED <<conn, source, alive, killing, events, adding, launchVars,
              restarts, answers>>

Takes(p, word) == frames[p] # <<>> /\ Head(frames[p]) = word

ForwardScreen(p) ==
  /\ forwarder[p] = "running" /\ Takes(p, "screen")
  /\ frames' = [frames EXCEPT ![p] = Tail(@)]
  /\ IF Last(told[p]) = "screen" THEN UNCHANGED told ELSE Say(p, <<"screen">>)
  /\ UNCHANGED <<forwarder, registered, phone>> /\ ForwarderKeeps

\* ProducerExit: the slot is freed first, then the phone is told.
TakeExit(p) ==
  /\ forwarder[p] = "running" /\ Takes(p, "exit")
  /\ frames' = [frames EXCEPT ![p] = Tail(@)]
  /\ registered' = registered \ {p}
  /\ forwarder' = [forwarder EXCEPT ![p] = "exited"]
  /\ UNCHANGED <<told, phone>> /\ ForwarderKeeps

SayExited(p) ==
  /\ forwarder[p] = "exited"
  /\ SayRemoved(p, <<"exited", "removed">>)
  /\ forwarder' = [forwarder EXCEPT ![p] = "done"]
  /\ UNCHANGED <<frames, registered>> /\ ForwarderKeeps

\* Mutant: the closed channel is left to the Disconnected event.
ChannelClosesSilently(p) ==
  /\ forwarder[p] = "running" /\ frames[p] = <<>> /\ conn[p] = "closed"
  /\ registered' = registered \ {p}
  /\ forwarder' = [forwarder EXCEPT ![p] = "done"]
  /\ UNCHANGED <<frames, told, phone>> /\ ForwarderKeeps

\* The channel is closed and drained without a ProducerExit.
ChannelCloses(p) ==
  /\ forwarder[p] = "running" /\ frames[p] = <<>> /\ conn[p] = "closed"
  /\ registered' = registered \ {p}
  /\ forwarder' = [forwarder EXCEPT ![p] = "closed"]
  /\ UNCHANGED <<frames, told, phone>> /\ ForwarderKeeps

SayClosed(p) ==
  /\ forwarder[p] = "closed"
  /\ SayRemoved(p, <<"removed">>)
  /\ forwarder' = [forwarder EXCEPT ![p] = "done"]
  /\ UNCHANGED <<frames, registered>> /\ ForwarderKeeps

Forwarder(p) == ForwardScreen(p) \/ TakeExit(p) \/ SayExited(p)
                \/ ChannelCloses(p) \/ SayClosed(p)

------------------------------------------------------------------------------
(* The dispatcher of the phone's requests; it takes one when the handler of *)
(* the one before has returned, and a launch's handler awaits osascript.    *)

DispatcherKeeps ==
  UNCHANGED <<conn, source, alive, frames, forwarder, registered, events,
              adding, restarts, told>>

Idle == script.req = NoReq

RequestIs(kind) == Idle /\ inbox # <<>> /\ Head(inbox).kind = kind

\* handle_launch_session up to osascript: the launch is pending, its timer runs.
LaunchSession ==
  /\ RequestIs("launch")
  /\ LET r == Head(inbox).req
         l == Head(inbox).launcher IN
       IF l \in Launchers
       THEN /\ pending' = [pending EXCEPT ![l] = Append(@, r)]
            /\ timer' = [timer EXCEPT ![r] = "sleeping"]
            /\ script' = [req |-> r, launcher |-> l, opened |-> FALSE]
            /\ UNCHANGED <<answers, phone>>
       ELSE /\ Reject(r)
            /\ UNCHANGED <<pending, timer, script>>
  /\ inbox' = Tail(inbox)
  /\ UNCHANGED <<due, windows, killing>> /\ DispatcherKeeps

\* Terminal runs the script: a window opens.
TerminalOpens ==
  /\ ~Idle /\ ~script.opened
  /\ script' = [script EXCEPT !.opened = TRUE]
  /\ windows' = [windows EXCEPT ![script.launcher] = @ + 1]
  /\ UNCHANGED <<pending, due, timer, inbox, killing, phone, answers>>
  /\ DispatcherKeeps

ScriptSucceeds ==
  /\ ~Idle /\ script.opened
  /\ script' = NoScript
  /\ UNCHANGED <<pending, due, timer, inbox, windows, killing, phone, answers>>
  /\ DispatcherKeeps

\* Mutant: the rejected launch stays in the list.
ScriptFailsKeepsLaunch ==
  /\ ~Idle
  /\ Reject(script.req)
  /\ script' = NoScript
  /\ UNCHANGED <<pending, due, timer, inbox, windows, killing>> /\ DispatcherKeeps

\* osascript fails, whatever Terminal did: the launch is dropped and rejected.
ScriptFails ==
  /\ ~Idle
  /\ pending' = [pending EXCEPT ![script.launcher] = Without(@, script.req)]
  /\ Reject(script.req)
  /\ script' = NoScript
  /\ UNCHANGED <<due, timer, inbox, windows, killing>> /\ DispatcherKeeps

\* A KillRequest reaches the producer if its session is registered.
KillSession ==
  /\ RequestIs("kill")
  /\ killing' = killing \union ({Head(inbox).sid} \intersect registered)
  /\ inbox' = Tail(inbox)
  /\ UNCHANGED <<pending, due, timer, script, windows, phone, answers>>
  /\ DispatcherKeeps

Dispatcher == LaunchSession \/ ScriptSucceeds \/ ScriptFails \/ KillSession

------------------------------------------------------------------------------
(* The deadline of a launch, read when it was queued, and its timeout task. *)

\* Time passes: deadlines of one launcher's launches pass in their order.
DeadlinePasses(r) ==
  /\ timer[r] = "sleeping" /\ r \notin due
  /\ \A l \in Launchers : \A i \in DOMAIN pending[l] :
       pending[l][i] = r => Oldest(l, i)
  /\ due' = due \union {r}
  /\ UNCHANGED <<pending, timer, inbox, script, windows, killing, phone, answers>>
  /\ DispatcherKeeps

\* Mutant: the timeout removes the launch and says nothing.
TimerFiresSilently(r) ==
  /\ timer[r] = "sleeping" /\ r \in due
  /\ timer' = [timer EXCEPT ![r] = "done"]
  /\ pending' = [l \in Launchers |-> Without(pending[l], r)]
  /\ UNCHANGED <<due, inbox, script, windows, killing, phone, answers>>
  /\ DispatcherKeeps

\* After its 30 seconds the task rejects a launch that is still pending.
TimerFires(r) ==
  /\ timer[r] = "sleeping" /\ r \in due
  /\ timer' = [timer EXCEPT ![r] = "done"]
  /\ IF \E l \in Launchers : Contains(pending[l], r)
     THEN /\ pending' = [l \in Launchers |-> Without(pending[l], r)]
          /\ Reject(r)
     ELSE UNCHANGED <<pending, answers, phone>>
  /\ UNCHANGED <<due, inbox, script, windows, killing>> /\ DispatcherKeeps

------------------------------------------------------------------------------
(* The phone: its user, and its process.                                    *)

PhoneKeeps ==
  UNCHANGED <<connVars, forwarder, registered, events, adding, pending, due,
              timer, script, windows, told, answers>>

Ask(request) == phone.up /\ inbox' = Append(inbox, request)

\* A fresh req_id, noted as running before the request is sent.
Launch(r, l) ==
  /\ timer[r] = "none" /\ answers[r] = <<>>
  /\ \A i \in DOMAIN inbox : inbox[i].req # r
  /\ Ask([kind |-> "launch", req |-> r, launcher |-> l, sid |-> NoConn])
  /\ phone' = [phone EXCEPT !.launches[r] = [NoLaunch EXCEPT !.status = "running"]]
  /\ UNCHANGED restarts /\ PhoneKeeps

\* One kill of each session is enough to model.
Kill(p) ==
  /\ p \in (phone.sessions \intersect Busy) \ killing
  /\ \A i \in DOMAIN inbox : inbox[i].sid # p
  /\ Ask([kind |-> "kill", req |-> NoReq, launcher |-> Unknown, sid |-> p])
  /\ UNCHANGED <<phone, restarts>> /\ PhoneKeeps

\* A settled launch is pruned after 10 s, or cleared by its alert.
PruneLaunch(r) ==
  /\ phone.up /\ phone.launches[r].status \in {"succeeded", "rejected"}
  /\ phone' = [phone EXCEPT !.launches[r] = NoLaunch]
  /\ UNCHANGED <<inbox, restarts>> /\ PhoneKeeps

\* The phone's process is killed; it starts again with nothing and reconnects.
PhoneDies ==
  /\ phone.up /\ restarts < MaxRestarts
  /\ restarts' = restarts + 1
  /\ phone' = [FreshPhone EXCEPT !.up = FALSE]
  /\ UNCHANGED inbox /\ PhoneKeeps

PhoneReconnects ==
  /\ ~phone.up
  /\ phone' = FreshPhone
  /\ UNCHANGED <<inbox, restarts>> /\ PhoneKeeps

Phone ==
  \/ \E r \in Requests, l \in Launchers \union {Unknown} : Launch(r, l)
  \/ \E p \in Conns : Kill(p)
  \/ \E r \in Requests : PruneLaunch(r)
  \/ PhoneDies \/ PhoneReconnects

------------------------------------------------------------------------------
Next ==
  \/ \E p \in Conns : Producer(p) \/ Handler(p) \/ Forwarder(p)
  \/ EventLoop \/ Dispatcher \/ TerminalOpens
  \/ \E r \in Requests : DeadlinePasses(r) \/ TimerFires(r)
  \/ Phone

Spec == Init /\ [][Next]_vars

\* Every task of the runtime that can go on does, time passes, and osascript
\* returns.  Producers, Terminal and the phone owe nothing.
Fairness ==
  /\ \A p \in Conns : WF_vars(Handler(p)) /\ WF_vars(Forwarder(p))
  /\ WF_vars(EventLoop) /\ WF_vars(Dispatcher)
  /\ \A r \in Requests : WF_vars(DeadlinePasses(r)) /\ WF_vars(TimerFires(r))

FairSpec == Spec /\ Fairness

------------------------------------------------------------------------------
(* Properties.                                                              *)

Words == {"added", "screen", "exited", "removed"}
Commands ==
  [kind : {"launch"}, req : Requests, launcher : Launchers \union {Unknown},
   sid : {NoConn}]
  \union [kind : {"kill"}, req : {NoReq}, launcher : {Unknown}, sid : Conns]

\* Every variable has its type.
TypeOK ==
  /\ conn \in [Conns -> Phases]
  /\ source \in [Conns -> Launchers \union {Manual}]
  /\ alive \subseteq Conns /\ killing \subseteq Conns /\ registered \subseteq Conns
  /\ frames \in [Conns -> Seq({"screen", "exit"})]
  /\ forwarder \in [Conns -> {"none", "running", "exited", "closed", "done"}]
  /\ events \in Seq([kind : {"Connected", "Disconnected"}, sid : Conns])
  /\ adding \in Conns \union {NoConn}
  /\ pending \in [Launchers -> Seq(Requests)]
  /\ due \subseteq Requests
  /\ timer \in [Requests -> {"none", "sleeping", "done"}]
  /\ inbox \in Seq(Commands)
  /\ script \in [req : Requests \union {NoReq},
                 launcher : Launchers \union {Unknown}, opened : BOOLEAN]
  /\ (~Idle => script.launcher \in Launchers)
  /\ windows \in [Launchers -> Nat]
  /\ phone \in [up : BOOLEAN, sessions : SUBSET Conns,
                launches : [Requests ->
                  [status : {"none", "running", "succeeded", "rejected"},
                   sid : Conns \union {NoConn}]]]
  /\ restarts \in Nat
  /\ told \in [Conns -> Seq(Words)]
  /\ answers \in [Requests -> Seq([word : {"succeeded", "rejected"},
                                   sid : Conns \union {NoConn}])]

\* A slot of the registry is held only by a session whose handler has still to
\* free it, and there are never more than the limit: no slot leaks, whatever the
\* handler, the frame task and the event loop do in what order.
SlotsAreOwned ==
  /\ Cardinality(registered) <= MAX_SESSIONS
  /\ \A p \in registered : conn[p] \in {"welcome", "announce", "reading", "cleanup"}

\* A launch is acknowledged at most once and never after it was rejected: the
\* match, the timer and a failing osascript all take it out of the same list.
AckIsFirst ==
  \A r \in Requests : \A i \in DOMAIN answers[r] :
    answers[r][i].word = "succeeded" => i = 1

\* An acknowledged launch names a session the phone is told of next, or was, and
\* no other launch names it: one producer answers one launch.
AckNamesOneSession ==
  \A r \in Requests : \A i \in DOMAIN answers[r] :
    LET p == answers[r][i].sid IN
      answers[r][i].word = "succeeded" =>
        /\ p = adding \/ told[p] # <<>>
        /\ \A q \in Requests \ {r} : \A j \in DOMAIN answers[q] : answers[q][j].sid # p

\* No launch is acknowledged twice, after a reject, or with the session of another.
AnswersAreRight == AckIsFirst /\ AckNamesOneSession

\* No task of the Mac has anything to do for session p.
Settled(p) ==
  /\ adding # p /\ \A i \in DOMAIN events : events[i].sid # p
  /\ conn[p] \in {"free", "reading", "closed"}
  /\ conn[p] = "reading" => p \in alive
  /\ \/ forwarder[p] \in {"none", "done"}
     \/ conn[p] # "closed" /\ frames[p] = <<>>

\* Once the Mac's tasks have done their work for a session, a phone that is
\* connected lists it exactly if it is registered.
PhoneAgrees ==
  phone.up => \A p \in Conns :
                Settled(p) => (p \in phone.sessions <=> p \in registered)

\* What is said about each session is what SessionLifecycle allows: announced
\* once, then screens, then one removal, from whichever task it comes.
Lifecycle == INSTANCE SessionLifecycle WITH Sids <- Conns
SaidInOrder == Lifecycle!Spec

\* A producer that ends, in any way and at any moment, loses its slot and, if the
\* phone was told of its session, the phone is told of its end.
EndIsAnnounced ==
  \A p \in Conns :
    conn[p] # "free" /\ p \notin alive
      ~> [](p \notin registered /\ (told[p] = <<>> \/ Last(told[p]) = "removed"))

\* Every launch the phone asks for is answered, by the producer it started, its
\* timer, a failed osascript, or at once if its launcher is unknown.
LaunchIsAnswered ==
  \A r \in Requests :
    (\E i \in DOMAIN inbox : inbox[i].req = r) ~> answers[r] # <<>>
===========================================================================
