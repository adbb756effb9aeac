---------------------------- MODULE TermStream ----------------------------
(***************************************************************************)
(* The terminal of one session, streamed from `macagent run` to the phone: *)
(* snapshots, deltas against the last state sent, and history lines, over  *)
(* a first in first out path whose last hop may lose messages while the    *)
(* phone is away.  A line of the screen is a member of a small set, and a  *)
(* line of the history is its number in the order lines scrolled out.      *)
(***************************************************************************)
EXTENDS Naturals, SequencesExt

CONSTANTS
  Texts,              \* what a line of the screen may show
  Blank,              \* an empty line
  MaxRows,            \* bound: the rows a resize may ask for
  MAX_HISTORY_LINES,  \* the lines either side keeps
  MaxLines,           \* bound: the history lines the program writes
  MaxInFlight,        \* bound: messages on their way to the phone
  MaxAsked,           \* bound: requests on their way to the producer
  MaxDrops            \* bound: how often the link is lost

ASSUME ConstantsAssumption ==
  /\ Blank \in Texts
  /\ MaxRows \in Nat \ {0} /\ MAX_HISTORY_LINES \in Nat \ {0}
  /\ MaxLines \in Nat /\ MaxInFlight \in Nat /\ MaxAsked \in Nat /\ MaxDrops \in Nat

VARIABLES
  running,    \* the producer's loop runs
  screen,     \* the terminal's visible lines
  history,    \* its history
  written,    \* how many history lines it ever had
  last,       \* last_snapshot, or NoScreen
  streaming,  \* the producer streams
  wire,       \* messages from the producer to the phone
  inbox,      \* messages from the phone to the producer
  link,       \* the phone is connected
  drops,      \* how often it was not
  phone       \* the phone's TermSessionState, if it has one

vars == <<running, screen, history, written, last, streaming, wire, inbox,
          link, drops, phone>>

producerVars == <<running, screen, history, written, last, streaming>>

NoScreen == <<>>

Screens == UNION {[1..n -> Texts] : n \in 1..MaxRows}

NoState == [known |-> FALSE, lines |-> NoScreen, history |-> <<>>,
            missing |-> {"screen", "history"}]

Init ==
  /\ running = TRUE
  /\ screen = [i \in 1..MaxRows |-> Blank]
  /\ history = <<>> /\ written = 0
  /\ last = NoScreen /\ streaming = FALSE
  /\ wire = <<>> /\ inbox = <<>>
  /\ link = TRUE /\ drops = 0
  /\ phone = NoState

------------------------------------------------------------------------------
(* Screens, their differences, and the messages.                            *)

\* Mutant: nothing is dropped.
AllLines(lines) == lines

\* The newest lines of a history that keeps MAX_HISTORY_LINES.
Newest(lines) ==
  SubSeq(lines, Max({1, Len(lines) - MAX_HISTORY_LINES + 1}), Len(lines))

\* Mutant: lines that the last snapshot lacks are not compared.
DiffOfCommonLines(prev, next) ==
  [i \in {j \in DOMAIN next \intersect DOMAIN prev : next[j] # prev[j]} |-> next[i]]

\* diff_snapshots: the lines that changed or that the last snapshot lacks.
Diff(prev, next) ==
  [i \in {j \in DOMAIN next : j \notin DOMAIN prev \/ next[j] # prev[j]} |-> next[i]]

\* The phone's termDelta: changed lines are written, gaps filled with empty
\* lines, and lines beyond the new number of rows cut.
Patch(lines, changes, rows) ==
  [i \in 1..Min({rows, Max({Len(lines)} \union DOMAIN changes)}) |->
     IF i \in DOMAIN changes THEN changes[i]
     ELSE IF i \in DOMAIN lines THEN lines[i] ELSE Blank]

Snapshot(lines) == [kind |-> "snapshot", lines |-> lines]
Delta(prev, next) == [kind |-> "delta", lines |-> Diff(prev, next), rows |-> Len(next)]
HistorySnapshot(lines) == [kind |-> "history", lines |-> lines]
HistoryAppend(lines) == [kind |-> "append", lines |-> lines]

------------------------------------------------------------------------------
(* The phone.  Its state keeps, for the properties, which parts of the      *)
(* stream it missed since it last got them whole.                           *)

Part(m) == IF m.kind \in {"snapshot", "delta"} THEN "screen" ELSE "history"

Missed(st, m) == [st EXCEPT !.missing = @ \union {Part(m)}]

\* Mutant: a snapshot counts only for a phone without a state.
ApplySnapshotOnce(st, m) ==
  IF st.known THEN st
  ELSE [st EXCEPT !.known = TRUE, !.lines = m.lines, !.missing = @ \ {"screen"}]

ApplySnapshot(st, m) ==
  [st EXCEPT !.known = TRUE, !.lines = m.lines, !.missing = @ \ {"screen"}]

\* Mutant: a history snapshot is appended.
ApplyHistoryAgain(st, m) ==
  [st EXCEPT !.history = Newest(@ \o m.lines), !.missing = @ \ {"history"}]

ApplyHistory(st, m) ==
  [st EXCEPT !.history = m.lines, !.missing = @ \ {"history"}]

\* What the phone does with a message; without a state only a snapshot counts.
Apply(st, m) ==
  CASE m.kind = "snapshot" -> ApplySnapshot(st, m)
    [] m.kind # "snapshot" /\ ~st.known -> Missed(st, m)
    [] m.kind = "delta" /\ st.known ->
         [st EXCEPT !.lines = Patch(@, m.lines, m.rows)]
    [] m.kind = "history" /\ st.known -> ApplyHistory(st, m)
    [] m.kind = "append" /\ st.known -> [st EXCEPT !.history = Newest(@ \o m.lines)]

\* The next message arrives, or is lost while the link is down.
Deliver ==
  /\ wire # <<>>
  /\ phone' = IF link THEN Apply(phone, Head(wire)) ELSE Missed(phone, Head(wire))
  /\ wire' = Tail(wire)
  /\ UNCHANGED <<producerVars, inbox, link, drops>>

\* Attach, detach, resize and kill; what is sent while the link is down is lost.
Ask(command, rows) ==
  /\ Len(inbox) < MaxAsked /\ link
  /\ inbox' = Append(inbox, [kind |-> command, rows |-> rows])
  /\ UNCHANGED <<producerVars, wire, link, drops, phone>>

User ==
  \/ \E command \in {"attach", "detach", "kill"} : Ask(command, 0)
  \/ \E rows \in 1..MaxRows : Ask("resize", rows)

LinkDrops ==
  /\ link /\ drops < MaxDrops
  /\ link' = FALSE /\ drops' = drops + 1
  /\ UNCHANGED <<producerVars, wire, inbox, phone>>

\* onGlueConnected: every session in the phone's list is attached again.
LinkReturns ==
  /\ ~link
  /\ link' = TRUE
  /\ inbox' = Append(inbox, [kind |-> "attach", rows |-> 0])
  /\ UNCHANGED <<producerVars, wire, drops, phone>>

------------------------------------------------------------------------------
(* The producer's loop.  Each branch of its select! is an action.           *)

PhoneKeeps == UNCHANGED <<link, drops, phone>>

HasSpace == Len(wire) < MaxInFlight

\* PTY output: the screen changes, and lines enter the history; they are sent
\* if the producer streams.
Feed(next, count) ==
  /\ running /\ HasSpace /\ Len(next) = Len(screen)
  /\ written + count <= MaxLines
  /\ LET lines == [i \in 1..count |-> written + i] IN
       /\ history' = Newest(history \o lines)
       /\ wire' = IF streaming /\ count > 0 THEN Append(wire, HistoryAppend(lines))
                  ELSE wire
  /\ screen' = next /\ written' = written + count
  /\ UNCHANGED <<running, last, streaming, inbox>> /\ PhoneKeeps

\* push_delta: no delta without a last snapshot to compare with.
Deltas == IF last # NoScreen /\ last # screen THEN <<Delta(last, screen)>> ELSE <<>>

DeltaTick ==
  /\ running /\ streaming /\ HasSpace
  /\ wire' = wire \o Deltas
  /\ last' = screen
  /\ UNCHANGED <<running, screen, history, written, streaming, inbox>>
  /\ PhoneKeeps

\* push_snapshot, every five seconds.
KeyframeTick ==
  /\ running /\ streaming /\ HasSpace
  /\ wire' = Append(wire, Snapshot(screen))
  /\ last' = screen
  /\ UNCHANGED <<running, screen, history, written, streaming, inbox>>
  /\ PhoneKeeps

Receives(kind) == running /\ HasSpace /\ inbox # <<>> /\ Head(inbox).kind = kind

\* AttachStart: the history if there is one, then the screen.
AttachStart ==
  /\ Receives("attach")
  /\ streaming' = TRUE
  /\ wire' = wire \o (IF history = <<>> THEN <<>> ELSE <<HistorySnapshot(history)>>)
                  \o <<Snapshot(screen)>>
  /\ last' = screen
  /\ inbox' = Tail(inbox)
  /\ UNCHANGED <<running, screen, history, written>> /\ PhoneKeeps

AttachStop ==
  /\ Receives("detach")
  /\ streaming' = FALSE
  /\ inbox' = Tail(inbox)
  /\ UNCHANGED <<running, screen, history, written, last, wire>> /\ PhoneKeeps

\* Resize: the emulator reflows to the new number of rows.
Resize(next) ==
  /\ Receives("resize") /\ Len(next) = Head(inbox).rows
  /\ screen' = next
  /\ inbox' = Tail(inbox)
  /\ UNCHANGED <<running, history, written, last, streaming, wire>> /\ PhoneKeeps

\* KillRequest: a last delta and a last snapshot, streaming or not.
KillRequest ==
  /\ Receives("kill")
  /\ wire' = wire \o Deltas \o <<Snapshot(screen)>>
  /\ last' = screen
  /\ running' = FALSE
  /\ inbox' = Tail(inbox)
  /\ UNCHANGED <<screen, history, written, streaming>> /\ PhoneKeeps

ChildExits ==
  /\ running
  /\ running' = FALSE
  /\ UNCHANGED <<screen, history, written, last, streaming, wire, inbox>>
  /\ PhoneKeeps

Commands == AttachStart \/ AttachStop \/ KillRequest
            \/ \E next \in Screens : Resize(next)

Next ==
  \/ \E next \in Screens, count \in 0..2 : Feed(next, count)
  \/ DeltaTick \/ KeyframeTick \/ Commands \/ ChildExits
  \/ Deliver \/ User \/ LinkDrops \/ LinkReturns

Spec == Init /\ [][Next]_vars

\* The select! of the producer serves every branch, and the path delivers what is on
\* it.  Nothing makes a lost link return: RtcGlue.run gives up when its loop ends.
Fairness ==
  /\ WF_vars(DeltaTick) /\ WF_vars(KeyframeTick) /\ WF_vars(Commands)
  /\ WF_vars(Deliver)

FairSpec == Spec /\ Fairness

------------------------------------------------------------------------------
(* Properties.                                                              *)

\* Every variable has its type.
TypeOK ==
  /\ running \in BOOLEAN /\ streaming \in BOOLEAN /\ link \in BOOLEAN
  /\ screen \in Screens /\ last \in Screens \union {NoScreen}
  /\ history \in Seq(1..MaxLines) /\ Len(history) <= MAX_HISTORY_LINES
  /\ written \in 0..MaxLines /\ drops \in 0..MaxDrops
  /\ phone.known \in BOOLEAN
  /\ phone.lines \in Screens \union {NoScreen}
  /\ phone.history \in Seq(1..MaxLines) /\ Len(phone.history) <= MAX_HISTORY_LINES
  /\ phone.missing \subseteq {"screen", "history"}

\* What a phone makes of some messages, one after the other.
Replayed(st, messages) ==
  LET after[i \in 0..Len(messages)] ==
        IF i = 0 THEN st ELSE Apply(after[i - 1], messages[i])
  IN after[Len(messages)]

\* What the phone will show once what is on its way has arrived.
Replay == Replayed(phone, wire)

\* A phone that missed no message since a snapshot will show exactly the last
\* state the producer compares with, so every delta applies to what it was
\* computed against: across resizes, detaches, keyframes, kills and lost links.
DeltasFit == "screen" \notin Replay.missing => Replay.lines = last

\* A phone that missed nothing of the history since it got it whole will hold the
\* history of a streaming producer, both cut to their limit.
HistoryFits ==
  streaming /\ "history" \notin Replay.missing => Replay.history = history

\* A phone that stays connected to a streaming producer ends up showing its screen
\* when the program falls silent, whatever was lost before.
ScreenConverges ==
  <>[](link /\ streaming /\ running) /\ <>[][FALSE]_screen
    => <>[](phone.lines = screen)
===========================================================================
