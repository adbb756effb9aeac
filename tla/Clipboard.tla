----------------------------- MODULE Clipboard -----------------------------
(***************************************************************************)
(* The two clipboards: the bridge of the Mac (clipboard_bridge.rs), the    *)
(* dispatcher that writes what the phone sends (ui.rs, session_router.rs), *)
(* the connection's outbound tasks (rtc_glue.rs), and the phone's store.   *)
(*                                                                         *)
(* A text stands for its hash: different texts are taken to have different *)
(* ones.  Of a text on the pasteboard the model also knows who put it      *)
(* there, which the code does not.                                         *)
(***************************************************************************)
EXTENDS Naturals, Sequences, FiniteSets

CONSTANTS
  Texts,         \* what may be copied
  TooLong,       \* those of them that are longer than MAX_BYTES
  NoText,        \* not a text: an empty pasteboard, a picture, the hash 0
  MaxDeeds,      \* bound: what the users copy on the Mac or send to it
  MaxMishaps     \* bound: failures of pbcopy, connections that end

ASSUME ConstantsAssumption ==
  /\ NoText \notin Texts /\ TooLong \subseteq Texts
  /\ MaxDeeds \in Nat /\ MaxMishaps \in Nat

VARIABLES
  board,       \* the Mac's pasteboard: its text, and who put it there
  lastHash,    \* ClipboardBridge::last_hash
  poller,      \* run_polling: what pbpaste has read
  requests,    \* texts of the phone that wait for the dispatcher
  writing,     \* the text that pbcopy got and write_remote has not remembered yet
  outbound,    \* copies that wait for the outbound task
  link,        \* the data channel of the last connection
  phoneBoard,  \* the phone's pasteboard
  done,        \* how much of each bound is used up
  crossed,     \* history: a poll and the last write overlapped
  given,       \* history: the last text of the phone that was written
  lost         \* history: copies of the Mac that were lost on their way

bridgeVars == <<board, lastHash, poller, crossed, given>>
macVars == <<bridgeVars, writing, requests>>
linkVars == <<outbound, link, lost>>
vars == <<macVars, linkVars, phoneBoard, done>>

Nobody == [text |-> NoText, by |-> "mac"]
Polling == [at |-> "tick", text |-> NoText, by |-> "mac"]

\* last_hash is 0 whatever is on the pasteboard when the agent starts.
Init ==
  /\ board = Nobody
  /\ lastHash = NoText /\ poller = Polling
  /\ writing = NoText /\ requests = <<>> /\ outbound = <<>>
  /\ link = [at |-> "none", stale |-> 0]
  /\ phoneBoard = NoText
  /\ done = [deeds |-> 0, mishaps |-> 0]
  /\ crossed = FALSE /\ given = NoText /\ lost = {}

Counts(what) == done' = [done EXCEPT ![what] = @ + 1]

------------------------------------------------------------------------------
(* The pasteboard.                                                          *)

Puts(text, by) == board' = [text |-> text, by |-> by]

\* The Mac's user copies a text, or something that is none.
MacCopies(text) ==
  /\ done.deeds < MaxDeeds /\ Counts("deeds")
  /\ Puts(text, "mac")
  /\ UNCHANGED <<lastHash, poller, crossed, given, writing, requests, linkVars, phoneBoard>>

------------------------------------------------------------------------------
(* run_polling, every half second: pbpaste, then the hash.                  *)

PollerKeeps == UNCHANGED <<board, given, writing, requests, link, lost, phoneBoard, done>>

\* The output of pbpaste; an empty one ends the poll and is not remembered.
ReadPasteboard ==
  /\ poller.at = "tick" /\ board.text # NoText
  /\ poller' = [at |-> "read", text |-> board.text, by |-> board.by]
  /\ crossed' = (crossed \/ writing # NoText)
  /\ UNCHANGED <<lastHash, outbound>> /\ PollerKeeps

\* Mutant: the hash is compared and not remembered.
CompareHash ==
  /\ poller.at = "read"
  /\ outbound' = IF poller.text # lastHash /\ poller.text \notin TooLong
                 THEN Append(outbound, poller.text) ELSE outbound
  /\ poller' = Polling
  /\ UNCHANGED <<lastHash, crossed>> /\ PollerKeeps

\* Mutant: the length is not looked at.
SendAnyLength ==
  /\ poller.at = "read"
  /\ lastHash' = poller.text
  /\ outbound' = IF poller.text # lastHash THEN Append(outbound, poller.text) ELSE outbound
  /\ poller' = Polling
  /\ UNCHANGED crossed /\ PollerKeeps

\* last_hash.swap: a text that differs from the remembered one is sent, if it is
\* not too long; it is remembered either way.
SwapHash ==
  /\ poller.at = "read"
  /\ lastHash' = poller.text
  /\ outbound' = IF poller.text # lastHash /\ poller.text \notin TooLong
                 THEN Append(outbound, poller.text) ELSE outbound
  /\ poller' = Polling
  /\ UNCHANGED crossed /\ PollerKeeps

------------------------------------------------------------------------------
(* The dispatcher, one request at a time.  A text may wait as long as the   *)
(* handlers of the requests before it take: no step is said to be soon.     *)

Takes(text) ==
  /\ writing = NoText /\ requests # <<>> /\ Head(requests) = text
  /\ requests' = Tail(requests)

DispatcherKeeps == UNCHANGED <<poller, linkVars, phoneBoard>>

\* write_remote up to the end of pbcopy.
WriteRemote(text) ==
  /\ Takes(text) /\ Puts(text, "phone")
  /\ writing' = text /\ given' = text
  /\ crossed' = (poller.at = "read")
  /\ UNCHANGED <<lastHash, done>> /\ DispatcherKeeps

Fails == done.mishaps < MaxMishaps /\ Counts("mishaps") /\ UNCHANGED board

\* Mutant: the hash is remembered all the same.
FailsRemembered(text) ==
  /\ Takes(text) /\ Fails
  /\ lastHash' = text
  /\ UNCHANGED <<crossed, given, writing>> /\ DispatcherKeeps

\* pbcopy cannot be run: last_hash is left alone.
WriteFails(text) ==
  /\ Takes(text) /\ Fails
  /\ UNCHANGED <<lastHash, crossed, given, writing>> /\ DispatcherKeeps

\* pbcopy runs and fails: its status is not looked at (clipboard_bridge.rs:90).
WriteUnchecked(text) ==
  /\ Takes(text) /\ Fails
  /\ writing' = text /\ given' = text /\ crossed' = TRUE
  /\ UNCHANGED lastHash /\ DispatcherKeeps

StoreKeeps == UNCHANGED <<board, crossed, given, requests, done>> /\ DispatcherKeeps

\* Mutant: nothing is remembered.
StoreNothing ==
  /\ writing # NoText /\ writing' = NoText
  /\ UNCHANGED lastHash /\ StoreKeeps

\* The rest of write_remote: the hash of the text is remembered.
StoreHash ==
  /\ writing # NoText /\ writing' = NoText
  /\ lastHash' = writing
  /\ StoreKeeps

------------------------------------------------------------------------------
(* The connection.  Each connection has an outbound task that is never      *)
(* stopped; all take from the one channel of the agent, and a task of an    *)
(* earlier connection loses what it takes, as does one whose data channel   *)
(* is not open yet.                                                         *)

LinkKeeps == UNCHANGED macVars

\* The Connect button, for a first connection and when the last one is gone.
Connect ==
  /\ link.at \in {"none", "closed"}
  /\ link' = [at |-> "new", stale |-> link.stale + (IF link.at = "none" THEN 0 ELSE 1)]
  /\ UNCHANGED <<outbound, lost, phoneBoard, done>> /\ LinkKeeps

Opens ==
  /\ link.at = "new"
  /\ link' = [link EXCEPT !.at = "open"]
  /\ UNCHANGED <<outbound, lost, phoneBoard, done>> /\ LinkKeeps

\* The data channel ends, before or after it opened.
Closes ==
  /\ link.at \in {"new", "open"}
  /\ done.mishaps < MaxMishaps /\ Counts("mishaps")
  /\ link' = [link EXCEPT !.at = "closed"]
  /\ UNCHANGED <<outbound, lost, phoneBoard>> /\ LinkKeeps

\* handleRemote: the text becomes the phone's pasteboard.
HandleRemote(text) == phoneBoard' = text /\ lost' = lost \ {text}

\* The outbound task of the open connection sends a copy.
Carry ==
  /\ outbound # <<>> /\ link.at = "open"
  /\ outbound' = Tail(outbound)
  /\ HandleRemote(Head(outbound))
  /\ UNCHANGED <<link, done>> /\ LinkKeeps

\* An outbound task takes a copy that its own data channel does not carry.
Lose ==
  /\ outbound # <<>> /\ link.at # "none"
  /\ link.at # "open" \/ link.stale > 0
  /\ outbound' = Tail(outbound)
  /\ lost' = lost \union {Head(outbound)}
  /\ UNCHANGED <<link, phoneBoard, done>> /\ LinkKeeps

------------------------------------------------------------------------------
(* The phone's user.                                                        *)

\* ClipboardStore.sendToMac, and the first half of InputClient.submitText.  What is
\* sent while the channel is not open is lost.
SendToMac(text) ==
  /\ link.at = "open"
  /\ done.deeds < MaxDeeds /\ Counts("deeds")
  /\ requests' = Append(requests, text)
  /\ UNCHANGED <<bridgeVars, writing, linkVars, phoneBoard>>

------------------------------------------------------------------------------
Poll == ReadPasteboard \/ SwapHash

Dispatch ==
  \/ \E text \in Texts : WriteRemote(text) \/ WriteFails(text) \/ WriteUnchecked(text)
  \/ StoreHash

Next ==
  \/ \E text \in Texts \union {NoText} : MacCopies(text)
  \/ Poll \/ Dispatch
  \/ Connect \/ Opens \/ Closes \/ Carry \/ Lose
  \/ \E text \in Texts : SendToMac(text)

Spec == Init /\ [][Next]_vars

\* The poller's timer ticks, the dispatcher's handlers return, and the outbound tasks
\* run.  Nobody owes a copy, a connection or a request.
Fairness == WF_vars(Poll) /\ WF_vars(Dispatch) /\ WF_vars(Carry \/ Lose)

FairSpec == Spec /\ Fairness

------------------------------------------------------------------------------
(* Properties.                                                              *)

\* Every variable has its type.
TypeOK ==
  /\ board \in [text : Texts \union {NoText}, by : {"mac", "phone"}]
  /\ lastHash \in Texts \union {NoText}
  /\ poller \in [at : {"tick", "read"}, text : Texts \union {NoText}, by : {"mac", "phone"}]
  /\ (poller.at = "read" <=> poller.text # NoText)
  /\ writing \in Texts \union {NoText}
  /\ requests \in Seq(Texts) /\ outbound \in Seq(Texts \ TooLong)
  /\ link \in [at : {"none", "new", "open", "closed"}, stale : 0..MaxMishaps]
  /\ phoneBoard \in (Texts \ TooLong) \union {NoText}
  /\ done \in [deeds : 0..MaxDeeds, mishaps : 0..MaxMishaps]
  /\ crossed \in BOOLEAN /\ given \in Texts \union {NoText} /\ lost \subseteq Texts

\* A text that the phone put on the pasteboard is sent back to it only if a poll
\* and the write overlapped, or pbcopy failed and nobody looked ("so the next poll
\* tick doesn't bounce the just-written content back", clipboard_bridge.rs:45).
EchoNeedsRace ==
  [][Len(outbound') > Len(outbound) /\ poller.by = "phone" => crossed]_vars

\* Nothing is about to change: no poll, no write, no message under way, and the
\* next poll will find nothing new.
Quiet ==
  /\ poller = Polling /\ writing = NoText /\ requests = <<>> /\ outbound = <<>>
  /\ lastHash = board.text

\* No copy is forgotten: when things are quiet, the text on the Mac's pasteboard is
\* the last that the phone got or gave, or too long, or it was lost on its way: after
\* any overlap of polls, writes that fail and copies by both users.
CopyIsKnown ==
  Quiet /\ board.text \notin TooLong \union lost \union {NoText}
    => board.text \in {phoneBoard, given}

\* An echo is not answered: after what the users do, the bridge falls silent.
EchoesEnd == <>[][Len(outbound') <= Len(outbound)]_vars
===========================================================================
