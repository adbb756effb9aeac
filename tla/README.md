# A TLA+ model of MacAgent

MacAgent lets a phone watch and drive a Mac: terminal sessions, single windows
streamed as video, the clipboard, and notifications.  Three programs take part:
the agent on the Mac (Rust, `src/mac-agent`), the app on the phone (Swift,
`src/ios-app`), and a Cloudflare worker (TypeScript, `src/worker`) that pairs
the two and carries the signaling of their WebRTC connection.  This directory
holds TLA+ modules of the parts whose correctness depends on the order of events,
the TLC configurations that check them on small instances, and proofs for
TLAPS.  `PROJECT.json` lists components, runs, mutants, theorems, hazards and,
for every definition that models code, the lines it models.

Paths below are shortened: A = `src/mac-agent/crates/macagent-app/src/`,
C = `src/mac-agent/crates/macagent-core/src/`, I = `src/ios-app/MacIOSWorkspace/`,
W = `src/worker/src/`.

    tlc -workers 2 -config MCSessions.cfg MCSessions     # one run
    tlapm SupervisionProofs.tla                          # the proofs of one module

## 1. The system

    phone app  <--- signaling frames --->  worker (room, pairs, tokens)  <---> agent
        |                                                                        |
        +------------------ WebRTC data channels and video ----------------------+
                                                                                 |
                                    `macagent run` producers <-- Unix socket --> +

### Components, their state, operations and hard behaviours

| component | state | operations | what is hard | what makes it correct |
|---|---|---|---|---|
| Supervision router, A`supervision_router.rs` | registry of supervised windows, `active_sup`, the used ids | supervise (existing, launch), switch, remove, viewport change, list | `set_active` drops its lock between six sections; a stream that ends by itself runs a removal in a task of its own | one Active entry, its stream in the slot; removed is removed; the limit; the phone's list |
| Capture stream slot, A`gui_capture/` | the single stream, its one-shot end report | start, stop, did_stop_with_error | a report races the stop that made it void | the end is reported once, after the registry was cleaned |
| Window fitter, A`window_fitter.rs` | a window's frame | fit, restore | fits stack, windows vanish | the user's frame comes back |
| Session router and event loop, A`session_router.rs`, A`ui.rs` | pending launches, timers, frame tasks | launch, kill, attach, producer events | three tasks see a session's end; producer, timer and osascript race to answer a launch | one announcement, one removal, in order; every launch answered, acknowledged at most once |
| Agent socket and producer registry, A`agent_socket.rs`, A`producer_registry.rs` | one slot per producer | hello, welcome, frames, end of stream | a producer dies in every phase | no slot leaks |
| Producer, A`run/` | emulator, last snapshot, history | feed, delta tick, keyframe, attach, detach, resize, kill | deltas against a state that other messages move too | the phone's base is the producer's |
| Phone's stores, I`SessionStore.swift`, I`Gui/` | sessions, launches, tiles, screens | messages in, requests out | what was lost while it was away | it agrees with the Mac when things are quiet |
| Pairing, A`ui.rs`, W`pair.ts`, I`PairStore.swift` | keychain entries, tokens, pairs, room events | create, claim, poll, revoke | a store without transactions, writes one by one, cancelled pairings | both ends hold each other's keys; a token is spent once seen |
| WebRTC glue, A`rtc_glue.rs`, C`rtc_peer.rs`, I`RtcGlue.swift` | connection, heartbeat, signaling lock | negotiate, ICE restart, reconnect with backoff | the receive loop holds the signaling lock while it waits; tasks that outlive their connection | an ICE restart gets its offer out; a connection's messages reach it |
| Signaling room, W`signaling.ts` | one socket per device | connect, relay, close | replacement of a socket; revocation | messages go to the current socket |
| Clipboard bridge, A`clipboard_bridge.rs` | the remembered hash | poll, write | the poll between the write and its hash | no echo, no lost copy |
| Notify engine, A`notify_engine.rs`, A`notify/`, A`push_client.rs` | registrations and watchers of an engine, the engine in use | register, complete, watch, feed | shims that give up while the agent goes on, an engine replaced at a pairing while tasks keep the old one | what a shim reports is pushed to the phone it was meant for; what the phone is shown is watched |
| Worker's push and TURN, W`push.ts`, W`turn.ts` | mark of a dead token | request handlers | - | request and answer |
| History and emulator, C`terminal/` | history lines | detect scrolled rows, append | repeated rows | lines enter once |
| Input, views, launcher configuration, codecs | - | sequential | - | - |

### How they interact

The phone's requests arrive on one data channel.  `rtc_glue.rs` gives the
supervision requests to a drainer task that awaits one handler before it takes the
next, and the session requests to a dispatcher that does the same.  The handlers
answer over one channel, first in first out.  Stream-ended callbacks, producers'
handlers, the event loop and the timers are tasks beside them; they share the
supervision registry, the stream slot and the producer registry behind locks that
are held for one section and never across an await.  The worker's handlers share a
key-value store.

## 2. Plan

| step | modules | state |
|---|---|---|
| 1 | `Supervision`, `SupervisionProofs`: the router with the slot, frames and the phone's tiles | done |
| 2 | `SessionLifecycle` (abstract), `Sessions` (implements it): socket, registry, event loop, frame tasks, launches, phone | done |
| 3 | `TermStream`: one session's screen and history from the producer to the phone | done |
| 4 | `Pairing`, `PairingProofs`: window, keychain, worker, phones | done |
| 6 | `SignalingRoom` (one socket per device, replacement, relay) and `Glue` (negotiation, heartbeat, ICE restart), composed: `Glue` sends through `SignalingRoom`; `GlueProofs` | done, for one connection of the Mac |
| 6b | a second connection of the Mac in `Glue`: the outbound task of the first takes the second's messages; the revocation's abort | next |
| 7 | `Clipboard`, `ClipboardProofs`: poll against remote write; no echo, no lost copy | done |
| 5 | `Notify`, `NotifyProofs`: registrations and reports, watchers, the replaced engine | done |
| 8 | `History`, `HistoryProofs`: the tracker's functions against a reference definition, over bounded output; the proof that they agree with it, and on what is missed when rows are dropped | done |
| 9 | `SessionsProofs`: types, SlotsAreOwned, AnswersAreRight, PhoneAgrees, and `Spec => Lifecycle!Spec` | done |
| 10 | `TermStreamProofs`: types, DeltasFit, HistoryFits, by induction over what is on the wire; `PhoneUpToDate` in `SupervisionProofs` | done |

The order follows what a user loses when it goes wrong: first the supervision
registry and the session lifecycle, whose tasks really overlap, then data on its
way, then the pairing, then the connection itself, whose failures are retried.

## 3. Modules and code

### Supervision

One action is one section between two releases of the registry lock, one call into
the capture or window layer, or one message.  The actors are `Drainer`, the drainer
task, and `Callbacks`, a slot for each task that `ui.rs:809` spawns when a stream
ends by itself.  `pc[a]` is where an actor is in its handler, `op[a]` its locals.

| TLA+ | code |
|---|---|
| `entries`, `used`, `activeSup` | `SupervisionRouter::registry`, the id counter, `active_sup` |
| `slot`, `frame` | the stream in `StreamManager`, a window's bounds |
| `shown`, `told` | the phone's tiles; the supervisions whose StreamEnded it got |
| `SuperviseExisting`, `SuperviseLaunch`, `LaunchRegister`, `LaunchReject` | `handle_supervise_existing`, `handle_supervise_launch`, `try_register_armed` |
| `Snapshot`, `Demote`, `Fit`, `StartStream`, `Commit`, `Rollback`, `AckSnapshot`, `SendAck` | the numbered sections of `set_active` |
| `ListSnapshot`, `SendList` | `emit_supervision_list`: the copy and the send |
| `ViewportChanged`, `Refit`, `WriteBack` | `handle_viewport_changed` |
| `RemoveEntry`, `StopStream`, `Restore`, `Removed` | `handle_remove_supervised` with the promotion of the next one |
| `StreamFails`, `CallbackRemove`, `CallbackReport` | `did_stop_with_error`, the stream-ended task |

`Spec` lets the tasks interleave freely.  `SerialSpec` is the behaviours of `Spec`
in which no stream-ended task starts inside another handler: what the code's
comments assume, and where the stronger invariants hold.

### SessionLifecycle and Sessions

`SessionLifecycle` is the promise: for each session one announcement, then screens,
then one removal, possibly with the exit's status before it.  `Sessions` has the tasks that
keep it: `Handler` (the accepted socket), `EventLoop`, `Forwarder` (the frame task
of a session), `Dispatcher` (launches and kills, one at a time; it awaits
osascript), the timers, and the phone with its process.  `told` and `answers` are
history variables: what was sent about a session or a launch.  `told` is also the
refinement mapping's only variable: `SaidInOrder == Lifecycle!Spec`.

A connection's id stands for the uuid its session gets.  Consecutive screens count
as one.  Only producers in `Busy` show screens and are killed.

### TermStream

The producer's `select!` loop is one action per branch; `wire` is the way from the
producer through the agent to the phone, `inbox` the way back.  A line on the
screen is a member of `Texts`; a line of the history is its number in the order
lines scrolled out, so that gaps and doubles show.  `Diff` is `diff_snapshots`,
`Patch` the phone's `termDelta`, `Newest` the limit that both ends apply on their
own.  `phone.missing` is a history variable: the parts of the stream of which the
phone lost a message since it last had them whole.  `Replay` is the phone once it has read
all that is on its way, a recursive function along the wire (`Replayed`).

### Pairing

`state`, `record` and `keychain` are the Mac's `PairState` and its four keychain
entries, written one after the other (`Saved(rec, k)` after `k` writes).  `events`
is the channel of `UiEvent`s, `creating` and `pollers` the tasks that feed it.  The
worker's store is `tokens`, `pairs`, `revoked` and `roomEvent`; its handlers are
records with a step, one action per write, and each may end early at any step
(`ClaimFails`, `RevokeFails`).  `revoked[p]` says whether pair `p` was never marked as revoked, is
marked, or was and the store has dropped the mark after its 90 days (`MarkLapses`, W`kv.ts:47`).
A creation's number stands for its room, token and secret, a phone stands for its key.

### Notify

`shim` and `socket` are one run of `macagent notify`, `handler` its connection task in
the agent, `forwarder` the frame task of a session, `request` the dispatcher's watch
request.  Engines are numbered as they are built; `engine` is the one in
`notify_engine_cell`, and each task has the `engine` it was started with, which is what
a pairing in the meantime makes interesting.  `owner`, in the tasks, is a history
variable: how many pairings there had been when the task was started.  A push is what it
is about and the pair that signs it.  Which lines match is left open (`Feed` takes any
of the session's watchers).

### Clipboard

| TLA+ | code |
|---|---|
| `board`, `lastHash` | the Mac's pasteboard, with who wrote it; `ClipboardBridge::last_hash` |
| `ReadPasteboard`, `SwapHash` | a tick of `run_polling`: `pbpaste`, then `last_hash.swap` |
| `WriteRemote`, `WriteFails`, `WriteUnchecked`, `StoreHash` | `write_remote`: `pbcopy`, then `last_hash.store` |
| `requests`, `writing` | the phone's texts that wait for the dispatcher, however long its other handlers take; the text that `pbcopy` got and `write_remote` has still to remember |
| `outbound`, `link`, `Carry`, `Lose` | the agent's one channel to the phone and the outbound tasks that take from it, one per connection (`stale` counts those of earlier ones) |
| `phoneBoard`, `HandleRemote`, `SendToMac` | the phone's pasteboard; `ClipboardStore.handleRemote` and `sendToMac` |

A text stands for its hash.  History variables: `crossed` (a poll and the last write
overlapped, or `pbcopy` failed unseen), `given` (the phone's last text that was written),
`lost` (copies lost on their way).

### History

The functions of `terminal/history.rs` are operators of the same names on a record
`tracker`, which is `TerminalHistory`; `copy` is what a listener keeps that is told the
returned lines.  The emulator is a library: its part (`Keeps`, `Scroll`, `Clear` and so
on) is external.  A row is its text after trimming and whether it is wrapped.  The
reference definition is `Expected`: `LinesOf` cuts the rows that scrolled out at the ends
of lines, `Squeezed` takes each run of equal lines once.  `since` and `before` are history
variables: the rows since the last break, and the tracker at that break.  A break is a
resize, a visit of the alternate screen, or a clear of the scrollback that is followed by
more rows in the same piece of output.  The loops of `append_rows` and `extend_history`
are the recursive functions `Joined` and `Appended`.

### SignalingRoom and Glue

`SignalingRoom` is the worker's room: `peers` is its map, `server` and `client` the two
ends of a socket, `down` what the room has sent on it and the device has not read.
The room closes a replaced socket at once (`Accept`) and hears of it later
(`CloseListener`).  `Glue` composes it with both ends of the connection and sends through
`Relay`, which looks up the other device's socket at that moment.

| TLA+ | code |
|---|---|
| `main`, `waiters` | where `run_glue` is; the queue of the fair tokio mutex around the signaling client, whose head has it |
| `sig`, `remote`, `offers` | signaling state of the Mac's peer connection, its remote description, the offers it made |
| `heartbeat`, `misses`, `path` | the task of `start_heartbeat` (`age` is that of `last_ack`, in intervals of 10 s), what `miss_rx` holds, whether the data channel gets through |
| `silence`, `missed` | history: the heartbeats since the last acknowledgement, miss or start; the misses signalled |
| `phone[n]` | the phone's glue, or ping, of socket `n`; `pending` counts `pendingCandidateJsons`, `owes` is the Mac's offer it answers |
| `MakeOffer`, `Send`, `SendFails`, `Restart`, `MakeAnswer` | the senders of `run_glue` and its tasks |
| `MacAnswered` ... `MacCloses` | the branches of the receive loop; `Fails` is the way out through `?` |
| `Beat`, `Ack`, `StopHeartbeat` | one tick of `start_heartbeat`, `HeartbeatAck` in `on_message`, the cancel flag |
| `PhoneConnects` ... `PhoneEnds` | `RtcGlue.run` and `PairedView.ping` |

Peer connections are libraries: that a remote offer, or a second local one, is refused
while an offer is out, and a candidate while there is no remote description, is taken
from WebRTC's signaling states.  For the phone, whose library is another one, both
outcomes of an offer that meets an offer are modelled (`PhoneOffered`).

## 4. Runs

### Passing runs

`supervision_overlap` (`MCSupervision.cfg`).  The drainer and one stream-ended task in
every interleaving, two ids.  Types, no report before the registry was cleaned, no
removed supervision back in the registry although `set_active` commits from a copy, and
every stream that ends by itself is reported to the phone.

`supervision_serial` (`MCSupervisionSerial.cfg`).  Three ids, limit 2, without
overlapping handlers.  The limit, which one drainer task checks and fills; one
Active entry at any time; between handlers `active_sup`, the entry and the slot's stream
agree, and the phone's tiles are the registry's.  That the limit survives every overlap
too is `LimitKept` of section 5.

`sessions` (`MCSessions.cfg`).  Two producers compete for one slot, two launches for one
launcher's producers.  No slot leaks, a launch is acknowledged at most once and not
after a reject, one producer answers one launch, and when the Mac's tasks are done
with a session the phone lists it exactly if it is registered (`AnswersAreRight` is the
conjunction of what is said about launches).

`sessions_live` (`MCSessionsLive.cfg`).  One busy session, one launch, one restart of
the phone.  `Sessions` implements `SessionLifecycle`; every end is announced; every
launch is answered.

`term_stream` (`MCTermStream.cfg`).  A lost link, resizes, a history longer than its
limit.  Whatever is on the way, a phone that missed nothing since a snapshot will end
with exactly the state the producer's next delta is computed against, and with the
producer's history.  When the program falls silent, a connected phone ends up showing its screen.

`pairing` (`MCPairing.cfg`).  Two phones, two creations, any two of: a cancelled
creation, a failed write, a restart, a lapsed mark.  `EndsFit`: a paired Mac holds the worker's secret
and key for its pair, and a Mac and a phone with the same pair hold each other's keys.
`ClaimsAreRecorded`: a token is spent before the Mac can see its claim, and a pair that
anyone names is in the store, or was marked as revoked before its record went; the mark
may have lapsed since.

`notify` (`MCNotify.cfg`).  One command, one session with two watchers, two pairings, a
restart of the agent.  `PushesAreMeant`: only reported ends are pushed, never one that
the shim warned about, however late the agent acknowledges it, and a push goes to the
pair of its task's start.  `PhoneKnowsWatchers`: a watcher's hits are told, and what the
phone was shown of a session of the current engine is what its lines are matched against.
`CommandsGoOn`: the command runs whatever the agent does, and what a shim reports reaches
the engine that has the registration.

`glue` (`MCGlue.cfg`).  One connection of the Mac, two sockets of the phone (glues or pings),
two misses, one outage.  The room keeps the newest socket of a device whenever a replaced
one closes; an answer that is on its way to the Mac is the answer to the offer the Mac
has out, although restarts go on without waiting for answers; the phone leaves no
candidate behind; a restart is asked for after 30 s without an acknowledgement (60 s
before the first), again after 30 s at the earliest, and at the tick after that at the
latest (`MissesAreTimely`); and each frame that the receive loop reads brings a waiting
restart's offer nearer to the lock.

`clipboard` (`MCClipboard.cfg`).  Four copies or sent texts, of three texts, one of them too
long, with any two of: a `pbcopy` that fails, a connection that ends.  The phone gets its
own text back only if a poll and the write overlapped or a failure of `pbcopy` went unseen;
when things are quiet no copy is forgotten; echoes die out.

`history` (`MCHistory.cfg`).  Six rows that scroll out, in pieces of up to two, over a
scrollback of four, with clears, resizes and a visit of the alternate screen.  The history
is what scrolled out, although the overlap of two pictures of the scrollback is ambiguous
when rows repeat; what it misses once the emulator drops rows repeats the rows right above
(`OnlyRepeatsMissed`); and from two pictures of the alternate screen with distinct rows the
tracker tells a scroll from a redraw.

### Runs that show a disagreement of text and code

Each of these checks one property that a document or comment of the repository
states and that the code does not keep.

| run | property | what the trace shows |
|---|---|---|
| `supervision_two_active` | `AtMostOneActive` under `Spec` | "Atomic switch" (`supervision_router.rs:393`), always one active: a switch by the drainer overlaps the promotion in a stream-ended task, each demotes the `active_sup` it copied, and both entries are Active |
| `glue_lock` | `RestartLeaves` | "we hold the lock only while sending" (`rtc_glue.rs:382`): the receive loop holds it until the next frame, so the offer of an ICE restart waits for the phone, which is silent because the connection is gone |

### What else the code does

Seen while modelling, and not the subject of a run:

* Every later fit overwrites `original_frame` (A`supervision_router.rs:286`, `:480`), which
  is called the pre-fit frame for restore (A`window_fitter.rs:236`): a window that was
  fitted twice gets the frame of the first fit back when it is removed.
* A promotion that fails inside a removal leaves entries armed and none active
  (A`supervision_router.rs:355`); nothing tries the next one.
* After a pairing, the watchers that the phone adds to a running session go to the new
  engine, while the session's frame task feeds the old one: they are listed and never
  match.  The comment at A`session_router.rs:295` says that no swap is needed.
* The poller of a pairing gives up after 150 polls without telling its window
  (A`ui.rs:556`): a later claim leaves a paired phone and a Mac that does not know.
* Clipboard: a copy that is lost on its way is not sent again, for `last_hash` remembers
  it.  The status of `pbcopy` is not looked at (A`clipboard_bridge.rs:90`).  The outbound
  task of an earlier connection goes on taking copies, and what is taken before the
  channel opens is lost.  "So the next poll tick doesn't bounce the just-written content
  back" (A`clipboard_bridge.rs:45`) holds without an overlap of the poll and the write;
  `EchoNeedsRace` says exactly that, and in an overlap the text does go back once.
* A long text is sent as a clipboard's content and pasted with Cmd+V 50 ms later, "so pbcopy
  lands first" (I`Input/InputClient.swift:45`).  Nothing on the Mac orders the two: the
  dispatcher takes the text (A`ui.rs:201`) and the drainer the key combination
  (A`rtc_glue.rs:187`).  When the dispatcher awaits osascript, `pbcopy` is slow, or both
  messages arrive together, Cmd+V comes first and pastes what was there before.
* Pairing: a cancelled pairing's poller is still alive, and its pair is stored with the next
  creation's secret or with the empty one (A`ui.rs:375`); a deletion of the keychain that
  fails and a write that fails after it leave entries of two pairs that load as one record
  (A`ui.rs:301`).  `EndsFit` leaves both out.
* A revocation whose handler ends between the mark and the deletion (W`pair.ts:97`) leaves a
  pair that is in the store and marked; after 90 days the mark lapses (W`kv.ts:47`) and the
  record is as before.  A phone or a Mac that missed the revocation of a deleted pair holds
  one that is then neither stored nor marked.
* A late producer of a launch that timed out acknowledges the next launch of the same
  launcher (A`session_router.rs:275`): its hello names no request.
* Of two overlapping senders of the supervision list, the older copy may be sent last and
  stay on the phone (A`supervision_router.rs:514`).
* A failed restart of the supervision that is already active leaves its old stream in the slot
  although `active_sup` is empty (A`supervision_router.rs:438`).
* History: a resize while the alternate screen is shown takes that screen's empty scrollback
  for what was seen, so the whole scrollback enters again when it is left
  (C`terminal/history.rs:79`).  An alternate screen whose rows repeat with a period is taken
  for one that scrolled although nothing moved (`:216`), and a line of the normal screen
  that is still open is joined with its rows.  A full scrollback of repeating
  rows hides that a whole repeat scrolled out: after a break, or when one piece of output
  scrolls out many of the rows the emulator keeps.  A piece ends at a line feed (`:134`), so that takes
  a very long line, or one full of scroll commands.  The space at the end of a wrapped row is cut
  off before it is joined with the next (`:190`).  Rows that a shrinking window pushes out
  never enter, rows that a growing one pulls back enter twice.
* After a restart of the phone's process nothing tells it which sessions run:
  no code sends `SessionList`.  `PhoneAgrees` holds in `sessions`, where the process
  is not killed; after a restart, `sessions_live` shows what still holds.
* An attachment sends the history before the first screen (A`run/mod.rs:219`), and the phone
  drops a history of a session it has no screen of (I`SessionStore.swift:107`): after its
  first attachment it has only the lines that scroll out later.
* Both ends of a connection make an offer.  When the phone's own offer, or a candidate, is
  the first that the Mac's receive loop reads, `run_glue` ends through `?`: the
  socket stays, held by the candidate and miss tasks, and so does the heartbeat, since
  the cancel flag is not set.  In `Glue` this is `main = "failed"`.

### Bounds, and why they are enough

| bound | where | why |
|---|---|---|
| `SupIds` 3 and `MaxSupervisions` 2, in the overlap run 2 | Supervision | one active, one armed, one that is refused or registered after a removal; two that are switched while one of them ends.  Ids are never used again, so they fill a run.  The proofs cover any number |
| `Callbacks` 1 | Supervision | two actors are what the races need: every hazard is between one handler and one other.  The proofs cover any number |
| `Windows` 1, `Viewports` 1 or 2 | Supervision | the registry does not look at windows across entries; the viewport has another size than the window |
| `Conns` 2, `MAX_SESSIONS` 1, `Requests` 2, `Launchers` 1 | Sessions | competition for the last slot and for one launcher's list; launchers have separate lists |
| `Busy`, `MaxRestarts` | Sessions | screens and kills in the runs about the order of what is said, one restart: a second starts from the same state |
| `MaxRows` 2, `Texts` 2 | TermStream | growing, shrinking, changed and unchanged lines |
| `MaxLines` 3, `MAX_HISTORY_LINES` 2 | TermStream | the limit is passed by one line, on both sides |
| `MaxInFlight` 1, `MaxAsked` 1, `MaxDrops` 1 | TermStream | a branch may send two messages, so the wire holds up to two, and neither end looks at what is on the way; a command and a change race; a second loss starts from a state the first can leave |
| `MaxRooms` 2, `MaxPairs` 2, `MaxMishaps` 2 | Pairing | a second creation while the first lives, two phones on one code, a half-written record followed by another pairing.  Cancelled creations, failed writes, restarts and a mark that has lapsed share one bound: no property is about all of them at once (`MacCanSign` excuses a Mac that cancelled, `EndsAgree` one whose write failed) |
| `Commands` 1, `Sessions` 1, `Watchers` 2, `MaxPairings` 2, `MaxRestarts` 1, `MaxHits` 1 | Notify | commands, sessions and engines do not look at each other's entries; two watchers share a line and a list; the Mac is paired with a second phone after a first.  A second hit of a watcher differs from the first in its number only |
| `MaxSockets` 2, `MaxMisses` 2, `MaxOutages` 1; in the lock run 1, 1, 1 | Glue | a socket and the one that replaces it; a restart while the first one's offer is out; an outage of the path or of a device's network.  Beats in `silence` are counted to 8, more than any limit |
| `Texts` 3, `TooLong` 1, `MaxDeeds` 4, `MaxMishaps` 2 | Clipboard | the remembered text, the one on the pasteboard and one under way; a poll and a write are two steps each and there is one of either task, so three texts show every overlap |
| `SCROLLBACK` 4, `MAX_HISTORY_LINES` 2, `MaxLineRows` 2, `Letters` 2 | History | the emulator drops rows and the history lines; two letters make every overlap ambiguous.  In the code the history keeps 1000 lines and the emulator 2000 rows; `ConstantsAssumption` asks that the lines kept fit into the rows |
| `AltRows` 4, `AltLetters` 3, `MaxScrolled` 2, `MaxSteps` 6 | History | with the empty row, four distinct rows: the fewest in which a row leaves a region and two remain after it.  Entering the alternate screen counts as `MaxScrolled` + 2 steps, which leaves two for what happens there.  `MaxScrolled` is part of what `HistoryIsTold` says of dropped rows: with 4, a scrollback of 3 and one letter, a piece of an empty line and three equal ones drops the empty line before the tracker looks, and the history differs from `Expected`.  In the code a piece is what ends at a line feed, and 2000 rows are kept |

Symmetry is used for letters, connections, requests and phones in the safety runs, where no
definition orders them; not for supervision ids, of which the smallest is promoted,
and never in a liveness run.  The third letter of the alternate screen is not
in the symmetric set.

`CHECK_DEADLOCK FALSE` is set where the system may stop: producers, launches, creations
and lines are bounded and need not come.  The safety runs of Supervision check for
deadlock: the drainer can always take a request.

### Fairness

`Supervision`: weak fairness of each task's next section.  The runtime polls a spawned
task until it ends, and the calls it makes return; nothing is assumed of the phone,
of windows or of streams.  `Sessions`: weak fairness of every task of the runtime, of time
and of osascript's return; producers, Terminal and the phone owe nothing.
`TermStream`: weak fairness of the tick branches of the `select!`, of its commands,
and of the path.  Nothing makes a lost link return: `RtcGlue.run` gives up when its loop
ends (I`RtcGlue.swift:177`), and `ScreenConverges` speaks of a phone that stays connected.
`Notify`: weak fairness of the shim's steps, whose timeouts fire, and of the tasks the
runtime has; nobody owes that the agent accepts, a command ends, or a phone asks.
`Clipboard`: weak fairness of the poll's timer, of the dispatcher, whose handlers return,
and of the outbound tasks; nobody owes a copy, a request or a connection.
`Glue`, in the lock run: weak fairness of the Mac's tasks and of its timer.  Nothing
makes the phone speak or the network work: that is the point.  Strong fairness is nowhere assumed.

## 5. Proofs

`SupervisionProofs` proves, for every set of ids, windows and viewports, any number
of stream-ended tasks and every limit (assumption `ConstantsAssumption`: the sets and
values are distinct, ids are a finite set of numbers, the limit is a number):

| theorem | statement |
|---|---|
| `TypeCorrect` | `Spec => []TypeOK` |
| `LimitKept` | `Spec => []WithinLimit` |
| `ToldIsRemoved` | `Spec => []ToldOnlyRemoved` |
| `RemovalIsFinal` | `Spec => RemovedForGood` |
| `OneActiveWhenSerial` | `SerialSpec => []AtMostOneActive` |
| `StreamedWhenSerial` | `SerialSpec => []ActiveIsStreamed` |
| `PhoneUpToDateWhenSerial` | `SerialSpec => []PhoneUpToDate` |

`TypeOK` has a part for the locals, `LocalsOK`: in the middle of a handler an actor
knows the supervision and the window it works on.  Without it no section can be
shown to write an entry of the right type.

`OverlapInv` strengthens `ToldOnlyRemoved`: every id in the registry, the slot, the
locals and `told` has been handed out, so a fresh one is none of them; the
supervision an actor is removing, and the one whose end a task reports, are out of the
registry.  With `SetActiveAddsNothing` (no section of `set_active` registers anything)
these facts survive every interleaving, and the end that is told is one of them.

`SerialInv` adds what holds when handlers do not overlap: `OneAtATime`; `ActiveInv`
(an Active entry is `active_sup`'s); `SwitchInv` for an actor inside a switch (the
old one it noted is still `active_sup`, the new entry still exists, and at its commit
its stream is in the slot); and `SlotInv` (outside the sections where the slot runs ahead of the registry, the slot
holds `active_sup`'s stream).  `AtMostOneActive` alone is not inductive: a commit
demotes the noted old supervision, and only `SwitchInv` says that this is the Active one.

Each step is proved action by action; the lemmas `SerialTask` and `SerialQuiet` say
once what a step of one actor must show when the others are outside of handlers.

`PhoneUpToDate` speaks of the states between handlers.  `PhonesInv` adds where inside one
the tiles may still be trusted (`PhoneInv`): while a launch waits and before an end is
reported they are the registry's, the list that is about to be sent is a copy of it, and
in all other sections a list follows.  Every way out of a handler, the errors and the
promotion among them, passes one of the three.

`SessionsProofs` proves, for every set of connections, launchers and launches, every
limit of the registry and any number of restarts (`ConstantsAssumption` of `Sessions`:
the ids that stand for nothing are none of the others, the two bounds are numbers):

| theorem | statement |
|---|---|
| `TypeCorrect` | `Spec => []TypeOK` |
| `NoSlotLeaks` | `Spec => []SlotsAreOwned` |
| `ImplementsLifecycle` | `Spec => SaidInOrder`, that is `Spec => Lifecycle!Spec` |
| `FirstAnswer` | `Spec => []AckIsFirst` |
| `OneSession` | `Spec => []AckNamesOneSession` |
| `RightAnswers` | `Spec => []AnswersAreRight`, the conjunction of the two that `sessions` checks |
| `PhoneListsSessions` | `Spec => [](restarts = 0 => PhoneAgrees)` |
| `ListedIsRegistered` | `Spec => [](\A p \in Conns : Settled(p) /\ p \in phone.sessions => p \in registered)` |

`SlotsInv` adds to `SlotsAreOwned` that the registry is finite, without which its
cardinality says nothing.

`LifeInv` is what the refinement needs.  A frame task that runs belongs to a session
that is open for the abstract specification (`SessionInv`); a Connected event on its
way is the only one of its session and nothing was said of it yet (`EventInv`,
`ConnectedOnce`); and when a Disconnected event is taken its handler has closed, so by
`SlotsAreOwned` the session has left the registry and the event loop says nothing.  The
last fact is why one removal is said although three tasks see the end.  From it each
step of `Next` is a step of the abstract specification or leaves `told` alone
(`LifeStep`).

`AckInv` strengthens `AckIsFirst`: a launch is in at most one list and once in it
(`ListsInv`); while it is there, or still on its way to the dispatcher, it has no
answer (`WaitingInv`); and the launch whose script runs is in no other launcher's list
(`ScriptInv`), so that the `retain` of one list removes it everywhere.  Every
acknowledgement takes its launch out of a list, so it is the first answer; the lemmas on
`RemoveAt` and `Without` say what is left in the list.  `NameInv` joins the two
invariants: the Connected event that is taken names a session of which nothing was
said, and every session named by an earlier answer has been announced by then.

`AgreeInv` goes beyond quiet states for `PhoneAgrees`.  A producer says its exit last and the
frame task ends only after it (`EndsInv`); a session that is read from holds its slot, and
is added, about to be added or announced in an event on its way (`HeldInv`); the phone
lists what has a frame task that has not said the end yet, and all of it as long as its process was never
restarted (`ListedInv`).  After a restart only one half is left, `ListedIsRegistered`.

`TermStreamProofs` proves, for all screens, texts, limits and losses
(`ConstantsAssumption` of `TermStream`):

| theorem | statement |
|---|---|
| `TypeCorrect` | `Spec => []TypeOK` |
| `DeltasAlwaysFit` | `Spec => []DeltasFit` |
| `HistoryAlwaysFits` | `Spec => []HistoryFits` |

`DeltasFit` and `HistoryFits` are about the phone as it will be once it has read the wire.  `ReplayedAppend`
and `ReplayedHead` say what a message at either end of the wire does to it, by induction
on the length: a set of numbers that has zero and every successor has all of them
(`Induction`, from the library's well-founded orders), which needs no operator as a
parameter.  `OfSnapshot`, `OfDelta`, `OfHistory` and `OfAppend` are the messages;
`PatchOfDiff` is that the phone's patch of the producer's difference is the producer's
screen.  A lost message is the hard case: `Behind` relates the phone that lost it to the
one that did not.  What the first does not mark as missing, the second has the same and does not
miss either, and every message keeps that relation (`ReplayedKeepsBehind`).  The inductive invariant `IInv` has
`DeltasFit`; `HistoryWillFit`, which is `HistoryFits` also before the first line; that a
streaming producer has a last snapshot, that an empty history is one to which nothing was
written, and that a phone which has part of a session had a first snapshot.

`ClipboardProofs` proves, for every set of texts and any number of copies, gifts and
mishaps (`ConstantsAssumption` of `Clipboard`: what is no text is none, the bounds are numbers):

| theorem | statement |
|---|---|
| `TypeCorrect` | `Spec => []TypeOK` |
| `NothingForgotten` | `Spec => []CopyIsKnown` |
| `NoEchoWithoutRace` | `Spec => EchoNeedsRace` |

`CopyIsKnown` speaks of quiet states only.  `RememberedInv` says at any time what
`last_hash` stands for: the phone's last text, one that is too long, or the last copy that
was sent, wherever that is now (`SentLast`); only between `pbcopy` and its `store` may it
stand for anything else.  `EchoInv` follows a write and a poll that do not overlap: after
the write the pasteboard has the remembered text, until somebody copies another.

`NotifyProofs` proves, for any number of commands, sessions and watchers
(`BoundsAssumption`; `IdsAssumption`, that a run of `macagent notify` and a watcher never
have one id, which are both fresh):

| theorem | statement |
|---|---|
| `TypeCorrect` | `Spec => []TypeOK` |
| `OnlyMeantPushes` | `Spec => []PushesAreMeant` |
| `WatchersAreKnown` | `Spec => []PhoneKnowsWatchers` |

`EnginesInv` is what replacing an engine, instead of changing it, gives: each task has an
engine that pushes to the pair of the task's start, or to nobody.  `HomeInv` says that a
watcher belongs to one engine and one session for good, so that neither a later engine
nor another session's lines touch its hits; `HitsInv` counts a match that is due as the
one hit the phone was not told, which also bounds `matched` for the type theorem.  `ListsInv`
speaks of the time between a request's change and its answer, when the list on the phone is old.

`PairingProofs` proves, for any number of phones, creations, pairs and mishaps
(`PairingAssumption`: the bounds are numbers, and `None` is none of the values it stands
beside):

| theorem | statement |
|---|---|
| `TypeCorrect` | `Spec => []TypeOK` |
| `TheEndsFit` | `Spec => []EndsFit` |
| `EveryClaimRecorded` | `Spec => []ClaimsAreRecorded` |

`Named(p, q)` says that somebody holds pair `p` as phone `q`'s, or will: a claim under
way, a room's event, an event in the Mac's channel, the phone.  Only `PutPair` names a
pair that nobody has named (`NoNewNames`), and the number it takes is new, so a pair has
one phone (`NamesInv`), and what is named stays on record, or keeps a mark that may lapse, because `DeletePair` comes
after the mark (`MarkedInv`), which does not lapse between the two.  `HoldsInv` joins a claim's pair to its room, which is the
Mac's secret.  That the Mac still has that secret when the claim arrives is `PhaseInv`: without
cancellations there is one pairing at a time, which is a request, a code, a poller or
an event.  Without it `MacCanSign` is not inductive; a cancelled pairing whose poller
goes on is the counterexample, and why the property excuses it.  `KeysInv` follows the four
writes: a keychain that is complete is the Mac's record, since the last entry is the
last to be written.

`GlueProofs` proves, for any number of sockets, misses and outages (`SocketsAssumption`,
`MishapsAssumption`: the bounds are numbers, and there is a socket):

| theorem | statement |
|---|---|
| `TypeCorrect` | `Spec => []TypeOK` |
| `RoomReachesNewest` | `Spec => []NewestIsReached` |
| `NoCandidateWaits` | `Spec => []CandidatesAreUsed` |
| `AnswersFit` | `Spec => []AnswersMatch` |
| `RestartsAreTimely` | `Spec => MissesAreTimely` |
| `LockIsFair` | `Spec => NobodyOvertakes` |

`RoomUses` lists the ways in which the two ends use the room, so that the room's part is
proved once for each of its operations.  `BeatInv` says the age of `last_ack` from the
heartbeats since, which is what makes a miss timely.  `AnswersMatch` is not inductive: the
offer an answer is to must be traced back.  `OfferInv` says where it is: among those who
wait for the lock (`InHand`), in a queue of the room (`InRoom`), owed by one glue of the
phone (`AtPhone`) or on its way back (`ComesBack`), never in two places, and nowhere unless
the signaling state is `local`.  Only a few steps move it; all others are quiet
(`QuietStep`).  `EarlyInv` says that nothing else happens before the Mac's first offer,
which no guard of `MakeOffer` asks for.  That the restart's offer is the only one in the
queue, which `LockIsFair` needs, is `OfferInv` again.

`HistoryProofs` proves, for all letters, sizes of the screen and limits
(`ConstantsAssumption` of `History`):

| theorem | statement |
|---|---|
| `TypeCorrect` | `Spec => []TypeOK` |
| `CopyIsHistory` | `Spec => [](copy = tracker.history)` |
| `HistoryIsWhole` | `Spec => [](NothingDropped => HistoryIsTold)` |
| `AltEnters` | `Spec => AltScrollsEnter` |
| `MissesOnlyRepeats` | `Spec => OnlyRepeatsMissed` |

The lemmas come first: that taking in rows in two steps is taking them in at once
(`NewsTwice`), although a line may be open in between and the history was cut
meanwhile; that what the loops of the code make of rows is the reference definition
(`JoinedIsLines`, `SqueezedIsAppended`); that cutting a concatenation to its newest
elements may be done before or after (`LastOfConcat`).  `IInv` says that the tracker has the
screen and the scrollback it last saw, except between a resize of the alternate screen and its
end, and that it is what became of the one at the last break after the rows since
(`FromBreak`), as long as none of those was dropped.  Then the longest overlap is the whole
scrollback (`NewRowsAreNew`).

When rows are dropped it is not, and the history may differ from `Expected`.
`OnlyRepeatsMissed` says how: of a piece of output that fits into the scrollback, the
longest overlap hides at most some rows that repeat the ones right above them
(`HiddenRowsRepeat`).

For `AltEnters`, `MatchedIs` says what a candidate's length is; among rows that differ, a
region that scrolls makes one candidate, and every other one is shorter, or as short with
fewer rows that are not blank, or further down (`OtherCandidates`).

### What is only model-checked

The liveness properties (`EndIsReported`, `EndIsAnnounced`, `LaunchIsAnswered`,
`ScreenConverges`, `CommandsGoOn`, `EchoesEnd`): fairness and ENABLED are beyond the prover.
Of `HistoryIsTold`, the part about rows that were dropped before any break: it depends on the
sizes of the run, as its comment says and the bounds above show.  Every other property of
the passing runs is stated by a theorem above.

## 6. What is not modelled

* Supervision: `ListWindows` (reads only), `FitFailed` and reject messages, thumbnails,
  process ids (their map has the entries' keys), the search of the accessibility window by
  closest bounds.  A window that was closed never comes back under its id.  At most
  `Callbacks` stream-ended tasks live at a time.
* Input injection: the cached permission, the mapping of keys and buttons to events, and
  the pointer; each request is checked and posted by itself.  What a Cmd+V finds on the
  pasteboard is given by no order of the code (section 4), so there is nothing to check.
* Clipboard: the phone's list of its last five entries, two texts with one hash, a Connect
  while a connection is open.  Output of `pbpaste` that is not UTF-8 counts as an empty pasteboard.
* History: the revision counters; an alternate screen that a resize gives another number
  of rows.  The emulator is external.
* Sessions: framing and decode errors, the watchers (in `Notify`), the registry's `streaming` flag
  (never read), attachments (in `TermStream`).  A session's id is fresh.
* TermStream: cursor, title and columns, which each message carries whole; how rows
  that scrolled out are recognised (in `History`, where lines have texts); the size of
  the channels.
* Pairing: the APNs entries of a pair, the phone's new key after a revocation,
  timestamps, the expiry of room events.  No handler takes 90 days from the mark of a pair to its deletion.  A phone has one claim at a time, and the
  store answers with the last write; Cloudflare promises less.
* Notify: invalid expressions (an error, and nothing changes), what the worker and Apple
  make of a push, the phone's list of recent matches, entries that nobody removes
  (registrations of killed shims, watchers of ended sessions).
* Glue: a second connection of the Mac, and with it the outbound task of the first; the
  abort at a revocation; `restart` frames, which nobody sends; the checks of a request to
  the room; the dispatch of control messages (in their receivers' modules).  The way
  through the room is part of the receiving socket's queue.  Gathering candidates and setting
  the local description are one step, a gathering yields one candidate, and a heartbeat is sent
  within its tick.
* The arithmetic of the window fit (A`window_fitter.rs:65`): one function of floating-point
  numbers without state, which unit tests reach.  Push, TURN, capture, the encoder, the views and the launcher's configuration are input
  and output around them.
