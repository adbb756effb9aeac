---------------------------- MODULE Supervision ----------------------------
(***************************************************************************)
(* SupervisionRouter (supervision_router.rs) with what it drives: the      *)
(* single stream slot of StreamManager (gui_capture/stream.rs), the window *)
(* frames that window_fitter.rs sets and restores, and the tile list that  *)
(* the phone keeps (SupervisionStore.swift).                               *)
(*                                                                         *)
(* Two kinds of task run the router's handlers at the same time: the one   *)
(* drainer task of rtc_glue.rs, which serves the phone's requests one      *)
(* after the other, and the task that ui.rs spawns for every stream that   *)
(* ends by itself.  The registry mutex is held only for short sections, so *)
(* an action below is one such section, one call into the capture, window  *)
(* or launch layer, or one message sent to the phone.                      *)
(***************************************************************************)
EXTENDS Naturals, FiniteSets

CONSTANTS
    SupIds,          \* supervision ids, ordered as their strings are
    Windows,         \* on-screen windows the phone can choose from
    Viewports,       \* viewports the phone reports
    OwnSize,         \* the viewport made of the window's own size
    Callbacks,       \* slots for stream-ended tasks (bounds how many are alive)
    Drainer,         \* the drainer task
    MaxSupervisions, \* MAX_SUPERVISIONS
    UserFrame,       \* a window as its user left it
    NotOpen, Closed, \* a window that is not there yet, or no longer
    None, NoEntry, NoFrame

Actors == {Drainer} \cup Callbacks

ASSUME ConstantsAssumption ==
    /\ SupIds \subseteq Nat /\ IsFiniteSet(SupIds)
    /\ MaxSupervisions \in Nat
    /\ None \notin SupIds
    /\ Drainer \notin Callbacks
    /\ {NotOpen, Closed, NoFrame} \cap (Viewports \cup {OwnSize, UserFrame}) = {}
    /\ NoEntry \notin [window: Windows, status: {"Armed", "Active"},
                       original: Viewports \cup {OwnSize, UserFrame, NoFrame}]

\* After a fit, a window's frame is the one that the viewport asked for.
Frames == Viewports \cup {OwnSize, UserFrame}

Entries == [window: Windows, status: {"Armed", "Active"},
            original: Frames \cup {NoFrame}]

Views == [SupIds -> {"Absent", "Armed", "Active"}]

Phases == {"idle", "ended", "launching", "snapshot", "demote", "fit", "start",
           "commit", "rollback", "ack", "sendAck", "list", "sendList",
           "refit", "writeBack", "stop", "restore", "removed", "report"}

\* What a handler keeps in local variables between two sections.
Locals == [target: SupIds \cup {None},       \* the supervision it works on
           window: Windows \cup {None},      \* its window_id, as snapshotted
           viewport: Viewports \cup {OwnSize},
           old: SupIds \cup {None},          \* old_active of set_active
           frame: Frames \cup {NoFrame},     \* fit_result, or the frame to restore
           next: SupIds \cup {None},         \* next_armed of a removal
           cause: SupIds \cup {None},        \* the stream whose end is reported
           msg: Views]                       \* the registry copy about to be sent

VARIABLES
    entries,    \* Registry.entries (and pids: same keys, same sections)
    activeSup,  \* Registry.active_sup
    used,       \* ids handed out so far: Uuid::new_v4 never repeats one
    slot,       \* StreamManager.active: whose stream is in the slot
    slotEnded,  \* the delegate of that stream has used its end_tx
    frame,      \* where each window is now
    shown,      \* SupervisionStore.entries on the phone
    told,       \* supervisions for which a StreamEnded has been sent
    pc,         \* what each task does next
    op          \* its locals

registry == <<entries, activeSup, used>>
stream == <<slot, slotEnded>>
phone == <<shown, told>>
vars == <<entries, activeSup, used, slot, slotEnded, frame, shown, told, pc, op>>

NoOp == [target |-> None, window |-> None, viewport |-> OwnSize, old |-> None,
         frame |-> NoFrame, next |-> None, cause |-> None,
         msg |-> [s \in SupIds |-> "Absent"]]

Registered == {s \in SupIds : entries[s] # NoEntry}

\* Mutant: nobody notices that a window is gone.
IsOpenUnchecked(w) == TRUE

IsOpen(w) == frame[w] \in Frames

RegistryView ==
    [s \in SupIds |-> IF entries[s] = NoEntry THEN "Absent" ELSE entries[s].status]

Init ==
    /\ entries = [s \in SupIds |-> NoEntry]
    /\ activeSup = None
    /\ used = {}
    /\ slot = None /\ slotEnded = FALSE
    /\ frame \in [Windows -> {UserFrame, NotOpen}]
    /\ shown = [s \in SupIds |-> "Absent"]
    /\ told = {}
    /\ pc = [a \in Actors |-> "idle"]
    /\ op = [a \in Actors |-> NoOp]

-----------------------------------------------------------------------------
(* Returning from a handler: the drainer takes its next request; a         *)
(* stream-ended task still has its own StreamEnded to send.                *)

\* Mutant: an error of the handler also ends the stream-ended task.
ReturnAll(a) ==
    /\ pc' = [pc EXCEPT ![a] = "idle"]
    /\ op' = [op EXCEPT ![a] = NoOp]

Return(a) ==
    /\ pc' = [pc EXCEPT ![a] = IF a = Drainer THEN "idle" ELSE "report"]
    /\ op' = [op EXCEPT ![a] = [NoOp EXCEPT !.cause = op[a].cause]]

Goto(a, phase) == pc' = [pc EXCEPT ![a] = phase]

\* Locals that are not read again are reset, all but the supervision at hand.
Forget(a, s) ==
    op' = [op EXCEPT ![a] = [NoOp EXCEPT !.target = s, !.cause = op[a].cause]]

-----------------------------------------------------------------------------
(* Registering a window.                                                   *)

\* Mutant: an off-by-one in the limit.
HasRoomForOneMore == Cardinality(Registered) <= MaxSupervisions

HasRoom == Cardinality(Registered) < MaxSupervisions

\* try_register_armed: a fresh id, an Armed entry, and on to set_active.
TryRegisterArmed(w, v) ==
    \E s \in SupIds \ used :
        /\ HasRoom
        /\ entries' = [entries EXCEPT ![s] =
                         [window |-> w, status |-> "Armed", original |-> NoFrame]]
        /\ used' = used \cup {s}
        /\ Goto(Drainer, "snapshot")
        /\ op' = [op EXCEPT ![Drainer] =
                    [NoOp EXCEPT !.target = s, !.viewport = v]]
        /\ UNCHANGED activeSup

\* A window that is not listed, or a full registry, only draws a reject.
SuperviseExisting(w, v) ==
    /\ pc[Drainer] = "idle"
    /\ IsOpen(w)
    /\ TryRegisterArmed(w, v)
    /\ UNCHANGED <<stream, frame, phone>>

\* The limit is read before the launch, which takes seconds to return.
SuperviseLaunch(v) ==
    /\ pc[Drainer] = "idle"
    /\ HasRoom
    /\ Goto(Drainer, "launching")
    /\ op' = [op EXCEPT ![Drainer].viewport = v]
    /\ UNCHANGED <<registry, stream, frame, phone>>

\* The app came up with window w, opened now or there before; the limit is
\* read again as the entry is made.
LaunchRegister(w) ==
    /\ pc[Drainer] = "launching"
    /\ frame[w] # Closed
    /\ frame' = [frame EXCEPT ![w] = IF @ = NotOpen THEN UserFrame ELSE @]
    /\ TryRegisterArmed(w, op[Drainer].viewport)
    /\ UNCHANGED <<stream, phone>>

\* No window within the timeout, or it is gone again, or the registry is full.
LaunchReject ==
    /\ pc[Drainer] = "launching"
    /\ Return(Drainer)
    /\ UNCHANGED <<registry, stream, frame, phone>>

\* The id comes from a list the phone received earlier: any id ever used.
SwitchActive(s, v) ==
    /\ pc[Drainer] = "idle"
    /\ entries[s] # NoEntry
    /\ Goto(Drainer, "snapshot")
    /\ op' = [op EXCEPT ![Drainer] = [NoOp EXCEPT !.target = s, !.viewport = v]]
    /\ UNCHANGED <<registry, stream, frame, phone>>

-----------------------------------------------------------------------------
(* set_active, one step for each section between two releases of the lock. *)

\* (1) The entry may be gone since the caller looked: then set_active fails.
Snapshot(a) ==
    /\ pc[a] = "snapshot"
    /\ LET s == op[a].target
       IN  \/ /\ entries[s] = NoEntry
              /\ Return(a)
           \/ /\ entries[s] # NoEntry
              /\ Goto(a, "demote")
              /\ op' = [op EXCEPT ![a].window = entries[s].window,
                                  ![a].old = activeSup]
    /\ UNCHANGED <<registry, stream, frame, phone>>

\* Empty the slot, if it still holds this supervision's stream.
StopStreamOf(s) ==
    /\ slot' = IF slot = s THEN None ELSE slot
    /\ slotEnded' = IF slot = s THEN FALSE ELSE slotEnded

\* (2)
Demote(a) ==
    /\ pc[a] = "demote"
    /\ IF op[a].old \in SupIds \ {op[a].target}
       THEN StopStreamOf(op[a].old)
       ELSE UNCHANGED stream
    /\ Goto(a, "fit")
    /\ UNCHANGED <<registry, frame, phone, op>>

\* window_fitter::fit: resizes the window and returns the frame it had just
\* before; fails when the accessibility calls do, or the window is gone.
FitWindow(a, then) ==
    /\ \/ /\ IsOpen(op[a].window)
          /\ op' = [op EXCEPT ![a].frame = frame[op[a].window]]
          /\ frame' = [frame EXCEPT ![op[a].window] = op[a].viewport]
       \/ /\ op' = [op EXCEPT ![a].frame = NoFrame]
          /\ UNCHANGED frame
    /\ Goto(a, then)
    /\ UNCHANGED <<registry, stream, phone>>

\* (3)
Fit(a) == pc[a] = "fit" /\ FitWindow(a, "start")

\* (4) StreamManager::start puts the new stream in the slot and stops the
\* one it finds there; when it fails it leaves the slot as it was.
StartStream(a) ==
    /\ pc[a] = "start"
    /\ \/ /\ IsOpen(op[a].window)
          /\ slot' = op[a].target /\ slotEnded' = FALSE
          /\ Goto(a, "commit")
       \/ /\ Goto(a, "rollback")
          /\ UNCHANGED stream
    /\ UNCHANGED <<registry, frame, phone, op>>

\* Mutant: the switch forgets the old entry.
DemoteNothing(es, a) == es

\* The old supervision, if it is another one and still there, becomes Armed.
DemoteEntry(es, a) ==
    IF op[a].old \in SupIds \ {op[a].target} /\ es[op[a].old] # NoEntry
    THEN [es EXCEPT ![op[a].old].status = "Armed"]
    ELSE es

\* Mutant: the new entry is written back from the snapshot of step (1).
InsertActive(es, a) ==
    [es EXCEPT ![op[a].target] =
       [window |-> op[a].window, status |-> "Active", original |-> op[a].frame]]

\* The new supervision, if it is still there, becomes Active and remembers
\* the frame to restore.
MarkActive(es, a) ==
    LET s == op[a].target
    IN  IF es[s] = NoEntry THEN es
        ELSE [es EXCEPT ![s].status = "Active",
                        ![s].original = IF op[a].frame = NoFrame
                                        THEN @ ELSE op[a].frame]

\* (5) active_sup is written whether or not the entry is still there.
Commit(a) ==
    /\ pc[a] = "commit"
    /\ entries' = MarkActive(DemoteEntry(entries, a), a)
    /\ activeSup' = op[a].target
    /\ Forget(a, op[a].target)
    /\ Goto(a, "ack")
    /\ UNCHANGED <<used, stream, frame, phone>>

\* The stream did not start: the new entry goes, the old one is Armed.
RollbackThen(a, active) ==
    /\ pc[a] = "rollback"
    /\ entries' = DemoteEntry([entries EXCEPT ![op[a].target] = NoEntry], a)
    /\ activeSup' = active
    /\ UNCHANGED <<used, stream, frame, phone>>

\* Mutant: active_sup still names the supervision that was demoted.
RollbackKeepsOld(a) ==
    RollbackThen(a, op[a].old) /\ Goto(a, "list") /\ Forget(a, None)

\* Mutant: no fresh list for the phone.
RollbackSilently(a) == RollbackThen(a, None) /\ Return(a)

Rollback(a) == RollbackThen(a, None) /\ Goto(a, "list") /\ Forget(a, None)

\* (6) The SupervisedAck carries the entry as it is read now.
AckSnapshot(a) ==
    /\ pc[a] = "ack"
    /\ IF entries[op[a].target] = NoEntry
       THEN Goto(a, "list") /\ Forget(a, None)
       ELSE Goto(a, "sendAck") /\ op' = [op EXCEPT ![a].msg = RegistryView]
    /\ UNCHANGED <<registry, stream, frame, phone>>

\* The phone adds the entry when it does not have it yet.
SendAck(a) ==
    /\ pc[a] = "sendAck"
    /\ shown' = [shown EXCEPT ![op[a].target] =
                   IF @ = "Absent" THEN op[a].msg[op[a].target] ELSE @]
    /\ Goto(a, "list")
    /\ Forget(a, None)
    /\ UNCHANGED <<registry, stream, frame, told>>

\* emit_supervision_list copies the registry under the lock ...
ListSnapshot(a) ==
    /\ pc[a] = "list"
    /\ op' = [op EXCEPT ![a].msg = RegistryView]
    /\ Goto(a, "sendList")
    /\ UNCHANGED <<registry, stream, frame, phone>>

\* ... and sends the copy after releasing it.  The channel to the phone is
\* ordered, so what the phone shows follows the order of the sends.
SendList(a) ==
    /\ pc[a] = "sendList"
    /\ shown' = op[a].msg
    /\ Return(a)
    /\ UNCHANGED <<registry, stream, frame, told>>

-----------------------------------------------------------------------------
(* handle_viewport_changed: refit the active window only.                  *)

ViewportChanged(s, v) ==
    /\ pc[Drainer] = "idle"
    /\ activeSup = s
    /\ entries[s] # NoEntry
    /\ Goto(Drainer, "refit")
    /\ op' = [op EXCEPT ![Drainer] = [NoOp EXCEPT !.target = s, !.viewport = v,
                                                  !.window = entries[s].window]]
    /\ UNCHANGED <<registry, stream, frame, phone>>

Refit == pc[Drainer] = "refit" /\ FitWindow(Drainer, "writeBack")

WriteBack ==
    /\ pc[Drainer] = "writeBack"
    /\ LET s == op[Drainer].target
       IN  entries' = IF op[Drainer].frame = NoFrame \/ entries[s] = NoEntry
                      THEN entries
                      ELSE [entries EXCEPT ![s].original = op[Drainer].frame]
    /\ Goto(Drainer, "list")
    /\ Forget(Drainer, None)
    /\ UNCHANGED <<activeSup, used, stream, frame, phone>>

-----------------------------------------------------------------------------
(* handle_remove_supervised.                                               *)

LexSmallest(S) == {s \in S : \A t \in S : s <= t}

\* next_armed: after the active supervision, the smallest id that is left.
NextArmed(s) ==
    IF activeSup = s /\ Registered \ {s} # {}
    THEN LexSmallest(Registered \ {s})
    ELSE {None}

RemoveEntry(a, s) ==
    \/ /\ entries[s] = NoEntry
       /\ activeSup' = IF activeSup = s THEN None ELSE activeSup
       /\ Return(a)
       /\ UNCHANGED <<entries, used, stream, frame, phone>>
    \/ /\ entries[s] # NoEntry
       /\ entries' = [entries EXCEPT ![s] = NoEntry]
       /\ activeSup' = IF activeSup = s THEN None ELSE activeSup
       /\ Goto(a, IF activeSup = s THEN "stop" ELSE "restore")
       /\ \E next \in NextArmed(s) :
            op' = [op EXCEPT ![a].target = s,
                             ![a].window = entries[s].window,
                             ![a].frame = entries[s].original,
                             ![a].next = next]
       /\ UNCHANGED <<used, stream, frame, phone>>

\* The phone asks for the removal of an id it has been shown.
RemoveSupervised(s) ==
    /\ pc[Drainer] = "idle"
    /\ s \in used
    /\ RemoveEntry(Drainer, s)

StopStream(a) ==
    /\ pc[a] = "stop"
    /\ StopStreamOf(op[a].target)
    /\ Goto(a, "restore")
    /\ UNCHANGED <<registry, frame, phone, op>>

\* window_fitter::restore; its errors are ignored.
Restore(a) ==
    /\ pc[a] = "restore"
    /\ LET w == op[a].window
       IN  \/ /\ op[a].frame # NoFrame /\ IsOpen(w)
              /\ frame' = [frame EXCEPT ![w] = op[a].frame]
           \/ UNCHANGED frame
    /\ Goto(a, "removed")
    /\ op' = [op EXCEPT ![a].window = None, ![a].frame = NoFrame]
    /\ UNCHANGED <<registry, stream, phone>>

\* The phone drops the tile of a supervision whose StreamEnded it receives.
SendStreamEnded(s) ==
    /\ told' = told \cup {s}
    /\ shown' = [shown EXCEPT ![s] = "Absent"]

\* StreamEnded{removed}, then on to promote the next armed supervision.
Removed(a) ==
    /\ pc[a] = "removed"
    /\ SendStreamEnded(op[a].target)
    /\ \/ /\ op[a].next = None
          /\ Goto(a, "list") /\ Forget(a, None)
       \/ /\ op[a].next # None
          /\ Goto(a, "snapshot") /\ Forget(a, op[a].next)
    /\ UNCHANGED <<registry, stream, frame>>

-----------------------------------------------------------------------------
(* Streams that end by themselves, and their tasks.                        *)

\* did_stop_with_error: the delegate's end_tx is taken, so one report per
\* stream; a task is spawned for it.  A stream that fails as it is being
\* stopped is the same as one that failed just before: its task may wait.
StreamEnds(c) ==
    /\ slot # None /\ ~slotEnded
    /\ pc[c] = "idle"
    /\ slotEnded' = TRUE
    /\ op' = [op EXCEPT ![c] = [NoOp EXCEPT !.cause = slot]]
    /\ UNCHANGED <<registry, slot, frame, phone>>

\* Mutant: the task tells the phone without cleaning the registry.
StreamFailsUncleaned(c) == StreamEnds(c) /\ Goto(c, "report")

StreamFails(c) == StreamEnds(c) /\ Goto(c, "ended")

\* "Clean registry first", by the same handler that serves the phone ...
CallbackRemove(c) ==
    /\ pc[c] = "ended"
    /\ RemoveEntry(c, op[c].cause)

\* ... and then the task's own StreamEnded, with the reason of the failure.
CallbackReport(c) ==
    /\ pc[c] = "report"
    /\ SendStreamEnded(op[c].cause)
    /\ Goto(c, "idle")
    /\ op' = [op EXCEPT ![c] = NoOp]
    /\ UNCHANGED <<registry, stream, frame>>

\* The user closes a window on the Mac.
WindowCloses(w) ==
    /\ IsOpen(w)
    /\ frame' = [frame EXCEPT ![w] = Closed]
    /\ UNCHANGED <<registry, stream, phone, pc, op>>

-----------------------------------------------------------------------------

SetActiveStep(a) ==
    \/ Snapshot(a) \/ Demote(a) \/ Fit(a) \/ StartStream(a) \/ Commit(a)
    \/ Rollback(a) \/ AckSnapshot(a) \/ SendAck(a)
    \/ ListSnapshot(a) \/ SendList(a)

RemoveStep(a) == StopStream(a) \/ Restore(a) \/ Removed(a)

DrainerStep ==
    \/ SetActiveStep(Drainer) \/ RemoveStep(Drainer)
    \/ (\E w \in Windows : LaunchRegister(w)) \/ LaunchReject
    \/ Refit \/ WriteBack

CallbackStep(c) ==
    SetActiveStep(c) \/ RemoveStep(c) \/ CallbackRemove(c) \/ CallbackReport(c)

\* A request from the phone that the idle drainer takes up.
Request ==
    \/ \E w \in Windows, v \in Viewports : SuperviseExisting(w, v)
    \/ \E v \in Viewports : SuperviseLaunch(v)
    \/ \E s \in SupIds, v \in Viewports : SwitchActive(s, v) \/ ViewportChanged(s, v)
    \/ \E s \in SupIds : RemoveSupervised(s)

Environment ==
    \/ \E c \in Callbacks : StreamFails(c)
    \/ \E w \in Windows : WindowCloses(w)

Next ==
    \/ Request
    \/ DrainerStep
    \/ \E c \in Callbacks : CallbackStep(c)
    \/ Environment

Spec == Init /\ [][Next]_vars

\* A spawned task runs to its end, and so does a handler the drainer began:
\* the runtime polls them and the calls they make return.
FairSpec ==
    Spec /\ WF_vars(DrainerStep) /\ \A c \in Callbacks : WF_vars(CallbackStep(c))

\* The behaviours in which no two handlers overlap: a stream-ended task that
\* was spawned starts only when no other handler runs.
Busy(a) == pc[a] \notin {"idle", "ended"}
OneAtATime == \A a, b \in Actors : Busy(a) /\ Busy(b) => a = b
SerialNext == Next /\ OneAtATime'
SerialSpec == Init /\ [][SerialNext]_vars

-----------------------------------------------------------------------------
(* Properties.                                                             *)

\* A handler between two sections knows the supervision it works on, and its
\* window until it is done with it; a task knows whose end it reports.
LocalOK(a) ==
    /\ pc[a] \in {"snapshot", "demote", "fit", "start", "commit", "rollback",
                  "ack", "sendAck", "refit", "writeBack", "stop", "restore",
                  "removed"} => op[a].target \in SupIds
    /\ pc[a] \in {"demote", "fit", "start", "refit", "stop", "restore"}
            => op[a].window \in Windows
    /\ a \in Callbacks /\ pc[a] # "idle" => op[a].cause \in SupIds

LocalsOK == \A a \in Actors : LocalOK(a)

\* The variables hold values of the types that the code gives them.
TypeOK ==
    /\ entries \in [SupIds -> Entries \cup {NoEntry}]
    /\ activeSup \in SupIds \cup {None}
    /\ used \subseteq SupIds
    /\ slot \in SupIds \cup {None} /\ slotEnded \in BOOLEAN
    /\ frame \in [Windows -> Frames \cup {NotOpen, Closed}]
    /\ shown \in Views
    /\ told \subseteq SupIds
    /\ pc \in [Actors -> Phases]
    /\ op \in [Actors -> Locals]
    /\ LocalsOK

\* The registry never holds more than MAX_SUPERVISIONS entries, although the
\* limit is read before a launch and removals run beside the registrations.
WithinLimit == Cardinality(Registered) <= MaxSupervisions

\* Once removed, a supervision never comes back: a set_active that read the
\* entry before a concurrent removal does not put it back when it commits.
RemovedForGood ==
    [][\A s \in used : entries[s] = NoEntry => entries'[s] = NoEntry]_vars

\* The phone hears that a stream ended only once the supervision is out of
\* the registry ("Clean registry first", ui.rs), whoever removed it.
ToldOnlyRemoved == \A s \in told : entries[s] = NoEntry

IsActive(s) == entries[s] # NoEntry /\ entries[s].status = "Active"

\* At most one supervision is Active.
AtMostOneActive == \A s, t \in SupIds : IsActive(s) /\ IsActive(t) => s = t

Settled == \A a \in Actors : ~Busy(a)

\* Between handlers, active_sup names the Active entry, if there is one, and
\* the stream in the slot is that entry's.
ActiveIsStreamed ==
    Settled => /\ \A s \in SupIds : IsActive(s) <=> activeSup = s
               /\ activeSup # None => slot = activeSup

\* Between handlers, the phone's tiles are the registry's entries, with the
\* same status.
PhoneUpToDate == Settled => shown = RegistryView

\* Every stream that ends by itself is eventually reported to the phone, and
\* its supervision is then gone, whatever the drainer does meanwhile.
EndIsReported ==
    \A s \in SupIds :
        (slot = s /\ slotEnded) ~> (s \in told /\ entries[s] = NoEntry)

=============================================================================
