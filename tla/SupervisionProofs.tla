------------------------- MODULE SupervisionProofs -------------------------
(***************************************************************************)
(* What holds of the supervision router for every number of windows,       *)
(* viewports, supervision ids and stream-ended tasks.                      *)
(***************************************************************************)
EXTENDS Supervision, FiniteSetTheorems, TLAPS

-----------------------------------------------------------------------------
(* Type correctness.                                                       *)

\* The locals of a task that runs no handler are well typed.
LEMMA NoOpType == NoOp \in Locals
BY DEF NoOp, Locals, Views, Frames

\* The registry copy sent to the phone is a view.
LEMMA RegistryViewType == TypeOK => RegistryView \in Views
BY DEF TypeOK, RegistryView, Views, Entries

\* The fields of an entry.
LEMMA EntryFields ==
    ASSUME TypeOK, NEW s \in SupIds, entries[s] # NoEntry
    PROVE  /\ entries[s] \in Entries
           /\ entries[s].window \in Windows
           /\ entries[s].status \in {"Armed", "Active"}
           /\ entries[s].original \in Frames \cup {NoFrame}
BY DEF TypeOK, Entries

\* The fields of the locals.
LEMMA LocalFields ==
    ASSUME TypeOK, NEW a \in Actors
    PROVE  /\ op[a].target \in SupIds \cup {None}
           /\ op[a].viewport \in Viewports \cup {OwnSize}
           /\ op[a].old \in SupIds \cup {None}
           /\ op[a].frame \in Frames \cup {NoFrame}
           /\ op[a].next \in SupIds \cup {None}
           /\ op[a].cause \in SupIds \cup {None}
           /\ op[a].msg \in Views
BY DEF TypeOK, Locals

\* A step of one task concerns the locals of that task only.
LEMMA OneTask ==
    ASSUME TypeOK, NEW a \in Actors, LocalOK(a)',
           \A b \in Actors \ {a} : pc'[b] = pc[b] /\ op'[b] = op[b]
    PROVE  LocalsOK'
BY DEF TypeOK, LocalsOK, LocalOK

\* Returning from a handler leaves the locals well typed.
LEMMA ReturnType ==
    ASSUME TypeOK, NEW a \in Actors, Return(a), a \in Callbacks => pc[a] # "idle"
    PROVE  /\ op' \in [Actors -> Locals] /\ pc' \in [Actors -> Phases]
           /\ LocalsOK'
<1>1. /\ op' \in [Actors -> Locals] /\ pc' \in [Actors -> Phases]
  BY NoOpType DEF TypeOK, Return, Locals, Phases
<1>2. pc'[a] \in {"idle", "report"} /\ (a \in Callbacks => pc'[a] = "report")
  BY ConstantsAssumption DEF TypeOK, Return
<1>3. op'[a].cause = op[a].cause
  BY DEF TypeOK, Return, NoOp
<1>4. LocalOK(a)'
  BY <1>2, <1>3 DEF LocalOK, TypeOK, LocalsOK
<1>5. QED BY <1>1, <1>4, OneTask DEF TypeOK, Return

\* So does forgetting all locals but the supervision at hand, on the way to
\* a phase that needs no window.
LEMMA ForgetType ==
    ASSUME TypeOK, NEW a \in Actors, pc[a] # "idle",
           NEW s \in SupIds \cup {None}, Forget(a, s),
           NEW p \in {"snapshot", "ack", "list"}, Goto(a, p),
           p # "list" => s \in SupIds
    PROVE  /\ op' \in [Actors -> Locals] /\ pc' \in [Actors -> Phases]
           /\ LocalsOK'
<1>1. /\ op' \in [Actors -> Locals] /\ pc' \in [Actors -> Phases]
  BY NoOpType DEF TypeOK, Forget, Goto, Locals, Phases
<1>2. LocalsOK'
  BY NoOpType, ConstantsAssumption
     DEF TypeOK, LocalsOK, LocalOK, Forget, Goto, NoOp, Locals
<1>3. QED BY <1>1, <1>2

\* Fitting a window keeps the types.
LEMMA FitType ==
    ASSUME TypeOK, NEW a \in Actors, pc[a] \in {"fit", "refit"},
           NEW p \in {"start", "writeBack"}, FitWindow(a, p),
           p = "start" => pc[a] = "fit"
    PROVE  TypeOK'
<1> USE DEF registry, stream, phone
<1>1. op[a].window \in Windows /\ op[a].target \in SupIds
  BY DEF TypeOK, LocalsOK, LocalOK
<1>2. PICK f \in Frames \cup {NoFrame} : op' = [op EXCEPT ![a].frame = f]
  BY DEF FitWindow, IsOpen
<1>3. op' \in [Actors -> Locals]
  BY <1>2 DEF TypeOK, Locals
<1>4. frame' \in [Windows -> Frames \cup {NotOpen, Closed}]
  BY LocalFields DEF FitWindow, TypeOK, Frames
<1>5. LocalsOK'
  BY <1>1, <1>2 DEF FitWindow, Goto, TypeOK, LocalsOK, LocalOK, Locals
<1>6. QED
  BY <1>3, <1>4, <1>5 DEF FitWindow, Goto, TypeOK, Phases

\* A step of set_active keeps the types.
LEMMA SetActiveStepType ==
    ASSUME TypeOK, NEW a \in Actors, SetActiveStep(a)
    PROVE  TypeOK'
<1> USE DEF registry, stream, phone
<1>1. CASE Snapshot(a)
  <2>1. CASE entries[op[a].target] = NoEntry
    BY <1>1, <2>1, ReturnType DEF Snapshot, TypeOK
  <2>2. CASE entries[op[a].target] # NoEntry
    <3>1. op[a].target \in SupIds
      BY <1>1 DEF Snapshot, TypeOK, LocalsOK, LocalOK
    <3>2. entries[op[a].target].window \in Windows
      BY <2>2, <3>1, EntryFields
    <3>3. /\ pc' = [pc EXCEPT ![a] = "demote"]
          /\ op' = [op EXCEPT ![a] =
                      [op[a] EXCEPT !.window = entries[op[a].target].window,
                                    !.old = activeSup]]
      BY <1>1, <2>2 DEF Snapshot, Goto, TypeOK
    <3>4. op' \in [Actors -> Locals]
      <4>1. [op[a] EXCEPT !.window = entries[op[a].target].window,
                          !.old = activeSup] \in Locals
        BY <3>2 DEF TypeOK, Locals
      <4>2. QED BY <3>3, <4>1 DEF TypeOK
    <3>5. LocalsOK'
      <4>1. op'[a] = [op[a] EXCEPT !.window = entries[op[a].target].window,
                                   !.old = activeSup]
        BY <3>3 DEF TypeOK
      <4>2. /\ op'[a].target = op[a].target
            /\ op'[a].window = entries[op[a].target].window
            /\ op'[a].cause = op[a].cause
        BY <4>1 DEF TypeOK, Locals
      <4>3. LocalOK(a)'
        BY <1>1, <3>1, <3>2, <3>3, <4>2 DEF Snapshot, TypeOK, LocalsOK, LocalOK
      <4>4. QED BY <3>3, <4>3, OneTask DEF TypeOK
    <3>6. QED
      BY <1>1, <3>3, <3>4, <3>5 DEF Snapshot, TypeOK, Phases
  <2>3. QED BY <2>1, <2>2
<1>2. CASE Demote(a)
  BY <1>2 DEF Demote, StopStreamOf, TypeOK, LocalsOK, LocalOK, Goto, Phases
<1>3. CASE Fit(a)
  BY <1>3, FitType DEF Fit
<1>4. CASE StartStream(a)
  BY <1>4 DEF StartStream, TypeOK, LocalsOK, LocalOK, Goto, Phases, Locals, IsOpen
<1>5. CASE Commit(a)
  <2>1. entries' \in [SupIds -> Entries \cup {NoEntry}]
    <3>1. op[a].target \in SupIds
      BY <1>5 DEF Commit, TypeOK, LocalsOK, LocalOK
    <3>2. DemoteEntry(entries, a) \in [SupIds -> Entries \cup {NoEntry}]
      BY DEF DemoteEntry, TypeOK, Entries
    <3>3. ASSUME NEW es \in [SupIds -> Entries \cup {NoEntry}]
          PROVE  MarkActive(es, a) \in [SupIds -> Entries \cup {NoEntry}]
      BY <3>1, LocalFields DEF MarkActive, Entries
    <3>4. QED BY <1>5, <3>2, <3>3 DEF Commit
  <2>2. /\ op' \in [Actors -> Locals] /\ pc' \in [Actors -> Phases]
        /\ LocalsOK'
    BY <1>5, ForgetType DEF Commit, TypeOK, LocalsOK, LocalOK
  <2>3. QED BY <1>5, <2>1, <2>2 DEF Commit, TypeOK, LocalsOK, LocalOK
<1>6. CASE Rollback(a)
  <2>1. entries' \in [SupIds -> Entries \cup {NoEntry}]
    BY <1>6 DEF Rollback, RollbackThen, DemoteEntry, TypeOK, LocalsOK, LocalOK, Entries, Locals
  <2>2. /\ op' \in [Actors -> Locals] /\ pc' \in [Actors -> Phases]
        /\ LocalsOK'
    BY <1>6, ForgetType DEF Rollback, RollbackThen, TypeOK
  <2>3. QED BY <1>6, <2>1, <2>2 DEF Rollback, RollbackThen, TypeOK
<1>7. CASE AckSnapshot(a)
  <2>1. CASE entries[op[a].target] = NoEntry
    BY <1>7, <2>1, ForgetType DEF AckSnapshot, TypeOK
  <2>2. CASE entries[op[a].target] # NoEntry
    BY <1>7, <2>2, RegistryViewType
       DEF AckSnapshot, TypeOK, LocalsOK, LocalOK, Goto, Phases, Locals
  <2>3. QED BY <2>1, <2>2
<1>8. CASE SendAck(a)
  <2>1. shown' \in Views
    BY <1>8 DEF SendAck, TypeOK, LocalsOK, LocalOK, Locals, Views
  <2>2. QED BY <1>8, <2>1, ForgetType DEF SendAck, TypeOK
<1>9. CASE ListSnapshot(a)
  <2>1. op' \in [Actors -> Locals] /\ pc' \in [Actors -> Phases]
    BY <1>9, RegistryViewType DEF ListSnapshot, TypeOK, Goto, Phases, Locals
  <2>2. LocalsOK'
    BY <1>9 DEF ListSnapshot, TypeOK, LocalsOK, LocalOK, Goto, Locals
  <2>3. QED BY <1>9, <2>1, <2>2 DEF ListSnapshot, TypeOK
<1>10. CASE SendList(a)
  BY <1>10, ReturnType DEF SendList, TypeOK, Locals
<1>11. QED
  BY <1>1, <1>2, <1>3, <1>4, <1>5, <1>6, <1>7, <1>8, <1>9, <1>10 DEF SetActiveStep

\* Removing an entry keeps the types, for the drainer and for a task.
LEMMA RemoveEntryType ==
    ASSUME TypeOK, NEW a \in Actors, NEW s \in SupIds, RemoveEntry(a, s),
           a \in Callbacks => pc[a] # "idle"
    PROVE  TypeOK'
<1> USE DEF registry, stream, phone
<1>1. CASE entries[s] = NoEntry
  BY <1>1, ReturnType DEF RemoveEntry, TypeOK
<1>2. CASE entries[s] # NoEntry
  <2>1. PICK next \in NextArmed(s) :
          op' = [op EXCEPT ![a] =
                   [op[a] EXCEPT !.target = s, !.window = entries[s].window,
                                 !.frame = entries[s].original, !.next = next]]
    BY <1>2 DEF RemoveEntry, TypeOK
  <2>2. next \in SupIds \cup {None}
    BY DEF NextArmed, LexSmallest, Registered
  <2>3. entries[s] \in Entries
    BY <1>2 DEF TypeOK
  <2>4. op' \in [Actors -> Locals]
    <3>1. [op[a] EXCEPT !.target = s, !.window = entries[s].window,
                        !.frame = entries[s].original, !.next = next] \in Locals
      <4>1. op[a] \in Locals BY DEF TypeOK
      <4>2. /\ entries[s].window \in Windows
            /\ entries[s].original \in Frames \cup {NoFrame}
        BY <1>2, EntryFields
      <4>3. QED BY <2>2, <4>1, <4>2 DEF Locals
    <3>2. QED BY <2>1, <3>1 DEF TypeOK
  <2>5. LocalsOK'
    <3>1. pc' = [pc EXCEPT ![a] = IF activeSup = s THEN "stop" ELSE "restore"]
      BY <1>2 DEF RemoveEntry, Goto
    <3>2. LocalOK(a)'
      BY <1>2, <2>1, <3>1, EntryFields DEF TypeOK, LocalsOK, LocalOK, Locals
    <3>3. QED BY <2>1, <3>1, <3>2, OneTask DEF TypeOK
  <2>6. QED
    BY <1>2, <2>4, <2>5 DEF RemoveEntry, TypeOK, Goto, Phases
<1>3. QED BY <1>1, <1>2

\* The later steps of a removal keep the types.
LEMMA RemoveStepType ==
    ASSUME TypeOK, NEW a \in Actors, RemoveStep(a)
    PROVE  TypeOK'
<1> USE DEF registry, stream, phone
<1>1. CASE StopStream(a)
  BY <1>1 DEF StopStream, StopStreamOf, TypeOK, LocalsOK, LocalOK, Goto, Phases
<1>2. CASE Restore(a)
  <2>1. op[a].window \in Windows /\ op[a].target \in SupIds
    BY <1>2 DEF Restore, TypeOK, LocalsOK, LocalOK
  <2>2. /\ pc' = [pc EXCEPT ![a] = "removed"]
        /\ op' = [op EXCEPT ![a] =
                    [op[a] EXCEPT !.window = None, !.frame = NoFrame]]
    BY <1>2 DEF Restore, Goto, TypeOK
  <2>3. op' \in [Actors -> Locals]
    <3>1. [op[a] EXCEPT !.window = None, !.frame = NoFrame] \in Locals
      BY DEF TypeOK, Locals
    <3>2. QED BY <2>2, <3>1 DEF TypeOK
  <2>4. frame' \in [Windows -> Frames \cup {NotOpen, Closed}]
    BY <1>2, LocalFields DEF Restore, TypeOK
  <2>5. LocalsOK'
    BY <1>2, <2>1, <2>2 DEF Restore, TypeOK, LocalsOK, LocalOK, Locals
  <2>6. QED BY <1>2, <2>2, <2>3, <2>4, <2>5 DEF Restore, TypeOK, Phases
<1>3. CASE Removed(a)
  <2>1. shown' \in Views /\ told' \subseteq SupIds
    BY <1>3 DEF Removed, SendStreamEnded, TypeOK, LocalsOK, LocalOK, Views
  <2>2. op[a].next \in SupIds \cup {None}
    BY DEF TypeOK, Locals
  <2>3. QED
    BY <1>3, <2>1, <2>2, ForgetType DEF Removed, TypeOK
<1>4. QED BY <1>1, <1>2, <1>3 DEF RemoveStep

\* Registering a window keeps the types.
LEMMA RegisterType ==
    ASSUME TypeOK, NEW w \in Windows, NEW v \in Viewports \cup {OwnSize},
           TryRegisterArmed(w, v), UNCHANGED <<stream, phone>>,
           frame' \in [Windows -> Frames \cup {NotOpen, Closed}]
    PROVE  TypeOK'
<1> USE DEF stream, phone
<1>1. PICK s \in SupIds \ used :
        /\ entries' = [entries EXCEPT ![s] =
                         [window |-> w, status |-> "Armed", original |-> NoFrame]]
        /\ used' = used \cup {s}
        /\ Goto(Drainer, "snapshot")
        /\ op' = [op EXCEPT ![Drainer] =
                    [NoOp EXCEPT !.target = s, !.viewport = v]]
        /\ UNCHANGED activeSup
  BY DEF TryRegisterArmed
<1>2. entries' \in [SupIds -> Entries \cup {NoEntry}]
  BY <1>1 DEF TypeOK, Entries
<1>3. op' \in [Actors -> Locals]
  BY <1>1, NoOpType DEF TypeOK, Locals
<1>4. LocalsOK'
  BY <1>1, ConstantsAssumption DEF TypeOK, LocalsOK, LocalOK, Goto, Actors, NoOp
<1>5. QED
  BY <1>1, <1>2, <1>3, <1>4 DEF TypeOK, Goto, Phases

\* A request taken up by the drainer keeps the types.
LEMMA RequestType == ASSUME TypeOK, Request PROVE TypeOK'
<1> USE DEF registry, stream, phone
<1>1. ASSUME NEW w \in Windows, NEW v \in Viewports, SuperviseExisting(w, v)
      PROVE  TypeOK'
  BY <1>1, RegisterType DEF SuperviseExisting, TypeOK
<1>2. ASSUME NEW v \in Viewports, SuperviseLaunch(v)
      PROVE  TypeOK'
  BY <1>2, ConstantsAssumption
     DEF SuperviseLaunch, TypeOK, LocalsOK, LocalOK, Goto, Phases, Locals, Actors
<1>3. ASSUME NEW s \in SupIds, NEW v \in Viewports, SwitchActive(s, v)
      PROVE  TypeOK'
  BY <1>3, ConstantsAssumption
     DEF SwitchActive, TypeOK, LocalsOK, LocalOK, Goto, Phases, Locals, Actors, NoOp, Views
<1>4. ASSUME NEW s \in SupIds, NEW v \in Viewports, ViewportChanged(s, v)
      PROVE  TypeOK'
  BY <1>4, ConstantsAssumption
     DEF ViewportChanged, TypeOK, LocalsOK, LocalOK, Goto, Phases, Locals, Actors, NoOp,
         Views, Entries
<1>5. ASSUME NEW s \in SupIds, RemoveSupervised(s)
      PROVE  TypeOK'
  BY <1>5, RemoveEntryType, ConstantsAssumption DEF RemoveSupervised, Actors
<1>6. QED BY <1>1, <1>2, <1>3, <1>4, <1>5 DEF Request

\* A step of the drainer keeps the types.
LEMMA DrainerStepType == ASSUME TypeOK, DrainerStep PROVE TypeOK'
<1> USE DEF registry, stream, phone
<1>0. Drainer \in Actors
  BY DEF Actors
<1>1. ASSUME NEW w \in Windows, LaunchRegister(w)
      PROVE  TypeOK'
  <2>1. op[Drainer].viewport \in Viewports \cup {OwnSize}
    BY <1>0 DEF TypeOK, Locals
  <2>2. frame' \in [Windows -> Frames \cup {NotOpen, Closed}]
    BY <1>1 DEF LaunchRegister, TypeOK, Frames
  <2>3. QED BY <1>1, <2>1, <2>2, RegisterType DEF LaunchRegister
<1>2. CASE LaunchReject
  BY <1>0, <1>2, ReturnType DEF LaunchReject, TypeOK
<1>3. CASE Refit
  BY <1>0, <1>3, FitType DEF Refit
<1>4. CASE WriteBack
  <2>1. entries' \in [SupIds -> Entries \cup {NoEntry}]
    BY <1>0, <1>4 DEF WriteBack, TypeOK, LocalsOK, LocalOK, Entries, Locals
  <2>2. QED BY <1>0, <1>4, <2>1, ForgetType DEF WriteBack, TypeOK
<1>5. QED
  BY <1>0, <1>1, <1>2, <1>3, <1>4, SetActiveStepType, RemoveStepType DEF DrainerStep

\* A step of a stream-ended task keeps the types.
LEMMA CallbackStepType ==
    ASSUME TypeOK, NEW c \in Callbacks, CallbackStep(c) PROVE TypeOK'
<1> USE DEF registry, stream, phone
<1>0. c \in Actors
  BY DEF Actors
<1>1. CASE CallbackRemove(c)
  BY <1>0, <1>1, RemoveEntryType DEF CallbackRemove, TypeOK, LocalsOK, LocalOK
<1>2. CASE CallbackReport(c)
  <2>1. shown' \in Views /\ told' \subseteq SupIds
    BY <1>0, <1>2 DEF CallbackReport, SendStreamEnded, TypeOK, LocalsOK, LocalOK, Views
  <2>2. QED
    BY <1>0, <1>2, <2>1, NoOpType DEF CallbackReport, TypeOK, LocalsOK, LocalOK, Goto, Phases
<1>3. QED
  BY <1>0, <1>1, <1>2, SetActiveStepType, RemoveStepType DEF CallbackStep

\* A step of the environment keeps the types.
LEMMA EnvironmentType == ASSUME TypeOK, Environment PROVE TypeOK'
<1> USE DEF registry, stream, phone
<1>1. ASSUME NEW c \in Callbacks, StreamFails(c)
      PROVE  TypeOK'
  BY <1>1, NoOpType
     DEF StreamFails, StreamEnds, TypeOK, LocalsOK, LocalOK, Goto, Phases, Locals, Actors, NoOp
<1>2. ASSUME NEW w \in Windows, WindowCloses(w)
      PROVE  TypeOK'
  BY <1>2 DEF WindowCloses, TypeOK, LocalsOK, LocalOK
<1>3. QED BY <1>1, <1>2 DEF Environment

\* The variables always have their types.
LEMMA TypeStep == TypeOK /\ [Next]_vars => TypeOK'
<1> SUFFICES ASSUME TypeOK, [Next]_vars PROVE TypeOK'
  OBVIOUS
<1>1. CASE UNCHANGED vars
  BY <1>1 DEF vars, TypeOK, LocalsOK, LocalOK
<1>2. QED
  BY <1>1, RequestType, DrainerStepType, CallbackStepType, EnvironmentType DEF Next

\* The initial state is well typed.
LEMMA TypeInit == Init => TypeOK
<1> SUFFICES ASSUME Init PROVE TypeOK
  OBVIOUS
<1>1. pc \in [Actors -> Phases] /\ op \in [Actors -> Locals]
  BY NoOpType DEF Init, Phases
<1>2. LocalsOK
  BY DEF Init, LocalsOK, LocalOK
<1>3. QED BY <1>1, <1>2 DEF Init, TypeOK, Views, Frames

\* Type correctness of the router: every variable, and the locals of every
\* handler in every phase, have the types the code gives them.
THEOREM TypeCorrect == Spec => []TypeOK
BY TypeInit, TypeStep, PTL DEF Spec

-----------------------------------------------------------------------------
(* What holds however the handlers overlap.                                *)

\* What one task holds: ids that were handed out; what it is removing, and
\* the supervision whose end it reports, are out of the registry.
LocalInv(a) ==
    /\ op[a].target \in used \cup {None}
    /\ op[a].next \in used \cup {None}
    /\ op[a].cause \in used \cup {None}
    /\ pc[a] \in {"stop", "restore", "removed"} => entries[op[a].target] = NoEntry
    /\ a \in Callbacks /\ pc[a] \notin {"idle", "ended"}
            => entries[op[a].cause] = NoEntry

\* The inductive invariant: every id in circulation has been handed out, and
\* the phone was told of the end of removed supervisions only.
OverlapInv ==
    /\ TypeOK
    /\ Registered \subseteq used
    /\ slot \in used \cup {None}
    /\ told \subseteq used
    /\ ToldOnlyRemoved
    /\ \A a \in Actors : LocalInv(a)

\* No section of set_active registers anything.
LEMMA SetActiveAddsNothing ==
    ASSUME TypeOK, NEW a \in Actors, SetActiveStep(a), NEW s \in SupIds,
           entries[s] = NoEntry
    PROVE  entries'[s] = NoEntry
<1> USE DEF registry, stream
<1>1. CASE Commit(a)
  <2> DEFINE es == DemoteEntry(entries, a)
  <2>1. es[s] = NoEntry /\ DOMAIN es = SupIds
    BY DEF DemoteEntry, TypeOK
  <2>2. entries' = MarkActive(es, a)
    BY <1>1 DEF Commit
  <2> HIDE DEF es
  <2>3. CASE es[op[a].target] = NoEntry
    BY <2>1, <2>2, <2>3 DEF MarkActive
  <2>4. CASE es[op[a].target] # NoEntry
    <3>1. s # op[a].target
      BY <2>1, <2>4
    <3>2. QED BY <2>1, <2>2, <2>4, <3>1 DEF MarkActive
  <2>5. QED BY <2>3, <2>4
<1>2. CASE Rollback(a)
  <2> DEFINE es == [entries EXCEPT ![op[a].target] = NoEntry]
  <2>1. es[s] = NoEntry /\ DOMAIN es = SupIds
    BY DEF TypeOK
  <2>2. entries' = DemoteEntry(es, a)
    BY <1>2 DEF Rollback, RollbackThen
  <2> HIDE DEF es
  <2>3. QED BY <2>1, <2>2 DEF DemoteEntry
<1>3. CASE Snapshot(a)
  BY <1>3 DEF Snapshot
<1>4. CASE Demote(a)
  BY <1>4 DEF Demote
<1>5. CASE Fit(a)
  BY <1>5 DEF Fit, FitWindow
<1>6. CASE StartStream(a)
  BY <1>6 DEF StartStream
<1>7. CASE AckSnapshot(a) \/ SendAck(a)
  BY <1>7 DEF AckSnapshot, SendAck
<1>8. CASE ListSnapshot(a) \/ SendList(a)
  BY <1>8 DEF ListSnapshot, SendList
<1>9. QED
  BY <1>1, <1>2, <1>3, <1>4, <1>5, <1>6, <1>7, <1>8 DEF SetActiveStep

\* A request registers a window, removes an entry, or leaves the entries alone.
LEMMA RequestEntries ==
    ASSUME Request
    PROVE  \/ UNCHANGED entries
           \/ \E w \in Windows : \E v : TryRegisterArmed(w, v)
           \/ \E s \in SupIds : RemoveEntry(Drainer, s)
<1> USE DEF registry
<1>1. CASE \E w \in Windows, v \in Viewports : SuperviseExisting(w, v)
  BY <1>1 DEF SuperviseExisting
<1>2. CASE \E v \in Viewports : SuperviseLaunch(v)
  BY <1>2 DEF SuperviseLaunch
<1>3. CASE \E s \in SupIds, v \in Viewports : SwitchActive(s, v)
  BY <1>3 DEF SwitchActive
<1>4. CASE \E s \in SupIds, v \in Viewports : ViewportChanged(s, v)
  BY <1>4 DEF ViewportChanged
<1>5. CASE \E s \in SupIds : RemoveSupervised(s)
  BY <1>5 DEF RemoveSupervised
<1>6. QED BY <1>1, <1>2, <1>3, <1>4, <1>5 DEF Request

\* Removed supervisions stay out of the registry in every step.
LEMMA GoneStep ==
    ASSUME TypeOK, [Next]_vars, NEW s \in used, entries[s] = NoEntry
    PROVE  entries'[s] = NoEntry
<1> USE DEF registry, stream, phone
<1>0. s \in SupIds
  BY DEF TypeOK
<1>1. ASSUME NEW a \in Actors, SetActiveStep(a)
      PROVE  entries'[s] = NoEntry
  BY <1>0, <1>1, SetActiveAddsNothing
<1>2. ASSUME NEW a \in Actors, RemoveStep(a)
      PROVE  entries'[s] = NoEntry
  BY <1>2 DEF RemoveStep, StopStream, Restore, Removed
<1>3. ASSUME NEW a \in Actors, NEW t \in SupIds, RemoveEntry(a, t)
      PROVE  entries'[s] = NoEntry
  BY <1>0, <1>3 DEF RemoveEntry, TypeOK
<1>4. ASSUME NEW w \in Windows, NEW v, TryRegisterArmed(w, v)
      PROVE  entries'[s] = NoEntry
  BY <1>0, <1>4 DEF TryRegisterArmed, TypeOK
<1>5. CASE Request
  BY <1>3, <1>4, <1>5, RequestEntries DEF Actors
<1>6. CASE DrainerStep
  <2>1. CASE WriteBack
    BY <1>0, <2>1 DEF WriteBack, TypeOK
  <2>2. QED
    BY <1>1, <1>2, <1>4, <1>6, <2>1
       DEF DrainerStep, LaunchRegister, LaunchReject, Refit, FitWindow, Actors
<1>7. ASSUME NEW c \in Callbacks, CallbackStep(c)
      PROVE  entries'[s] = NoEntry
  <2>1. c \in Actors /\ (pc[c] = "ended" => op[c].cause \in SupIds)
    BY DEF Actors, TypeOK, LocalsOK, LocalOK
  <2>2. QED
    BY <1>1, <1>2, <1>3, <1>7, <2>1 DEF CallbackStep, CallbackRemove, CallbackReport
<1>8. CASE Environment
  BY <1>8 DEF Environment, StreamFails, StreamEnds, WindowCloses
<1>9. CASE UNCHANGED vars
  BY <1>9 DEF vars
<1>10. QED BY <1>5, <1>6, <1>7, <1>8, <1>9 DEF Next

\* A supervision that was removed never comes back, for every interleaving of
\* the drainer with any number of stream-ended tasks.
THEOREM RemovalIsFinal == Spec => RemovedForGood
<1>1. TypeOK /\ [Next]_vars
        => [\A s \in used : entries[s] = NoEntry => entries'[s] = NoEntry]_vars
  BY GoneStep
<1>2. QED BY <1>1, TypeCorrect, PTL DEF Spec, RemovedForGood

\* A step adds nothing to the registry, or one id when there is room for it.
LEMMA RegisteredStep ==
    ASSUME TypeOK, [Next]_vars
    PROVE  \/ Registered' \subseteq Registered
           \/ HasRoom /\ \E s \in SupIds : Registered' \subseteq Registered \cup {s}
<1> USE DEF registry, stream, phone
<1>1. ASSUME NEW w, NEW v, TryRegisterArmed(w, v)
      PROVE  HasRoom /\ \E s \in SupIds : Registered' \subseteq Registered \cup {s}
  BY <1>1 DEF TryRegisterArmed, Registered, TypeOK
<1>2. ASSUME NEW a \in Actors, SetActiveStep(a)
      PROVE  Registered' \subseteq Registered
  BY <1>2, SetActiveAddsNothing DEF Registered
<1>3. ASSUME NEW a \in Actors, NEW t \in SupIds, RemoveEntry(a, t)
      PROVE  Registered' \subseteq Registered
  BY <1>3 DEF RemoveEntry, Registered, TypeOK
<1>4. ASSUME NEW a \in Actors, RemoveStep(a)
      PROVE  Registered' \subseteq Registered
  BY <1>4 DEF RemoveStep, StopStream, Restore, Removed, Registered
<1>5. CASE Request
  BY <1>1, <1>3, <1>5, RequestEntries DEF Actors, Registered
<1>6. CASE DrainerStep
  <2>1. CASE WriteBack
    BY <2>1 DEF WriteBack, Registered, TypeOK
  <2>2. QED
    BY <1>1, <1>2, <1>4, <1>6, <2>1
       DEF DrainerStep, LaunchRegister, LaunchReject, Refit, FitWindow, Actors,
           Registered
<1>7. ASSUME NEW c \in Callbacks, CallbackStep(c)
      PROVE  Registered' \subseteq Registered
  <2>1. c \in Actors /\ (pc[c] = "ended" => op[c].cause \in SupIds)
    BY DEF Actors, TypeOK, LocalsOK, LocalOK
  <2>2. QED
    BY <1>2, <1>3, <1>4, <1>7, <2>1
       DEF CallbackStep, CallbackRemove, CallbackReport, Registered
<1>8. CASE Environment
  BY <1>8 DEF Environment, StreamFails, StreamEnds, WindowCloses, Registered
<1>9. CASE UNCHANGED vars
  BY <1>9 DEF vars, Registered
<1>10. QED BY <1>5, <1>6, <1>7, <1>8, <1>9 DEF Next

\* The registry never outgrows MAX_SUPERVISIONS, for every limit, although the
\* limit is read before a launch and removals run beside the registrations.
THEOREM LimitKept == Spec => []WithinLimit
<1>1. ASSUME TypeOK PROVE IsFiniteSet(Registered)
  BY ConstantsAssumption, FS_Subset DEF Registered
<1>2. Init => WithinLimit
  <2>1. Init => Registered = {}
    BY ConstantsAssumption DEF Init, Registered
  <2>2. QED BY <2>1, FS_EmptySet, ConstantsAssumption DEF WithinLimit
<1>3. TypeOK /\ WithinLimit /\ [Next]_vars => WithinLimit'
  <2> SUFFICES ASSUME TypeOK, WithinLimit, [Next]_vars PROVE WithinLimit'
    OBVIOUS
  <2>1. /\ IsFiniteSet(Registered) /\ Cardinality(Registered) \in Nat
        /\ Cardinality(Registered') \in Nat
    <3>1. TypeOK'
      BY TypeStep
    <3>2. IsFiniteSet(Registered')
      BY <3>1, ConstantsAssumption, FS_Subset DEF Registered
    <3>3. QED BY <1>1, <3>2, FS_CardinalityType
  <2>2. CASE Registered' \subseteq Registered
    BY <2>1, <2>2, FS_Subset, ConstantsAssumption DEF WithinLimit
  <2>3. ASSUME HasRoom, NEW s \in SupIds, Registered' \subseteq Registered \cup {s}
        PROVE  WithinLimit'
    <3>1. /\ IsFiniteSet(Registered \cup {s})
          /\ Cardinality(Registered \cup {s}) \in Nat
          /\ Cardinality(Registered \cup {s}) <= Cardinality(Registered) + 1
      <4>1. /\ IsFiniteSet(Registered \cup {s})
            /\ Cardinality(Registered \cup {s}) =
                 IF s \in Registered THEN Cardinality(Registered)
                 ELSE Cardinality(Registered) + 1
        BY <2>1, FS_AddElement, Zenon
      <4>2. QED BY <2>1, <4>1
    <3>2. Cardinality(Registered') <= Cardinality(Registered \cup {s})
      BY <2>3, <3>1, FS_Subset
    <3>3. QED
      BY <2>1, <2>3, <3>1, <3>2, ConstantsAssumption DEF HasRoom, WithinLimit
  <2>4. QED BY <2>2, <2>3, RegisteredStep
<1>4. QED BY <1>2, <1>3, TypeCorrect, PTL DEF Spec

\* What is to be shown of a step of one task.
LEMMA OverlapOneTask ==
    ASSUME OverlapInv, [Next]_vars, NEW a \in Actors, LocalInv(a)',
           \A b \in Actors \ {a} : pc'[b] = pc[b] /\ op'[b] = op[b],
           used \subseteq used',
           \A s \in SupIds : entries'[s] # NoEntry => s \in used',
           slot' \in used' \cup {None},
           \A s \in told' : s \in told \/ (s \in used /\ entries[s] = NoEntry)
    PROVE  OverlapInv'
<1>1. TypeOK'
  BY TypeStep DEF OverlapInv
<1>2. \A s \in used : entries[s] = NoEntry => entries'[s] = NoEntry
  BY GoneStep DEF OverlapInv
<1>3. told' \subseteq used' /\ ToldOnlyRemoved'
  BY <1>2 DEF OverlapInv, ToldOnlyRemoved
<1>4. ASSUME NEW b \in Actors \ {a}
      PROVE  LocalInv(b)'
  <2>1. LocalInv(b) /\ LocalOK(b)
    BY DEF OverlapInv, TypeOK, LocalsOK
  <2>2. pc[b] \in {"stop", "restore", "removed"} => op[b].target \in used
    BY <2>1, ConstantsAssumption DEF LocalInv, LocalOK
  <2>3. b \in Callbacks /\ pc[b] \notin {"idle", "ended"} => op[b].cause \in used
    BY <2>1, ConstantsAssumption DEF LocalInv, LocalOK
  <2>4. QED BY <1>2, <2>1, <2>2, <2>3 DEF LocalInv
<1>5. QED
  BY <1>1, <1>3, <1>4 DEF OverlapInv, Registered

\* What Return and Forget leave in the locals.
LEMMA ReturnFields ==
    ASSUME TypeOK, NEW a \in Actors, Return(a)
    PROVE  /\ op'[a].target = None /\ op'[a].next = None /\ op'[a].old = None
           /\ op'[a].cause = op[a].cause
<1>1. op'[a] = [NoOp EXCEPT !.cause = op[a].cause]
  BY DEF Return, TypeOK
<1>2. QED BY <1>1 DEF NoOp

LEMMA ForgetFields ==
    ASSUME TypeOK, NEW a \in Actors, NEW s, Forget(a, s)
    PROVE  /\ op'[a].target = s /\ op'[a].next = None /\ op'[a].old = None
           /\ op'[a].cause = op[a].cause
<1>1. op'[a] = [NoOp EXCEPT !.target = s, !.cause = op[a].cause]
  BY DEF Forget, TypeOK
<1>2. QED BY <1>1 DEF NoOp

LEMMA OverlapSetActive ==
    ASSUME OverlapInv, [Next]_vars, NEW a \in Actors, SetActiveStep(a)
    PROVE  OverlapInv'
<1> USE DEF registry, stream, phone
<1>0. /\ LocalInv(a) /\ LocalOK(a) /\ TypeOK /\ pc[a] # "idle"
      /\ \A s \in used : entries[s] = NoEntry => entries'[s] = NoEntry
  BY GoneStep DEF OverlapInv, TypeOK, LocalsOK, SetActiveStep, Snapshot, Demote,
     Fit, StartStream, Commit, Rollback, RollbackThen, AckSnapshot, SendAck,
     ListSnapshot, SendList
<1>1. used' = used /\ told' = told
  BY DEF SetActiveStep, Snapshot, Demote, Fit, FitWindow, StartStream, Commit,
     Rollback, RollbackThen, AckSnapshot, SendAck, ListSnapshot, SendList
<1>2. \A s \in SupIds : entries'[s] # NoEntry => s \in used
  BY <1>0, SetActiveAddsNothing DEF OverlapInv, Registered
<1>3. slot' \in used \cup {None}
  BY <1>0
     DEF OverlapInv, LocalInv, SetActiveStep, Snapshot, Demote, StopStreamOf, Fit,
         FitWindow, StartStream, Commit, Rollback, RollbackThen, AckSnapshot,
         SendAck, ListSnapshot, SendList
<1>4. \A b \in Actors \ {a} : pc'[b] = pc[b] /\ op'[b] = op[b]
  BY <1>0
     DEF SetActiveStep, Snapshot, Demote, Fit, FitWindow, StartStream, Commit,
         Rollback, RollbackThen, AckSnapshot, SendAck, ListSnapshot, SendList,
         Goto, Forget, Return, TypeOK
<1>5. /\ op'[a].cause = op[a].cause
      /\ op'[a].target \in {op[a].target, None}
      /\ op'[a].next \in {op[a].next, None}
  <2>1. CASE Return(a)
    BY <1>0, <2>1, ReturnFields
  <2>2. ASSUME NEW s \in {op[a].target, None}, Forget(a, s)
        PROVE  /\ op'[a].cause = op[a].cause
               /\ op'[a].target \in {op[a].target, None}
               /\ op'[a].next \in {op[a].next, None}
    BY <1>0, <2>2, ForgetFields
  <2>3. CASE UNCHANGED op
    BY <2>3
  <2>4. ASSUME NEW w, NEW o,
               op' = [op EXCEPT ![a].window = w, ![a].old = o]
        PROVE  /\ op'[a].cause = op[a].cause
               /\ op'[a].target \in {op[a].target, None}
               /\ op'[a].next \in {op[a].next, None}
    BY <1>0, <2>4 DEF TypeOK, Locals
  <2>5. ASSUME NEW x,
               \/ op' = [op EXCEPT ![a].frame = x]
               \/ op' = [op EXCEPT ![a].msg = x]
        PROVE  /\ op'[a].cause = op[a].cause
               /\ op'[a].target \in {op[a].target, None}
               /\ op'[a].next \in {op[a].next, None}
    BY <1>0, <2>5 DEF TypeOK, Locals
  <2>6. QED
    BY <2>1, <2>2, <2>3, <2>4, <2>5
       DEF SetActiveStep, Snapshot, Demote, Fit, FitWindow, StartStream, Commit,
           Rollback, RollbackThen, AckSnapshot, SendAck, ListSnapshot, SendList
<1>6. pc'[a] \notin {"stop", "restore", "removed"} /\ pc[a] \notin {"idle", "ended"}
  BY <1>0
     DEF SetActiveStep, Snapshot, Demote, Fit, FitWindow, StartStream, Commit,
         Rollback, RollbackThen, AckSnapshot, SendAck, ListSnapshot, SendList,
         Goto, Return, TypeOK
<1>7. a \in Callbacks => op[a].cause \in used
  BY <1>0, ConstantsAssumption DEF LocalInv, LocalOK
<1>8. LocalInv(a)'
  BY <1>0, <1>1, <1>5, <1>6, <1>7 DEF LocalInv
<1>9. QED
  BY <1>1, <1>2, <1>3, <1>4, <1>8, OverlapOneTask

LEMMA OverlapRemoveEntry ==
    ASSUME OverlapInv, [Next]_vars, NEW a \in Actors, NEW s \in used,
           RemoveEntry(a, s), a \in Callbacks => pc[a] # "idle" /\ op[a].cause = s
    PROVE  OverlapInv'
<1> USE DEF registry, stream, phone
<1>0. LocalInv(a) /\ TypeOK /\ s \in SupIds
  BY DEF OverlapInv, TypeOK
<1>1. /\ used' = used /\ told' = told /\ slot' = slot
      /\ entries' = [entries EXCEPT ![s] = NoEntry]
  BY <1>0 DEF RemoveEntry, TypeOK
<1>2. \A b \in Actors \ {a} : pc'[b] = pc[b] /\ op'[b] = op[b]
  BY <1>0 DEF RemoveEntry, Goto, Return, TypeOK
<1>3. LocalInv(a)'
  <2>1. CASE entries[s] = NoEntry
    BY <1>0, <1>1, <2>1 DEF RemoveEntry, Return, LocalInv, TypeOK, NoOp
  <2>2. CASE entries[s] # NoEntry
    <3>1. PICK next \in NextArmed(s) :
            op' = [op EXCEPT ![a] =
                     [op[a] EXCEPT !.target = s, !.window = entries[s].window,
                                   !.frame = entries[s].original, !.next = next]]
      BY <1>0, <2>2 DEF RemoveEntry, TypeOK
    <3>2. next \in used \cup {None}
      BY DEF NextArmed, LexSmallest, OverlapInv
    <3>3. /\ op'[a].target = s /\ op'[a].next = next
          /\ op'[a].cause = op[a].cause
      BY <1>0, <3>1 DEF TypeOK, Locals
    <3>4. QED
      BY <1>0, <1>1, <3>2, <3>3 DEF LocalInv, TypeOK
  <2>3. QED BY <2>1, <2>2
<1>4. QED
  BY <1>0, <1>1, <1>2, <1>3, OverlapOneTask DEF OverlapInv, Registered, TypeOK

LEMMA OverlapRemoveStep ==
    ASSUME OverlapInv, [Next]_vars, NEW a \in Actors, RemoveStep(a)
    PROVE  OverlapInv'
<1> USE DEF registry, stream, phone
<1>0. LocalInv(a) /\ LocalOK(a) /\ TypeOK
  BY DEF OverlapInv, TypeOK, LocalsOK
<1>1. /\ used' = used /\ entries' = entries
      /\ slot' \in {slot, None}
      /\ told' \subseteq told \cup {op[a].target}
  BY DEF RemoveStep, StopStream, StopStreamOf, Restore, Removed, SendStreamEnded
<1>2. \A b \in Actors \ {a} : pc'[b] = pc[b] /\ op'[b] = op[b]
  BY <1>0 DEF RemoveStep, StopStream, Restore, Removed, Goto, Forget, TypeOK
<1>3. pc[a] \in {"stop", "restore", "removed"}
  BY DEF RemoveStep, StopStream, Restore, Removed
<1>4. op[a].target \in used /\ entries[op[a].target] = NoEntry
  BY <1>0, <1>3, ConstantsAssumption DEF LocalInv, LocalOK
<1>5. /\ op'[a].cause = op[a].cause
      /\ op'[a].target \in {op[a].target, op[a].next, None}
      /\ op'[a].next \in {op[a].next, None}
  <2>0. op \in [Actors -> Locals]
    BY <1>0 DEF TypeOK
  <2>1. CASE StopStream(a)
    BY <2>1 DEF StopStream
  <2>2. CASE Restore(a)
    <3>1. op'[a] = [op[a] EXCEPT !.window = None, !.frame = NoFrame]
      BY <2>0, <2>2 DEF Restore
    <3>2. QED
      BY <2>0, <3>1 DEF Locals
  <2>3. CASE Removed(a)
    <3>1. Forget(a, None) \/ (op[a].next # None /\ Forget(a, op[a].next))
      BY <2>3 DEF Removed
    <3>2. QED
      BY <1>0, <3>1, ForgetFields
  <2>4. QED
    BY <2>1, <2>2, <2>3 DEF RemoveStep
<1>6. pc'[a] \in {"restore", "removed"} => op'[a].target = op[a].target
  BY <1>0 DEF RemoveStep, StopStream, Restore, Removed, Goto, TypeOK, Locals
<1>7. pc'[a] # "stop"
  BY <1>0 DEF RemoveStep, StopStream, Restore, Removed, Goto, TypeOK
<1>8. LocalInv(a)'
  BY <1>0, <1>1, <1>3, <1>4, <1>5, <1>6, <1>7 DEF LocalInv
<1>9. QED
  BY <1>0, <1>1, <1>2, <1>4, <1>8, OverlapOneTask DEF OverlapInv, Registered

LEMMA OverlapRegister ==
    ASSUME OverlapInv, [Next]_vars, NEW w \in Windows,
           NEW v \in Viewports \cup {OwnSize}, TryRegisterArmed(w, v),
           UNCHANGED <<stream, phone>>
    PROVE  OverlapInv'
<1> USE DEF stream, phone
<1>0. TypeOK /\ Drainer \in Actors \ Callbacks
  BY ConstantsAssumption DEF OverlapInv, Actors
<1>1. PICK s \in SupIds \ used :
        /\ entries' = [entries EXCEPT ![s] =
                         [window |-> w, status |-> "Armed", original |-> NoFrame]]
        /\ used' = used \cup {s}
        /\ pc' = [pc EXCEPT ![Drainer] = "snapshot"]
        /\ op' = [op EXCEPT ![Drainer] =
                    [NoOp EXCEPT !.target = s, !.viewport = v]]
  BY DEF TryRegisterArmed, Goto
<1>2. \A t \in SupIds : entries'[t] # NoEntry => t \in used'
  BY <1>0, <1>1 DEF OverlapInv, Registered, TypeOK
<1>3. LocalInv(Drainer)'
  BY <1>0, <1>1 DEF LocalInv, NoOp, TypeOK
<1>4. slot' \in used' \cup {None} /\ told' = told
  BY <1>1 DEF OverlapInv
<1>5. QED
  BY <1>0, <1>1, <1>2, <1>3, <1>4, OverlapOneTask DEF TypeOK

LEMMA OverlapRequest ==
    ASSUME OverlapInv, [Next]_vars, Request PROVE OverlapInv'
<1> USE DEF registry, stream, phone
<1>0. TypeOK /\ LocalInv(Drainer) /\ Drainer \in Actors \ Callbacks
  BY ConstantsAssumption DEF OverlapInv, Actors
<1>1. ASSUME NEW w \in Windows, NEW v \in Viewports, SuperviseExisting(w, v)
      PROVE  OverlapInv'
  BY <1>1, OverlapRegister DEF SuperviseExisting
<1>2. ASSUME NEW s \in SupIds, RemoveSupervised(s)
      PROVE  OverlapInv'
  BY <1>0, <1>2, OverlapRemoveEntry DEF RemoveSupervised
<1>3. ASSUME NEW v \in Viewports, SuperviseLaunch(v)
      PROVE  OverlapInv'
  <2>1. LocalInv(Drainer)'
    BY <1>0, <1>3 DEF SuperviseLaunch, Goto, LocalInv, TypeOK, Locals
  <2>2. QED
    BY <1>0, <1>3, <2>1, OverlapOneTask
       DEF SuperviseLaunch, Goto, TypeOK, OverlapInv, Registered
<1>4. ASSUME NEW s \in SupIds, NEW v \in Viewports,
             SwitchActive(s, v) \/ ViewportChanged(s, v)
      PROVE  OverlapInv'
  <2>1. s \in used
    BY <1>4 DEF SwitchActive, ViewportChanged, OverlapInv, Registered
  <2>2. LocalInv(Drainer)'
    <3>1. /\ op'[Drainer].target = s /\ op'[Drainer].next = None
          /\ op'[Drainer].cause = None
      BY <1>0, <1>4 DEF SwitchActive, ViewportChanged, NoOp, TypeOK
    <3>2. pc'[Drainer] \in {"snapshot", "refit"} /\ used' = used
      BY <1>0, <1>4 DEF SwitchActive, ViewportChanged, Goto, TypeOK
    <3>3. QED BY <1>0, <2>1, <3>1, <3>2 DEF LocalInv
  <2>3. QED
    BY <1>0, <1>4, <2>2, OverlapOneTask
       DEF SwitchActive, ViewportChanged, Goto, TypeOK, OverlapInv, Registered
<1>5. QED BY <1>1, <1>2, <1>3, <1>4 DEF Request

LEMMA OverlapDrainer ==
    ASSUME OverlapInv, [Next]_vars, DrainerStep PROVE OverlapInv'
<1> USE DEF registry, stream, phone
<1>0. TypeOK /\ LocalInv(Drainer) /\ Drainer \in Actors \ Callbacks
  BY ConstantsAssumption DEF OverlapInv, Actors
<1>1. ASSUME NEW w \in Windows, LaunchRegister(w)
      PROVE  OverlapInv'
  BY <1>0, <1>1, LocalFields, OverlapRegister DEF LaunchRegister
<1>2. CASE LaunchReject \/ WriteBack
  <2>1. LocalInv(Drainer)'
    <3>1. /\ op'[Drainer].target = None /\ op'[Drainer].next = None
          /\ op'[Drainer].cause = op[Drainer].cause
      BY <1>0, <1>2, ReturnFields, ForgetFields DEF LaunchReject, WriteBack
    <3>2. pc'[Drainer] \in {"idle", "list"} /\ used' = used
      BY <1>0, <1>2 DEF LaunchReject, WriteBack, Return, Goto, TypeOK
    <3>3. QED BY <1>0, <3>1, <3>2 DEF LocalInv
  <2>2. \A s \in SupIds : entries'[s] # NoEntry => s \in used'
    <3>1. CASE UNCHANGED entries
      BY <1>2, <3>1 DEF LaunchReject, WriteBack, OverlapInv, Registered
    <3>2. CASE WriteBack /\ entries[op[Drainer].target] # NoEntry
      BY <1>0, <3>2 DEF WriteBack, OverlapInv, Registered, TypeOK
    <3>3. QED BY <1>2, <3>1, <3>2 DEF LaunchReject, WriteBack
  <2>3. QED
    BY <1>0, <1>2, <2>1, <2>2, OverlapOneTask
       DEF LaunchReject, WriteBack, Return, Forget, Goto, TypeOK, OverlapInv
<1>3. CASE Refit
  <2>1. LocalInv(Drainer)'
    BY <1>0, <1>3 DEF Refit, FitWindow, Goto, LocalInv, TypeOK, Locals
  <2>2. QED
    BY <1>0, <1>3, <2>1, OverlapOneTask
       DEF Refit, FitWindow, Goto, TypeOK, OverlapInv, Registered
<1>4. QED
  BY <1>0, <1>1, <1>2, <1>3, OverlapSetActive, OverlapRemoveStep DEF DrainerStep

LEMMA OverlapCallback ==
    ASSUME OverlapInv, [Next]_vars, NEW c \in Callbacks, CallbackStep(c)
    PROVE  OverlapInv'
<1> USE DEF registry, stream, phone
<1>0. c \in Actors /\ LocalInv(c) /\ LocalOK(c) /\ TypeOK
  BY DEF Actors, OverlapInv, TypeOK, LocalsOK
<1>1. pc[c] # "idle" => op[c].cause \in used
  BY <1>0, ConstantsAssumption DEF LocalInv, LocalOK
<1>2. CASE CallbackRemove(c)
  BY <1>0, <1>1, <1>2, OverlapRemoveEntry DEF CallbackRemove
<1>3. CASE CallbackReport(c)
  <2>1. LocalInv(c)'
    BY <1>0, <1>3 DEF CallbackReport, Goto, LocalInv, NoOp, TypeOK
  <2>2. told' = told \cup {op[c].cause} /\ entries[op[c].cause] = NoEntry
    BY <1>0, <1>3 DEF CallbackReport, SendStreamEnded, LocalInv
  <2>3. QED
    BY <1>0, <1>1, <1>3, <2>1, <2>2, OverlapOneTask
       DEF CallbackReport, Goto, TypeOK, OverlapInv, Registered
<1>4. QED
  BY <1>0, <1>2, <1>3, OverlapSetActive, OverlapRemoveStep DEF CallbackStep

LEMMA OverlapEnvironment ==
    ASSUME OverlapInv, [Next]_vars, Environment PROVE OverlapInv'
<1> USE DEF registry, stream, phone
<1>1. ASSUME NEW c \in Callbacks, StreamFails(c)
      PROVE  OverlapInv'
  <2>1. c \in Actors /\ TypeOK
    BY DEF Actors, OverlapInv
  <2>2. LocalInv(c)'
    BY <1>1, <2>1 DEF StreamFails, StreamEnds, Goto, LocalInv, NoOp, TypeOK, OverlapInv
  <2>3. QED
    BY <1>1, <2>1, <2>2, OverlapOneTask
       DEF StreamFails, StreamEnds, Goto, TypeOK, OverlapInv, Registered
<1>2. ASSUME NEW w \in Windows, WindowCloses(w)
      PROVE  OverlapInv'
  <2>1. TypeOK'
    BY TypeStep DEF OverlapInv
  <2>2. QED
    BY <1>2, <2>1 DEF WindowCloses, OverlapInv, Registered, ToldOnlyRemoved, LocalInv
<1>3. QED BY <1>1, <1>2 DEF Environment

LEMMA OverlapStep == OverlapInv /\ [Next]_vars => OverlapInv'
<1> SUFFICES ASSUME OverlapInv, [Next]_vars PROVE OverlapInv'
  OBVIOUS
<1>1. CASE UNCHANGED vars
  <2>1. TypeOK'
    BY TypeStep DEF OverlapInv
  <2>2. QED
    BY <1>1, <2>1 DEF vars, OverlapInv, Registered, ToldOnlyRemoved, LocalInv
<1>2. QED
  BY <1>1, OverlapRequest, OverlapDrainer, OverlapCallback, OverlapEnvironment DEF Next

LEMMA OverlapInit == Init => OverlapInv
<1> SUFFICES ASSUME Init PROVE OverlapInv
  OBVIOUS
<1>1. TypeOK
  BY TypeInit
<1>2. QED
  BY <1>1 DEF Init, OverlapInv, Registered, ToldOnlyRemoved, LocalInv, NoOp, Actors

\* The phone is told that a supervision ended only when it is out of the
\* registry, for every interleaving of the drainer with the tasks.
THEOREM ToldIsRemoved == Spec => []ToldOnlyRemoved
<1>1. OverlapInv => ToldOnlyRemoved
  BY DEF OverlapInv
<1>2. QED BY <1>1, OverlapInit, OverlapStep, PTL DEF Spec

-----------------------------------------------------------------------------
(* What holds when no two handlers overlap.                                *)

SwitchPhases == {"demote", "fit", "start", "commit", "rollback"}

\* Where a switch may have emptied the slot, or refilled it.
SlotPhases == {"fit", "start", "commit", "rollback"}

\* The copy of active_sup that set_active took is still right, and so is its
\* look at the new entry; the new stream is in the slot when it commits.
SwitchInv(a) ==
    /\ pc[a] \in SwitchPhases => /\ op[a].old = activeSup
                                 /\ entries[op[a].target] # NoEntry
    /\ pc[a] = "commit" => slot = op[a].target

\* active_sup names the Active entry.
ActiveInv == \A s \in SupIds : IsActive(s) <=> activeSup = s

\* Outside a switch, the slot holds the active stream.
SlotInv ==
    (\A a \in Actors : pc[a] \notin SlotPhases)
        => (activeSup # None => slot = activeSup)

SerialInv ==
    /\ OverlapInv
    /\ OneAtATime
    /\ ActiveInv
    /\ \A a \in Actors : SwitchInv(a)
    /\ SlotInv

\* While one task runs a handler, no other is inside one.
LEMMA SerialOthers ==
    ASSUME SerialInv, OneAtATime', NEW a \in Actors, Busy(a) \/ Busy(a)',
           \A b \in Actors \ {a} : pc'[b] = pc[b]
    PROVE  /\ \A b \in Actors \ {a} : pc[b] \in {"idle", "ended"}
           /\ pc[a] \notin SlotPhases => (activeSup # None => slot = activeSup)
<1>1. \A b \in Actors \ {a} : pc[b] \in {"idle", "ended"}
  BY DEF SerialInv, OneAtATime, Busy
<1>2. QED BY <1>1 DEF SerialInv, SlotInv, SlotPhases

\* What is to be shown of a step inside a handler, or into or out of one.
LEMMA SerialTask ==
    ASSUME SerialInv, OverlapInv', OneAtATime', NEW a \in Actors,
           Busy(a) \/ Busy(a)',
           \A b \in Actors \ {a} : pc'[b] = pc[b] /\ op'[b] = op[b],
           ActiveInv', SwitchInv(a)',
           pc'[a] \notin SlotPhases => (activeSup' # None => slot' = activeSup')
    PROVE  SerialInv'
<1>1. \A b \in Actors \ {a} : pc'[b] \in {"idle", "ended"}
  BY SerialOthers
<1>2. \A b \in Actors \ {a} : SwitchInv(b)'
  BY <1>1 DEF SwitchInv, SwitchPhases
<1>3. SlotInv'
  BY DEF SlotInv
<1>4. QED BY <1>2, <1>3 DEF SerialInv

\* A step that leaves the registry and the slot alone, outside a switch.
LEMMA SerialQuiet ==
    ASSUME SerialInv, OverlapInv', OneAtATime', NEW a \in Actors,
           UNCHANGED <<entries, activeSup, slot>>,
           \A b \in Actors \ {a} : pc'[b] = pc[b] /\ op'[b] = op[b],
           pc[a] \notin SwitchPhases, pc'[a] \notin SwitchPhases
    PROVE  SerialInv'
<1>1. ActiveInv'
  BY DEF SerialInv, ActiveInv, IsActive
<1>2. \A b \in Actors : SwitchInv(b)'
  BY DEF SerialInv, SwitchInv, SwitchPhases
<1>3. SlotInv'
  BY DEF SerialInv, SlotInv, SlotPhases, SwitchPhases
<1>4. QED BY <1>1, <1>2, <1>3 DEF SerialInv

\* A step of set_active, when it runs alone.
LEMMA SerialSetActive ==
    ASSUME SerialInv, OverlapInv', OneAtATime', NEW a \in Actors, SetActiveStep(a)
    PROVE  SerialInv'
<1> USE DEF registry, stream, phone
<1>0. /\ TypeOK /\ LocalOK(a) /\ SwitchInv(a) /\ ActiveInv /\ Busy(a)
      /\ None \notin SupIds
  BY ConstantsAssumption
     DEF SerialInv, OverlapInv, TypeOK, LocalsOK, Busy, SetActiveStep, Snapshot,
         Demote, Fit, StartStream, Commit, Rollback, RollbackThen, AckSnapshot,
         SendAck, ListSnapshot, SendList
<1>1. \A b \in Actors \ {a} : pc'[b] = pc[b] /\ op'[b] = op[b]
  BY <1>0
     DEF SetActiveStep, Snapshot, Demote, Fit, FitWindow, StartStream, Commit,
         Rollback, RollbackThen, AckSnapshot, SendAck, ListSnapshot, SendList,
         Goto, Forget, Return, TypeOK
<1>2. pc[a] \notin SlotPhases => (activeSup # None => slot = activeSup)
  BY <1>0, <1>1, SerialOthers
<1>3. CASE Snapshot(a)
  <2>1. ActiveInv' /\ UNCHANGED <<entries, activeSup, slot>>
    BY <1>0, <1>3 DEF Snapshot, ActiveInv, IsActive
  <2>2. CASE Return(a)
    BY <1>0, <1>1, <1>3, <2>1, <2>2, SerialQuiet
       DEF Snapshot, Return, SwitchPhases, TypeOK
  <2>3. CASE /\ entries[op[a].target] # NoEntry
             /\ Goto(a, "demote")
             /\ op' = [op EXCEPT ![a].window = entries[op[a].target].window,
                                 ![a].old = activeSup]
    <3>1. op'[a].target = op[a].target /\ op'[a].old = activeSup
      BY <1>0, <2>3 DEF TypeOK, Locals
    <3>2. pc'[a] = "demote"
      BY <1>0, <2>3 DEF Goto, TypeOK
    <3>3. SwitchInv(a)'
      BY <2>1, <2>3, <3>1, <3>2 DEF SwitchInv, SwitchPhases
    <3>4. QED
      BY <1>0, <1>1, <1>2, <1>3, <2>1, <3>2, <3>3, SerialTask DEF Snapshot, SlotPhases
  <2>4. QED BY <1>3, <2>2, <2>3 DEF Snapshot
<1>4. CASE Demote(a)
  BY <1>0, <1>1, <1>4, SerialTask
     DEF Demote, Goto, SwitchInv, SwitchPhases, SlotPhases, ActiveInv, IsActive, TypeOK
<1>5. CASE Fit(a)
  <2>1. op'[a].target = op[a].target /\ op'[a].old = op[a].old
    BY <1>0, <1>5 DEF Fit, FitWindow, TypeOK, Locals
  <2>2. pc'[a] = "start" /\ pc[a] = "fit"
    BY <1>0, <1>5 DEF Fit, FitWindow, Goto, TypeOK
  <2>3. ActiveInv' /\ UNCHANGED <<entries, activeSup, slot>>
    BY <1>0, <1>5 DEF Fit, FitWindow, ActiveInv, IsActive
  <2>4. SwitchInv(a)'
    BY <1>0, <2>1, <2>2, <2>3 DEF SwitchInv, SwitchPhases
  <2>5. QED
    BY <1>0, <1>1, <2>2, <2>3, <2>4, SerialTask DEF SlotPhases
<1>6. CASE StartStream(a)
  BY <1>0, <1>1, <1>6, SerialTask
     DEF StartStream, Goto, SwitchInv, SwitchPhases, SlotPhases, ActiveInv, IsActive,
         TypeOK
<1>7. CASE Commit(a)
  <2>1. /\ op[a].target \in SupIds /\ op[a].old = activeSup
        /\ entries[op[a].target] # NoEntry /\ slot = op[a].target
    BY <1>0, <1>7 DEF Commit, LocalOK, SwitchInv, SwitchPhases
  <2>2. \A s \in SupIds : IsActive(s)' <=> s = op[a].target
    <3> DEFINE es == DemoteEntry(entries, a)
    <3>1. entries' = MarkActive(es, a)
      BY <1>7 DEF Commit
    <3>2. /\ es \in [SupIds -> Entries \cup {NoEntry}]
          /\ \A s \in SupIds \ {op[a].target} :
               es[s] = NoEntry \/ es[s].status # "Active"
          /\ es[op[a].target] = entries[op[a].target]
      BY <1>0, <2>1 DEF DemoteEntry, IsActive, ActiveInv, TypeOK, Entries
    <3> HIDE DEF es
    <3>3. entries'[op[a].target].status = "Active"
      BY <1>0, <2>1, <3>1, <3>2 DEF MarkActive, TypeOK, Entries
    <3>4. entries'[op[a].target] \in Entries
      BY <2>1, <3>1, <3>2, LocalFields, <1>0 DEF MarkActive, Entries
    <3>5. NoEntry \notin Entries
      BY ConstantsAssumption DEF Entries, Frames
    <3>6. \A s \in SupIds \ {op[a].target} : entries'[s] = es[s]
      BY <2>1, <3>1, <3>2 DEF MarkActive
    <3>7. QED BY <2>1, <3>2, <3>3, <3>4, <3>5, <3>6 DEF IsActive
  <2>4. activeSup' = op[a].target /\ slot' = slot /\ pc'[a] = "ack"
    BY <1>0, <1>7 DEF Commit, Goto, TypeOK
  <2>5. ActiveInv' /\ SwitchInv(a)'
    BY <2>1, <2>2, <2>4 DEF ActiveInv, SwitchInv, SwitchPhases
  <2>6. QED BY <1>0, <1>1, <2>1, <2>4, <2>5, SerialTask
<1>8. CASE Rollback(a)
  <2>1. op[a].target \in SupIds /\ op[a].old = activeSup
    BY <1>0, <1>8 DEF Rollback, RollbackThen, LocalOK, SwitchInv, SwitchPhases
  <2>2. \A s \in SupIds : IsActive(s)' => FALSE
    BY <1>0, <1>8, <2>1
       DEF Rollback, RollbackThen, DemoteEntry, IsActive, ActiveInv, TypeOK, Entries
  <2>3. activeSup' = None /\ pc'[a] = "list"
    BY <1>0, <1>8 DEF Rollback, RollbackThen, Goto, TypeOK
  <2>4. ActiveInv' /\ SwitchInv(a)'
    BY <1>0, <2>2, <2>3 DEF ActiveInv, SwitchInv, SwitchPhases
  <2>5. QED BY <1>0, <1>1, <2>3, <2>4, SerialTask
<1>9. CASE AckSnapshot(a) \/ SendAck(a) \/ ListSnapshot(a) \/ SendList(a)
  BY <1>0, <1>1, <1>9, SerialQuiet
     DEF AckSnapshot, SendAck, ListSnapshot, SendList, Goto, Return, SwitchPhases,
         TypeOK
<1>10. QED
  BY <1>3, <1>4, <1>5, <1>6, <1>7, <1>8, <1>9 DEF SetActiveStep

\* Removing an entry, when no other handler runs.
LEMMA SerialRemoveEntry ==
    ASSUME SerialInv, OverlapInv', OneAtATime', NEW a \in Actors, NEW s \in SupIds,
           RemoveEntry(a, s), pc[a] \in {"idle", "ended"}
    PROVE  SerialInv'
<1> USE DEF registry, stream, phone
<1>0. TypeOK /\ ActiveInv /\ None \notin SupIds
  BY ConstantsAssumption DEF SerialInv, OverlapInv
<1>1. \A b \in Actors \ {a} : pc'[b] = pc[b] /\ op'[b] = op[b]
  BY <1>0 DEF RemoveEntry, Goto, Return, TypeOK
<1>2. CASE entries[s] = NoEntry
  BY <1>0, <1>1, <1>2, SerialQuiet
     DEF RemoveEntry, Return, ActiveInv, IsActive, SwitchPhases, TypeOK
<1>3. CASE entries[s] # NoEntry
  <2>1. pc'[a] \in {"stop", "restore"} /\ slot' = slot
    BY <1>0, <1>3 DEF RemoveEntry, Goto, TypeOK
  <2>2. activeSup # None => slot = activeSup
    BY <1>1, <2>1, SerialOthers DEF Busy, SlotPhases
  <2>3. ActiveInv'
    BY <1>0, <1>3 DEF RemoveEntry, ActiveInv, IsActive, TypeOK
  <2>4. activeSup' \in {activeSup, None}
    BY <1>3 DEF RemoveEntry
  <2>5. SwitchInv(a)'
    BY <2>1 DEF SwitchInv, SwitchPhases
  <2>6. QED BY <1>1, <2>1, <2>2, <2>3, <2>4, <2>5, SerialTask DEF Busy
<1>4. QED BY <1>2, <1>3

\* The later steps of a removal, when it runs alone.
LEMMA SerialRemoveStep ==
    ASSUME SerialInv, OverlapInv', OneAtATime', NEW a \in Actors, RemoveStep(a)
    PROVE  SerialInv'
<1> USE DEF registry, stream, phone
<1>0. TypeOK /\ LocalInv(a) /\ ActiveInv
  BY DEF SerialInv, OverlapInv
<1>1. \A b \in Actors \ {a} : pc'[b] = pc[b] /\ op'[b] = op[b]
  BY <1>0 DEF RemoveStep, StopStream, Restore, Removed, Goto, Forget, TypeOK
<1>2. CASE StopStream(a)
  <2>1. entries[op[a].target] = NoEntry /\ Busy(a) /\ pc[a] = "stop"
    BY <1>0, <1>2 DEF StopStream, LocalInv, Busy
  <2>2. activeSup # None => slot = activeSup
    BY <1>1, <2>1, SerialOthers DEF SlotPhases
  <2>3. activeSup # None => activeSup # op[a].target
    BY <1>0, <2>1 DEF ActiveInv, IsActive, TypeOK
  <2>4. activeSup' = activeSup /\ (activeSup # None => slot' = activeSup)
    BY <1>2, <2>2, <2>3 DEF StopStream, StopStreamOf
  <2>5. ActiveInv' /\ SwitchInv(a)'
    BY <1>0, <1>2 DEF StopStream, Goto, ActiveInv, IsActive, SwitchInv, SwitchPhases,
                      TypeOK
  <2>6. QED BY <1>1, <2>1, <2>4, <2>5, SerialTask
<1>3. CASE Restore(a) \/ Removed(a)
  BY <1>0, <1>1, <1>3, SerialQuiet
     DEF Restore, Removed, Goto, SwitchPhases, TypeOK
<1>4. QED BY <1>2, <1>3 DEF RemoveStep

\* Registering a window, when no other handler runs.
LEMMA SerialRegister ==
    ASSUME SerialInv, OverlapInv', OneAtATime', NEW w \in Windows, NEW v,
           TryRegisterArmed(w, v), slot' = slot,
           pc[Drainer] \in {"idle", "launching"}
    PROVE  SerialInv'
<1>0. TypeOK /\ ActiveInv /\ Drainer \in Actors /\ Registered \subseteq used
  BY DEF SerialInv, OverlapInv, Actors
<1>1. PICK s \in SupIds \ used :
        /\ entries' = [entries EXCEPT ![s] =
                         [window |-> w, status |-> "Armed", original |-> NoFrame]]
        /\ pc' = [pc EXCEPT ![Drainer] = "snapshot"]
        /\ op' = [op EXCEPT ![Drainer] =
                    [NoOp EXCEPT !.target = s, !.viewport = v]]
        /\ activeSup' = activeSup
  BY DEF TryRegisterArmed, Goto
<1>2. /\ \A b \in Actors \ {Drainer} : pc'[b] = pc[b] /\ op'[b] = op[b]
      /\ Busy(Drainer)'
  BY <1>0, <1>1 DEF TypeOK, Busy
<1>3. activeSup # None => slot = activeSup
  BY <1>0, <1>2, SerialOthers DEF SlotPhases
<1>4. activeSup # s
  BY <1>0 DEF ActiveInv, IsActive, Registered
<1>5. ActiveInv'
  BY <1>0, <1>1, <1>4 DEF ActiveInv, IsActive, TypeOK
<1>6. SwitchInv(Drainer)'
  BY <1>0, <1>1 DEF SwitchInv, SwitchPhases, TypeOK
<1>7. QED BY <1>0, <1>1, <1>2, <1>3, <1>5, <1>6, SerialTask

LEMMA SerialRequest ==
    ASSUME SerialInv, OverlapInv', OneAtATime', Request PROVE SerialInv'
<1> USE DEF registry, stream, phone
<1>0. TypeOK /\ ActiveInv /\ Drainer \in Actors
  BY DEF SerialInv, OverlapInv, Actors
<1>1. ASSUME NEW w \in Windows, NEW v \in Viewports, SuperviseExisting(w, v)
      PROVE  SerialInv'
  BY <1>1, SerialRegister DEF SuperviseExisting
<1>2. ASSUME NEW v \in Viewports, SuperviseLaunch(v)
      PROVE  SerialInv'
  BY <1>0, <1>2, SerialQuiet DEF SuperviseLaunch, Goto, SwitchPhases, TypeOK
<1>3. ASSUME NEW s \in SupIds, NEW v \in Viewports,
             SwitchActive(s, v) \/ ViewportChanged(s, v)
      PROVE  SerialInv'
  BY <1>0, <1>3, SerialQuiet
     DEF SwitchActive, ViewportChanged, Goto, SwitchPhases, TypeOK
<1>4. ASSUME NEW s \in SupIds, RemoveSupervised(s)
      PROVE  SerialInv'
  BY <1>0, <1>4, SerialRemoveEntry DEF RemoveSupervised
<1>5. QED BY <1>1, <1>2, <1>3, <1>4 DEF Request

LEMMA SerialDrainer ==
    ASSUME SerialInv, OverlapInv', OneAtATime', DrainerStep PROVE SerialInv'
<1> USE DEF registry, stream, phone
<1>0. TypeOK /\ ActiveInv /\ Drainer \in Actors
  BY DEF SerialInv, OverlapInv, Actors
<1>1. ASSUME NEW w \in Windows, LaunchRegister(w)
      PROVE  SerialInv'
  BY <1>1, SerialRegister DEF LaunchRegister
<1>2. CASE LaunchReject
  BY <1>0, <1>2, SerialQuiet DEF LaunchReject, Return, SwitchPhases, TypeOK
<1>3. CASE Refit
  BY <1>0, <1>3, SerialQuiet DEF Refit, FitWindow, Goto, SwitchPhases, TypeOK
<1>4. CASE WriteBack
  <2>1. /\ \A b \in Actors \ {Drainer} : pc'[b] = pc[b] /\ op'[b] = op[b]
        /\ Busy(Drainer) /\ pc[Drainer] = "writeBack" /\ pc'[Drainer] = "list"
        /\ activeSup' = activeSup /\ slot' = slot
    BY <1>0, <1>4 DEF WriteBack, Goto, Forget, TypeOK, Busy
  <2>2. activeSup # None => slot = activeSup
    BY <1>0, <2>1, SerialOthers DEF SlotPhases
  <2>3. \A s \in SupIds : IsActive(s)' <=> IsActive(s)
    <3>1. CASE entries' = entries
      BY <3>1 DEF IsActive
    <3>2. CASE /\ entries[op[Drainer].target] # NoEntry
               /\ entries' = [entries EXCEPT ![op[Drainer].target].original =
                                op[Drainer].frame]
      <4>1. op[Drainer].target \in SupIds
        BY <1>0, <2>1 DEF TypeOK, LocalsOK, LocalOK
      <4>2. /\ entries'[op[Drainer].target].status
                 = entries[op[Drainer].target].status
            /\ entries'[op[Drainer].target] \in Entries
        BY <1>0, <3>2, <4>1, LocalFields DEF TypeOK, Entries
      <4>3. NoEntry \notin Entries
        BY ConstantsAssumption DEF Entries, Frames
      <4>4. QED BY <1>0, <3>2, <4>1, <4>2, <4>3 DEF IsActive, TypeOK
    <3>3. QED BY <1>4, <3>1, <3>2 DEF WriteBack
  <2>4. ActiveInv' /\ SwitchInv(Drainer)'
    BY <1>0, <2>1, <2>3 DEF ActiveInv, SwitchInv, SwitchPhases
  <2>5. QED BY <1>0, <2>1, <2>2, <2>4, SerialTask
<1>5. QED
  BY <1>0, <1>1, <1>2, <1>3, <1>4, SerialSetActive, SerialRemoveStep DEF DrainerStep

LEMMA SerialCallback ==
    ASSUME SerialInv, OverlapInv', OneAtATime', NEW c \in Callbacks, CallbackStep(c)
    PROVE  SerialInv'
<1> USE DEF registry, stream, phone
<1>0. TypeOK /\ LocalOK(c) /\ c \in Actors
  BY DEF SerialInv, OverlapInv, Actors, TypeOK, LocalsOK
<1>1. CASE CallbackRemove(c)
  BY <1>0, <1>1, SerialRemoveEntry DEF CallbackRemove, LocalOK
<1>2. CASE CallbackReport(c)
  BY <1>0, <1>2, SerialQuiet DEF CallbackReport, Goto, SwitchPhases, TypeOK
<1>3. QED
  BY <1>0, <1>1, <1>2, SerialSetActive, SerialRemoveStep DEF CallbackStep

LEMMA SerialEnvironment ==
    ASSUME SerialInv, OverlapInv', OneAtATime', Environment PROVE SerialInv'
<1> USE DEF registry, stream, phone
<1>0. TypeOK
  BY DEF SerialInv, OverlapInv
<1>1. ASSUME NEW c \in Callbacks, StreamFails(c)
      PROVE  SerialInv'
  BY <1>0, <1>1, SerialQuiet DEF StreamFails, StreamEnds, Goto, SwitchPhases, TypeOK,
     Actors
<1>2. ASSUME NEW w \in Windows, WindowCloses(w)
      PROVE  SerialInv'
  BY <1>2 DEF WindowCloses, SerialInv, ActiveInv, IsActive, SwitchInv, SlotInv
<1>3. QED BY <1>1, <1>2 DEF Environment

LEMMA SerialStep == SerialInv /\ [SerialNext]_vars => SerialInv'
<1> SUFFICES ASSUME SerialInv, [SerialNext]_vars PROVE SerialInv'
  OBVIOUS
<1>1. OverlapInv'
  BY OverlapStep DEF SerialInv, SerialNext
<1>2. CASE UNCHANGED vars
  BY <1>1, <1>2 DEF vars, SerialInv, OneAtATime, Busy, ActiveInv, IsActive,
                    SwitchInv, SlotInv
<1>3. CASE SerialNext
  BY <1>1, <1>3, SerialRequest, SerialDrainer, SerialCallback, SerialEnvironment
     DEF SerialNext, Next
<1>4. QED BY <1>2, <1>3

LEMMA SerialInit == Init => SerialInv
<1> SUFFICES ASSUME Init PROVE SerialInv
  OBVIOUS
<1>1. ActiveInv
  BY ConstantsAssumption DEF Init, ActiveInv, IsActive
<1>2. QED
  BY <1>1, OverlapInit
     DEF Init, SerialInv, OneAtATime, Busy, SwitchInv, SwitchPhases, SlotInv

\* While no stream-ended task starts inside another handler, at most one
\* supervision is Active, even in the middle of a switch.
THEOREM OneActiveWhenSerial == SerialSpec => []AtMostOneActive
<1>1. SerialInv => AtMostOneActive
  BY DEF SerialInv, ActiveInv, AtMostOneActive
<1>2. QED BY <1>1, SerialInit, SerialStep, PTL DEF SerialSpec

\* ... and between handlers active_sup names it and its stream is the one in
\* the slot.
THEOREM StreamedWhenSerial == SerialSpec => []ActiveIsStreamed
<1>1. SerialInv => ActiveIsStreamed
  BY DEF SerialInv, ActiveInv, SlotInv, SlotPhases, ActiveIsStreamed, Settled, Busy
<1>2. QED BY <1>1, SerialInit, SerialStep, PTL DEF SerialSpec
-----------------------------------------------------------------------------
(* What the phone shows when no two handlers overlap.                      *)

\* A handler that ends without a list leaves what the phone shows alone, and
\* the list that is about to be sent is the registry's; the supervision that
\* a switch or a removal goes on with is still there.
PhoneInv(a) ==
    /\ pc[a] \in {"launching", "report"} => shown = RegistryView
    /\ pc[a] = "sendList" => op[a].msg = RegistryView
    /\ pc[a] = "snapshot" => entries[op[a].target] # NoEntry
    /\ pc[a] \in {"stop", "restore", "removed"} /\ op[a].next # None
            => entries[op[a].next] # NoEntry

PhonesInv ==
    /\ PhoneUpToDate
    /\ \A a \in Actors : PhoneInv(a)

\* A handler that begins while no other runs finds the phone up to date.
LEMMA PhoneBefore ==
    ASSUME SerialInv, PhonesInv, OneAtATime', NEW a \in Actors, ~Busy(a), Busy(a)',
           \A b \in Actors \ {a} : pc'[b] = pc[b]
    PROVE  shown = RegistryView
<1>1. \A b \in Actors : ~Busy(b)
  BY DEF OneAtATime, Busy
<1>2. QED BY <1>1 DEF PhonesInv, PhoneUpToDate, Settled

\* What is to be shown of a step inside a handler, or into or out of one.
LEMMA PhoneTask ==
    ASSUME SerialInv, PhonesInv, OneAtATime', NEW a \in Actors,
           Busy(a) \/ Busy(a)',
           \A b \in Actors \ {a} : pc'[b] = pc[b] /\ op'[b] = op[b],
           PhoneInv(a)', Busy(a)' \/ shown' = RegistryView'
    PROVE  PhonesInv'
<1>1. \A b \in Actors \ {a} : pc'[b] \in {"idle", "ended"}
  BY SerialOthers
<1>2. \A b \in Actors : PhoneInv(b)'
  BY <1>1 DEF PhoneInv
<1>3. PhoneUpToDate'
  BY DEF PhoneUpToDate, Settled
<1>4. QED BY <1>2, <1>3 DEF PhonesInv

\* A step into a phase that requires nothing of the phone: a list follows.
LEMMA PhoneListFollows ==
    ASSUME SerialInv, PhonesInv, OneAtATime', NEW a \in Actors,
           \A b \in Actors \ {a} : pc'[b] = pc[b] /\ op'[b] = op[b],
           pc'[a] \in {"demote", "fit", "start", "commit", "rollback", "ack",
                       "sendAck", "list", "refit", "writeBack"}
    PROVE  PhonesInv'
BY PhoneTask DEF PhoneInv, Busy

\* Returning from a handler with the phone up to date.
LEMMA PhoneReturn ==
    ASSUME SerialInv, PhonesInv, OneAtATime', NEW a \in Actors,
           Busy(a) \/ Busy(a)',
           Return(a), shown' = RegistryView'
    PROVE  PhonesInv'
<1>1. TypeOK
  BY DEF SerialInv, OverlapInv
<1>2. /\ pc'[a] \in {"idle", "report"}
      /\ \A b \in Actors \ {a} : pc'[b] = pc[b] /\ op'[b] = op[b]
  BY <1>1 DEF Return, TypeOK
<1>3. PhoneInv(a)'
  BY <1>2 DEF PhoneInv
<1>4. QED BY <1>2, <1>3, PhoneTask

\* A step of set_active, when it runs alone.
LEMMA PhoneSetActive ==
    ASSUME SerialInv, PhonesInv, OneAtATime', NEW a \in Actors, SetActiveStep(a)
    PROVE  PhonesInv'
<1> USE DEF registry, stream, phone
<1>0. TypeOK /\ PhoneInv(a) /\ Busy(a)
  BY DEF SerialInv, OverlapInv, PhonesInv, Busy, SetActiveStep, Snapshot,
         Demote, Fit, StartStream, Commit, Rollback, RollbackThen, AckSnapshot,
         SendAck, ListSnapshot, SendList
<1>1. \A b \in Actors \ {a} : pc'[b] = pc[b] /\ op'[b] = op[b]
  BY <1>0
     DEF SetActiveStep, Snapshot, Demote, Fit, FitWindow, StartStream, Commit,
         Rollback, RollbackThen, AckSnapshot, SendAck, ListSnapshot, SendList,
         Goto, Forget, Return, TypeOK
<1>2. CASE Snapshot(a)
  <2>1. pc'[a] = "demote"
    BY <1>0, <1>2 DEF Snapshot, PhoneInv, Goto, TypeOK
  <2>2. QED BY <1>1, <2>1, PhoneListFollows
<1>3. CASE Demote(a) \/ Fit(a) \/ StartStream(a)
  <2>1. pc'[a] \in {"fit", "start", "commit", "rollback"}
    BY <1>0, <1>3 DEF Demote, Fit, FitWindow, StartStream, Goto, TypeOK
  <2>2. QED BY <1>1, <2>1, PhoneListFollows
<1>4. CASE Commit(a) \/ Rollback(a)
  <2>1. pc'[a] \in {"ack", "list"}
    BY <1>0, <1>4 DEF Commit, Rollback, RollbackThen, Goto, TypeOK
  <2>2. QED BY <1>1, <2>1, PhoneListFollows
<1>5. CASE AckSnapshot(a) \/ SendAck(a)
  <2>1. pc'[a] \in {"list", "sendAck"}
    BY <1>0, <1>5 DEF AckSnapshot, SendAck, Goto, TypeOK
  <2>2. QED BY <1>1, <2>1, PhoneListFollows
<1>6. CASE ListSnapshot(a)
  <2>1. pc'[a] = "sendList" /\ op'[a].msg = RegistryView /\ entries' = entries
    BY <1>0, <1>6 DEF ListSnapshot, Goto, TypeOK, Locals
  <2>2. PhoneInv(a)'
    BY <2>1 DEF PhoneInv, RegistryView
  <2>3. QED BY <1>0, <1>1, <2>1, <2>2, PhoneTask DEF Busy
<1>7. CASE SendList(a)
  <2>1. shown' = RegistryView' /\ Return(a)
    BY <1>0, <1>7 DEF SendList, PhoneInv, RegistryView
  <2>2. QED BY <1>0, <2>1, PhoneReturn
<1>8. QED
  BY <1>2, <1>3, <1>4, <1>5, <1>6, <1>7 DEF SetActiveStep

\* Removing an entry, when no other handler runs.
LEMMA PhoneRemoveEntry ==
    ASSUME SerialInv, PhonesInv, OneAtATime', NEW a \in Actors, NEW s \in SupIds,
           RemoveEntry(a, s), pc[a] \in {"idle", "ended"},
           pc[a] = "ended" <=> a # Drainer
    PROVE  PhonesInv'
<1> USE DEF registry, stream, phone
<1>0. TypeOK /\ None \notin SupIds
  BY ConstantsAssumption DEF SerialInv, OverlapInv
<1>1. \A b \in Actors \ {a} : pc'[b] = pc[b] /\ op'[b] = op[b]
  BY <1>0 DEF RemoveEntry, Goto, Return, TypeOK
<1>2. CASE entries[s] = NoEntry
  <2>1. /\ Return(a) /\ UNCHANGED <<entries, shown>>
        /\ RegistryView' = RegistryView
    BY <1>2 DEF RemoveEntry, RegistryView
  <2>2. CASE a = Drainer
    <3>1. pc' = pc
      BY <1>0, <2>1, <2>2 DEF Return, TypeOK
    <3>2. PhoneUpToDate'
      BY <2>1, <3>1 DEF PhonesInv, PhoneUpToDate, Settled, Busy
    <3>3. \A b \in Actors : PhoneInv(b)'
      <4>1. PhoneInv(a)'
        BY <2>2, <3>1 DEF PhoneInv
      <4>2. \A b \in Actors \ {a} : PhoneInv(b)'
        BY <1>1, <2>1 DEF PhonesInv, PhoneInv
      <4>3. QED BY <4>1, <4>2
    <3>4. QED BY <3>2, <3>3 DEF PhonesInv
  <2>3. CASE a # Drainer
    <3>1. Busy(a)' /\ ~Busy(a)
      BY <1>0, <2>1, <2>3 DEF Return, TypeOK, Busy
    <3>2. shown = RegistryView
      BY <1>1, <3>1, PhoneBefore
    <3>3. QED BY <2>1, <3>1, <3>2, PhoneReturn
  <2>4. QED BY <2>2, <2>3
<1>3. CASE entries[s] # NoEntry
  <2>1. pc'[a] \in {"stop", "restore"}
    BY <1>0, <1>3 DEF RemoveEntry, Goto, TypeOK
  <2>2. PICK next \in NextArmed(s) :
          op' = [op EXCEPT ![a].target = s,
                           ![a].window = entries[s].window,
                           ![a].frame = entries[s].original,
                           ![a].next = next]
    BY <1>3 DEF RemoveEntry
  <2>3. op'[a].next = next
    BY <1>0, <2>2 DEF TypeOK, Locals
  <2>4. next # None => next \in SupIds \ {s} /\ entries[next] # NoEntry
    BY DEF NextArmed, LexSmallest, Registered
  <2>5. entries' = [entries EXCEPT ![s] = NoEntry]
    BY <1>3 DEF RemoveEntry
  <2>6. next # None => entries'[next] # NoEntry
    BY <1>0, <2>4, <2>5 DEF TypeOK
  <2>7. PhoneInv(a)'
    BY <2>1, <2>3, <2>6 DEF PhoneInv
  <2>8. QED BY <1>1, <2>1, <2>7, PhoneTask DEF Busy
<1>4. QED BY <1>2, <1>3

\* The later steps of a removal, when it runs alone.
LEMMA PhoneRemoveStep ==
    ASSUME SerialInv, PhonesInv, OneAtATime', NEW a \in Actors, RemoveStep(a)
    PROVE  PhonesInv'
<1> USE DEF registry, stream, phone
<1>0. TypeOK /\ PhoneInv(a)
  BY DEF SerialInv, OverlapInv, PhonesInv
<1>1. \A b \in Actors \ {a} : pc'[b] = pc[b] /\ op'[b] = op[b]
  BY <1>0 DEF RemoveStep, StopStream, Restore, Removed, Goto, Forget, TypeOK
<1>2. CASE StopStream(a) \/ Restore(a)
  <2>1. /\ pc[a] \in {"stop", "restore"} /\ pc'[a] \in {"restore", "removed"}
        /\ entries' = entries
    BY <1>0, <1>2 DEF StopStream, Restore, Goto, TypeOK
  <2>2. op'[a].next = op[a].next
    BY <1>0, <1>2 DEF StopStream, Restore, TypeOK, Locals
  <2>3. PhoneInv(a)'
    BY <1>0, <2>1, <2>2 DEF PhoneInv
  <2>4. QED BY <1>1, <2>1, <2>3, PhoneTask DEF Busy
<1>3. CASE Removed(a)
  <2>1. CASE Goto(a, "list")
    <3>1. pc'[a] = "list"
      BY <1>0, <2>1 DEF Goto, TypeOK
    <3>2. QED BY <1>1, <3>1, PhoneListFollows
  <2>2. CASE op[a].next # None /\ Goto(a, "snapshot") /\ Forget(a, op[a].next)
    <3>1. /\ pc'[a] = "snapshot" /\ op'[a].target = op[a].next
          /\ entries[op[a].next] # NoEntry
      BY <1>0, <1>3, <2>2 DEF Goto, Forget, Removed, PhoneInv, NoOp, TypeOK
    <3>2. PhoneInv(a)'
      BY <1>3, <3>1 DEF PhoneInv, Removed
    <3>3. QED BY <1>1, <3>1, <3>2, PhoneTask DEF Busy
  <2>3. QED BY <1>3, <2>1, <2>2 DEF Removed
<1>4. QED BY <1>2, <1>3 DEF RemoveStep

\* Registering a window, when no other handler runs.
LEMMA PhoneRegister ==
    ASSUME SerialInv, PhonesInv, OneAtATime', NEW w \in Windows, NEW v,
           TryRegisterArmed(w, v), pc[Drainer] \in {"idle", "launching"}
    PROVE  PhonesInv'
<1>0. TypeOK /\ Drainer \in Actors /\ NoEntry \notin Entries
  BY ConstantsAssumption DEF SerialInv, OverlapInv, Actors, Entries, Frames
<1>1. PICK s \in SupIds \ used :
        /\ entries' = [entries EXCEPT ![s] =
                         [window |-> w, status |-> "Armed", original |-> NoFrame]]
        /\ pc' = [pc EXCEPT ![Drainer] = "snapshot"]
        /\ op' = [op EXCEPT ![Drainer] =
                    [NoOp EXCEPT !.target = s, !.viewport = v]]
  BY DEF TryRegisterArmed, Goto
<1>2. /\ \A b \in Actors \ {Drainer} : pc'[b] = pc[b] /\ op'[b] = op[b]
      /\ pc'[Drainer] = "snapshot"
  BY <1>0, <1>1 DEF TypeOK
<1>3. op'[Drainer].target = s
  BY <1>0, <1>1 DEF TypeOK, NoOp
<1>4. entries'[s] \in Entries
  BY <1>0, <1>1 DEF TypeOK, Entries
<1>5. entries'[s] # NoEntry
  BY <1>0, <1>4
<1>6. PhoneInv(Drainer)'
  BY <1>2, <1>3, <1>5 DEF PhoneInv
<1>7. QED BY <1>0, <1>2, <1>6, PhoneTask DEF Busy

LEMMA PhoneRequest ==
    ASSUME SerialInv, PhonesInv, OneAtATime', Request PROVE PhonesInv'
<1> USE DEF registry, stream, phone
<1>0. TypeOK /\ Drainer \in Actors
  BY DEF SerialInv, OverlapInv, Actors
<1>1. ASSUME NEW w \in Windows, NEW v \in Viewports, SuperviseExisting(w, v)
      PROVE  PhonesInv'
  BY <1>1, PhoneRegister DEF SuperviseExisting
<1>2. ASSUME NEW v \in Viewports, SuperviseLaunch(v)
      PROVE  PhonesInv'
  <2>1. /\ \A b \in Actors \ {Drainer} : pc'[b] = pc[b] /\ op'[b] = op[b]
        /\ ~Busy(Drainer) /\ pc'[Drainer] = "launching"
        /\ UNCHANGED <<entries, shown>>
    BY <1>0, <1>2 DEF SuperviseLaunch, Goto, TypeOK, Busy
  <2>2. shown = RegistryView
    BY <1>0, <2>1, PhoneBefore DEF Busy
  <2>3. PhoneInv(Drainer)'
    BY <2>1, <2>2 DEF PhoneInv, RegistryView
  <2>4. QED BY <1>0, <2>1, <2>3, PhoneTask DEF Busy
<1>3. ASSUME NEW s \in SupIds, NEW v \in Viewports, SwitchActive(s, v)
      PROVE  PhonesInv'
  <2>1. /\ \A b \in Actors \ {Drainer} : pc'[b] = pc[b] /\ op'[b] = op[b]
        /\ pc'[Drainer] = "snapshot" /\ op'[Drainer].target = s
        /\ entries' = entries /\ entries[s] # NoEntry
    BY <1>0, <1>3 DEF SwitchActive, Goto, TypeOK, NoOp
  <2>2. PhoneInv(Drainer)'
    BY <2>1 DEF PhoneInv
  <2>3. QED BY <1>0, <2>1, <2>2, PhoneTask DEF Busy
<1>4. ASSUME NEW s \in SupIds, NEW v \in Viewports, ViewportChanged(s, v)
      PROVE  PhonesInv'
  BY <1>0, <1>4, PhoneListFollows DEF ViewportChanged, Goto, TypeOK
<1>5. ASSUME NEW s \in SupIds, RemoveSupervised(s)
      PROVE  PhonesInv'
  BY <1>0, <1>5, PhoneRemoveEntry DEF RemoveSupervised
<1>6. QED BY <1>1, <1>2, <1>3, <1>4, <1>5 DEF Request

LEMMA PhoneDrainer ==
    ASSUME SerialInv, PhonesInv, OneAtATime', DrainerStep PROVE PhonesInv'
<1> USE DEF registry, stream, phone
<1>0. TypeOK /\ Drainer \in Actors /\ PhoneInv(Drainer)
  BY DEF SerialInv, OverlapInv, Actors, PhonesInv
<1>1. ASSUME NEW w \in Windows, LaunchRegister(w)
      PROVE  PhonesInv'
  BY <1>1, PhoneRegister DEF LaunchRegister
<1>2. CASE LaunchReject
  <2>1. Return(Drainer) /\ Busy(Drainer) /\ shown' = RegistryView'
    BY <1>0, <1>2 DEF LaunchReject, Busy, PhoneInv, RegistryView
  <2>2. QED BY <1>0, <2>1, PhoneReturn
<1>3. CASE Refit \/ WriteBack
  <2>1. /\ \A b \in Actors \ {Drainer} : pc'[b] = pc[b] /\ op'[b] = op[b]
        /\ pc'[Drainer] \in {"writeBack", "list"}
    BY <1>0, <1>3 DEF Refit, FitWindow, WriteBack, Goto, Forget, TypeOK
  <2>2. QED BY <1>0, <2>1, PhoneListFollows
<1>4. QED
  BY <1>0, <1>1, <1>2, <1>3, PhoneSetActive, PhoneRemoveStep DEF DrainerStep

LEMMA PhoneCallback ==
    ASSUME SerialInv, PhonesInv, OneAtATime', NEW c \in Callbacks, CallbackStep(c)
    PROVE  PhonesInv'
<1> USE DEF registry, stream, phone
<1>0. /\ TypeOK /\ LocalOK(c) /\ LocalInv(c) /\ PhoneInv(c)
      /\ c \in Actors /\ c # Drainer
  BY ConstantsAssumption
     DEF SerialInv, OverlapInv, Actors, TypeOK, LocalsOK, PhonesInv
<1>1. CASE CallbackRemove(c)
  <2>1. pc[c] = "ended" /\ op[c].cause \in SupIds
    BY <1>0, <1>1 DEF CallbackRemove, LocalOK
  <2>2. QED BY <1>0, <1>1, <2>1, PhoneRemoveEntry DEF CallbackRemove
<1>2. CASE CallbackReport(c)
  <2>1. /\ \A b \in Actors \ {c} : pc'[b] = pc[b] /\ op'[b] = op[b]
        /\ pc[c] = "report" /\ pc'[c] = "idle"
        /\ entries' = entries /\ shown = RegistryView
    BY <1>0, <1>2 DEF CallbackReport, Goto, TypeOK, PhoneInv
  <2>2. entries[op[c].cause] = NoEntry /\ op[c].cause \in SupIds
    BY <1>0, <2>1 DEF LocalInv, LocalOK
  <2>3. shown' = RegistryView'
    BY <1>2, <2>1, <2>2 DEF CallbackReport, SendStreamEnded, RegistryView
  <2>4. PhoneInv(c)'
    BY <2>1 DEF PhoneInv
  <2>5. QED BY <1>0, <2>1, <2>3, <2>4, PhoneTask DEF Busy
<1>3. QED
  BY <1>0, <1>1, <1>2, PhoneSetActive, PhoneRemoveStep DEF CallbackStep

LEMMA PhoneEnvironment ==
    ASSUME SerialInv, PhonesInv, OneAtATime', Environment PROVE PhonesInv'
<1> USE DEF registry, stream, phone
<1>1. ASSUME NEW c \in Callbacks, StreamFails(c)
      PROVE  PhonesInv'
  <2>1. TypeOK /\ c \in Actors
    BY DEF SerialInv, OverlapInv, Actors
  <2>2. /\ \A b \in Actors \ {c} : pc'[b] = pc[b] /\ op'[b] = op[b]
        /\ pc[c] = "idle" /\ pc'[c] = "ended"
        /\ UNCHANGED <<entries, shown>>
    BY <1>1, <2>1 DEF StreamFails, StreamEnds, Goto, TypeOK
  <2>3. \A b \in Actors : Busy(b)' <=> Busy(b)
    BY <2>2 DEF Busy
  <2>4. PhoneUpToDate'
    BY <2>2, <2>3 DEF PhonesInv, PhoneUpToDate, Settled, RegistryView
  <2>5. \A b \in Actors : PhoneInv(b)'
    BY <2>2 DEF PhonesInv, PhoneInv, RegistryView
  <2>6. QED BY <2>4, <2>5 DEF PhonesInv
<1>2. ASSUME NEW w \in Windows, WindowCloses(w)
      PROVE  PhonesInv'
  BY <1>2 DEF WindowCloses, PhonesInv, PhoneUpToDate, Settled, Busy, PhoneInv,
              RegistryView
<1>3. QED BY <1>1, <1>2 DEF Environment

LEMMA PhoneStep == SerialInv /\ PhonesInv /\ [SerialNext]_vars => PhonesInv'
<1> SUFFICES ASSUME SerialInv, PhonesInv, [SerialNext]_vars PROVE PhonesInv'
  OBVIOUS
<1>1. CASE UNCHANGED vars
  BY <1>1 DEF vars, PhonesInv, PhoneUpToDate, Settled, Busy, PhoneInv, RegistryView
<1>2. CASE SerialNext
  BY <1>2, PhoneRequest, PhoneDrainer, PhoneCallback, PhoneEnvironment
     DEF SerialNext, Next
<1>3. QED BY <1>1, <1>2

LEMMA PhoneInit == Init => PhonesInv
<1> SUFFICES ASSUME Init PROVE PhonesInv
  OBVIOUS
<1>1. shown = RegistryView
  BY DEF Init, RegistryView
<1>2. \A a \in Actors : pc[a] = "idle"
  BY DEF Init
<1>3. QED BY <1>1, <1>2 DEF PhonesInv, PhoneUpToDate, PhoneInv

\* While no stream-ended task starts inside another handler, the phone's tiles
\* are the registry's entries, with the same status, whenever no handler runs:
\* every path through the handlers that changes the registry ends in a list.
THEOREM PhoneUpToDateWhenSerial == SerialSpec => []PhoneUpToDate
<1>1. PhonesInv => PhoneUpToDate
  BY DEF PhonesInv
<1>2. QED
  BY <1>1, SerialInit, SerialStep, PhoneInit, PhoneStep, PTL DEF SerialSpec
=============================================================================
