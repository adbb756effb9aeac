------------------------------ MODULE Pairing ------------------------------
(***************************************************************************)
(* Pairing and revocation: the Mac agent's window and keychain, the phones *)
(* that scan its code, and the worker's handlers on a key-value store      *)
(* without transactions.  Every write of the worker is a step of its own,  *)
(* and a handler may end between two of them.  A creation is named by a    *)
(* number that stands for its room, its token and the Mac's device secret; *)
(* a pair by a number; a phone's public key by the phone.                  *)
(***************************************************************************)
EXTENDS Naturals, Sequences

CONSTANTS
  Phones,
  MaxRooms,     \* bound: how often the Mac starts pairing
  MaxPairs,     \* bound: the pairs the worker makes
  MaxMishaps,   \* bound: cancellations, failed writes or deletes of the keychain,
                \* restarts of the agent and a lapsed mark, together
  None

ASSUME PairingAssumption ==
  /\ MaxRooms \in Nat /\ MaxPairs \in Nat
  /\ MaxMishaps \in Nat
  /\ None \notin Phones /\ None \notin Nat

Rooms == 1..MaxRooms
Pairs == 1..MaxPairs

VARIABLES
  state,          \* the kind of the Mac's PairState
  shown,          \* the room whose code is on the Mac's screen, or None
  record,         \* the PairRecord of a paired state
  keychain,       \* the entries of the Mac's keychain
  pendingSecret,  \* pending_mac_device_secret
  pendingRoom,    \* pending_room_id, with pending_png
  creating,       \* /pair/create requests under way
  created,        \* creations so far
  events,         \* the channel of UiEvents
  pollers,        \* rooms that poll_room_event asks for
  cancels, faults, restarts,
  tokens,         \* pair_token:*
  pairs,          \* pair:*
  paired,         \* pairs made so far
  revoked,        \* revoked:*, which lapses; the store takes a lapsed mark for none
  roomEvent,      \* room_event:*
  claims,         \* the worker's claim handler of a phone
  revokes,        \* the worker's revoke handlers
  phone           \* the pair in a phone's PairStore, or None

macVars == <<state, shown, record, keychain, pendingSecret, pendingRoom, creating,
             created, events, pollers, cancels, faults, restarts>>
kvVars == <<tokens, pairs, paired, revoked, roomEvent>>
vars == <<macVars, kvVars, claims, revokes, phone>>

NoPair == [secret |-> None, ios |-> None]
NoRecord == [pair_id |-> None, peer |-> None, secret |-> None]
NoEvent == [pair_id |-> None, ios |-> None]
Idle == [step |-> "idle", room |-> None, pair |-> None]
EmptyKeychain == [pair_id |-> None, peer |-> None, secret |-> None, url |-> FALSE]

Init ==
  /\ state = "notPaired" /\ shown = None /\ record = NoRecord
  /\ keychain = EmptyKeychain
  /\ pendingSecret = None /\ pendingRoom = None
  /\ creating = 0 /\ created = 0 /\ events = <<>> /\ pollers = {}
  /\ cancels = 0 /\ faults = 0 /\ restarts = 0
  /\ tokens = {} /\ pairs = [p \in Pairs |-> NoPair] /\ paired = 0
  /\ revoked = [p \in Pairs |-> "never"] /\ roomEvent = [r \in Rooms |-> NoEvent]
  /\ claims = [q \in Phones |-> Idle] /\ revokes = {}
  /\ phone = [q \in Phones |-> None]

------------------------------------------------------------------------------
(* The keychain: four entries, written and deleted one after the other.     *)

\* Mutant: the phone's key is added, and not replaced when there is one.
SavedKeepingPeer(rec, k) ==
  [pair_id |-> IF k >= 1 THEN rec.pair_id ELSE keychain.pair_id,
   peer    |-> IF k >= 2 /\ keychain.peer = None THEN rec.peer ELSE keychain.peer,
   secret  |-> IF k >= 3 THEN rec.secret ELSE keychain.secret,
   url     |-> k >= 4 \/ keychain.url]

\* What the keychain holds after the first k of the four writes of
\* save_pair_record.
Saved(rec, k) ==
  [pair_id |-> IF k >= 1 THEN rec.pair_id ELSE keychain.pair_id,
   peer    |-> IF k >= 2 THEN rec.peer ELSE keychain.peer,
   secret  |-> IF k >= 3 THEN rec.secret ELSE keychain.secret,
   url     |-> k >= 4 \/ keychain.url]

\* And after the first k of the four deletions of revoke_pair_record.
Deleted(k) ==
  [pair_id |-> IF k >= 1 THEN None ELSE keychain.pair_id,
   peer    |-> IF k >= 2 THEN None ELSE keychain.peer,
   secret  |-> IF k >= 3 THEN None ELSE keychain.secret,
   url     |-> k < 4 /\ keychain.url]

\* load_pair_record finds a record only if all four entries exist.  A secret
\* may be the empty one, which is an entry all the same.
Complete(kc) == kc.pair_id # None /\ kc.peer # None /\ kc.secret # None /\ kc.url

EmptySecret == 0

\* A mark that has lapsed counts as a mishap.
Lapses == IF \E p \in Pairs : revoked[p] = "lapsed" THEN 1 ELSE 0
MishapLeft == cancels + faults + restarts + Lapses < MaxMishaps

Becomes(kind, room, rec) == state' = kind /\ shown' = room /\ record' = rec

------------------------------------------------------------------------------
(* The Mac's window.                                                        *)

WorkerKeeps == UNCHANGED <<kvVars, claims, phone>>

StartPairing ==
  /\ state = "notPaired" /\ created + creating < MaxRooms
  /\ creating' = creating + 1
  /\ Becomes("pairing", None, NoRecord)
  /\ UNCHANGED <<keychain, pendingSecret, pendingRoom, created, events, pollers,
                 cancels, faults, restarts, revokes>>
  /\ WorkerKeeps

\* Cancelling changes what is on the screen, and nothing else.
CancelPairing ==
  /\ state = "pairing" /\ MishapLeft
  /\ cancels' = cancels + 1
  /\ Becomes("notPaired", None, NoRecord)
  /\ UNCHANGED <<keychain, pendingSecret, pendingRoom, creating, created, events,
                 pollers, faults, restarts, revokes>>
  /\ WorkerKeeps

\* The next frame uploads the code that has arrived and starts to poll its room.
ShowQr ==
  /\ pendingRoom # None
  /\ pollers' = pollers \union {pendingRoom}
  /\ pendingRoom' = None
  /\ Becomes("pairing", pendingRoom, NoRecord)
  /\ UNCHANGED <<keychain, pendingSecret, creating, created, events, cancels, faults,
                 restarts, revokes>>
  /\ WorkerKeeps

\* UiEvent::Created.
OnCreated(room) ==
  /\ pendingSecret' = room /\ pendingRoom' = room
  /\ UNCHANGED <<state, shown, record, keychain, faults>>

\* complete_pairing, which may fail in the middle of its writes.
CompletePairing(rec) ==
  \/ /\ keychain' = Saved(rec, 4)
     /\ Becomes("paired", None, rec)
     /\ UNCHANGED faults
  \/ /\ MishapLeft /\ faults' = faults + 1
     /\ \E k \in 0..3 : keychain' = Saved(rec, k)
     /\ Becomes("notPaired", None, NoRecord)

\* UiEvent::Paired: with the secret of the last creation, or the empty one.
OnPaired(pair, ios) ==
  /\ CompletePairing([pair_id |-> pair, peer |-> ios,
                      secret |-> IF pendingSecret = None THEN EmptySecret
                                 ELSE pendingSecret])
  /\ pendingSecret' = None
  /\ UNCHANGED pendingRoom

\* Mutant: only the kind of the state changes.
OnErrorKeepsRecord ==
  /\ state' = "notPaired"
  /\ UNCHANGED <<shown, record, pendingSecret, pendingRoom, keychain, faults>>

OnError ==
  /\ Becomes("notPaired", None, NoRecord)
  /\ UNCHANGED <<pendingSecret, pendingRoom, keychain, faults>>

PollRx ==
  /\ events # <<>>
  /\ LET e == Head(events) IN
       \/ e.kind = "created" /\ OnCreated(e.room)
       \/ e.kind = "paired" /\ OnPaired(e.pair_id, e.ios)
       \/ e.kind = "error" /\ OnError
  /\ events' = Tail(events)
  /\ UNCHANGED <<creating, created, pollers, cancels, restarts, revokes>>
  /\ WorkerKeeps

\* Revoke: the worker is told by a task of its own; then the keychain is cleared,
\* and if that fails the Mac stays paired.
Revoke ==
  /\ state = "paired"
  /\ revokes' = revokes \union
       {[by |-> "mac", pair |-> record.pair_id, secret |-> record.secret, step |-> "sent"]}
  /\ \/ /\ keychain' = Deleted(4)
        /\ Becomes("notPaired", None, NoRecord)
        /\ UNCHANGED faults
     \/ /\ MishapLeft /\ faults' = faults + 1
        /\ \E k \in 0..3 : keychain' = Deleted(k)
        /\ UNCHANGED <<state, shown, record>>
  /\ UNCHANGED <<pendingSecret, pendingRoom, creating, created, events, pollers,
                 cancels, restarts>>
  /\ WorkerKeeps

\* The agent ends and starts again.  A crash in the middle of the keychain's
\* writes is a fault followed by a restart.
Restart ==
  /\ MishapLeft /\ restarts' = restarts + 1
  /\ IF Complete(keychain)
     THEN Becomes("paired", None, [pair_id |-> keychain.pair_id, peer |-> keychain.peer,
                                   secret |-> keychain.secret])
     ELSE Becomes("notPaired", None, NoRecord)
  /\ pendingSecret' = None /\ pendingRoom' = None
  /\ creating' = 0 /\ events' = <<>> /\ pollers' = {}
  /\ UNCHANGED <<keychain, created, cancels, faults, revokes>>
  /\ WorkerKeeps

------------------------------------------------------------------------------
(* The Mac's requests: creation, and the poller of a room.                  *)

Post(event) == events' = Append(events, event)

CreatedEvent(room) == [kind |-> "created", room |-> room, pair_id |-> None, ios |-> None]
PairedEvent(e) == [kind |-> "paired", room |-> None, pair_id |-> e.pair_id, ios |-> e.ios]
ErrorEvent == [kind |-> "error", room |-> None, pair_id |-> None, ios |-> None]

\* handlePairCreate, and its answer.
PairCreate ==
  /\ creating > 0 /\ creating' = creating - 1
  /\ created' = created + 1
  /\ tokens' = tokens \union {created + 1}
  /\ Post(CreatedEvent(created + 1))
  /\ UNCHANGED <<state, shown, record, keychain, pendingSecret, pendingRoom, pollers,
                 cancels, faults, restarts, pairs, paired, revoked, roomEvent, claims,
                 revokes, phone>>

CreateFails ==
  /\ creating > 0 /\ creating' = creating - 1
  /\ Post(ErrorEvent)
  /\ UNCHANGED <<state, shown, record, keychain, pendingSecret, pendingRoom, created,
                 pollers, cancels, faults, restarts, revokes>>
  /\ WorkerKeeps

PollerKeeps ==
  /\ UNCHANGED <<state, shown, record, keychain, pendingSecret, pendingRoom, creating,
                 created, cancels, faults, restarts, revokes>>
  /\ WorkerKeeps

\* A poll that finds the room's event ends the poller.
Poll(room) ==
  /\ room \in pollers /\ roomEvent[room] # NoEvent
  /\ Post(PairedEvent(roomEvent[room]))
  /\ pollers' = pollers \ {room}
  /\ PollerKeeps

\* After 150 polls without one it ends without a word.
GiveUp(room) ==
  /\ room \in pollers
  /\ pollers' = pollers \ {room}
  /\ UNCHANGED events
  /\ PollerKeeps

------------------------------------------------------------------------------
(* Claims.                                                                  *)

ClaimKeeps == UNCHANGED <<macVars, revokes>>

\* A phone that is not paired scans the code on the screen.
Scan(q) ==
  /\ phone[q] = None /\ claims[q] = Idle /\ shown # None
  /\ claims' = [claims EXCEPT ![q] = [step |-> "sent", room |-> shown, pair |-> None]]
  /\ UNCHANGED <<kvVars, phone>> /\ ClaimKeeps

At(q, step) == claims[q].step = step

ReadToken(q) ==
  /\ At(q, "sent")
  /\ claims' = [claims EXCEPT ![q] =
       IF claims[q].room \in tokens THEN [@ EXCEPT !.step = "valid"] ELSE Idle]
  /\ UNCHANGED <<kvVars, phone>> /\ ClaimKeeps

PutPair(q) ==
  /\ At(q, "valid") /\ paired < MaxPairs
  /\ paired' = paired + 1
  /\ pairs' = [pairs EXCEPT ![paired + 1] = [secret |-> claims[q].room, ios |-> q]]
  /\ claims' = [claims EXCEPT ![q].step = "put", ![q].pair = paired + 1]
  /\ UNCHANGED <<tokens, revoked, roomEvent, phone>> /\ ClaimKeeps

DeleteToken(q) ==
  /\ At(q, "put")
  /\ tokens' = tokens \ {claims[q].room}
  /\ claims' = [claims EXCEPT ![q].step = "spent"]
  /\ UNCHANGED <<pairs, paired, revoked, roomEvent, phone>> /\ ClaimKeeps

PutRoomEvent(q) ==
  /\ At(q, "spent")
  /\ roomEvent' = [roomEvent EXCEPT ![claims[q].room] =
                     [pair_id |-> claims[q].pair, ios |-> q]]
  /\ claims' = [claims EXCEPT ![q].step = "done"]
  /\ UNCHANGED <<tokens, pairs, paired, revoked, phone>> /\ ClaimKeeps

\* The answer arrives and the phone saves the pair.
SavePair(q) ==
  /\ At(q, "done")
  /\ phone' = [phone EXCEPT ![q] = claims[q].pair]
  /\ claims' = [claims EXCEPT ![q] = Idle]
  /\ UNCHANGED kvVars /\ ClaimKeeps

\* The handler ends early, or its answer is lost, or cannot be saved.
ClaimFails(q) ==
  /\ claims[q] # Idle
  /\ claims' = [claims EXCEPT ![q] = Idle]
  /\ UNCHANGED <<kvVars, phone>> /\ ClaimKeeps

\* The store drops a token after five minutes.  (It drops an event so late that
\* its poller has given up.)
Expire(r) ==
  /\ r \in tokens
  /\ tokens' = tokens \ {r}
  /\ UNCHANGED <<pairs, paired, revoked, roomEvent, claims, phone>> /\ ClaimKeeps

------------------------------------------------------------------------------
(* Revocations.                                                             *)

RevokeKeeps == UNCHANGED <<macVars, tokens, paired, roomEvent, claims, phone>>

\* The phone asks the worker and waits for the end of its request.
PhoneRevokes(q) ==
  /\ phone[q] # None /\ \A h \in revokes : h.by # q
  /\ revokes' = revokes \union
       {[by |-> q, pair |-> phone[q], secret |-> None, step |-> "sent"]}
  /\ UNCHANGED <<macVars, kvVars, claims, phone>>

\* It then forgets the pair, whatever the answer.
Ends(h) == revokes' = revokes \ {h}

PhoneAfter(h) == IF h.by \in Phones THEN [phone EXCEPT ![h.by] = None] ELSE phone

MovesTo(h, step) == revokes' = (revokes \ {h}) \union {[h EXCEPT !.step = step]}

\* A handler refuses an unknown pair and a wrong signature.
Authorized(h) ==
  /\ pairs[h.pair] # NoPair
  /\ IF h.by = "mac" THEN h.secret = pairs[h.pair].secret ELSE h.by = pairs[h.pair].ios

RevokeCheck(h) ==
  /\ h.step = "sent" /\ Authorized(h)
  /\ MovesTo(h, "checked")
  /\ UNCHANGED <<pairs, revoked>> /\ RevokeKeeps

\* Mutant: the pair is not marked.
MarkNothing(h) ==
  /\ h.step = "checked"
  /\ MovesTo(h, "marked")
  /\ UNCHANGED <<pairs, revoked>> /\ RevokeKeeps

MarkRevoked(h) ==
  /\ h.step = "checked"
  /\ revoked' = [revoked EXCEPT ![h.pair] = "marked"]
  /\ MovesTo(h, "marked")
  /\ UNCHANGED pairs /\ RevokeKeeps

DeletePair(h) ==
  /\ h.step = "marked"
  /\ pairs' = [pairs EXCEPT ![h.pair] = NoPair]
  /\ Ends(h) /\ phone' = PhoneAfter(h)
  /\ UNCHANGED <<macVars, tokens, paired, revoked, roomEvent, claims>>

\* The store drops a mark after 90 days, whether or not the pair itself was deleted.
\* No handler takes that long from the mark to the deletion.
MarkLapses(p) ==
  /\ MishapLeft
  /\ revoked[p] = "marked" /\ \A h \in revokes : h.pair = p => h.step # "marked"
  /\ revoked' = [revoked EXCEPT ![p] = "lapsed"]
  /\ UNCHANGED <<macVars, tokens, pairs, paired, roomEvent, claims, revokes, phone>>

\* A refusal, a lost request, or a handler that ends early.
RevokeFails(h) ==
  /\ Ends(h) /\ phone' = PhoneAfter(h)
  /\ UNCHANGED <<macVars, kvVars, claims>>

------------------------------------------------------------------------------
ClaimStep(q) ==
  \/ Scan(q) \/ ReadToken(q) \/ PutPair(q) \/ DeleteToken(q) \/ PutRoomEvent(q)
  \/ SavePair(q) \/ ClaimFails(q) \/ PhoneRevokes(q)

RevokeStep(h) == RevokeCheck(h) \/ MarkRevoked(h) \/ DeletePair(h) \/ RevokeFails(h)

Next ==
  \/ StartPairing \/ CancelPairing \/ ShowQr \/ PollRx \/ Revoke \/ Restart
  \/ PairCreate \/ CreateFails
  \/ \E r \in Rooms : Poll(r) \/ GiveUp(r) \/ Expire(r)
  \/ \E q \in Phones : ClaimStep(q)
  \/ \E h \in revokes : RevokeStep(h)
  \/ \E p \in Pairs : MarkLapses(p)

Spec == Init /\ [][Next]_vars

------------------------------------------------------------------------------
(* Properties.                                                              *)

\* Every variable has its type.
TypeOK ==
  /\ state \in {"notPaired", "pairing", "paired"}
  /\ state = "paired" <=> record # NoRecord
  /\ shown \in Rooms \union {None} /\ (shown # None => state = "pairing")
  /\ record.pair_id \in Pairs \union {None} /\ record.peer \in Phones \union {None}
  /\ record.secret \in Rooms \union {None, EmptySecret}
  /\ pendingSecret \in Rooms \union {None} /\ pendingRoom \in Rooms \union {None}
  /\ tokens \subseteq Rooms /\ pollers \subseteq Rooms
  /\ revoked \in [Pairs -> {"never", "marked", "lapsed"}]
  /\ created + creating <= MaxRooms
  /\ pairs \in [Pairs -> [secret : Rooms, ios : Phones] \union {NoPair}]
  /\ roomEvent \in [Rooms -> [pair_id : Pairs, ios : Phones] \union {NoEvent}]
  /\ phone \in [Phones -> Pairs \union {None}]

\* As long as no pairing was cancelled and at most one write of the keychain
\* failed, a paired Mac holds the secret and the phone's key that the worker has for
\* the pair: after a pairing that failed half way, restarts, and revocations.
MacCanSign ==
  cancels = 0 /\ faults <= 1 /\ state = "paired" /\ pairs[record.pair_id] # NoPair
    => pairs[record.pair_id] = [secret |-> record.secret, ios |-> record.peer]

\* A Mac and a phone that hold the same pair hold each other's keys, however many
\* phones scanned and however often the user cancelled, if no write failed.
EndsAgree ==
  faults = 0 /\ state = "paired"
    => \A q \in Phones : phone[q] = record.pair_id => record.peer = q

\* What the ends hold of each other fits together.
EndsFit == MacCanSign /\ EndsAgree

\* Once the Mac can see a claim, nobody can start another with its token.
TokenIsSpent == \A r \in Rooms : roomEvent[r] # NoEvent => r \notin tokens

\* A pair that a phone, the Mac or a room's event names is in the store, or it was
\* marked as revoked before it was deleted, wherever a handler ended early.  The mark
\* itself may have lapsed since.
KnownPairs == {phone[q] : q \in Phones} \union {record.pair_id, keychain.pair_id}
              \union {roomEvent[r].pair_id : r \in Rooms}

PairsAreRecorded ==
  \A p \in KnownPairs \ {None} : pairs[p] # NoPair \/ revoked[p] # "never"

\* Wherever a claim or a revocation ended early, a token whose claim can be seen is
\* spent, and a pair that somebody holds is gone only by a revocation that said so.
ClaimsAreRecorded == TokenIsSpent /\ PairsAreRecorded
=============================================================================
