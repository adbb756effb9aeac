--------------------------- MODULE PairingProofs ---------------------------
(***************************************************************************)
(* What holds of pairing and revocation for any number of phones, rooms,   *)
(* pairs and mishaps.                                                      *)
(***************************************************************************)
EXTENDS Pairing, SequenceTheorems, TLAPS

USE DEF macVars, kvVars, vars

------------------------------------------------------------------------------
(* The invariant.                                                           *)

Secrets == Rooms \union {None, EmptySecret}
Made == {"put", "spent", "done"}
ClaimTypes == [step : {"idle", "sent", "valid"} \union Made, room : Rooms \union {None},
               pair : Pairs \union {None}]
RevokeTypes == [by : Phones \union {"mac"}, pair : Pairs, secret : Secrets,
                step : {"sent", "checked", "marked"}]
Marks == {"never", "marked", "lapsed"}
EventTypes == {CreatedEvent(r) : r \in Rooms} \union {ErrorEvent}
              \union {PairedEvent(e) : e \in [pair_id : Pairs, ios : Phones]}

MacTypes ==
  /\ state \in {"notPaired", "pairing", "paired"}
  /\ state = "paired" <=> record # NoRecord
  /\ shown \in Rooms \union {None} /\ (shown # None => state = "pairing")
  /\ record.pair_id \in Pairs \union {None} /\ record.peer \in Phones \union {None}
  /\ record.secret \in Secrets
  /\ state = "paired" => record.pair_id \in Pairs
  /\ keychain.pair_id \in Pairs \union {None} /\ keychain.peer \in Phones \union {None}
  /\ keychain.secret \in Secrets
  /\ pendingSecret \in Rooms \union {None} /\ pendingRoom \in Rooms \union {None}
  /\ creating \in Nat /\ created \in Nat /\ created + creating <= MaxRooms
  /\ cancels \in Nat /\ faults \in Nat /\ restarts \in Nat
  /\ events \in Seq(EventTypes) /\ pollers \in SUBSET Rooms

StoreTypes ==
  /\ tokens \in SUBSET Rooms /\ revoked \in [Pairs -> Marks]
  /\ paired \in 0..MaxPairs
  /\ pairs \in [Pairs -> [secret : Rooms, ios : Phones] \union {NoPair}]
  /\ roomEvent \in [Rooms -> [pair_id : Pairs, ios : Phones] \union {NoEvent}]
  /\ phone \in [Phones -> Pairs \union {None}]
  /\ claims \in [Phones -> ClaimTypes]
  /\ \A q \in Phones : /\ claims[q].step # "idle" => claims[q].room \in Rooms
                       /\ claims[q].step \in Made => claims[q].pair \in Pairs
  /\ revokes \in SUBSET RevokeTypes

\* A room that anybody can name has been created, and its token is gone by the time
\* the claim is on record.
TokensInv ==
  /\ tokens \subseteq 1..created
  /\ shown # None => shown <= created
  /\ pendingRoom # None => pendingRoom <= created
  /\ \A i \in 1..Len(events) : events[i].kind = "created" => events[i].room <= created
  /\ \A q \in Phones :
       /\ claims[q].step # "idle" => claims[q].room <= created
       /\ claims[q].step \in {"spent", "done"} => claims[q].room \notin tokens
  /\ \A r \in Rooms : roomEvent[r] # NoEvent => r <= created /\ r \notin tokens

\* The store was told of the end of pair p, however long ago.
Marked(p) == revoked[p] # "never"

Recorded(p) == pairs[p] # NoPair \/ Marked(p)

\* Somebody holds, or will hold, pair p as phone q's.
Named(p, q) ==
  \/ claims[q].step \in Made /\ claims[q].pair = p
  \/ phone[q] = p
  \/ \E r \in Rooms : roomEvent[r] = [pair_id |-> p, ios |-> q]
  \/ \E i \in 1..Len(events) : events[i] = PairedEvent([pair_id |-> p, ios |-> q])

\* A named pair was made, for one phone, and stays on record.
NamesInv ==
  \A p \in Pairs, q \in Phones : Named(p, q) =>
    p <= paired /\ Recorded(p) /\ \A u \in Phones : Named(p, u) => u = q

MarkedInv == \A h \in revokes : h.step = "marked" => Marked(h.pair)

\* So does what the Mac holds.
MacNamesInv ==
  /\ state = "paired" => record.pair_id <= paired /\ Recorded(record.pair_id)
  /\ keychain.pair_id # None => keychain.pair_id <= paired /\ Recorded(keychain.pair_id)

AgreeInv ==
  faults = 0 =>
    /\ state = "paired" => \A q \in Phones : Named(record.pair_id, q) => q = record.peer
    /\ Complete(keychain) => \A q \in Phones : Named(keychain.pair_id, q) => q = keychain.peer

\* The store has pair p with this secret and phone, if it has it.
Holds(p, secret, q) == pairs[p] \in {NoPair, [secret |-> secret, ios |-> q]}

HoldsInv ==
  /\ \A q \in Phones : claims[q].step \in Made => Holds(claims[q].pair, claims[q].room, q)
  /\ \A r \in Rooms : roomEvent[r] # NoEvent =>
       Holds(roomEvent[r].pair_id, r, roomEvent[r].ios)

\* Without cancellations a pairing is a request, a code that waits for a frame, a poller
\* or one event, and the Mac keeps that room's secret.
Asking == creating <= 1 /\ events = <<>> /\ pendingRoom = None /\ pollers = {}
          /\ (creating > 0 => state = "pairing")
Told == /\ creating = 0 /\ pendingRoom = None /\ pollers = {} /\ state = "pairing"
        /\ Len(events) = 1
        /\ events[1].kind = "paired" =>
             Holds(events[1].pair_id, pendingSecret, events[1].ios)
               /\ pendingSecret # None
Ready == creating = 0 /\ events = <<>> /\ pendingRoom # None /\ pendingSecret = pendingRoom
         /\ pollers = {} /\ state = "pairing"
Polling == creating = 0 /\ events = <<>> /\ pendingRoom = None /\ pollers = {pendingSecret}
           /\ state = "pairing" /\ pendingSecret # None

PhaseInv == cancels = 0 => Asking \/ Told \/ Ready \/ Polling

\* If at most one write failed, a complete keychain is the Mac's record.
KeysInv ==
  cancels = 0 /\ faults <= 1 =>
    /\ state = "paired" => Holds(record.pair_id, record.secret, record.peer)
    /\ Complete(keychain) =>
         state = "paired" /\ record.pair_id = keychain.pair_id
           /\ record.peer = keychain.peer /\ record.secret = keychain.secret
    /\ faults = 0 => IF state = "paired" THEN Complete(keychain) ELSE ~keychain.url

PairingInv ==
  /\ MacTypes /\ StoreTypes /\ TokensInv /\ NamesInv /\ MarkedInv /\ MacNamesInv /\ AgreeInv
  /\ HoldsInv /\ PhaseInv /\ KeysInv

------------------------------------------------------------------------------
(* Facts that the steps share.                                              *)

\* What each side leaves alone.
LEMMA ClaimChanges ==
  ASSUME NEW q \in Phones, ClaimStep(q), ~PhoneRevokes(q)
  PROVE  UNCHANGED <<macVars, revokes, revoked>>
BY DEF ClaimStep, Scan, ReadToken, PutPair, DeleteToken, PutRoomEvent, SavePair, ClaimFails,
       ClaimKeeps

LEMMA RevokeChanges ==
  ASSUME NEW h \in revokes, RevokeStep(h)
  PROVE  UNCHANGED <<macVars, tokens, paired, roomEvent, claims>>
BY DEF RevokeStep, RevokeCheck, MarkRevoked, DeletePair, RevokeFails, RevokeKeeps

\* The steps of the Mac and its requests.
MacStep ==
  \/ StartPairing \/ CancelPairing \/ ShowQr \/ PollRx \/ Revoke \/ Restart \/ CreateFails
  \/ \E r \in Rooms : Poll(r) \/ GiveUp(r)

LEMMA MacChanges ==
  ASSUME MacStep
  PROVE  UNCHANGED <<kvVars, claims, phone, created>>
BY DEF MacStep, StartPairing, CancelPairing, ShowQr, PollRx, Revoke, Restart, CreateFails,
       Poll, GiveUp, PollerKeeps, WorkerKeeps

\* The store drops what is too old.
Lapse == (\E r \in Rooms : Expire(r)) \/ (\E p \in Pairs : MarkLapses(p))

LEMMA NextSteps ==
  ASSUME [Next]_vars
  PROVE  \/ MacStep
         \/ PairCreate
         \/ Lapse
         \/ \E q \in Phones : PhoneRevokes(q) \/ (ClaimStep(q) /\ ~PhoneRevokes(q))
         \/ \E h \in revokes : RevokeStep(h)
         \/ UNCHANGED vars
BY DEF Next, MacStep, ClaimStep, Lapse

\* What is posted, and what stays of it.
LEMMA EventKinds ==
  ASSUME NEW e \in EventTypes
  PROVE  /\ e.kind \in {"created", "paired", "error"}
         /\ e.kind = "created" => e.room \in Rooms /\ e = CreatedEvent(e.room)
         /\ e.kind = "paired" => /\ e.pair_id \in Pairs /\ e.ios \in Phones
                                 /\ e = PairedEvent([pair_id |-> e.pair_id, ios |-> e.ios])
BY DEF EventTypes, CreatedEvent, PairedEvent, ErrorEvent

LEMMA PostedEvents ==
  ASSUME MacTypes, NEW e \in EventTypes, Post(e)
  PROVE  /\ events' \in Seq(EventTypes) /\ Len(events') = Len(events) + 1
         /\ events # <<>> => Len(events) > 0
         /\ \A i \in 1..Len(events') :
              \/ i \in 1..Len(events) /\ events'[i] = events[i]
              \/ i = Len(events) + 1 /\ events'[i] = e
<1>1. events \in Seq(EventTypes) /\ events' = Append(events, e)
  BY DEF MacTypes, Post
<1>2. events # <<>> => Len(events) > 0
  BY <1>1, EmptySeq
<1>3. QED BY <1>1, <1>2

LEMMA TakenEvents ==
  ASSUME MacTypes, events # <<>>, events' = Tail(events)
  PROVE  /\ events' \in Seq(EventTypes) /\ Len(events') = Len(events) - 1
         /\ Len(events) \in Nat \ {0}
         /\ Head(events) = events[1] /\ events[1] \in EventTypes
         /\ \A i \in 1..Len(events') : i + 1 \in 1..Len(events) /\ events'[i] = events[i + 1]
<1>1. events \in Seq(EventTypes)
  BY DEF MacTypes
<1>2. Len(events) \in Nat \ {0}
  BY <1>1, EmptySeq
<1>3. 1 \in 1..Len(events)
  BY <1>2
<1>4. events[1] \in EventTypes
  BY <1>1, <1>3, ElementOfSeq
<1>5. /\ Tail(events) \in Seq(EventTypes) /\ Len(Tail(events)) = Len(events) - 1
      /\ \A i \in 1..Len(Tail(events)) : Tail(events)[i] = events[i + 1]
  BY <1>1, HeadTailProperties
<1>6. \A i \in 1..(Len(events) - 1) : i + 1 \in 1..Len(events)
  BY <1>2
<1>7. Head(events) = events[1]
  BY <1>1
<1>8. QED BY <1>2, <1>4, <1>5, <1>6, <1>7

\* The fields of the keychain after some of its writes and deletions.
LEMMA SavedFields ==
  ASSUME NEW rec, NEW k \in 0..4
  PROVE  /\ Saved(rec, k).pair_id \in {rec.pair_id, keychain.pair_id}
         /\ Saved(rec, k).peer \in {rec.peer, keychain.peer}
         /\ Saved(rec, k).secret \in {rec.secret, keychain.secret}
         /\ k = 4 => /\ Saved(rec, k).pair_id = rec.pair_id /\ Saved(rec, k).peer = rec.peer
                     /\ Saved(rec, k).secret = rec.secret
BY DEF Saved

LEMMA DeletedFields ==
  ASSUME NEW k \in 0..4
  PROVE  /\ Deleted(k).pair_id \in {None, keychain.pair_id}
         /\ Deleted(k).peer \in {None, keychain.peer}
         /\ Deleted(k).secret \in {None, keychain.secret}
         /\ k >= 1 => Deleted(k).pair_id = None
         /\ k = 0 => /\ Deleted(k).pair_id = keychain.pair_id
                     /\ Deleted(k).peer = keychain.peer /\ Deleted(k).secret = keychain.secret
BY DEF Deleted

\* The last entry is written and deleted last.
LEMMA UrlLast ==
  /\ \A rec : \A k \in 0..3 : ~keychain.url => ~Saved(rec, k).url
  /\ \A rec : Saved(rec, 4).url
  /\ ~Deleted(4).url
<1>1. /\ \A k \in 0..3 : ~(k >= 4)
      /\ 4 >= 4 /\ ~(4 < 4)
  OBVIOUS
<1>2. \A k, rec : Saved(rec, k).url = (k >= 4 \/ keychain.url)
  BY Zenon DEF Saved
<1>3. Deleted(4).url = (4 < 4 /\ keychain.url)
  BY Zenon DEF Deleted
<1>4. QED BY <1>1, <1>2, <1>3, Zenon

\* Records that say something are not the empty ones.
LEMMA NotNone ==
  /\ None \notin Pairs /\ None \notin Rooms /\ None \notin Phones /\ None # EmptySecret
  /\ \A p \in Pairs : \A q, s : [pair_id |-> p, peer |-> q, secret |-> s] # NoRecord
  /\ NoRecord.pair_id = None /\ NoRecord.peer = None /\ NoRecord.secret = None
  /\ Rooms \subseteq Nat /\ Pairs \subseteq Nat
BY PairingAssumption DEF Pairs, Rooms, NoRecord, EmptySecret

------------------------------------------------------------------------------
(* Type correctness.                                                        *)

LEMMA InitMacTypes == Init => MacTypes
<1> SUFFICES ASSUME Init PROVE MacTypes
  OBVIOUS
<1>1. events \in Seq(EventTypes)
  BY EmptySeq DEF Init
<1>2. QED
  BY <1>1, PairingAssumption DEF Init, MacTypes, NoRecord, EmptyKeychain, Secrets

LEMMA StepMacTypes == MacTypes /\ StoreTypes /\ [Next]_vars => MacTypes'
<1> SUFFICES ASSUME MacTypes, StoreTypes, [Next]_vars PROVE MacTypes'
  OBVIOUS
<1>0. /\ creating \in Nat /\ created \in Nat /\ created + creating <= MaxRooms
      /\ cancels \in Nat /\ faults \in Nat /\ restarts \in Nat /\ MaxRooms \in Nat
  BY PairingAssumption DEF MacTypes
<1>1. CASE StartPairing
  BY <1>0, <1>1, NotNone DEF StartPairing, MacTypes, Becomes, Secrets
<1>2. CASE CancelPairing
  BY <1>0, <1>2, NotNone DEF CancelPairing, MacTypes, Becomes, Secrets
<1>3. CASE ShowQr
  BY <1>3, NotNone DEF ShowQr, MacTypes, Becomes, Secrets
<1>4. CASE PollRx
  <2>0. /\ events # <<>> /\ events' = Tail(events)
        /\ UNCHANGED <<creating, created, pollers, cancels, restarts>>
    BY <1>4 DEF PollRx
  <2> DEFINE e == Head(events)
  <2>1. e \in EventTypes /\ events' \in Seq(EventTypes)
    BY <2>0, TakenEvents
  <2>2. \/ e.kind = "created" /\ OnCreated(e.room)
        \/ e.kind = "paired" /\ OnPaired(e.pair_id, e.ios)
        \/ e.kind = "error" /\ OnError
    BY <1>4 DEF PollRx
  <2> HIDE DEF e
  <2>3. CASE e.kind = "created" /\ OnCreated(e.room)
    BY <2>0, <2>1, <2>3, EventKinds DEF OnCreated, MacTypes
  <2>4. CASE e.kind = "paired" /\ OnPaired(e.pair_id, e.ios)
    <3> DEFINE rec == [pair_id |-> e.pair_id, peer |-> e.ios,
                       secret |-> IF pendingSecret = None THEN EmptySecret ELSE pendingSecret]
    <3>1. /\ rec.pair_id \in Pairs /\ rec.peer \in Phones /\ rec.secret \in Secrets
          /\ rec # NoRecord
      <4>1. e.pair_id \in Pairs /\ e.ios \in Phones
        BY <2>1, <2>4, EventKinds
      <4>2. (IF pendingSecret = None THEN EmptySecret ELSE pendingSecret) \in Secrets
        BY DEF MacTypes, Secrets
      <4>3. QED BY <4>1, <4>2, NotNone
    <3>2. CompletePairing(rec) /\ pendingSecret' = None /\ UNCHANGED pendingRoom
      BY <2>4 DEF OnPaired
    <3> HIDE DEF rec
    <3>3. CASE keychain' = Saved(rec, 4) /\ Becomes("paired", None, rec) /\ UNCHANGED faults
      BY <2>0, <2>1, <3>1, <3>2, <3>3, SavedFields, NotNone DEF MacTypes, Becomes
    <3>4. CASE /\ faults' = faults + 1 /\ Becomes("notPaired", None, NoRecord)
               /\ \E k \in 0..3 : keychain' = Saved(rec, k)
      <4>1. PICK k \in 0..4 : keychain' = Saved(rec, k)
        BY <3>4
      <4>2. /\ keychain'.pair_id \in Pairs \union {None}
            /\ keychain'.peer \in Phones \union {None} /\ keychain'.secret \in Secrets
        <5>1. /\ keychain'.pair_id \in {rec.pair_id, keychain.pair_id}
              /\ keychain'.peer \in {rec.peer, keychain.peer}
              /\ keychain'.secret \in {rec.secret, keychain.secret}
          BY <4>1, SavedFields
        <5>2. /\ keychain.pair_id \in Pairs \union {None}
              /\ keychain.peer \in Phones \union {None} /\ keychain.secret \in Secrets
          BY DEF MacTypes
        <5>3. QED BY <3>1, <5>1, <5>2
      <4>3. QED
        BY <2>0, <2>1, <3>2, <3>4, <4>2, NotNone DEF MacTypes, Becomes, Secrets
    <3>5. QED BY <3>2, <3>3, <3>4 DEF CompletePairing
  <2>5. CASE e.kind = "error" /\ OnError
    BY <2>0, <2>1, <2>5, NotNone DEF OnError, MacTypes, Becomes, Secrets
  <2>6. QED BY <2>2, <2>3, <2>4, <2>5
<1>5. CASE Revoke
  <2>1. PICK k \in 0..4 : keychain' = Deleted(k)
    BY <1>5 DEF Revoke
  <2>2. /\ keychain'.pair_id \in Pairs \union {None}
        /\ keychain'.peer \in Phones \union {None} /\ keychain'.secret \in Secrets
    BY <2>1, DeletedFields DEF MacTypes, Secrets
  <2>3. faults' \in Nat
    BY <1>0, <1>5 DEF Revoke
  <2>4. QED
    BY <1>5, <2>2, <2>3, NotNone DEF Revoke, MacTypes, Becomes, Secrets
<1>6. CASE Restart
  <2>1. events' \in Seq(EventTypes)
    BY <1>6, EmptySeq DEF Restart
  <2>2. CASE Complete(keychain)
    <3>1. keychain.pair_id \in Pairs
      BY <2>2 DEF Complete, MacTypes
    <3>2. QED
      BY <1>0, <1>6, <2>1, <2>2, <3>1, NotNone DEF Restart, MacTypes, Becomes
  <2>3. CASE ~Complete(keychain)
    BY <1>0, <1>6, <2>1, <2>3, NotNone DEF Restart, MacTypes, Becomes, Secrets
  <2>4. QED BY <2>2, <2>3
<1>7. CASE PairCreate
  <2>1. created + 1 \in Rooms
    BY <1>0, <1>7 DEF PairCreate, Rooms
  <2>2. CreatedEvent(created + 1) \in EventTypes
    BY <2>1 DEF EventTypes
  <2>3. events' \in Seq(EventTypes)
    BY <1>7, <2>2, PostedEvents DEF PairCreate
  <2>4. QED
    BY <1>0, <1>7, <2>3 DEF PairCreate, MacTypes
<1>8. CASE CreateFails
  <2>1. events' \in Seq(EventTypes)
    BY <1>8, PostedEvents DEF CreateFails, EventTypes
  <2>2. QED
    BY <1>0, <1>8, <2>1 DEF CreateFails, MacTypes
<1>9. ASSUME NEW r \in Rooms, Poll(r) PROVE MacTypes'
  <2>1. roomEvent[r] \in [pair_id : Pairs, ios : Phones]
    BY <1>9 DEF Poll, StoreTypes
  <2>2. PairedEvent(roomEvent[r]) \in EventTypes
    BY <2>1 DEF EventTypes
  <2>3. events' \in Seq(EventTypes)
    BY <1>9, <2>2, PostedEvents DEF Poll
  <2>4. QED BY <1>9, <2>3 DEF Poll, PollerKeeps, MacTypes
<1>10. ASSUME NEW r \in Rooms, GiveUp(r) PROVE MacTypes'
  BY <1>10 DEF GiveUp, PollerKeeps, MacTypes
<1>11. ASSUME UNCHANGED macVars PROVE MacTypes'
  BY <1>11 DEF MacTypes
<1>12. Lapse => UNCHANGED macVars
  BY DEF Lapse, Expire, MarkLapses, ClaimKeeps
<1>13. \A q \in Phones : PhoneRevokes(q) => UNCHANGED macVars
  BY DEF PhoneRevokes
<1>14. QED
  BY <1>1, <1>2, <1>3, <1>4, <1>5, <1>6, <1>7, <1>8, <1>9, <1>10, <1>11, <1>12, <1>13,
     NextSteps, ClaimChanges, RevokeChanges DEF MacStep

LEMMA InitStoreTypes == Init => StoreTypes
BY PairingAssumption DEF Init, StoreTypes, ClaimTypes, Idle, Made, Marks

\* A claim goes on, with the pair it was given.
LEMMA ClaimMoves ==
  ASSUME StoreTypes, NEW q \in Phones, NEW c \in ClaimTypes,
         claims' = [claims EXCEPT ![q] = c]
  PROVE  /\ claims' \in [Phones -> ClaimTypes] /\ claims'[q] = c
         /\ \A u \in Phones : u # q => claims'[u] = claims[u]
BY DEF StoreTypes

\* The claims after each of the steps.
LEMMA ScanAfter ==
  ASSUME MacTypes, StoreTypes, NEW q \in Phones, Scan(q)
  PROVE  /\ claims' \in [Phones -> ClaimTypes]
         /\ \A u \in Phones : u # q => claims'[u] = claims[u]
         /\ claims'[q].step = "sent" /\ claims'[q].room = shown /\ shown \in Rooms
         /\ UNCHANGED <<kvVars, phone, macVars, revokes>>
<1> DEFINE c == [step |-> "sent", room |-> shown, pair |-> None]
<1>1. c \in ClaimTypes /\ shown \in Rooms /\ claims' = [claims EXCEPT ![q] = c]
  BY DEF Scan, MacTypes, ClaimTypes
<1>2. c.step = "sent" /\ c.room = shown
  OBVIOUS
<1> HIDE DEF c
<1>3. QED BY <1>1, <1>2, ClaimMoves DEF Scan, ClaimKeeps

LEMMA ReadAfter ==
  ASSUME StoreTypes, NEW q \in Phones, ReadToken(q)
  PROVE  /\ claims' \in [Phones -> ClaimTypes]
         /\ \A u \in Phones : u # q => claims'[u] = claims[u]
         /\ \/ claims'[q].step = "idle"
            \/ /\ claims[q].step = "sent" /\ claims'[q].step = "valid"
               /\ claims'[q].room = claims[q].room
         /\ UNCHANGED <<kvVars, phone, macVars, revokes>>
<1> DEFINE c == IF claims[q].room \in tokens THEN [claims[q] EXCEPT !.step = "valid"] ELSE Idle
<1>0. claims[q] \in ClaimTypes /\ claims[q].step = "sent"
  BY DEF StoreTypes, ReadToken, At
<1>1. /\ c \in ClaimTypes
      /\ c.step = "idle" \/ (c.step = "valid" /\ c.room = claims[q].room)
  BY <1>0 DEF Idle, ClaimTypes
<1>2. claims' = [claims EXCEPT ![q] = c]
  BY DEF ReadToken
<1> HIDE DEF c
<1>3. QED BY <1>0, <1>1, <1>2, ClaimMoves DEF ReadToken, ClaimKeeps

LEMMA PutAfter ==
  ASSUME StoreTypes, NEW q \in Phones, PutPair(q)
  PROVE  /\ claims' \in [Phones -> ClaimTypes]
         /\ \A u \in Phones : u # q => claims'[u] = claims[u]
         /\ claims[q].step = "valid" /\ claims[q].room \in Rooms
         /\ claims'[q].step = "put" /\ claims'[q].room = claims[q].room
         /\ claims'[q].pair = paired + 1 /\ paired + 1 \in Pairs
         /\ paired' = paired + 1 /\ paired \in Nat
         /\ pairs' = [pairs EXCEPT ![paired + 1] = [secret |-> claims[q].room, ios |-> q]]
         /\ UNCHANGED <<tokens, revoked, roomEvent, phone, macVars, revokes>>
<1> DEFINE c == [claims[q] EXCEPT !.step = "put", !.pair = paired + 1]
<1>0. /\ claims[q] \in ClaimTypes /\ claims[q].step = "valid" /\ claims[q].room \in Rooms
      /\ paired + 1 \in Pairs /\ paired \in Nat
  BY PairingAssumption DEF StoreTypes, PutPair, At, Pairs
<1>1. /\ c \in ClaimTypes /\ c.step = "put" /\ c.pair = paired + 1
      /\ c.room = claims[q].room
  BY <1>0 DEF ClaimTypes, Made
<1>2. claims' = [claims EXCEPT ![q] = c]
  BY DEF PutPair
<1> HIDE DEF c
<1>3. QED BY <1>0, <1>1, <1>2, ClaimMoves DEF PutPair, ClaimKeeps

LEMMA DeleteAfter ==
  ASSUME StoreTypes, NEW q \in Phones, DeleteToken(q)
  PROVE  /\ claims' \in [Phones -> ClaimTypes]
         /\ \A u \in Phones : u # q => claims'[u] = claims[u]
         /\ claims[q].step = "put" /\ claims'[q].step = "spent"
         /\ claims'[q].room = claims[q].room /\ claims'[q].pair = claims[q].pair
         /\ tokens' = tokens \ {claims[q].room}
         /\ UNCHANGED <<pairs, paired, revoked, roomEvent, phone, macVars, revokes>>
<1> DEFINE c == [claims[q] EXCEPT !.step = "spent"]
<1>0. claims[q] \in ClaimTypes /\ claims[q].step = "put"
  BY DEF StoreTypes, DeleteToken, At
<1>1. c \in ClaimTypes /\ c.step = "spent" /\ c.pair = claims[q].pair /\ c.room = claims[q].room
  BY <1>0 DEF ClaimTypes, Made
<1>2. claims' = [claims EXCEPT ![q] = c]
  BY DEF DeleteToken
<1> HIDE DEF c
<1>3. QED BY <1>0, <1>1, <1>2, ClaimMoves DEF DeleteToken, ClaimKeeps

LEMMA EventAfter ==
  ASSUME StoreTypes, NEW q \in Phones, PutRoomEvent(q)
  PROVE  /\ claims' \in [Phones -> ClaimTypes]
         /\ \A u \in Phones : u # q => claims'[u] = claims[u]
         /\ claims[q].step = "spent" /\ claims'[q].step = "done"
         /\ claims'[q].room = claims[q].room /\ claims'[q].pair = claims[q].pair
         /\ claims[q].room \in Rooms /\ claims[q].pair \in Pairs
         /\ \A r \in Rooms : roomEvent'[r] = IF r = claims[q].room
                                             THEN [pair_id |-> claims[q].pair, ios |-> q]
                                             ELSE roomEvent[r]
         /\ roomEvent' \in [Rooms -> [pair_id : Pairs, ios : Phones] \union {NoEvent}]
         /\ UNCHANGED <<tokens, pairs, paired, revoked, phone, macVars, revokes>>
<1> DEFINE c == [claims[q] EXCEPT !.step = "done"]
<1>0. /\ claims[q] \in ClaimTypes /\ claims[q].step = "spent"
      /\ claims[q].room \in Rooms /\ claims[q].pair \in Pairs
  BY DEF StoreTypes, PutRoomEvent, At, Made
<1>1. c \in ClaimTypes /\ c.step = "done" /\ c.pair = claims[q].pair /\ c.room = claims[q].room
  BY <1>0 DEF ClaimTypes, Made
<1>2. claims' = [claims EXCEPT ![q] = c]
  BY DEF PutRoomEvent
<1> HIDE DEF c
<1>3. /\ roomEvent \in [Rooms -> [pair_id : Pairs, ios : Phones] \union {NoEvent}]
      /\ roomEvent' = [roomEvent EXCEPT ![claims[q].room] =
                         [pair_id |-> claims[q].pair, ios |-> q]]
  BY DEF StoreTypes, PutRoomEvent
<1>4. /\ \A r \in Rooms : roomEvent'[r] = IF r = claims[q].room
                                             THEN [pair_id |-> claims[q].pair, ios |-> q]
                                             ELSE roomEvent[r]
      /\ roomEvent' \in [Rooms -> [pair_id : Pairs, ios : Phones] \union {NoEvent}]
  BY <1>0, <1>3
<1>5. /\ claims' \in [Phones -> ClaimTypes] /\ claims'[q] = c
      /\ \A u \in Phones : u # q => claims'[u] = claims[u]
  BY <1>1, <1>2, ClaimMoves
<1>6. QED BY <1>0, <1>1, <1>4, <1>5 DEF PutRoomEvent, ClaimKeeps

LEMMA ClearAfter ==
  ASSUME StoreTypes, NEW q \in Phones, SavePair(q) \/ ClaimFails(q)
  PROVE  /\ claims' \in [Phones -> ClaimTypes]
         /\ \A u \in Phones : u # q => claims'[u] = claims[u]
         /\ claims'[q].step = "idle"
         /\ \A u \in Phones : \/ phone'[u] = phone[u]
                              \/ /\ u = q /\ claims[q].step \in Made
                                 /\ phone'[q] = claims[q].pair
         /\ phone' \in [Phones -> Pairs \union {None}]
         /\ UNCHANGED <<kvVars, macVars, revokes>>
<1>0. Idle \in ClaimTypes /\ Idle.step = "idle" /\ claims' = [claims EXCEPT ![q] = Idle]
  BY DEF Idle, ClaimTypes, SavePair, ClaimFails
<1>1. CASE SavePair(q)
  BY <1>0, <1>1, ClaimMoves DEF SavePair, ClaimKeeps, StoreTypes, At, Made
<1>2. CASE ClaimFails(q)
  BY <1>0, <1>2, ClaimMoves DEF ClaimFails, ClaimKeeps, StoreTypes
<1>3. QED BY <1>1, <1>2

\* The revocations after each of the steps that they take.
LEMMA RevokeAfter ==
  ASSUME StoreTypes, NEW h \in revokes, RevokeStep(h)
  PROVE  /\ revokes' \in SUBSET RevokeTypes
         /\ \A g \in revokes' :
              g \in revokes \/ (g.pair = h.pair /\ (g.step = "marked" => Marked(h.pair)'))
         /\ revoked' \in [Pairs -> Marks] /\ \A p \in Pairs : Marked(p) => Marked(p)'
         /\ \A p \in Pairs : \/ pairs'[p] = pairs[p]
                             \/ p = h.pair /\ pairs'[p] = NoPair /\ h.step = "marked"
         /\ pairs' \in [Pairs -> [secret : Rooms, ios : Phones] \union {NoPair}]
         /\ \A q \in Phones : phone'[q] \in {phone[q], None}
         /\ phone' \in [Phones -> Pairs \union {None}]
<1>0. /\ h \in RevokeTypes /\ revokes \in SUBSET RevokeTypes /\ h.pair \in Pairs
      /\ phone \in [Phones -> Pairs \union {None}] /\ revoked \in [Pairs -> Marks]
      /\ pairs \in [Pairs -> [secret : Rooms, ios : Phones] \union {NoPair}]
  BY DEF StoreTypes, RevokeTypes
<1>1. ASSUME NEW step \in {"sent", "checked", "marked"}, MovesTo(h, step)
      PROVE  /\ revokes' \in SUBSET RevokeTypes
             /\ \A g \in revokes' : g \in revokes \/ (g.pair = h.pair /\ g.step = step)
  <2> DEFINE n == [h EXCEPT !.step = step]
  <2>1. n \in RevokeTypes /\ n.pair = h.pair /\ n.step = step
    BY <1>0 DEF RevokeTypes
  <2>2. revokes' = (revokes \ {h}) \union {n}
    BY <1>1 DEF MovesTo
  <2> HIDE DEF n
  <2>3. QED BY <1>0, <2>1, <2>2
<1>2. PhoneAfter(h) \in [Phones -> Pairs \union {None}]
      /\ \A q \in Phones : PhoneAfter(h)[q] \in {phone[q], None}
  BY <1>0 DEF PhoneAfter
<1>3. CASE RevokeCheck(h)
  BY <1>0, <1>1, <1>3 DEF RevokeCheck, RevokeKeeps, Marked
<1>4. CASE MarkRevoked(h)
  BY <1>0, <1>1, <1>4 DEF MarkRevoked, RevokeKeeps, Marked, Marks
<1>5. CASE DeletePair(h)
  BY <1>0, <1>2, <1>5 DEF DeletePair, Ends, Marked
<1>6. CASE RevokeFails(h)
  BY <1>0, <1>2, <1>6 DEF RevokeFails, Ends, Marked
<1>7. QED BY <1>3, <1>4, <1>5, <1>6 DEF RevokeStep

\* A step of a claim is one of these.
LEMMA ClaimSteps ==
  ASSUME NEW q \in Phones, ClaimStep(q), ~PhoneRevokes(q)
  PROVE  \/ Scan(q) \/ ReadToken(q) \/ PutPair(q) \/ DeleteToken(q) \/ PutRoomEvent(q)
         \/ SavePair(q) \/ ClaimFails(q)
BY DEF ClaimStep

LEMMA StepStoreTypes == MacTypes /\ StoreTypes /\ [Next]_vars => StoreTypes'
<1> SUFFICES ASSUME MacTypes, StoreTypes, [Next]_vars PROVE StoreTypes'
  OBVIOUS
<1>1. CASE MacStep
  <2>1. revokes' \in SUBSET RevokeTypes
    <3>1. CASE Revoke
      <4> DEFINE n == [by |-> "mac", pair |-> record.pair_id, secret |-> record.secret,
                       step |-> "sent"]
      <4>1. n \in RevokeTypes
        BY <3>1 DEF Revoke, MacTypes, RevokeTypes
      <4>2. revokes' = revokes \union {n}
        BY <3>1 DEF Revoke
      <4>3. QED BY <4>1, <4>2 DEF StoreTypes
    <3>2. CASE ~Revoke
      <4>1. revokes' = revokes
        BY <1>1, <3>2 DEF MacStep, StartPairing, CancelPairing, ShowQr, PollRx, Restart,
                          CreateFails, Poll, GiveUp, PollerKeeps
      <4>2. QED BY <4>1 DEF StoreTypes
    <3>3. QED BY <3>1, <3>2
  <2>2. QED BY <1>1, <2>1, MacChanges DEF StoreTypes
<1>2. CASE PairCreate
  <2>1. created + 1 \in Rooms
    BY <1>2, PairingAssumption DEF PairCreate, Rooms, MacTypes
  <2>2. QED BY <1>2, <2>1 DEF PairCreate, StoreTypes
<1>3. CASE Lapse
  BY <1>3 DEF Lapse, Expire, MarkLapses, ClaimKeeps, StoreTypes, Marks
<1>4. ASSUME NEW q \in Phones, PhoneRevokes(q) PROVE StoreTypes'
  <2> DEFINE n == [by |-> q, pair |-> phone[q], secret |-> None, step |-> "sent"]
  <2>1. n \in RevokeTypes
    BY <1>4 DEF PhoneRevokes, StoreTypes, RevokeTypes, Secrets
  <2>2. revokes' = revokes \union {n}
    BY <1>4 DEF PhoneRevokes
  <2> HIDE DEF n
  <2>3. QED BY <1>4, <2>1, <2>2 DEF PhoneRevokes, StoreTypes
<1>5. ASSUME NEW q \in Phones, Scan(q) PROVE StoreTypes'
  BY <1>5, ScanAfter DEF StoreTypes, Made
<1>6. ASSUME NEW q \in Phones, ReadToken(q) PROVE StoreTypes'
  BY <1>6, ReadAfter DEF StoreTypes, Made
<1>7. ASSUME NEW q \in Phones, PutPair(q) PROVE StoreTypes'
  <2>1. /\ paired' = paired + 1 /\ paired + 1 \in Pairs /\ paired \in Nat
        /\ claims[q].room \in Rooms
        /\ pairs' = [pairs EXCEPT ![paired + 1] = [secret |-> claims[q].room, ios |-> q]]
    BY <1>7, PutAfter
  <2>2. paired' \in 0..MaxPairs
    BY <2>1, PairingAssumption DEF Pairs
  <2>3. pairs' \in [Pairs -> [secret : Rooms, ios : Phones] \union {NoPair}]
    BY <2>1 DEF StoreTypes
  <2>4. QED BY <1>7, <2>1, <2>2, <2>3, PutAfter DEF StoreTypes, Made
<1>8. ASSUME NEW q \in Phones, DeleteToken(q) PROVE StoreTypes'
  BY <1>8, DeleteAfter DEF StoreTypes, Made
<1>9. ASSUME NEW q \in Phones, PutRoomEvent(q) PROVE StoreTypes'
  BY <1>9, EventAfter DEF StoreTypes, Made
<1>10. ASSUME NEW q \in Phones, SavePair(q) \/ ClaimFails(q) PROVE StoreTypes'
  BY <1>10, ClearAfter DEF StoreTypes, Made
<1>11. ASSUME NEW h \in revokes, RevokeStep(h) PROVE StoreTypes'
  BY <1>11, RevokeChanges, RevokeAfter DEF StoreTypes
<1>12. CASE UNCHANGED vars
  BY <1>12 DEF StoreTypes
<1>13. QED
  BY <1>1, <1>2, <1>3, <1>4, <1>5, <1>6, <1>7, <1>8, <1>9, <1>10, <1>11, <1>12,
     NextSteps, ClaimSteps

------------------------------------------------------------------------------
(* Tokens.                                                                  *)

LEMMA InitTokens == Init => TokensInv
BY DEF Init, TokensInv, Idle

\* What the Mac's steps do to the rooms that are named.
LEMMA MacRooms ==
  ASSUME MacTypes, StoreTypes, TokensInv, MacStep
  PROVE  /\ shown' # None => shown' <= created
         /\ pendingRoom' # None => pendingRoom' <= created
         /\ \A i \in 1..Len(events') :
              events'[i].kind = "created" => events'[i].room <= created
<1>1. ASSUME UNCHANGED events
      PROVE  \A i \in 1..Len(events') : events'[i].kind = "created" => events'[i].room <= created
  BY <1>1 DEF TokensInv
<1>2. CASE StartPairing \/ CancelPairing \/ ShowQr
  BY <1>1, <1>2 DEF StartPairing, CancelPairing, ShowQr, Becomes, TokensInv
<1>3. CASE PollRx
  <2>1. /\ events # <<>> /\ events' = Tail(events)
        /\ LET e == Head(events) IN
             \/ e.kind = "created" /\ OnCreated(e.room)
             \/ e.kind = "paired" /\ OnPaired(e.pair_id, e.ios)
             \/ e.kind = "error" /\ OnError
    BY <1>3 DEF PollRx
  <2>2. \A i \in 1..Len(events') : events'[i].kind = "created" => events'[i].room <= created
    BY <2>1, TakenEvents DEF TokensInv
  <2>3. /\ Head(events) = events[1] /\ 1 \in 1..Len(events)
    BY <2>1, TakenEvents
  <2>4. Head(events).kind = "created" => Head(events).room <= created
    BY <2>3 DEF TokensInv
  <2>5. shown' \in {shown, None}
    BY <2>1 DEF OnCreated, OnPaired, OnError, CompletePairing, Becomes
  <2>6. pendingRoom' # None => pendingRoom' <= created
    BY <2>1, <2>4 DEF OnCreated, OnPaired, OnError, TokensInv
  <2>7. QED BY <2>2, <2>5, <2>6 DEF TokensInv
<1>4. CASE Revoke
  BY <1>1, <1>4 DEF Revoke, Becomes, TokensInv
<1>5. CASE Restart
  <2>1. events' = <<>> /\ shown' = None /\ pendingRoom' = None
    BY <1>5 DEF Restart, Becomes
  <2>2. QED BY <2>1
<1>6. CASE CreateFails
  <2>1. Post(ErrorEvent) /\ UNCHANGED <<shown, pendingRoom>>
    BY <1>6 DEF CreateFails
  <2>2. ErrorEvent \in EventTypes /\ ErrorEvent.kind = "error"
    BY DEF EventTypes, ErrorEvent
  <2>3. QED BY <2>1, <2>2, PostedEvents DEF TokensInv
<1>7. ASSUME NEW r \in Rooms, Poll(r)
      PROVE  /\ UNCHANGED <<shown, pendingRoom>>
             /\ \A i \in 1..Len(events') :
                  events'[i].kind = "created" => events'[i].room <= created
  <2>1. Post(PairedEvent(roomEvent[r])) /\ UNCHANGED <<shown, pendingRoom>>
    BY <1>7 DEF Poll, PollerKeeps
  <2>2. roomEvent[r] \in [pair_id : Pairs, ios : Phones]
    BY <1>7 DEF Poll, StoreTypes
  <2>3. PairedEvent(roomEvent[r]) \in EventTypes /\ PairedEvent(roomEvent[r]).kind = "paired"
    BY <2>2 DEF EventTypes, PairedEvent
  <2>4. QED BY <2>1, <2>3, PostedEvents DEF TokensInv
<1>8. ASSUME NEW r \in Rooms, GiveUp(r) PROVE UNCHANGED <<events, shown, pendingRoom>>
  BY <1>8 DEF GiveUp, PollerKeeps
<1>9. ASSUME UNCHANGED <<shown, pendingRoom>>
      PROVE  (shown' # None => shown' <= created) /\ (pendingRoom' # None => pendingRoom' <= created)
  BY <1>9 DEF TokensInv
<1>10. QED
  BY <1>1, <1>2, <1>3, <1>4, <1>5, <1>6, <1>7, <1>8, <1>9 DEF MacStep

LEMMA StepTokens == MacTypes /\ StoreTypes /\ TokensInv /\ [Next]_vars => TokensInv'
<1> SUFFICES ASSUME MacTypes, StoreTypes, TokensInv, [Next]_vars PROVE TokensInv'
  OBVIOUS
<1>0. created \in Nat /\ \A q \in Phones : claims[q].step # "idle" => claims[q].room \in Rooms
  BY DEF MacTypes, StoreTypes
<1>1. CASE MacStep
  BY <1>1, MacRooms, MacChanges DEF TokensInv
<1>2. CASE PairCreate
  <2>1. /\ created' = created + 1 /\ tokens' = tokens \union {created + 1}
        /\ Post(CreatedEvent(created + 1)) /\ created + 1 \in Rooms
        /\ UNCHANGED <<shown, pendingRoom, claims, roomEvent>>
    BY <1>0, <1>2, PairingAssumption DEF PairCreate, Rooms, MacTypes
  <2>2. CreatedEvent(created + 1) \in EventTypes /\ CreatedEvent(created + 1).room = created + 1
    BY <2>1 DEF EventTypes, CreatedEvent
  <2>3. ASSUME NEW i \in 1..Len(events'), events'[i].kind = "created"
        PROVE  events'[i].room <= created'
    <3>1. CASE i \in 1..Len(events) /\ events'[i] = events[i]
      <4>1. events[i] \in EventTypes
        BY <3>1, ElementOfSeq DEF MacTypes
      <4>2. events[i].room \in Nat
        BY <2>3, <3>1, <4>1, EventKinds, NotNone
      <4>3. events[i].room <= created
        BY <2>3, <3>1 DEF TokensInv
      <4>4. QED BY <1>0, <2>1, <3>1, <4>2, <4>3
    <3>2. CASE events'[i] = CreatedEvent(created + 1)
      BY <1>0, <2>1, <2>2, <3>2
    <3>3. QED BY <2>1, <2>2, <3>1, <3>2, PostedEvents
  <2>4. \A r \in Rooms : r <= created => r <= created' /\ r # created + 1
    BY <1>0, <2>1, NotNone
  <2>5. shown \in Rooms \union {None} /\ pendingRoom \in Rooms \union {None}
    BY DEF MacTypes
  <2>6. /\ shown' # None => shown' <= created'
        /\ pendingRoom' # None => pendingRoom' <= created'
    BY <2>1, <2>4, <2>5 DEF TokensInv
  <2>7. tokens' \subseteq 1..created'
    BY <1>0, <2>1 DEF TokensInv
  <2>8. \A q \in Phones :
          /\ claims'[q].step # "idle" => claims'[q].room <= created'
          /\ claims'[q].step \in {"spent", "done"} => claims'[q].room \notin tokens'
    BY <1>0, <2>1, <2>4 DEF TokensInv
  <2>9. \A r \in Rooms : roomEvent'[r] # NoEvent => r <= created' /\ r \notin tokens'
    BY <2>1, <2>4 DEF TokensInv
  <2>10. QED BY <2>3, <2>6, <2>7, <2>8, <2>9 DEF TokensInv
<1>3. CASE Lapse
  BY <1>3 DEF Lapse, Expire, MarkLapses, ClaimKeeps, TokensInv
<1>4. ASSUME NEW q \in Phones, PhoneRevokes(q) PROVE TokensInv'
  BY <1>4 DEF PhoneRevokes, TokensInv
<1>5. ASSUME NEW q \in Phones, Scan(q) PROVE TokensInv'
  BY <1>5, ScanAfter, NotNone DEF TokensInv
<1>6. ASSUME NEW q \in Phones, ReadToken(q) PROVE TokensInv'
  BY <1>6, ReadAfter DEF TokensInv
<1>7. ASSUME NEW q \in Phones, PutPair(q) PROVE TokensInv'
  BY <1>7, PutAfter DEF TokensInv
<1>8. ASSUME NEW q \in Phones, DeleteToken(q) PROVE TokensInv'
  BY <1>8, DeleteAfter DEF TokensInv
<1>9. ASSUME NEW q \in Phones, PutRoomEvent(q) PROVE TokensInv'
  <2>1. claims[q].room <= created /\ claims[q].room \notin tokens
    BY <1>9, EventAfter DEF TokensInv
  <2>2. \A u \in Phones : claims'[u].room = claims[u].room /\
          (claims'[u].step = claims[u].step \/ (u = q /\ claims[q].step = "spent"))
    BY <1>9, EventAfter
  <2>3. \A r \in Rooms : roomEvent'[r] = roomEvent[r] \/ r = claims[q].room
    BY <1>9, EventAfter
  <2>4. UNCHANGED <<tokens, macVars>>
    BY <1>9, EventAfter
  <2>5. QED BY <2>1, <2>2, <2>3, <2>4 DEF TokensInv
<1>10. ASSUME NEW q \in Phones, SavePair(q) \/ ClaimFails(q) PROVE TokensInv'
  BY <1>10, ClearAfter DEF TokensInv
<1>11. ASSUME NEW h \in revokes, RevokeStep(h) PROVE TokensInv'
  BY <1>11, RevokeChanges DEF TokensInv
<1>12. CASE UNCHANGED vars
  BY <1>12 DEF TokensInv
<1>13. QED
  BY <1>1, <1>2, <1>3, <1>4, <1>5, <1>6, <1>7, <1>8, <1>9, <1>10, <1>11, <1>12,
     NextSteps, ClaimSteps

------------------------------------------------------------------------------
(* The record of a pair.                                                    *)

LEMMA InitMarked == Init => MarkedInv
BY DEF Init, MarkedInv

\* A revocation that has marked its pair stays so, and what is recorded stays recorded.
LEMMA StepMarked == MacTypes /\ StoreTypes /\ MarkedInv /\ [Next]_vars => MarkedInv'
<1> SUFFICES ASSUME MacTypes, StoreTypes, MarkedInv, [Next]_vars PROVE MarkedInv'
  OBVIOUS
<1>1. CASE MacStep
  <2>1. \A h \in revokes' : h \in revokes \/ h.step = "sent"
    BY <1>1 DEF MacStep, StartPairing, CancelPairing, ShowQr, PollRx, Revoke, Restart,
                CreateFails, Poll, GiveUp, PollerKeeps
  <2>2. revoked' = revoked
    BY <1>1, MacChanges
  <2>3. QED BY <2>1, <2>2 DEF MarkedInv, Marked
<1>2. CASE PairCreate
  BY <1>2 DEF PairCreate, MarkedInv, Marked
<1>3. CASE Lapse
  BY <1>3 DEF Lapse, Expire, MarkLapses, ClaimKeeps, MarkedInv, StoreTypes, RevokeTypes, Marked
<1>4. ASSUME NEW q \in Phones, PhoneRevokes(q) PROVE MarkedInv'
  BY <1>4 DEF PhoneRevokes, MarkedInv, Marked
<1>5. ASSUME NEW q \in Phones, ClaimStep(q), ~PhoneRevokes(q) PROVE MarkedInv'
  BY <1>5, ClaimChanges DEF MarkedInv, Marked
<1>6. ASSUME NEW h \in revokes, RevokeStep(h) PROVE MarkedInv'
  BY <1>6, RevokeAfter DEF MarkedInv, StoreTypes, RevokeTypes
<1>7. CASE UNCHANGED vars
  BY <1>7 DEF MarkedInv, Marked
<1>8. QED BY <1>1, <1>2, <1>3, <1>4, <1>5, <1>6, <1>7, NextSteps

\* The store's records of made pairs: a pair that is there stays as it is until it is deleted,
\* and it is marked by then.
LEMMA StoreMoves ==
  ASSUME MacTypes, StoreTypes, MarkedInv, [Next]_vars
  PROVE  /\ paired \in Nat /\ paired' \in Nat /\ paired <= paired'
         /\ \A p \in Pairs : Marked(p) => Marked(p)'
         /\ \A p \in Pairs : p <= paired =>
              pairs'[p] = pairs[p] \/ (pairs'[p] = NoPair /\ Marked(p)')
<1>0. paired \in Nat
  BY PairingAssumption DEF StoreTypes
<1>1. CASE UNCHANGED <<paired, pairs, revoked>>
  BY <1>0, <1>1 DEF Marked
<1>2. ASSUME NEW q \in Phones, PutPair(q)
      PROVE  /\ paired' = paired + 1 /\ revoked' = revoked
             /\ \A p \in Pairs : p <= paired => pairs'[p] = pairs[p]
  <2>1. /\ paired' = paired + 1 /\ revoked' = revoked
        /\ pairs' = [pairs EXCEPT ![paired + 1] = [secret |-> claims[q].room, ios |-> q]]
    BY <1>2, PutAfter
  <2>2. \A p \in Pairs : p <= paired => p # paired + 1
    BY <1>0, NotNone
  <2>3. QED BY <2>1, <2>2 DEF StoreTypes
<1>3. ASSUME NEW q \in Phones, ClaimStep(q), ~PhoneRevokes(q), ~PutPair(q)
      PROVE  UNCHANGED <<paired, pairs, revoked>>
  BY <1>3, ClaimSteps, ScanAfter, ReadAfter, DeleteAfter, EventAfter, ClearAfter
<1>4. ASSUME NEW h \in revokes, RevokeStep(h)
      PROVE  /\ paired' = paired /\ \A p \in Pairs : Marked(p) => Marked(p)'
             /\ \A p \in Pairs : pairs'[p] = pairs[p] \/ (pairs'[p] = NoPair /\ Marked(p)')
  BY <1>4, RevokeAfter, RevokeChanges DEF MarkedInv, Marked
<1>5. Lapse => UNCHANGED <<paired, pairs>> /\ \A p \in Pairs : Marked(p) => Marked(p)'
  BY DEF Lapse, Expire, MarkLapses, StoreTypes, Marked
<1>6. \A q \in Phones : PhoneRevokes(q) => UNCHANGED <<paired, pairs, revoked>>
  BY DEF PhoneRevokes
<1>7. PairCreate => UNCHANGED <<paired, pairs, revoked>>
  BY DEF PairCreate
<1>8. MacStep => UNCHANGED <<paired, pairs, revoked>>
  BY MacChanges
<1>9. UNCHANGED vars => UNCHANGED <<paired, pairs, revoked>>
  OBVIOUS
<1>10. QED
  BY <1>0, <1>1, <1>2, <1>3, <1>4, <1>5, <1>6, <1>7, <1>8, <1>9, NextSteps DEF Marked

LEMMA RecordedStays ==
  ASSUME MacTypes, StoreTypes, MarkedInv, [Next]_vars,
         NEW p \in Pairs, p <= paired, Recorded(p)
  PROVE  Recorded(p)' /\ p <= paired'
<1>1. p \in Nat
  BY NotNone
<1>2. QED BY <1>1, StoreMoves DEF Recorded

LEMMA HoldsStays ==
  ASSUME MacTypes, StoreTypes, MarkedInv, [Next]_vars,
         NEW p \in Pairs, p <= paired, NEW secret, NEW q, Holds(p, secret, q)
  PROVE  pairs'[p] \in {NoPair, [secret |-> secret, ios |-> q]}
BY StoreMoves DEF Holds

------------------------------------------------------------------------------
(* Who names a pair.                                                        *)

LEMMA InitNames == Init => NamesInv
BY PairingAssumption, NotNone DEF Init, NamesInv, Named, Idle, Made, NoEvent

\* The events that are on the way after a step are those of before, or the room's.
LEMMA NamedEvents ==
  ASSUME MacTypes, StoreTypes, [Next]_vars, NEW p \in Pairs, NEW q \in Phones,
         NEW i \in 1..Len(events'), events'[i] = PairedEvent([pair_id |-> p, ios |-> q])
  PROVE  \/ \E r \in Rooms : roomEvent[r] = [pair_id |-> p, ios |-> q]
         \/ \E j \in 1..Len(events) : events[j] = PairedEvent([pair_id |-> p, ios |-> q])
<1> DEFINE Before == \E j \in 1..Len(events) : events[j] = PairedEvent([pair_id |-> p, ios |-> q])
<1>1. CASE events' = events
  BY <1>1
<1>2. CASE PollRx
  BY <1>2, TakenEvents DEF PollRx
<1>3. CASE Restart
  <2>1. events' = <<>>
    BY <1>3 DEF Restart
  <2>2. i \in 1..0
    BY <2>1
  <2>3. QED BY <2>2
<1>4. ASSUME NEW e \in EventTypes, Post(e), e.kind # "paired" PROVE Before
  <2>1. events'[i].kind = "paired"
    BY DEF PairedEvent
  <2>2. QED BY <1>4, <2>1, PostedEvents
<1>5. CASE PairCreate
  <2>1. created + 1 \in Rooms
    BY <1>5, PairingAssumption DEF PairCreate, Rooms, MacTypes
  <2>2. CreatedEvent(created + 1) \in EventTypes /\ CreatedEvent(created + 1).kind # "paired"
    BY <2>1 DEF EventTypes, CreatedEvent
  <2>3. QED BY <1>4, <1>5, <2>2 DEF PairCreate
<1>6. CASE CreateFails
  <2>1. ErrorEvent \in EventTypes /\ ErrorEvent.kind # "paired"
    BY DEF EventTypes, ErrorEvent
  <2>2. QED BY <1>4, <1>6, <2>1 DEF CreateFails
<1>7. ASSUME NEW r \in Rooms, Poll(r)
      PROVE  Before \/ roomEvent[r] = [pair_id |-> p, ios |-> q]
  <2>1. roomEvent[r] \in [pair_id : Pairs, ios : Phones] /\ Post(PairedEvent(roomEvent[r]))
    BY <1>7 DEF Poll, StoreTypes
  <2>2. PairedEvent(roomEvent[r]) \in EventTypes
    BY <2>1 DEF EventTypes
  <2>3. \/ i \in 1..Len(events) /\ events'[i] = events[i]
        \/ events'[i] = PairedEvent(roomEvent[r])
    BY <2>1, <2>2, PostedEvents
  <2>4. CASE events'[i] = PairedEvent(roomEvent[r])
    <3>1. roomEvent[r].pair_id = p /\ roomEvent[r].ios = q
      BY <2>4 DEF PairedEvent
    <3>2. QED BY <2>1, <3>1
  <2>5. QED BY <2>3, <2>4
<1>8. MacStep /\ ~PollRx /\ ~Restart /\ ~CreateFails /\ (\A r \in Rooms : ~Poll(r))
        => events' = events
  BY DEF MacStep, StartPairing, CancelPairing, ShowQr, Revoke, GiveUp
<1>9. ~MacStep /\ ~PairCreate => events' = events
  <2>1. Lapse => events' = events
    BY DEF Lapse, Expire, MarkLapses, ClaimKeeps
  <2>2. \A u \in Phones : PhoneRevokes(u) => events' = events
    BY DEF PhoneRevokes
  <2>3. QED BY <2>1, <2>2, NextSteps, ClaimChanges, RevokeChanges
<1>10. QED BY <1>1, <1>2, <1>3, <1>5, <1>6, <1>7, <1>8, <1>9

\* Only the worker names a pair that nobody has named.
LEMMA NoNewNames ==
  ASSUME MacTypes, StoreTypes, [Next]_vars, NEW p \in Pairs, NEW q \in Phones, Named(p, q)'
  PROVE  Named(p, q) \/ (p = paired + 1 /\ PutPair(q))
<1>1. CASE \E i \in 1..Len(events') : events'[i] = PairedEvent([pair_id |-> p, ios |-> q])
  BY <1>1, NamedEvents DEF Named
<1>2. CASE \/ claims'[q].step \in Made /\ claims'[q].pair = p
           \/ phone'[q] = p
           \/ \E r \in Rooms : roomEvent'[r] = [pair_id |-> p, ios |-> q]
  <2>1. ASSUME UNCHANGED <<claims, phone, roomEvent>> PROVE Named(p, q)
    BY <1>2, <2>1 DEF Named
  <2>2. ASSUME NEW u \in Phones, Scan(u) \/ ReadToken(u) PROVE Named(p, q)
    BY <1>2, <2>2, ScanAfter, ReadAfter DEF Named, Made
  <2>3. ASSUME NEW u \in Phones, PutPair(u)
        PROVE  Named(p, q) \/ (p = paired + 1 /\ PutPair(q))
    BY <1>2, <2>3, PutAfter DEF Named
  <2>4. ASSUME NEW u \in Phones, DeleteToken(u) PROVE Named(p, q)
    BY <1>2, <2>4, DeleteAfter DEF Named, Made
  <2>5. ASSUME NEW u \in Phones, PutRoomEvent(u) PROVE Named(p, q)
    <3>1. /\ claims[u].step \in Made /\ UNCHANGED phone
          /\ claims'[q].pair = claims[q].pair
          /\ claims'[q].step \in Made => claims[q].step \in Made
      BY <2>5, EventAfter DEF Made
    <3>2. \A r \in Rooms : \/ roomEvent'[r] = roomEvent[r]
                           \/ roomEvent'[r] = [pair_id |-> claims[u].pair, ios |-> u]
      BY <2>5, EventAfter
    <3>3. ASSUME [pair_id |-> claims[u].pair, ios |-> u] = [pair_id |-> p, ios |-> q]
          PROVE  claims[u].pair = p /\ u = q
      BY <3>3
    <3>4. QED BY <1>2, <3>1, <3>2, <3>3 DEF Named
  <2>6. ASSUME NEW u \in Phones, SavePair(u) \/ ClaimFails(u) PROVE Named(p, q)
    <3>1. /\ claims'[q] = claims[q] \/ claims'[q].step = "idle"
          /\ \/ phone'[q] = phone[q]
             \/ claims[q].step \in Made /\ phone'[q] = claims[q].pair
          /\ UNCHANGED roomEvent
      BY <2>6, ClearAfter
    <3>2. QED BY <1>2, <3>1 DEF Named, Made
  <2>7. ASSUME NEW h \in revokes, RevokeStep(h) PROVE Named(p, q)
    <3>1. phone'[q] \in {phone[q], None} /\ UNCHANGED <<claims, roomEvent>>
      BY <2>7, RevokeAfter, RevokeChanges
    <3>2. QED BY <1>2, <3>1, NotNone DEF Named
  <2>8. Lapse => UNCHANGED <<claims, phone, roomEvent>>
    BY DEF Lapse, Expire, MarkLapses
  <2>9. \A u \in Phones : PhoneRevokes(u) => UNCHANGED <<claims, phone, roomEvent>>
    BY DEF PhoneRevokes
  <2>10. MacStep \/ PairCreate => UNCHANGED <<claims, phone, roomEvent>>
    BY MacChanges DEF PairCreate
  <2>11. QED BY <2>1, <2>2, <2>3, <2>4, <2>5, <2>6, <2>7, <2>8, <2>9, <2>10,
                NextSteps, ClaimSteps
<1>3. QED BY <1>1, <1>2 DEF Named

LEMMA StepNames ==
  MacTypes /\ StoreTypes /\ MarkedInv /\ NamesInv /\ [Next]_vars => NamesInv'
<1> SUFFICES ASSUME MacTypes, StoreTypes, MarkedInv, NamesInv, [Next]_vars,
                    NEW p \in Pairs, NEW q \in Phones, Named(p, q)'
             PROVE  /\ p <= paired' /\ Recorded(p)'
                    /\ \A u \in Phones : Named(p, u)' => u = q
  BY DEF NamesInv
<1>0. paired \in Nat /\ p \in Nat
  BY StoreMoves, NotNone
<1>1. CASE Named(p, q)
  <2>1. p <= paired /\ Recorded(p) /\ \A u \in Phones : Named(p, u) => u = q
    BY <1>1 DEF NamesInv
  <2>2. p # paired + 1
    BY <1>0, <2>1
  <2>3. \A u \in Phones : Named(p, u)' => u = q
    BY <2>1, <2>2, NoNewNames
  <2>4. QED BY <2>1, <2>3, RecordedStays
<1>2. CASE ~Named(p, q)
  <2>1. p = paired + 1 /\ PutPair(q)
    BY <1>2, NoNewNames
  <2>2. /\ paired' = paired + 1
        /\ pairs' = [pairs EXCEPT ![paired + 1] = [secret |-> claims[q].room, ios |-> q]]
        /\ claims[q].room \in Rooms
        /\ \A u \in Phones : u # q => claims'[u] = claims[u]
        /\ UNCHANGED <<phone, roomEvent, events>>
    BY <2>1, PutAfter
  <2>3. pairs'[p] # NoPair
    <3>1. pairs'[p] = [secret |-> claims[q].room, ios |-> q]
      BY <2>1, <2>2 DEF StoreTypes
    <3>2. [secret |-> claims[q].room, ios |-> q].secret # NoPair.secret
      BY <2>2, NotNone DEF NoPair
    <3>3. QED BY <3>1, <3>2
  <2>4. ASSUME NEW u \in Phones, Named(p, u)', u # q
        PROVE  FALSE
    <3>1. Named(p, u)
      BY <2>2, <2>4 DEF Named
    <3>2. p <= paired
      BY <3>1 DEF NamesInv
    <3>3. QED BY <1>0, <2>1, <3>2
  <2>5. QED BY <1>0, <2>1, <2>2, <2>3, <2>4 DEF Recorded
<1>3. QED BY <1>1, <1>2

------------------------------------------------------------------------------
(* What the Mac holds.                                                      *)

LEMMA InitMacNames == Init => MacNamesInv /\ AgreeInv
BY PairingAssumption, NotNone
   DEF Init, MacNamesInv, AgreeInv, NoRecord, EmptyKeychain, Complete

\* A pair the Mac is about to take is one that was named to it.
LEMMA FirstEvent ==
  ASSUME MacTypes, NamesInv, events # <<>>, NEW e, e = Head(events), e.kind = "paired"
  PROVE  /\ e.pair_id \in Pairs /\ e.ios \in Phones
         /\ e = PairedEvent([pair_id |-> e.pair_id, ios |-> e.ios])
         /\ Named(e.pair_id, e.ios) /\ e.pair_id <= paired /\ Recorded(e.pair_id)
<1> DEFINE d == events[1]
<1>1. e = d /\ d \in EventTypes /\ 1 \in 1..Len(events)
  <2>1. events \in Seq(EventTypes) /\ Len(events) \in Nat \ {0}
    BY EmptySeq DEF MacTypes
  <2>2. 1 \in 1..Len(events)
    BY <2>1
  <2>3. QED BY <2>1, <2>2, ElementOfSeq
<1>2. /\ e.pair_id \in Pairs /\ e.ios \in Phones
      /\ e = PairedEvent([pair_id |-> e.pair_id, ios |-> e.ios])
  BY <1>1, EventKinds
<1>3. Named(e.pair_id, e.ios)
  BY <1>1, <1>2 DEF Named
<1>4. QED BY <1>2, <1>3 DEF NamesInv

\* The record that a claim makes of the Mac's secret.
RecordOf(e) ==
  [pair_id |-> e.pair_id, peer |-> e.ios,
   secret |-> IF pendingSecret = None THEN EmptySecret ELSE pendingSecret]

\* A step that takes no claim and leaves the keychain alone.
MacKeeps ==
  /\ UNCHANGED <<keychain, faults>>
  /\ (state' = state /\ record' = record) \/ state' # "paired"

\* One that takes a claim, with all or some of the keychain's writes.
MacTakes(e) ==
  /\ events # <<>> /\ e = Head(events) /\ e.kind = "paired"
  /\ \/ /\ keychain' = Saved(RecordOf(e), 4) /\ UNCHANGED faults
        /\ state' = "paired" /\ record' = RecordOf(e)
     \/ /\ \E k \in 0..3 : keychain' = Saved(RecordOf(e), k)
        /\ faults' = faults + 1 /\ state' # "paired"

LEMMA MacMoves ==
  ASSUME MacTypes, StoreTypes, [Next]_vars
  PROVE  MacKeeps \/ Revoke \/ Restart \/ (PollRx /\ MacTakes(Head(events)))
<1>1. StartPairing \/ CancelPairing \/ ShowQr \/ CreateFails \/ PairCreate => MacKeeps
  BY DEF StartPairing, CancelPairing, ShowQr, CreateFails, PairCreate, Becomes, MacKeeps
<1>2. ASSUME PollRx PROVE MacKeeps \/ MacTakes(Head(events))
  <2> DEFINE e == Head(events)
  <2>1. /\ events # <<>>
        /\ \/ e.kind = "created" /\ OnCreated(e.room)
           \/ e.kind = "paired" /\ OnPaired(e.pair_id, e.ios)
           \/ e.kind = "error" /\ OnError
    BY <1>2 DEF PollRx
  <2>2. CASE OnCreated(e.room) \/ OnError
    BY <2>2 DEF OnCreated, OnError, Becomes, MacKeeps
  <2>3. CASE e.kind = "paired" /\ OnPaired(e.pair_id, e.ios)
    <3>1. CompletePairing(RecordOf(e))
      BY <2>3 DEF OnPaired, RecordOf
    <3>2. QED BY <2>1, <2>3, <3>1 DEF CompletePairing, Becomes, MacTakes
  <2>4. QED BY <2>1, <2>2, <2>3
<1>3. (\E r \in Rooms : Poll(r) \/ GiveUp(r)) \/ Lapse => MacKeeps
  BY DEF Poll, GiveUp, PollerKeeps, Lapse, Expire, MarkLapses, ClaimKeeps, MacKeeps
<1>4. \A q \in Phones : PhoneRevokes(q) => MacKeeps
  BY DEF PhoneRevokes, MacKeeps
<1>5. UNCHANGED macVars => MacKeeps
  BY DEF MacKeeps
<1>6. QED
  BY <1>1, <1>2, <1>3, <1>4, <1>5, NextSteps, ClaimChanges, RevokeChanges DEF MacStep

LEMMA CountsGrow ==
  ASSUME MacTypes, StoreTypes, [Next]_vars
  PROVE  /\ cancels \in Nat /\ cancels' \in {cancels, cancels + 1}
         /\ faults \in Nat /\ faults' \in {faults, faults + 1}
<1>1. cancels \in Nat /\ faults \in Nat
  BY DEF MacTypes
<1>2. faults' \in {faults, faults + 1}
  <2>1. Revoke \/ Restart => faults' \in {faults, faults + 1}
    BY DEF Revoke, Restart
  <2>2. QED BY <2>1, MacMoves DEF MacKeeps, MacTakes
<1>3. MacStep \/ PairCreate => cancels' \in {cancels, cancels + 1}
  BY DEF MacStep, PairCreate, StartPairing, CancelPairing, ShowQr, PollRx, Revoke, Restart,
         CreateFails, Poll, GiveUp, PollerKeeps
<1>4. Lapse \/ (\E q \in Phones : PhoneRevokes(q)) => cancels' = cancels
  BY DEF Lapse, Expire, MarkLapses, ClaimKeeps, PhoneRevokes
<1>5. QED BY <1>1, <1>2, <1>3, <1>4, NextSteps, ClaimChanges, RevokeChanges

LEMMA StepMacNames ==
  MacTypes /\ StoreTypes /\ MarkedInv /\ NamesInv /\ MacNamesInv /\ [Next]_vars
    => MacNamesInv'
<1> SUFFICES ASSUME MacTypes, StoreTypes, MarkedInv, NamesInv, MacNamesInv, [Next]_vars
             PROVE  MacNamesInv'
  OBVIOUS
<1> DEFINE Kept(p) == p \in Pairs /\ p <= paired /\ Recorded(p)
<1>1. ASSUME NEW p, Kept(p) PROVE p <= paired' /\ Recorded(p)'
  BY <1>1, RecordedStays
<1>2. /\ state = "paired" => Kept(record.pair_id)
      /\ keychain.pair_id # None => Kept(keychain.pair_id)
  BY DEF MacNamesInv, MacTypes
<1>3. SUFFICES /\ state' = "paired" => Kept(record'.pair_id)
               /\ keychain'.pair_id # None => Kept(keychain'.pair_id)
  BY <1>1 DEF MacNamesInv, Recorded
<1> HIDE DEF Kept
<1>4. CASE MacKeeps
  BY <1>2, <1>4 DEF MacKeeps
<1>5. CASE Revoke
  <2>1. PICK k \in 0..4 : keychain' = Deleted(k)
    BY <1>5 DEF Revoke
  <2>2. keychain'.pair_id \in {None, keychain.pair_id}
    BY <2>1, DeletedFields
  <2>3. state' = "paired" => state = "paired" /\ record' = record
    BY <1>5 DEF Revoke, Becomes
  <2>4. QED BY <1>2, <2>2, <2>3
<1>6. CASE Restart
  <2>1. /\ keychain' = keychain
        /\ state' = "paired" => /\ keychain.pair_id # None
                                /\ record'.pair_id = keychain.pair_id
    BY <1>6 DEF Restart, Becomes, Complete
  <2>2. QED BY <1>2, <2>1
<1>7. CASE MacTakes(Head(events))
  <2> DEFINE e == Head(events)
  <2>1. events # <<>> /\ e.kind = "paired"
    BY <1>7 DEF MacTakes
  <2>2. Kept(e.pair_id)
    BY <2>1, FirstEvent DEF Kept
  <2>3. RecordOf(e).pair_id = e.pair_id
    BY DEF RecordOf
  <2>4. PICK k \in 0..4 : keychain' = Saved(RecordOf(e), k)
    BY <1>7 DEF MacTakes
  <2>5. keychain'.pair_id \in {e.pair_id, keychain.pair_id}
    BY <2>3, <2>4, SavedFields
  <2>6. state' = "paired" => record'.pair_id = e.pair_id
    BY <1>7, <2>3 DEF MacTakes
  <2>7. QED BY <1>2, <2>2, <2>5, <2>6
<1>8. QED BY <1>4, <1>5, <1>6, <1>7, MacMoves

LEMMA StepAgree ==
  MacTypes /\ StoreTypes /\ NamesInv /\ MarkedInv /\ MacNamesInv /\ AgreeInv /\ [Next]_vars
    => AgreeInv'
<1> SUFFICES ASSUME MacTypes, StoreTypes, NamesInv, MarkedInv, MacNamesInv, AgreeInv,
                    [Next]_vars, faults' = 0
             PROVE  /\ state' = "paired" =>
                         \A q \in Phones : Named(record.pair_id, q)' => q = record'.peer
                    /\ Complete(keychain)' =>
                         \A q \in Phones : Named(keychain.pair_id, q)' => q = keychain'.peer
  BY DEF AgreeInv
<1>0. faults = 0 /\ UNCHANGED faults
  BY CountsGrow
\* All who can name pair p are phone u.
<1> DEFINE Only(p, u) == /\ p \in Pairs /\ p <= paired
                         /\ \A q \in Phones : Named(p, q) => q = u
<1>1. ASSUME NEW p, NEW u, Only(p, u), NEW q \in Phones,
             \/ Named(record.pair_id, q)' /\ record'.pair_id = p
             \/ Named(keychain.pair_id, q)' /\ keychain'.pair_id = p
      PROVE  q = u
  <2>1. p \in Pairs /\ p <= paired /\ p # paired + 1
    BY <1>1, StoreMoves, NotNone
  <2>2. Named(p, q)'
    BY <1>1 DEF Named
  <2>3. QED BY <1>1, <2>1, <2>2, NoNewNames
<1>2. state = "paired" => Only(record.pair_id, record.peer)
  BY <1>0 DEF AgreeInv, MacNamesInv, MacTypes
<1>3. Complete(keychain) => Only(keychain.pair_id, keychain.peer)
  BY <1>0 DEF AgreeInv, MacNamesInv, MacTypes, Complete
<1>4. SUFFICES /\ state' = "paired" => Only(record'.pair_id, record'.peer)
               /\ Complete(keychain)' => Only(keychain'.pair_id, keychain'.peer)
  BY <1>1
<1> HIDE DEF Only
<1>5. CASE MacKeeps
  <2>1. keychain' = keychain
    BY <1>5 DEF MacKeeps
  <2>2. Complete(keychain)' => Complete(keychain)
    BY <2>1 DEF Complete
  <2>3. QED BY <1>2, <1>3, <1>5, <2>1, <2>2 DEF MacKeeps
<1>6. CASE Revoke
  <2>1. keychain' = Deleted(4) /\ state' # "paired"
    BY <1>0, <1>6 DEF Revoke, Becomes
  <2>2. keychain'.pair_id = None
    BY <2>1, DeletedFields
  <2>3. QED BY <2>1, <2>2 DEF Complete
<1>7. CASE Restart
  <2>1. keychain' = keychain
    BY <1>7 DEF Restart
  <2>2. Complete(keychain)' => Complete(keychain)
    BY <2>1 DEF Complete
  <2>3. state' = "paired" => /\ Complete(keychain) /\ record'.pair_id = keychain.pair_id
                             /\ record'.peer = keychain.peer
    BY <1>7 DEF Restart, Becomes
  <2>4. QED BY <1>3, <2>1, <2>2, <2>3
<1>8. CASE MacTakes(Head(events))
  <2> DEFINE e == Head(events)
  <2>1. /\ events # <<>> /\ e.kind = "paired"
        /\ keychain' = Saved(RecordOf(e), 4) /\ record' = RecordOf(e)
    BY <1>0, <1>8 DEF MacTakes
  <2>2. Only(e.pair_id, e.ios)
    BY <2>1, FirstEvent DEF Only, NamesInv
  <2>3. RecordOf(e).pair_id = e.pair_id /\ RecordOf(e).peer = e.ios
    BY DEF RecordOf
  <2>4. keychain'.pair_id = e.pair_id /\ keychain'.peer = e.ios
    BY <2>1, <2>3, SavedFields
  <2>5. QED BY <2>1, <2>2, <2>3, <2>4
<1>9. QED BY <1>5, <1>6, <1>7, <1>8, MacMoves

------------------------------------------------------------------------------
(* Secrets.                                                                 *)

LEMMA InitHolds == Init => HoldsInv
BY DEF Init, HoldsInv, Idle, Made

\* A claim that has its pair got it in this step, or had it.
LEMMA MadeClaims ==
  ASSUME MacTypes, StoreTypes, [Next]_vars, NEW u \in Phones, claims'[u].step \in Made
  PROVE  /\ claims'[u].room = claims[u].room
         /\ \/ PutPair(u) /\ claims'[u].pair = paired + 1
            \/ claims[u].step \in Made /\ claims'[u].pair = claims[u].pair
<1>1. ASSUME claims' = claims PROVE claims[u].step \in Made /\ claims'[u] = claims[u]
  BY <1>1
<1>2. ASSUME NEW q \in Phones, Scan(q) \/ ReadToken(q)
      PROVE  claims[u].step \in Made /\ claims'[u] = claims[u]
  BY <1>2, ScanAfter, ReadAfter DEF Made
<1>3. ASSUME NEW q \in Phones, PutPair(q)
      PROVE  \/ PutPair(u) /\ claims'[u].pair = paired + 1 /\ claims'[u].room = claims[u].room
             \/ claims[u].step \in Made /\ claims'[u] = claims[u]
  BY <1>3, PutAfter
<1>4. ASSUME NEW q \in Phones, DeleteToken(q) \/ PutRoomEvent(q)
      PROVE  /\ claims[u].step \in Made
             /\ claims'[u].pair = claims[u].pair /\ claims'[u].room = claims[u].room
  BY <1>4, DeleteAfter, EventAfter DEF Made
<1>5. ASSUME NEW q \in Phones, SavePair(q) \/ ClaimFails(q)
      PROVE  claims[u].step \in Made /\ claims'[u] = claims[u]
  BY <1>5, ClearAfter DEF Made
<1>6. /\ Lapse => claims' = claims
      /\ \A q \in Phones : PhoneRevokes(q) => claims' = claims
      /\ MacStep \/ PairCreate => claims' = claims
  BY MacChanges DEF Lapse, Expire, MarkLapses, PhoneRevokes, PairCreate
<1>7. QED
  BY <1>1, <1>2, <1>3, <1>4, <1>5, <1>6, NextSteps, ClaimSteps, RevokeChanges

LEMMA RoomEvents ==
  ASSUME MacTypes, StoreTypes, [Next]_vars, NEW r \in Rooms, roomEvent'[r] # roomEvent[r]
  PROVE  \E q \in Phones :
           /\ PutRoomEvent(q) /\ r = claims[q].room
           /\ roomEvent'[r] = [pair_id |-> claims[q].pair, ios |-> q]
<1>1. ASSUME NEW q \in Phones, ClaimStep(q), ~PhoneRevokes(q), ~PutRoomEvent(q)
      PROVE  UNCHANGED roomEvent
  BY <1>1, ClaimSteps, ScanAfter, ReadAfter, PutAfter, DeleteAfter, ClearAfter
<1>2. ASSUME NEW q \in Phones, PutRoomEvent(q)
      PROVE  r = claims[q].room /\ roomEvent'[r] = [pair_id |-> claims[q].pair, ios |-> q]
  BY <1>2, EventAfter
<1>3. /\ Lapse => UNCHANGED roomEvent
      /\ \A q \in Phones : PhoneRevokes(q) => UNCHANGED roomEvent
      /\ MacStep \/ PairCreate => UNCHANGED roomEvent
  BY MacChanges DEF Lapse, Expire, MarkLapses, PhoneRevokes, PairCreate
<1>4. QED BY <1>1, <1>2, <1>3, NextSteps, RevokeChanges

LEMMA StepHolds ==
  MacTypes /\ StoreTypes /\ MarkedInv /\ NamesInv /\ HoldsInv /\ [Next]_vars => HoldsInv'
<1> SUFFICES ASSUME MacTypes, StoreTypes, MarkedInv, NamesInv, HoldsInv, [Next]_vars
             PROVE  HoldsInv'
  OBVIOUS
<1> DEFINE Had(p, s, q) == pairs'[p] \in {NoPair, [secret |-> s, ios |-> q]}
<1>1. ASSUME NEW u \in Phones, claims[u].step \in Made
      PROVE  Had(claims[u].pair, claims[u].room, u) /\ claims[u].pair \in Pairs
  <2>1. claims[u].pair \in Pairs /\ Holds(claims[u].pair, claims[u].room, u)
    BY <1>1 DEF HoldsInv, StoreTypes
  <2>2. Named(claims[u].pair, u)
    BY <1>1 DEF Named
  <2>3. claims[u].pair <= paired
    BY <1>1, <2>1, <2>2 DEF NamesInv
  <2>4. QED BY <2>1, <2>3, HoldsStays
<1>2. ASSUME NEW u \in Phones, claims'[u].step \in Made
      PROVE  Had(claims'[u].pair, claims'[u].room, u)
  <2>1. CASE PutPair(u) /\ claims'[u].pair = paired + 1
    <3>1. /\ pairs' = [pairs EXCEPT ![paired + 1] = [secret |-> claims[u].room, ios |-> u]]
          /\ paired + 1 \in Pairs /\ claims'[u].room = claims[u].room
      BY <2>1, PutAfter
    <3>2. pairs'[paired + 1] = [secret |-> claims[u].room, ios |-> u]
      BY <3>1 DEF StoreTypes
    <3>3. QED BY <2>1, <3>1, <3>2
  <2>2. CASE claims[u].step \in Made /\ claims'[u].pair = claims[u].pair
    <3>1. claims'[u].room = claims[u].room
      BY <1>2, MadeClaims
    <3>2. QED BY <1>1, <2>2, <3>1
  <2>3. QED BY <1>2, <2>1, <2>2, MadeClaims
<1>3. ASSUME NEW r \in Rooms, roomEvent'[r] # NoEvent
      PROVE  Had(roomEvent'[r].pair_id, r, roomEvent'[r].ios)
  <2>1. CASE roomEvent'[r] = roomEvent[r]
    <3> DEFINE p == roomEvent[r].pair_id
               q == roomEvent[r].ios
    <3>1. p \in Pairs /\ q \in Phones /\ roomEvent[r] = [pair_id |-> p, ios |-> q]
      BY <1>3, <2>1 DEF StoreTypes
    <3>2. Named(p, q)
      BY <3>1 DEF Named
    <3>3. p <= paired /\ Holds(p, r, q)
      BY <1>3, <2>1, <3>1, <3>2 DEF NamesInv, HoldsInv
    <3>4. Had(p, r, q)
      BY <3>1, <3>3, HoldsStays
    <3>5. QED BY <2>1, <3>4
  <2>2. CASE roomEvent'[r] # roomEvent[r]
    <3>1. PICK q \in Phones :
            /\ PutRoomEvent(q) /\ r = claims[q].room
            /\ roomEvent'[r] = [pair_id |-> claims[q].pair, ios |-> q]
      BY <2>2, RoomEvents
    <3>2. claims[q].step \in Made
      BY <3>1, EventAfter DEF Made
    <3>3. Had(claims[q].pair, claims[q].room, q)
      BY <1>1, <3>2
    <3>4. roomEvent'[r].pair_id = claims[q].pair /\ roomEvent'[r].ios = q
      BY <3>1
    <3>5. QED BY <3>1, <3>3, <3>4
  <2>3. QED BY <2>1, <2>2
<1>4. QED BY <1>2, <1>3 DEF HoldsInv, Holds

------------------------------------------------------------------------------
(* One pairing at a time.                                                   *)

LEMMA InitPhase == Init => PhaseInv
BY DEF Init, PhaseInv, Asking

\* A queue with one event.
LEMMA OnePosted ==
  ASSUME MacTypes, events = <<>>, NEW e \in EventTypes, Post(e)
  PROVE  Len(events') = 1 /\ events'[1] = e
<1>1. events' = <<e>>
  BY DEF Post
<1>2. QED BY <1>1

LEMMA LastTaken ==
  ASSUME MacTypes, Len(events) = 1, events # <<>>, events' = Tail(events)
  PROVE  events' = <<>> /\ Head(events) = events[1]
<1>1. events' \in Seq(EventTypes) /\ Len(events') = 0 /\ Head(events) = events[1]
  BY TakenEvents
<1>2. QED BY <1>1, EmptySeq

LEMMA StepPhase ==
  MacTypes /\ StoreTypes /\ NamesInv /\ MarkedInv /\ HoldsInv /\ PhaseInv /\ [Next]_vars
    => PhaseInv'
<1> SUFFICES ASSUME MacTypes, StoreTypes, NamesInv, MarkedInv, HoldsInv, PhaseInv,
                    [Next]_vars, cancels' = 0
             PROVE  (Asking \/ Told \/ Ready \/ Polling)'
  BY DEF PhaseInv
<1>0. /\ cancels = 0 /\ creating \in Nat
      /\ Asking \/ Told \/ Ready \/ Polling
  BY CountsGrow DEF PhaseInv, MacTypes
<1>1. Asking \/ Ready \/ Polling => events = <<>>
  BY DEF Asking, Ready, Polling
<1>2. Told => events # <<>> /\ Len(events) = 1
  BY EmptySeq DEF Told
<1>3. ASSUME UNCHANGED <<creating, events, pendingRoom, pollers, pendingSecret>>,
             state' = state \/ (Asking /\ creating = 0)
      PROVE  (Asking \/ Told \/ Ready \/ Polling)'
  <2>1. CASE Asking
    BY <1>0, <1>3, <2>1 DEF Asking
  <2>2. CASE Ready
    BY <1>3, <2>2 DEF Ready, Asking
  <2>3. CASE Polling
    BY <1>3, <2>3 DEF Polling, Asking
  <2>4. CASE Told
    <3>1. state' = state
      BY <1>1, <1>2, <1>3, <2>4
    <3>2. ASSUME events[1].kind = "paired"
          PROVE  pairs'[events[1].pair_id] \in
                   {NoPair, [secret |-> pendingSecret, ios |-> events[1].ios]}
      <4> DEFINE e == Head(events)
      <4>1. events # <<>> /\ e = events[1] /\ e.kind = "paired"
        BY <1>2, <2>4, <3>2 DEF MacTypes
      <4>2. e.pair_id \in Pairs /\ e.pair_id <= paired
        BY <4>1, FirstEvent
      <4>3. Holds(e.pair_id, pendingSecret, e.ios)
        BY <2>4, <3>2, <4>1 DEF Told
      <4>4. pairs'[e.pair_id] \in {NoPair, [secret |-> pendingSecret, ios |-> e.ios]}
        BY <4>2, <4>3, HoldsStays
      <4>5. QED BY <4>1, <4>4
    <3>3. QED BY <1>3, <2>4, <3>1, <3>2 DEF Told, Holds
  <2>5. QED BY <1>0, <2>1, <2>2, <2>3, <2>4
<1>4. CASE StartPairing
  <2>1. state = "notPaired" /\ creating' = creating + 1 /\ state' = "pairing"
        /\ UNCHANGED <<events, pendingRoom, pollers>>
    BY <1>4 DEF StartPairing, Becomes
  <2>2. Asking /\ creating = 0
    BY <1>0, <2>1 DEF Asking, Told, Ready, Polling
  <2>3. QED BY <2>1, <2>2 DEF Asking
<1>5. CASE CancelPairing
  BY <1>0, <1>5 DEF CancelPairing
<1>6. CASE ShowQr
  <2>1. /\ pendingRoom # None /\ pollers' = pollers \union {pendingRoom}
        /\ pendingRoom' = None /\ state' = "pairing"
        /\ UNCHANGED <<creating, events, pendingSecret>>
    BY <1>6 DEF ShowQr, Becomes
  <2>2. Ready
    BY <1>0, <2>1 DEF Asking, Told, Polling
  <2>3. QED BY <2>1, <2>2 DEF Ready, Polling
<1>7. CASE PollRx
  <2> DEFINE e == Head(events)
  <2>1. /\ events # <<>> /\ events' = Tail(events)
        /\ UNCHANGED <<creating, pollers>>
        /\ \/ e.kind = "created" /\ OnCreated(e.room)
           \/ e.kind = "paired" /\ OnPaired(e.pair_id, e.ios)
           \/ e.kind = "error" /\ OnError
    BY <1>7 DEF PollRx
  <2>2. Told /\ Len(events) = 1
    BY <1>0, <1>1, <1>2, <2>1
  <2>3. events' = <<>> /\ e = events[1] /\ e \in EventTypes
    BY <2>1, <2>2, LastTaken, TakenEvents
  <2>4. CASE e.kind = "created" /\ OnCreated(e.room)
    <3>1. e.room # None
      BY <2>3, <2>4, EventKinds, NotNone
    <3>2. QED BY <2>1, <2>2, <2>3, <2>4, <3>1 DEF OnCreated, Told, Ready
  <2>5. CASE OnPaired(e.pair_id, e.ios) \/ OnError
    <3>1. pendingRoom' = pendingRoom
      BY <2>5 DEF OnPaired, OnError
    <3>2. QED BY <2>1, <2>2, <2>3, <3>1 DEF Told, Asking
  <2>6. QED BY <2>1, <2>4, <2>5
<1>8. CASE Revoke
  <2>1. /\ state = "paired"
        /\ UNCHANGED <<creating, events, pendingRoom, pollers, pendingSecret>>
    BY <1>8 DEF Revoke
  <2>2. Asking /\ creating = 0
    BY <1>0, <2>1 DEF Asking, Told, Ready, Polling
  <2>3. QED BY <1>3, <2>1, <2>2
<1>9. CASE Restart
  BY <1>9 DEF Restart, Asking
<1>10. CASE PairCreate \/ CreateFails
  <2>1. PICK e \in EventTypes : Post(e) /\ e.kind # "paired"
    <3>1. CASE PairCreate
      <4>1. created + 1 \in Rooms
        BY <3>1, PairingAssumption DEF PairCreate, Rooms, MacTypes
      <4>2. CreatedEvent(created + 1) \in EventTypes /\ CreatedEvent(created + 1).kind # "paired"
        BY <4>1 DEF EventTypes, CreatedEvent
      <4>3. QED BY <3>1, <4>2 DEF PairCreate
    <3>2. CASE CreateFails
      <4>1. ErrorEvent \in EventTypes /\ ErrorEvent.kind # "paired"
        BY DEF EventTypes, ErrorEvent
      <4>2. QED BY <3>2, <4>1 DEF CreateFails
    <3>3. QED BY <1>10, <3>1, <3>2
  <2>2. /\ creating > 0 /\ creating' = creating - 1
        /\ UNCHANGED <<state, pendingRoom, pollers>>
    BY <1>10 DEF PairCreate, CreateFails
  <2>3. Asking
    BY <1>0, <2>2 DEF Told, Ready, Polling
  <2>4. Len(events') = 1 /\ events'[1] = e
    BY <1>1, <2>1, <2>3, OnePosted
  <2>5. QED BY <1>0, <2>1, <2>2, <2>3, <2>4 DEF Asking, Told
<1>11. ASSUME NEW r \in Rooms, Poll(r) PROVE Told'
  <2>1. /\ r \in pollers /\ roomEvent[r] # NoEvent /\ pollers' = pollers \ {r}
        /\ Post(PairedEvent(roomEvent[r]))
        /\ UNCHANGED <<state, creating, pendingRoom, pendingSecret, pairs>>
    BY <1>11 DEF Poll, PollerKeeps, WorkerKeeps
  <2>2. Polling /\ r = pendingSecret /\ events = <<>>
    BY <1>0, <1>1, <2>1 DEF Asking, Told, Ready, Polling
  <2>3. roomEvent[r] \in [pair_id : Pairs, ios : Phones]
    BY <2>1 DEF StoreTypes
  <2>4. PairedEvent(roomEvent[r]) \in EventTypes
    BY <2>3 DEF EventTypes
  <2>5. Len(events') = 1 /\ events'[1] = PairedEvent(roomEvent[r])
    BY <2>1, <2>2, <2>4, OnePosted
  <2>6. /\ PairedEvent(roomEvent[r]).pair_id = roomEvent[r].pair_id
        /\ PairedEvent(roomEvent[r]).ios = roomEvent[r].ios
    BY DEF PairedEvent
  <2>7. Holds(roomEvent[r].pair_id, pendingSecret, roomEvent[r].ios)
    BY <2>1, <2>2 DEF HoldsInv
  <2>8. QED BY <2>1, <2>2, <2>5, <2>6, <2>7 DEF Polling, Told, Holds
<1>12. ASSUME NEW r \in Rooms, GiveUp(r) PROVE Asking'
  <2>1. /\ r \in pollers /\ pollers' = pollers \ {r}
        /\ UNCHANGED <<state, creating, pendingRoom, events>>
    BY <1>12 DEF GiveUp, PollerKeeps
  <2>2. QED BY <1>0, <2>1 DEF Asking, Told, Ready, Polling
<1>13. ASSUME UNCHANGED macVars PROVE (Asking \/ Told \/ Ready \/ Polling)'
  BY <1>3, <1>13
<1>14. /\ Lapse => UNCHANGED macVars
       /\ \A q \in Phones : PhoneRevokes(q) => UNCHANGED macVars
  BY DEF Lapse, Expire, MarkLapses, ClaimKeeps, PhoneRevokes
<1>15. QED
  BY <1>4, <1>5, <1>6, <1>7, <1>8, <1>9, <1>10, <1>11, <1>12, <1>13, <1>14,
     NextSteps, ClaimChanges, RevokeChanges DEF MacStep

------------------------------------------------------------------------------
(* The Mac's keys.                                                          *)

LEMMA InitKeys == Init => KeysInv
BY NotNone DEF Init, KeysInv, Complete, EmptyKeychain

LEMMA StepKeys ==
  MacTypes /\ StoreTypes /\ NamesInv /\ MarkedInv /\ MacNamesInv /\ PhaseInv /\ KeysInv
      /\ [Next]_vars => KeysInv'
<1> SUFFICES ASSUME MacTypes, StoreTypes, NamesInv, MarkedInv, MacNamesInv, PhaseInv, KeysInv,
                    [Next]_vars
             PROVE  KeysInv'
  OBVIOUS
<1> SUFFICES ASSUME (cancels = 0 /\ faults <= 1)' PROVE KeysInv'
  <2>1. ~(cancels = 0 /\ faults <= 1)' => KeysInv'
    BY DEF KeysInv
  <2>2. QED BY <2>1
<1>0. /\ cancels = 0 /\ faults \in Nat /\ faults <= 1
      /\ faults' \in {faults, faults + 1}
  BY CountsGrow
<1>1. /\ state = "paired" => Holds(record.pair_id, record.secret, record.peer)
      /\ Complete(keychain) =>
           state = "paired" /\ record.pair_id = keychain.pair_id
             /\ record.peer = keychain.peer /\ record.secret = keychain.secret
      /\ faults = 0 => IF state = "paired" THEN Complete(keychain) ELSE ~keychain.url
  BY <1>0 DEF KeysInv
<1>2. state = "paired" =>
        pairs'[record.pair_id] \in {NoPair, [secret |-> record.secret, ios |-> record.peer]}
  BY <1>1, HoldsStays DEF MacNamesInv, MacTypes
\* A step that leaves the keychain and the record alone, and the Mac paired or not.
<1>3. ASSUME UNCHANGED <<keychain, faults>>, state' = "paired" <=> state = "paired",
             state = "paired" => record' = record
      PROVE  KeysInv'
  <2>1. state' = "paired" => Holds(record.pair_id, record.secret, record.peer)'
    BY <1>2, <1>3 DEF Holds
  <2>2. Complete(keychain)' => Complete(keychain)
    BY <1>3 DEF Complete
  <2>3. Complete(keychain) => Complete(keychain)'
    BY <1>3 DEF Complete
  <2>4. QED BY <1>1, <1>3, <2>1, <2>2, <2>3 DEF KeysInv
<1>4. CASE MacKeeps
  <2>1. CASE state' = "paired" <=> state = "paired"
    BY <1>3, <1>4, <2>1 DEF MacKeeps
  <2>2. CASE ~(state' = "paired" <=> state = "paired")
    <3>1. state = "paired" /\ state' # "paired"
      BY <1>4, <2>2 DEF MacKeeps
    <3>2. Asking /\ creating = 0
      BY <1>0, <3>1 DEF PhaseInv, Asking, Told, Ready, Polling, MacTypes
    <3>3. events = <<>> /\ pendingRoom = None /\ pollers = {}
      BY <3>2 DEF Asking
    <3>4. /\ ~StartPairing /\ ~CancelPairing /\ ~ShowQr /\ ~PollRx /\ ~CreateFails /\ ~PairCreate
          /\ \A r \in Rooms : ~Poll(r) /\ ~GiveUp(r)
      BY <3>1, <3>2, <3>3
         DEF StartPairing, CancelPairing, ShowQr, PollRx, CreateFails, PairCreate, Poll, GiveUp
    <3>5. ~Revoke /\ ~Restart => state' = state
      <4>1. /\ Lapse => state' = state
            /\ \A q \in Phones : PhoneRevokes(q) => state' = state
        BY DEF Lapse, Expire, MarkLapses, ClaimKeeps, PhoneRevokes
      <4>2. QED BY <3>4, <4>1, NextSteps, ClaimChanges, RevokeChanges DEF MacStep
    <3>6. CASE Revoke
      <4>1. \E k \in 0..4 : keychain' = Deleted(k) /\ (k = 4 \/ UNCHANGED state)
        BY <3>6 DEF Revoke
      <4>2. keychain' = Deleted(4)
        BY <3>1, <4>1
      <4>3. keychain'.pair_id = None /\ ~keychain'.url
        BY <4>2, DeletedFields, UrlLast
      <4>4. QED BY <3>1, <4>3 DEF KeysInv, Complete
    <3>7. CASE Restart
      <4>1. ~Complete(keychain) /\ keychain' = keychain /\ faults' = faults
        BY <3>1, <3>7 DEF Restart, Becomes
      <4>2. faults # 0
        BY <1>1, <3>1, <4>1
      <4>3. ~Complete(keychain)'
        BY <4>1 DEF Complete
      <4>4. QED BY <3>1, <4>1, <4>2, <4>3 DEF KeysInv
    <3>8. QED BY <3>1, <3>5, <3>6, <3>7
  <2>3. QED BY <2>1, <2>2
<1>5. CASE Revoke
  <2>1. CASE keychain' = Deleted(4) /\ state' # "paired"
    <3>1. keychain'.pair_id = None /\ ~keychain'.url
      BY <2>1, DeletedFields, UrlLast
    <3>2. QED BY <2>1, <3>1 DEF KeysInv, Complete
  <2>2. CASE /\ faults' = faults + 1 /\ UNCHANGED <<state, record>>
             /\ \E k \in 0..3 : keychain' = Deleted(k)
    <3>1. PICK k \in 0..3 : keychain' = Deleted(k)
      BY <2>2
    <3>2. state = "paired"
      BY <1>5 DEF Revoke
    <3>3. Holds(record.pair_id, record.secret, record.peer)'
      BY <1>2, <2>2, <3>2 DEF Holds
    <3>4. ASSUME Complete(keychain)'
          PROVE  /\ record'.pair_id = keychain'.pair_id /\ record'.peer = keychain'.peer
                 /\ record'.secret = keychain'.secret
      <4>1. keychain'.pair_id # None
        BY <3>4 DEF Complete
      <4>2. k = 0
        BY <3>1, <4>1, DeletedFields
      <4>3. /\ keychain'.pair_id = keychain.pair_id /\ keychain'.peer = keychain.peer
            /\ keychain'.secret = keychain.secret
        BY <3>1, <4>2, DeletedFields
      <4>4. keychain'.url => keychain.url
        BY <3>1, <4>2 DEF Deleted
      <4>5. Complete(keychain)
        BY <3>4, <4>3, <4>4 DEF Complete
      <4>6. QED BY <1>1, <2>2, <4>3, <4>5
    <3>5. faults' # 0 /\ state' = "paired"
      BY <1>0, <2>2, <3>2
    <3>6. QED BY <3>3, <3>4, <3>5 DEF KeysInv
  <2>3. QED BY <1>5, <2>1, <2>2 DEF Revoke, Becomes
<1>6. CASE Restart
  <2>1. CASE Complete(keychain)
    <3>1. /\ keychain' = keychain /\ faults' = faults /\ state' = "paired"
          /\ record'.pair_id = keychain.pair_id /\ record'.peer = keychain.peer
          /\ record'.secret = keychain.secret
      BY <1>6, <2>1 DEF Restart, Becomes
    <3>2. /\ state = "paired" /\ record.pair_id = keychain.pair_id
          /\ record.peer = keychain.peer /\ record.secret = keychain.secret
      BY <1>1, <2>1
    <3>3. Holds(record.pair_id, record.secret, record.peer)'
      BY <1>2, <3>1, <3>2 DEF Holds
    <3>4. Complete(keychain)'
      BY <2>1, <3>1 DEF Complete
    <3>5. QED BY <3>1, <3>3, <3>4 DEF KeysInv
  <2>2. CASE ~Complete(keychain)
    <3>1. keychain' = keychain /\ faults' = faults /\ state' # "paired"
      BY <1>6, <2>2 DEF Restart, Becomes
    <3>2. ~Complete(keychain)'
      BY <2>2, <3>1 DEF Complete
    <3>3. faults = 0 => ~keychain.url
      BY <1>1, <2>2
    <3>4. QED BY <3>1, <3>2, <3>3 DEF KeysInv
  <2>3. QED BY <2>1, <2>2
<1>7. CASE PollRx /\ MacTakes(Head(events))
  <2> DEFINE e == Head(events)
  <2>1. events # <<>> /\ e.kind = "paired"
    BY <1>7 DEF MacTakes
  <2>2. Told
    BY <1>0, <2>1 DEF PhaseInv, Asking, Ready, Polling
  <2>3. e = events[1]
    BY DEF MacTypes
  <2>4. /\ Holds(e.pair_id, pendingSecret, e.ios) /\ pendingSecret # None
        /\ state # "paired"
    BY <2>1, <2>2, <2>3 DEF Told
  <2>5. e.pair_id \in Pairs /\ e.pair_id <= paired
    BY <2>1, FirstEvent
  <2>6. pairs'[e.pair_id] \in {NoPair, [secret |-> pendingSecret, ios |-> e.ios]}
    BY <2>4, <2>5, HoldsStays
  <2>7. /\ RecordOf(e).pair_id = e.pair_id /\ RecordOf(e).peer = e.ios
        /\ RecordOf(e).secret = pendingSecret
    BY <2>4 DEF RecordOf
  <2>8. CASE /\ keychain' = Saved(RecordOf(e), 4) /\ UNCHANGED faults
             /\ state' = "paired" /\ record' = RecordOf(e)
    <3>1. Holds(record.pair_id, record.secret, record.peer)'
      BY <2>6, <2>7, <2>8 DEF Holds
    <3>2. /\ keychain'.pair_id = e.pair_id /\ keychain'.peer = e.ios
          /\ keychain'.secret = pendingSecret
      BY <2>7, <2>8, SavedFields
    <3>3. keychain'.url
      BY <2>8, UrlLast, Zenon
    <3>4. e.pair_id # None /\ e.ios # None
      BY <2>1, FirstEvent, NotNone
    <3>5. Complete(keychain)'
      BY <2>4, <3>2, <3>3, <3>4 DEF Complete
    <3>6. QED BY <2>7, <2>8, <3>1, <3>2, <3>5 DEF KeysInv
  <2>9. CASE /\ \E k \in 0..3 : keychain' = Saved(RecordOf(e), k)
             /\ faults' = faults + 1 /\ state' # "paired"
    <3>1. faults = 0 /\ faults' # 0
      BY <1>0, <2>9
    <3>2. ~keychain.url
      BY <1>1, <2>4, <3>1
    <3>3. ~keychain'.url
      BY <2>9, <3>2, UrlLast, Zenon
    <3>4. ~Complete(keychain)'
      BY <3>3 DEF Complete
    <3>5. QED BY <2>9, <3>1, <3>4 DEF KeysInv
  <2>10. QED BY <1>7, <2>8, <2>9 DEF MacTakes
<1>8. QED BY <1>4, <1>5, <1>6, <1>7, MacMoves

------------------------------------------------------------------------------
(* The theorems.                                                            *)

LEMMA Invariant == Spec => []PairingInv
<1>1. Init => PairingInv
  BY InitMacTypes, InitStoreTypes, InitTokens, InitNames, InitMarked, InitMacNames, InitHolds,
     InitPhase, InitKeys DEF PairingInv
<1>2. PairingInv /\ [Next]_vars => PairingInv'
  BY StepMacTypes, StepStoreTypes, StepTokens, StepNames, StepMarked, StepMacNames, StepAgree,
     StepHolds, StepPhase, StepKeys DEF PairingInv
<1>3. QED BY <1>1, <1>2, PTL DEF Spec

\* Every variable has its type: the Mac's window and keychain, the worker's store and the
\* phones' pairs.
THEOREM TypeCorrect == Spec => []TypeOK
<1>1. PairingInv => TypeOK
  BY DEF PairingInv, MacTypes, StoreTypes, TypeOK, Secrets, Marks
<1>2. QED BY <1>1, Invariant, PTL

\* Wherever handlePairClaim or handlePairRevoke ended early, a code whose claim can be seen
\* cannot be claimed again, and each pair that somebody holds is in the store, or was marked
\* as revoked before it was deleted, even if the mark has lapsed since.
THEOREM EveryClaimRecorded == Spec => []ClaimsAreRecorded
<1>1. PairingInv => ClaimsAreRecorded
  <2> SUFFICES ASSUME PairingInv PROVE ClaimsAreRecorded
    OBVIOUS
  <2>1. TokenIsSpent
    BY DEF PairingInv, TokensInv, TokenIsSpent
  <2>2. ASSUME NEW p \in KnownPairs, p # None PROVE Recorded(p)
    <3>1. ASSUME NEW q \in Phones, p = phone[q] PROVE Recorded(p)
      <4>1. p \in Pairs /\ Named(p, q)
        BY <2>2, <3>1 DEF PairingInv, StoreTypes, Named
      <4>2. QED BY <3>1, <4>1 DEF PairingInv, NamesInv
    <3>2. ASSUME NEW r \in Rooms, p = roomEvent[r].pair_id PROVE Recorded(p)
      <4>1. roomEvent[r] \in [pair_id : Pairs, ios : Phones]
        BY <2>2, <3>2 DEF PairingInv, StoreTypes, NoEvent
      <4>2. /\ roomEvent[r] = [pair_id |-> p, ios |-> roomEvent[r].ios]
            /\ p \in Pairs /\ roomEvent[r].ios \in Phones
        BY <3>2, <4>1
      <4>3. Named(p, roomEvent[r].ios)
        BY <4>2 DEF Named
      <4>4. QED BY <4>2, <4>3 DEF PairingInv, NamesInv
    <3>3. CASE p = record.pair_id
      <4>1. state = "paired"
        BY <2>2, <3>3, NotNone DEF PairingInv, MacTypes
      <4>2. QED BY <3>3, <4>1 DEF PairingInv, MacNamesInv
    <3>4. CASE p = keychain.pair_id
      BY <2>2, <3>4 DEF PairingInv, MacNamesInv
    <3>5. QED BY <2>2, <3>1, <3>2, <3>3, <3>4 DEF KnownPairs
  <2>3. PairsAreRecorded
    BY <2>2 DEF PairsAreRecorded, Recorded, Marked
  <2>4. QED BY <2>1, <2>3 DEF ClaimsAreRecorded
<1>2. QED BY <1>1, Invariant, PTL

\* The Mac's record of a pair (complete_pairing, load_pair_record) fits the worker's and the
\* phone's, however many phones claim, whatever is cancelled or fails within the property's limits.
THEOREM TheEndsFit == Spec => []EndsFit
<1>1. PairingInv => EndsFit
  <2> SUFFICES ASSUME PairingInv PROVE EndsFit
    OBVIOUS
  <2>1. MacCanSign
    BY DEF PairingInv, KeysInv, MacCanSign, Holds
  <2>2. ASSUME faults = 0, state = "paired", NEW q \in Phones, phone[q] = record.pair_id
        PROVE  record.peer = q
    <3>1. Named(record.pair_id, q)
      BY <2>2 DEF Named
    <3>2. QED BY <2>2, <3>1 DEF PairingInv, AgreeInv
  <2>3. EndsAgree
    BY <2>2 DEF EndsAgree
  <2>4. QED BY <2>1, <2>3 DEF EndsFit
<1>2. QED BY <1>1, Invariant, PTL
=============================================================================
