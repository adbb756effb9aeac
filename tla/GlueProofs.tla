---------------------------- MODULE GlueProofs ----------------------------
(***************************************************************************)
(* What holds of the connection for any number of sockets, misses and      *)
(* outages.                                                                *)
(***************************************************************************)
EXTENDS Glue, SequenceTheorems, TLAPS

USE DEF roomVars, macVars, beatVars, pathVars, vars

------------------------------------------------------------------------------
(* The invariants.                                                          *)

RoomTypes == RoomTypeOK(Frames)

Stages == {"idle", "offering", "sending", "receiving", "answering", "failed", "closed"}
States == {"stable", "local", "remote"}
Wishes == [by : {"main", "task", "miss"}, frame : Frames]

\* The Mac's first offer, and one for each miss that is dealt with.
MacTypes ==
  /\ main \in Stages /\ sig \in States /\ remote \in BOOLEAN
  /\ waiters \in Seq(Wishes)
  /\ offers \in Nat /\ missed \in 0..MaxMisses /\ misses \in 0..missed
  /\ offers + misses <= missed + (IF main \in {"idle", "offering"} THEN 0 ELSE 1)

\* The age of last_ack is what the heartbeats since say it is.
BeatInv ==
  /\ heartbeat \in [at : {"off", "on", "stopped"}, age : {-4, -3, -2, -1, 0, 1, 2, 3},
                    acked : BOOLEAN, asked : BOOLEAN]
  /\ silence \in [beats : 0..8, since : {"start", "ack", "miss"}]
  /\ heartbeat.at = "off" =>
       silence.beats = 0 /\ silence.since = "start" /\ ~heartbeat.acked /\ ~heartbeat.asked
  /\ heartbeat.at # "off" =>
       /\ heartbeat.acked => silence.since = "ack" /\ silence.beats = 0
       /\ ~heartbeat.acked =>
            heartbeat.age = CASE silence.since = "start" -> silence.beats - 4
                              [] silence.since = "ack" -> silence.beats - 1
                              [] silence.since = "miss" -> silence.beats

PathTypes == path \in BOOLEAN /\ outages \in 0..MaxOutages

GlueTypes ==
  [at : {"none", "offering", "open", "answering", "ping", "pinging", "ended"},
   sig : States, remote : BOOLEAN, set : BOOLEAN, pending : Nat, ice : BOOLEAN, owes : Offers]

\* A candidate is kept only while there is no remote description.
PhoneInv ==
  /\ phone \in [Sockets -> GlueTypes]
  /\ \A n \in Sockets :
       /\ phone[n].set => phone[n].pending = 0
       /\ phone[n].remote => phone[n].set \/ phone[n].at = "ended"
       /\ phone[n].at = "ended" => phone[n].pending = 0

\* Until the Mac has made its first offer nothing else happens to it, and while it
\* makes an answer nothing makes an offer.
EarlyInv ==
  /\ main \in {"idle", "offering"} =>
       /\ sig = "stable" /\ ~remote /\ waiters = <<>>
       /\ misses = 0 /\ ~path /\ heartbeat.at = "off"
  /\ main = "answering" => sig = "remote"

GlueInv ==
  RoomTypes /\ NewestIsReached /\ MacTypes /\ BeatInv /\ PathTypes /\ PhoneInv /\ EarlyInv

------------------------------------------------------------------------------
(* The room.                                                                *)

LEMMA FrameTypes ==
  /\ 0 \in Offers
  /\ \A k \in Kinds, o \in Offers : /\ Frame(k, o) \in Frames
                                    /\ Frame(k, o).kind = k /\ Frame(k, o).of = o
BY MishapsAssumption DEF Offers, Frame, Frames

LEMMA AcceptRoom ==
  ASSUME RoomTypes, NewestIsReached, NEW d \in Devices, Accept(d)
  PROVE  RoomTypes' /\ NewestIsReached' /\ accepted'[d] \in Sockets
<1> DEFINE new == accepted[d] + 1
<1>1. /\ new \in Sockets /\ accepted' = [accepted EXCEPT ![d] = new]
      /\ peers' = [peers EXCEPT ![d] = new]
      /\ server' = [server EXCEPT ![d] = [n \in Sockets |->
           IF n = new THEN "open" ELSE IF n = peers[d] THEN "closing" ELSE server[d][n]]]
      /\ client' = [client EXCEPT ![d] = [@ EXCEPT ![new] = "open"]]
      /\ UNCHANGED down
  BY DEF Accept, RoomTypes, RoomTypeOK
<1>2. new \in 0..MaxSockets
  BY <1>1, SocketsAssumption DEF Sockets
<1> HIDE DEF new
<1>3. RoomTypes'
  <2>1. [n \in Sockets |-> IF n = new THEN "open" ELSE IF n = peers[d] THEN "closing"
                           ELSE server[d][n]]
          \in [Sockets -> {"none", "open", "closing", "closed"}]
    BY DEF RoomTypes, RoomTypeOK
  <2>2. [client[d] EXCEPT ![new] = "open"] \in [Sockets -> {"none", "open", "closed"}]
    BY DEF RoomTypes, RoomTypeOK
  <2>3. QED BY <1>1, <1>2, <2>1, <2>2 DEF RoomTypes, RoomTypeOK
<1>4. NewestIsReached'
  BY <1>1 DEF NewestIsReached, RoomTypes, RoomTypeOK
<1>5. QED BY <1>1, <1>3, <1>4 DEF RoomTypes, RoomTypeOK

LEMMA AppendDown ==
  ASSUME RoomTypes, NEW d \in Devices, NEW n \in Sockets, NEW frame \in Frames,
         down' = [down EXCEPT ![d][n] = Append(@, frame)]
  PROVE  down' \in [Devices -> [Sockets -> Seq(Frames)]]
<1>1. down[d] \in [Sockets -> Seq(Frames)] /\ down[d][n] \in Seq(Frames)
  BY DEF RoomTypes, RoomTypeOK
<1>2. Append(down[d][n], frame) \in Seq(Frames)
  BY <1>1
<1>3. [down[d] EXCEPT ![n] = Append(down[d][n], frame)] \in [Sockets -> Seq(Frames)]
  BY <1>1, <1>2
<1>4. QED BY <1>3 DEF RoomTypes, RoomTypeOK

LEMMA RelayRoom ==
  ASSUME RoomTypes, NewestIsReached, NEW d \in Devices, NEW n, NEW frame \in Frames,
         Relay(d, n, frame)
  PROVE  RoomTypes' /\ NewestIsReached'
<1>1. UNCHANGED <<peers, accepted, server, client>>
  BY DEF Relay
<1>2. Other(d) \in Devices
  BY DEF Other, Devices
<1>3. \/ UNCHANGED down
      \/ /\ peers[Other(d)] # 0
         /\ down' = [down EXCEPT ![Other(d)][peers[Other(d)]] = Append(@, frame)]
  BY DEF Relay
<1>4. peers[Other(d)] # 0 => peers[Other(d)] \in Sockets
  BY <1>2, SocketsAssumption DEF RoomTypes, RoomTypeOK, Sockets
<1>5. down' \in [Devices -> [Sockets -> Seq(Frames)]]
  BY <1>2, <1>3, <1>4, AppendDown DEF RoomTypes, RoomTypeOK
<1>6. QED BY <1>1, <1>5 DEF RoomTypes, RoomTypeOK, NewestIsReached

LEMMA ReadRoom ==
  ASSUME RoomTypes, NewestIsReached, NEW d \in Devices, NEW n \in Sockets,
         Readable(d, n), Read(d, n)
  PROVE  RoomTypes' /\ NewestIsReached'
<1>1. UNCHANGED <<peers, accepted, server, client>>
  BY DEF Read
<1>2. down[d] \in [Sockets -> Seq(Frames)] /\ down[d][n] \in Seq(Frames) /\ down[d][n] # <<>>
  BY DEF RoomTypes, RoomTypeOK, Readable
<1>3. Tail(down[d][n]) \in Seq(Frames)
  BY <1>2, HeadTailProperties
<1>4. [down[d] EXCEPT ![n] = Tail(down[d][n])] \in [Sockets -> Seq(Frames)]
  BY <1>2, <1>3
<1>5. down' \in [Devices -> [Sockets -> Seq(Frames)]]
  BY <1>4 DEF Read, RoomTypes, RoomTypeOK
<1>6. QED BY <1>1, <1>5 DEF RoomTypes, RoomTypeOK, NewestIsReached

LEMMA CloseEndRoom ==
  ASSUME RoomTypes, NewestIsReached, NEW d \in Devices, NEW n \in Sockets, CloseEnd(d, n)
  PROVE  RoomTypes' /\ NewestIsReached'
<1>1. UNCHANGED <<peers, accepted, server>>
  BY DEF CloseEnd
<1>2. <<>> \in Seq(Frames)
  BY EmptySeq
<1>3. /\ [client[d] EXCEPT ![n] = "closed"] \in [Sockets -> {"none", "open", "closed"}]
      /\ [down[d] EXCEPT ![n] = <<>>] \in [Sockets -> Seq(Frames)]
  BY <1>2 DEF RoomTypes, RoomTypeOK
<1>4. /\ client' = [client EXCEPT ![d] = [@ EXCEPT ![n] = "closed"]]
      /\ down' = [down EXCEPT ![d] = [@ EXCEPT ![n] = <<>>]]
  BY DEF CloseEnd
<1>5. QED BY <1>1, <1>3, <1>4 DEF RoomTypes, RoomTypeOK, NewestIsReached

\* Only the newest socket's own end, which leaves it closed, takes its place away.
LEMMA CloseListenerRoom ==
  ASSUME RoomTypes, NewestIsReached, NEW d \in Devices, NEW n \in Sockets, CloseListener(d, n)
  PROVE  RoomTypes' /\ NewestIsReached'
<1>1. /\ UNCHANGED <<accepted, client, down>>
      /\ server' = [server EXCEPT ![d] = [@ EXCEPT ![n] = "closed"]]
      /\ peers' = [peers EXCEPT ![d] = IF peers[d] = n THEN 0 ELSE peers[d]]
  BY DEF CloseListener, RoomTypes, RoomTypeOK
<1>2. [server[d] EXCEPT ![n] = "closed"] \in [Sockets -> {"none", "open", "closing", "closed"}]
  BY DEF RoomTypes, RoomTypeOK
<1>3. RoomTypes'
  BY <1>1, <1>2, SocketsAssumption DEF RoomTypes, RoomTypeOK
<1>4. ASSUME NEW e \in Devices, accepted[e] # 0, server'[e][accepted[e]] = "open"
      PROVE  peers'[e] = accepted[e]
  <2>1. accepted[e] \in Sockets
    BY <1>4, SocketsAssumption DEF RoomTypes, RoomTypeOK, Sockets
  <2>2. server[e][accepted[e]] = "open" /\ ~(e = d /\ accepted[e] = n)
    BY <1>1, <1>2, <1>4, <2>1 DEF RoomTypes, RoomTypeOK
  <2>3. peers[e] = accepted[e]
    BY <1>4, <2>2 DEF NewestIsReached
  <2>4. QED BY <1>1, <2>2, <2>3 DEF RoomTypes, RoomTypeOK
<1>5. QED BY <1>1, <1>3, <1>4 DEF NewestIsReached

LEMMA InitRoom == Init => RoomTypes /\ NewestIsReached
<1>1. <<>> \in Seq(Frames)
  BY EmptySeq
<1>2. QED BY <1>1, SocketsAssumption DEF Init, RoomInit, RoomTypes, RoomTypeOK, NewestIsReached

\* Whatever the two ends do, they use the room in one of these ways.
LEMMA FirstWish ==
  ASSUME MacTypes, waiters # <<>>
  PROVE  /\ Head(waiters) \in Wishes /\ Tail(waiters) \in Seq(Wishes)
         /\ Head(waiters).frame \in Frames
<1>1. waiters \in Seq(Wishes)
  BY DEF MacTypes
<1>2. Head(waiters) \in Wishes /\ Tail(waiters) \in Seq(Wishes)
  BY <1>1, HeadTailProperties
<1>3. QED BY <1>2 DEF Wishes

LEMMA RoomUses ==
  ASSUME RoomTypes, MacTypes, PhoneInv, [Next]_vars
  PROVE  \/ UNCHANGED roomVars
         \/ \E d \in Devices : Accept(d)
         \/ \E d \in Devices, n \in Sockets, frame \in Frames : Relay(d, n, frame)
         \/ \E d \in Devices, n \in Sockets :
              CloseListener(d, n) \/ CloseEnd(d, n) \/ (Readable(d, n) /\ Read(d, n))
<1>0. 1 \in Sockets /\ "mac" \in Devices /\ "ios" \in Devices
  BY SocketsAssumption DEF Sockets, Devices
<1> DEFINE Use ==
      \/ UNCHANGED roomVars
      \/ \E d \in Devices : Accept(d)
      \/ \E d \in Devices, n \in Sockets, frame \in Frames : Relay(d, n, frame)
      \/ \E d \in Devices, n \in Sockets :
           CloseListener(d, n) \/ CloseEnd(d, n) \/ (Readable(d, n) /\ Read(d, n))
<1>1. CASE MacConnects \/ PhoneConnects \/ PhoneDialsPing
  BY <1>0, <1>1 DEF MacConnects, PhoneConnects, PhoneDialsPing, Dial
<1>2. CASE Send
  BY <1>0, <1>2, FirstWish DEF Send
<1>3. CASE MacAnswered \/ MacOffered \/ MacCandidate \/ MacSkips
  BY <1>0, <1>3 DEF MacAnswered, MacOffered, MacCandidate, MacSkips, Receives
<1>4. CASE MacCloses
  BY <1>0, <1>4 DEF MacCloses
<1>5. ASSUME NEW n \in Sockets, PhoneOffers(n) \/ PhoneSendsIce(n) \/ PhonePings(n) PROVE Use
  <2>1. PICK k \in Kinds : Relay("ios", n, Frame(k, 0))
    BY <1>5 DEF PhoneOffers, PhoneSendsIce, PhonePings, Sends, Kinds
  <2>2. QED BY <1>0, <2>1, FrameTypes
<1>6. ASSUME NEW n \in Sockets, PhoneAnswered(n) \/ PhoneOffered(n) \/ PhoneCandidate(n) PROVE Use
  BY <1>0, <1>6 DEF PhoneAnswered, PhoneOffered, PhoneCandidate, PhoneReceives
<1>7. ASSUME NEW n \in Sockets, PhoneAnswers(n) PROVE Use
  <2>1. Frame("answer", phone[n].owes) \in Frames
    BY FrameTypes DEF PhoneInv, GlueTypes, Kinds
  <2>2. UNCHANGED roomVars \/ Relay("ios", n, Frame("answer", phone[n].owes))
    BY <1>7 DEF PhoneAnswers
  <2>3. QED BY <1>0, <2>1, <2>2
<1>8. ASSUME NEW n \in Sockets, PhoneEnds(n) PROVE Use
  BY <1>0, <1>8 DEF PhoneEnds
<1>9. ASSUME NEW d \in Devices, NetworkLost(d) PROVE Use
  <2>1. accepted[d] \in Sockets /\ CloseEnd(d, accepted[d])
    BY <1>9, SocketsAssumption DEF NetworkLost, RoomTypes, RoomTypeOK, Sockets
  <2>2. QED BY <2>1
<1>10. ASSUME NEW d \in Devices, NEW n \in Sockets, RoomSeesClose(d, n) PROVE Use
  BY <1>10 DEF RoomSeesClose
<1>11. CASE \/ MakeOffer \/ MakeAnswer \/ SendFails \/ PathUp \/ PathDown \/ Beat
            \/ StopHeartbeat \/ Ack \/ Restart \/ UNCHANGED vars
  BY <1>11 DEF MakeOffer, MakeAnswer, SendFails, PathUp, PathDown, Beat, StopHeartbeat, Ack,
               Restart
<1>12. QED
  BY <1>1, <1>2, <1>3, <1>4, <1>5, <1>6, <1>7, <1>8, <1>9, <1>10, <1>11 DEF Next, MacReceives

LEMMA StepRoom ==
  RoomTypes /\ NewestIsReached /\ MacTypes /\ PhoneInv /\ [Next]_vars
    => RoomTypes' /\ NewestIsReached'
<1> SUFFICES ASSUME RoomTypes, NewestIsReached, MacTypes, PhoneInv, [Next]_vars
             PROVE  RoomTypes' /\ NewestIsReached'
  OBVIOUS
<1>1. CASE UNCHANGED roomVars
  BY <1>1 DEF RoomTypes, RoomTypeOK, NewestIsReached
<1>2. QED BY <1>1, RoomUses, AcceptRoom, RelayRoom, ReadRoom, CloseEndRoom, CloseListenerRoom

------------------------------------------------------------------------------
(* The two ends.                                                            *)

LEMMA InitEnds == Init => MacTypes /\ BeatInv /\ PathTypes /\ PhoneInv /\ EarlyInv
<1> SUFFICES ASSUME Init PROVE MacTypes /\ BeatInv /\ PathTypes /\ PhoneInv /\ EarlyInv
  OBVIOUS
<1>1. MacTypes
  <2>1. <<>> \in Seq(Wishes)
    BY EmptySeq
  <2>2. main \in Stages /\ sig \in States /\ remote \in BOOLEAN /\ waiters \in Seq(Wishes)
    BY <2>1 DEF Init, Stages, States
  <2>3. /\ offers \in Nat /\ missed \in 0..MaxMisses /\ misses \in 0..missed
        /\ offers + misses <= missed + 0 /\ main = "idle"
    BY MishapsAssumption DEF Init
  <2>4. QED BY <2>2, <2>3 DEF MacTypes
<1>2. BeatInv
  <2>1. /\ heartbeat = [at |-> "off", age |-> 0, acked |-> FALSE, asked |-> FALSE]
        /\ silence = [beats |-> 0, since |-> "start"]
    BY DEF Init
  <2>2. /\ heartbeat.at = "off" /\ heartbeat.acked = FALSE /\ heartbeat.asked = FALSE
        /\ silence.beats = 0 /\ silence.since = "start"
    BY <2>1
  <2>3. heartbeat \in [at : {"off", "on", "stopped"}, age : {-4, -3, -2, -1, 0, 1, 2, 3},
                      acked : BOOLEAN, asked : BOOLEAN]
    BY <2>1
  <2>4. silence \in [beats : 0..8, since : {"start", "ack", "miss"}]
    BY <2>1
  <2>5. QED BY <2>2, <2>3, <2>4 DEF BeatInv
<1>3. PathTypes
  <2>1. path = FALSE /\ outages = 0
    BY DEF Init
  <2>2. path \in BOOLEAN
    BY <2>1, Zenon
  <2>3. outages \in 0..MaxOutages
    BY <2>1, MishapsAssumption
  <2>4. QED BY <2>2, <2>3 DEF PathTypes
<1>4. PhoneInv
  BY FrameTypes DEF Init, PhoneInv, GlueTypes, NoGlue, States
<1>5. EarlyInv
  BY DEF Init, EarlyInv
<1>6. QED BY <1>1, <1>2, <1>3, <1>4, <1>5

LEMMA WishTypes ==
  /\ Receive \in Wishes /\ Ice \in Wishes
  /\ \A by \in {"main", "task", "miss"}, o \in Offers :
       Wants(by, Frame("offer", o)) \in Wishes /\ Wants(by, Frame("answer", o)) \in Wishes
BY FrameTypes DEF Receive, Ice, Wants, Wishes, Kinds

\* The offer that is made has a number of its own.
LEMMA CreateTypes ==
  ASSUME MacTypes, offers + misses <= missed, NEW by \in {"main", "task", "miss"},
         CreateOffer(by)
  PROVE  waiters' \in Seq(Wishes) /\ offers' = offers + 1 /\ offers' \in Offers /\ sig' = "local"
<1>1. offers' = offers + 1 /\ offers' \in Offers
  BY MishapsAssumption DEF MacTypes, CreateOffer, Offers
<1>2. <<Ice, Wants(by, Frame("offer", offers'))>> \in Seq(Wishes)
  BY <1>1, WishTypes
<1>3. QED BY <1>1, <1>2 DEF CreateOffer, MacTypes

LEMMA StepMac == MacTypes /\ EarlyInv /\ [Next]_vars => MacTypes'
<1> SUFFICES ASSUME MacTypes, EarlyInv, [Next]_vars PROVE MacTypes'
  OBVIOUS
<1>1. CASE MacConnects
  BY <1>1 DEF MacConnects, MacOnly, MacTypes, Stages
<1>2. CASE MakeOffer
  <2>1. offers + misses <= missed
    BY <1>2 DEF MakeOffer, MacTypes
  <2>2. /\ waiters' \in Seq(Wishes) /\ offers' = offers + 1 /\ sig' = "local"
        /\ main' = "sending" /\ UNCHANGED <<remote, misses, missed>>
    BY <1>2, <2>1, CreateTypes DEF MakeOffer, MacOnly
  <2>3. QED BY <2>1, <2>2 DEF MacTypes, Stages, States
<1>3. CASE Send \/ SendFails \/ MacCloses
  <2>1. /\ waiters # <<>> /\ UNCHANGED <<sig, remote, offers, misses, missed>>
        /\ main' \in {main, "receiving", "failed", "closed"}
        /\ waiters' \in {Tail(waiters), Append(Tail(waiters), Receive)}
    BY <1>3 DEF Send, SendFails, MacCloses, MacOnly
  <2>2. waiters' \in Seq(Wishes)
    BY <2>1, FirstWish, WishTypes
  <2>3. QED BY <2>1, <2>2 DEF MacTypes, Stages
<1>4. CASE MacAnswered \/ MacOffered \/ MacCandidate \/ MacSkips
  <2>1. /\ waiters # <<>> /\ UNCHANGED <<offers, misses, missed>>
        /\ main' \in {main, "failed", "answering"}
        /\ waiters' \in {Tail(waiters), Append(Tail(waiters), Receive)}
        /\ sig' \in {sig, "stable", "remote"} /\ remote' \in BOOLEAN
    BY <1>4 DEF MacAnswered, MacOffered, MacCandidate, MacSkips, MacOnly, Receives, GoesOn, Fails,
                MacTypes
  <2>2. waiters' \in Seq(Wishes)
    BY <2>1, FirstWish, WishTypes
  <2>3. QED BY <2>1, <2>2 DEF MacTypes, Stages, States
<1>5. CASE MakeAnswer
  <2>1. /\ main = "answering" /\ main' = "sending" /\ sig' = "stable"
        /\ UNCHANGED <<remote, offers, misses, missed>>
    BY <1>5 DEF MakeAnswer, MacOnly
  <2>2. PICK candidates \in {<<>>, <<Ice>>} :
          waiters' = waiters \o candidates \o <<Wants("main", Frame("answer", 0))>>
    BY <1>5 DEF MakeAnswer
  <2>3. candidates \in Seq(Wishes) /\ <<Wants("main", Frame("answer", 0))>> \in Seq(Wishes)
    <3>1. Wants("main", Frame("answer", 0)) \in Wishes /\ Ice \in Wishes
      BY WishTypes, FrameTypes
    <3>2. <<>> \in Seq(Wishes) /\ <<Ice>> \in Seq(Wishes)
      BY <3>1, EmptySeq
    <3>3. <<Wants("main", Frame("answer", 0))>> \in Seq(Wishes)
      BY <3>1
    <3>4. QED BY <3>2, <3>3, Zenon
  <2>4. waiters' \in Seq(Wishes)
    BY <2>2, <2>3 DEF MacTypes
  <2>5. QED BY <2>1, <2>4 DEF MacTypes, Stages, States
<1>6. CASE Beat
  BY <1>6, MishapsAssumption DEF Beat, Miss, MacTypes
<1>7. CASE Restart
  <2>1. /\ misses > 0 /\ misses' = misses - 1 /\ UNCHANGED <<main, remote, missed>>
        /\ main \notin {"idle", "offering"}
    BY <1>7 DEF Restart, EarlyInv
  <2>2. CASE sig = "stable"
    <3>1. CreateOffer("miss")
      BY <1>7, <2>2 DEF Restart, RestartIce
    <3>2. offers' = offers + 1 /\ sig' = "local" /\ offers' \in Offers
      BY <2>1, <3>1, MishapsAssumption DEF CreateOffer, MacTypes, Offers
    <3>3. <<Ice, Wants("miss", Frame("offer", offers'))>> \in Seq(Wishes)
      BY <3>2, WishTypes
    <3>4. waiters' \in Seq(Wishes)
      BY <3>1, <3>3 DEF CreateOffer, MacTypes
    <3>5. QED BY <2>1, <3>2, <3>4 DEF MacTypes, States
  <2>3. CASE sig # "stable"
    BY <1>7, <2>1, <2>3 DEF Restart, RestartIce, MacTypes
  <2>4. QED BY <2>2, <2>3
<1>8. CASE PathUp \/ PathDown \/ StopHeartbeat \/ Ack \/ UNCHANGED vars
  BY <1>8 DEF PathUp, PathDown, StopHeartbeat, Ack, MacTypes
<1>9. CASE \/ PhoneConnects \/ PhoneDialsPing
           \/ \E n \in Sockets :
                \/ PhoneOffers(n) \/ PhoneSendsIce(n) \/ PhonePings(n) \/ PhoneAnswered(n)
                \/ PhoneOffered(n) \/ PhoneAnswers(n) \/ PhoneCandidate(n) \/ PhoneEnds(n)
           \/ \E d \in Devices : NetworkLost(d) \/ \E n \in Sockets : RoomSeesClose(d, n)
  <2>1. UNCHANGED <<macVars, beatVars>>
    BY <1>9 DEF PhoneConnects, PhoneDialsPing, Dial, PhoneOffers, PhoneSendsIce, PhonePings,
                PhoneAnswered, PhoneOffered, PhoneAnswers, PhoneCandidate, PhoneReceives,
                PhoneEnds, PhoneOnly, NetworkLost, RoomSeesClose
  <2>2. QED BY <2>1 DEF MacTypes
<1>10. QED
  BY <1>1, <1>2, <1>3, <1>4, <1>5, <1>6, <1>7, <1>8, <1>9 DEF Next, MacReceives


\* The heartbeat: what a tick or an acknowledgement makes of the age of last_ack.
LEMMA BeatStep ==
  ASSUME BeatInv, Beat
  PROVE  /\ BeatInv'
         /\ missed' # missed =>
              silence.beats >= CASE silence.since = "start" -> 6
                                 [] silence.since = "ack" -> 3
                                 [] silence.since = "miss" -> 2
<1> DEFINE age == IF heartbeat.acked THEN 0 ELSE heartbeat.age + 1
<1>1. PICK miss \in BOOLEAN :
        /\ age > 3 => miss
        /\ miss => age >= 3
        /\ Miss(miss)
        /\ heartbeat' = [heartbeat EXCEPT !.age = IF miss THEN 0 ELSE age,
                                          !.acked = FALSE, !.asked = TRUE]
        /\ silence' = IF miss THEN [beats |-> 0, since |-> "miss"]
                      ELSE [silence EXCEPT !.beats = IF @ < 8 THEN @ + 1 ELSE @]
  BY DEF Beat
<1>2. /\ heartbeat.at = "on" /\ heartbeat.age \in {-4, -3, -2, -1, 0, 1, 2, 3}
      /\ heartbeat.acked \in BOOLEAN /\ silence.beats \in 0..8
      /\ silence.since \in {"start", "ack", "miss"}
  BY DEF Beat, BeatInv
<1>3. /\ heartbeat.acked => silence.since = "ack" /\ silence.beats = 0
      /\ ~heartbeat.acked =>
           heartbeat.age = CASE silence.since = "start" -> silence.beats - 4
                             [] silence.since = "ack" -> silence.beats - 1
                             [] silence.since = "miss" -> silence.beats
  BY <1>2 DEF BeatInv
<1>4. age = CASE silence.since = "start" -> silence.beats - 3
              [] silence.since = "ack" -> silence.beats
              [] silence.since = "miss" -> silence.beats + 1
  <2>1. CASE heartbeat.acked
    BY <1>3, <2>1
  <2>2. CASE ~heartbeat.acked
    BY <1>2, <1>3, <2>2
  <2>3. QED BY <2>1, <2>2
<1>5. age \in -3..4
  BY <1>2
<1> HIDE DEF age
<1>6. CASE miss
  <2>1. /\ silence' = [beats |-> 0, since |-> "miss"]
        /\ heartbeat' = [heartbeat EXCEPT !.age = 0, !.acked = FALSE, !.asked = TRUE]
        /\ age >= 3
    BY <1>1, <1>6
  <2>2. /\ heartbeat'.at = "on" /\ heartbeat'.age = 0 /\ heartbeat'.acked = FALSE
        /\ silence'.beats = 0 /\ silence'.since = "miss"
    BY <1>2, <2>1 DEF BeatInv
  <2>3. heartbeat' \in [at : {"off", "on", "stopped"}, age : {-4, -3, -2, -1, 0, 1, 2, 3},
                        acked : BOOLEAN, asked : BOOLEAN]
    BY <2>1 DEF BeatInv
  <2>4. silence' \in [beats : 0..8, since : {"start", "ack", "miss"}]
    BY <2>1
  <2>5. BeatInv'
    BY <2>2, <2>3, <2>4 DEF BeatInv
  <2>6. QED BY <1>2, <1>4, <2>1, <2>5
<1>7. CASE ~miss
  <2>1. /\ silence' = [silence EXCEPT !.beats = IF @ < 8 THEN @ + 1 ELSE @]
        /\ heartbeat' = [heartbeat EXCEPT !.age = age, !.acked = FALSE, !.asked = TRUE]
        /\ age \in {-4, -3, -2, -1, 0, 1, 2, 3} /\ missed' = missed
    BY <1>1, <1>5, <1>7 DEF Miss
  <2>2. silence.beats < 8
    BY <1>2, <1>4, <2>1
  <2>3. /\ heartbeat'.at = "on" /\ heartbeat'.age = age /\ heartbeat'.acked = FALSE
        /\ silence'.beats = silence.beats + 1 /\ silence'.since = silence.since
    BY <1>2, <2>1, <2>2 DEF BeatInv
  <2>4. heartbeat' \in [at : {"off", "on", "stopped"}, age : {-4, -3, -2, -1, 0, 1, 2, 3},
                        acked : BOOLEAN, asked : BOOLEAN]
    BY <2>1 DEF BeatInv
  <2>5. silence' \in [beats : 0..8, since : {"start", "ack", "miss"}]
    BY <1>2, <2>1, <2>2 DEF BeatInv
  <2>6. age = CASE silence'.since = "start" -> silence'.beats - 4
                [] silence'.since = "ack" -> silence'.beats - 1
                [] silence'.since = "miss" -> silence'.beats
    BY <1>2, <1>4, <2>3
  <2>7. BeatInv'
    BY <2>3, <2>4, <2>5, <2>6 DEF BeatInv
  <2>8. QED BY <2>1, <2>7
<1>8. QED BY <1>1, <1>6, <1>7

LEMMA StepBeat == BeatInv /\ [Next]_vars => BeatInv'
<1> SUFFICES ASSUME BeatInv, [Next]_vars PROVE BeatInv'
  OBVIOUS
<1>1. CASE PathUp
  <2>1. CASE heartbeat.at = "off"
    <3>1. heartbeat' = [heartbeat EXCEPT !.at = "on", !.age = -4] /\ UNCHANGED silence
      BY <1>1, <2>1 DEF PathUp, StartHeartbeat
    <3>2. /\ heartbeat'.at = "on" /\ heartbeat'.age = -4 /\ ~heartbeat'.acked
          /\ silence'.beats = 0 /\ silence'.since = "start"
      BY <2>1, <3>1 DEF BeatInv
    <3>3. heartbeat' \in [at : {"off", "on", "stopped"}, age : {-4, -3, -2, -1, 0, 1, 2, 3},
                          acked : BOOLEAN, asked : BOOLEAN]
      BY <3>1 DEF BeatInv
    <3>4. QED BY <3>1, <3>2, <3>3 DEF BeatInv
  <2>2. CASE heartbeat.at # "off"
    BY <1>1, <2>2 DEF PathUp, StartHeartbeat, BeatInv
  <2>3. QED BY <2>1, <2>2
<1>2. CASE Beat
  BY <1>2, BeatStep
<1>3. CASE StopHeartbeat
  <2>1. heartbeat.at = "on" /\ heartbeat' = [heartbeat EXCEPT !.at = "stopped"] /\ UNCHANGED silence
    BY <1>3 DEF StopHeartbeat
  <2>2. /\ heartbeat'.at = "stopped" /\ heartbeat'.age = heartbeat.age
        /\ heartbeat'.acked = heartbeat.acked
        /\ heartbeat' \in [at : {"off", "on", "stopped"}, age : {-4, -3, -2, -1, 0, 1, 2, 3},
                           acked : BOOLEAN, asked : BOOLEAN]
    BY <2>1 DEF BeatInv
  <2>3. QED BY <2>1, <2>2 DEF BeatInv
<1>4. CASE Ack
  <2>1. /\ heartbeat' = [heartbeat EXCEPT !.asked = FALSE, !.acked = TRUE]
        /\ silence' = [beats |-> 0, since |-> "ack"] /\ heartbeat.asked
    BY <1>4 DEF Ack
  <2>2. /\ heartbeat.at # "off" /\ heartbeat'.at = heartbeat.at /\ heartbeat'.acked = TRUE
        /\ silence'.beats = 0 /\ silence'.since = "ack"
    BY <2>1 DEF BeatInv
  <2>3. heartbeat' \in [at : {"off", "on", "stopped"}, age : {-4, -3, -2, -1, 0, 1, 2, 3},
                        acked : BOOLEAN, asked : BOOLEAN]
    BY <2>1 DEF BeatInv
  <2>4. silence' \in [beats : 0..8, since : {"start", "ack", "miss"}]
    BY <2>1
  <2>5. QED BY <2>2, <2>3, <2>4 DEF BeatInv
<1>5. CASE UNCHANGED <<heartbeat, silence>>
  BY <1>5 DEF BeatInv
<1>6. ASSUME NEW n \in Sockets,
             \/ PhoneOffers(n) \/ PhoneSendsIce(n) \/ PhonePings(n) \/ PhoneAnswered(n)
             \/ PhoneOffered(n) \/ PhoneAnswers(n) \/ PhoneCandidate(n) \/ PhoneEnds(n)
      PROVE  UNCHANGED <<heartbeat, silence>>
  BY <1>6 DEF PhoneOffers, PhoneSendsIce, PhonePings, PhoneAnswered, PhoneOffered, PhoneAnswers,
              PhoneCandidate, PhoneReceives, PhoneEnds, PhoneOnly
<1>7. CASE \/ MacConnects \/ MakeOffer \/ MakeAnswer \/ Send \/ SendFails \/ MacReceives
           \/ PathDown \/ Restart \/ PhoneConnects \/ PhoneDialsPing
           \/ \E d \in Devices : NetworkLost(d) \/ \E n \in Sockets : RoomSeesClose(d, n)
           \/ UNCHANGED vars
  <2>1. UNCHANGED <<heartbeat, silence>>
    BY <1>7 DEF MacConnects, MakeOffer, MakeAnswer, Send, SendFails, MacReceives, MacAnswered,
                MacOffered, MacCandidate, MacSkips, MacCloses, MacOnly, PathDown, Restart,
                PhoneConnects, PhoneDialsPing, Dial, PhoneOnly, NetworkLost, RoomSeesClose
  <2>2. QED BY <1>5, <2>1
<1>8. QED BY <1>1, <1>2, <1>3, <1>4, <1>5, <1>6, <1>7 DEF Next


LEMMA StepPath == PathTypes /\ [Next]_vars => PathTypes'
<1> SUFFICES ASSUME PathTypes, [Next]_vars PROVE PathTypes'
  OBVIOUS
<1>1. CASE PathUp \/ PathDown \/ \E d \in Devices : NetworkLost(d)
  <2>1. outages' \in {outages, outages + 1} /\ (outages' = outages \/ outages < MaxOutages)
    BY <1>1 DEF PathUp, PathDown, NetworkLost
  <2>2. path' \in BOOLEAN
    BY <1>1 DEF PathUp, PathDown, NetworkLost, PathTypes
  <2>3. QED BY <2>1, <2>2, MishapsAssumption DEF PathTypes
<1>2. CASE \/ MacConnects \/ MakeOffer \/ MakeAnswer \/ Send \/ SendFails \/ MacReceives
           \/ Beat \/ StopHeartbeat \/ Ack \/ Restart \/ PhoneConnects \/ PhoneDialsPing
           \/ UNCHANGED vars
  BY <1>2 DEF MacConnects, MakeOffer, MakeAnswer, Send, SendFails, MacReceives, MacAnswered,
              MacOffered, MacCandidate, MacSkips, MacCloses, MacOnly, Beat, StopHeartbeat, Ack,
              Restart, PhoneConnects, PhoneDialsPing, Dial, PhoneOnly, PathTypes
<1>3. ASSUME NEW n \in Sockets,
             \/ PhoneOffers(n) \/ PhoneSendsIce(n) \/ PhonePings(n) \/ PhoneAnswered(n)
             \/ PhoneOffered(n) \/ PhoneAnswers(n) \/ PhoneCandidate(n) \/ PhoneEnds(n)
             \/ \E d \in Devices : RoomSeesClose(d, n)
      PROVE  UNCHANGED <<path, outages>>
  BY <1>3 DEF PhoneOffers, PhoneSendsIce, PhonePings, PhoneAnswered, PhoneOffered, PhoneAnswers,
              PhoneCandidate, PhoneReceives, PhoneEnds, PhoneOnly, RoomSeesClose
<1>4. QED BY <1>1, <1>2, <1>3 DEF Next, PathTypes

\* Glues change one at a time.
GlueOK(g) ==
  /\ g \in GlueTypes
  /\ g.set => g.pending = 0
  /\ g.remote => g.set \/ g.at = "ended"
  /\ g.at = "ended" => g.pending = 0

LEMMA OneGlue ==
  ASSUME PhoneInv, NEW n \in Sockets, NEW g, GlueOK(g), phone' = [phone EXCEPT ![n] = g]
  PROVE  PhoneInv'
<1>1. phone' \in [Sockets -> GlueTypes]
  BY DEF PhoneInv, GlueOK
<1>2. \A m \in Sockets : phone'[m] = IF m = n THEN g ELSE phone[m]
  BY DEF PhoneInv
<1>3. QED BY <1>1, <1>2 DEF PhoneInv, GlueOK

LEMMA NoGlueOK ==
  /\ NoGlue \in GlueTypes /\ NoGlue.set = FALSE /\ NoGlue.remote = FALSE /\ NoGlue.pending = 0
  /\ NoGlue.at = "none" /\ NoGlue.owes = 0
BY FrameTypes DEF NoGlue, GlueTypes, States

\* An offer that the phone reads has the number of one of the Mac's.
LEMMA FirstFrame ==
  ASSUME RoomTypes, NEW d \in Devices, NEW n \in Sockets, Readable(d, n)
  PROVE  Head(down[d][n]) \in Frames /\ Head(down[d][n]).of \in Offers
<1>1. down[d][n] \in Seq(Frames) /\ down[d][n] # <<>>
  BY DEF RoomTypes, RoomTypeOK, Readable
<1>2. Head(down[d][n]) \in Frames
  BY <1>1, HeadTailProperties
<1>3. QED BY <1>2 DEF Frames

LEMMA StepPhone == RoomTypes /\ PhoneInv /\ [Next]_vars => PhoneInv'
<1> SUFFICES ASSUME RoomTypes, PhoneInv, [Next]_vars PROVE PhoneInv'
  OBVIOUS
<1>0. \A n \in Sockets : /\ phone[n] \in GlueTypes /\ GlueOK(phone[n])
                         /\ phone[n].remote \in BOOLEAN
  BY DEF PhoneInv, GlueOK, GlueTypes
<1>1. CASE PhoneConnects \/ PhoneDialsPing
  <2>1. "ios" \in Devices
    BY DEF Devices
  <2>2. accepted'["ios"] \in Sockets
    BY <1>1, <2>1 DEF PhoneConnects, PhoneDialsPing, Dial, Accept, RoomTypes, RoomTypeOK
  <2>3. /\ GlueOK(Offering) /\ GlueOK([NoGlue EXCEPT !.at = "ping"])
    BY NoGlueOK DEF Offering, GlueOK, GlueTypes, States
  <2>4. \/ phone' = [phone EXCEPT ![accepted'["ios"]] = Offering]
        \/ phone' = [phone EXCEPT ![accepted'["ios"]] = [NoGlue EXCEPT !.at = "ping"]]
    BY <1>1 DEF PhoneConnects, PhoneDialsPing, Dial
  <2>5. QED BY <2>2, <2>3, <2>4, OneGlue
<1>2. ASSUME NEW n \in Sockets, PhoneOffers(n) \/ PhonePings(n) PROVE PhoneInv'
  <2>1. PICK at \in {"open", "pinging"} :
          /\ phone' = [phone EXCEPT ![n] = [@ EXCEPT !.at = at]]
          /\ phone[n].at \in {"offering", "ping"}
    BY <1>2 DEF PhoneOffers, PhonePings
  <2>2. GlueOK([phone[n] EXCEPT !.at = at])
    BY <1>0, <2>1 DEF GlueOK, GlueTypes
  <2>3. QED BY <2>1, <2>2, OneGlue
<1>3. ASSUME NEW n \in Sockets, PhoneSendsIce(n) PROVE PhoneInv'
  <2>1. phone' = [phone EXCEPT ![n] = [@ EXCEPT !.ice = FALSE]]
    BY <1>3 DEF PhoneSendsIce
  <2>2. GlueOK([phone[n] EXCEPT !.ice = FALSE])
    BY <1>0 DEF GlueOK, GlueTypes
  <2>3. QED BY <2>1, <2>2, OneGlue
<1>4. ASSUME NEW n \in Sockets, NEW s \in States PROVE GlueOK(Described(n, s))
  BY <1>0 DEF Described, GlueOK, GlueTypes
<1>5. ASSUME NEW n \in Sockets, PhoneAnswered(n) PROVE PhoneInv'
  <2>1. UNCHANGED phone \/ phone' = [phone EXCEPT ![n] = Described(n, "stable")]
    BY <1>5 DEF PhoneAnswered
  <2>2. QED BY <1>4, <2>1, OneGlue DEF PhoneInv, States
<1>6. ASSUME NEW n \in Sockets, PhoneOffered(n) PROVE PhoneInv'
  <2> DEFINE g == [Described(n, "remote") EXCEPT !.at = "answering",
                                                 !.owes = Head(down["ios"][n]).of]
  <2>1. UNCHANGED phone \/ phone' = [phone EXCEPT ![n] = g]
    BY <1>6 DEF PhoneOffered
  <2>2. GlueOK(Described(n, "remote")) /\ Described(n, "remote").set = TRUE
    BY <1>0, <1>4 DEF States, Described, GlueTypes
  <2>3. Head(down["ios"][n]).of \in Offers
    BY <1>6, FirstFrame DEF PhoneOffered, PhoneReceives, Devices
  <2>4. GlueOK(g)
    BY <2>2, <2>3 DEF GlueOK, GlueTypes
  <2>5. QED BY <2>1, <2>4, OneGlue DEF PhoneInv
<1>7. ASSUME NEW n \in Sockets, PhoneAnswers(n) PROVE PhoneInv'
  <2>1. /\ phone[n].at = "answering"
        /\ phone' = [phone EXCEPT ![n] = [@ EXCEPT !.at = "open", !.sig = "stable", !.owes = 0]]
    BY <1>0, <1>7 DEF PhoneAnswers, PhoneInv
  <2>2. GlueOK([phone[n] EXCEPT !.at = "open", !.sig = "stable", !.owes = 0])
    <3> DEFINE g == phone[n]
               h == [g EXCEPT !.at = "open", !.sig = "stable", !.owes = 0]
    <3>1. g \in GlueTypes /\ GlueOK(g) /\ g.at = "answering"
      BY <1>0, <2>1
    <3> HIDE DEF g
    <3>2. /\ h \in GlueTypes /\ h.at = "open" /\ h.pending = g.pending
          /\ h.set = g.set /\ h.remote = g.remote
      BY <3>1, FrameTypes DEF GlueTypes, States
    <3>3. GlueOK(h)
      BY <3>1, <3>2 DEF GlueOK
    <3>4. QED BY <3>3 DEF g
  <2>3. QED BY <2>1, <2>2, OneGlue
<1>8. ASSUME NEW n \in Sockets, PhoneCandidate(n) PROVE PhoneInv'
  <2>1. \/ UNCHANGED phone
        \/ /\ ~phone[n].set /\ phone[n].at = "open"
           /\ phone' = [phone EXCEPT ![n] = [phone[n] EXCEPT !.pending = phone[n].pending + 1]]
    <3>1. CASE phone[n].set
      BY <1>8, <3>1 DEF PhoneCandidate
    <3>2. CASE ~phone[n].set
      <4>1. phone' = [phone EXCEPT ![n].pending = @ + 1] /\ phone[n].at = "open"
        BY <1>8, <3>2 DEF PhoneCandidate, PhoneReceives
      <4>2. phone' = [phone EXCEPT ![n] = [phone[n] EXCEPT !.pending = phone[n].pending + 1]]
        BY <4>1
      <4>3. QED BY <3>2, <4>1, <4>2
    <3>3. QED BY <3>1, <3>2
  <2>2. ASSUME ~phone[n].set, phone[n].at = "open"
        PROVE  GlueOK([phone[n] EXCEPT !.pending = phone[n].pending + 1])
    <3> DEFINE g == phone[n]
               h == [g EXCEPT !.pending = g.pending + 1]
    <3>1. g \in GlueTypes /\ GlueOK(g) /\ g.at = "open" /\ ~g.set
      BY <1>0, <2>2
    <3> HIDE DEF g
    <3>2. /\ h \in GlueTypes /\ h.at = "open" /\ h.set = g.set /\ h.remote = g.remote
      BY <3>1 DEF GlueTypes
    <3>3. GlueOK(h)
      BY <3>1, <3>2 DEF GlueOK
    <3>4. QED BY <3>3 DEF g
  <2>3. QED BY <2>1, <2>2, OneGlue DEF PhoneInv
<1>9. ASSUME NEW n \in Sockets, PhoneEnds(n) PROVE PhoneInv'
  <2>1. phone' = [phone EXCEPT ![n] = [NoGlue EXCEPT !.at = "ended", !.remote = phone[n].remote]]
    BY <1>9 DEF PhoneEnds
  <2>2. GlueOK([NoGlue EXCEPT !.at = "ended", !.remote = phone[n].remote])
    BY <1>0, NoGlueOK DEF GlueOK, GlueTypes
  <2>3. QED BY <2>1, <2>2, OneGlue
<1>10. CASE \/ MacConnects \/ MakeOffer \/ MakeAnswer \/ Send \/ SendFails \/ MacReceives
            \/ PathUp \/ PathDown \/ Beat \/ StopHeartbeat \/ Ack \/ Restart
            \/ \E d \in Devices : NetworkLost(d) \/ \E n \in Sockets : RoomSeesClose(d, n)
            \/ UNCHANGED vars
  <2>1. UNCHANGED phone
    BY <1>10 DEF MacConnects, MakeOffer, MakeAnswer, Send, SendFails, MacReceives, MacAnswered,
                 MacOffered, MacCandidate, MacSkips, MacCloses, MacOnly, PathUp, PathDown, Beat,
                 StopHeartbeat, Ack, Restart, NetworkLost, RoomSeesClose
  <2>2. QED BY <2>1 DEF PhoneInv
<1>11. QED
  BY <1>1, <1>2, <1>3, <1>5, <1>6, <1>7, <1>8, <1>9, <1>10 DEF Next


LEMMA StepEarly == MacTypes /\ EarlyInv /\ [Next]_vars => EarlyInv'
<1> SUFFICES ASSUME MacTypes, EarlyInv, [Next]_vars PROVE EarlyInv'
  OBVIOUS
<1>1. CASE MacConnects
  BY <1>1 DEF MacConnects, MacOnly, EarlyInv
<1>2. CASE MakeOffer \/ MakeAnswer
  BY <1>2 DEF MakeOffer, MakeAnswer, EarlyInv
<1>3. CASE Send \/ SendFails \/ MacCloses
  <2>1. main \notin {"idle", "offering"} /\ main' \in {main, "receiving", "failed", "closed"}
        /\ sig' = sig
    BY <1>3 DEF Send, SendFails, MacCloses, EarlyInv
  <2>2. QED BY <2>1 DEF EarlyInv
<1>4. CASE MacAnswered \/ MacOffered \/ MacCandidate \/ MacSkips
  <2>1. /\ main \notin {"idle", "offering"}
        /\ \/ main' = main /\ sig' = sig
           \/ main' = main /\ sig = "local"
           \/ main' = "failed"
           \/ main' = "answering" /\ sig' = "remote"
    BY <1>4 DEF MacAnswered, MacOffered, MacCandidate, MacSkips, Receives, GoesOn, Fails, EarlyInv
  <2>2. QED BY <2>1 DEF EarlyInv
<1>5. CASE PathUp \/ PathDown \/ Beat \/ StopHeartbeat \/ Ack
  <2>1. main \notin {"idle", "offering"} /\ UNCHANGED macVars
    BY <1>5 DEF PathUp, PathDown, Beat, StopHeartbeat, Ack, EarlyInv
  <2>2. QED BY <2>1 DEF EarlyInv
<1>6. CASE Restart
  <2>1. main \notin {"idle", "offering"} /\ main' = main
    BY <1>6 DEF Restart, EarlyInv, MacTypes
  <2>2. sig = "stable" \/ sig' = sig
    BY <1>6 DEF Restart, RestartIce
  <2>3. QED BY <2>1, <2>2 DEF EarlyInv
<1>7. ASSUME NEW n \in Sockets,
             \/ PhoneOffers(n) \/ PhoneSendsIce(n) \/ PhonePings(n) \/ PhoneAnswered(n)
             \/ PhoneOffered(n) \/ PhoneAnswers(n) \/ PhoneCandidate(n) \/ PhoneEnds(n)
      PROVE  UNCHANGED <<macVars, misses, path, heartbeat>>
  BY <1>7 DEF PhoneOffers, PhoneSendsIce, PhonePings, PhoneAnswered, PhoneOffered, PhoneAnswers,
              PhoneCandidate, PhoneReceives, PhoneEnds, PhoneOnly
<1>8. CASE \/ PhoneConnects \/ PhoneDialsPing
           \/ \E d \in Devices : NetworkLost(d) \/ \E n \in Sockets : RoomSeesClose(d, n)
           \/ UNCHANGED vars
  <2>1. UNCHANGED <<macVars, misses, path, heartbeat>>
    BY <1>8 DEF PhoneConnects, PhoneDialsPing, Dial, PhoneOnly, NetworkLost, RoomSeesClose
  <2>2. QED BY <2>1 DEF EarlyInv
<1>9. QED
  <2>1. UNCHANGED <<macVars, misses, path, heartbeat>> => EarlyInv'
    BY DEF EarlyInv
  <2>2. QED BY <2>1, <1>1, <1>2, <1>3, <1>4, <1>5, <1>6, <1>7, <1>8 DEF Next, MacReceives

------------------------------------------------------------------------------
(* What always holds.                                                       *)

LEMMA InvAlways == Spec => []GlueInv
<1>1. Init => GlueInv
  BY InitRoom, InitEnds DEF GlueInv
<1>2. GlueInv /\ [Next]_vars => GlueInv'
  BY StepRoom, StepMac, StepBeat, StepPath, StepPhone, StepEarly DEF GlueInv
<1>3. QED BY <1>1, <1>2, PTL DEF Spec

\* The room's sockets, the Mac's signaling state and wishes, the heartbeat and every glue
\* of the phone have their types.
THEOREM TypeCorrect == Spec => []TypeOK
<1>1. GlueInv => TypeOK
  <2> SUFFICES ASSUME GlueInv PROVE TypeOK
    OBVIOUS
  <2>1. RoomTypeOK(Frames) /\ waiters \in Seq([by : {"main", "task", "miss"}, frame : Frames])
    BY DEF GlueInv, RoomTypes, MacTypes, Wishes
  <2>2. /\ main \in {"idle", "offering", "sending", "receiving", "answering", "failed", "closed"}
        /\ sig \in {"stable", "local", "remote"} /\ remote \in BOOLEAN
    BY DEF GlueInv, MacTypes, Stages, States
  <2>3. offers \in Offers /\ misses \in 0..MaxMisses /\ missed \in 0..MaxMisses
    BY MishapsAssumption DEF GlueInv, MacTypes, Offers
  <2>4. /\ heartbeat \in [at : {"off", "on", "stopped"}, age : {-4, -3, -2, -1, 0, 1, 2, 3},
                          acked : BOOLEAN, asked : BOOLEAN]
        /\ silence \in [beats : 0..8, since : {"start", "ack", "miss"}]
    BY DEF GlueInv, BeatInv
  <2>5. path \in BOOLEAN /\ outages \in 0..MaxOutages
    BY DEF GlueInv, PathTypes
  <2>6. phone \in [Sockets ->
          [at : {"none", "offering", "open", "answering", "ping", "pinging", "ended"},
           sig : {"stable", "local", "remote"}, remote : BOOLEAN, set : BOOLEAN,
           pending : Nat, ice : BOOLEAN, owes : Offers]]
    BY DEF GlueInv, PhoneInv, GlueTypes, States
  <2>7. QED BY <2>1, <2>2, <2>3, <2>4, <2>5, <2>6 DEF TypeOK
<1>2. QED BY <1>1, InvAlways, PTL

\* A device whose newest socket the room has open is the one its frames go to.
THEOREM RoomReachesNewest == Spec => []NewestIsReached
<1>1. GlueInv => NewestIsReached
  BY DEF GlueInv
<1>2. QED BY <1>1, InvAlways, PTL

\* A glue of the phone that has a remote description keeps no candidate back.
THEOREM NoCandidateWaits == Spec => []CandidatesAreUsed
<1>1. GlueInv => CandidatesAreUsed
  BY DEF GlueInv, PhoneInv, CandidatesAreUsed
<1>2. QED BY <1>1, InvAlways, PTL

\* The heartbeat finds a silence in time, and finds none where there was none.
LEMMA SilenceFound == BeatInv => SilenceIsNoticed
<1> SUFFICES ASSUME BeatInv PROVE SilenceIsNoticed
  OBVIOUS
<1>1. /\ heartbeat.age \in {-4, -3, -2, -1, 0, 1, 2, 3}
      /\ silence.beats \in 0..8 /\ silence.since \in {"start", "ack", "miss"}
  BY DEF BeatInv
<1>2. CASE heartbeat.at = "off"
  BY <1>2 DEF BeatInv, SilenceIsNoticed
<1>3. CASE heartbeat.at # "off" /\ heartbeat.acked
  BY <1>3 DEF BeatInv, SilenceIsNoticed
<1>4. CASE heartbeat.at # "off" /\ ~heartbeat.acked
  BY <1>1, <1>4 DEF BeatInv, SilenceIsNoticed
<1>5. QED BY <1>2, <1>3, <1>4

LEMMA MissedStays ==
  ASSUME [Next]_vars, ~Beat
  PROVE  missed' = missed
<1>1. ASSUME NEW n \in Sockets,
             \/ PhoneOffers(n) \/ PhoneSendsIce(n) \/ PhonePings(n) \/ PhoneAnswered(n)
             \/ PhoneOffered(n) \/ PhoneAnswers(n) \/ PhoneCandidate(n) \/ PhoneEnds(n)
      PROVE  missed' = missed
  BY <1>1 DEF PhoneOffers, PhoneSendsIce, PhonePings, PhoneAnswered, PhoneOffered, PhoneAnswers,
              PhoneCandidate, PhoneReceives, PhoneEnds, PhoneOnly
<1>2. CASE \/ MacConnects \/ MakeOffer \/ MakeAnswer \/ Send \/ SendFails \/ MacReceives
           \/ PathUp \/ PathDown \/ StopHeartbeat \/ Ack \/ Restart
           \/ PhoneConnects \/ PhoneDialsPing
           \/ \E d \in Devices : NetworkLost(d) \/ \E n \in Sockets : RoomSeesClose(d, n)
           \/ UNCHANGED vars
  BY <1>2 DEF MacConnects, MakeOffer, MakeAnswer, Send, SendFails, MacReceives, MacAnswered,
              MacOffered, MacCandidate, MacSkips, MacCloses, MacOnly, PathUp, PathDown,
              StopHeartbeat, Ack, Restart, PhoneConnects, PhoneDialsPing, Dial, PhoneOnly,
              NetworkLost, RoomSeesClose
<1>3. QED BY <1>1, <1>2 DEF Next

\* An ICE restart is asked for in time, and never for a silence shorter than 30 s.
THEOREM RestartsAreTimely == Spec => MissesAreTimely
<1> DEFINE Timely ==
      /\ SilenceIsNoticed'
      /\ missed' > missed =>
           silence.beats >= CASE silence.since = "start" -> 6
                              [] silence.since = "ack" -> 3
                              [] silence.since = "miss" -> 2
<1>1. GlueInv => SilenceIsNoticed
  BY SilenceFound DEF GlueInv
<1>2. GlueInv /\ SilenceIsNoticed' /\ [Next]_vars => [Timely]_vars
  <2> SUFFICES ASSUME GlueInv, SilenceIsNoticed', [Next]_vars PROVE Timely
    OBVIOUS
  <2>1. missed' > missed => missed' # missed
    BY DEF GlueInv, MacTypes
  <2>2. QED BY <2>1, BeatStep, MissedStays DEF GlueInv
<1>3. MissesAreTimely <=> [][Timely]_vars
  BY DEF MissesAreTimely
<1>4. QED BY <1>1, <1>2, <1>3, InvAlways, PTL DEF Spec

------------------------------------------------------------------------------
(* Where the offer is that the Mac has out: it waits for the lock, the room   *)
(* has it, a glue of the phone owes an answer to it, or the answer is coming. *)

\* A queue with no frame of a kind, and one with at most one, of the number given.
None(q, kind) == \A i \in DOMAIN q : q[i].kind # kind
One(q, kind, of) ==
  \A i, j \in DOMAIN q :
    q[i].kind = kind => q[i].of = of /\ (q[j].kind = kind => i = j)

\* The same of the offers among those who wait for the lock.
NoWish(w) == \A i \in DOMAIN w : w[i].frame.kind # "offer"
OneWish(w, of) ==
  \A i, j \in DOMAIN w :
    w[i].frame.kind = "offer" => w[i].frame.of = of /\ (w[j].frame.kind = "offer" => i = j)

RoomClear == \A n \in Sockets : None(down["ios"][n], "offer")
PhoneClear == \A n \in Sockets : phone[n].owes = 0
BackClear == None(down["mac"][1], "answer")

InHand == OneWish(waiters, offers) /\ RoomClear /\ PhoneClear /\ BackClear
InRoom ==
  /\ NoWish(waiters) /\ PhoneClear /\ BackClear
  /\ \E n \in Sockets : /\ One(down["ios"][n], "offer", offers)
                        /\ \A m \in Sockets \ {n} : None(down["ios"][m], "offer")
AtPhone ==
  /\ NoWish(waiters) /\ RoomClear /\ BackClear
  /\ \E n \in Sockets : /\ phone[n].owes \in {0, offers}
                        /\ \A m \in Sockets \ {n} : phone[m].owes = 0
ComesBack ==
  /\ NoWish(waiters) /\ RoomClear /\ PhoneClear
  /\ One(down["mac"][1], "answer", offers)
Settled == NoWish(waiters) /\ RoomClear /\ PhoneClear /\ BackClear

\* It is in one of these places, at most once, and only while the Mac has it out.
OfferInv ==
  /\ sig = "local" => offers > 0 /\ (InHand \/ InRoom \/ AtPhone \/ ComesBack)
  /\ sig # "local" => Settled

\* A glue that makes an answer owes one.
OwesInv == \A n \in Sockets : phone[n].at = "answering" => phone[n].owes # 0

LEMMA NoneIsOne ==
  ASSUME NEW q, NEW kind, NEW of, None(q, kind)
  PROVE  One(q, kind, of)
BY DEF None, One

LEMMA AppendFrame ==
  ASSUME NEW q \in Seq(Frames), NEW f \in Frames, NEW kind, NEW of
  PROVE  /\ f.kind # kind /\ None(q, kind) => None(Append(q, f), kind)
         /\ f.kind # kind /\ One(q, kind, of) => One(Append(q, f), kind, of)
         /\ f.of = of /\ None(q, kind) => One(Append(q, f), kind, of)
<1> DEFINE r == Append(q, f)
<1>1. /\ DOMAIN r = 1..(Len(q) + 1) /\ DOMAIN q = 1..Len(q) /\ Len(q) \in Nat
      /\ \A i \in 1..Len(q) : r[i] = q[i]
      /\ r[Len(q) + 1] = f
  OBVIOUS
<1> HIDE DEF r
<1>2. \A i \in DOMAIN r : (i \in DOMAIN q /\ r[i] = q[i]) \/ (i = Len(q) + 1 /\ r[i] = f)
  BY <1>1
<1>3. f.kind # kind /\ None(q, kind) => None(r, kind)
  BY <1>2 DEF None
<1>4. f.kind # kind /\ One(q, kind, of) => One(r, kind, of)
  BY <1>2 DEF One
<1>5. f.of = of /\ None(q, kind) => One(r, kind, of)
  BY <1>2 DEF None, One
<1>6. QED BY <1>3, <1>4, <1>5 DEF r

LEMMA TailFrame ==
  ASSUME NEW q \in Seq(Frames), q # <<>>, NEW kind, NEW of
  PROVE  /\ None(q, kind) => None(Tail(q), kind) /\ Head(q).kind # kind
         /\ One(q, kind, of) => One(Tail(q), kind, of)
         /\ One(q, kind, of) /\ Head(q).kind = kind => None(Tail(q), kind) /\ Head(q).of = of
<1>1. /\ DOMAIN Tail(q) = 1..(Len(q) - 1) /\ DOMAIN q = 1..Len(q) /\ Len(q) \in Nat \ {0}
      /\ \A i \in 1..(Len(q) - 1) : Tail(q)[i] = q[i + 1]
      /\ Head(q) = q[1]
  BY EmptySeq, HeadTailProperties
<1>2. \A i \in DOMAIN Tail(q) : i + 1 \in DOMAIN q /\ i + 1 # 1 /\ Tail(q)[i] = q[i + 1]
  BY <1>1
<1>3. 1 \in DOMAIN q
  BY <1>1
<1>4. \A i, j \in DOMAIN Tail(q) : i + 1 = j + 1 => i = j
  BY <1>1
<1>5. None(q, kind) => None(Tail(q), kind) /\ Head(q).kind # kind
  BY <1>1, <1>2, <1>3 DEF None
<1>6. One(q, kind, of) => One(Tail(q), kind, of)
  BY <1>2, <1>4 DEF One
<1>7. One(q, kind, of) /\ Head(q).kind = kind => None(Tail(q), kind) /\ Head(q).of = of
  BY <1>1, <1>2, <1>3 DEF One, None
<1>8. QED BY <1>5, <1>6, <1>7

LEMMA AppendWish ==
  ASSUME NEW w \in Seq(Wishes), NEW x \in Wishes, NEW of
  PROVE  /\ x.frame.kind # "offer" /\ NoWish(w) => NoWish(Append(w, x))
         /\ x.frame.kind # "offer" /\ OneWish(w, of) => OneWish(Append(w, x), of)
         /\ x.frame.of = of /\ NoWish(w) => OneWish(Append(w, x), of)
<1> DEFINE r == Append(w, x)
<1>1. /\ DOMAIN r = 1..(Len(w) + 1) /\ DOMAIN w = 1..Len(w) /\ Len(w) \in Nat
      /\ \A i \in 1..Len(w) : r[i] = w[i]
      /\ r[Len(w) + 1] = x
  OBVIOUS
<1> HIDE DEF r
<1>2. \A i \in DOMAIN r : (i \in DOMAIN w /\ r[i] = w[i]) \/ (i = Len(w) + 1 /\ r[i] = x)
  BY <1>1
<1>3. x.frame.kind # "offer" /\ NoWish(w) => NoWish(r)
  BY <1>2 DEF NoWish
<1>4. x.frame.kind # "offer" /\ OneWish(w, of) => OneWish(r, of)
  BY <1>2 DEF OneWish
<1>5. x.frame.of = of /\ NoWish(w) => OneWish(r, of)
  BY <1>2 DEF NoWish, OneWish
<1>6. QED BY <1>3, <1>4, <1>5 DEF r

LEMMA TailWish ==
  ASSUME NEW w \in Seq(Wishes), w # <<>>, NEW of
  PROVE  /\ NoWish(w) => NoWish(Tail(w)) /\ Head(w).frame.kind # "offer"
         /\ OneWish(w, of) => OneWish(Tail(w), of)
         /\ OneWish(w, of) /\ Head(w).frame.kind = "offer"
              => NoWish(Tail(w)) /\ Head(w).frame.of = of
<1>1. /\ DOMAIN Tail(w) = 1..(Len(w) - 1) /\ DOMAIN w = 1..Len(w) /\ Len(w) \in Nat \ {0}
      /\ \A i \in 1..(Len(w) - 1) : Tail(w)[i] = w[i + 1]
      /\ Head(w) = w[1]
  BY EmptySeq, HeadTailProperties
<1>2. \A i \in DOMAIN Tail(w) : i + 1 \in DOMAIN w /\ i + 1 # 1 /\ Tail(w)[i] = w[i + 1]
  BY <1>1
<1>3. 1 \in DOMAIN w
  BY <1>1
<1>4. \A i, j \in DOMAIN Tail(w) : i + 1 = j + 1 => i = j
  BY <1>1
<1>5. NoWish(w) => NoWish(Tail(w)) /\ Head(w).frame.kind # "offer"
  BY <1>1, <1>2, <1>3 DEF NoWish
<1>6. OneWish(w, of) => OneWish(Tail(w), of)
  BY <1>2, <1>4 DEF OneWish
<1>7. OneWish(w, of) /\ Head(w).frame.kind = "offer" => NoWish(Tail(w)) /\ Head(w).frame.of = of
  BY <1>1, <1>2, <1>3 DEF OneWish, NoWish
<1>8. QED BY <1>5, <1>6, <1>7

\* A step that neither makes an offer, nor sends one on, nor answers one.
QuietWaiters ==
  /\ NoWish(waiters) => NoWish(waiters)'
  /\ OneWish(waiters, offers) => OneWish(waiters', offers)
QuietRoom ==
  /\ \A n \in Sockets :
       /\ None(down["ios"][n], "offer") => None(down'["ios"][n], "offer")
       /\ One(down["ios"][n], "offer", offers) => One(down'["ios"][n], "offer", offers)
  /\ None(down["mac"][1], "answer") => None(down'["mac"][1], "answer")
  /\ One(down["mac"][1], "answer", offers) => One(down'["mac"][1], "answer", offers)
QuietPhone == \A n \in Sockets : phone'[n].owes \in {0, phone[n].owes}

LEMMA QuietStep ==
  ASSUME OfferInv, QuietWaiters, QuietRoom, QuietPhone, sig' = sig, offers' = offers
  PROVE  OfferInv'
<1>1. /\ NoWish(waiters) => NoWish(waiters)'
      /\ OneWish(waiters, offers) => OneWish(waiters, offers)'
  BY DEF QuietWaiters
<1>2. RoomClear => RoomClear'
  BY DEF QuietRoom, RoomClear
<1>3. BackClear => BackClear'
  BY DEF QuietRoom, BackClear
<1>4. PhoneClear => PhoneClear'
  BY DEF QuietPhone, PhoneClear
<1>5. InHand => InHand'
  BY <1>1, <1>2, <1>3, <1>4 DEF InHand
<1>6. InRoom => InRoom'
  BY <1>1, <1>3, <1>4 DEF InRoom, QuietRoom
<1>7. AtPhone => AtPhone'
  BY <1>1, <1>2, <1>3 DEF AtPhone, QuietPhone
<1>8. ComesBack => ComesBack'
  BY <1>1, <1>2, <1>4 DEF ComesBack, QuietRoom
<1>9. Settled => Settled'
  BY <1>1, <1>2, <1>3, <1>4 DEF Settled
<1>10. QED BY <1>5, <1>6, <1>7, <1>8, <1>9 DEF OfferInv


\* The queues of the room change one at a time.
LEMMA OneQueue ==
  ASSUME RoomTypes, NEW d \in Devices, NEW n \in Sockets, NEW q,
         down' = [down EXCEPT ![d][n] = q],
         d = "ios" => /\ None(down["ios"][n], "offer") => None(q, "offer")
                      /\ One(down["ios"][n], "offer", offers) => One(q, "offer", offers),
         d = "mac" => /\ None(down["mac"][n], "answer") => None(q, "answer")
                      /\ One(down["mac"][n], "answer", offers) => One(q, "answer", offers)
  PROVE  QuietRoom
<1>0. 1 \in Sockets /\ "mac" \in Devices /\ "ios" \in Devices
  BY SocketsAssumption DEF Sockets, Devices
<1>1. \A e \in Devices, m \in Sockets :
        down'[e][m] = IF e = d /\ m = n THEN q ELSE down[e][m]
  <2>1. \A e \in Devices : down[e] \in [Sockets -> Seq(Frames)]
    BY DEF RoomTypes, RoomTypeOK
  <2>2. down' = [down EXCEPT ![d] = [down[d] EXCEPT ![n] = q]]
    OBVIOUS
  <2>3. \A e \in Devices : down'[e] = IF e = d THEN [down[d] EXCEPT ![n] = q] ELSE down[e]
    BY <2>2 DEF RoomTypes, RoomTypeOK
  <2>4. QED BY <2>1, <2>3
<1>2. \A m \in Sockets :
        /\ None(down["ios"][m], "offer") => None(down'["ios"][m], "offer")
        /\ One(down["ios"][m], "offer", offers) => One(down'["ios"][m], "offer", offers)
  BY <1>0, <1>1
<1>3. /\ None(down["mac"][1], "answer") => None(down'["mac"][1], "answer")
      /\ One(down["mac"][1], "answer", offers) => One(down'["mac"][1], "answer", offers)
  BY <1>0, <1>1
<1>4. QED BY <1>2, <1>3 DEF QuietRoom

LEMMA QuietUnchanged == UNCHANGED down => QuietRoom
BY DEF QuietRoom

LEMMA QuietRead ==
  ASSUME RoomTypes, NEW d \in Devices, NEW n \in Sockets, Readable(d, n), Read(d, n)
  PROVE  QuietRoom
<1>1. down[d][n] \in Seq(Frames) /\ down[d][n] # <<>>
  BY DEF RoomTypes, RoomTypeOK, Readable
<1>2. down' = [down EXCEPT ![d][n] = Tail(down[d][n])]
  BY DEF Read
<1>3. \A kind \in {"offer", "answer"} :
        /\ None(down[d][n], kind) => None(Tail(down[d][n]), kind)
        /\ One(down[d][n], kind, offers) => One(Tail(down[d][n]), kind, offers)
  BY <1>1, TailFrame
<1>4. QED BY <1>2, <1>3, OneQueue

LEMMA QuietCloseEnd ==
  ASSUME RoomTypes, NEW d \in Devices, NEW n \in Sockets, CloseEnd(d, n)
  PROVE  QuietRoom
<1>1. down' = [down EXCEPT ![d][n] = <<>>]
  BY DEF CloseEnd
<1>2. DOMAIN <<>> = {}
  OBVIOUS
<1>3. \A kind : None(<<>>, kind) /\ One(<<>>, kind, offers)
  BY <1>2 DEF None, One
<1>4. QED BY <1>1, <1>3, OneQueue

\* Where a frame goes.
LEMMA RelayDown ==
  ASSUME RoomTypes, NEW d \in Devices, NEW n, NEW frame \in Frames, Relay(d, n, frame)
  PROVE  \/ UNCHANGED down
         \/ \E to \in Sockets :
              down' = [down EXCEPT ![Other(d)][to] = Append(down[Other(d)][to], frame)]
<1>1. Other(d) \in Devices
  BY DEF Other, Devices
<1>2. \/ UNCHANGED down
      \/ /\ peers[Other(d)] # 0
         /\ down' = [down EXCEPT ![Other(d)][peers[Other(d)]] = Append(@, frame)]
  BY DEF Relay
<1>3. peers[Other(d)] # 0 => peers[Other(d)] \in Sockets
  BY <1>1, SocketsAssumption DEF RoomTypes, RoomTypeOK, Sockets
<1>4. QED BY <1>2, <1>3

LEMMA QuietRelay ==
  ASSUME RoomTypes, NEW d \in Devices, NEW n, NEW frame \in Frames, Relay(d, n, frame),
         d = "mac" => frame.kind # "offer", d = "ios" => frame.kind # "answer"
  PROVE  QuietRoom
<1>1. CASE UNCHANGED down
  BY <1>1, QuietUnchanged
<1>2. ASSUME NEW to \in Sockets,
             down' = [down EXCEPT ![Other(d)][to] = Append(down[Other(d)][to], frame)]
      PROVE  QuietRoom
  <2>1. /\ Other(d) \in Devices /\ down[Other(d)][to] \in Seq(Frames)
        /\ Other(d) = "ios" => frame.kind # "offer"
        /\ Other(d) = "mac" => frame.kind # "answer"
    BY DEF Other, Devices, RoomTypes, RoomTypeOK
  <2>2. \A kind : frame.kind # kind =>
          /\ None(down[Other(d)][to], kind) => None(Append(down[Other(d)][to], frame), kind)
          /\ One(down[Other(d)][to], kind, offers)
               => One(Append(down[Other(d)][to], frame), kind, offers)
    BY <2>1, AppendFrame
  <2>3. QED BY <1>2, <2>1, <2>2, OneQueue
<1>3. QED BY <1>1, <1>2, RelayDown

LEMMA QuietTail ==
  ASSUME MacTypes, waiters # <<>>,
         \/ waiters' = Tail(waiters)
         \/ waiters' = Append(Tail(waiters), Receive)
  PROVE  QuietWaiters
<1>1. Tail(waiters) \in Seq(Wishes) /\ waiters \in Seq(Wishes)
  BY FirstWish DEF MacTypes
<1>2. Receive \in Wishes /\ Receive.frame.kind = "receive"
  BY WishTypes, FrameTypes DEF Receive, Wants, Kinds
<1>3. /\ NoWish(waiters) => NoWish(Tail(waiters))
      /\ OneWish(waiters, offers) => OneWish(Tail(waiters), offers)
  BY <1>1, TailWish
<1>4. /\ NoWish(Tail(waiters)) => NoWish(Append(Tail(waiters), Receive))
      /\ OneWish(Tail(waiters), offers) => OneWish(Append(Tail(waiters), Receive), offers)
  BY <1>1, <1>2, AppendWish
<1>5. QED BY <1>3, <1>4 DEF QuietWaiters


\* The Mac makes an offer only when no other is anywhere.
LEMMA MakesOffer ==
  ASSUME MacTypes, OfferInv, sig = "stable", NEW by \in {"main", "task", "miss"},
         CreateOffer(by), UNCHANGED <<down, phone>>,
         offers + 1 \in Offers
  PROVE  OfferInv'
<1>1. NoWish(waiters) /\ RoomClear' /\ PhoneClear' /\ BackClear'
  BY DEF OfferInv, Settled, RoomClear, PhoneClear, BackClear
<1>2. /\ sig' = "local" /\ offers' = offers + 1 /\ offers' > 0
      /\ waiters' = waiters \o <<Ice, Wants(by, Frame("offer", offers'))>>
  BY DEF CreateOffer, MacTypes
<1>3. /\ waiters \in Seq(Wishes) /\ Ice \in Wishes /\ Wants(by, Frame("offer", offers')) \in Wishes
      /\ Ice.frame.kind # "offer" /\ Wants(by, Frame("offer", offers')).frame.of = offers'
  BY <1>2, WishTypes, FrameTypes DEF MacTypes, Ice, Wants, Kinds
<1>4. waiters' = Append(Append(waiters, Ice), Wants(by, Frame("offer", offers')))
  BY <1>2, <1>3
<1>5. Append(waiters, Ice) \in Seq(Wishes) /\ NoWish(Append(waiters, Ice))
  BY <1>1, <1>3, AppendWish
<1>6. OneWish(waiters', offers')
  BY <1>3, <1>4, <1>5, AppendWish
<1>7. InHand'
  BY <1>1, <1>6 DEF InHand
<1>8. QED BY <1>2, <1>7 DEF OfferInv

\* It leaves the Mac.
LEMMA SendsOffer ==
  ASSUME RoomTypes, MacTypes, OfferInv, Send, Head(waiters).frame.kind = "offer"
  PROVE  OfferInv'
<1>0. "mac" \in Devices /\ Other("mac") = "ios" /\ 1 \in Sockets
  BY SocketsAssumption DEF Devices, Other, Sockets
<1> DEFINE frame == Head(waiters).frame
<1>1. /\ waiters # <<>> /\ waiters \in Seq(Wishes) /\ frame \in Frames
      /\ Tail(waiters) \in Seq(Wishes)
  BY FirstWish DEF Send, MacTypes
<1>2. OneWish(waiters, offers) /\ ~NoWish(waiters)
  BY <1>1, TailWish DEF OfferInv, Settled, InHand, InRoom, AtPhone, ComesBack
<1>3. sig = "local" /\ InHand /\ offers > 0
  BY <1>2 DEF OfferInv, Settled, InRoom, AtPhone, ComesBack
<1>4. NoWish(Tail(waiters)) /\ frame.of = offers
  BY <1>1, <1>2, TailWish
<1>5. NoWish(waiters')
  <2>1. Receive \in Wishes /\ Receive.frame.kind # "offer"
    BY WishTypes, FrameTypes DEF Receive, Wants, Kinds
  <2>2. NoWish(Append(Tail(waiters), Receive))
    BY <1>1, <1>4, <2>1, AppendWish
  <2>3. waiters' \in {Tail(waiters), Append(Tail(waiters), Receive)}
    BY DEF Send
  <2>4. QED BY <1>4, <2>2, <2>3
<1>6. PhoneClear' /\ UNCHANGED <<sig, offers>>
  BY <1>3 DEF Send, MacOnly, InHand, PhoneClear
<1>7. \/ UNCHANGED down
      \/ \E to \in Sockets : down' = [down EXCEPT !["ios"][to] = Append(down["ios"][to], frame)]
  BY <1>0, <1>1, RelayDown DEF Send
<1>8. CASE UNCHANGED down
  <2>1. RoomClear' /\ BackClear'
    BY <1>3, <1>8 DEF InHand, RoomClear, BackClear
  <2>2. OneWish(waiters', offers')
    BY <1>5 DEF NoWish, OneWish
  <2>3. QED BY <1>3, <1>6, <2>1, <2>2 DEF InHand, OfferInv
<1>9. ASSUME NEW to \in Sockets,
             down' = [down EXCEPT !["ios"][to] = Append(down["ios"][to], frame)]
      PROVE  OfferInv'
  <2>1. /\ down["ios"] \in [Sockets -> Seq(Frames)] /\ "ios" \in Devices /\ "mac" # "ios"
        /\ down' = [down EXCEPT !["ios"] =
                      [down["ios"] EXCEPT ![to] = Append(down["ios"][to], frame)]]
    BY <1>0, <1>9 DEF RoomTypes, RoomTypeOK, Devices
  <2>2. /\ \A m \in Sockets :
             down'["ios"][m] = IF m = to THEN Append(down["ios"][to], frame) ELSE down["ios"][m]
        /\ down'["mac"] = down["mac"]
    BY <1>0, <2>1 DEF RoomTypes, RoomTypeOK
  <2>3. One(down'["ios"][to], "offer", offers)
    BY <1>1, <1>3, <1>4, <2>1, <2>2, AppendFrame DEF InHand, RoomClear
  <2>4. \A m \in Sockets \ {to} : None(down'["ios"][m], "offer")
    BY <1>3, <2>2 DEF InHand, RoomClear
  <2>5. BackClear'
    BY <1>3, <2>2 DEF InHand, BackClear
  <2>6. InRoom'
    BY <1>5, <1>6, <2>3, <2>4, <2>5 DEF InRoom
  <2>7. QED BY <1>3, <1>6, <2>6 DEF OfferInv
<1>10. QED BY <1>7, <1>8, <1>9

\* A glue of the phone takes it.
LEMMA TakesOffer ==
  ASSUME RoomTypes, MacTypes, PhoneInv, OfferInv, NEW n \in Sockets, PhoneOffered(n)
  PROVE  OfferInv' /\ (phone'[n].at = "answering" => phone'[n].owes # 0)
<1>0. "ios" \in Devices
  BY DEF Devices
<1>1. /\ Readable("ios", n) /\ Read("ios", n) /\ Head(down["ios"][n]).kind = "offer"
      /\ UNCHANGED macVars /\ phone[n].at = "open"
  BY DEF PhoneOffered, PhoneReceives, PhoneOnly
<1>2. /\ down["ios"] \in [Sockets -> Seq(Frames)]
      /\ down["ios"][n] \in Seq(Frames) /\ down["ios"][n] # <<>>
  BY <1>0, <1>1 DEF RoomTypes, RoomTypeOK, Readable
<1>3. ~None(down["ios"][n], "offer")
  BY <1>1, <1>2, TailFrame
<1>4. sig = "local" /\ InRoom /\ offers > 0
  BY <1>3 DEF OfferInv, Settled, InHand, AtPhone, ComesBack, RoomClear
<1>5. /\ One(down["ios"][n], "offer", offers)
      /\ \A m \in Sockets \ {n} : None(down["ios"][m], "offer")
  BY <1>3, <1>4 DEF InRoom
<1>6. None(Tail(down["ios"][n]), "offer") /\ Head(down["ios"][n]).of = offers
  BY <1>1, <1>2, <1>5, TailFrame
<1>7. /\ \A m \in Sockets :
             down'["ios"][m] = IF m = n THEN Tail(down["ios"][n]) ELSE down["ios"][m]
      /\ down'["mac"] = down["mac"]
  <2>1. down' = [down EXCEPT !["ios"] = [down["ios"] EXCEPT ![n] = Tail(down["ios"][n])]]
    BY <1>1 DEF Read
  <2>2. "mac" \in Devices /\ "mac" # "ios"
    BY DEF Devices
  <2>3. QED BY <1>0, <1>2, <2>1, <2>2 DEF RoomTypes, RoomTypeOK
<1>8. RoomClear' /\ BackClear' /\ NoWish(waiters') /\ UNCHANGED <<sig, offers>>
  BY <1>1, <1>4, <1>5, <1>6, <1>7 DEF InRoom, RoomClear, BackClear
<1>9. /\ phone'[n].owes \in {0, offers} /\ \A m \in Sockets \ {n} : phone'[m].owes = 0
      /\ phone'[n].at = "answering" => phone'[n].owes # 0
  <2>1. CASE UNCHANGED phone
    BY <1>1, <1>4, <2>1 DEF InRoom, PhoneClear
  <2>2. CASE phone' = [phone EXCEPT ![n] =
               [Described(n, "remote") EXCEPT !.at = "answering",
                                              !.owes = Head(down["ios"][n]).of]]
    <3>1. Described(n, "remote") \in GlueTypes
      BY DEF Described, PhoneInv, GlueTypes, States
    <3>2. [Described(n, "remote") EXCEPT !.at = "answering",
                                         !.owes = Head(down["ios"][n]).of].owes = offers
      BY <1>6, <3>1 DEF GlueTypes
    <3>3. phone'[n].owes = offers /\ \A m \in Sockets \ {n} : phone'[m] = phone[m]
      BY <2>2, <3>2 DEF PhoneInv
    <3>4. QED BY <1>4, <3>3 DEF InRoom, PhoneClear, MacTypes
  <2>3. QED BY <2>1, <2>2 DEF PhoneOffered
<1>10. AtPhone'
  BY <1>8, <1>9 DEF AtPhone
<1>11. QED BY <1>4, <1>8, <1>9, <1>10 DEF OfferInv


\* The glue answers.
LEMMA SendsAnswer ==
  ASSUME RoomTypes, MacTypes, PhoneInv, OfferInv, OwesInv, NEW n \in Sockets, PhoneAnswers(n)
  PROVE  OfferInv'
<1>0. "ios" \in Devices /\ "mac" \in Devices /\ Other("ios") = "mac" /\ "mac" # "ios"
  BY DEF Devices, Other
<1> DEFINE frame == Frame("answer", phone[n].owes)
<1>1. /\ phone[n].at = "answering" /\ phone[n].owes # 0 /\ UNCHANGED macVars
      /\ phone' = [phone EXCEPT ![n] = [phone[n] EXCEPT !.at = "open", !.sig = "stable",
                                                        !.owes = 0]]
  BY DEF PhoneAnswers, OwesInv, PhoneOnly, PhoneInv
<1>2. phone[n] \in GlueTypes /\ phone[n].owes \in Offers
  BY DEF PhoneInv, GlueTypes
<1>3. frame \in Frames /\ frame.kind = "answer" /\ frame.of = phone[n].owes
  BY <1>2, FrameTypes DEF Kinds
<1>4. sig = "local" /\ AtPhone /\ offers > 0
  BY <1>1 DEF OfferInv, Settled, InHand, InRoom, ComesBack, PhoneClear
<1>5. phone[n].owes = offers /\ \A m \in Sockets \ {n} : phone[m].owes = 0
  BY <1>1, <1>4 DEF AtPhone
<1>6. PhoneClear'
  <2>1. [phone[n] EXCEPT !.at = "open", !.sig = "stable", !.owes = 0].owes = 0
    BY <1>2 DEF GlueTypes
  <2>2. \A m \in Sockets : phone'[m].owes = IF m = n THEN 0 ELSE phone[m].owes
    BY <1>1, <2>1 DEF PhoneInv
  <2>3. QED BY <1>5, <2>2 DEF PhoneClear
<1>7. \/ UNCHANGED down
      \/ \E to \in Sockets : down' = [down EXCEPT !["mac"][to] = Append(down["mac"][to], frame)]
  BY <1>0, <1>3, RelayDown DEF PhoneAnswers
<1>8. RoomClear' /\ One(down'["mac"][1], "answer", offers)
  <2>0. 1 \in Sockets /\ None(down["mac"][1], "answer") /\ RoomClear
    BY <1>4, SocketsAssumption DEF AtPhone, BackClear, Sockets
  <2>1. CASE UNCHANGED down
    BY <2>0, <2>1, NoneIsOne DEF RoomClear
  <2>2. ASSUME NEW to \in Sockets,
               down' = [down EXCEPT !["mac"][to] = Append(down["mac"][to], frame)]
        PROVE  RoomClear' /\ One(down'["mac"][1], "answer", offers)
    <3>1. /\ down["mac"] \in [Sockets -> Seq(Frames)]
          /\ down' = [down EXCEPT !["mac"] =
                        [down["mac"] EXCEPT ![to] = Append(down["mac"][to], frame)]]
      BY <1>0, <2>2 DEF RoomTypes, RoomTypeOK
    <3>2. /\ down'["ios"] = down["ios"]
          /\ down'["mac"][1] = IF to = 1 THEN Append(down["mac"][1], frame) ELSE down["mac"][1]
      BY <1>0, <2>0, <3>1 DEF RoomTypes, RoomTypeOK
    <3>3. down["mac"][1] \in Seq(Frames)
      BY <2>0, <3>1
    <3>4. One(Append(down["mac"][1], frame), "answer", offers)
      BY <1>3, <1>5, <2>0, <3>3, AppendFrame
    <3>5. QED BY <2>0, <3>2, <3>4, NoneIsOne DEF RoomClear
  <2>3. QED BY <1>7, <2>1, <2>2
<1>9. ComesBack'
  BY <1>1, <1>4, <1>6, <1>8 DEF AtPhone, ComesBack
<1>10. QED BY <1>1, <1>4, <1>9 DEF OfferInv

\* The Mac has the answer: nothing is left of the offer.
LEMMA AnswerArrives ==
  ASSUME RoomTypes, MacTypes, OfferInv, MacAnswered
  PROVE  OfferInv'
<1>0. "mac" \in Devices /\ "ios" \in Devices /\ "mac" # "ios" /\ 1 \in Sockets
  BY SocketsAssumption DEF Devices, Sockets
<1>1. /\ waiters # <<>> /\ Readable("mac", 1) /\ Read("mac", 1)
      /\ Head(down["mac"][1]).kind = "answer" /\ UNCHANGED <<offers, phone>>
      /\ waiters' \in {Tail(waiters), Append(Tail(waiters), Receive)}
  BY DEF MacAnswered, Receives, GoesOn, Fails, MacOnly
<1>2. /\ down["mac"] \in [Sockets -> Seq(Frames)]
      /\ down["mac"][1] \in Seq(Frames) /\ down["mac"][1] # <<>>
  BY <1>0, <1>1 DEF RoomTypes, RoomTypeOK, Readable
<1>3. ~None(down["mac"][1], "answer")
  BY <1>1, <1>2, TailFrame
<1>4. sig = "local" /\ ComesBack
  BY <1>3 DEF OfferInv, Settled, InHand, InRoom, AtPhone, BackClear
<1>5. None(Tail(down["mac"][1]), "answer")
  BY <1>1, <1>2, <1>4, TailFrame DEF ComesBack
<1>6. down' = [down EXCEPT !["mac"] = [down["mac"] EXCEPT ![1] = Tail(down["mac"][1])]]
  BY <1>1 DEF Read
<1>7. down'["mac"][1] = Tail(down["mac"][1]) /\ down'["ios"] = down["ios"]
  BY <1>0, <1>2, <1>6 DEF RoomTypes, RoomTypeOK
<1>8. NoWish(waiters')
  BY <1>1, <1>4, QuietTail DEF QuietWaiters, ComesBack
<1>9. Settled'
  BY <1>1, <1>4, <1>5, <1>7, <1>8 DEF ComesBack, Settled, RoomClear, PhoneClear, BackClear
<1>10. sig' # "local"
  BY <1>4 DEF MacAnswered
<1>11. QED BY <1>9, <1>10 DEF OfferInv

\* Without an offer out, the signaling state may become another one.
LEMMA StaysSettled ==
  ASSUME OfferInv, QuietWaiters, QuietRoom, QuietPhone, sig # "local", sig' # "local"
  PROVE  OfferInv'
<1>1. Settled
  BY DEF OfferInv
<1>2. NoWish(waiters') /\ RoomClear' /\ PhoneClear' /\ BackClear'
  BY <1>1 DEF Settled, QuietWaiters, QuietRoom, QuietPhone, RoomClear, PhoneClear, BackClear
<1>3. QED BY <1>2 DEF Settled, OfferInv

LEMMA SamePhone == PhoneInv /\ UNCHANGED phone => QuietPhone
BY DEF QuietPhone

LEMMA OfferArrives ==
  ASSUME RoomTypes, MacTypes, PhoneInv, OfferInv, MacOffered
  PROVE  OfferInv'
<1>0. "mac" \in Devices /\ 1 \in Sockets
  BY SocketsAssumption DEF Devices, Sockets
<1>1. QuietRoom /\ QuietPhone
  BY <1>0, QuietRead, SamePhone DEF MacOffered, Receives, MacOnly
<1>2. QuietWaiters
  BY QuietTail DEF MacOffered, Receives, Fails
<1>3. \/ sig' = sig
      \/ sig = "stable" /\ sig' = "remote"
  BY DEF MacOffered
<1>4. offers' = offers
  BY DEF MacOffered
<1>5. QED BY <1>1, <1>2, <1>3, <1>4, QuietStep, StaysSettled

LEMMA AnswerIsMade ==
  ASSUME MacTypes, PhoneInv, EarlyInv, OfferInv, MakeAnswer
  PROVE  OfferInv'
<1>1. sig = "remote" /\ sig' = "stable" /\ UNCHANGED <<offers, down, phone>>
  BY DEF MakeAnswer, MacOnly, EarlyInv
<1>2. QuietRoom /\ QuietPhone
  BY <1>1, QuietUnchanged, SamePhone
<1>3. QuietWaiters
  <2> DEFINE answer == Wants("main", Frame("answer", 0))
  <2>1. /\ waiters \in Seq(Wishes) /\ Ice \in Wishes /\ answer \in Wishes
        /\ Ice.frame.kind # "offer" /\ answer.frame.kind # "offer"
    BY WishTypes, FrameTypes DEF MacTypes, Ice, Wants, Kinds
  <2>2. PICK candidates \in {<<>>, <<Ice>>} : waiters' = waiters \o candidates \o <<answer>>
    BY DEF MakeAnswer
  <2> HIDE DEF answer
  <2>3. NoWish(waiters) => NoWish(Append(waiters, Ice))
    BY <2>1, AppendWish
  <2>4. Append(waiters, Ice) \in Seq(Wishes)
    BY <2>1
  <2>5. /\ NoWish(waiters) => NoWish(Append(waiters, answer))
        /\ NoWish(Append(waiters, Ice)) => NoWish(Append(Append(waiters, Ice), answer))
    BY <2>1, <2>4, AppendWish
  <2>6. \/ waiters' = Append(waiters, answer)
        \/ waiters' = Append(Append(waiters, Ice), answer)
    BY <2>1, <2>2
  <2>7. NoWish(waiters)
    BY <1>1 DEF OfferInv, Settled
  <2>8. NoWish(waiters')
    BY <2>3, <2>5, <2>6, <2>7
  <2>9. QED BY <2>8 DEF QuietWaiters, NoWish, OneWish
<1>4. QED BY <1>1, <1>2, <1>3, StaysSettled


\* Whatever else the phone does leaves what its glues owe alone.
LEMMA QuietGlue ==
  ASSUME PhoneInv, OwesInv, NEW n \in Sockets, NEW g \in GlueTypes,
         phone' = [phone EXCEPT ![n] = g],
         g.owes \in {0, phone[n].owes}, g.at = "answering" => g.owes # 0
  PROVE  QuietPhone /\ OwesInv'
<1>1. \A m \in Sockets : phone'[m] = IF m = n THEN g ELSE phone[m]
  BY DEF PhoneInv
<1>2. QED BY <1>1 DEF QuietPhone, OwesInv

LEMMA QuietDial ==
  ASSUME RoomTypes, PhoneInv, OwesInv, PhoneConnects \/ PhoneDialsPing
  PROVE  QuietRoom /\ QuietPhone /\ OwesInv'
<1>1. QuietRoom
  BY QuietUnchanged DEF PhoneConnects, PhoneDialsPing, Dial, Accept
<1>2. accepted'["ios"] \in Sockets
  <2>1. "ios" \in Devices
    BY DEF Devices
  <2>2. QED BY <2>1 DEF PhoneConnects, PhoneDialsPing, Dial, Accept, RoomTypes, RoomTypeOK
<1>3. ASSUME NEW g \in {Offering, [NoGlue EXCEPT !.at = "ping"]}
      PROVE  g \in GlueTypes /\ g.owes = 0 /\ g.at # "answering"
  BY <1>3, NoGlueOK DEF Offering, GlueTypes, States
<1>4. \/ phone' = [phone EXCEPT ![accepted'["ios"]] = Offering]
      \/ phone' = [phone EXCEPT ![accepted'["ios"]] = [NoGlue EXCEPT !.at = "ping"]]
  BY DEF PhoneConnects, PhoneDialsPing, Dial
<1>5. QED BY <1>1, <1>2, <1>3, <1>4, QuietGlue

LEMMA QuietSends ==
  ASSUME RoomTypes, PhoneInv, OwesInv, NEW n \in Sockets,
         PhoneOffers(n) \/ PhoneSendsIce(n) \/ PhonePings(n)
  PROVE  QuietRoom /\ QuietPhone /\ OwesInv' /\ UNCHANGED <<sig, offers, waiters>>
<1>1. PICK k \in Kinds \ {"answer"} : Relay("ios", n, Frame(k, 0))
  BY DEF PhoneOffers, PhoneSendsIce, PhonePings, Sends, Kinds
<1>2. QuietRoom
  BY <1>1, FrameTypes, QuietRelay DEF Devices
<1>3. phone[n] \in GlueTypes
  BY DEF PhoneInv
<1>4. \/ phone' = [phone EXCEPT ![n] = [phone[n] EXCEPT !.at = "open"]]
      \/ phone' = [phone EXCEPT ![n] = [phone[n] EXCEPT !.ice = FALSE]]
      \/ phone' = [phone EXCEPT ![n] = [phone[n] EXCEPT !.at = "pinging"]]
  BY DEF PhoneOffers, PhoneSendsIce, PhonePings
<1>5. ASSUME NEW g \in {[phone[n] EXCEPT !.at = "open"], [phone[n] EXCEPT !.ice = FALSE],
                        [phone[n] EXCEPT !.at = "pinging"]}
      PROVE  /\ g \in GlueTypes /\ g.owes = phone[n].owes
             /\ g.at \in {phone[n].at, "open", "pinging"}
  BY <1>3, <1>5 DEF GlueTypes
<1>6. QuietPhone /\ OwesInv'
  BY <1>4, <1>5, QuietGlue DEF OwesInv
<1>7. QED BY <1>2, <1>6 DEF PhoneOffers, PhoneSendsIce, PhonePings, PhoneOnly

LEMMA QuietReceives ==
  ASSUME RoomTypes, PhoneInv, OwesInv, NEW n \in Sockets, PhoneAnswered(n) \/ PhoneCandidate(n)
  PROVE  QuietRoom /\ QuietPhone /\ OwesInv' /\ UNCHANGED <<sig, offers, waiters>>
<1>1. QuietRoom /\ phone[n].at = "open" /\ UNCHANGED macVars
  BY QuietRead DEF PhoneAnswered, PhoneCandidate, PhoneReceives, PhoneOnly, Devices
<1>2. phone[n] \in GlueTypes /\ phone[n].pending \in Nat
  BY DEF PhoneInv, GlueTypes
<1>3. \/ phone' = phone
      \/ phone' = [phone EXCEPT ![n] = Described(n, "stable")]
      \/ phone' = [phone EXCEPT ![n] = [phone[n] EXCEPT !.pending = phone[n].pending + 1]]
  <2>1. CASE PhoneAnswered(n)
    BY <2>1 DEF PhoneAnswered
  <2>2. CASE PhoneCandidate(n)
    <3>1. CASE phone[n].set
      BY <2>2, <3>1 DEF PhoneCandidate
    <3>2. CASE ~phone[n].set
      <4>1. phone' = [phone EXCEPT ![n].pending = @ + 1]
        BY <2>2, <3>2 DEF PhoneCandidate
      <4>2. phone' = [phone EXCEPT ![n] = [phone[n] EXCEPT !.pending = phone[n].pending + 1]]
        BY <4>1
      <4>3. QED BY <4>2
    <3>3. QED BY <3>1, <3>2
  <2>3. QED BY <2>1, <2>2
<1>4. ASSUME NEW g \in {Described(n, "stable"),
                        [phone[n] EXCEPT !.pending = phone[n].pending + 1]}
      PROVE  g \in GlueTypes /\ g.owes = phone[n].owes /\ g.at = "open"
  <2>1. CASE g = Described(n, "stable")
    BY <1>1, <1>2, <2>1 DEF Described, GlueTypes, States
  <2>2. CASE g = [phone[n] EXCEPT !.pending = phone[n].pending + 1]
    BY <1>1, <1>2, <2>2 DEF GlueTypes
  <2>3. QED BY <1>4, <2>1, <2>2
<1>5. phone' = phone => QuietPhone /\ OwesInv'
  BY SamePhone DEF OwesInv
<1>6. QuietPhone /\ OwesInv'
  BY <1>3, <1>4, <1>5, QuietGlue
<1>7. QED BY <1>1, <1>6

LEMMA QuietEnds ==
  ASSUME RoomTypes, PhoneInv, OwesInv, NEW n \in Sockets, PhoneEnds(n)
  PROVE  QuietRoom /\ QuietPhone /\ OwesInv' /\ UNCHANGED <<sig, offers, waiters>>
<1>1. QuietRoom
  BY QuietCloseEnd DEF PhoneEnds, Devices
<1>2. phone' = [phone EXCEPT ![n] = [NoGlue EXCEPT !.at = "ended", !.remote = phone[n].remote]]
  BY DEF PhoneEnds
<1>3. phone[n].remote \in BOOLEAN
  BY DEF PhoneInv, GlueTypes
<1>4. /\ [NoGlue EXCEPT !.at = "ended", !.remote = phone[n].remote] \in GlueTypes
      /\ [NoGlue EXCEPT !.at = "ended", !.remote = phone[n].remote].owes = 0
      /\ [NoGlue EXCEPT !.at = "ended", !.remote = phone[n].remote].at = "ended"
  BY <1>3, NoGlueOK DEF GlueTypes
<1>5. QED BY <1>1, <1>2, <1>4, QuietGlue DEF PhoneEnds, PhoneOnly

LEMMA InitOffer == Init => OfferInv /\ OwesInv
<1> SUFFICES ASSUME Init PROVE OfferInv /\ OwesInv
  OBVIOUS
<1>1. DOMAIN <<>> = {}
  OBVIOUS
<1>2. 1 \in Sockets /\ "mac" \in Devices /\ "ios" \in Devices
  BY SocketsAssumption DEF Sockets, Devices
<1>3. sig = "stable" /\ waiters = <<>> /\ RoomInit /\ phone = [n \in Sockets |-> NoGlue]
  BY DEF Init
<1>4. NoWish(waiters)
  BY <1>1, <1>3 DEF NoWish
<1>5. RoomClear /\ BackClear
  BY <1>1, <1>2, <1>3 DEF RoomInit, RoomClear, BackClear, None
<1>6. PhoneClear /\ OwesInv
  BY <1>3, NoGlueOK DEF PhoneClear, OwesInv
<1>7. QED BY <1>3, <1>4, <1>5, <1>6 DEF OfferInv, Settled

LEMMA StepOffer == GlueInv /\ OfferInv /\ OwesInv /\ [Next]_vars => OfferInv' /\ OwesInv'
<1> SUFFICES ASSUME GlueInv, OfferInv, OwesInv, [Next]_vars PROVE OfferInv' /\ OwesInv'
  OBVIOUS
<1>0. /\ RoomTypes /\ MacTypes /\ PhoneInv /\ EarlyInv
      /\ "mac" \in Devices /\ "ios" \in Devices /\ 1 \in Sockets
  BY SocketsAssumption DEF GlueInv, Sockets, Devices
<1>1. UNCHANGED phone => QuietPhone /\ OwesInv'
  BY <1>0, SamePhone DEF OwesInv
<1>2. UNCHANGED waiters => QuietWaiters
  BY DEF QuietWaiters
<1>3. CASE MakeOffer
  <2>1. /\ sig = "stable" /\ CreateOffer("main") /\ UNCHANGED <<down, phone>>
        /\ main = "offering"
    BY <1>0, <1>3 DEF MakeOffer, MacOnly, EarlyInv
  <2>2. offers + 1 \in Offers
    BY <1>0, <2>1, MishapsAssumption DEF MacTypes, Offers
  <2>3. QED BY <1>0, <1>1, <2>1, <2>2, MakesOffer
<1>4. CASE Restart
  <2>1. misses > 0 /\ UNCHANGED <<down, phone>> /\ main \notin {"idle", "offering"}
    BY <1>0, <1>4 DEF Restart, EarlyInv
  <2>2. CASE sig = "stable"
    <3>1. CreateOffer("miss")
      BY <1>4, <2>2 DEF Restart, RestartIce
    <3>2. offers + 1 \in Offers
      BY <1>0, <2>1, MishapsAssumption DEF MacTypes, Offers
    <3>3. QED BY <1>0, <1>1, <2>1, <2>2, <3>1, <3>2, MakesOffer
  <2>3. CASE sig # "stable"
    <3>1. UNCHANGED <<sig, offers, waiters>>
      BY <1>4, <2>3 DEF Restart, RestartIce
    <3>2. QED BY <1>1, <1>2, <2>1, <3>1, QuietUnchanged, QuietStep
  <2>4. QED BY <2>2, <2>3
<1>5. CASE Send
  <2>1. UNCHANGED <<phone, sig, offers>>
    BY <1>5 DEF Send, MacOnly
  <2>2. CASE Head(waiters).frame.kind = "offer"
    BY <1>0, <1>1, <1>5, <2>1, <2>2, SendsOffer
  <2>3. CASE Head(waiters).frame.kind # "offer"
    <3>1. QuietRoom
      BY <1>0, <1>5, <2>3, FirstWish, QuietRelay DEF Send
    <3>2. QuietWaiters
      BY <1>0, <1>5, QuietTail DEF Send
    <3>3. QED BY <1>1, <2>1, <3>1, <3>2, QuietStep
  <2>4. QED BY <2>2, <2>3
<1>6. CASE SendFails
  <2>1. UNCHANGED <<phone, sig, offers, down>> /\ QuietWaiters
    BY <1>0, <1>6, QuietTail DEF SendFails, MacOnly
  <2>2. QED BY <1>1, <2>1, QuietUnchanged, QuietStep
<1>7. CASE MacAnswered
  BY <1>0, <1>1, <1>7, AnswerArrives DEF MacAnswered, MacOnly
<1>8. CASE MacOffered
  BY <1>0, <1>1, <1>8, OfferArrives DEF MacOffered, MacOnly
<1>9. CASE MakeAnswer
  BY <1>0, <1>1, <1>9, AnswerIsMade DEF MakeAnswer, MacOnly
<1>10. CASE MacCandidate \/ MacSkips
  <2>1. UNCHANGED <<phone, sig, offers>> /\ QuietRoom
    BY <1>0, <1>10, QuietRead DEF MacCandidate, MacSkips, Receives, MacOnly
  <2>2. QuietWaiters
    BY <1>0, <1>10, QuietTail DEF MacCandidate, MacSkips, Receives, GoesOn, Fails
  <2>3. QED BY <1>1, <2>1, <2>2, QuietStep
<1>11. CASE MacCloses
  <2>1. UNCHANGED <<phone, sig, offers>> /\ QuietRoom /\ QuietWaiters
    BY <1>0, <1>11, QuietCloseEnd, QuietTail DEF MacCloses, MacOnly
  <2>2. QED BY <1>1, <2>1, QuietStep
<1>12. CASE \/ MacConnects \/ PathUp \/ PathDown \/ Beat \/ StopHeartbeat \/ Ack
            \/ \E d \in Devices, n \in Sockets : RoomSeesClose(d, n)
            \/ UNCHANGED vars
  <2>1. UNCHANGED <<phone, sig, offers, waiters, down>>
    BY <1>12 DEF MacConnects, Accept, MacOnly, PathUp, PathDown, Beat, StopHeartbeat, Ack,
                 RoomSeesClose, CloseListener
  <2>2. QED BY <1>1, <1>2, <2>1, QuietUnchanged, QuietStep
<1>13. ASSUME NEW d \in Devices, NetworkLost(d) PROVE OfferInv' /\ OwesInv'
  <2>1. accepted[d] \in Sockets /\ CloseEnd(d, accepted[d])
    BY <1>0, <1>13, SocketsAssumption DEF NetworkLost, RoomTypes, RoomTypeOK, Sockets
  <2>2. UNCHANGED <<phone, sig, offers, waiters>> /\ QuietRoom
    BY <1>0, <1>13, <2>1, QuietCloseEnd DEF NetworkLost
  <2>3. QED BY <1>1, <1>2, <2>2, QuietStep
<1>14. CASE PhoneConnects \/ PhoneDialsPing
  <2>1. UNCHANGED <<sig, offers, waiters>>
    BY <1>14 DEF PhoneConnects, PhoneDialsPing, Dial, PhoneOnly
  <2>2. QED BY <1>0, <1>2, <1>14, <2>1, QuietDial, QuietStep
<1>15. ASSUME NEW n \in Sockets,
              \/ PhoneOffers(n) \/ PhoneSendsIce(n) \/ PhonePings(n)
              \/ PhoneAnswered(n) \/ PhoneCandidate(n) \/ PhoneEnds(n)
       PROVE  OfferInv' /\ OwesInv'
  <2>1. QuietRoom /\ QuietPhone /\ OwesInv' /\ UNCHANGED <<sig, offers, waiters>>
    BY <1>0, <1>15, QuietSends, QuietReceives, QuietEnds
  <2>2. QED BY <1>2, <2>1, QuietStep
<1>16. ASSUME NEW n \in Sockets, PhoneOffered(n) PROVE OfferInv' /\ OwesInv'
  <2>1. OfferInv' /\ (phone'[n].at = "answering" => phone'[n].owes # 0)
    BY <1>0, <1>16, TakesOffer
  <2>2. \A m \in Sockets \ {n} : phone'[m] = phone[m]
    BY <1>0, <1>16 DEF PhoneOffered, PhoneInv
  <2>3. QED BY <2>1, <2>2 DEF OwesInv
<1>17. ASSUME NEW n \in Sockets, PhoneAnswers(n) PROVE OfferInv' /\ OwesInv'
  <2>1. OfferInv'
    BY <1>0, <1>17, SendsAnswer
  <2>2. phone'[n].at = "open" /\ \A m \in Sockets \ {n} : phone'[m] = phone[m]
    <3>1. phone[n] \in GlueTypes
      BY <1>0 DEF PhoneInv
    <3>2. phone' = [phone EXCEPT ![n] = [phone[n] EXCEPT !.at = "open", !.sig = "stable",
                                                         !.owes = 0]]
      BY <1>0, <1>17 DEF PhoneAnswers, PhoneInv
    <3>3. [phone[n] EXCEPT !.at = "open", !.sig = "stable", !.owes = 0].at = "open"
      BY <3>1 DEF GlueTypes
    <3>4. QED BY <1>0, <3>2, <3>3 DEF PhoneInv
  <2>3. QED BY <2>1, <2>2 DEF OwesInv
<1>18. QED
  BY <1>3, <1>4, <1>5, <1>6, <1>7, <1>8, <1>9, <1>10, <1>11, <1>12, <1>13, <1>14, <1>15, <1>16,
     <1>17 DEF Next, MacReceives

\* An answer that the Mac reads answers the offer it has out: however late it comes, it
\* never meets a later offer or none.
THEOREM AnswersFit == Spec => []AnswersMatch
<1>1. Init => GlueInv /\ OfferInv /\ OwesInv
  BY InitRoom, InitEnds, InitOffer DEF GlueInv
<1>2. OfferInv /\ OwesInv /\ GlueInv /\ [Next]_vars => OfferInv' /\ OwesInv'
  BY StepOffer
<1>3. OfferInv => AnswersMatch
  <2> SUFFICES ASSUME OfferInv, NEW i \in DOMAIN down["mac"][1],
                      down["mac"][1][i].kind = "answer"
               PROVE  sig = "local" /\ down["mac"][1][i].of = offers
    BY DEF AnswersMatch
  <2>1. ~BackClear
    BY DEF BackClear, None
  <2>2. sig = "local" /\ ComesBack
    BY <2>1 DEF OfferInv, Settled, InHand, InRoom, AtPhone
  <2>3. QED BY <2>2 DEF ComesBack, One
<1>4. QED BY <1>1, <1>2, <1>3, InvAlways, PTL DEF Spec

------------------------------------------------------------------------------
(* The way of an ICE restart's offer to the lock.                             *)

PlaceIn(w, o) == CHOOSE i \in DOMAIN w : w[i].frame = Frame("offer", o)

LEMMA PlaceIs ==
  ASSUME NEW w, NEW of, OneWish(w, of), NEW o,
         NEW i \in DOMAIN w, w[i].frame = Frame("offer", o)
  PROVE  PlaceIn(w, o) = i
<1>1. Frame("offer", o).kind = "offer"
  BY DEF Frame
<1>2. \A j \in DOMAIN w : w[j].frame = Frame("offer", o) => j = i
  BY <1>1 DEF OneWish
<1>3. QED BY <1>2 DEF PlaceIn

\* Whoever has the lock leaves the queue, or queues up again behind the others.
LEMMA ComesNearer ==
  ASSUME NEW w \in Seq(Wishes), w # <<>>, NEW of, OneWish(w, of), NEW o,
         NEW v \in {Tail(w), Append(Tail(w), Receive)},
         \E i \in DOMAIN w : w[i].frame = Frame("offer", o),
         \E i \in DOMAIN v : v[i].frame = Frame("offer", o)
  PROVE  PlaceIn(v, o) < PlaceIn(w, o)
<1>1. Frame("offer", o).kind = "offer"
  BY DEF Frame
<1>2. PICK i \in DOMAIN w : w[i].frame = Frame("offer", o)
  OBVIOUS
<1>3. Receive \in Wishes /\ Receive.frame.kind # "offer"
  BY WishTypes, FrameTypes DEF Receive, Wants, Kinds
<1>4. Tail(w) \in Seq(Wishes)
  BY HeadTailProperties
<1>5. OneWish(v, of) /\ (NoWish(Tail(w)) => NoWish(v))
  BY <1>3, <1>4, TailWish, AppendWish
<1>6. /\ DOMAIN w = 1..Len(w) /\ Len(w) \in Nat \ {0} /\ Head(w) = w[1]
      /\ Len(Tail(w)) = Len(w) - 1 /\ DOMAIN Tail(w) = 1..(Len(w) - 1)
      /\ \A j \in 1..(Len(w) - 1) : Tail(w)[j] = w[j + 1]
  BY EmptySeq, HeadTailProperties
<1>7. i # 1
  <2>1. ~NoWish(v)
    BY <1>1 DEF NoWish
  <2>2. ~NoWish(Tail(w))
    BY <1>5, <2>1
  <2>3. Head(w).frame.kind # "offer"
    BY <2>2, TailWish
  <2>4. QED BY <1>1, <1>2, <1>6, <2>3
<1>8. i - 1 \in DOMAIN Tail(w) /\ Tail(w)[i - 1] = w[i]
  BY <1>2, <1>6, <1>7
<1>9. i - 1 \in DOMAIN v /\ v[i - 1] = w[i]
  <2>1. CASE v = Tail(w)
    BY <1>8, <2>1
  <2>2. CASE v = Append(Tail(w), Receive)
    BY <1>3, <1>4, <1>6, <1>8, <2>2
  <2>3. QED BY <2>1, <2>2
<1>10. PlaceIn(v, o) = i - 1 /\ PlaceIn(w, o) = i
  BY <1>2, <1>5, <1>9, PlaceIs
<1>11. QED BY <1>6, <1>10

\* What only the Mac itself takes from its socket.
LEMMA OthersDoNotRead ==
  ASSUME RoomTypes, NEW d \in Devices, NEW n \in Sockets,
         \/ UNCHANGED <<client, down>>
         \/ Accept(d) \/ CloseEnd(d, n)
         \/ \E frame \in Frames : Relay("ios", n, frame)
         \/ Read("ios", n)
  PROVE  ~MacReads
<1>0. /\ "mac" \in Devices /\ "ios" \in Devices /\ 1 \in Sockets /\ "mac" # "ios"
      /\ Other("ios") = "mac"
  BY SocketsAssumption DEF Devices, Other, Sockets
<1>1. /\ \A e \in Devices : down[e] \in [Sockets -> Seq(Frames)]
      /\ down["mac"][1] \in Seq(Frames) /\ Len(down["mac"][1]) \in Nat
  BY <1>0 DEF RoomTypes, RoomTypeOK
<1>2. CASE UNCHANGED down
  BY <1>1, <1>2 DEF MacReads
<1>3. CASE CloseEnd(d, n)
  <2>1. CASE d = "mac" /\ n = 1
    <3>1. client' = [client EXCEPT !["mac"] = [client["mac"] EXCEPT ![1] = "closed"]]
      BY <1>3, <2>1 DEF CloseEnd
    <3>2. client'["mac"][1] = "closed"
      BY <1>0, <3>1 DEF RoomTypes, RoomTypeOK
    <3>3. QED BY <3>2 DEF MacReads
  <2>2. CASE ~(d = "mac" /\ n = 1)
    <3>1. down' = [down EXCEPT ![d] = [down[d] EXCEPT ![n] = <<>>]]
      BY <1>3 DEF CloseEnd
    <3>2. down'["mac"][1] = down["mac"][1]
      BY <1>0, <1>1, <2>2, <3>1 DEF RoomTypes, RoomTypeOK
    <3>3. QED BY <1>1, <3>2 DEF MacReads
  <2>3. QED BY <2>1, <2>2
<1>4. ASSUME NEW frame \in Frames, Relay("ios", n, frame) PROVE ~MacReads
  <2>1. ASSUME NEW to \in Sockets,
               down' = [down EXCEPT !["mac"][to] = Append(down["mac"][to], frame)]
        PROVE  ~MacReads
    <3>1. down' = [down EXCEPT !["mac"] =
                     [down["mac"] EXCEPT ![to] = Append(down["mac"][to], frame)]]
      BY <2>1
    <3>2. down'["mac"][1] = IF to = 1 THEN Append(down["mac"][1], frame) ELSE down["mac"][1]
      BY <1>0, <1>1, <3>1 DEF RoomTypes, RoomTypeOK
    <3>3. Len(Append(down["mac"][1], frame)) = Len(down["mac"][1]) + 1
      BY <1>1
    <3>4. QED BY <1>1, <3>2, <3>3 DEF MacReads
  <2>2. QED BY <1>0, <1>2, <1>4, <2>1, RelayDown
<1>5. CASE Read("ios", n)
  <2>1. down' = [down EXCEPT !["ios"] = [down["ios"] EXCEPT ![n] = Tail(down["ios"][n])]]
    BY <1>5 DEF Read
  <2>2. down'["mac"] = down["mac"]
    BY <1>0, <2>1 DEF RoomTypes, RoomTypeOK
  <2>3. QED BY <1>1, <2>2 DEF MacReads
<1>6. QED BY <1>2, <1>3, <1>4, <1>5 DEF Accept

LEMMA QueueMoves ==
  ASSUME RoomTypes, MacTypes, PhoneInv, EarlyInv, sig = "local", [Next]_vars
  PROVE  \/ UNCHANGED waiters /\ ~MacReads
         \/ waiters # <<>> /\ waiters' \in {Tail(waiters), Append(Tail(waiters), Receive)}
<1> DEFINE Stays == UNCHANGED waiters /\ ~MacReads
           Moves == waiters # <<>> /\ waiters' \in {Tail(waiters), Append(Tail(waiters), Receive)}
<1>0. "mac" \in Devices /\ "ios" \in Devices /\ 1 \in Sockets
  BY SocketsAssumption DEF Devices, Sockets
<1>1. CASE Send \/ SendFails \/ MacReceives
  BY <1>1 DEF Send, SendFails, MacReceives, MacAnswered, MacOffered, MacCandidate, MacSkips,
              MacCloses, Receives, GoesOn, Fails
<1>2. CASE MakeOffer \/ MakeAnswer
  BY <1>2 DEF MakeOffer, MakeAnswer, EarlyInv
<1>3. CASE \/ Restart \/ PathUp \/ PathDown \/ Beat \/ StopHeartbeat \/ Ack \/ UNCHANGED vars
           \/ \E d \in Devices, n \in Sockets : RoomSeesClose(d, n)
  <2>1. UNCHANGED <<waiters, client, down>>
    BY <1>3 DEF Restart, RestartIce, PathUp, PathDown, Beat, StopHeartbeat, Ack, RoomSeesClose,
                CloseListener
  <2>2. QED BY <1>0, <2>1, OthersDoNotRead
<1>4. CASE MacConnects \/ PhoneConnects \/ PhoneDialsPing
  <2>1. UNCHANGED waiters /\ \E d \in Devices : Accept(d)
    BY <1>0, <1>4 DEF MacConnects, PhoneConnects, PhoneDialsPing, Dial, PhoneOnly
  <2>2. QED BY <1>0, <2>1, OthersDoNotRead
<1>5. ASSUME NEW n \in Sockets, PhoneOffers(n) \/ PhoneSendsIce(n) \/ PhonePings(n) PROVE Stays
  <2>1. PICK k \in Kinds : Relay("ios", n, Frame(k, 0)) /\ UNCHANGED waiters
    BY <1>5 DEF PhoneOffers, PhoneSendsIce, PhonePings, Sends, PhoneOnly, Kinds
  <2>2. QED BY <1>0, <2>1, FrameTypes, OthersDoNotRead
<1>6. ASSUME NEW n \in Sockets, PhoneAnswered(n) \/ PhoneOffered(n) \/ PhoneCandidate(n) PROVE Stays
  <2>1. Read("ios", n) /\ UNCHANGED waiters
    BY <1>6 DEF PhoneAnswered, PhoneOffered, PhoneCandidate, PhoneReceives, PhoneOnly
  <2>2. QED BY <1>0, <2>1, OthersDoNotRead
<1>7. ASSUME NEW n \in Sockets, PhoneAnswers(n) PROVE Stays
  <2>1. Frame("answer", phone[n].owes) \in Frames
    BY FrameTypes DEF PhoneInv, GlueTypes, Kinds
  <2>2. \/ UNCHANGED <<client, down>>
        \/ Relay("ios", n, Frame("answer", phone[n].owes))
    BY <1>7 DEF PhoneAnswers
  <2>3. UNCHANGED waiters
    BY <1>7 DEF PhoneAnswers, PhoneOnly
  <2>4. QED BY <1>0, <2>1, <2>2, <2>3, OthersDoNotRead
<1>8. ASSUME NEW n \in Sockets, PhoneEnds(n) PROVE Stays
  <2>1. CloseEnd("ios", n) /\ UNCHANGED waiters
    BY <1>8 DEF PhoneEnds, PhoneOnly
  <2>2. QED BY <1>0, <2>1, OthersDoNotRead
<1>9. ASSUME NEW d \in Devices, NetworkLost(d) PROVE Stays
  <2>1. accepted[d] \in Sockets /\ CloseEnd(d, accepted[d]) /\ UNCHANGED waiters
    BY <1>9, SocketsAssumption DEF NetworkLost, RoomTypes, RoomTypeOK, Sockets
  <2>2. QED BY <2>1, OthersDoNotRead
<1>10. QED
  BY <1>1, <1>2, <1>3, <1>4, <1>5, <1>6, <1>7, <1>8, <1>9 DEF Next

\* An ICE restart's offer is never overtaken on its way to the lock, and comes nearer to it
\* with each frame the receive loop reads.
THEOREM LockIsFair == Spec => NobodyOvertakes
<1> DEFINE Nearer ==
      \A o \in Offers \ {0, 1} :
        Waiting(o) /\ Waiting(o)' =>
          /\ Place(o)' <= Place(o)
          /\ MacReads => Place(o)' < Place(o)
<1>1. Init => GlueInv /\ OfferInv /\ OwesInv
  BY InitRoom, InitEnds, InitOffer DEF GlueInv
<1>2. OfferInv /\ OwesInv /\ GlueInv /\ [Next]_vars => OfferInv' /\ OwesInv'
  BY StepOffer
<1>3. GlueInv /\ OfferInv /\ [Next]_vars => [Nearer]_vars
  <2> SUFFICES ASSUME GlueInv, OfferInv, [Next]_vars,
                      NEW o \in Offers \ {0, 1}, Waiting(o), Waiting(o)'
               PROVE  Place(o)' <= Place(o) /\ (MacReads => Place(o)' < Place(o))
    OBVIOUS
  <2>1. /\ Place(o) = PlaceIn(waiters, o) /\ Place(o)' = PlaceIn(waiters', o)
        /\ \E i \in DOMAIN waiters : waiters[i].frame = Frame("offer", o)
        /\ \E i \in DOMAIN waiters' : waiters'[i].frame = Frame("offer", o)
    BY DEF Place, PlaceIn, Waiting
  <2>2. sig = "local" /\ OneWish(waiters, offers)
    <3>1. ~NoWish(waiters)
      BY <2>1 DEF NoWish, Frame
    <3>2. QED BY <3>1 DEF OfferInv, Settled, InHand, InRoom, AtPhone, ComesBack
  <2>3. waiters \in Seq(Wishes) /\ PlaceIn(waiters, o) \in Nat
    <3>1. waiters \in Seq(Wishes)
      BY DEF GlueInv, MacTypes
    <3>2. PICK i \in DOMAIN waiters : waiters[i].frame = Frame("offer", o)
      BY <2>1
    <3>3. PlaceIn(waiters, o) = i
      BY <2>2, <3>2, PlaceIs
    <3>4. QED BY <3>1, <3>3
  <2>4. CASE UNCHANGED waiters /\ ~MacReads
    BY <2>1, <2>3, <2>4
  <2>5. CASE waiters # <<>> /\ waiters' \in {Tail(waiters), Append(Tail(waiters), Receive)}
    <3>1. PlaceIn(waiters', o) < PlaceIn(waiters, o)
      BY <2>1, <2>2, <2>3, <2>5, ComesNearer
    <3>2. PlaceIn(waiters', o) \in Int
      <4>1. OneWish(waiters', offers)
        BY <2>2, <2>5, QuietTail DEF QuietWaiters, GlueInv
      <4>2. PICK i \in DOMAIN waiters' : waiters'[i].frame = Frame("offer", o)
        BY <2>1
      <4>3. PlaceIn(waiters', o) = i
        BY <4>1, <4>2, PlaceIs
      <4>4. waiters' \in Seq(Wishes)
        BY <2>5, FirstWish, WishTypes DEF GlueInv
      <4>5. QED BY <4>3, <4>4
    <3>3. QED BY <2>1, <2>3, <3>1, <3>2
  <2>6. QED BY <2>2, <2>4, <2>5, QueueMoves DEF GlueInv
<1>4. NobodyOvertakes <=> [][Nearer]_vars
  BY DEF NobodyOvertakes
<1>5. QED BY <1>1, <1>2, <1>3, <1>4, InvAlways, PTL DEF Spec
============================================================================
