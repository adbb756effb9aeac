-------------------------------- MODULE Glue --------------------------------
(* The two ends of a WebRTC connection and the signaling between them:        *)
(* run_glue of the Mac (rtc_glue.rs) with its signaling lock, heartbeat and   *)
(* ICE restarts, and the phone's glues (RtcGlue.swift), a new one for each    *)
(* press of Connect.  The Mac connects once.  A glue of the phone has the     *)
(* number of its socket.                                                      *)
EXTENDS SignalingRoom

CONSTANTS
  MaxMisses,    \* bound: heartbeats that are found missed
  MaxOutages    \* bound: outages of the media path and of the phone's network

ASSUME MishapsAssumption == MaxMisses \in Nat /\ MaxOutages \in Nat

Kinds == {"offer", "answer", "ice", "ping", "receive"}
Offers == 0..(1 + MaxMisses)    \* the Mac's; 0: none
Frames == [kind : Kinds, of : Offers]
Frame(kind, offer) == [kind |-> kind, of |-> offer]

VARIABLES
  main,         \* where run_glue is
  sig,          \* signaling state of the Mac's peer connection
  remote,       \* has it a remote description
  offers,       \* how many offers the Mac has made
  waiters,      \* who wants the signaling lock, in order; the head has it
  heartbeat,    \* the heartbeat task
  misses,       \* what miss_rx holds
  missed,       \* how many were ever sent to it
  silence,      \* heartbeats sent since the last ack, miss or start
  path,         \* do messages get through between the peer connections
  outages,
  phone         \* the phone's glues

macVars == <<main, sig, remote, offers, waiters>>
beatVars == <<heartbeat, misses, missed, silence>>
pathVars == <<path, outages>>
vars == <<roomVars, macVars, beatVars, pathVars, phone>>

NoGlue == [at |-> "none", sig |-> "stable", remote |-> FALSE, set |-> FALSE,
           pending |-> 0, ice |-> FALSE, owes |-> 0]

Init ==
  /\ RoomInit
  /\ main = "idle" /\ sig = "stable" /\ remote = FALSE /\ offers = 0 /\ waiters = <<>>
  /\ heartbeat = [at |-> "off", age |-> 0, acked |-> FALSE, asked |-> FALSE]
  /\ misses = 0 /\ missed = 0 /\ silence = [beats |-> 0, since |-> "start"]
  /\ path = FALSE /\ outages = 0
  /\ phone = [n \in Sockets |-> NoGlue]

------------------------------------------------------------------------------
(* The Mac: run_glue.  The tokio mutex around the signaling client is fair.   *)

MacOnly == UNCHANGED <<beatVars, pathVars, phone>>

Wants(by, frame) == [by |-> by, frame |-> frame]
Receive == Wants("main", Frame("receive", 0))
Ice == Wants("task", Frame("ice", 0))

\* The TURN servers are fetched and, after its retries, the signaling client is
\* connected.
MacConnects ==
  /\ main = "idle" /\ main' = "offering"
  /\ Accept("mac")
  /\ UNCHANGED <<sig, remote, offers, waiters>> /\ MacOnly

\* create_offer: while it gathers, a task for each candidate asks for the lock.
CreateOffer(by) ==
  /\ sig' = "local" /\ offers' = offers + 1
  /\ waiters' = waiters \o <<Ice, Wants(by, Frame("offer", offers'))>>

MakeOffer ==
  /\ main = "offering" /\ main' = "sending"
  /\ CreateOffer("main")
  /\ UNCHANGED <<remote, roomVars>> /\ MacOnly

\* The one whose turn it is sends.  After its own frames, run_glue receives.
Send ==
  /\ waiters # <<>> /\ Head(waiters).frame.kind # "receive"
  /\ client["mac"][1] = "open"
  /\ IF Head(waiters).by = "main"
     THEN main' = "receiving" /\ waiters' = Append(Tail(waiters), Receive)
     ELSE main' = main /\ waiters' = Tail(waiters)
  /\ Relay("mac", 1, Head(waiters).frame)
  /\ UNCHANGED <<sig, remote, offers>> /\ MacOnly

\* The send of run_glue itself may find that its socket is closed.
SendFails ==
  /\ waiters # <<>> /\ Head(waiters).frame.kind # "receive"
  /\ client["mac"][1] = "closed"
  /\ main' = IF Head(waiters).by = "main" THEN "failed" ELSE main
  /\ waiters' = Tail(waiters)
  /\ UNCHANGED <<sig, remote, offers, roomVars>> /\ MacOnly

\* recv_text has the lock until the frame is there.
Receives(kind) ==
  /\ waiters # <<>> /\ Head(waiters) = Receive
  /\ Readable("mac", 1) /\ Head(down["mac"][1]).kind = kind
  /\ Read("mac", 1)

\* Mutant: the loop keeps the guard from one frame to the next.
GoesOnWithTheLock == main' = main /\ waiters' = waiters

GoesOn == main' = main /\ waiters' = Append(Tail(waiters), Receive)
\* Through `?`: the cancel flag is not set, and the tasks keep the socket open.
Fails == main' = "failed" /\ waiters' = Tail(waiters)

\* An answer is accepted only in reply to the offer that is out.
MacAnswered ==
  /\ Receives("answer")
  /\ IF sig = "local" THEN GoesOn /\ sig' = "stable" /\ remote' = TRUE
                      ELSE Fails /\ UNCHANGED <<sig, remote>>
  /\ UNCHANGED offers /\ MacOnly

\* An offer is accepted only when none is out.
MacOffered ==
  /\ Receives("offer")
  /\ IF sig = "stable"
     THEN /\ main' = "answering" /\ waiters' = Tail(waiters)
          /\ sig' = "remote" /\ remote' = TRUE
     ELSE Fails /\ UNCHANGED <<sig, remote>>
  /\ UNCHANGED offers /\ MacOnly

\* create_answer, which gathers again if the phone's offer restarts ICE.
MakeAnswer ==
  /\ main = "answering" /\ main' = "sending"
  /\ sig' = "stable"
  /\ \E candidates \in {<<>>, <<Ice>>} :
       waiters' = waiters \o candidates \o <<Wants("main", Frame("answer", 0))>>
  /\ UNCHANGED <<remote, offers, roomVars>> /\ MacOnly

\* add_ice_candidate fails while there is no remote description.
MacCandidate ==
  /\ Receives("ice")
  /\ IF remote THEN GoesOn ELSE Fails
  /\ UNCHANGED <<sig, remote, offers>> /\ MacOnly

\* A frame that is no SignalFrame.
MacSkips ==
  /\ Receives("ping") /\ GoesOn
  /\ UNCHANGED <<sig, remote, offers>> /\ MacOnly

\* recv_text fails: the loop ends and cancels the heartbeat.
MacCloses ==
  /\ waiters # <<>> /\ Head(waiters) = Receive /\ Broken("mac", 1)
  /\ main' = "closed" /\ waiters' = Tail(waiters)
  /\ CloseEnd("mac", 1)
  /\ UNCHANGED <<sig, remote, offers>> /\ MacOnly

------------------------------------------------------------------------------
(* Heartbeats.  Time is counted in intervals of 10 s; age is that of last_ack, *)
(* which a new task sets 30 s ahead, as it stands before the next tick.        *)

\* on_state_change Connected: hb_started lets it start once.
StartHeartbeat ==
  IF heartbeat.at = "off"
  THEN heartbeat' = [heartbeat EXCEPT !.at = "on", !.age = -4]
  ELSE UNCHANGED heartbeat

\* Connectivity between the peer connections comes, and comes back by itself.
PathUp ==
  /\ ~path /\ remote /\ \E n \in Sockets : phone[n].remote
  /\ path' = TRUE
  /\ StartHeartbeat
  /\ UNCHANGED <<roomVars, macVars, misses, missed, silence, outages, phone>>

PathDown ==
  /\ path /\ outages < MaxOutages
  /\ path' = FALSE /\ outages' = outages + 1
  /\ UNCHANGED <<roomVars, macVars, beatVars, phone>>

\* The miss is signalled.
Miss(miss) ==
  /\ miss => missed < MaxMisses
  /\ missed' = IF miss THEN missed + 1 ELSE missed
  /\ misses' = IF miss THEN misses + 1 ELSE misses

\* Mutant: last_ack is not reset after a miss.
BeatKeepsAge ==
  /\ heartbeat.at = "on" /\ main # "closed"
  /\ LET age == IF heartbeat.acked THEN 0 ELSE heartbeat.age + 1
         miss == age > 3
     IN /\ Miss(miss)
        /\ heartbeat' = [heartbeat EXCEPT !.age = age, !.acked = FALSE, !.asked = TRUE]
        /\ silence' = IF miss THEN [beats |-> 0, since |-> "miss"]
                              ELSE [silence EXCEPT !.beats = IF @ < 8 THEN @ + 1 ELSE @]
  /\ UNCHANGED <<roomVars, macVars, pathVars, phone>>

\* Mutant: last_ack is set by every tick.
BeatUnnoticed ==
  /\ heartbeat.at = "on" /\ main # "closed"
  /\ heartbeat' = [heartbeat EXCEPT !.age = 0, !.acked = FALSE, !.asked = TRUE]
  /\ silence' = [silence EXCEPT !.beats = IF @ < 8 THEN @ + 1 ELSE @]
  /\ UNCHANGED <<misses, missed, roomVars, macVars, pathVars, phone>>

\* A tick: the acknowledgements since the last one, the check, the next heartbeat.
\* An age of exactly 30 s falls on either side of the limit.
Beat ==
  /\ heartbeat.at = "on" /\ main # "closed"
  /\ \E miss \in BOOLEAN :
       LET age == IF heartbeat.acked THEN 0 ELSE heartbeat.age + 1 IN
       /\ age > 3 => miss
       /\ miss => age >= 3
       /\ Miss(miss)
       /\ heartbeat' = [heartbeat EXCEPT !.age = IF miss THEN 0 ELSE age,
                                         !.acked = FALSE, !.asked = TRUE]
       /\ silence' = IF miss THEN [beats |-> 0, since |-> "miss"]
                     ELSE [silence EXCEPT !.beats = IF @ < 8 THEN @ + 1 ELSE @]
  /\ UNCHANGED <<roomVars, macVars, pathVars, phone>>

\* The loop sees the cancel flag.
StopHeartbeat ==
  /\ heartbeat.at = "on" /\ main = "closed"
  /\ heartbeat' = [heartbeat EXCEPT !.at = "stopped"]
  /\ UNCHANGED <<roomVars, macVars, misses, missed, silence, pathVars, phone>>

\* The phone's acknowledgement of what came through arrives: ack_tx.
Ack ==
  /\ path /\ heartbeat.asked
  /\ heartbeat' = [heartbeat EXCEPT !.asked = FALSE, !.acked = TRUE]
  /\ silence' = [beats |-> 0, since |-> "ack"]
  /\ UNCHANGED <<roomVars, macVars, misses, missed, pathVars, phone>>

\* Mutant: a restart while an offer is out makes the next offer.
RestartInAnyState ==
  /\ misses > 0 /\ \A i \in DOMAIN waiters : waiters[i].by # "miss"
  /\ misses' = misses - 1
  /\ CreateOffer("miss")
  /\ UNCHANGED <<main, remote, roomVars, heartbeat, missed, silence, pathVars, phone>>

\* restart_ice fails while an offer is out.
RestartIce ==
  IF sig = "stable" THEN CreateOffer("miss") ELSE UNCHANGED <<sig, offers, waiters>>

\* The miss task, one restart at a time.
Restart ==
  /\ misses > 0 /\ \A i \in DOMAIN waiters : waiters[i].by # "miss"
  /\ misses' = misses - 1
  /\ RestartIce
  /\ UNCHANGED <<main, remote, roomVars, heartbeat, missed, silence, pathVars, phone>>

------------------------------------------------------------------------------
(* The phone: RtcGlue.run.                                                    *)

PhoneOnly == UNCHANGED <<macVars, beatVars, pathVars>>

\* A new SignalingClient: its socket is there.
Dial(glue) ==
  /\ Accept("ios")
  /\ phone' = [phone EXCEPT ![accepted'["ios"]] = glue]
  /\ PhoneOnly

\* createOffer has set the local description; candidates are on their way from now on.
Offering == [NoGlue EXCEPT !.at = "offering", !.sig = "local", !.ice = TRUE]

PhoneConnects == Dial(Offering)

\* PairedView.ping dials a socket of its own.
PhoneDialsPing == Dial([NoGlue EXCEPT !.at = "ping"])

Sends(n, frame) == client["ios"][n] = "open" /\ Relay("ios", n, frame)

PhoneOffers(n) ==
  /\ phone[n].at = "offering"
  /\ Sends(n, Frame("offer", 0))
  /\ phone' = [phone EXCEPT ![n].at = "open"]
  /\ PhoneOnly

\* The task of a candidate.
PhoneSendsIce(n) ==
  /\ phone[n].ice
  /\ Sends(n, Frame("ice", 0))
  /\ phone' = [phone EXCEPT ![n].ice = FALSE]
  /\ PhoneOnly

PhonePings(n) ==
  /\ phone[n].at = "ping"
  /\ Sends(n, Frame("ping", 0))
  /\ phone' = [phone EXCEPT ![n].at = "pinging"]
  /\ PhoneOnly

PhoneReceives(n, kind) ==
  /\ phone[n].at = "open" /\ Readable("ios", n)
  /\ Head(down["ios"][n]).kind = kind
  /\ Read("ios", n) /\ PhoneOnly

\* Mutant: a description is kept without the candidates that came before it.
DescribedOnly(n, state) == [phone[n] EXCEPT !.sig = state, !.remote = TRUE]

\* A remote description, and flushPendingCandidates.
Described(n, state) ==
  [phone[n] EXCEPT !.sig = state, !.remote = TRUE, !.set = TRUE, !.pending = 0]

PhoneAnswered(n) ==
  /\ PhoneReceives(n, "answer")
  /\ phone' = IF phone[n].sig = "local"
              THEN [phone EXCEPT ![n] = Described(n, "stable")] ELSE phone

\* With an offer of its own out, the phone's library refuses the Mac's, and no answer
\* can be made, or takes its own back.
PhoneOffered(n) ==
  /\ PhoneReceives(n, "offer")
  /\ \/ phone' = [phone EXCEPT ![n] =
          [Described(n, "remote") EXCEPT !.at = "answering",
                                         !.owes = Head(down["ios"][n]).of]]
     \/ phone[n].sig = "local" /\ UNCHANGED phone

PhoneAnswers(n) ==
  /\ phone[n].at = "answering"
  /\ phone' = [phone EXCEPT ![n].at = "open", ![n].sig = "stable", ![n].owes = 0]
  /\ IF client["ios"][n] = "open" THEN Relay("ios", n, Frame("answer", phone[n].owes))
                                  ELSE UNCHANGED roomVars
  /\ PhoneOnly

\* applyRemoteCandidate: kept until there is a remote description.
PhoneCandidate(n) ==
  /\ PhoneReceives(n, "ice")
  /\ phone' = IF phone[n].set THEN phone ELSE [phone EXCEPT ![n].pending = @ + 1]

\* The run loop ends with its socket, or with an offer that cannot be sent; its peer
\* connection stays.  A ping ends with the first frame, which is no answer to it.
PhoneEnds(n) ==
  /\ \/ phone[n].at \in {"open", "pinging"} /\ Broken("ios", n)
     \/ phone[n].at = "pinging" /\ Readable("ios", n)
     \/ phone[n].at \in {"offering", "ping"} /\ client["ios"][n] = "closed"
  /\ phone' = [phone EXCEPT ![n] = [NoGlue EXCEPT !.at = "ended", !.remote = phone[n].remote]]
  /\ CloseEnd("ios", n)
  /\ PhoneOnly

\* A device loses its network; the room notices later.
NetworkLost(d) ==
  /\ accepted[d] # 0 /\ client[d][accepted[d]] = "open" /\ outages < MaxOutages
  /\ outages' = outages + 1
  /\ CloseEnd(d, accepted[d])
  /\ UNCHANGED <<macVars, beatVars, path, phone>>

RoomSeesClose(d, n) == CloseListener(d, n) /\ UNCHANGED <<macVars, beatVars, pathVars, phone>>

------------------------------------------------------------------------------
MacReceives == MacAnswered \/ MacOffered \/ MacCandidate \/ MacSkips \/ MacCloses

Next ==
  \/ MacConnects \/ MakeOffer \/ MakeAnswer \/ Send \/ SendFails \/ MacReceives
  \/ PathUp \/ PathDown \/ Beat \/ StopHeartbeat \/ Ack \/ Restart
  \/ PhoneConnects \/ PhoneDialsPing
  \/ \E n \in Sockets :
       \/ PhoneOffers(n) \/ PhoneSendsIce(n) \/ PhonePings(n) \/ PhoneAnswered(n)
       \/ PhoneOffered(n) \/ PhoneAnswers(n) \/ PhoneCandidate(n) \/ PhoneEnds(n)
  \/ \E d \in Devices : NetworkLost(d) \/ \E n \in Sockets : RoomSeesClose(d, n)

Spec == Init /\ [][Next]_vars

\* The runtime goes on with the Mac's tasks, and its timer ticks.  Nothing makes the
\* phone speak or the network work.
Fairness ==
  /\ WF_vars(Send \/ SendFails) /\ WF_vars(MacReceives) /\ WF_vars(MakeAnswer)
  /\ WF_vars(Beat \/ StopHeartbeat) /\ WF_vars(Restart)

FairSpec == Spec /\ Fairness

------------------------------------------------------------------------------
(* Properties.                                                                *)

\* Every variable has its type.
TypeOK ==
  /\ RoomTypeOK(Frames)
  /\ main \in {"idle", "offering", "sending", "receiving", "answering",
               "failed", "closed"}
  /\ sig \in {"stable", "local", "remote"} /\ remote \in BOOLEAN /\ offers \in Offers
  /\ waiters \in Seq([by : {"main", "task", "miss"}, frame : Frames])
  /\ heartbeat \in [at : {"off", "on", "stopped"}, age : {-4, -3, -2, -1, 0, 1, 2, 3},
                    acked : BOOLEAN, asked : BOOLEAN]
  /\ misses \in 0..MaxMisses /\ missed \in 0..MaxMisses
  /\ silence \in [beats : 0..8, since : {"start", "ack", "miss"}]
  /\ path \in BOOLEAN /\ outages \in 0..MaxOutages
  /\ phone \in [Sockets ->
       [at : {"none", "offering", "open", "answering", "ping", "pinging", "ended"},
        sig : {"stable", "local", "remote"}, remote : BOOLEAN, set : BOOLEAN,
        pending : Nat, ice : BOOLEAN, owes : Offers]]

\* An answer on its way to the Mac answers the offer that the Mac has out: none meets
\* a later offer or a connection that is stable, however late it is.
AnswersMatch ==
  \A i \in DOMAIN down["mac"][1] :
    down["mac"][1][i].kind = "answer" => sig = "local" /\ down["mac"][1][i].of = offers

\* Once the phone has a remote description, no candidate waits for one any more.
CandidatesAreUsed ==
  \A n \in Sockets : phone[n].remote => phone[n].pending = 0

\* The heartbeat after the fourth that an acknowledgement has not followed, the third
\* after a miss and the seventh after the start is one that finds the miss.
SilenceIsNoticed ==
  silence.beats <= CASE silence.since = "start" -> 7
                     [] silence.since = "ack" -> 4
                     [] silence.since = "miss" -> 3

\* A restart is asked for in time, and only after 30 s without an acknowledgement, 60 s
\* if none has come yet, and not again within 30 s.
MissesAreTimely ==
  [][/\ SilenceIsNoticed'
     /\ missed' > missed =>
          silence.beats >= CASE silence.since = "start" -> 6
                             [] silence.since = "ack" -> 3
                             [] silence.since = "miss" -> 2]_vars

Waiting(offer) == \E i \in DOMAIN waiters : waiters[i].frame = Frame("offer", offer)

Place(offer) == CHOOSE i \in DOMAIN waiters : waiters[i].frame = Frame("offer", offer)

MacReads ==
  /\ client["mac"][1] = "open" /\ client'["mac"][1] = "open"
  /\ Len(down'["mac"][1]) < Len(down["mac"][1])

\* Nobody overtakes an ICE restart's offer on its way to the signaling lock, and the
\* receive loop lets it come nearer with each frame it reads: the loop gives up the
\* lock between two frames and queues up behind those who wait.
NobodyOvertakes ==
  [][\A o \in Offers \ {0, 1} :
       Waiting(o) /\ Waiting(o)' =>
         /\ Place(o)' <= Place(o)
         /\ MacReads => Place(o)' < Place(o)]_vars

\* "we hold the lock only while sending" (rtc_glue.rs:382): the offer of an ICE restart
\* leaves, whether the phone says anything or not.
RestartLeaves ==
  \A o \in Offers \ {0, 1} : Waiting(o) ~> ~Waiting(o)
=============================================================================
