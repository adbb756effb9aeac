--------------------------- MODULE SignalingRoom ---------------------------
(* The worker's room of a pair (signaling.ts): one socket for each of the two  *)
(* devices, the newest; what one device sends goes to the other's socket.      *)
(* The sockets of a device are numbered in the order the room accepts them.    *)
EXTENDS Integers, Sequences

CONSTANT MaxSockets     \* bound: sockets a device opens

ASSUME SocketsAssumption == MaxSockets \in Nat \ {0}

Devices == {"mac", "ios"}
Other(d) == IF d = "mac" THEN "ios" ELSE "mac"
Sockets == 1..MaxSockets

VARIABLES
  peers,      \* SignalingRoom.peers; 0: no socket
  accepted,   \* how many sockets of a device the room has accepted
  server,     \* the room's end of a socket
  client,     \* the device's end
  down        \* what the room has sent on a socket and the device has not read

roomVars == <<peers, accepted, server, client, down>>

RoomInit ==
  /\ peers = [d \in Devices |-> 0] /\ accepted = [d \in Devices |-> 0]
  /\ server = [d \in Devices |-> [n \in Sockets |-> "none"]]
  /\ client = [d \in Devices |-> [n \in Sockets |-> "none"]]
  /\ down = [d \in Devices |-> [n \in Sockets |-> <<>>]]

\* fetch, once its checks are passed: the new socket takes the old one's place.
Accept(d) ==
  LET new == accepted[d] + 1 IN
  /\ new \in Sockets
  /\ accepted' = [accepted EXCEPT ![d] = new]
  /\ peers' = [peers EXCEPT ![d] = new]
  /\ server' = [server EXCEPT ![d] = [n \in Sockets |->
       IF n = new THEN "open" ELSE IF n = peers[d] THEN "closing" ELSE @[n]]]
  /\ client' = [client EXCEPT ![d][new] = "open"]
  /\ UNCHANGED down

\* The message listener: the other device's socket of this moment gets the frame, if
\* it is open.  From a socket that the room is closing, the frame may still come.
Relay(d, n, frame) ==
  LET to == peers[Other(d)]
      there == /\ to # 0 /\ server[Other(d)][to] = "open"
               /\ client[Other(d)][to] = "open"
  IN
  /\ \/ /\ server[d][n] # "closed" /\ there
        /\ down' = [down EXCEPT ![Other(d)][to] = Append(@, frame)]
     \/ /\ server[d][n] # "open" \/ ~there
        /\ UNCHANGED down
  /\ UNCHANGED <<peers, accepted, server, client>>

\* Mutant: the socket's device loses its place whichever socket has it now.
CloseListenerOfAny(d, n) ==
  /\ \/ server[d][n] = "closing"
     \/ server[d][n] = "open" /\ client[d][n] = "closed"
  /\ server' = [server EXCEPT ![d][n] = "closed"]
  /\ peers' = [peers EXCEPT ![d] = 0]
  /\ UNCHANGED <<accepted, client, down>>

\* The close listener, some time after either end has closed the socket.
CloseListener(d, n) ==
  /\ \/ server[d][n] = "closing"
     \/ server[d][n] = "open" /\ client[d][n] = "closed"
  /\ server' = [server EXCEPT ![d][n] = "closed"]
  /\ peers' = [peers EXCEPT ![d] = IF @ = n THEN 0 ELSE @]
  /\ UNCHANGED <<accepted, client, down>>

------------------------------------------------------------------------------
(* A device's end of a socket.                                                *)

Readable(d, n) == client[d][n] = "open" /\ down[d][n] # <<>>

\* The next read fails.
Broken(d, n) ==
  \/ client[d][n] = "closed"
  \/ client[d][n] = "open" /\ server[d][n] # "open" /\ down[d][n] = <<>>

Read(d, n) ==
  /\ down' = [down EXCEPT ![d][n] = Tail(@)]
  /\ UNCHANGED <<peers, accepted, server, client>>

\* The device closes its end, or loses its network.
CloseEnd(d, n) ==
  /\ client' = [client EXCEPT ![d][n] = "closed"]
  /\ down' = [down EXCEPT ![d][n] = <<>>]
  /\ UNCHANGED <<peers, accepted, server>>

------------------------------------------------------------------------------
\* Every variable has its type.  Frames are what the users of the room send.
RoomTypeOK(Frames) ==
  /\ peers \in [Devices -> 0..MaxSockets]
  /\ accepted \in [Devices -> 0..MaxSockets]
  /\ server \in [Devices -> [Sockets -> {"none", "open", "closing", "closed"}]]
  /\ client \in [Devices -> [Sockets -> {"none", "open", "closed"}]]
  /\ down \in [Devices -> [Sockets -> Seq(Frames)]]

\* A device that is connected by its newest socket is reached there, whichever of
\* its sockets closed in the meantime (the condition of the close listener).
NewestIsReached ==
  \A d \in Devices :
    accepted[d] # 0 /\ server[d][accepted[d]] = "open" => peers[d] = accepted[d]
=============================================================================
