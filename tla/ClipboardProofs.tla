-------------------------- MODULE ClipboardProofs --------------------------
(***************************************************************************)
(* What holds of the two clipboards for every set of texts and any number  *)
(* of copies, requests and mishaps.                                        *)
(***************************************************************************)
EXTENDS Clipboard, SequenceTheorems, TLAPS

USE DEF bridgeVars, macVars, linkVars, vars

------------------------------------------------------------------------------
(* Queues.                                                                  *)

LEMMA HeadTail ==
  ASSUME NEW S, NEW s \in Seq(S), s # <<>>
  PROVE  /\ Tail(s) \in Seq(S) /\ Head(s) \in S
         /\ Len(Tail(s)) = Len(s) - 1
OBVIOUS

LEMMA LastOfTail ==
  ASSUME NEW S, NEW s \in Seq(S), s # <<>>
  PROVE  /\ Tail(s) = <<>> => s[Len(s)] = Head(s)
         /\ Tail(s) # <<>> => Tail(s)[Len(Tail(s))] = s[Len(s)]
<1> DEFINE t == Tail(s)
<1>1. /\ t \in Seq(S) /\ Len(t) = Len(s) - 1 /\ Len(t) \in Nat
      /\ \A i \in 1..Len(t) : t[i] = s[i + 1]
  BY HeadTailProperties
<1>2. Head(s) = s[1] /\ Len(s) \in Nat \ {0}
  OBVIOUS
<1> HIDE DEF t
<1>3. CASE t = <<>>
  <2>1. Len(t) = 0
    BY <1>3, EmptySeq
  <2>2. Len(s) = 1
    BY <1>1, <1>2, <2>1
  <2>3. s[Len(s)] = Head(s)
    BY <1>2, <2>2
  <2>4. QED BY <1>3, <2>3 DEF t
<1>4. CASE t # <<>>
  <2>1. Len(t) \in 1..Len(t)
    BY <1>1, <1>4, EmptySeq
  <2>2. t[Len(t)] = s[Len(s)]
    BY <1>1, <1>2, <2>1
  <2>3. QED BY <1>4, <2>2 DEF t
<1>5. QED BY <1>3, <1>4

------------------------------------------------------------------------------
(* Type correctness.                                                        *)

\* Each connection before the last has ended, and that was a mishap.
EndsAreCounted ==
  link.stale + (IF link.at = "closed" THEN 1 ELSE 0) <= done.mishaps

TypeInv == TypeOK /\ EndsAreCounted

\* A bound is used up by one.
LEMMA MishapCounts ==
  ASSUME done \in [deeds : 0..MaxDeeds, mishaps : 0..MaxMishaps],
         done.mishaps < MaxMishaps, Counts("mishaps")
  PROVE  /\ done' \in [deeds : 0..MaxDeeds, mishaps : 0..MaxMishaps]
         /\ done'.mishaps = done.mishaps + 1
BY ConstantsAssumption DEF Counts

LEMMA DeedCounts ==
  ASSUME done \in [deeds : 0..MaxDeeds, mishaps : 0..MaxMishaps],
         done.deeds < MaxDeeds, Counts("deeds")
  PROVE  /\ done' \in [deeds : 0..MaxDeeds, mishaps : 0..MaxMishaps]
         /\ done'.mishaps = done.mishaps
BY ConstantsAssumption DEF Counts

LEMMA PutsType ==
  ASSUME NEW text \in Texts \union {NoText}, NEW by \in {"mac", "phone"}, Puts(text, by)
  PROVE  board' \in [text : Texts \union {NoText}, by : {"mac", "phone"}]
BY DEF Puts

LEMMA FailsType ==
  ASSUME TypeOK, Fails
  PROVE  /\ done' \in [deeds : 0..MaxDeeds, mishaps : 0..MaxMishaps]
         /\ done'.mishaps = done.mishaps + 1 /\ board' = board
<1>1. /\ Counts("mishaps") /\ done.mishaps < MaxMishaps /\ board' = board
      /\ done \in [deeds : 0..MaxDeeds, mishaps : 0..MaxMishaps]
  BY DEF Fails, TypeOK
<1>2. QED BY <1>1, MishapCounts

\* What waits behind a text that the dispatcher takes.
LEMMA Taken ==
  ASSUME TypeOK, NEW text, Takes(text)
  PROVE  requests' \in Seq(Texts)
BY HeadTail DEF Takes, TypeOK

LEMMA InitTypes == Init => TypeInv
<1> SUFFICES ASSUME Init PROVE TypeInv
  OBVIOUS
<1> USE ConstantsAssumption DEF Init
<1>1. requests \in Seq(Texts) /\ outbound \in Seq(Texts \ TooLong)
  OBVIOUS
<1>2. phoneBoard \in (Texts \ TooLong) \union {NoText}
  OBVIOUS
<1>3. board \in [text : Texts \union {NoText}, by : {"mac", "phone"}]
  BY DEF Nobody
<1>4. /\ done \in [deeds : 0..MaxDeeds, mishaps : 0..MaxMishaps] /\ done.mishaps = 0
      /\ link \in [at : {"none", "new", "open", "closed"}, stale : 0..MaxMishaps]
      /\ link.stale = 0 /\ link.at = "none"
  OBVIOUS
<1>5. /\ poller \in [at : {"tick", "read"}, text : Texts \union {NoText}, by : {"mac", "phone"}]
      /\ poller.at = "tick" /\ poller.text = NoText
      /\ writing = NoText
      /\ lastHash = NoText /\ given = NoText /\ crossed = FALSE /\ lost = {}
  BY DEF Polling
<1> HIDE DEF Init
<1>6. TypeOK
  BY <1>1, <1>2, <1>3, <1>4, <1>5 DEF TypeOK
<1>7. QED BY <1>4, <1>6 DEF TypeInv, EndsAreCounted

LEMMA StepTypes == TypeInv /\ [Next]_vars => TypeInv'
<1> SUFFICES ASSUME TypeInv, [Next]_vars PROVE TypeInv'
  OBVIOUS
<1> USE ConstantsAssumption DEF TypeInv, EndsAreCounted
<1>0. TypeOK /\ link.stale \in Nat /\ done.mishaps \in Nat
  BY DEF TypeOK
<1>1. ASSUME NEW text \in Texts \union {NoText}, MacCopies(text) PROVE TypeInv'
  <2>1. /\ Puts(text, "mac")
        /\ UNCHANGED <<lastHash, poller, crossed, given, writing, requests, linkVars, phoneBoard>>
    BY <1>1 DEF MacCopies
  <2>2. done' \in [deeds : 0..MaxDeeds, mishaps : 0..MaxMishaps] /\ done'.mishaps = done.mishaps
    BY <1>1, DeedCounts DEF MacCopies, TypeOK
  <2>3. QED BY <2>1, <2>2, PutsType DEF TypeOK
<1>2. CASE ReadPasteboard
  BY <1>2 DEF ReadPasteboard, PollerKeeps, TypeOK
<1>3. CASE SwapHash
  <2>1. poller.text \in Texts
    BY <1>3 DEF SwapHash, TypeOK
  <2>2. outbound' \in Seq(Texts \ TooLong)
    BY <1>3, <2>1 DEF SwapHash, TypeOK
  <2>3. poller' = Polling /\ lastHash' = poller.text /\ UNCHANGED crossed /\ PollerKeeps
    BY <1>3 DEF SwapHash
  <2>4. QED BY <2>1, <2>2, <2>3 DEF PollerKeeps, Polling, TypeOK
<1>7. ASSUME NEW text \in Texts, WriteRemote(text) PROVE TypeInv'
  <2>1. requests' \in Seq(Texts) /\ Puts(text, "phone")
    BY <1>7, Taken DEF WriteRemote
  <2>2. /\ writing' = text /\ given' = text /\ crossed' \in BOOLEAN
        /\ UNCHANGED <<lastHash, done, poller, linkVars, phoneBoard>>
    BY <1>7 DEF WriteRemote, DispatcherKeeps
  <2>3. QED BY <2>1, <2>2, PutsType DEF TypeOK
<1>8. ASSUME NEW text \in Texts, WriteFails(text) PROVE TypeInv'
  <2>1. requests' \in Seq(Texts) /\ Fails
    BY <1>8, Taken DEF WriteFails
  <2>2. UNCHANGED <<lastHash, crossed, given, writing, poller, linkVars, phoneBoard>>
    BY <1>8 DEF WriteFails, DispatcherKeeps
  <2>3. QED BY <2>1, <2>2, <1>0, FailsType DEF TypeOK
<1>9. ASSUME NEW text \in Texts, WriteUnchecked(text) PROVE TypeInv'
  <2>1. requests' \in Seq(Texts) /\ Fails
    BY <1>9, Taken DEF WriteUnchecked
  <2>2. /\ writing' = text /\ given' = text /\ crossed' = TRUE
        /\ UNCHANGED <<lastHash, poller, linkVars, phoneBoard>>
    BY <1>9 DEF WriteUnchecked, DispatcherKeeps
  <2>3. QED BY <2>1, <2>2, <1>0, FailsType DEF TypeOK
<1>10. CASE StoreHash
  BY <1>10 DEF StoreHash, StoreKeeps, DispatcherKeeps, TypeOK
<1>11. CASE Connect
  BY <1>11, <1>0 DEF Connect, LinkKeeps, TypeOK
<1>12. CASE Opens
  BY <1>12 DEF Opens, LinkKeeps, TypeOK
<1>13. CASE Closes
  <2>1. done' \in [deeds : 0..MaxDeeds, mishaps : 0..MaxMishaps] /\ done'.mishaps = done.mishaps + 1
    BY <1>13, MishapCounts DEF Closes, TypeOK
  <2>2. /\ link.at # "closed" /\ link' = [link EXCEPT !.at = "closed"]
        /\ UNCHANGED <<outbound, lost, phoneBoard, macVars>>
    BY <1>13 DEF Closes, LinkKeeps
  <2>3. QED BY <1>0, <2>1, <2>2 DEF TypeOK
<1>14. CASE Carry
  <2>1. Head(outbound) \in Texts \ TooLong /\ outbound' \in Seq(Texts \ TooLong)
    BY <1>14, HeadTail DEF Carry, TypeOK
  <2>2. QED BY <1>14, <2>1 DEF Carry, HandleRemote, LinkKeeps, TypeOK
<1>15. CASE Lose
  <2>1. Head(outbound) \in Texts \ TooLong /\ outbound' \in Seq(Texts \ TooLong)
    BY <1>15, HeadTail DEF Lose, TypeOK
  <2>2. QED BY <1>15, <2>1 DEF Lose, LinkKeeps, TypeOK
<1>17. ASSUME NEW text \in Texts, SendToMac(text) PROVE TypeInv'
  <2>1. done' \in [deeds : 0..MaxDeeds, mishaps : 0..MaxMishaps] /\ done'.mishaps = done.mishaps
    BY <1>17, DeedCounts DEF SendToMac, TypeOK
  <2>2. requests' \in Seq(Texts)
    BY <1>17 DEF SendToMac, TypeOK
  <2>3. UNCHANGED <<bridgeVars, writing, linkVars, phoneBoard>>
    BY <1>17 DEF SendToMac
  <2>4. QED BY <1>0, <2>1, <2>2, <2>3 DEF TypeOK
<1>21. CASE UNCHANGED vars
  BY <1>21 DEF TypeOK
<1>22. QED
  BY <1>1, <1>2, <1>3, <1>7, <1>8, <1>9, <1>10, <1>11, <1>12, <1>13, <1>14, <1>15, <1>17,
     <1>21
  DEF Next, Poll, Dispatch

\* Every variable has its type, in every state.
THEOREM TypeCorrect == Spec => []TypeOK
<1>1. TypeInv => TypeOK
  BY DEF TypeInv
<1>2. QED BY <1>1, InitTypes, StepTypes, PTL DEF Spec

------------------------------------------------------------------------------
(* No copy is forgotten.                                                    *)

\* What was sent last, or waits to be sent, or was lost: the queue keeps the order.
SentLast(text) ==
  IF outbound = <<>> THEN text \in lost \union {phoneBoard}
  ELSE outbound[Len(outbound)] = text

\* The remembered text is accounted for, except while a write is about to replace it.
RememberedInv ==
  /\ writing # NoText => writing = given
  /\ \/ writing # NoText
     \/ lastHash \in TooLong \union {NoText, given}
     \/ SentLast(lastHash)

LEMMA InitRemembered == Init => RememberedInv
BY DEF Init, RememberedInv

LEMMA StepRemembered == TypeInv /\ RememberedInv /\ [Next]_vars => RememberedInv'
<1> SUFFICES ASSUME TypeOK, RememberedInv, [Next]_vars PROVE RememberedInv'
  BY DEF TypeInv
<1> USE ConstantsAssumption DEF RememberedInv
<1>1. ASSUME UNCHANGED <<writing, given, lastHash, outbound, lost, phoneBoard>>
      PROVE  RememberedInv'
  BY <1>1 DEF SentLast
<1>2. ASSUME NEW text \in Texts \union {NoText}, MacCopies(text) PROVE RememberedInv'
  BY <1>1, <1>2 DEF MacCopies
<1>3. CASE ReadPasteboard
  BY <1>1, <1>3 DEF ReadPasteboard, PollerKeeps
<1>4. CASE SwapHash
  <2>1. poller.text \in Texts /\ lastHash' = poller.text /\ UNCHANGED <<given, writing, lost, phoneBoard>>
    BY <1>4 DEF SwapHash, PollerKeeps, TypeOK
  <2>2. CASE poller.text = lastHash
    <3>1. outbound' = outbound /\ lastHash' = lastHash
      BY <1>4, <2>1, <2>2 DEF SwapHash
    <3>2. QED BY <1>1, <2>1, <3>1
  <2>3. CASE poller.text # lastHash /\ poller.text \in TooLong
    BY <2>1, <2>3
  <2>4. CASE poller.text # lastHash /\ poller.text \notin TooLong
    <3>1. outbound' = Append(outbound, poller.text)
      BY <1>4, <2>4 DEF SwapHash
    <3>2. outbound \in Seq(Texts \ TooLong) /\ poller.text \in Texts \ TooLong
      BY <2>1, <2>4 DEF TypeOK
    <3>3. outbound' # <<>> /\ outbound'[Len(outbound')] = poller.text
      BY <3>1, <3>2
    <3>4. QED BY <2>1, <3>3 DEF SentLast
  <2>5. QED BY <2>2, <2>3, <2>4
<1>7. ASSUME NEW text \in Texts, WriteRemote(text) PROVE RememberedInv'
  BY <1>7 DEF WriteRemote
<1>8. ASSUME NEW text \in Texts, WriteFails(text) PROVE RememberedInv'
  BY <1>1, <1>8 DEF WriteFails, DispatcherKeeps
<1>9. ASSUME NEW text \in Texts, WriteUnchecked(text) PROVE RememberedInv'
  BY <1>9 DEF WriteUnchecked
<1>10. CASE StoreHash
  BY <1>10 DEF StoreHash, StoreKeeps
<1>11. CASE Connect \/ Opens
  BY <1>1, <1>11 DEF Connect, Opens, LinkKeeps
<1>12. CASE Closes
  BY <1>1, <1>12 DEF Closes, LinkKeeps
<1>13. ASSUME Carry \/ Lose PROVE RememberedInv'
  <2>1. /\ outbound \in Seq(Texts \ TooLong) /\ outbound # <<>> /\ outbound' = Tail(outbound)
        /\ UNCHANGED <<writing, given, lastHash>>
    BY <1>13 DEF Carry, Lose, LinkKeeps, TypeOK
  <2>2. Head(outbound) \in lost' \union {phoneBoard'}
    BY <1>13 DEF Carry, Lose, HandleRemote, TypeOK
  <2>3. CASE Tail(outbound) = <<>>
    <3>1. outbound[Len(outbound)] = Head(outbound)
      BY <2>1, <2>3, LastOfTail
    <3>2. QED BY <2>1, <2>2, <2>3, <3>1 DEF SentLast
  <2>4. CASE Tail(outbound) # <<>>
    <3>1. Tail(outbound)[Len(Tail(outbound))] = outbound[Len(outbound)]
      BY <2>1, <2>4, LastOfTail
    <3>2. QED BY <2>1, <2>4, <3>1 DEF SentLast
  <2>5. QED BY <2>3, <2>4
<1>15. ASSUME NEW text \in Texts, SendToMac(text) PROVE RememberedInv'
  BY <1>1, <1>15 DEF SendToMac
<1>19. CASE UNCHANGED vars
  BY <1>1, <1>19
<1>20. QED
  BY <1>2, <1>3, <1>4, <1>7, <1>8, <1>9, <1>10, <1>11, <1>12, <1>13, <1>15, <1>19
  DEF Next, Poll, Dispatch

\* When nothing is under way, the text on the Mac's pasteboard is the last that the
\* phone got or gave, or too long, or it was lost with its connection: write_remote
\* remembers a text only when pbcopy has run, and every poll remembers what it read.
THEOREM NothingForgotten == Spec => []CopyIsKnown
<1>1. RememberedInv => CopyIsKnown
  <2> SUFFICES ASSUME RememberedInv, Quiet, board.text \notin TooLong \union lost \union {NoText}
               PROVE  board.text \in {phoneBoard, given}
    BY DEF CopyIsKnown
  <2>1. writing = NoText /\ outbound = <<>> /\ lastHash = board.text
    BY DEF Quiet
  <2>2. QED BY <2>1 DEF RememberedInv, SentLast
<1>2. QED BY <1>1, InitTypes, StepTypes, InitRemembered, StepRemembered, PTL DEF Spec

------------------------------------------------------------------------------
(* No echo without a race.                                                  *)

\* While no poll and no write overlap, a text of the phone on the pasteboard is the
\* remembered one, or is about to be; and a poll that has read it has read that one.
EchoInv ==
  \/ crossed
  \/ /\ board.by = "phone" /\ writing = NoText => lastHash = board.text
     /\ writing # NoText =>
          poller.at = "tick" /\ (board.by = "phone" => board.text = writing)
     /\ poller.at = "read" /\ poller.by = "phone" => poller.text = lastHash
     /\ poller.at = "read" /\ poller.by = "mac" => board.by = "mac"

LEMMA InitEcho == Init => EchoInv
BY DEF Init, EchoInv, Nobody, Polling

LEMMA StepEcho == TypeInv /\ EchoInv /\ [Next]_vars => EchoInv'
<1> SUFFICES ASSUME TypeOK, EchoInv, [Next]_vars PROVE EchoInv'
  BY DEF TypeInv
<1> USE ConstantsAssumption
<1>1. ASSUME UNCHANGED <<crossed, board, writing, lastHash, poller>> PROVE EchoInv'
  BY <1>1 DEF EchoInv
<1>2. ASSUME NEW text \in Texts \union {NoText}, MacCopies(text) PROVE EchoInv'
  BY <1>2 DEF MacCopies, Puts, EchoInv
<1>3. CASE ReadPasteboard
  BY <1>3 DEF ReadPasteboard, PollerKeeps, EchoInv, TypeOK
<1>4. CASE SwapHash
  BY <1>4 DEF SwapHash, PollerKeeps, Polling, EchoInv, TypeOK
<1>7. ASSUME NEW text \in Texts, WriteRemote(text) PROVE EchoInv'
  BY <1>7 DEF WriteRemote, Puts, DispatcherKeeps, EchoInv, TypeOK
<1>8. ASSUME NEW text \in Texts, WriteFails(text) PROVE EchoInv'
  BY <1>1, <1>8 DEF WriteFails, Fails, DispatcherKeeps
<1>9. ASSUME NEW text \in Texts, WriteUnchecked(text) PROVE EchoInv'
  BY <1>9 DEF WriteUnchecked, EchoInv
<1>10. CASE StoreHash
  BY <1>10 DEF StoreHash, StoreKeeps, DispatcherKeeps, EchoInv
<1>11. CASE Connect \/ Opens \/ Closes \/ Carry \/ Lose
  BY <1>1, <1>11 DEF Connect, Opens, Closes, Carry, Lose, LinkKeeps
<1>12. ASSUME NEW text \in Texts, SendToMac(text) PROVE EchoInv'
  BY <1>1, <1>12 DEF SendToMac
<1>17. CASE UNCHANGED vars
  BY <1>1, <1>17
<1>18. QED
  BY <1>2, <1>3, <1>4, <1>7, <1>8, <1>9, <1>10, <1>11, <1>12, <1>17
  DEF Next, Poll, Dispatch

\* Only a poll sends, and only a text that is not the remembered one.
LEMMA OnlyNewIsSent ==
  ASSUME TypeOK, Next, Len(outbound') > Len(outbound)
  PROVE  poller.at = "read" /\ poller.text # lastHash
<1>1. outbound \in Seq(Texts \ TooLong)
  BY DEF TypeOK
<1>2. CASE outbound' = outbound
  BY <1>1, <1>2
<1>3. CASE outbound # <<>> /\ outbound' = Tail(outbound)
  BY <1>1, <1>3, HeadTail
<1>4. CASE SwapHash /\ outbound' # outbound
  BY <1>4 DEF SwapHash
<1>5. outbound' = outbound \/ (outbound # <<>> /\ outbound' = Tail(outbound)) \/ SwapHash
  BY DEF Next, MacCopies, Poll, ReadPasteboard, PollerKeeps, Dispatch, WriteRemote,
         WriteFails, WriteUnchecked, StoreHash, StoreKeeps, DispatcherKeeps, Connect, Opens,
         Closes, Carry, Lose, SendToMac
<1>6. QED BY <1>2, <1>3, <1>4, <1>5

\* The bridge sends the phone's own text back to it only when a poll and the write
\* overlapped, or pbcopy failed and nobody looked.
THEOREM NoEchoWithoutRace == Spec => EchoNeedsRace
<1>1. TypeInv /\ EchoInv /\ [Next]_vars
        => [Len(outbound') > Len(outbound) /\ poller.by = "phone" => crossed]_vars
  <2> SUFFICES ASSUME TypeOK, EchoInv, Next, Len(outbound') > Len(outbound),
                      poller.by = "phone"
               PROVE  crossed
    BY DEF TypeInv
  <2>1. poller.at = "read" /\ poller.text # lastHash
    BY OnlyNewIsSent
  <2>2. QED BY <2>1 DEF EchoInv
<1>2. QED
  BY <1>1, InitTypes, StepTypes, InitEcho, StepEcho, PTL DEF Spec, EchoNeedsRace
======================================================================
