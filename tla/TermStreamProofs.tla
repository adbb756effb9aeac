------------------------- MODULE TermStreamProofs -------------------------
(***************************************************************************)
(* Proofs about TermStream: the types, and that the deltas and the history *)
(* lines a phone gets fit what it holds.                                   *)
(***************************************************************************)
EXTENDS TermStream, SequenceTheorems, WellFoundedInduction, TLAPS

USE DEF producerVars, vars, PhoneKeeps

------------------------------------------------------------------------------
(* Induction, over a set of numbers.                                        *)

Before == {p \in Nat \X Nat : p[1] < p[2]}

LEMMA BeforeIsWellFounded == IsWellFoundedOn(Before, Nat)
<1>1. OpToRel(<, Nat) = Before
  BY DEF OpToRel, Before
<1>2. QED BY <1>1, NatLessThanWellFounded

\* A set of numbers that has zero and the next of each of its members has them all.
LEMMA Induction ==
  ASSUME NEW S, 0 \in S, \A n \in Nat : n \in S => n + 1 \in S
  PROVE  \A n \in Nat : n \in S
<1>1. SUFFICES ASSUME NEW T, T = Nat \ S, T # {} PROVE FALSE
  OBVIOUS
<1>2. PICK x \in T : \A y \in T : ~(<<y, x>> \in Before)
  BY <1>1, BeforeIsWellFounded, WFMin
<1>3. x \in Nat /\ x # 0 /\ x - 1 \in Nat
  BY <1>1
<1>4. <<x - 1, x>> \in Before
  BY <1>3 DEF Before
<1>5. x - 1 \in S
  BY <1>1, <1>2, <1>3, <1>4
<1>6. QED BY <1>1, <1>3, <1>5

\* A set of numbers with a bound has a greatest member.
LEMMA HasGreatest ==
  ASSUME NEW bound \in Nat, NEW S \in SUBSET (0..bound), S # {}
  PROVE  \E x \in S : \A y \in S : x >= y
<1> DEFINE T == {n \in Nat : \A R \in SUBSET (0..n) :
                    R # {} => \E x \in R : \A y \in R : x >= y}
<1>1. 0 \in T
  <2> SUFFICES ASSUME NEW R \in SUBSET (0..0), R # {}
               PROVE  \E x \in R : \A y \in R : x >= y
    OBVIOUS
  <2>1. \A i \in 0..0 : i = 0
    OBVIOUS
  <2>2. R = {0}
    BY <2>1
  <2>3. QED BY <2>2
<1>2. ASSUME NEW n \in Nat, n \in T PROVE n + 1 \in T
  <2> SUFFICES ASSUME NEW R \in SUBSET (0..(n + 1)), R # {}
               PROVE  \E x \in R : \A y \in R : x >= y
    OBVIOUS
  <2>1. CASE n + 1 \in R
    BY <2>1
  <2>2. CASE n + 1 \notin R
    <3>1. R \in SUBSET (0..n)
      BY <2>2
    <3>2. QED BY <1>2, <3>1
  <2>3. QED BY <2>1, <2>2
<1> HIDE DEF T
<1>3. bound \in T
  BY <1>1, <1>2, Induction
<1>4. QED BY <1>3 DEF T

\* The greater of two numbers.
LEMMA MaxOfTwo ==
  ASSUME NEW a \in Int, NEW b \in Int
  PROVE  Max({a, b}) = IF a >= b THEN a ELSE b
<1>1. \E x \in {a, b} : \A y \in {a, b} : x >= y
  OBVIOUS
<1>2. Max({a, b}) \in {a, b} /\ \A y \in {a, b} : Max({a, b}) >= y
  BY <1>1 DEF Max
<1>3. QED BY <1>2

LEMMA MinOfTwo ==
  ASSUME NEW a \in Int, NEW b \in Int
  PROVE  Min({a, b}) = IF a <= b THEN a ELSE b
<1>1. \E x \in {a, b} : \A y \in {a, b} : x <= y
  OBVIOUS
<1>2. Min({a, b}) \in {a, b} /\ \A y \in {a, b} : Min({a, b}) <= y
  BY <1>1 DEF Min
<1>3. QED BY <1>2

------------------------------------------------------------------------------
(* Types.                                                                   *)

Histories == {lines \in Seq(1..MaxLines) : Len(lines) <= MAX_HISTORY_LINES}

Changes == UNION {[rows -> Texts] : rows \in SUBSET (1..MaxRows)}

Messages ==
  [kind : {"snapshot"}, lines : Screens]
    \union [kind : {"delta"}, lines : Changes, rows : 1..MaxRows]
    \union [kind : {"history"}, lines : Histories]
    \union [kind : {"append"}, lines : Seq(1..MaxLines)]

States ==
  [known : BOOLEAN, lines : Screens \union {NoScreen}, history : Histories,
   missing : SUBSET {"screen", "history"}]

------------------------------------------------------------------------------
(* Screens, histories, and their differences.                               *)

LEMMA ScreenFacts ==
  ASSUME NEW s
  PROVE  s \in Screens
         <=> s \in Seq(Texts) /\ Len(s) \in 1..MaxRows
<1>1. ASSUME s \in Screens PROVE s \in Seq(Texts) /\ Len(s) \in 1..MaxRows
  <2>1. PICK n \in 1..MaxRows : s \in [1..n -> Texts]
    BY <1>1 DEF Screens
  <2>2. n \in Nat
    BY ConstantsAssumption
  <2>3. QED BY <2>1, <2>2
<1>2. ASSUME s \in Seq(Texts), Len(s) \in 1..MaxRows PROVE s \in Screens
  <2>1. s \in [1..Len(s) -> Texts]
    BY <1>2
  <2>2. QED BY <1>2, <2>1 DEF Screens
<1>3. QED BY <1>1, <1>2

LEMMA ScreenIsSome ==
  ASSUME NEW s \in Screens
  PROVE  s # NoScreen
<1>1. s \in Seq(Texts) /\ Len(s) \in 1..MaxRows
  BY ScreenFacts
<1>2. Len(s) # 0
  BY <1>1, ConstantsAssumption
<1>3. QED BY <1>2, EmptySeq DEF NoScreen

\* The newest lines are a history, none of a history are lost, and some remain.
LEMMA NewestIsHistory ==
  ASSUME NEW lines \in Seq(1..MaxLines)
  PROVE  /\ Newest(lines) \in Histories
         /\ lines \in Histories => Newest(lines) = lines
         /\ lines # <<>> => Newest(lines) # <<>>
<1> DEFINE n == Len(lines) - MAX_HISTORY_LINES + 1
           first == IF n >= 1 THEN n ELSE 1
<1>1. Len(lines) \in Nat /\ MAX_HISTORY_LINES \in Nat \ {0} /\ n \in Int
  BY ConstantsAssumption
<1>2. Max({1, n}) = first
  <2>1. Max({1, n}) = IF 1 >= n THEN 1 ELSE n
    BY <1>1, MaxOfTwo
  <2>2. QED BY <1>1, <2>1
<1>3. Newest(lines) = SubSeq(lines, first, Len(lines))
  BY <1>2 DEF Newest
<1>4. first \in 1..(Len(lines) + 1)
  BY <1>1
<1> HIDE DEF first
<1>a. \A i \in first..Len(lines) : lines[i] \in 1..MaxLines
  <2>1. \A i \in first..Len(lines) : i \in 1..Len(lines)
    BY <1>1, <1>4
  <2>2. QED BY <2>1, ElementOfSeq
<1>5. /\ SubSeq(lines, first, Len(lines)) \in Seq(1..MaxLines)
      /\ Len(SubSeq(lines, first, Len(lines))) = Len(lines) - first + 1
      /\ \A i \in 1..(Len(lines) - first + 1) :
           SubSeq(lines, first, Len(lines))[i] = lines[first + i - 1]
  BY <1>1, <1>4, <1>a, SubSeqProperties
<1>6. Newest(lines) \in Histories
  <2>1. Len(lines) - first + 1 <= MAX_HISTORY_LINES
    BY <1>1 DEF first
  <2>2. QED BY <1>3, <1>5, <2>1 DEF Histories
<1>7. ASSUME lines \in Histories PROVE Newest(lines) = lines
  <2>1. first = 1
    BY <1>1, <1>7 DEF Histories, first
  <2> DEFINE part == SubSeq(lines, first, Len(lines))
  <2>2. part \in Seq(1..MaxLines) /\ Len(part) = Len(lines)
    BY <1>1, <1>5, <2>1
  <2>3. \A i \in 1..Len(part) : part[i] = lines[i]
    BY <1>1, <1>5, <2>1, <2>2
  <2> HIDE DEF part
  <2>4. part = lines
    BY <2>2, <2>3, SeqEqual
  <2>5. QED BY <1>3, <2>4 DEF part
<1>8. ASSUME lines # <<>> PROVE Newest(lines) # <<>>
  <2>1. Len(lines) >= 1
    BY <1>1, <1>8, EmptySeq
  <2>2. Len(Newest(lines)) >= 1
    <3>1. Len(lines) - first + 1 >= 1
      BY <1>1, <2>1 DEF first
    <3>2. QED BY <1>3, <1>5, <3>1
  <2>3. QED BY <2>2, EmptySeq
<1>9. QED BY <1>6, <1>7, <1>8

\* The length of a patched screen: the new number of rows, or less when neither
\* the old screen nor the changes reach that far.
LEMMA PatchLength ==
  ASSUME NEW lines \in Screens \union {NoScreen}, NEW changes \in Changes,
         NEW rows \in 1..MaxRows
  PROVE  \E greatest \in {Len(lines)} \union DOMAIN changes :
           /\ greatest \in 0..MaxRows
           /\ \A i \in {Len(lines)} \union DOMAIN changes : greatest >= i
           /\ Patch(lines, changes, rows) =
                [i \in 1..(IF rows <= greatest THEN rows ELSE greatest) |->
                   IF i \in DOMAIN changes THEN changes[i]
                   ELSE IF i \in DOMAIN lines THEN lines[i] ELSE Blank]
<1> DEFINE S == {Len(lines)} \union DOMAIN changes
<1>1. MaxRows \in Nat
  BY ConstantsAssumption
<1>2. Len(lines) \in 0..MaxRows
  <2>1. CASE lines \in Screens
    BY <1>1, <2>1, ScreenFacts
  <2>2. CASE lines = NoScreen
    BY <1>1, <2>2, EmptySeq DEF NoScreen
  <2>3. QED BY <2>1, <2>2
<1>3. DOMAIN changes \subseteq 1..MaxRows
  BY DEF Changes
<1>4. S \in SUBSET (0..MaxRows) /\ S # {}
  BY <1>1, <1>2, <1>3
<1>5. \E x \in S : \A y \in S : x >= y
  BY <1>1, <1>4, HasGreatest
<1>6. Max(S) \in S /\ \A y \in S : Max(S) >= y
  BY <1>5 DEF Max
<1>7. Max(S) \in 0..MaxRows
  BY <1>4, <1>6
<1>8. \A a, b \in Int : Min({a, b}) = IF a <= b THEN a ELSE b
  BY MinOfTwo
<1>10. rows \in Int /\ Max(S) \in Int
  BY <1>1, <1>7
<1>9. Patch(lines, changes, rows) =
        [i \in 1..(IF rows <= Max(S) THEN rows ELSE Max(S)) |->
           IF i \in DOMAIN changes THEN changes[i]
           ELSE IF i \in DOMAIN lines THEN lines[i] ELSE Blank]
  BY <1>8, <1>10 DEF Patch
<1>11. QED BY <1>6, <1>7, <1>9

LEMMA PatchIsScreen ==
  ASSUME NEW lines \in Screens \union {NoScreen}, NEW changes \in Changes,
         NEW rows \in 1..MaxRows
  PROVE  Patch(lines, changes, rows) \in Screens \union {NoScreen}
<1>1. PICK greatest \in 0..MaxRows : Patch(lines, changes, rows) =
        [i \in 1..(IF rows <= greatest THEN rows ELSE greatest) |->
           IF i \in DOMAIN changes THEN changes[i]
           ELSE IF i \in DOMAIN lines THEN lines[i] ELSE Blank]
  BY PatchLength
<1> DEFINE n == IF rows <= greatest THEN rows ELSE greatest
           Line(i) == IF i \in DOMAIN changes THEN changes[i]
                      ELSE IF i \in DOMAIN lines THEN lines[i] ELSE Blank
<1>2. n \in 0..MaxRows
  BY ConstantsAssumption
<1>3. \A i \in 1..n : Line(i) \in Texts
  <2>1. \A i \in DOMAIN changes : changes[i] \in Texts
    BY DEF Changes
  <2>2. \A i \in DOMAIN lines : lines[i] \in Texts
    BY DEF Screens, NoScreen
  <2>3. Blank \in Texts
    BY ConstantsAssumption
  <2>4. QED BY <2>1, <2>2, <2>3
<1> HIDE DEF n, Line
<1>4. [i \in 1..n |-> Line(i)] \in [1..n -> Texts]
  BY <1>3
<1>5. CASE n = 0
  <2>1. [i \in 1..n |-> Line(i)] = <<>>
    BY <1>5
  <2>2. QED BY <1>1, <2>1 DEF n, Line, NoScreen
<1>6. CASE n # 0
  <2>1. n \in 1..MaxRows
    BY <1>2, <1>6, ConstantsAssumption
  <2>2. [i \in 1..n |-> Line(i)] \in Screens
    BY <1>4, <2>1 DEF Screens
  <2>3. QED BY <1>1, <2>2 DEF n, Line
<1>7. QED BY <1>5, <1>6

LEMMA DiffIsChanges ==
  ASSUME NEW prev \in Screens, NEW next \in Screens
  PROVE  Diff(prev, next) \in Changes
<1>1. DOMAIN next = 1..Len(next) /\ Len(next) \in 1..MaxRows
      /\ \A i \in DOMAIN next : next[i] \in Texts
  BY ScreenFacts
<1> DEFINE D == {j \in DOMAIN next : j \notin DOMAIN prev \/ next[j] # prev[j]}
<1>2. D \in SUBSET (1..MaxRows)
  BY <1>1, ConstantsAssumption
<1>3. [i \in D |-> next[i]] \in [D -> Texts]
  BY <1>1
<1>4. QED BY <1>2, <1>3 DEF Changes, Diff

\* A screen that is patched with its differences from another one is that one.
LEMMA PatchOfDiff ==
  ASSUME NEW prev \in Screens, NEW next \in Screens
  PROVE  Patch(prev, Diff(prev, next), Len(next)) = next
<1> DEFINE D == {j \in DOMAIN next : j \notin DOMAIN prev \/ next[j] # prev[j]}
           changes == Diff(prev, next)
<1>1. DOMAIN next = 1..Len(next) /\ Len(next) \in 1..MaxRows
      /\ DOMAIN prev = 1..Len(prev) /\ Len(prev) \in 1..MaxRows /\ MaxRows \in Nat
  BY ScreenFacts, ConstantsAssumption
<1>2. DOMAIN changes = D /\ \A i \in D : changes[i] = next[i]
  BY DEF Diff
<1>3. changes \in Changes
  BY DiffIsChanges
<1> HIDE DEF changes
<1>4. PICK greatest \in {Len(prev)} \union DOMAIN changes :
        /\ greatest \in 0..MaxRows
        /\ \A i \in {Len(prev)} \union DOMAIN changes : greatest >= i
        /\ Patch(prev, changes, Len(next)) =
             [i \in 1..(IF Len(next) <= greatest THEN Len(next) ELSE greatest) |->
                IF i \in DOMAIN changes THEN changes[i]
                ELSE IF i \in DOMAIN prev THEN prev[i] ELSE Blank]
  BY <1>1, <1>3, PatchLength
<1>5. Len(next) <= greatest
  <2>1. CASE Len(next) <= Len(prev)
    <3>1. greatest >= Len(prev) /\ greatest \in 0..MaxRows
      BY <1>4
    <3>2. Len(prev) \in Nat /\ Len(next) \in Nat
      BY ScreenFacts
    <3>4. greatest \in Nat
      BY <3>1, ConstantsAssumption
    <3>3. QED BY <2>1, <3>1, <3>2, <3>4
  <2>2. CASE Len(next) > Len(prev)
    <3>1. Len(next) \in D
      BY <1>1, <2>2
    <3>2. QED BY <1>2, <1>4, <3>1
  <2>3. QED BY <1>1, <2>1, <2>2
<1>6. Patch(prev, changes, Len(next)) =
        [i \in 1..Len(next) |->
           IF i \in DOMAIN changes THEN changes[i]
           ELSE IF i \in DOMAIN prev THEN prev[i] ELSE Blank]
  BY <1>4, <1>5
<1>7. \A i \in 1..Len(next) :
        (IF i \in DOMAIN changes THEN changes[i]
         ELSE IF i \in DOMAIN prev THEN prev[i] ELSE Blank) = next[i]
  BY <1>1, <1>2
<1>8. next = [i \in 1..Len(next) |-> next[i]]
  BY <1>1, ScreenFacts
<1>9. QED BY <1>6, <1>7, <1>8 DEF changes

------------------------------------------------------------------------------
(* The phone.                                                               *)

LEMMA ApplyKeepsTypes ==
  ASSUME NEW st \in States, NEW m \in Messages
  PROVE  /\ Apply(st, m) \in States
         /\ Missed(st, m) \in States
<1>1. Missed(st, m) \in States
  BY DEF States, Missed, Part
<1>2. CASE m \in [kind : {"snapshot"}, lines : Screens]
  BY <1>1, <1>2 DEF States, Apply, ApplySnapshot
<1>3. CASE m \in [kind : {"delta"}, lines : Changes, rows : 1..MaxRows]
  <2>1. Patch(st.lines, m.lines, m.rows) \in Screens \union {NoScreen}
    BY <1>3, PatchIsScreen DEF States
  <2>2. CASE st.known
    BY <1>1, <1>3, <2>1, <2>2 DEF States, Apply
  <2>3. CASE ~st.known
    BY <1>1, <1>3, <2>3 DEF Apply
  <2>4. QED BY <2>2, <2>3
<1>4. CASE m \in [kind : {"history"}, lines : Histories]
  BY <1>1, <1>4 DEF States, Apply, ApplyHistory
<1>5. CASE m \in [kind : {"append"}, lines : Seq(1..MaxLines)]
  <2>1. Newest(st.history \o m.lines) \in Histories
    <3>1. st.history \o m.lines \in Seq(1..MaxLines)
      BY <1>5, ConcatProperties DEF States, Histories
    <3>2. QED BY <3>1, NewestIsHistory
  <2>2. CASE st.known
    BY <1>1, <1>5, <2>1, <2>2 DEF States, Apply
  <2>3. CASE ~st.known
    BY <1>1, <1>5, <2>3 DEF Apply
  <2>4. QED BY <2>2, <2>3
<1>6. QED BY <1>1, <1>2, <1>3, <1>4, <1>5 DEF Messages

\* What each message leaves the phone with.
IsReplay(after, st, messages) ==
  after = [i \in 0..Len(messages) |->
             IF i = 0 THEN st ELSE Apply(after[i - 1], messages[i])]

\* What the phone makes of messages is found message by message.
LEMMA ReplayedExists ==
  ASSUME NEW st, NEW messages \in Seq(Messages)
  PROVE  \E after : IsReplay(after, st, messages)
<1> DEFINE Step(f, i) == IF i = 0 THEN st ELSE Apply(f[i - 1], messages[i])
           T == {n \in Nat : \E f : f = [i \in 0..n |-> Step(f, i)]}
<1>1. 0 \in T
  <2>1. \A i \in 0..0 : i = 0
    OBVIOUS
  <2> DEFINE f == [i \in 0..0 |-> st]
  <2>2. f = [i \in 0..0 |-> Step(f, i)]
    BY <2>1
  <2>3. QED BY <2>2
<1>2. ASSUME NEW n \in Nat, n \in T PROVE n + 1 \in T
  <2>1. PICK f : f = [i \in 0..n |-> Step(f, i)]
    BY <1>2
  <2> DEFINE g == [i \in 0..(n + 1) |-> IF i = n + 1 THEN Apply(f[n], messages[n + 1]) ELSE f[i]]
  <2>2. \A i \in 0..n : g[i] = f[i]
    OBVIOUS
  <2>3. \A i \in 0..(n + 1) : g[i] = Step(g, i)
    <3> SUFFICES ASSUME NEW i \in 0..(n + 1) PROVE g[i] = Step(g, i)
      OBVIOUS
    <3>1. CASE i = n + 1
      <4>1. i # 0 /\ i - 1 = n /\ n \in 0..n
        BY <3>1
      <4>2. g[i - 1] = f[n]
        BY <2>2, <4>1
      <4>3. QED BY <3>1, <4>1, <4>2
    <3>2. CASE i = 0
      <4>1. f[0] = Step(f, 0)
        BY <2>1
      <4>2. QED BY <2>2, <3>2, <4>1
    <3>3. CASE i # n + 1 /\ i # 0
      <4>1. i \in 0..n /\ i - 1 \in 0..n
        BY <3>3
      <4>2. g[i] = f[i] /\ g[i - 1] = f[i - 1]
        BY <2>2, <4>1
      <4>3. f[i] = Step(f, i)
        BY <2>1, <4>1
      <4>4. QED BY <3>3, <4>2, <4>3
    <3>4. QED BY <3>1, <3>2, <3>3
  <2>4. g = [i \in 0..(n + 1) |-> g[i]]
    OBVIOUS
  <2> HIDE DEF g, Step
  <2>5. g = [i \in 0..(n + 1) |-> Step(g, i)]
    BY <2>3, <2>4
  <2>6. QED BY <2>5
<1> HIDE DEF T
<1>3. Len(messages) \in T
  BY <1>1, <1>2, Induction
<1>4. QED BY <1>3 DEF T, IsReplay

\* Messages that are the same up to some place leave the phone the same there.
LEMMA AgreeUpTo ==
  ASSUME NEW st, NEW messages \in Seq(Messages), NEW others \in Seq(Messages),
         NEW f, IsReplay(f, st, messages), NEW g, IsReplay(g, st, others),
         NEW n \in Nat, n <= Len(messages), n <= Len(others),
         \A i \in 1..n : messages[i] = others[i]
  PROVE  f[n] = g[n]
<1> DEFINE T == {k \in Nat : k <= n => f[k] = g[k]}
<1>0. Len(messages) \in Nat /\ Len(others) \in Nat
  OBVIOUS
<1>1. 0 \in T
  <2>1. 0 \in 0..Len(messages) /\ 0 \in 0..Len(others)
    BY <1>0
  <2>2. f[0] = st /\ g[0] = st
    BY <2>1 DEF IsReplay
  <2>3. QED BY <2>2
<1>2. ASSUME NEW k \in Nat, k \in T PROVE k + 1 \in T
  <2> SUFFICES ASSUME k + 1 <= n PROVE f[k + 1] = g[k + 1]
    OBVIOUS
  <2>1. f[k] = g[k]
    BY <1>2
  <2>2. k + 1 \in 0..Len(messages) /\ k + 1 \in 0..Len(others)
        /\ k + 1 # 0 /\ (k + 1) - 1 = k /\ k + 1 \in 1..n
    BY <1>0
  <2>3. f[k + 1] = Apply(f[k], messages[k + 1])
    BY <2>2 DEF IsReplay
  <2>4. g[k + 1] = Apply(g[k], others[k + 1])
    BY <2>2 DEF IsReplay
  <2>5. QED BY <2>1, <2>2, <2>3, <2>4
<1> HIDE DEF T
<1>3. n \in T
  BY <1>1, <1>2, Induction
<1>4. QED BY <1>3 DEF T

LEMMA ReplayedIs ==
  ASSUME NEW st, NEW messages \in Seq(Messages),
         NEW f, IsReplay(f, st, messages)
  PROVE  Replayed(st, messages) = f[Len(messages)]
<1> DEFINE g == CHOOSE after : IsReplay(after, st, messages)
<1>1. IsReplay(g, st, messages)
  BY ReplayedExists
<1>2. Replayed(st, messages) = g[Len(messages)]
  BY DEF Replayed, IsReplay
<1> HIDE DEF g
<1>3. Len(messages) \in Nat
  OBVIOUS
<1>4. f[Len(messages)] = g[Len(messages)]
  BY <1>1, <1>3, AgreeUpTo
<1>5. QED BY <1>2, <1>4

\* Nothing on its way changes nothing.
LEMMA ReplayedEmpty ==
  ASSUME NEW st
  PROVE  Replayed(st, <<>>) = st
<1> DEFINE f == [i \in 0..0 |-> st]
<1>1. <<>> \in Seq(Messages) /\ Len(<<>>) = 0
  BY EmptySeq
<1>2. \A i \in 0..0 : i = 0
  OBVIOUS
<1>3. IsReplay(f, st, <<>>)
  BY <1>1, <1>2 DEF IsReplay
<1>4. f[0] = st
  BY <1>2
<1> HIDE DEF f
<1>5. Replayed(st, <<>>) = f[Len(<<>>)]
  BY <1>1, <1>3, ReplayedIs
<1>6. QED BY <1>1, <1>4, <1>5

\* One more message is applied to what the others leave.
LEMMA ReplayedAppend ==
  ASSUME NEW st, NEW messages \in Seq(Messages), NEW m \in Messages
  PROVE  Replayed(st, Append(messages, m)) = Apply(Replayed(st, messages), m)
<1> DEFINE n == Len(messages)
           more == Append(messages, m)
<1>1. n \in Nat /\ more \in Seq(Messages) /\ Len(more) = n + 1
      /\ more[n + 1] = m /\ \A i \in 1..n : more[i] = messages[i]
  BY AppendProperties
<1>2. PICK f : IsReplay(f, st, messages)
  BY ReplayedExists
<1> HIDE DEF more
<1>3. PICK g : IsReplay(g, st, more)
  BY <1>1, ReplayedExists
<1>4. Replayed(st, messages) = f[n] /\ Replayed(st, more) = g[n + 1]
  BY <1>1, <1>2, <1>3, ReplayedIs
<1>5. f[n] = g[n]
  <2>1. n <= Len(messages) /\ n <= Len(more) /\ \A i \in 1..n : messages[i] = more[i]
    BY <1>1
  <2>2. n \in Nat /\ more \in Seq(Messages)
    BY <1>1
  <2>3. IsReplay(f, st, messages) /\ IsReplay(g, st, more)
    BY <1>2, <1>3
  <2> HIDE DEF n
  <2>4. QED BY <2>1, <2>2, <2>3, AgreeUpTo
<1>6. g[n + 1] = Apply(g[n], m)
  <2>1. n + 1 \in 0..Len(more) /\ n + 1 # 0 /\ (n + 1) - 1 = n
    BY <1>1
  <2>2. g[n + 1] = Apply(g[(n + 1) - 1], more[n + 1])
    BY <1>3, <2>1 DEF IsReplay
  <2>3. QED BY <1>1, <2>1, <2>2
<1>7. QED BY <1>4, <1>5, <1>6 DEF more

\* The first message can be applied before the others.
LEMMA ReplayedHead ==
  ASSUME NEW st, NEW messages \in Seq(Messages), messages # <<>>
  PROVE  Replayed(st, messages) = Replayed(Apply(st, Head(messages)), Tail(messages))
<1> DEFINE n == Len(messages)
           rest == Tail(messages)
<1>1. n \in Nat \ {0} /\ rest \in Seq(Messages) /\ Len(rest) = n - 1
      /\ Head(messages) = messages[1] /\ \A i \in 1..(n - 1) : rest[i] = messages[i + 1]
  BY HeadTailProperties, EmptySeq
<1>2. PICK f : IsReplay(f, st, messages)
  BY ReplayedExists
<1> HIDE DEF rest
<1>3. PICK g : IsReplay(g, Apply(st, Head(messages)), rest)
  BY <1>1, ReplayedExists
<1>4. Replayed(st, messages) = f[n]
      /\ Replayed(Apply(st, Head(messages)), rest) = g[n - 1]
  BY <1>1, <1>2, <1>3, ReplayedIs
<1> DEFINE T == {k \in Nat : k <= n - 1 => g[k] = f[k + 1]}
<1>5. 0 \in T
  <2>1. 0 \in 0..n /\ 1 \in 0..n /\ 0 \in 0..Len(rest) /\ 1 - 1 = 0
    BY <1>1
  <2>2. g[0] = Apply(st, Head(messages))
    BY <1>3, <2>1 DEF IsReplay
  <2>3. f[0] = st
    BY <1>2, <2>1 DEF IsReplay
  <2>4. f[1] = Apply(f[0], messages[1])
    BY <1>2, <2>1 DEF IsReplay
  <2>5. g[0] = f[0 + 1]
    BY <1>1, <2>2, <2>3, <2>4
  <2>6. QED BY <2>5
<1>6. ASSUME NEW k \in Nat, k \in T PROVE k + 1 \in T
  <2> SUFFICES ASSUME k + 1 <= n - 1 PROVE g[k + 1] = f[(k + 1) + 1]
    OBVIOUS
  <2>1. g[k] = f[k + 1]
    BY <1>1, <1>6
  <2>2. k + 1 \in 0..Len(rest) /\ k + 1 # 0 /\ (k + 1) - 1 = k /\ k + 1 \in 1..(n - 1)
        /\ (k + 1) + 1 \in 0..n /\ (k + 1) + 1 # 0 /\ ((k + 1) + 1) - 1 = k + 1
    BY <1>1
  <2>3. g[k + 1] = Apply(g[k], rest[k + 1])
    BY <1>3, <2>2 DEF IsReplay
  <2>4. f[(k + 1) + 1] = Apply(f[k + 1], messages[(k + 1) + 1])
    BY <1>2, <2>2 DEF IsReplay
  <2>5. rest[k + 1] = messages[(k + 1) + 1]
    BY <1>1, <2>2
  <2>6. QED BY <2>1, <2>3, <2>4, <2>5
<1> HIDE DEF T
<1>7. n - 1 \in T
  BY <1>1, <1>5, <1>6, Induction
<1>8. g[n - 1] = f[(n - 1) + 1] /\ (n - 1) + 1 = n
  BY <1>1, <1>7 DEF T
<1>9. QED BY <1>4, <1>8 DEF rest

LEMMA ReplayedKeepsTypes ==
  ASSUME NEW st \in States, NEW messages \in Seq(Messages)
  PROVE  Replayed(st, messages) \in States
<1> DEFINE n == Len(messages)
<1>1. n \in Nat
  OBVIOUS
<1>2. PICK f : IsReplay(f, st, messages)
  BY ReplayedExists
<1> DEFINE T == {k \in Nat : k <= n => f[k] \in States}
<1>3. 0 \in T
  <2>1. 0 \in 0..n
    BY <1>1
  <2>2. f[0] = st
    BY <1>2, <2>1 DEF IsReplay
  <2>3. QED BY <2>2
<1>4. ASSUME NEW k \in Nat, k \in T PROVE k + 1 \in T
  <2> SUFFICES ASSUME k + 1 <= n PROVE f[k + 1] \in States
    OBVIOUS
  <2>1. k + 1 \in 0..n /\ k + 1 # 0 /\ (k + 1) - 1 = k /\ k + 1 \in 1..n
    BY <1>1
  <2>2. f[k + 1] = Apply(f[k], messages[k + 1])
    BY <1>2, <2>1 DEF IsReplay
  <2>3. f[k] \in States
    BY <1>1, <1>4
  <2>4. messages[k + 1] \in Messages
    BY <2>1, ElementOfSeq
  <2>5. QED BY <2>2, <2>3, <2>4, ApplyKeepsTypes
<1> HIDE DEF T
<1>5. n \in T
  BY <1>1, <1>3, <1>4, Induction
<1>6. f[n] \in States
  BY <1>1, <1>5 DEF T
<1>7. QED BY <1>2, <1>6, ReplayedIs

------------------------------------------------------------------------------
(* A lost message.                                                          *)

\* One phone is behind another: what it did not miss, it shows as the other does,
\* which did not miss it either.
Behind(b, a) ==
  /\ b.known => a.known
  /\ "screen" \notin b.missing =>
       b.known /\ "screen" \notin a.missing /\ b.lines = a.lines
  /\ "history" \notin b.missing =>
       b.known /\ "history" \notin a.missing /\ b.history = a.history

\* What a phone did not miss, it got whole after a first snapshot.
WholeIsKnown(st) == st.missing # {"screen", "history"} => st.known

LEMMA LostIsBehind ==
  ASSUME NEW st \in States, NEW m \in Messages, WholeIsKnown(st)
  PROVE  Behind(Missed(st, m), Apply(st, m))
<1>1. ~("screen" \in st.missing /\ "history" \in st.missing) => st.known
  BY DEF States, WholeIsKnown
<1>2. CASE m.kind = "snapshot"
  BY <1>1, <1>2 DEF States, Behind, Missed, Part, Apply, ApplySnapshot
<1>3. CASE m.kind = "delta"
  BY <1>1, <1>3 DEF States, Behind, Missed, Part, Apply
<1>4. CASE m.kind = "history"
  BY <1>1, <1>4 DEF States, Behind, Missed, Part, Apply, ApplyHistory
<1>5. CASE m.kind = "append"
  BY <1>1, <1>5 DEF States, Behind, Missed, Part, Apply
<1>6. QED BY <1>2, <1>3, <1>4, <1>5 DEF Messages

LEMMA ApplyKeepsBehind ==
  ASSUME NEW a \in States, NEW b \in States, NEW m \in Messages, Behind(b, a)
  PROVE  Behind(Apply(b, m), Apply(a, m))
<1>2. CASE m.kind = "snapshot"
  BY <1>2 DEF States, Behind, Missed, Part, Apply, ApplySnapshot
<1>3. CASE m.kind = "delta"
  BY <1>3 DEF States, Behind, Missed, Part, Apply
<1>4. CASE m.kind = "history"
  BY <1>4 DEF States, Behind, Missed, Part, Apply, ApplyHistory
<1>5. CASE m.kind = "append"
  BY <1>5 DEF States, Behind, Missed, Part, Apply
<1>6. QED BY <1>2, <1>3, <1>4, <1>5 DEF Messages

LEMMA ReplayedKeepsBehind ==
  ASSUME NEW a \in States, NEW b \in States, Behind(b, a), NEW messages \in Seq(Messages)
  PROVE  Behind(Replayed(b, messages), Replayed(a, messages))
<1> DEFINE n == Len(messages)
<1>1. n \in Nat
  OBVIOUS
<1>2. PICK f : IsReplay(f, a, messages)
  BY ReplayedExists
<1>3. PICK g : IsReplay(g, b, messages)
  BY ReplayedExists
<1> DEFINE T == {k \in Nat : k <= n =>
                    f[k] \in States /\ g[k] \in States /\ Behind(g[k], f[k])}
<1>4. 0 \in T
  <2>1. 0 \in 0..n
    BY <1>1
  <2>2. f[0] = a /\ g[0] = b
    BY <1>2, <1>3, <2>1 DEF IsReplay
  <2>3. QED BY <2>2
<1>5. ASSUME NEW k \in Nat, k \in T PROVE k + 1 \in T
  <2> SUFFICES ASSUME k + 1 <= n
               PROVE  f[k + 1] \in States /\ g[k + 1] \in States /\ Behind(g[k + 1], f[k + 1])
    OBVIOUS
  <2>1. k + 1 \in 0..n /\ k + 1 # 0 /\ (k + 1) - 1 = k /\ k + 1 \in 1..n
    BY <1>1
  <2>2. f[k + 1] = Apply(f[k], messages[k + 1])
    BY <1>2, <2>1 DEF IsReplay
  <2>3. g[k + 1] = Apply(g[k], messages[k + 1])
    BY <1>3, <2>1 DEF IsReplay
  <2>4. f[k] \in States /\ g[k] \in States /\ Behind(g[k], f[k])
    BY <1>1, <1>5
  <2>5. messages[k + 1] \in Messages
    BY <2>1, ElementOfSeq
  <2>6. QED BY <2>2, <2>3, <2>4, <2>5, ApplyKeepsTypes, ApplyKeepsBehind
<1> HIDE DEF T
<1>6. n \in T
  BY <1>1, <1>4, <1>5, Induction
<1>7. Behind(g[n], f[n])
  BY <1>1, <1>6 DEF T
<1>8. Replayed(a, messages) = f[n] /\ Replayed(b, messages) = g[n]
  BY <1>2, <1>3, ReplayedIs
<1>9. QED BY <1>7, <1>8

\* A phone that loses the first message ends up behind one that does not.
LEMMA LosingIsBehind ==
  ASSUME NEW st \in States, WholeIsKnown(st),
         NEW messages \in Seq(Messages), messages # <<>>
  PROVE  Behind(Replayed(Missed(st, Head(messages)), Tail(messages)),
                Replayed(st, messages))
<1>1. Head(messages) \in Messages /\ Tail(messages) \in Seq(Messages)
  BY HeadTailProperties
<1>2. Behind(Missed(st, Head(messages)), Apply(st, Head(messages)))
  BY <1>1, LostIsBehind
<1>3. Missed(st, Head(messages)) \in States /\ Apply(st, Head(messages)) \in States
  BY <1>1, ApplyKeepsTypes
<1>4. Behind(Replayed(Missed(st, Head(messages)), Tail(messages)),
             Replayed(Apply(st, Head(messages)), Tail(messages)))
  BY <1>1, <1>2, <1>3, ReplayedKeepsBehind
<1>5. QED BY <1>4, ReplayedHead

LEMMA WholeStaysKnown ==
  ASSUME NEW st \in States, NEW m \in Messages, WholeIsKnown(st)
  PROVE  WholeIsKnown(Apply(st, m)) /\ WholeIsKnown(Missed(st, m))
<1>1. WholeIsKnown(Missed(st, m))
  BY DEF States, WholeIsKnown, Missed, Part
<1>2. CASE m.kind = "snapshot"
  BY <1>1, <1>2 DEF States, WholeIsKnown, Apply, ApplySnapshot
<1>3. CASE m.kind = "delta"
  BY <1>1, <1>3 DEF States, WholeIsKnown, Apply
<1>4. CASE m.kind = "history"
  BY <1>1, <1>4 DEF States, WholeIsKnown, Apply, ApplyHistory
<1>5. CASE m.kind = "append"
  BY <1>1, <1>5 DEF States, WholeIsKnown, Apply
<1>6. QED BY <1>1, <1>2, <1>3, <1>4, <1>5 DEF Messages

\* What the phone makes of each message the producer sends.
LEMMA OfSnapshot ==
  ASSUME NEW st \in States, NEW s \in Screens
  PROVE  /\ Snapshot(s) \in Messages
         /\ Apply(st, Snapshot(s)).lines = s
         /\ Apply(st, Snapshot(s)).history = st.history
         /\ "history" \in Apply(st, Snapshot(s)).missing <=> "history" \in st.missing
<1>1. Snapshot(s) \in Messages
  BY DEF Snapshot, Messages
<1>2. Apply(st, Snapshot(s)) = [st EXCEPT !.known = TRUE, !.lines = s,
                                          !.missing = @ \ {"screen"}]
  BY DEF Snapshot, Apply, ApplySnapshot
<1>3. QED BY <1>1, <1>2 DEF States

LEMMA OfDelta ==
  ASSUME NEW st \in States, NEW prev \in Screens, NEW next \in Screens
  PROVE  /\ Delta(prev, next) \in Messages
         /\ "screen" \notin Apply(st, Delta(prev, next)).missing =>
              "screen" \notin st.missing
              /\ (st.lines = prev => Apply(st, Delta(prev, next)).lines = next)
         /\ Apply(st, Delta(prev, next)).history = st.history
         /\ "history" \in Apply(st, Delta(prev, next)).missing
              <=> "history" \in st.missing
<1> DEFINE m == Delta(prev, next)
<1>1. m \in Messages
  <2>1. Diff(prev, next) \in Changes /\ Len(next) \in 1..MaxRows
    BY DiffIsChanges, ScreenFacts
  <2>2. m \in [kind : {"delta"}, lines : Changes, rows : 1..MaxRows]
    BY <2>1 DEF Delta
  <2>3. QED BY <2>2 DEF Messages
<1>2. m.kind = "delta" /\ m.lines = Diff(prev, next) /\ m.rows = Len(next)
  BY DEF Delta
<1> HIDE DEF m
<1>3. CASE st.known
  <2>1. Apply(st, m) = [st EXCEPT !.lines = Patch(st.lines, Diff(prev, next), Len(next))]
    BY <1>2, <1>3 DEF Apply
  <2>2. Patch(prev, Diff(prev, next), Len(next)) = next
    BY PatchOfDiff
  <2>3. QED BY <1>1, <2>1, <2>2 DEF States, m
<1>4. CASE ~st.known
  <2>1. Apply(st, m) = [st EXCEPT !.missing = st.missing \union {"screen"}]
    BY <1>2, <1>4 DEF Apply, Missed, Part
  <2>2. QED BY <1>1, <2>1 DEF States, m
<1>5. QED BY <1>3, <1>4

LEMMA OfHistory ==
  ASSUME NEW st \in States, NEW lines \in Histories
  PROVE  /\ HistorySnapshot(lines) \in Messages
         /\ "history" \notin Apply(st, HistorySnapshot(lines)).missing =>
              Apply(st, HistorySnapshot(lines)).history = lines
         /\ Apply(st, HistorySnapshot(lines)).lines = st.lines
         /\ "screen" \in Apply(st, HistorySnapshot(lines)).missing
              <=> "screen" \in st.missing
<1> DEFINE m == HistorySnapshot(lines)
<1>1. m \in Messages
  BY DEF HistorySnapshot, Messages
<1>2. m.kind = "history" /\ m.lines = lines
  BY DEF HistorySnapshot
<1> HIDE DEF m
<1>3. CASE st.known
  <2>1. Apply(st, m) = [st EXCEPT !.history = lines, !.missing = st.missing \ {"history"}]
    BY <1>2, <1>3 DEF Apply, ApplyHistory
  <2>2. QED BY <1>1, <2>1 DEF States, m
<1>4. CASE ~st.known
  <2>1. Apply(st, m) = [st EXCEPT !.missing = st.missing \union {"history"}]
    BY <1>2, <1>4 DEF Apply, Missed, Part
  <2>2. QED BY <1>1, <2>1 DEF States, m
<1>5. QED BY <1>3, <1>4

LEMMA OfAppend ==
  ASSUME NEW st \in States, NEW lines \in Seq(1..MaxLines)
  PROVE  /\ HistoryAppend(lines) \in Messages
         /\ "history" \notin Apply(st, HistoryAppend(lines)).missing =>
              "history" \notin st.missing
              /\ Apply(st, HistoryAppend(lines)).history = Newest(st.history \o lines)
         /\ Apply(st, HistoryAppend(lines)).lines = st.lines
         /\ "screen" \in Apply(st, HistoryAppend(lines)).missing
              <=> "screen" \in st.missing
<1> DEFINE m == HistoryAppend(lines)
<1>1. m \in Messages
  BY DEF HistoryAppend, Messages
<1>2. m.kind = "append" /\ m.lines = lines
  BY DEF HistoryAppend
<1> HIDE DEF m
<1>3. CASE st.known
  <2>1. Apply(st, m) = [st EXCEPT !.history = Newest(st.history \o lines)]
    BY <1>2, <1>3 DEF Apply
  <2>2. QED BY <1>1, <2>1 DEF States, m
<1>4. CASE ~st.known
  <2>1. Apply(st, m) = [st EXCEPT !.missing = st.missing \union {"history"}]
    BY <1>2, <1>4 DEF Apply, Missed, Part
  <2>2. QED BY <1>1, <2>1 DEF States, m
<1>5. QED BY <1>3, <1>4

\* A message is sent by adding it to what is on its way.
LEMMA ReplayedSent ==
  ASSUME NEW st \in States, NEW messages \in Seq(Messages), NEW m \in Messages
  PROVE  /\ messages \o <<m>> \in Seq(Messages)
         /\ Replayed(st, messages \o <<m>>) = Apply(Replayed(st, messages), m)
         /\ Replayed(st, messages) \in States
<1>1. messages \o <<m>> = Append(messages, m)
  BY AppendIsConcat
<1>2. Append(messages, m) \in Seq(Messages)
  BY AppendProperties
<1>3. Replayed(st, Append(messages, m)) = Apply(Replayed(st, messages), m)
  BY ReplayedAppend
<1>4. Replayed(st, messages) \in States
  BY ReplayedKeepsTypes
<1>5. QED BY <1>1, <1>2, <1>3, <1>4

------------------------------------------------------------------------------
(* The inductive invariant.                                                 *)

Types ==
  /\ running \in BOOLEAN /\ streaming \in BOOLEAN /\ link \in BOOLEAN
  /\ screen \in Screens /\ last \in Screens \union {NoScreen}
  /\ history \in Histories
  /\ written \in 0..MaxLines /\ drops \in 0..MaxDrops
  /\ wire \in Seq(Messages) /\ phone \in States

\* A streaming producer has a last snapshot.
StreamsFromLast == streaming => last # NoScreen

HistoryStarts == history = <<>> <=> written = 0

\* A phone that missed nothing of the history will hold it, if it is streamed or
\* has not begun.
HistoryWillFit ==
  "history" \notin Replay.missing /\ (streaming \/ written = 0) => Replay.history = history

IInv ==
  /\ Types
  /\ WholeIsKnown(phone)
  /\ StreamsFromLast /\ HistoryStarts
  /\ DeltasFit
  /\ HistoryWillFit

LEMMA InitIInv == Init => IInv
<1> SUFFICES ASSUME Init PROVE IInv
  OBVIOUS
<1>0. ConstantsAssumption
  BY ConstantsAssumption
<1>1. screen \in Screens
  <2>1. screen = [i \in 1..MaxRows |-> Blank]
    BY DEF Init
  <2>2. screen \in [1..MaxRows -> Texts]
    BY <1>0, <2>1 DEF ConstantsAssumption
  <2>3. MaxRows \in 1..MaxRows
    BY <1>0 DEF ConstantsAssumption
  <2>4. QED BY <2>2, <2>3 DEF Screens
<1>2. <<>> \in Histories
  BY <1>0, EmptySeq DEF Histories, ConstantsAssumption
<1>3. phone = NoState /\ NoState \in States
  BY <1>2 DEF Init, NoState, States
<1>4. history = <<>> /\ wire = <<>> /\ <<>> \in Seq(Messages)
  BY EmptySeq DEF Init
<1>5. Types
  <2>1. written \in 0..MaxLines /\ drops \in 0..MaxDrops
    BY <1>0 DEF Init, ConstantsAssumption
  <2>2. QED BY <1>1, <1>2, <1>3, <1>4, <2>1 DEF Init, Types
<1>6. Replay = phone
  BY <1>4, ReplayedEmpty DEF Replay
<1>7. WholeIsKnown(phone) /\ DeltasFit /\ HistoryWillFit
  BY <1>3, <1>6 DEF NoState, WholeIsKnown, DeltasFit, HistoryWillFit
<1>8. QED BY <1>5, <1>7 DEF Init, IInv, StreamsFromLast, HistoryStarts

\* What is on its way arrives, or is lost.
LEMMA DeliverKeepsIInv == IInv /\ Deliver => IInv'
<1> SUFFICES ASSUME IInv, Deliver PROVE IInv'
  OBVIOUS
<1>1. phone \in States /\ wire \in Seq(Messages) /\ wire # <<>> /\ WholeIsKnown(phone)
  BY DEF IInv, Types, Deliver
<1>2. Head(wire) \in Messages /\ Tail(wire) \in Seq(Messages)
  BY <1>1, HeadTailProperties
<1>3. phone' \in States /\ WholeIsKnown(phone')
  BY <1>1, <1>2, ApplyKeepsTypes, WholeStaysKnown DEF Deliver
<1>4. UNCHANGED <<running, screen, history, written, last, streaming, link, drops>>
      /\ wire' = Tail(wire)
  BY DEF Deliver
<1>5. /\ "screen" \notin Replay'.missing =>
           "screen" \notin Replay.missing /\ Replay'.lines = Replay.lines
      /\ "history" \notin Replay'.missing =>
           "history" \notin Replay.missing /\ Replay'.history = Replay.history
  <2>1. CASE link
    <3>1. phone' = Apply(phone, Head(wire))
      BY <2>1 DEF Deliver
    <3>2. Replay' = Replay
      BY <1>1, <1>4, <3>1, ReplayedHead DEF Replay
    <3>3. QED BY <3>2
  <2>2. CASE ~link
    <3>1. phone' = Missed(phone, Head(wire))
      BY <2>2 DEF Deliver
    <3>2. Behind(Replay', Replay)
      BY <1>1, <1>4, <3>1, LosingIsBehind DEF Replay
    <3>3. QED BY <3>2 DEF Behind
  <2>3. QED BY <2>1, <2>2
<1>6. DeltasFit' /\ HistoryWillFit'
  BY <1>4, <1>5 DEF IInv, DeltasFit, HistoryWillFit
<1>7. QED BY <1>2, <1>3, <1>4, <1>6 DEF IInv, Types, StreamsFromLast, HistoryStarts

\* A delta, if there is one to send.
LEMMA AfterDeltas ==
  ASSUME IInv
  PROVE  /\ wire \o Deltas \in Seq(Messages)
         /\ Replayed(phone, wire \o Deltas) \in States
         /\ Replayed(phone, wire \o Deltas).history = Replay.history
         /\ "history" \in Replayed(phone, wire \o Deltas).missing
              <=> "history" \in Replay.missing
         /\ last # NoScreen /\ "screen" \notin Replayed(phone, wire \o Deltas).missing
              => Replayed(phone, wire \o Deltas).lines = screen
<1>1. phone \in States /\ wire \in Seq(Messages) /\ screen \in Screens
      /\ last \in Screens \union {NoScreen}
  BY DEF IInv, Types
<1>2. Replay \in States
  BY <1>1, ReplayedKeepsTypes DEF Replay
<1>3. CASE last # NoScreen /\ last # screen
  <2>1. Deltas = <<Delta(last, screen)>> /\ last \in Screens
    BY <1>1, <1>3 DEF Deltas
  <2>2. Delta(last, screen) \in Messages
    BY <1>1, <2>1, OfDelta
  <2>3. wire \o Deltas \in Seq(Messages)
        /\ Replayed(phone, wire \o Deltas) = Apply(Replay, Delta(last, screen))
    BY <1>1, <2>1, <2>2, ReplayedSent DEF Replay
  <2>4. Apply(Replay, Delta(last, screen)) \in States
    BY <1>2, <2>2, ApplyKeepsTypes
  <2>5. "screen" \notin Replay.missing => Replay.lines = last
    BY DEF IInv, DeltasFit
  <2>6. QED BY <1>1, <1>2, <2>1, <2>3, <2>4, <2>5, OfDelta
<1>4. CASE ~(last # NoScreen /\ last # screen)
  <2>1. Deltas = <<>>
    BY <1>4 DEF Deltas
  <2>2. wire \o Deltas = wire
    BY <1>1, <2>1, ConcatEmptySeq
  <2>3. Replayed(phone, wire \o Deltas) = Replay
    BY <2>2 DEF Replay
  <2>4. QED BY <1>1, <1>2, <1>4, <2>2, <2>3 DEF IInv, DeltasFit
<1>5. QED BY <1>3, <1>4

LEMMA DeltaTickKeepsIInv == IInv /\ DeltaTick => IInv'
<1> SUFFICES ASSUME IInv, DeltaTick PROVE IInv'
  OBVIOUS
<1>1. UNCHANGED <<running, screen, history, written, streaming, link, drops, phone>>
      /\ last' = screen /\ wire' = wire \o Deltas /\ streaming
  BY DEF DeltaTick
<1>2. Replay' = Replayed(phone, wire \o Deltas)
  BY <1>1 DEF Replay
<1>3. last # NoScreen
  BY <1>1 DEF IInv, StreamsFromLast
<1>4. DeltasFit' /\ HistoryWillFit'
  BY <1>1, <1>2, <1>3, AfterDeltas DEF IInv, DeltasFit, HistoryWillFit
<1>5. Types'
  BY <1>1, AfterDeltas DEF IInv, Types
<1>6. StreamsFromLast'
  BY <1>1, ScreenIsSome DEF IInv, Types, StreamsFromLast
<1>7. QED BY <1>1, <1>4, <1>5, <1>6 DEF IInv, HistoryStarts, WholeIsKnown

LEMMA KeyframeTickKeepsIInv == IInv /\ KeyframeTick => IInv'
<1> SUFFICES ASSUME IInv, KeyframeTick PROVE IInv'
  OBVIOUS
<1>1. UNCHANGED <<running, screen, history, written, streaming, link, drops, phone>>
      /\ last' = screen /\ wire' = Append(wire, Snapshot(screen))
  BY DEF KeyframeTick
<1>2. phone \in States /\ wire \in Seq(Messages) /\ screen \in Screens
  BY DEF IInv, Types
<1>3. Snapshot(screen) \in Messages
  BY <1>2, OfSnapshot
<1>4. Replay \in States /\ Replay' = Apply(Replay, Snapshot(screen))
  BY <1>1, <1>2, <1>3, ReplayedAppend, ReplayedKeepsTypes DEF Replay
<1>5. DeltasFit' /\ HistoryWillFit'
  BY <1>1, <1>2, <1>4, OfSnapshot DEF IInv, DeltasFit, HistoryWillFit
<1>6. Types'
  BY <1>1, <1>2, <1>3, AppendProperties DEF IInv, Types
<1>7. StreamsFromLast'
  BY <1>1, <1>2, ScreenIsSome DEF StreamsFromLast
<1>8. QED BY <1>1, <1>5, <1>6, <1>7 DEF IInv, HistoryStarts, WholeIsKnown

LEMMA AttachStartKeepsIInv == IInv /\ AttachStart => IInv'
<1> SUFFICES ASSUME IInv, AttachStart PROVE IInv'
  OBVIOUS
<1> DEFINE told == IF history = <<>> THEN <<>> ELSE <<HistorySnapshot(history)>>
<1>1. UNCHANGED <<running, screen, history, written, link, drops, phone>>
      /\ last' = screen /\ streaming' = TRUE /\ wire' = wire \o told \o <<Snapshot(screen)>>
  BY DEF AttachStart
<1>2. phone \in States /\ wire \in Seq(Messages) /\ screen \in Screens
      /\ history \in Histories
  BY DEF IInv, Types
<1>3. Snapshot(screen) \in Messages /\ HistorySnapshot(history) \in Messages
      /\ Replay \in States
  BY <1>2, OfSnapshot, OfHistory, ReplayedKeepsTypes DEF Replay
<1> DEFINE between == Replayed(phone, wire \o told)
<1>4. /\ wire \o told \in Seq(Messages)
      /\ between \in States
      /\ "history" \notin between.missing => between.history = history
  <2>1. CASE history = <<>>
    <3>1. wire \o told = wire
      BY <1>2, <2>1, ConcatEmptySeq
    <3>2. between = Replay
      BY <3>1 DEF Replay
    <3>3. written = 0
      BY <2>1 DEF IInv, HistoryStarts
    <3>4. QED BY <1>2, <1>3, <3>1, <3>2, <3>3 DEF IInv, HistoryWillFit
  <2>2. CASE history # <<>>
    <3>1. told = <<HistorySnapshot(history)>>
      BY <2>2
    <3>2. wire \o told \in Seq(Messages) /\ between = Apply(Replay, HistorySnapshot(history))
      BY <1>2, <1>3, <3>1, ReplayedSent DEF Replay
    <3>3. between \in States
      BY <1>3, <3>2, ApplyKeepsTypes
    <3>4. QED BY <1>2, <1>3, <3>2, <3>3, OfHistory
  <2>3. QED BY <2>1, <2>2
<1> HIDE DEF told
<1>5. wire' \in Seq(Messages) /\ Replay' = Apply(between, Snapshot(screen))
  BY <1>1, <1>2, <1>3, <1>4, ReplayedSent DEF Replay
<1> HIDE DEF between
<1>6. DeltasFit' /\ HistoryWillFit'
  BY <1>1, <1>2, <1>4, <1>5, OfSnapshot DEF DeltasFit, HistoryWillFit
<1>7. Types'
  BY <1>1, <1>2, <1>5 DEF IInv, Types
<1>8. StreamsFromLast'
  BY <1>1, <1>2, ScreenIsSome DEF StreamsFromLast
<1>9. QED BY <1>1, <1>6, <1>7, <1>8 DEF IInv, HistoryStarts, WholeIsKnown

LEMMA KillRequestKeepsIInv == IInv /\ KillRequest => IInv'
<1> SUFFICES ASSUME IInv, KillRequest PROVE IInv'
  OBVIOUS
<1>1. UNCHANGED <<screen, history, written, streaming, link, drops, phone>>
      /\ last' = screen /\ running' = FALSE /\ wire' = wire \o Deltas \o <<Snapshot(screen)>>
  BY DEF KillRequest
<1>2. phone \in States /\ screen \in Screens
  BY DEF IInv, Types
<1> DEFINE between == Replayed(phone, wire \o Deltas)
<1>3. /\ wire \o Deltas \in Seq(Messages)
      /\ between \in States
      /\ between.history = Replay.history
      /\ "history" \in between.missing <=> "history" \in Replay.missing
  BY AfterDeltas
<1>4. wire' \in Seq(Messages) /\ Replay' = Apply(between, Snapshot(screen))
  BY <1>1, <1>2, <1>3, OfSnapshot, ReplayedSent DEF Replay
<1> HIDE DEF between
<1>5. DeltasFit' /\ HistoryWillFit'
  BY <1>1, <1>2, <1>3, <1>4, OfSnapshot DEF IInv, DeltasFit, HistoryWillFit
<1>6. Types'
  BY <1>1, <1>2, <1>4 DEF IInv, Types
<1>7. StreamsFromLast'
  BY <1>1, <1>2, ScreenIsSome DEF StreamsFromLast
<1>8. QED BY <1>1, <1>5, <1>6, <1>7 DEF IInv, HistoryStarts, WholeIsKnown

LEMMA FeedKeepsIInv ==
  ASSUME NEW next \in Screens, NEW count \in 0..2, IInv, Feed(next, count)
  PROVE  IInv'
<1> DEFINE lines == [i \in 1..count |-> written + i]
<1>1. /\ UNCHANGED <<running, last, streaming, inbox, link, drops, phone>>
      /\ screen' = next /\ written' = written + count /\ written + count <= MaxLines
      /\ history' = Newest(history \o lines)
      /\ wire' = IF streaming /\ count > 0 THEN Append(wire, HistoryAppend(lines)) ELSE wire
  BY DEF Feed
<1>2. phone \in States /\ wire \in Seq(Messages) /\ history \in Histories
      /\ written \in Nat /\ MaxLines \in Nat /\ count \in Nat
  BY ConstantsAssumption DEF IInv, Types
<1>3. lines \in Seq(1..MaxLines) /\ Len(lines) = count
  <2>1. \A i \in 1..count : written + i \in 1..MaxLines
    BY <1>1, <1>2
  <2>2. QED BY <1>2, <2>1
<1> HIDE DEF lines
<1>4. history \in Seq(1..MaxLines) /\ history \o lines \in Seq(1..MaxLines)
      /\ Len(history \o lines) = Len(history) + count
  BY <1>2, <1>3, ConcatProperties DEF Histories
<1>5. history' \in Histories
  BY <1>1, <1>4, NewestIsHistory
<1>6. written' \in 0..MaxLines
  BY <1>1, <1>2
<1>7. Replay \in States
  BY <1>2, ReplayedKeepsTypes DEF Replay
<1>8. CASE streaming /\ count > 0
  <2>1. wire' = Append(wire, HistoryAppend(lines)) /\ HistoryAppend(lines) \in Messages
    BY <1>1, <1>3, <1>7, <1>8, OfAppend
  <2>2. wire' \in Seq(Messages)
    BY <1>2, <2>1, AppendProperties
  <2>3. Replay' = Apply(Replay, HistoryAppend(lines))
    BY <1>1, <1>2, <2>1, ReplayedAppend DEF Replay
  <2>4. DeltasFit'
    BY <1>1, <1>3, <1>7, <2>3, OfAppend DEF IInv, DeltasFit
  <2>5. HistoryWillFit'
    BY <1>1, <1>3, <1>7, <1>8, <2>3, OfAppend DEF IInv, HistoryWillFit
  <2>6. HistoryStarts'
    <3>1. history \o lines # <<>>
      <4>1. Len(history \o lines) # 0
        BY <1>2, <1>4, <1>8
      <4>2. QED BY <4>1, EmptySeq
    <3>2. history' # <<>>
      BY <1>1, <1>4, <3>1, NewestIsHistory
    <3>3. QED BY <1>1, <1>2, <1>8, <3>2 DEF HistoryStarts
  <2>7. QED BY <1>1, <1>5, <1>6, <2>2, <2>4, <2>5, <2>6
            DEF IInv, Types, WholeIsKnown, StreamsFromLast
<1>9. CASE ~streaming /\ count > 0
  <2>1. wire' = wire /\ Replay' = Replay
    BY <1>1, <1>9 DEF Replay
  <2>2. DeltasFit'
    BY <1>1, <2>1 DEF IInv, DeltasFit
  <2>3. HistoryWillFit'
    BY <1>1, <1>2, <1>9 DEF HistoryWillFit
  <2>4. HistoryStarts'
    <3>1. history \o lines # <<>>
      <4>1. Len(history \o lines) # 0
        BY <1>2, <1>4, <1>9
      <4>2. QED BY <4>1, EmptySeq
    <3>2. history' # <<>>
      BY <1>1, <1>4, <3>1, NewestIsHistory
    <3>3. QED BY <1>1, <1>2, <1>9, <3>2 DEF HistoryStarts
  <2>5. QED BY <1>1, <1>5, <1>6, <2>1, <2>2, <2>3, <2>4
            DEF IInv, Types, WholeIsKnown, StreamsFromLast
<1>10. CASE count = 0
  <2>1. wire' = wire /\ Replay' = Replay /\ written' = written
    BY <1>1, <1>2, <1>10 DEF Replay
  <2>2. history' = history
    <3>1. lines = <<>>
      BY <1>3, <1>10, EmptySeq
    <3>2. history \o lines = history
      BY <1>4, <3>1, ConcatEmptySeq
    <3>3. QED BY <1>1, <1>2, <1>4, <3>2, NewestIsHistory
  <2>3. DeltasFit' /\ HistoryWillFit' /\ HistoryStarts'
    BY <1>1, <2>1, <2>2 DEF IInv, DeltasFit, HistoryWillFit, HistoryStarts
  <2>4. QED BY <1>1, <1>5, <1>6, <2>1, <2>3
            DEF IInv, Types, WholeIsKnown, StreamsFromLast
<1>11. QED BY <1>2, <1>8, <1>9, <1>10

\* The other steps send nothing and leave the phone, the last snapshot and the
\* history alone; streaming may only end.
LEMMA OthersKeepIInv ==
  ASSUME IInv,
         UNCHANGED <<history, written, last, wire, phone>>,
         streaming' \in BOOLEAN, streaming' => streaming,
         running' \in BOOLEAN, link' \in BOOLEAN,
         screen' \in Screens, drops' \in 0..MaxDrops
  PROVE  IInv'
<1>1. Replay' = Replay
  BY DEF Replay
<1>2. DeltasFit' /\ HistoryWillFit'
  BY <1>1 DEF IInv, DeltasFit, HistoryWillFit
<1>3. Types'
  BY DEF IInv, Types
<1>4. QED BY <1>2, <1>3 DEF IInv, WholeIsKnown, StreamsFromLast, HistoryStarts

LEMMA NextKeepsIInv == IInv /\ [Next]_vars => IInv'
<1> SUFFICES ASSUME IInv, [Next]_vars PROVE IInv'
  OBVIOUS
<1>0. /\ streaming \in BOOLEAN /\ running \in BOOLEAN /\ link \in BOOLEAN
      /\ screen \in Screens /\ drops \in 0..MaxDrops
  BY DEF IInv, Types
<1>1. ASSUME NEW next \in Screens, NEW count \in 0..2, Feed(next, count) PROVE IInv'
  BY <1>1, FeedKeepsIInv
<1>2. CASE DeltaTick
  BY <1>2, DeltaTickKeepsIInv
<1>3. CASE KeyframeTick
  BY <1>3, KeyframeTickKeepsIInv
<1>4. CASE AttachStart
  BY <1>4, AttachStartKeepsIInv
<1>5. CASE AttachStop
  BY <1>0, <1>5, OthersKeepIInv DEF AttachStop
<1>6. CASE KillRequest
  BY <1>6, KillRequestKeepsIInv
<1>7. ASSUME NEW next \in Screens, Resize(next) PROVE IInv'
  BY <1>0, <1>7, OthersKeepIInv DEF Resize
<1>8. CASE ChildExits
  BY <1>0, <1>8, OthersKeepIInv DEF ChildExits
<1>9. CASE Deliver
  BY <1>9, DeliverKeepsIInv
<1>10. CASE User
  <2>1. UNCHANGED <<running, screen, history, written, last, streaming, wire, link,
                    drops, phone>>
    BY <1>10 DEF User, Ask
  <2>2. QED BY <1>0, <2>1, OthersKeepIInv
<1>11. CASE LinkDrops
  <2>1. drops' \in 0..MaxDrops
    BY <1>0, <1>11, ConstantsAssumption DEF LinkDrops
  <2>2. QED BY <1>0, <1>11, <2>1, OthersKeepIInv DEF LinkDrops
<1>12. CASE LinkReturns
  BY <1>0, <1>12, OthersKeepIInv DEF LinkReturns
<1>13. CASE UNCHANGED vars
  BY <1>0, <1>13, OthersKeepIInv
<1>14. QED BY <1>1, <1>2, <1>3, <1>4, <1>5, <1>6, <1>7, <1>8, <1>9, <1>10, <1>11,
              <1>12, <1>13 DEF Next, Commands

LEMMA SpecIInv == Spec => []IInv
  BY InitIInv, NextKeepsIInv, PTL DEF Spec

------------------------------------------------------------------------------
(* The theorems.                                                            *)

\* Every variable has its type, and neither side keeps more history lines than
\* MAX_HISTORY_LINES (Producer, TermSessionState).
THEOREM TypeCorrect == Spec => []TypeOK
<1>1. IInv => TypeOK
  BY DEF IInv, Types, TypeOK, States, Histories
<1>2. QED BY <1>1, SpecIInv, PTL

\* Every delta of push_delta applies to the screen it was computed against, unless
\* the phone missed a message since its last snapshot.
THEOREM DeltasAlwaysFit == Spec => []DeltasFit
<1>1. IInv => DeltasFit
  BY DEF IInv
<1>2. QED BY <1>1, SpecIInv, PTL

\* A phone that missed nothing of the history of a streaming producer will hold
\* exactly that history.
THEOREM HistoryAlwaysFits == Spec => []HistoryFits
<1>1. IInv => HistoryFits
  BY DEF IInv, HistoryWillFit, HistoryFits
<1>2. QED BY <1>1, SpecIInv, PTL
===========================================================================
