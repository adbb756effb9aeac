--------------------------- MODULE HistoryProofs ---------------------------
(***************************************************************************)
(* Proofs about History: the types, that the history is what scrolled out  *)
(* as long as the emulator drops nothing, that whoever is told its lines   *)
(* has the same, what the alternate screen's scrolling adds to it, and     *)
(* what is missed when the emulator drops rows.                            *)
(***************************************************************************)
EXTENDS History, SequenceTheorems, FiniteSetTheorems, WellFoundedInduction, TLAPS

------------------------------------------------------------------------------
(* Induction, over a set of numbers and over a set of sequences.            *)

Before == {p \in Nat \X Nat : p[1] < p[2]}

LEMMA BeforeIsWellFounded == IsWellFoundedOn(Before, Nat)
<1>1. OpToRel(<, Nat) = Before
  BY DEF OpToRel, Before
<1>2. QED BY <1>1, NatLessThanWellFounded

\* A set of numbers that has zero and the next of each of its members has them all.
LEMMA Induction ==
  ASSUME NEW S, 0 \in S, \A n \in Nat : n \in S => n + 1 \in S
  PROVE  \A n \in Nat : n \in S
<1>1. SUFFICES ASSUME NEW T, T = Nat \ S, T # {} PROVE FALSE
  OBVIOUS
<1>2. PICK x \in T : \A y \in T : ~(<<y, x>> \in Before)
  BY <1>1, BeforeIsWellFounded, WFMin
<1>3. x \in Nat /\ x # 0 /\ x - 1 \in Nat
  BY <1>1
<1>4. <<x - 1, x>> \in Before
  BY <1>3 DEF Before
<1>5. x - 1 \in S
  BY <1>1, <1>2, <1>3, <1>4
<1>6. QED BY <1>1, <1>3, <1>5

\* A set of numbers with a bound has a greatest member.
LEMMA HasGreatest ==
  ASSUME NEW bound \in Nat, NEW S \in SUBSET (0..bound), S # {}
  PROVE  \E x \in S : \A y \in S : x >= y
<1> DEFINE T == {n \in Nat : \A R \in SUBSET (0..n) :
                    R # {} => \E x \in R : \A y \in R : x >= y}
<1>1. 0 \in T
  <2> SUFFICES ASSUME NEW R \in SUBSET (0..0), R # {}
               PROVE  \E x \in R : \A y \in R : x >= y
    OBVIOUS
  <2>1. \A i \in 0..0 : i = 0
    OBVIOUS
  <2>2. R = {0}
    BY <2>1
  <2>3. QED BY <2>2
<1>2. ASSUME NEW n \in Nat, n \in T PROVE n + 1 \in T
  <2> SUFFICES ASSUME NEW R \in SUBSET (0..(n + 1)), R # {}
               PROVE  \E x \in R : \A y \in R : x >= y
    OBVIOUS
  <2>1. CASE n + 1 \in R
    BY <2>1
  <2>2. CASE n + 1 \notin R
    <3>1. R \in SUBSET (0..n)
      BY <2>2
    <3>2. QED BY <1>2, <3>1
  <2>3. QED BY <2>1, <2>2
<1> HIDE DEF T
<1>3. bound \in T
  BY <1>1, <1>2, Induction
<1>4. QED BY <1>3 DEF T

\* The greater of two numbers.
LEMMA MaxOfTwo ==
  ASSUME NEW a \in Int, NEW b \in Int
  PROVE  Max({a, b}) = IF a >= b THEN a ELSE b
<1>1. \E x \in {a, b} : \A y \in {a, b} : x >= y
  OBVIOUS
<1>2. Max({a, b}) \in {a, b} /\ \A y \in {a, b} : Max({a, b}) >= y
  BY <1>1 DEF Max
<1>3. QED BY <1>2

LEMMA MinOfTwo ==
  ASSUME NEW a \in Int, NEW b \in Int
  PROVE  Min({a, b}) = IF a <= b THEN a ELSE b
<1>1. \E x \in {a, b} : \A y \in {a, b} : x <= y
  OBVIOUS
<1>2. Min({a, b}) \in {a, b} /\ \A y \in {a, b} : Min({a, b}) <= y
  BY <1>1 DEF Min
<1>3. QED BY <1>2

\* A set of sequences that has the empty one, and with a sequence each that is
\* one longer, has them all.
LEMMA SequenceInduction ==
  ASSUME NEW E, NEW S, <<>> \in S,
         \A s \in Seq(E), x \in E : s \in S => Append(s, x) \in S
  PROVE  \A s \in Seq(E) : s \in S
<1> DEFINE T == {n \in Nat : \A s \in Seq(E) : Len(s) = n => s \in S}
<1>1. 0 \in T
  BY EmptySeq
<1>2. ASSUME NEW n \in Nat, n \in T PROVE n + 1 \in T
  <2> SUFFICES ASSUME NEW s \in Seq(E), Len(s) = n + 1 PROVE s \in S
    OBVIOUS
  <2> DEFINE front == [i \in 1..n |-> s[i]]
  <2>1. front \in Seq(E) /\ Len(front) = n
    <3>1. \A i \in 1..n : s[i] \in E
      OBVIOUS
    <3>2. front \in [1..n -> E]
      BY <3>1
    <3>3. QED BY <3>2
  <2>2. s[n + 1] \in E
    OBVIOUS
  <2>3. s = Append(front, s[n + 1])
    <3>1. Append(front, s[n + 1]) \in Seq(E) /\ Len(Append(front, s[n + 1])) = n + 1
          /\ Append(front, s[n + 1])[n + 1] = s[n + 1]
          /\ \A i \in 1..n : Append(front, s[n + 1])[i] = front[i]
      BY <2>1, <2>2, AppendProperties
    <3>2. \A i \in 1..(n + 1) : i = n + 1 \/ i \in 1..n
      OBVIOUS
    <3>3. \A i \in 1..(n + 1) : Append(front, s[n + 1])[i] = s[i]
      BY <3>1, <3>2
    <3> HIDE DEF front
    <3>4. QED BY <3>1, <3>3, SeqEqual
  <2> HIDE DEF front
  <2>4. front \in S
    BY <1>2, <2>1
  <2>5. QED BY <2>1, <2>2, <2>3, <2>4
<1> HIDE DEF T
<1>3. ASSUME NEW s \in Seq(E) PROVE s \in S
  <2>1. Len(s) \in T
    BY <1>1, <1>2, Induction, LenProperties
  <2>2. QED BY <2>1 DEF T
<1>4. QED BY <1>3

\* A function whose values are found step by step.
Follows(f, step, n) == \A i \in 1..n : f[i] = step[<<i, f[i - 1]>>]
StepFunctions(n, U) == [(1..n) \X U -> U]

\* It exists ...
LEMMA StepByStep ==
  ASSUME NEW U, NEW start \in U, NEW n \in Nat, NEW step \in StepFunctions(n, U)
  PROVE  \E f \in [0..n -> U] : f[0] = start /\ Follows(f, step, n)
<1> USE DEF Follows, StepFunctions
<1> DEFINE T == {k \in Nat : k <= n =>
                   \E f \in [0..k -> U] :
                     f[0] = start /\ \A i \in 1..k : f[i] = step[<<i, f[i - 1]>>]}
<1>1. 0 \in T
  <2> DEFINE f == [i \in 0..0 |-> start]
  <2>1. f \in [0..0 -> U] /\ f[0] = start /\ \A i \in 1..0 : FALSE
    OBVIOUS
  <2> HIDE DEF f
  <2>2. QED BY <2>1
<1>2. ASSUME NEW k \in Nat, k \in T PROVE k + 1 \in T
  <2> SUFFICES ASSUME k + 1 <= n
               PROVE  \E f \in [0..(k + 1) -> U] :
                        f[0] = start /\ \A i \in 1..(k + 1) : f[i] = step[<<i, f[i - 1]>>]
    OBVIOUS
  <2>1. PICK f \in [0..k -> U] : f[0] = start /\ \A i \in 1..k : f[i] = step[<<i, f[i - 1]>>]
    BY <1>2
  <2> DEFINE g == [i \in 0..(k + 1) |-> IF i = k + 1 THEN step[<<k + 1, f[k]>>] ELSE f[i]]
  <2>2. step[<<k + 1, f[k]>>] \in U
    <3>1. k + 1 \in 1..n /\ f[k] \in U
      OBVIOUS
    <3>2. QED BY <3>1
  <2>3. g \in [0..(k + 1) -> U]
    BY <2>2
  <2>4. \A i \in 0..k : g[i] = f[i]
    OBVIOUS
  <2>5. g[k + 1] = step[<<k + 1, f[k]>>]
    OBVIOUS
  <2> HIDE DEF g
  <2>6. ASSUME NEW i \in 1..(k + 1) PROVE g[i] = step[<<i, g[i - 1]>>]
    <3>1. CASE i = k + 1
      <4>1. i - 1 = k /\ k \in 0..k
        BY <3>1
      <4>2. QED BY <2>4, <2>5, <3>1, <4>1
    <3>2. CASE i \in 1..k
      <4>1. i - 1 \in 0..k /\ i \in 0..k
        BY <3>2
      <4>2. QED BY <2>1, <2>4, <3>2, <4>1
    <3>3. QED BY <3>1, <3>2
  <2>7. g[0] = start
    BY <2>1, <2>4
  <2>8. QED BY <2>3, <2>6, <2>7
<1> HIDE DEF T
<1>3. n \in T
  BY <1>1, <1>2, Induction
<1>4. QED BY <1>3 DEF T

\* ... and is the only one.
FollowsIn(f, step, n, U) ==
  \A i \in 1..n : f[i - 1] \in U => f[i] = step[<<i, f[i - 1]>>]

LEMMA OnlyOnce ==
  ASSUME NEW U, NEW start \in U, NEW n \in Nat, NEW step \in StepFunctions(n, U),
         NEW f, f[0] = start, FollowsIn(f, step, n, U),
         NEW g, g[0] = start, FollowsIn(g, step, n, U)
  PROVE  f[n] = g[n] /\ f[n] \in U
<1> USE DEF FollowsIn, StepFunctions
<1> DEFINE T == {k \in Nat : k <= n => f[k] = g[k] /\ f[k] \in U}
<1>1. 0 \in T
  OBVIOUS
<1>2. ASSUME NEW k \in Nat, k \in T PROVE k + 1 \in T
  <2> SUFFICES ASSUME k + 1 <= n PROVE f[k + 1] = g[k + 1] /\ f[k + 1] \in U
    OBVIOUS
  <2>1. k + 1 \in 1..n /\ (k + 1) - 1 = k /\ f[k] = g[k] /\ f[k] \in U
    BY <1>2
  <2>2. f[k + 1] = step[<<k + 1, f[k]>>] /\ g[k + 1] = step[<<k + 1, g[k]>>]
    BY <2>1
  <2>3. QED BY <2>1, <2>2
<1> HIDE DEF T
<1>3. n \in T
  BY <1>1, <1>2, Induction
<1>4. QED BY <1>3 DEF T

------------------------------------------------------------------------------
(* The lines that a history takes in.                                       *)

LEMMA AddLineType ==
  ASSUME NEW h, NEW new \in Seq(Lines), NEW line \in Lines
  PROVE  AddLine(h, new, line) \in Seq(Lines)
<1>1. Append(new, line) \in Seq(Lines)
  BY AppendProperties
<1>2. QED BY <1>1 DEF AddLine

AddLineStep(h, lines) ==
  [p \in (1..Len(lines)) \X Seq(Lines) |-> AddLine(h, p[2], lines[p[1]])]

LEMMA AddLineStepType ==
  ASSUME NEW h, NEW lines \in Seq(Lines)
  PROVE  AddLineStep(h, lines) \in StepFunctions(Len(lines), Seq(Lines))
<1>1. ASSUME NEW p \in (1..Len(lines)) \X Seq(Lines)
      PROVE  AddLine(h, p[2], lines[p[1]]) \in Seq(Lines)
  <2>1. lines[p[1]] \in Lines /\ p[2] \in Seq(Lines)
    BY ElementOfSeq
  <2>2. QED BY <2>1, AddLineType
<1>2. QED BY <1>1 DEF AddLineStep, StepFunctions

LEMMA AppendedByStep ==
  ASSUME NEW h, NEW lines \in Seq(Lines)
  PROVE  \E f : /\ Appended(h, lines) = f[Len(lines)] /\ f[0] = <<>>
                /\ \A i \in 1..Len(lines) : f[i] = AddLine(h, f[i - 1], lines[i])
<1> DEFINE n == Len(lines)
           Is(f) == f = [i \in 0..n |-> IF i = 0 THEN <<>> ELSE AddLine(h, f[i - 1], lines[i])]
<1>1. n \in Nat /\ <<>> \in Seq(Lines)
  BY EmptySeq
<1>2. PICK g \in [0..n -> Seq(Lines)] :
        g[0] = <<>> /\ \A i \in 1..n : g[i] = AddLineStep(h, lines)[<<i, g[i - 1]>>]
  <2> DEFINE step == AddLineStep(h, lines)
             U == Seq(Lines)
             start == <<>>
  <2>1. step \in StepFunctions(n, U) /\ start \in U /\ n \in Nat
    BY <1>1, AddLineStepType
  <2> HIDE DEF step, U, n, start
  <2>2. \E f \in [0..n -> U] : f[0] = start /\ Follows(f, step, n)
    BY <2>1, StepByStep
  <2>3. QED BY <2>2 DEF step, U, start, Follows
<1>3. \A i \in 1..n : g[i] = AddLine(h, g[i - 1], lines[i])
  <2> SUFFICES ASSUME NEW i \in 1..n PROVE g[i] = AddLine(h, g[i - 1], lines[i])
    OBVIOUS
  <2>1. i - 1 \in 0..n
    BY <1>1
  <2>2. <<i, g[i - 1]>> \in (1..n) \X Seq(Lines)
    BY <1>2, <2>1
  <2>3. QED BY <1>2, <2>2 DEF AddLineStep
<1>4. \A i \in 0..n : g[i] = IF i = 0 THEN <<>> ELSE AddLine(h, g[i - 1], lines[i])
  BY <1>1, <1>2, <1>3
<1>5. Is(g)
  BY <1>2, <1>4
<1> DEFINE f == CHOOSE x : Is(x)
<1>6. Is(f)
  BY <1>5
<1>7. Appended(h, lines) = f[n]
  BY DEF Appended
<1> HIDE DEF f
<1>8. f[0] = <<>> /\ \A i \in 1..n : f[i] = AddLine(h, f[i - 1], lines[i])
  <2>1. 0 \in 0..n /\ \A i \in 1..n : i \in 0..n /\ i # 0
    BY <1>1
  <2>2. QED BY <1>6, <2>1
<1>9. QED BY <1>7, <1>8

\* What is found in the same way is the same.
LEMMA AppendedOnce ==
  ASSUME NEW h, NEW lines \in Seq(Lines),
         NEW f, f[0] = <<>>, \A i \in 1..Len(lines) : f[i] = AddLine(h, f[i - 1], lines[i])
  PROVE  Appended(h, lines) = f[Len(lines)] /\ Appended(h, lines) \in Seq(Lines)
<1>1. PICK g : /\ Appended(h, lines) = g[Len(lines)] /\ g[0] = <<>>
               /\ \A i \in 1..Len(lines) : g[i] = AddLine(h, g[i - 1], lines[i])
  BY AppendedByStep
<1>2. \A x \in Seq(Lines), i \in 1..Len(lines) :
        AddLineStep(h, lines)[<<i, x>>] = AddLine(h, x, lines[i])
  BY DEF AddLineStep
<1>3. <<>> \in Seq(Lines) /\ Len(lines) \in Nat
  BY EmptySeq
<1>4. \A i \in 1..Len(lines) : f[i - 1] \in Seq(Lines) => f[i] = AddLineStep(h, lines)[<<i, f[i - 1]>>]
  BY <1>2
<1>5. \A i \in 1..Len(lines) : g[i - 1] \in Seq(Lines) => g[i] = AddLineStep(h, lines)[<<i, g[i - 1]>>]
  BY <1>1, <1>2
<1>6. f[Len(lines)] = g[Len(lines)] /\ f[Len(lines)] \in Seq(Lines)
  <2> DEFINE step == AddLineStep(h, lines)
             U == Seq(Lines)
             n == Len(lines)
             start == <<>>
  <2>1. step \in StepFunctions(n, U) /\ start \in U /\ n \in Nat /\ f[0] = start /\ g[0] = start
    BY <1>1, <1>3, AddLineStepType
  <2>2. FollowsIn(f, step, n, U) /\ FollowsIn(g, step, n, U)
    BY <1>4, <1>5 DEF FollowsIn
  <2> HIDE DEF step, U, n, start
  <2>3. f[n] = g[n] /\ f[n] \in U
    BY <2>1, <2>2, OnlyOnce
  <2>4. QED BY <2>3 DEF U, n
<1>7. QED BY <1>1, <1>6

LEMMA AppendedType ==
  ASSUME NEW h, NEW lines \in Seq(Lines)
  PROVE  Appended(h, lines) \in Seq(Lines)
BY AppendedByStep, AppendedOnce

LEMMA AppendedNothing ==
  ASSUME NEW h
  PROVE  Appended(h, <<>>) = <<>>
<1>1. <<>> \in Seq(Lines) /\ Len(<<>>) = 0
  BY EmptySeq
<1>2. QED BY <1>1, AppendedByStep

LEMMA AppendedOneMore ==
  ASSUME NEW h, NEW lines \in Seq(Lines), NEW line \in Lines
  PROVE  Appended(h, Append(lines, line)) = AddLine(h, Appended(h, lines), line)
<1> DEFINE n == Len(lines)
           more == Append(lines, line)
<1>1. n \in Nat /\ more \in Seq(Lines) /\ Len(more) = n + 1
      /\ more[n + 1] = line /\ \A i \in 1..n : more[i] = lines[i]
  BY AppendProperties
<1> HIDE DEF more
<1>2. PICK f : /\ Appended(h, more) = f[n + 1] /\ f[0] = <<>>
               /\ \A i \in 1..(n + 1) : f[i] = AddLine(h, f[i - 1], more[i])
  BY <1>1, AppendedByStep
<1>3. \A i \in 1..n : f[i] = AddLine(h, f[i - 1], lines[i])
  <2> SUFFICES ASSUME NEW i \in 1..n PROVE f[i] = AddLine(h, f[i - 1], lines[i])
    OBVIOUS
  <2>1. i \in 1..(n + 1) /\ more[i] = lines[i]
    BY <1>1
  <2>2. QED BY <1>2, <2>1
<1>4. Appended(h, lines) = f[n]
  BY <1>2, <1>3, AppendedOnce
<1>5. f[n + 1] = AddLine(h, f[n], line)
  <2>1. n + 1 \in 1..(n + 1) /\ (n + 1) - 1 = n
    BY <1>1
  <2>2. f[n + 1] = AddLine(h, f[(n + 1) - 1], more[n + 1])
    BY <1>2, <2>1
  <2>3. QED BY <1>1, <2>1, <2>2
<1>6. QED BY <1>2, <1>4, <1>5 DEF more

------------------------------------------------------------------------------
(* The lines that rows make up.                                             *)

LineRows == [text : Lines, wrapped : BOOLEAN]
JoinedLines == [pending : Lines, lines : Seq(Lines)]

LEMMA JoinRowType ==
  ASSUME NEW joined \in JoinedLines, NEW row \in LineRows
  PROVE  JoinRow(joined, row) \in JoinedLines
<1>1. joined.pending \in Lines /\ row.text \in Lines /\ joined.lines \in Seq(Lines)
  BY DEF JoinedLines, LineRows
<1>2. joined.pending \o row.text \in Lines /\ <<>> \in Lines
  BY <1>1, ConcatProperties, EmptySeq DEF Lines
<1>3. Append(joined.lines, joined.pending \o row.text) \in Seq(Lines)
  BY <1>1, <1>2, AppendProperties
<1> HIDE DEF Lines
<1>4. QED BY <1>1, <1>2, <1>3 DEF JoinRow, JoinedLines

JoinStep(pending, rows) ==
  [p \in (1..Len(rows)) \X JoinedLines |-> JoinRow(p[2], rows[p[1]])]

LEMMA JoinStepType ==
  ASSUME NEW pending \in Lines, NEW rows \in Seq(LineRows)
  PROVE  JoinStep(pending, rows) \in StepFunctions(Len(rows), JoinedLines)
<1>1. ASSUME NEW p \in (1..Len(rows)) \X JoinedLines
      PROVE  JoinRow(p[2], rows[p[1]]) \in JoinedLines
  <2>1. rows[p[1]] \in LineRows /\ p[2] \in JoinedLines
    BY ElementOfSeq
  <2>2. QED BY <2>1, JoinRowType
<1>2. QED BY <1>1 DEF JoinStep, StepFunctions

LEMMA JoinedByStep ==
  ASSUME NEW pending \in Lines, NEW rows \in Seq(LineRows)
  PROVE  \E f : /\ Joined(pending, rows) = f[Len(rows)] /\ f[0] = [pending |-> pending, lines |-> <<>>]
                /\ \A i \in 1..Len(rows) : f[i] = JoinRow(f[i - 1], rows[i])
<1> DEFINE n == Len(rows)
           Is(f) == f = [i \in 0..n |-> IF i = 0 THEN [pending |-> pending, lines |-> <<>>] ELSE JoinRow(f[i - 1], rows[i])]
<1>1. n \in Nat /\ [pending |-> pending, lines |-> <<>>] \in JoinedLines
  BY EmptySeq DEF JoinedLines
<1>2. PICK g \in [0..n -> JoinedLines] :
        g[0] = [pending |-> pending, lines |-> <<>>] /\ \A i \in 1..n : g[i] = JoinStep(pending, rows)[<<i, g[i - 1]>>]
  <2> DEFINE step == JoinStep(pending, rows)
             U == JoinedLines
             start == [pending |-> pending, lines |-> <<>>]
  <2>1. step \in StepFunctions(n, U) /\ start \in U /\ n \in Nat
    BY <1>1, JoinStepType
  <2> HIDE DEF step, U, n, start
  <2>2. \E f \in [0..n -> U] : f[0] = start /\ Follows(f, step, n)
    BY <2>1, StepByStep
  <2>3. QED BY <2>2 DEF step, U, start, Follows
<1>3. \A i \in 1..n : g[i] = JoinRow(g[i - 1], rows[i])
  <2> SUFFICES ASSUME NEW i \in 1..n PROVE g[i] = JoinRow(g[i - 1], rows[i])
    OBVIOUS
  <2>1. i - 1 \in 0..n
    BY <1>1
  <2>2. <<i, g[i - 1]>> \in (1..n) \X JoinedLines
    BY <1>2, <2>1
  <2>3. QED BY <1>2, <2>2 DEF JoinStep
<1>4. \A i \in 0..n : g[i] = IF i = 0 THEN [pending |-> pending, lines |-> <<>>] ELSE JoinRow(g[i - 1], rows[i])
  BY <1>1, <1>2, <1>3
<1>5. Is(g)
  BY <1>2, <1>4
<1> DEFINE f == CHOOSE x : Is(x)
<1>6. Is(f)
  BY <1>5
<1>7. Joined(pending, rows) = f[n]
  BY DEF Joined
<1> HIDE DEF f
<1>8. f[0] = [pending |-> pending, lines |-> <<>>] /\ \A i \in 1..n : f[i] = JoinRow(f[i - 1], rows[i])
  <2>1. 0 \in 0..n /\ \A i \in 1..n : i \in 0..n /\ i # 0
    BY <1>1
  <2>2. QED BY <1>6, <2>1
<1>9. QED BY <1>7, <1>8

LEMMA JoinedOnce ==
  ASSUME NEW pending \in Lines, NEW rows \in Seq(LineRows),
         NEW f, f[0] = [pending |-> pending, lines |-> <<>>], \A i \in 1..Len(rows) : f[i] = JoinRow(f[i - 1], rows[i])
  PROVE  Joined(pending, rows) = f[Len(rows)] /\ Joined(pending, rows) \in JoinedLines
<1>1. PICK g : /\ Joined(pending, rows) = g[Len(rows)] /\ g[0] = [pending |-> pending, lines |-> <<>>]
               /\ \A i \in 1..Len(rows) : g[i] = JoinRow(g[i - 1], rows[i])
  BY JoinedByStep
<1>2. \A x \in JoinedLines, i \in 1..Len(rows) :
        JoinStep(pending, rows)[<<i, x>>] = JoinRow(x, rows[i])
  BY DEF JoinStep
<1>3. [pending |-> pending, lines |-> <<>>] \in JoinedLines /\ Len(rows) \in Nat
  BY EmptySeq DEF JoinedLines
<1>4. \A i \in 1..Len(rows) :
        f[i - 1] \in JoinedLines => f[i] = JoinStep(pending, rows)[<<i, f[i - 1]>>]
  BY <1>2
<1>5. \A i \in 1..Len(rows) :
        g[i - 1] \in JoinedLines => g[i] = JoinStep(pending, rows)[<<i, g[i - 1]>>]
  BY <1>1, <1>2
<1>6. f[Len(rows)] = g[Len(rows)] /\ f[Len(rows)] \in JoinedLines
  <2> DEFINE step == JoinStep(pending, rows)
             U == JoinedLines
             n == Len(rows)
             start == [pending |-> pending, lines |-> <<>>]
  <2>1. step \in StepFunctions(n, U) /\ start \in U /\ n \in Nat /\ f[0] = start /\ g[0] = start
    BY <1>1, <1>3, JoinStepType
  <2>2. FollowsIn(f, step, n, U) /\ FollowsIn(g, step, n, U)
    BY <1>4, <1>5 DEF FollowsIn
  <2> HIDE DEF step, U, n, start
  <2>3. f[n] = g[n] /\ f[n] \in U
    BY <2>1, <2>2, OnlyOnce
  <2>4. QED BY <2>3 DEF U, n
<1>7. QED BY <1>1, <1>6

LEMMA JoinedType ==
  ASSUME NEW pending \in Lines, NEW rows \in Seq(LineRows)
  PROVE  Joined(pending, rows) \in JoinedLines
<1>1. PICK f : /\ Joined(pending, rows) = f[Len(rows)] /\ f[0] = [pending |-> pending, lines |-> <<>>]
               /\ \A i \in 1..Len(rows) : f[i] = JoinRow(f[i - 1], rows[i])
  BY JoinedByStep
<1>2. QED BY <1>1, JoinedOnce

LEMMA JoinedNothing ==
  ASSUME NEW pending \in Lines
  PROVE  Joined(pending, <<>>) = [pending |-> pending, lines |-> <<>>]
<1>1. <<>> \in Seq(LineRows) /\ Len(<<>>) = 0
  BY EmptySeq
<1>2. QED BY <1>1, JoinedByStep

LEMMA JoinedOneMore ==
  ASSUME NEW pending \in Lines, NEW rows \in Seq(LineRows), NEW e \in LineRows
  PROVE  Joined(pending, Append(rows, e)) = JoinRow(Joined(pending, rows), e)
<1> DEFINE n == Len(rows)
           more == Append(rows, e)
<1>1. n \in Nat /\ more \in Seq(LineRows) /\ Len(more) = n + 1
      /\ more[n + 1] = e /\ \A i \in 1..n : more[i] = rows[i]
  BY AppendProperties
<1> HIDE DEF more
<1>2. PICK f : /\ Joined(pending, more) = f[n + 1] /\ f[0] = [pending |-> pending, lines |-> <<>>]
               /\ \A i \in 1..(n + 1) : f[i] = JoinRow(f[i - 1], more[i])
  BY <1>1, JoinedByStep
<1>3. \A i \in 1..n : f[i] = JoinRow(f[i - 1], rows[i])
  <2> SUFFICES ASSUME NEW i \in 1..n PROVE f[i] = JoinRow(f[i - 1], rows[i])
    OBVIOUS
  <2>1. i \in 1..(n + 1) /\ more[i] = rows[i]
    BY <1>1
  <2>2. f[i] = JoinRow(f[i - 1], more[i])
    BY <1>2, <2>1
  <2>9. QED BY <2>1, <2>2
<1>4. Joined(pending, rows) = f[n]
  BY <1>2, <1>3, JoinedOnce
<1>5. f[n + 1] = JoinRow(f[n], more[(n + 1)])
  <2>1. n + 1 \in 1..(n + 1) /\ (n + 1) - 1 = n
    BY <1>1
  <2>2. f[n + 1] = JoinRow(f[(n + 1) - 1], more[(n + 1)])
    BY <1>2, <2>1
  <2>3. QED BY <2>1, <2>2
<1>9. QED BY <1>1, <1>2, <1>4, <1>5 DEF more

------------------------------------------------------------------------------
(* The newest of some lines or rows.                                        *)

Kept(n, c) == IF n <= c THEN n ELSE c

LEMMA LastOfIs ==
  ASSUME NEW S, NEW s \in Seq(S), NEW c \in Nat, NEW n, n = Len(s), NEW m, m = Kept(n, c)
  PROVE  /\ m \in Nat /\ m <= n /\ m <= c /\ LastOf(s, c) \in Seq(S) /\ Len(LastOf(s, c)) = m
         /\ \A i \in 1..m : LastOf(s, c)[i] = s[n - m + i]
<1> DEFINE first == n - m + 1
<1>0. n \in Nat /\ c \in Nat /\ m = IF n <= c THEN n ELSE c
  BY LenProperties DEF Kept
<1>n. n \in Nat /\ c \in Nat
  BY <1>0
<1>a. m \in Nat /\ m <= n /\ m <= c
  BY <1>0
<1>b. first \in 1..(n + 1)
  BY <1>n, <1>a
<1>c. n - c + 1 \in Int
  BY <1>0
<1>1. n \in Nat /\ m \in Nat /\ m <= n /\ m <= c /\ n - c + 1 \in Int /\ first \in 1..(n + 1)
  BY <1>0, <1>a, <1>b, <1>c
<1>2. Max({1, n - c + 1}) = first
  <2>1. Max({1, n - c + 1}) = IF 1 >= n - c + 1 THEN 1 ELSE n - c + 1
    BY <1>1, MaxOfTwo
  <2>2. CASE n <= c
    BY <1>0, <2>1, <2>2
  <2>3. CASE ~(n <= c)
    BY <1>0, <2>1, <2>3
  <2>4. QED BY <2>2, <2>3
<1>3. LastOf(s, c) = SubSeq(s, first, n)
  BY <1>2 DEF LastOf
<1>4. n - first + 1 = m /\ \A i \in 1..m : first + i - 1 = n - m + i
  BY <1>1
<1> HIDE DEF first
<1>5. \A i \in first..n : s[i] \in S
  <2>1. \A i \in first..n : i \in 1..Len(s)
    BY <1>1
  <2>2. QED BY <2>1, ElementOfSeq
<1>6. /\ SubSeq(s, first, n) \in Seq(S)
      /\ Len(SubSeq(s, first, n)) = n - first + 1
      /\ \A i \in 1..(n - first + 1) : SubSeq(s, first, n)[i] = s[first + i - 1]
  BY <1>1, <1>5, SubSeqProperties
<1>7. \A i \in 1..m : SubSeq(s, first, n)[i] = s[n - m + i]
  BY <1>4, <1>6
<1>8. QED BY <1>1, <1>3, <1>4, <1>6, <1>7

LEMMA LastOfAll ==
  ASSUME NEW S, NEW s \in Seq(S), NEW c \in Nat, Len(s) <= c
  PROVE  LastOf(s, c) = s
<1> DEFINE n == Len(s)
<1>1. n \in Nat /\ n = Kept(n, c)
  BY DEF Kept
<1>2. LastOf(s, c) \in Seq(S) /\ Len(LastOf(s, c)) = n
      /\ \A i \in 1..n : LastOf(s, c)[i] = s[n - n + i]
  <2>1. n = Len(s)
    OBVIOUS
  <2> HIDE DEF n
  <2>2. QED BY <1>1, <2>1, LastOfIs
<1>3. \A i \in 1..n : LastOf(s, c)[i] = s[i]
  <2>1. \A i \in 1..n : n - n + i = i
    BY <1>1
  <2>2. QED BY <1>2, <2>1
<1>4. QED BY <1>2, <1>3, SeqEqual

\* The newest of what is kept and what comes is the newest of all that came.
LEMMA LastOfConcat ==
  ASSUME NEW S, NEW s \in Seq(S), NEW t \in Seq(S), NEW c \in Nat
  PROVE  LastOf(LastOf(s, c) \o t, c) = LastOf(s \o t, c)
<1> DEFINE k == LastOf(s, c)
           a == k \o t
           b == s \o t
<1>0. PICK ls : ls = Len(s)
  OBVIOUS
<1>1. PICK m : m = Kept(ls, c)
  OBVIOUS
<1>2. /\ m \in Nat /\ m <= ls /\ m <= c /\ k \in Seq(S) /\ Len(k) = m
      /\ \A i \in 1..m : k[i] = s[ls - m + i]
  BY <1>0, <1>1, LastOfIs
<1>3. PICK lt \in Nat : lt = Len(t)
  OBVIOUS
<1>4. ls \in Nat
  BY <1>0
<1> HIDE DEF k
<1>5. a \in Seq(S) /\ m + lt = Len(a)
      /\ \A i \in 1..(m + lt) : a[i] = IF i <= m THEN k[i] ELSE t[i - m]
  BY <1>2, <1>3, ConcatProperties
<1>6. b \in Seq(S) /\ ls + lt = Len(b)
      /\ \A i \in 1..(ls + lt) : b[i] = IF i <= ls THEN s[i] ELSE t[i - ls]
  BY <1>0, <1>3, ConcatProperties
<1>7. PICK n : n = Kept(m + lt, c)
  OBVIOUS
<1>8. n = Kept(ls + lt, c)
  BY <1>1, <1>2, <1>3, <1>4, <1>7 DEF Kept
<1> HIDE DEF a, b
<1>9. /\ n \in Nat /\ n <= m + lt /\ LastOf(a, c) \in Seq(S) /\ Len(LastOf(a, c)) = n
      /\ \A i \in 1..n : LastOf(a, c)[i] = a[(m + lt) - n + i]
  BY <1>5, <1>7, LastOfIs
<1>10. /\ LastOf(b, c) \in Seq(S) /\ Len(LastOf(b, c)) = n
       /\ \A i \in 1..n : LastOf(b, c)[i] = b[(ls + lt) - n + i]
  BY <1>6, <1>8, LastOfIs
<1>11. ASSUME NEW i \in 1..n
       PROVE  a[(m + lt) - n + i] = b[(ls + lt) - n + i]
  <2>0. PICK p : p = (m + lt) - n + i
    OBVIOUS
  <2>1. PICK q : q = (ls + lt) - n + i
    OBVIOUS
  <2>2. /\ p \in 1..(m + lt) /\ q \in 1..(ls + lt)
        /\ p <= m <=> q <= ls
        /\ p - m = q - ls /\ ls - m + p = q
    BY <1>2, <1>3, <1>4, <1>9, <2>0, <2>1
  <2>3. CASE p <= m
    <3>1. p \in 1..m
      BY <1>2, <2>2, <2>3
    <3>2. k[p] = s[q]
      BY <1>2, <2>2, <3>1
    <3>3. QED BY <1>5, <1>6, <2>0, <2>1, <2>2, <2>3, <3>2
  <2>4. CASE ~(p <= m)
    BY <1>5, <1>6, <2>0, <2>1, <2>2, <2>4
  <2>5. QED BY <2>3, <2>4
<1>12. LastOf(a, c) = LastOf(b, c)
  BY <1>9, <1>10, <1>11, SeqEqual
<1>13. QED BY <1>12 DEF a, b, k

LEMMA LastOfLast ==
  ASSUME NEW S, NEW s \in Seq(S), NEW c \in Nat \ {0}
  PROVE  /\ s = <<>> <=> LastOf(s, c) = <<>>
         /\ s # <<>> => Last(LastOf(s, c)) = Last(s)
<1>0. PICK n : n = Len(s)
  OBVIOUS
<1>a. PICK m : m = Kept(n, c)
  OBVIOUS
<1>1. LastOf(s, c) \in Seq(S) /\ Len(LastOf(s, c)) = m
      /\ \A i \in 1..m : LastOf(s, c)[i] = s[n - m + i]
  BY <1>0, <1>a, LastOfIs
<1>2. CASE s = <<>>
  <2>1. n = 0
    BY <1>0, <1>2, EmptySeq
  <2>2. m = 0
    BY <1>a, <2>1 DEF Kept
  <2>3. QED BY <1>1, <1>2, <2>2, EmptySeq
<1>3. CASE s # <<>>
  <2>1. n \in Nat \ {0}
    BY <1>0, <1>3, EmptySeq
  <2>2. m \in 1..m /\ n - m + m = n
    BY <1>a, <2>1 DEF Kept
  <2>3. Last(LastOf(s, c)) = Last(s)
    BY <1>0, <1>1, <2>2 DEF Last
  <2>4. LastOf(s, c) # <<>>
    <3>1. m # 0
      BY <2>2
    <3>2. QED BY <1>1, <3>1, EmptySeq
  <2>5. QED BY <1>3, <2>3, <2>4
<1>4. QED BY <1>2, <1>3

LEMMA ConcatAppend ==
  ASSUME NEW S, NEW s \in Seq(S), NEW t \in Seq(S), NEW e \in S
  PROVE  /\ s \o Append(t, e) = Append(s \o t, e)
         /\ Last(Append(t, e)) = e /\ Append(t, e) # <<>>
<1>1. s \o t \in Seq(S) /\ <<e>> \in Seq(S)
  BY ConcatProperties
<1>2. (s \o t) \o <<e>> = s \o (t \o <<e>>)
  BY <1>1, ConcatAssociative
<1>3. Append(t, e) = t \o <<e>> /\ Append(s \o t, e) = (s \o t) \o <<e>>
  BY <1>1, AppendIsConcat
<1>4. Last(Append(t, e)) = e /\ Append(t, e) # <<>>
  BY AppendProperties DEF Last
<1>5. QED BY <1>2, <1>3, <1>4

------------------------------------------------------------------------------
(* A history that takes in lines, in one go or in several.                  *)

LEMMA LastOfBoth ==
  ASSUME NEW s \in Seq(Lines), NEW t \in Seq(Lines)
  PROVE  /\ s \o t = <<>> <=> s = <<>> /\ t = <<>>
         /\ t = <<>> => s \o t = s
         /\ t # <<>> => Last(s \o t) = Last(t)
<1>1. s \o t \in Seq(Lines) /\ Len(s \o t) = Len(s) + Len(t)
      /\ \A i \in 1..(Len(s) + Len(t)) : (s \o t)[i] = IF i <= Len(s) THEN s[i] ELSE t[i - Len(s)]
  BY ConcatProperties
<1>2. ASSUME t # <<>> PROVE Last(s \o t) = Last(t)
  <2>1. Len(t) \in Nat \ {0} /\ Len(s) \in Nat
    BY <1>2, EmptySeq
  <2>2. Len(s) + Len(t) \in 1..(Len(s) + Len(t)) /\ ~(Len(s) + Len(t) <= Len(s))
        /\ (Len(s) + Len(t)) - Len(s) = Len(t)
    BY <2>1
  <2>3. QED BY <1>1, <2>2 DEF Last
<1>3. s \o t = <<>> <=> s = <<>> /\ t = <<>>
  BY ConcatEqualIffEmpty
<1>4. t = <<>> => s \o t = s
  BY ConcatEmptySeq
<1>5. QED BY <1>2, <1>3, <1>4

\* Which lines a history takes in depends on its last line only.
LEMMA AppendedByLast ==
  ASSUME NEW h \in Seq(Lines), NEW k \in Seq(Lines),
         h = <<>> <=> k = <<>>, h # <<>> => Last(h) = Last(k), NEW lines \in Seq(Lines)
  PROVE  Appended(h, lines) = Appended(k, lines)
<1> DEFINE S == {l \in Seq(Lines) : Appended(h, l) = Appended(k, l)}
<1>1. <<>> \in S
  BY AppendedNothing, EmptySeq
<1>2. ASSUME NEW l \in Seq(Lines), NEW e \in Lines, l \in S PROVE Append(l, e) \in S
  <2> DEFINE new == Appended(h, l)
  <2>1. new \in Seq(Lines) /\ Appended(k, l) = new
    BY <1>2, AppendedType
  <2> HIDE DEF new
  <2>2. AddLine(h, new, e) = AddLine(k, new, e)
    <3>1. CASE new = <<>>
      <4>1. h \o new = h /\ k \o new = k
        BY <2>1, <3>1, LastOfBoth
      <4>2. QED BY <4>1 DEF AddLine
    <3>2. CASE new # <<>>
      <4>1. /\ Last(h \o new) = Last(new) /\ Last(k \o new) = Last(new)
            /\ h \o new # <<>> /\ k \o new # <<>>
        BY <2>1, <3>2, LastOfBoth
      <4>2. QED BY <4>1 DEF AddLine
    <3>3. QED BY <3>1, <3>2
  <2>3. Appended(h, Append(l, e)) = AddLine(h, new, e)
        /\ Appended(k, Append(l, e)) = AddLine(k, new, e)
    BY <2>1, AppendedOneMore DEF new
  <2>4. Append(l, e) \in Seq(Lines)
    BY AppendProperties
  <2>5. QED BY <2>2, <2>3, <2>4
<1> HIDE DEF S
<1>3. lines \in S
  BY <1>1, <1>2, SequenceInduction
<1>4. QED BY <1>3 DEF S

LEMMA LinesAssociate ==
  ASSUME NEW a \in Seq(Lines), NEW b \in Seq(Lines), NEW c \in Seq(Lines)
  PROVE  (a \o b) \o c = a \o (b \o c)
BY ConcatAssociative

\* Lines that come in two goes.
LEMMA AppendedConcat ==
  ASSUME NEW h \in Seq(Lines), NEW l \in Seq(Lines), NEW m \in Seq(Lines)
  PROVE  Appended(h, l \o m) = Appended(h, l) \o Appended(h \o Appended(h, l), m)
<1> DEFINE X == Appended(h, l)
           S == {t \in Seq(Lines) : Appended(h, l \o t) = X \o Appended(h \o X, t)}
<1>0. X \in Seq(Lines) /\ h \o X \in Seq(Lines) /\ <<>> \in Seq(Lines)
  BY AppendedType, ConcatProperties, EmptySeq
<1>1. <<>> \in S
  <2>1. l \o <<>> = l /\ X \o <<>> = X /\ Appended(h \o X, <<>>) = <<>>
    BY <1>0, ConcatEmptySeq, AppendedNothing
  <2>2. QED BY <1>0, <2>1
<1>2. ASSUME NEW t \in Seq(Lines), NEW e \in Lines, t \in S PROVE Append(t, e) \in S
  <2> DEFINE Y == Appended(h \o X, t)
  <2>1. Y \in Seq(Lines) /\ l \o t \in Seq(Lines) /\ Appended(h, l \o t) = X \o Y
    BY <1>0, <1>2, AppendedType, ConcatProperties
  <2>2. Appended(h, l \o Append(t, e)) = AddLine(h, X \o Y, e)
    <3>1. l \o Append(t, e) = Append(l \o t, e)
      BY ConcatAppend
    <3>2. Appended(h, Append(l \o t, e)) = AddLine(h, Appended(h, l \o t), e)
      BY <2>1, AppendedOneMore
    <3>3. QED BY <2>1, <3>1, <3>2
  <2>3. Appended(h \o X, Append(t, e)) = AddLine(h \o X, Y, e)
    BY <1>0, AppendedOneMore
  <2> HIDE DEF X, Y
  <2>4. AddLine(h, X \o Y, e) = X \o AddLine(h \o X, Y, e)
    <3>0. X \in Seq(Lines) /\ Y \in Seq(Lines)
      BY <1>0, <2>1
    <3>1. (h \o X) \o Y = h \o (X \o Y)
      BY <3>0, LinesAssociate
    <3>2. X \o Append(Y, e) = Append(X \o Y, e)
      BY <1>0, <2>1, ConcatAppend
    <3>3. QED BY <3>1, <3>2 DEF AddLine
  <2>5. Append(t, e) \in Seq(Lines)
    BY AppendProperties
  <2>6. QED BY <2>2, <2>3, <2>4, <2>5 DEF X
<1> HIDE DEF S
<1>3. m \in S
  BY <1>1, <1>2, SequenceInduction
<1>4. QED BY <1>3 DEF S

------------------------------------------------------------------------------
(* Runs of equal lines.                                                     *)

NoRepeats(s) == \A i \in 1..(Len(s) - 1) : s[i] # s[i + 1]

LEMMA NoRepeatsAppend ==
  ASSUME NEW s \in Seq(Lines), NEW e \in Lines
  PROVE  NoRepeats(Append(s, e)) <=> NoRepeats(s) /\ (s # <<>> => Last(s) # e)
<1> DEFINE n == Len(s)
           more == Append(s, e)
<1>1. n \in Nat /\ more \in Seq(Lines) /\ Len(more) = n + 1
      /\ more[n + 1] = e /\ \A i \in 1..n : more[i] = s[i]
  BY AppendProperties
<1>2. s # <<>> <=> n # 0
  BY EmptySeq
<1> HIDE DEF more
<1>3. NoRepeats(more) <=> \A i \in 1..n : more[i] # more[i + 1]
  <2>1. (n + 1) - 1 = n
    BY <1>1
  <2>2. QED BY <1>1, <2>1 DEF NoRepeats
<1>4. NoRepeats(s) <=> \A i \in 1..(n - 1) : more[i] # more[i + 1]
  <2>1. \A i \in 1..(n - 1) : more[i] = s[i] /\ more[i + 1] = s[i + 1]
    BY <1>1
  <2>2. QED BY <2>1 DEF NoRepeats
<1>5. n # 0 => (Last(s) # e <=> more[n] # more[n + 1])
  <2>1. n # 0 => n \in 1..n
    BY <1>1
  <2>2. QED BY <1>1, <2>1 DEF Last
<1>6. \A i \in 1..n : i \in 1..(n - 1) \/ i = n
  BY <1>1
<1>7. (n # 0 => n \in 1..n) /\ \A i \in 1..(n - 1) : i \in 1..n
  BY <1>1
<1>8. QED BY <1>2, <1>3, <1>4, <1>5, <1>6, <1>7 DEF more

LEMMA NoRepeatsLastOf ==
  ASSUME NEW s \in Seq(Lines), NoRepeats(s), NEW c \in Nat
  PROVE  NoRepeats(LastOf(s, c))
<1>1. PICK n : n = Len(s)
  OBVIOUS
<1>2. PICK m : m = Kept(n, c)
  OBVIOUS
<1>3. /\ m \in Nat /\ m <= n /\ n \in Nat /\ Len(LastOf(s, c)) = m
      /\ \A i \in 1..m : LastOf(s, c)[i] = s[n - m + i]
  BY <1>1, <1>2, LastOfIs
<1> SUFFICES ASSUME NEW i \in 1..(m - 1) PROVE LastOf(s, c)[i] # LastOf(s, c)[i + 1]
  BY <1>3 DEF NoRepeats
<1>4. i \in 1..m /\ i + 1 \in 1..m /\ n - m + i \in 1..(n - 1) /\ n - m + (i + 1) = (n - m + i) + 1
  BY <1>3
<1>5. LastOf(s, c)[i] = s[n - m + i] /\ LastOf(s, c)[i + 1] = s[(n - m + i) + 1]
  BY <1>3, <1>4
<1>6. QED BY <1>1, <1>4, <1>5 DEF NoRepeats

SqueezeStep(lines) ==
  [p \in (1..Len(lines)) \X Seq(Lines) |-> (IF p[1] > 1 /\ lines[p[1]] = lines[p[1] - 1] THEN p[2] ELSE Append(p[2], lines[p[1]]))]

LEMMA SqueezeStepType ==
  ASSUME NEW lines \in Seq(Lines)
  PROVE  SqueezeStep(lines) \in StepFunctions(Len(lines), Seq(Lines))
<1>1. ASSUME NEW p \in (1..Len(lines)) \X Seq(Lines)
      PROVE  (IF p[1] > 1 /\ lines[p[1]] = lines[p[1] - 1] THEN p[2] ELSE Append(p[2], lines[p[1]])) \in Seq(Lines)
  <2>1. lines[p[1]] \in Lines /\ p[2] \in Seq(Lines)
    BY ElementOfSeq
  <2>2. QED BY <2>1, AppendProperties
<1>2. QED BY <1>1 DEF SqueezeStep, StepFunctions

LEMMA SqueezedByStep ==
  ASSUME NEW lines \in Seq(Lines)
  PROVE  \E f : /\ Squeezed(lines) = f[Len(lines)] /\ f[0] = <<>>
                /\ \A i \in 1..Len(lines) : f[i] = (IF i > 1 /\ lines[i] = lines[i - 1] THEN f[i - 1] ELSE Append(f[i - 1], lines[i]))
<1> DEFINE n == Len(lines)
           Is(f) == f = [i \in 0..n |-> IF i = 0 THEN <<>> ELSE (IF i > 1 /\ lines[i] = lines[i - 1] THEN f[i - 1] ELSE Append(f[i - 1], lines[i]))]
<1>1. n \in Nat /\ <<>> \in Seq(Lines)
  BY EmptySeq
<1>2. PICK g \in [0..n -> Seq(Lines)] :
        g[0] = <<>> /\ \A i \in 1..n : g[i] = SqueezeStep(lines)[<<i, g[i - 1]>>]
  <2> DEFINE step == SqueezeStep(lines)
             U == Seq(Lines)
             start == <<>>
  <2>1. step \in StepFunctions(n, U) /\ start \in U /\ n \in Nat
    BY <1>1, SqueezeStepType
  <2> HIDE DEF step, U, n, start
  <2>2. \E f \in [0..n -> U] : f[0] = start /\ Follows(f, step, n)
    BY <2>1, StepByStep
  <2>3. QED BY <2>2 DEF step, U, start, Follows
<1>3. \A i \in 1..n : g[i] = (IF i > 1 /\ lines[i] = lines[i - 1] THEN g[i - 1] ELSE Append(g[i - 1], lines[i]))
  <2> SUFFICES ASSUME NEW i \in 1..n PROVE g[i] = (IF i > 1 /\ lines[i] = lines[i - 1] THEN g[i - 1] ELSE Append(g[i - 1], lines[i]))
    OBVIOUS
  <2>1. i - 1 \in 0..n
    BY <1>1
  <2>2. <<i, g[i - 1]>> \in (1..n) \X Seq(Lines)
    BY <1>2, <2>1
  <2>3. QED BY <1>2, <2>2 DEF SqueezeStep
<1>4. ASSUME NEW i \in 0..n
      PROVE  g[i] = IF i = 0 THEN <<>> ELSE (IF i > 1 /\ lines[i] = lines[i - 1] THEN g[i - 1] ELSE Append(g[i - 1], lines[i]))
  <2>1. CASE i = 0
    BY <1>2, <2>1
  <2>2. CASE i # 0
    <3>1. i \in 1..n
      BY <1>1, <2>2
    <3>2. g[i] = (IF i > 1 /\ lines[i] = lines[i - 1] THEN g[i - 1] ELSE Append(g[i - 1], lines[i]))
      BY <1>3, <3>1
    <3>3. QED BY <2>2, <3>2
  <2>3. QED BY <2>1, <2>2
<1>5. Is(g)
  BY <1>2, <1>4
<1> DEFINE f == CHOOSE x : Is(x)
<1>6. Is(f)
  BY <1>5
<1>7. Squeezed(lines) = f[n]
  BY DEF Squeezed
<1> HIDE DEF f
<1>8. f[0] = <<>> /\ \A i \in 1..n : f[i] = (IF i > 1 /\ lines[i] = lines[i - 1] THEN f[i - 1] ELSE Append(f[i - 1], lines[i]))
  <2>1. 0 \in 0..n /\ \A i \in 1..n : i \in 0..n /\ i # 0
    BY <1>1
  <2>2. QED BY <1>6, <2>1
<1>9. QED BY <1>7, <1>8

LEMMA SqueezedOnce ==
  ASSUME NEW lines \in Seq(Lines),
         NEW f, f[0] = <<>>, \A i \in 1..Len(lines) : f[i] = (IF i > 1 /\ lines[i] = lines[i - 1] THEN f[i - 1] ELSE Append(f[i - 1], lines[i]))
  PROVE  Squeezed(lines) = f[Len(lines)] /\ Squeezed(lines) \in Seq(Lines)
<1>1. PICK g : /\ Squeezed(lines) = g[Len(lines)] /\ g[0] = <<>>
               /\ \A i \in 1..Len(lines) : g[i] = (IF i > 1 /\ lines[i] = lines[i - 1] THEN g[i - 1] ELSE Append(g[i - 1], lines[i]))
  BY SqueezedByStep
<1>2. \A x \in Seq(Lines), i \in 1..Len(lines) :
        SqueezeStep(lines)[<<i, x>>] = (IF i > 1 /\ lines[i] = lines[i - 1] THEN x ELSE Append(x, lines[i]))
  BY DEF SqueezeStep
<1>3. <<>> \in Seq(Lines) /\ Len(lines) \in Nat
  BY EmptySeq
<1>4. \A i \in 1..Len(lines) :
        f[i - 1] \in Seq(Lines) => f[i] = SqueezeStep(lines)[<<i, f[i - 1]>>]
  BY <1>2
<1>5. \A i \in 1..Len(lines) :
        g[i - 1] \in Seq(Lines) => g[i] = SqueezeStep(lines)[<<i, g[i - 1]>>]
  BY <1>1, <1>2
<1>6. f[Len(lines)] = g[Len(lines)] /\ f[Len(lines)] \in Seq(Lines)
  <2> DEFINE step == SqueezeStep(lines)
             U == Seq(Lines)
             n == Len(lines)
             start == <<>>
  <2>1. step \in StepFunctions(n, U) /\ start \in U /\ n \in Nat /\ f[0] = start /\ g[0] = start
    BY <1>1, <1>3, SqueezeStepType
  <2>2. FollowsIn(f, step, n, U) /\ FollowsIn(g, step, n, U)
    BY <1>4, <1>5 DEF FollowsIn
  <2> HIDE DEF step, U, n, start
  <2>3. f[n] = g[n] /\ f[n] \in U
    BY <2>1, <2>2, OnlyOnce
  <2>4. QED BY <2>3 DEF U, n
<1>7. QED BY <1>1, <1>6

LEMMA SqueezedType ==
  ASSUME NEW lines \in Seq(Lines)
  PROVE  Squeezed(lines) \in Seq(Lines)
<1>1. PICK f : /\ Squeezed(lines) = f[Len(lines)] /\ f[0] = <<>>
               /\ \A i \in 1..Len(lines) : f[i] = (IF i > 1 /\ lines[i] = lines[i - 1] THEN f[i - 1] ELSE Append(f[i - 1], lines[i]))
  BY SqueezedByStep
<1>2. QED BY <1>1, SqueezedOnce

LEMMA SqueezedNothing == Squeezed(<<>>) = <<>>
<1>1. <<>> \in Seq(Lines) /\ Len(<<>>) = 0
  BY EmptySeq
<1>2. QED BY <1>1, SqueezedByStep

LEMMA SqueezedOneMore ==
  ASSUME NEW lines \in Seq(Lines), NEW e \in Lines
  PROVE  Squeezed(Append(lines, e)) = IF lines # <<>> /\ e = Last(lines) THEN Squeezed(lines) ELSE Append(Squeezed(lines), e)
<1> DEFINE n == Len(lines)
           more == Append(lines, e)
<1>1. n \in Nat /\ more \in Seq(Lines) /\ Len(more) = n + 1
      /\ more[n + 1] = e /\ \A i \in 1..n : more[i] = lines[i]
  BY AppendProperties
<1> HIDE DEF more
<1>2. PICK f : /\ Squeezed(more) = f[n + 1] /\ f[0] = <<>>
               /\ \A i \in 1..(n + 1) : f[i] = (IF i > 1 /\ more[i] = more[i - 1] THEN f[i - 1] ELSE Append(f[i - 1], more[i]))
  BY <1>1, SqueezedByStep
<1>3. \A i \in 1..n : f[i] = (IF i > 1 /\ lines[i] = lines[i - 1] THEN f[i - 1] ELSE Append(f[i - 1], lines[i]))
  <2> SUFFICES ASSUME NEW i \in 1..n PROVE f[i] = (IF i > 1 /\ lines[i] = lines[i - 1] THEN f[i - 1] ELSE Append(f[i - 1], lines[i]))
    OBVIOUS
  <2>1. i \in 1..(n + 1) /\ more[i] = lines[i]
    BY <1>1
  <2>2. f[i] = (IF i > 1 /\ more[i] = more[i - 1] THEN f[i - 1] ELSE Append(f[i - 1], more[i]))
    BY <1>2, <2>1
  <2>3. i > 1 => more[i - 1] = lines[i - 1]
    BY <1>1
  <2>9. QED BY <2>1, <2>2, <2>3
<1>4. Squeezed(lines) = f[n]
  BY <1>2, <1>3, SqueezedOnce
<1>5. f[n + 1] = (IF (n + 1) > 1 /\ more[(n + 1)] = more[(n + 1) - 1] THEN f[n] ELSE Append(f[n], more[(n + 1)]))
  <2>1. n + 1 \in 1..(n + 1) /\ (n + 1) - 1 = n
    BY <1>1
  <2>2. f[n + 1] = (IF (n + 1) > 1 /\ more[(n + 1)] = more[(n + 1) - 1] THEN f[(n + 1) - 1] ELSE Append(f[(n + 1) - 1], more[(n + 1)]))
    BY <1>2, <2>1
  <2>3. QED BY <2>1, <2>2
<1>6. n + 1 > 1 <=> lines # <<>>
  BY <1>1, EmptySeq
<1>7. n + 1 > 1 => more[(n + 1) - 1] = Last(lines)
  <2>1. (n + 1) - 1 = n /\ (n + 1 > 1 => n \in 1..n)
    BY <1>1
  <2>2. QED BY <1>1, <2>1 DEF Last
<1>9. QED BY <1>1, <1>2, <1>4, <1>5, <1>6, <1>7 DEF more

LEMMA SqueezedSame ==
  ASSUME NEW h \in Seq(Lines), NoRepeats(h)
  PROVE  Squeezed(h) = h
<1> DEFINE S == {s \in Seq(Lines) : NoRepeats(s) => Squeezed(s) = s}
<1>1. <<>> \in S
  BY SqueezedNothing, EmptySeq
<1>2. ASSUME NEW s \in Seq(Lines), NEW e \in Lines, s \in S PROVE Append(s, e) \in S
  <2>1. Append(s, e) \in Seq(Lines)
    BY AppendProperties
  <2>2. ASSUME NoRepeats(Append(s, e)) PROVE Squeezed(Append(s, e)) = Append(s, e)
    <3>1. NoRepeats(s) /\ (s # <<>> => Last(s) # e)
      BY <2>2, NoRepeatsAppend
    <3>2. QED BY <1>2, <3>1, SqueezedOneMore
  <2>3. QED BY <2>1, <2>2
<1> HIDE DEF S
<1>3. h \in S
  BY <1>1, <1>2, SequenceInduction
<1>4. QED BY <1>3 DEF S

\* Squeezing all lines at once gives the history that took in one after the other.
LEMMA SqueezedIsAppended ==
  ASSUME NEW h \in Seq(Lines), NoRepeats(h), NEW lines \in Seq(Lines)
  PROVE  Squeezed(h \o lines) = h \o Appended(h, lines) /\ NoRepeats(h \o Appended(h, lines))
<1> DEFINE A(l) == h \o Appended(h, l)
           S == {l \in Seq(Lines) : /\ Squeezed(h \o l) = A(l) /\ NoRepeats(A(l))
                                    /\ h \o l = <<>> <=> A(l) = <<>>
                                    /\ h \o l # <<>> => Last(h \o l) = Last(A(l))}
<1>1. <<>> \in S
  <2>1. h \o <<>> = h /\ Appended(h, <<>>) = <<>> /\ <<>> \in Seq(Lines)
    BY ConcatEmptySeq, AppendedNothing, EmptySeq
  <2>2. QED BY <2>1, SqueezedSame
<1>2. ASSUME NEW l \in Seq(Lines), NEW e \in Lines, l \in S PROVE Append(l, e) \in S
  <2> DEFINE new == Appended(h, l)
             all == h \o l
             old == h \o new
  <2>1. /\ new \in Seq(Lines) /\ all \in Seq(Lines) /\ old \in Seq(Lines)
        /\ Append(l, e) \in Seq(Lines)
    BY AppendedType, ConcatProperties, AppendProperties
  <2>2. h \o Append(l, e) = Append(all, e) /\ h \o Append(new, e) = Append(old, e)
    BY <2>1, ConcatAppend
  <2>3. A(Append(l, e)) = IF old # <<>> /\ Last(old) = e THEN old ELSE Append(old, e)
    <3>1. Appended(h, Append(l, e)) = AddLine(h, new, e)
      BY AppendedOneMore
    <3>2. QED BY <2>2, <3>1 DEF AddLine
  <2>4. /\ Squeezed(all) = old /\ NoRepeats(old)
        /\ all = <<>> <=> old = <<>>
        /\ all # <<>> => Last(all) = Last(old)
    BY <1>2
  <2> HIDE DEF new, all, old
  <2>5. Squeezed(Append(all, e)) = IF old # <<>> /\ Last(old) = e THEN old ELSE Append(old, e)
    <3>1. Squeezed(Append(all, e)) =
            IF all # <<>> /\ e = Last(all) THEN Squeezed(all) ELSE Append(Squeezed(all), e)
      BY <2>1, SqueezedOneMore
    <3>2. CASE old # <<>> /\ Last(old) = e
      <4>1. all # <<>> /\ e = Last(all)
        BY <2>4, <3>2
      <4>2. QED BY <2>4, <3>1, <3>2, <4>1
    <3>3. CASE ~(old # <<>> /\ Last(old) = e)
      <4>1. ~(all # <<>> /\ e = Last(all))
        BY <2>4, <3>3
      <4>2. QED BY <2>4, <3>1, <3>3, <4>1
    <3>4. QED BY <3>2, <3>3
  <2>6. NoRepeats(IF old # <<>> /\ Last(old) = e THEN old ELSE Append(old, e))
    <3>1. NoRepeats(Append(old, e)) <=> NoRepeats(old) /\ (old # <<>> => Last(old) # e)
      BY <2>1, NoRepeatsAppend
    <3>2. CASE old # <<>> /\ Last(old) = e
      <4>1. NoRepeats(old)
        BY <2>4
      <4>2. QED BY <3>2, <4>1
    <3>3. CASE ~(old # <<>> /\ Last(old) = e)
      <4>1. NoRepeats(Append(old, e))
        <5>1. NoRepeats(old)
          BY <2>4
        <5>2. QED BY <3>1, <3>3, <5>1
      <4>2. QED BY <3>3, <4>1
    <3>4. QED BY <3>2, <3>3
  <2>7. /\ Append(all, e) # <<>> /\ Append(old, e) # <<>>
        /\ Last(Append(all, e)) = e /\ Last(Append(old, e)) = e
    <3>1. ASSUME NEW s \in Seq(Lines) PROVE Append(s, e) # <<>> /\ Last(Append(s, e)) = e
      BY AppendProperties DEF Last
    <3>2. QED BY <2>1, <3>1
  <2> DEFINE B == A(Append(l, e))
  <2>8. /\ Squeezed(h \o Append(l, e)) = B
        /\ NoRepeats(B)
        /\ h \o Append(l, e) = <<>> <=> B = <<>>
        /\ h \o Append(l, e) # <<>> => Last(h \o Append(l, e)) = Last(B)
    <3> HIDE DEF A
    <3>1. CASE old # <<>> /\ Last(old) = e
      BY <2>2, <2>3, <2>5, <2>6, <2>7, <3>1
    <3>2. CASE ~(old # <<>> /\ Last(old) = e)
      BY <2>2, <2>3, <2>5, <2>6, <2>7, <3>2
    <3>3. QED BY <3>1, <3>2
  <2>9. QED BY <2>1, <2>8
<1> HIDE DEF S
<1>3. lines \in S
  BY <1>1, <1>2, SequenceInduction
<1>4. QED BY <1>3 DEF S

------------------------------------------------------------------------------
(* The lines that the rows since a break make up.                           *)

LastLineStep(rows) ==
  [p \in (1..Len(rows)) \X Lines |-> ((IF p[1] > 1 /\ rows[p[1] - 1].wrapped THEN p[2] ELSE <<>>) \o rows[p[1]].text)]

LEMMA LastLineStepType ==
  ASSUME NEW rows \in Seq(LineRows)
  PROVE  LastLineStep(rows) \in StepFunctions(Len(rows), Lines)
<1>1. ASSUME NEW p \in (1..Len(rows)) \X Lines
      PROVE  ((IF p[1] > 1 /\ rows[p[1] - 1].wrapped THEN p[2] ELSE <<>>) \o rows[p[1]].text) \in Lines
  <2>0. rows[p[1]] \in LineRows /\ p[2] \in Lines
    BY ElementOfSeq
  <2>a. <<>> \in Lines
    BY EmptySeq DEF Lines
  <2>1. rows[p[1]].text \in Lines /\ p[2] \in Lines /\ <<>> \in Lines
    BY <2>0, <2>a DEF LineRows
  <2>2. \A s \in Lines, t \in Lines : s \o t \in Lines
    BY ConcatProperties DEF Lines
  <2>3. QED BY <2>1, <2>2
<1>2. QED BY <1>1 DEF LastLineStep, StepFunctions

LEMMA LastLineByStep ==
  ASSUME NEW rows \in Seq(LineRows)
  PROVE  \E f : /\ LastLine(rows) = f[Len(rows)] /\ f[0] = <<>>
                /\ \A i \in 1..Len(rows) : f[i] = ((IF i > 1 /\ rows[i - 1].wrapped THEN f[i - 1] ELSE <<>>) \o rows[i].text)
<1> DEFINE n == Len(rows)
           Is(f) == f = [i \in 0..n |-> IF i = 0 THEN <<>> ELSE ((IF i > 1 /\ rows[i - 1].wrapped THEN f[i - 1] ELSE <<>>) \o rows[i].text)]
<1>1. n \in Nat /\ <<>> \in Lines
  BY EmptySeq DEF Lines
<1>2. PICK g \in [0..n -> Lines] :
        g[0] = <<>> /\ \A i \in 1..n : g[i] = LastLineStep(rows)[<<i, g[i - 1]>>]
  <2> DEFINE step == LastLineStep(rows)
             U == Lines
             start == <<>>
  <2>1. step \in StepFunctions(n, U) /\ start \in U /\ n \in Nat
    BY <1>1, LastLineStepType
  <2> HIDE DEF step, U, n, start
  <2>2. \E f \in [0..n -> U] : f[0] = start /\ Follows(f, step, n)
    BY <2>1, StepByStep
  <2>3. QED BY <2>2 DEF step, U, start, Follows
<1>3. \A i \in 1..n : g[i] = ((IF i > 1 /\ rows[i - 1].wrapped THEN g[i - 1] ELSE <<>>) \o rows[i].text)
  <2> SUFFICES ASSUME NEW i \in 1..n PROVE g[i] = ((IF i > 1 /\ rows[i - 1].wrapped THEN g[i - 1] ELSE <<>>) \o rows[i].text)
    OBVIOUS
  <2>1. i - 1 \in 0..n
    BY <1>1
  <2>2. <<i, g[i - 1]>> \in (1..n) \X Lines
    BY <1>2, <2>1
  <2>3. QED BY <1>2, <2>2 DEF LastLineStep
<1>4. ASSUME NEW i \in 0..n
      PROVE  g[i] = IF i = 0 THEN <<>> ELSE ((IF i > 1 /\ rows[i - 1].wrapped THEN g[i - 1] ELSE <<>>) \o rows[i].text)
  <2>1. CASE i = 0
    BY <1>2, <2>1
  <2>2. CASE i # 0
    <3>1. i \in 1..n
      BY <1>1, <2>2
    <3>2. g[i] = ((IF i > 1 /\ rows[i - 1].wrapped THEN g[i - 1] ELSE <<>>) \o rows[i].text)
      BY <1>3, <3>1
    <3>3. QED BY <2>2, <3>2
  <2>3. QED BY <2>1, <2>2
<1>5. Is(g)
  BY <1>2, <1>4
<1> DEFINE f == CHOOSE x : Is(x)
<1>6. Is(f)
  BY <1>5
<1>7. LastLine(rows) = f[n]
  BY DEF LastLine
<1> HIDE DEF f
<1>8. f[0] = <<>> /\ \A i \in 1..n : f[i] = ((IF i > 1 /\ rows[i - 1].wrapped THEN f[i - 1] ELSE <<>>) \o rows[i].text)
  <2>1. 0 \in 0..n /\ \A i \in 1..n : i \in 0..n /\ i # 0
    BY <1>1
  <2>2. QED BY <1>6, <2>1
<1>9. QED BY <1>7, <1>8

LEMMA LastLineOnce ==
  ASSUME NEW rows \in Seq(LineRows),
         NEW f, f[0] = <<>>, \A i \in 1..Len(rows) : f[i] = ((IF i > 1 /\ rows[i - 1].wrapped THEN f[i - 1] ELSE <<>>) \o rows[i].text)
  PROVE  LastLine(rows) = f[Len(rows)] /\ LastLine(rows) \in Lines
<1>1. PICK g : /\ LastLine(rows) = g[Len(rows)] /\ g[0] = <<>>
               /\ \A i \in 1..Len(rows) : g[i] = ((IF i > 1 /\ rows[i - 1].wrapped THEN g[i - 1] ELSE <<>>) \o rows[i].text)
  BY LastLineByStep
<1>2. \A x \in Lines, i \in 1..Len(rows) :
        LastLineStep(rows)[<<i, x>>] = ((IF i > 1 /\ rows[i - 1].wrapped THEN x ELSE <<>>) \o rows[i].text)
  BY DEF LastLineStep
<1>3. <<>> \in Lines /\ Len(rows) \in Nat
  BY EmptySeq DEF Lines
<1>4. \A i \in 1..Len(rows) :
        f[i - 1] \in Lines => f[i] = LastLineStep(rows)[<<i, f[i - 1]>>]
  BY <1>2
<1>5. \A i \in 1..Len(rows) :
        g[i - 1] \in Lines => g[i] = LastLineStep(rows)[<<i, g[i - 1]>>]
  BY <1>1, <1>2
<1>6. f[Len(rows)] = g[Len(rows)] /\ f[Len(rows)] \in Lines
  <2> DEFINE step == LastLineStep(rows)
             U == Lines
             n == Len(rows)
             start == <<>>
  <2>1. step \in StepFunctions(n, U) /\ start \in U /\ n \in Nat /\ f[0] = start /\ g[0] = start
    BY <1>1, <1>3, LastLineStepType
  <2>2. FollowsIn(f, step, n, U) /\ FollowsIn(g, step, n, U)
    BY <1>4, <1>5 DEF FollowsIn
  <2> HIDE DEF step, U, n, start
  <2>3. f[n] = g[n] /\ f[n] \in U
    BY <2>1, <2>2, OnlyOnce
  <2>4. QED BY <2>3 DEF U, n
<1>7. QED BY <1>1, <1>6

LEMMA LastLineType ==
  ASSUME NEW rows \in Seq(LineRows)
  PROVE  LastLine(rows) \in Lines
<1>1. PICK f : /\ LastLine(rows) = f[Len(rows)] /\ f[0] = <<>>
               /\ \A i \in 1..Len(rows) : f[i] = ((IF i > 1 /\ rows[i - 1].wrapped THEN f[i - 1] ELSE <<>>) \o rows[i].text)
  BY LastLineByStep
<1>2. QED BY <1>1, LastLineOnce

LEMMA LastLineNothing == LastLine(<<>>) = <<>>
<1>1. <<>> \in Seq(LineRows) /\ Len(<<>>) = 0
  BY EmptySeq
<1>2. QED BY <1>1, LastLineByStep

LEMMA LastLineOneMore ==
  ASSUME NEW rows \in Seq(LineRows), NEW e \in LineRows
  PROVE  LastLine(Append(rows, e)) = (IF rows # <<>> /\ Last(rows).wrapped THEN LastLine(rows) ELSE <<>>) \o e.text
<1> DEFINE n == Len(rows)
           more == Append(rows, e)
<1>1. n \in Nat /\ more \in Seq(LineRows) /\ Len(more) = n + 1
      /\ more[n + 1] = e /\ \A i \in 1..n : more[i] = rows[i]
  BY AppendProperties
<1> HIDE DEF more
<1>a. PICK f : /\ LastLine(more) = f[Len(more)] /\ f[0] = <<>>
               /\ \A i \in 1..Len(more) : f[i] = ((IF i > 1 /\ more[i - 1].wrapped THEN f[i - 1] ELSE <<>>) \o more[i].text)
  BY <1>1, LastLineByStep
<1>2. /\ LastLine(more) = f[n + 1] /\ f[0] = <<>>
      /\ \A i \in 1..(n + 1) : f[i] = ((IF i > 1 /\ more[i - 1].wrapped THEN f[i - 1] ELSE <<>>) \o more[i].text)
  BY <1>1, <1>a
<1>3. \A i \in 1..n : f[i] = ((IF i > 1 /\ rows[i - 1].wrapped THEN f[i - 1] ELSE <<>>) \o rows[i].text)
  <2> SUFFICES ASSUME NEW i \in 1..n PROVE f[i] = ((IF i > 1 /\ rows[i - 1].wrapped THEN f[i - 1] ELSE <<>>) \o rows[i].text)
    OBVIOUS
  <2>1. i \in 1..(n + 1) /\ more[i] = rows[i]
    BY <1>1
  <2>2. f[i] = ((IF i > 1 /\ more[i - 1].wrapped THEN f[i - 1] ELSE <<>>) \o more[i].text)
    BY <1>2, <2>1
  <2>3. i > 1 => more[i - 1] = rows[i - 1]
    BY <1>1
  <2>9. QED BY <2>1, <2>2, <2>3
<1>4. LastLine(rows) = f[n]
  BY <1>2, <1>3, LastLineOnce
<1>5. f[n + 1] = ((IF (n + 1) > 1 /\ more[(n + 1) - 1].wrapped THEN f[n] ELSE <<>>) \o more[(n + 1)].text)
  <2>1. n + 1 \in 1..(n + 1) /\ (n + 1) - 1 = n
    BY <1>1
  <2>2. f[n + 1] = ((IF (n + 1) > 1 /\ more[(n + 1) - 1].wrapped THEN f[(n + 1) - 1] ELSE <<>>) \o more[(n + 1)].text)
    BY <1>2, <2>1
  <2>3. QED BY <2>1, <2>2
<1>6. n + 1 > 1 <=> rows # <<>>
  BY <1>1, EmptySeq
<1>7. n + 1 > 1 => more[(n + 1) - 1] = Last(rows)
  <2>1. (n + 1) - 1 = n /\ (n + 1 > 1 => n \in 1..n)
    BY <1>1
  <2>2. QED BY <1>1, <2>1 DEF Last
<1>9. QED BY <1>1, <1>2, <1>4, <1>5, <1>6, <1>7 DEF more

LEMMA FrontOfAppend ==
  ASSUME NEW S, NEW s \in Seq(S), NEW e \in S, NEW i \in 1..Len(s)
  PROVE  SubSeq(Append(s, e), 1, i) = SubSeq(s, 1, i)
<1>1. <<e>> \in Seq(S) /\ Append(s, e) = s \o <<e>>
  BY AppendIsConcat
<1>2. 1 \in 1..Len(s)
  BY LenProperties
<1>3. SubSeq(s \o <<e>>, 1, i) = SubSeq(s, 1, i)
  BY <1>1, <1>2, SubSeqOfConcat1
<1>4. QED BY <1>1, <1>3

LEMMA FrontType ==
  ASSUME NEW S, NEW s \in Seq(S), NEW i \in 1..Len(s)
  PROVE  SubSeq(s, 1, i) \in Seq(S)
<1>1. \A j \in 1..i : s[j] \in S
  <2>1. \A j \in 1..i : j \in 1..Len(s)
    BY LenProperties
  <2>2. QED BY <2>1, ElementOfSeq
<1>2. 1 \in Int /\ i \in Int
  OBVIOUS
<1>3. QED BY <1>1, <1>2, SubSeqProperties

LinesStep(rows) ==
  [p \in (1..Len(rows)) \X Seq(Lines) |-> (IF rows[p[1]].wrapped THEN p[2] ELSE Append(p[2], LastLine(SubSeq(rows, 1, p[1]))))]

LEMMA LinesStepType ==
  ASSUME NEW rows \in Seq(LineRows)
  PROVE  LinesStep(rows) \in StepFunctions(Len(rows), Seq(Lines))
<1>1. ASSUME NEW p \in (1..Len(rows)) \X Seq(Lines)
      PROVE  (IF rows[p[1]].wrapped THEN p[2] ELSE Append(p[2], LastLine(SubSeq(rows, 1, p[1])))) \in Seq(Lines)
  <2>1. SubSeq(rows, 1, p[1]) \in Seq(LineRows) /\ p[2] \in Seq(Lines)
    BY FrontType
  <2>2. LastLine(SubSeq(rows, 1, p[1])) \in Lines
    BY <2>1, LastLineType
  <2>3. QED BY <2>1, <2>2, AppendProperties
<1>2. QED BY <1>1 DEF LinesStep, StepFunctions

LEMMA LinesOfByStep ==
  ASSUME NEW rows \in Seq(LineRows)
  PROVE  \E f : /\ LinesOf(rows) = f[Len(rows)] /\ f[0] = <<>>
                /\ \A i \in 1..Len(rows) : f[i] = (IF rows[i].wrapped THEN f[i - 1] ELSE Append(f[i - 1], LastLine(SubSeq(rows, 1, i))))
<1> DEFINE n == Len(rows)
           Is(f) == f = [i \in 0..n |-> IF i = 0 THEN <<>> ELSE (IF rows[i].wrapped THEN f[i - 1] ELSE Append(f[i - 1], LastLine(SubSeq(rows, 1, i))))]
<1>1. n \in Nat /\ <<>> \in Seq(Lines)
  BY EmptySeq
<1>2. PICK g \in [0..n -> Seq(Lines)] :
        g[0] = <<>> /\ \A i \in 1..n : g[i] = LinesStep(rows)[<<i, g[i - 1]>>]
  <2> DEFINE step == LinesStep(rows)
             U == Seq(Lines)
             start == <<>>
  <2>1. step \in StepFunctions(n, U) /\ start \in U /\ n \in Nat
    BY <1>1, LinesStepType
  <2> HIDE DEF step, U, n, start
  <2>2. \E f \in [0..n -> U] : f[0] = start /\ Follows(f, step, n)
    BY <2>1, StepByStep
  <2>3. QED BY <2>2 DEF step, U, start, Follows
<1>3. \A i \in 1..n : g[i] = (IF rows[i].wrapped THEN g[i - 1] ELSE Append(g[i - 1], LastLine(SubSeq(rows, 1, i))))
  <2> SUFFICES ASSUME NEW i \in 1..n PROVE g[i] = (IF rows[i].wrapped THEN g[i - 1] ELSE Append(g[i - 1], LastLine(SubSeq(rows, 1, i))))
    OBVIOUS
  <2>1. i - 1 \in 0..n
    BY <1>1
  <2>2. <<i, g[i - 1]>> \in (1..n) \X Seq(Lines)
    BY <1>2, <2>1
  <2>3. QED BY <1>2, <2>2 DEF LinesStep
<1>4. ASSUME NEW i \in 0..n
      PROVE  g[i] = IF i = 0 THEN <<>> ELSE (IF rows[i].wrapped THEN g[i - 1] ELSE Append(g[i - 1], LastLine(SubSeq(rows, 1, i))))
  <2>1. CASE i = 0
    BY <1>2, <2>1
  <2>2. CASE i # 0
    <3>1. i \in 1..n
      BY <1>1, <2>2
    <3>2. g[i] = (IF rows[i].wrapped THEN g[i - 1] ELSE Append(g[i - 1], LastLine(SubSeq(rows, 1, i))))
      BY <1>3, <3>1
    <3>3. QED BY <2>2, <3>2
  <2>3. QED BY <2>1, <2>2
<1>5. Is(g)
  BY <1>2, <1>4
<1> DEFINE f == CHOOSE x : Is(x)
<1>6. Is(f)
  BY <1>5
<1>7. LinesOf(rows) = f[n]
  BY DEF LinesOf
<1> HIDE DEF f
<1>8. f[0] = <<>> /\ \A i \in 1..n : f[i] = (IF rows[i].wrapped THEN f[i - 1] ELSE Append(f[i - 1], LastLine(SubSeq(rows, 1, i))))
  <2>1. 0 \in 0..n /\ \A i \in 1..n : i \in 0..n /\ i # 0
    BY <1>1
  <2>2. QED BY <1>6, <2>1
<1>9. QED BY <1>7, <1>8

LEMMA LinesOfOnce ==
  ASSUME NEW rows \in Seq(LineRows),
         NEW f, f[0] = <<>>, \A i \in 1..Len(rows) : f[i] = (IF rows[i].wrapped THEN f[i - 1] ELSE Append(f[i - 1], LastLine(SubSeq(rows, 1, i))))
  PROVE  LinesOf(rows) = f[Len(rows)] /\ LinesOf(rows) \in Seq(Lines)
<1>1. PICK g : /\ LinesOf(rows) = g[Len(rows)] /\ g[0] = <<>>
               /\ \A i \in 1..Len(rows) : g[i] = (IF rows[i].wrapped THEN g[i - 1] ELSE Append(g[i - 1], LastLine(SubSeq(rows, 1, i))))
  BY LinesOfByStep
<1>2. \A x \in Seq(Lines), i \in 1..Len(rows) :
        LinesStep(rows)[<<i, x>>] = (IF rows[i].wrapped THEN x ELSE Append(x, LastLine(SubSeq(rows, 1, i))))
  BY DEF LinesStep
<1>3. <<>> \in Seq(Lines) /\ Len(rows) \in Nat
  BY EmptySeq
<1>4. \A i \in 1..Len(rows) :
        f[i - 1] \in Seq(Lines) => f[i] = LinesStep(rows)[<<i, f[i - 1]>>]
  BY <1>2
<1>5. \A i \in 1..Len(rows) :
        g[i - 1] \in Seq(Lines) => g[i] = LinesStep(rows)[<<i, g[i - 1]>>]
  BY <1>1, <1>2
<1>6. f[Len(rows)] = g[Len(rows)] /\ f[Len(rows)] \in Seq(Lines)
  <2> DEFINE step == LinesStep(rows)
             U == Seq(Lines)
             n == Len(rows)
             start == <<>>
  <2>1. step \in StepFunctions(n, U) /\ start \in U /\ n \in Nat /\ f[0] = start /\ g[0] = start
    BY <1>1, <1>3, LinesStepType
  <2>2. FollowsIn(f, step, n, U) /\ FollowsIn(g, step, n, U)
    BY <1>4, <1>5 DEF FollowsIn
  <2> HIDE DEF step, U, n, start
  <2>3. f[n] = g[n] /\ f[n] \in U
    BY <2>1, <2>2, OnlyOnce
  <2>4. QED BY <2>3 DEF U, n
<1>7. QED BY <1>1, <1>6

LEMMA LinesOfType ==
  ASSUME NEW rows \in Seq(LineRows)
  PROVE  LinesOf(rows) \in Seq(Lines)
<1>1. PICK f : /\ LinesOf(rows) = f[Len(rows)] /\ f[0] = <<>>
               /\ \A i \in 1..Len(rows) : f[i] = (IF rows[i].wrapped THEN f[i - 1] ELSE Append(f[i - 1], LastLine(SubSeq(rows, 1, i))))
  BY LinesOfByStep
<1>2. QED BY <1>1, LinesOfOnce

LEMMA LinesOfNothing == LinesOf(<<>>) = <<>>
<1>1. <<>> \in Seq(LineRows) /\ Len(<<>>) = 0
  BY EmptySeq
<1>2. QED BY <1>1, LinesOfByStep

LEMMA LinesOfOneMore ==
  ASSUME NEW rows \in Seq(LineRows), NEW e \in LineRows
  PROVE  LinesOf(Append(rows, e)) = IF e.wrapped THEN LinesOf(rows) ELSE Append(LinesOf(rows), LastLine(Append(rows, e)))
<1> DEFINE n == Len(rows)
           more == Append(rows, e)
<1>1. n \in Nat /\ more \in Seq(LineRows) /\ Len(more) = n + 1
      /\ more[n + 1] = e /\ \A i \in 1..n : more[i] = rows[i]
  BY AppendProperties
<1> HIDE DEF more
<1>2. PICK f : /\ LinesOf(more) = f[n + 1] /\ f[0] = <<>>
               /\ \A i \in 1..(n + 1) : f[i] = (IF more[i].wrapped THEN f[i - 1] ELSE Append(f[i - 1], LastLine(SubSeq(more, 1, i))))
  BY <1>1, LinesOfByStep
<1>3. \A i \in 1..n : f[i] = (IF rows[i].wrapped THEN f[i - 1] ELSE Append(f[i - 1], LastLine(SubSeq(rows, 1, i))))
  <2> SUFFICES ASSUME NEW i \in 1..n PROVE f[i] = (IF rows[i].wrapped THEN f[i - 1] ELSE Append(f[i - 1], LastLine(SubSeq(rows, 1, i))))
    OBVIOUS
  <2>1. i \in 1..(n + 1) /\ more[i] = rows[i]
    BY <1>1
  <2>2. f[i] = (IF more[i].wrapped THEN f[i - 1] ELSE Append(f[i - 1], LastLine(SubSeq(more, 1, i))))
    BY <1>2, <2>1
  <2>3. SubSeq(more, 1, i) = SubSeq(rows, 1, i)
    BY FrontOfAppend DEF more
  <2>9. QED BY <2>1, <2>2, <2>3
<1>4. LinesOf(rows) = f[n]
  BY <1>2, <1>3, LinesOfOnce
<1>5. f[n + 1] = (IF more[(n + 1)].wrapped THEN f[n] ELSE Append(f[n], LastLine(SubSeq(more, 1, (n + 1)))))
  <2>1. n + 1 \in 1..(n + 1) /\ (n + 1) - 1 = n
    BY <1>1
  <2>2. f[n + 1] = (IF more[(n + 1)].wrapped THEN f[(n + 1) - 1] ELSE Append(f[(n + 1) - 1], LastLine(SubSeq(more, 1, (n + 1)))))
    BY <1>2, <2>1
  <2>3. QED BY <2>1, <2>2
<1>6. SubSeq(more, 1, n + 1) = more
  BY <1>1, SubSeqFull
<1>9. QED BY <1>1, <1>2, <1>4, <1>5, <1>6 DEF more

\* Joining rows to an open line gives the lines that the rows make up with it.
LEMMA JoinedIsLines ==
  ASSUME NEW pending \in Lines, NEW rows \in Seq(LineRows)
  PROVE  Joined(pending, rows).lines
           = LinesOf(<<[text |-> pending, wrapped |-> TRUE]>> \o rows)
<1> DEFINE open == [text |-> pending, wrapped |-> TRUE]
           R(r) == <<open>> \o r
           S == {r \in Seq(LineRows) :
                   /\ LinesOf(R(r)) = Joined(pending, r).lines
                   /\ (IF Last(R(r)).wrapped THEN LastLine(R(r)) ELSE <<>>)
                        = Joined(pending, r).pending}
<1>0. open \in LineRows /\ <<>> \in Seq(LineRows) /\ <<>> \in Seq(Lines)
      /\ <<open>> = Append(<<>>, open) /\ <<open>> \in Seq(LineRows)
  BY EmptySeq DEF LineRows
<1>1. <<>> \in S
  <2>1. R(<<>>) = Append(<<>>, open)
    BY <1>0, ConcatEmptySeq
  <2>2. /\ open.wrapped /\ open.text = pending
        /\ Last(Append(<<>>, open)) = open
    BY <1>0, ConcatAppend
  <2>3. LastLine(Append(<<>>, open)) = pending
    <3>1. LastLine(Append(<<>>, open)) = <<>> \o open.text
      BY <1>0, LastLineOneMore
    <3>2. <<>> \o pending = pending
      BY ConcatEmptySeq DEF Lines
    <3>3. QED BY <2>2, <3>1, <3>2
  <2>4. LinesOf(Append(<<>>, open)) = <<>>
    BY <1>0, <2>2, LinesOfOneMore, LinesOfNothing
  <2>5. Joined(pending, <<>>) = [pending |-> pending, lines |-> <<>>]
    BY JoinedNothing
  <2> HIDE DEF open
  <2>6. QED BY <1>0, <2>1, <2>2, <2>3, <2>4, <2>5
<1>2. ASSUME NEW r \in Seq(LineRows), NEW e \in LineRows, r \in S PROVE Append(r, e) \in S
  <2> DEFINE joined == Joined(pending, r)
             front == R(r)
  <2>1. Append(r, e) \in Seq(LineRows)
    BY AppendProperties
  <2>2. front \in Seq(LineRows) /\ R(Append(r, e)) = Append(front, e) /\ front # <<>>
    <3>1. R(Append(r, e)) = Append(R(r), e)
      BY <1>0, ConcatAppend
    <3>2. R(r) \in Seq(LineRows) /\ R(r) # <<>>
      BY <1>0, ConcatProperties, ConcatEqualIffEmpty
    <3>3. QED BY <3>1, <3>2
  <2>3. joined \in JoinedLines /\ e.wrapped \in BOOLEAN /\ e.text \in Lines
    BY JoinedType DEF LineRows
  <2>4. /\ LinesOf(front) = joined.lines
        /\ (IF Last(front).wrapped THEN LastLine(front) ELSE <<>>) = joined.pending
    BY <1>2
  <2>5. Joined(pending, Append(r, e)) = JoinRow(joined, e)
    BY JoinedOneMore
  <2> HIDE DEF front, joined
  <2>6. LastLine(Append(front, e)) = joined.pending \o e.text
    <3>1. LastLine(Append(front, e)) =
            (IF front # <<>> /\ Last(front).wrapped THEN LastLine(front) ELSE <<>>) \o e.text
      BY <2>2, LastLineOneMore
    <3>2. QED BY <2>2, <2>4, <3>1
  <2>7. Last(Append(front, e)) = e
    BY <2>2, AppendProperties DEF Last
  <2>8. LinesOf(Append(front, e)) =
          IF e.wrapped THEN joined.lines ELSE Append(joined.lines, joined.pending \o e.text)
    BY <2>2, <2>4, <2>6, LinesOfOneMore
  <2>9. JoinRow(joined, e).lines =
          IF e.wrapped THEN joined.lines ELSE Append(joined.lines, joined.pending \o e.text)
    BY <2>3 DEF JoinRow, JoinedLines
  <2>10. JoinRow(joined, e).pending = IF e.wrapped THEN joined.pending \o e.text ELSE <<>>
    BY <2>3 DEF JoinRow, JoinedLines
  <2>11. /\ LinesOf(R(Append(r, e))) = Joined(pending, Append(r, e)).lines
         /\ (IF Last(R(Append(r, e))).wrapped THEN LastLine(R(Append(r, e))) ELSE <<>>)
              = Joined(pending, Append(r, e)).pending
    <3> HIDE DEF R
    <3>1. QED BY <2>2, <2>5, <2>6, <2>7, <2>8, <2>9, <2>10
  <2>12. QED BY <2>1, <2>11
<1> HIDE DEF S
<1>3. rows \in S
  BY <1>1, <1>2, SequenceInduction
<1>4. QED BY <1>3 DEF S

\* Rows that come in two goes.
LEMMA JoinedConcat ==
  ASSUME NEW pending \in Lines, NEW rows \in Seq(LineRows), NEW more \in Seq(LineRows)
  PROVE  LET first == Joined(pending, rows)
             then == Joined(first.pending, more)
         IN Joined(pending, rows \o more)
              = [pending |-> then.pending, lines |-> first.lines \o then.lines]
<1> DEFINE first == Joined(pending, rows)
           then(r) == Joined(first.pending, r)
           S == {r \in Seq(LineRows) :
                   Joined(pending, rows \o r)
                     = [pending |-> then(r).pending, lines |-> first.lines \o then(r).lines]}
<1>0. first \in JoinedLines /\ <<>> \in Seq(LineRows)
  BY JoinedType, EmptySeq
<1>a. first.pending \in Lines /\ first.lines \in Seq(Lines)
      /\ first = [pending |-> first.pending, lines |-> first.lines]
  BY <1>0 DEF JoinedLines
<1>1. <<>> \in S
  <2>1. rows \o <<>> = rows /\ first.lines \o <<>> = first.lines
    BY <1>a, ConcatEmptySeq
  <2>2. then(<<>>) = [pending |-> first.pending, lines |-> <<>>]
    BY <1>a, JoinedNothing
  <2> HIDE DEF first, then
  <2>3. QED BY <1>0, <1>a, <2>1, <2>2 DEF first
<1>2. ASSUME NEW r \in Seq(LineRows), NEW e \in LineRows, r \in S PROVE Append(r, e) \in S
  <2> DEFINE all == Joined(pending, rows \o r)
             t == then(r)
  <2>1. Append(r, e) \in Seq(LineRows) /\ rows \o r \in Seq(LineRows)
        /\ rows \o Append(r, e) = Append(rows \o r, e)
    BY AppendProperties, ConcatProperties, ConcatAppend
  <2>2. Joined(pending, rows \o Append(r, e)) = JoinRow(all, e)
    BY <2>1, JoinedOneMore
  <2>3. then(Append(r, e)) = JoinRow(t, e)
    BY <1>a, JoinedOneMore
  <2>4. all = [pending |-> t.pending, lines |-> first.lines \o t.lines]
    BY <1>2
  <2>5. t \in JoinedLines
    BY <1>a, JoinedType
  <2> HIDE DEF all, t, then, first
  <2>6. t.pending \in Lines /\ t.lines \in Seq(Lines) /\ e.text \in Lines
        /\ t.pending \o e.text \in Lines
    BY <2>5, ConcatProperties DEF JoinedLines, LineRows, Lines
  <2>7. first.lines \o Append(t.lines, t.pending \o e.text)
          = Append(first.lines \o t.lines, t.pending \o e.text)
    <3> DEFINE u == first.lines
               v == t.lines
               x == t.pending \o e.text
    <3>1. u \in Seq(Lines) /\ v \in Seq(Lines) /\ x \in Lines
      BY <1>a, <2>6
    <3> HIDE DEF u, v, x
    <3>2. u \o Append(v, x) = Append(u \o v, x)
      BY <3>1, ConcatAppend
    <3>3. QED BY <3>2 DEF u, v, x
  <2>8. JoinRow(all, e) = [pending |-> JoinRow(t, e).pending,
                           lines |-> first.lines \o JoinRow(t, e).lines]
    BY <2>4, <2>5, <2>6, <2>7 DEF JoinRow, JoinedLines
  <2>9. QED BY <2>1, <2>2, <2>3, <2>8 DEF first
<1> HIDE DEF S
<1>3. more \in S
  BY <1>1, <1>2, SequenceInduction
<1>4. QED BY <1>3 DEF S

------------------------------------------------------------------------------
(* What the tracker's operations do.                                        *)

Screens == {NoScreen} \union [1..AltRows -> AnyRow]

Trackers ==
  [history : Seq(Lines), pending : Lines, told : Seq(Lines),
   prevScrollback : Seq(Rows), prevAlt : Screens]

\* The lines that the history takes in when these rows scroll out.
News(history, pending, rows) == Appended(history, Joined(pending, rows).lines)

LEMMA SeqsGrow ==
  ASSUME NEW S, NEW T, S \subseteq T
  PROVE  Seq(S) \subseteq Seq(T)
BY SeqMonotonic

LEMMA RowTypes ==
  /\ Rows \subseteq AnyRow /\ AnyRow \subseteq LineRows
  /\ Seq(Rows) \subseteq Seq(LineRows) /\ Screens \subseteq Seq(LineRows)
<1>1. Letters \subseteq AltLetters /\ AltRows \in Nat
  BY ConstantsAssumption
<1>2. <<>> \in Lines /\ \A letter \in AltLetters : <<letter>> \in Lines
  BY EmptySeq DEF Lines
<1>3. Rows \subseteq AnyRow
  BY <1>1 DEF Rows, AnyRow, RowsOf
<1>4. AnyRow \subseteq LineRows
  BY <1>2 DEF AnyRow, RowsOf, LineRows
<1>5. Rows \subseteq LineRows
  BY <1>3, <1>4
<1>6. Seq(Rows) \subseteq Seq(LineRows)
  BY <1>5, SeqsGrow
<1>7. [1..AltRows -> AnyRow] \subseteq Seq(AnyRow)
  BY <1>1, SeqDef
<1>8. Seq(AnyRow) \subseteq Seq(LineRows)
  BY <1>4, SeqsGrow
<1>9. <<>> \in Seq(LineRows)
  BY EmptySeq
<1>10. Screens \subseteq Seq(LineRows)
  BY <1>7, <1>8, <1>9 DEF Screens, NoScreen
<1>11. QED BY <1>3, <1>4, <1>6, <1>10

\* What the history takes in, so does the list of told lines.
Gains(t, u) ==
  /\ \E new \in Seq(Lines) : /\ u.history = LastOf(t.history \o new, MAX_HISTORY_LINES)
                             /\ u.told = t.told \o new
  /\ NoRepeats(t.history) => NoRepeats(u.history)

LEMMA GainsTwice ==
  ASSUME NEW t \in Trackers, NEW u \in Trackers, NEW v \in Trackers, Gains(t, u), Gains(u, v)
  PROVE  Gains(t, v)
<1> DEFINE M == MAX_HISTORY_LINES
<1>0. M \in Nat
  BY ConstantsAssumption
<1>1. PICK a \in Seq(Lines) : u.history = LastOf(t.history \o a, M) /\ u.told = t.told \o a
  BY DEF Gains
<1>2. PICK b \in Seq(Lines) : v.history = LastOf(u.history \o b, M) /\ v.told = u.told \o b
  BY DEF Gains
<1>3. t.history \in Seq(Lines) /\ t.told \in Seq(Lines)
  BY DEF Trackers
<1>4. (t.history \o a) \o b = t.history \o (a \o b) /\ (t.told \o a) \o b = t.told \o (a \o b)
  <2>1. \A x \in Seq(Lines) : (x \o a) \o b = x \o (a \o b)
    BY ConcatAssociative
  <2>2. QED BY <1>3, <2>1
<1>5. a \o b \in Seq(Lines) /\ t.history \o a \in Seq(Lines)
  BY <1>3, ConcatProperties
<1> HIDE DEF M
<1>6. LastOf(LastOf(t.history \o a, M) \o b, M) = LastOf((t.history \o a) \o b, M)
  BY <1>0, <1>5, LastOfConcat
<1>7. v.history = LastOf(t.history \o (a \o b), M) /\ v.told = t.told \o (a \o b)
  BY <1>1, <1>2, <1>4, <1>6
<1>8. NoRepeats(t.history) => NoRepeats(v.history)
  BY DEF Gains
<1>9. QED BY <1>5, <1>7, <1>8 DEF Gains, M

LEMMA ExtendHistoryIs ==
  ASSUME NEW t \in Trackers, NEW lines \in Seq(Lines)
  PROVE  LET u == ExtendHistory(t, lines)
             new == Appended(t.history, lines)
         IN /\ u \in Trackers /\ Gains(t, u) /\ Len(u.history) <= MAX_HISTORY_LINES
            /\ new \in Seq(Lines)
            /\ u.history = LastOf(t.history \o new, MAX_HISTORY_LINES)
            /\ u.pending = t.pending /\ u.prevScrollback = t.prevScrollback
            /\ u.prevAlt = t.prevAlt
<1> DEFINE u == ExtendHistory(t, lines)
           new == Appended(t.history, lines)
           all == t.history \o new
           kept == LastOf(all, MAX_HISTORY_LINES)
           told == t.told \o new
<1>1. MAX_HISTORY_LINES \in Nat
  BY ConstantsAssumption
<1>2. t.history \in Seq(Lines) /\ t.told \in Seq(Lines)
  BY DEF Trackers
<1>3. new \in Seq(Lines)
  BY AppendedType
<1>4. all \in Seq(Lines) /\ told \in Seq(Lines)
  BY <1>2, <1>3, ConcatProperties
<1>5. u = [t EXCEPT !.history = kept, !.told = told]
  BY DEF ExtendHistory
<1>6. NoRepeats(t.history) => NoRepeats(all)
  BY <1>2, SqueezedIsAppended
<1> HIDE DEF all, told, new
<1>7. kept \in Seq(Lines) /\ Len(kept) <= MAX_HISTORY_LINES
  <2>1. PICK n : n = Len(all)
    OBVIOUS
  <2>2. PICK m : m = Kept(n, MAX_HISTORY_LINES)
    OBVIOUS
  <2>3. QED BY <1>1, <1>4, <2>1, <2>2, LastOfIs
<1>8. NoRepeats(t.history) => NoRepeats(kept)
  BY <1>1, <1>4, <1>6, NoRepeatsLastOf
<1> HIDE DEF kept, u
<1>9. /\ u \in Trackers /\ u.history = kept /\ u.told = told /\ u.pending = t.pending
      /\ u.prevScrollback = t.prevScrollback /\ u.prevAlt = t.prevAlt
  BY <1>4, <1>5, <1>7 DEF Trackers
<1>10. Gains(t, u)
  BY <1>3, <1>8, <1>9 DEF Gains, kept, all, told
<1>11. QED BY <1>3, <1>7, <1>9, <1>10 DEF u, kept, all, new

LEMMA AppendRowsIs ==
  ASSUME NEW t \in Trackers, NEW rows \in Seq(LineRows)
  PROVE  LET u == AppendRows(t, rows)
             new == News(t.history, t.pending, rows)
         IN /\ u \in Trackers /\ Gains(t, u) /\ Len(u.history) <= MAX_HISTORY_LINES
            /\ new \in Seq(Lines)
            /\ u.history = LastOf(t.history \o new, MAX_HISTORY_LINES)
            /\ u.pending = Joined(t.pending, rows).pending
            /\ u.prevScrollback = t.prevScrollback /\ u.prevAlt = t.prevAlt
<1> DEFINE joined == Joined(t.pending, rows)
           s == [t EXCEPT !.pending = joined.pending]
<1>1. t.pending \in Lines
  BY DEF Trackers
<1>2. joined \in JoinedLines
  BY <1>1, JoinedType
<1>3. joined.pending \in Lines /\ joined.lines \in Seq(Lines)
  BY <1>2 DEF JoinedLines
<1>4. AppendRows(t, rows) = ExtendHistory(s, joined.lines)
  BY DEF AppendRows
<1>5. News(t.history, t.pending, rows) = Appended(t.history, joined.lines)
  BY DEF News
<1> HIDE DEF joined
<1>6. /\ s \in Trackers /\ s.history = t.history /\ s.told = t.told
      /\ s.pending = joined.pending /\ s.prevScrollback = t.prevScrollback
      /\ s.prevAlt = t.prevAlt
  BY <1>3 DEF Trackers
<1> HIDE DEF s
<1> DEFINE u == ExtendHistory(s, joined.lines)
           new == Appended(s.history, joined.lines)
<1>7. /\ u \in Trackers /\ Gains(s, u) /\ Len(u.history) <= MAX_HISTORY_LINES
      /\ new \in Seq(Lines)
      /\ u.history = LastOf(s.history \o new, MAX_HISTORY_LINES)
      /\ u.pending = s.pending /\ u.prevScrollback = s.prevScrollback
      /\ u.prevAlt = s.prevAlt
  BY <1>3, <1>6, ExtendHistoryIs
<1> HIDE DEF u, new
<1>8. Gains(t, u)
  BY <1>6, <1>7 DEF Gains
<1>9. QED BY <1>4, <1>5, <1>6, <1>7, <1>8 DEF u, new, joined

\* No rows change nothing.
LEMMA NoNews ==
  ASSUME NEW history \in Seq(Lines), NEW pending \in Lines
  PROVE  /\ News(history, pending, <<>>) = <<>>
         /\ Joined(pending, <<>>).pending = pending
         /\ Len(history) <= MAX_HISTORY_LINES
              => history = LastOf(history \o News(history, pending, <<>>), MAX_HISTORY_LINES)
<1>1. Joined(pending, <<>>) = [pending |-> pending, lines |-> <<>>]
  BY JoinedNothing
<1>2. News(history, pending, <<>>) = <<>>
  BY <1>1, AppendedNothing DEF News
<1>3. history \o <<>> = history
  BY ConcatEmptySeq
<1>4. MAX_HISTORY_LINES \in Nat
  BY ConstantsAssumption
<1>5. Len(history) <= MAX_HISTORY_LINES => history = LastOf(history, MAX_HISTORY_LINES)
  BY <1>4, LastOfAll
<1>6. Joined(pending, <<>>).pending = pending
  BY <1>1
<1>7. history \o News(history, pending, <<>>) = history
  BY <1>2, <1>3
<1>8. QED BY <1>2, <1>5, <1>6, <1>7

\* Rows that scroll out in two goes.
LEMMA NewsTwice ==
  ASSUME NEW history \in Seq(Lines), NEW pending \in Lines,
         NEW rows \in Seq(LineRows), NEW more \in Seq(LineRows),
         NEW between \in Seq(Lines),
         between = LastOf(history \o News(history, pending, rows), MAX_HISTORY_LINES),
         NEW open \in Lines, open = Joined(pending, rows).pending
  PROVE  /\ LastOf(between \o News(between, open, more), MAX_HISTORY_LINES)
              = LastOf(history \o News(history, pending, rows \o more), MAX_HISTORY_LINES)
         /\ Joined(open, more).pending = Joined(pending, rows \o more).pending
<1> DEFINE M == MAX_HISTORY_LINES
           first == Joined(pending, rows)
           next == Joined(open, more)
           a == Appended(history, first.lines)
           all == history \o a
           b == Appended(all, next.lines)
<1>1. M \in Nat \ {0}
  BY ConstantsAssumption
<1>2. first \in JoinedLines /\ next \in JoinedLines
  BY JoinedType
<1>3. first.lines \in Seq(Lines) /\ next.lines \in Seq(Lines)
  BY <1>2 DEF JoinedLines
<1>4. Joined(pending, rows \o more)
        = [pending |-> next.pending, lines |-> first.lines \o next.lines]
  BY JoinedConcat
<1>5. News(history, pending, rows) = a /\ News(between, open, more) = Appended(between, next.lines)
      /\ News(history, pending, rows \o more) = Appended(history, first.lines \o next.lines)
  BY <1>4 DEF News
<1> HIDE DEF first, next, M
<1>6. a \in Seq(Lines)
  BY <1>3, AppendedType
<1>7. all \in Seq(Lines)
  BY <1>6, ConcatProperties
<1>8. b \in Seq(Lines)
  BY <1>3, <1>7, AppendedType
<1>9. Appended(history, first.lines \o next.lines) = a \o b
  BY <1>3, AppendedConcat
<1> HIDE DEF a
<1>10. between = LastOf(all, M)
  BY <1>5 DEF M
<1>11. /\ all = <<>> <=> between = <<>>
       /\ all # <<>> => Last(between) = Last(all)
  BY <1>1, <1>7, <1>10, LastOfLast
<1> HIDE DEF all
<1>12. Appended(between, next.lines) = b
  <2>1. Appended(between, next.lines) = Appended(all, next.lines)
    BY <1>3, <1>7, <1>11, AppendedByLast
  <2>2. QED BY <2>1
<1> HIDE DEF b
<1>13. LastOf(LastOf(all, M) \o b, M) = LastOf(all \o b, M)
  BY <1>1, <1>7, <1>8, LastOfConcat
<1>14. all \o b = history \o (a \o b)
  BY <1>6, <1>8, ConcatAssociative DEF all
<1>15. QED BY <1>4, <1>5, <1>9, <1>10, <1>12, <1>13, <1>14 DEF M, next

------------------------------------------------------------------------------
(* What an observation takes for new.                                       *)

LEMMA MaxIs ==
  ASSUME NEW bound \in Nat, NEW S \in SUBSET (0..bound), S # {}
  PROVE  Max(S) \in S /\ \A y \in S : Max(S) >= y
BY HasGreatest DEF Max

LEMMA OverlapsAre ==
  ASSUME NEW S, NEW previous \in Seq(S), NEW current \in Seq(S)
  PROVE  /\ Overlaps(previous, current) \subseteq 0..Len(current)
         /\ \A k \in Overlaps(previous, current) : k <= Len(previous)
         /\ 0 \in Overlaps(previous, current)
<1>0. PICK a \in Nat : a = Len(previous)
  OBVIOUS
<1>1. PICK b \in Nat : b = Len(current)
  OBVIOUS
<1>2. Min({a, b}) = IF a <= b THEN a ELSE b
  BY MinOfTwo
<1>3. \A k \in 0..Min({a, b}) : k \in 0..b /\ k <= a
  BY <1>2
<1>4. 0 \in 0..Min({a, b})
  BY <1>2
<1>5. LastOf(previous, 0) = <<>>
  <2>1. 0 = Kept(a, 0)
    BY DEF Kept
  <2>2. LastOf(previous, 0) \in Seq(S) /\ Len(LastOf(previous, 0)) = 0
    BY <1>0, <2>1, LastOfIs
  <2>3. QED BY <2>2, EmptySeq
<1>6. SubSeq(current, 1, 0) = <<>>
  BY SubSeqEmpty
<1>7. Overlaps(previous, current) =
        {k \in 0..Min({a, b}) : LastOf(previous, k) = SubSeq(current, 1, k)}
  BY <1>0, <1>1 DEF Overlaps
<1>8. QED BY <1>0, <1>1, <1>3, <1>4, <1>5, <1>6, <1>7

\* A part of a sequence.
Holds(s, lo, hi, S) == \A i \in lo..hi : s[i] \in S
IsPart(part, s, lo, k, S) ==
  part \in Seq(S) /\ Len(part) = k /\ \A i \in 1..k : part[i] = s[lo + i - 1]

LEMMA PartIs ==
  ASSUME NEW S, NEW s, NEW lo \in Int, NEW hi \in Int, NEW k \in Nat, hi = lo + k - 1,
         Holds(s, lo, hi, S)
  PROVE  IsPart(SubSeq(s, lo, hi), s, lo, k, S)
<1> DEFINE part == SubSeq(s, lo, hi)
<1>1. /\ part \in Seq(S) /\ Len(part) = IF lo <= hi THEN hi - lo + 1 ELSE 0
      /\ \A i \in 1..(hi - lo + 1) : part[i] = s[lo + i - 1]
  BY SubSeqProperties DEF Holds
<1> HIDE DEF part
<1>2. hi - lo + 1 = k
  OBVIOUS
<1>3. Len(part) = k
  BY <1>1
<1>4. \A i \in 1..k : part[i] = s[lo + i - 1]
  BY <1>1, <1>2
<1>5. QED BY <1>1, <1>3, <1>4 DEF part, IsPart

LEMMA RestOfSeq ==
  ASSUME NEW S, NEW s \in Seq(S), NEW k \in 0..Len(s)
  PROVE  SubSeq(s, k + 1, Len(s)) \in Seq(S)
<1>1. \A i \in (k + 1)..Len(s) : s[i] \in S
  <2>1. \A i \in (k + 1)..Len(s) : i \in 1..Len(s)
    OBVIOUS
  <2>2. QED BY <2>1, ElementOfSeq
<1>2. k + 1 \in Int /\ Len(s) \in Int
  BY LenProperties
<1>3. QED BY <1>1, <1>2, SubSeqProperties

\* What follows the overlap are some of the rows.
LEMMA NewRowsType ==
  ASSUME NEW S, NEW previous \in Seq(S), NEW current \in Seq(S)
  PROVE  SubSeq(current, OverlapSuffixPrefix(previous, current) + 1, Len(current)) \in Seq(S)
<1>1. Len(current) \in Nat
  BY LenProperties
<1>2. OverlapSuffixPrefix(previous, current) \in 0..Len(current)
  BY <1>1, OverlapsAre, MaxIs DEF OverlapSuffixPrefix
<1>3. QED BY <1>2, RestOfSeq

\* When nothing was dropped, the rows that follow the longest overlap are those that
\* scrolled out.
LEMMA NewRowsAreNew ==
  ASSUME NEW S, NEW previous \in Seq(S), NEW out \in Seq(S),
         NEW current, current = previous \o out
  PROVE  SubSeq(current, OverlapSuffixPrefix(previous, current) + 1, Len(current)) = out
<1>0. PICK a \in Nat : a = Len(previous)
  OBVIOUS
<1>1. PICK b \in Nat : b = Len(out)
  OBVIOUS
<1>2. current \in Seq(S) /\ Len(current) = a + b
      /\ \A i \in 1..(a + b) : current[i] = IF i <= a THEN previous[i] ELSE out[i - a]
  BY <1>0, <1>1, ConcatProperties
<1>3. a \in Overlaps(previous, current)
  <2>1. LastOf(previous, a) = previous
    BY <1>0, LastOfAll
  <2>2. SubSeq(current, 1, a) = previous
    <3> DEFINE front == SubSeq(current, 1, a)
    <3>1. \A i \in 1..a : current[i] = previous[i] /\ previous[i] \in S
      BY <1>0, <1>2, ElementOfSeq
    <3>2. front \in Seq(S) /\ Len(front) = a /\ \A i \in 1..a : front[i] = current[1 + i - 1]
      <4>1. a = 1 + a - 1 /\ a \in Int /\ 1 \in Int
        OBVIOUS
      <4>2. Holds(current, 1, a, S)
        BY <3>1 DEF Holds
      <4>3. IsPart(SubSeq(current, 1, a), current, 1, a, S)
        BY <4>1, <4>2, PartIs
      <4>4. QED BY <4>3 DEF IsPart
    <3> HIDE DEF front
    <3>3. \A i \in 1..a : 1 + i - 1 = i
      OBVIOUS
    <3>4. \A i \in 1..a : front[i] = previous[i]
      BY <3>1, <3>2, <3>3
    <3>5. front = previous
      BY <1>0, <3>2, <3>4, SeqEqual
    <3>6. QED BY <3>5 DEF front
  <2>3. a \in 0..Min({a, a + b})
    <3>1. Min({a, a + b}) = IF a <= a + b THEN a ELSE a + b
      BY MinOfTwo
    <3>2. QED BY <3>1
  <2>4. Overlaps(previous, current) =
          {k \in 0..Min({a, a + b}) : LastOf(previous, k) = SubSeq(current, 1, k)}
    BY <1>0, <1>2 DEF Overlaps
  <2>5. QED BY <2>1, <2>2, <2>3, <2>4
<1>4. OverlapSuffixPrefix(previous, current) = a
  <2> DEFINE all == Overlaps(previous, current)
  <2>0. PICK bound \in Nat : bound = a + b
    OBVIOUS
  <2>1. all \in SUBSET (0..bound) /\ all # {} /\ \A k \in all : k <= a
    BY <1>0, <1>2, <1>3, <2>0, OverlapsAre
  <2> HIDE DEF all
  <2>2. Max(all) \in all /\ \A y \in all : Max(all) >= y
    BY <2>1, MaxIs
  <2>3. a \in all
    BY <1>3 DEF all
  <2>a. PICK m : m = Max(all)
    OBVIOUS
  <2>b. m \in 0..bound /\ m <= a /\ m >= a
    BY <2>1, <2>2, <2>3, <2>a
  <2>4. Max(all) = a
    BY <2>a, <2>b
  <2>5. QED BY <2>4 DEF all, OverlapSuffixPrefix
<1>5. SubSeq(current, a + 1, a + b) = out
  <2> DEFINE rest == SubSeq(current, a + 1, a + b)
  <2>1. \A i \in (a + 1)..(a + b) : current[i] \in S
    BY <1>2, ElementOfSeq
  <2>2. rest \in Seq(S) /\ Len(rest) = b /\ \A i \in 1..b : rest[i] = current[a + 1 + i - 1]
    <3> DEFINE lo == a + 1
               hi == a + b
    <3>1. hi = lo + b - 1 /\ lo \in Int /\ hi \in Int
      OBVIOUS
    <3>2. Holds(current, lo, hi, S)
      BY <2>1 DEF Holds
    <3> DEFINE part == SubSeq(current, lo, hi)
    <3>3. part = rest
      OBVIOUS
    <3> HIDE DEF lo, hi, rest
    <3>4. IsPart(part, current, lo, b, S)
      BY <3>1, <3>2, PartIs
    <3> HIDE DEF part
    <3>5. QED BY <3>3, <3>4 DEF lo, IsPart
  <2> HIDE DEF rest
  <2>4. \A i \in 1..b : rest[i] = out[i]
    <3> SUFFICES ASSUME NEW i \in 1..b PROVE rest[i] = out[i]
      OBVIOUS
    <3>1. rest[i] = current[a + 1 + i - 1]
      BY <2>2
    <3>2. a + 1 + i - 1 = a + i /\ a + i \in 1..(a + b) /\ ~(a + i <= a) /\ (a + i) - a = i
      OBVIOUS
    <3>3. QED BY <1>2, <3>1, <3>2
  <2>5. rest = out
    BY <1>1, <2>2, <2>4, SeqEqual
  <2>6. QED BY <2>5 DEF rest
<1>6. QED BY <1>2, <1>4, <1>5

------------------------------------------------------------------------------
(* The rows that left the alternate screen.                                 *)

CandidateRecords(n) == [start : 1..n, shift : 1..n, matched : 0..n, contentful : 0..n]

\* The rows of next from start on that are those that were shift further down.
Same(previous, next, i, shift) == previous[i + shift].text = next[i].text
Run(previous, next, start, shift, k) ==
  \A i \in start..(start + k - 1) : Same(previous, next, i, shift)

LEMMA MatchedIs ==
  ASSUME NEW previous, NEW next, NEW n \in Nat, n = Len(previous),
         NEW start \in 1..n, NEW shift \in 1..n, start + shift <= n,
         NEW m, m = Matched(previous, next, start, shift)
  PROVE  /\ m \in 0..(n + 1 - start - shift) /\ Run(previous, next, start, shift, m)
         /\ \A k \in 0..(n + 1 - start - shift) : Run(previous, next, start, shift, k) => k <= m
<1> DEFINE bound == n + 1 - start - shift
           all == {k \in 0..bound : Run(previous, next, start, shift, k)}
<1>1. bound \in Nat
  OBVIOUS
<1>2. start..(start + 0 - 1) = {}
  OBVIOUS
<1>3. 0 \in all
  BY <1>1, <1>2 DEF Run
<1>4. m = Max(all)
  BY DEF Matched, Run, Same
<1>5. all \in SUBSET (0..bound)
  OBVIOUS
<1>6. m \in all /\ \A k \in all : m >= k
  <2> HIDE DEF all, bound
  <2>1. QED BY <1>1, <1>3, <1>4, <1>5, MaxIs
<1>7. \A k \in all : k <= m
  <2>1. m \in Int /\ \A k \in all : k \in Int
    BY <1>5, <1>6
  <2> HIDE DEF all
  <2>2. QED BY <1>6, <2>1
<1>8. QED BY <1>6, <1>7

LEMMA ContentfulIs ==
  ASSUME NEW S, NEW rows \in Seq(S)
  PROVE  Cardinality(Contentful(rows)) \in 0..Len(rows)
<1>1. PICK n \in Nat : n = Len(rows)
  OBVIOUS
<1>2. IsFiniteSet(1..n) /\ Cardinality(1..n) = n
  BY FS_Interval
<1>3. Contentful(rows) \in SUBSET (1..n)
  BY <1>1, LenProperties DEF Contentful
<1>4. IsFiniteSet(Contentful(rows)) /\ Cardinality(Contentful(rows)) <= n
  BY <1>2, <1>3, FS_Subset
<1>5. Cardinality(Contentful(rows)) \in Nat
  BY <1>4, FS_CardinalityType
<1>6. QED BY <1>1, <1>4, <1>5

LEMMA CandidateType ==
  ASSUME NEW S, NEW previous \in Seq(S), NEW next \in Seq(S),
         NEW n \in Nat, n = Len(previous), n = Len(next),
         NEW start \in 1..n, NEW shift \in 1..n, start + shift <= n
  PROVE  Candidate(previous, next, start, shift) \in CandidateRecords(n)
<1>1. PICK m : m = Matched(previous, next, start, shift)
  OBVIOUS
<1>2. m \in 0..(n + 1 - start - shift)
  BY <1>1, MatchedIs
<1> DEFINE same == SubSeq(next, start, start + m - 1)
           contentful == Cardinality(Contentful(same))
<1>3. \A i \in start..(start + m - 1) : next[i] \in S
  <2>1. \A i \in start..(start + m - 1) : i \in 1..Len(next)
    BY <1>2
  <2>2. QED BY <2>1, ElementOfSeq
<1>4. start \in Int /\ start + m - 1 \in Int /\ m \in 0..n
  BY <1>2
<1>5. same \in Seq(S) /\ Len(same) = IF start <= start + m - 1 THEN start + m - 1 - start + 1 ELSE 0
  BY <1>3, <1>4, SubSeqProperties
<1> HIDE DEF same
<1>6. contentful \in 0..Len(same) /\ Len(same) = m
  BY <1>4, <1>5, ContentfulIs
<1>7. contentful \in 0..n
  BY <1>4, <1>6
<1>8. Candidate(previous, next, start, shift)
        = [start |-> start, shift |-> shift, matched |-> m, contentful |-> contentful]
  BY <1>1 DEF Candidate, same
<1> HIDE DEF contentful
<1>9. QED BY <1>4, <1>7, <1>8 DEF CandidateRecords

\* Of some things with a measure one has the greatest.
LEMMA Greatest ==
  ASSUME NEW n \in Nat, NEW F, F # {}, NEW f \in [F -> 0..n]
  PROVE  \E c \in F : \A d \in F : f[c] >= f[d]
<1> DEFINE S == {f[c] : c \in F}
<1>1. S \in SUBSET (0..n) /\ S # {}
  OBVIOUS
<1>2. \A c \in F : f[c] \in S
  OBVIOUS
<1>3. \A x \in S : \E c \in F : x = f[c]
  OBVIOUS
<1> HIDE DEF S
<1>4. PICK x \in S : \A y \in S : x >= y
  BY <1>1, HasGreatest
<1>5. QED BY <1>2, <1>3, <1>4

\* The best candidate exists.
LEMMA BestExists ==
  ASSUME NEW n \in Nat, NEW found \in SUBSET CandidateRecords(n), found # {},
         \A c, d \in found : c.start = d.start /\ c.shift = d.shift => c = d
  PROVE  \E c \in found : \A d \in found \ {c} : Better(c, d)
<1>1. PICK a \in found : \A d \in found : a.matched >= d.matched
  <2> DEFINE f == [c \in found |-> c.matched]
  <2>1. f \in [found -> 0..n]
    BY DEF CandidateRecords
  <2>2. PICK c \in found : \A d \in found : f[c] >= f[d]
    <3> HIDE DEF f
    <3>1. QED BY <2>1, Greatest
  <2>3. QED BY <2>2
<1> DEFINE F2 == {c \in found : c.matched = a.matched}
<1>2. PICK b \in F2 : \A d \in F2 : b.contentful >= d.contentful
  <2> DEFINE f == [c \in F2 |-> c.contentful]
  <2>1. f \in [F2 -> 0..n] /\ F2 # {}
    BY DEF CandidateRecords
  <2>2. PICK c \in F2 : \A d \in F2 : f[c] >= f[d]
    <3> HIDE DEF f, F2
    <3>1. QED BY <2>1, Greatest
  <2>3. QED BY <2>2
<1> DEFINE F3 == {c \in F2 : c.contentful = b.contentful}
<1>3. PICK e \in F3 : \A d \in F3 : n - e.start >= n - d.start
  <2> DEFINE f == [c \in F3 |-> n - c.start]
  <2>1. f \in [F3 -> 0..n] /\ F3 # {}
    <3>1. \A c \in F3 : c.start \in 1..n
      BY DEF CandidateRecords
    <3>2. \A c \in F3 : n - c.start \in 0..n
      BY <3>1
    <3>3. b \in F3
      OBVIOUS
    <3> HIDE DEF F3
    <3>4. QED BY <3>2, <3>3
  <2>2. PICK c \in F3 : \A d \in F3 : f[c] >= f[d]
    <3> HIDE DEF f, F3
    <3>1. QED BY <2>1, Greatest
  <2>3. QED BY <2>2
<1> DEFINE F4 == {c \in F3 : c.start = e.start}
<1>4. PICK g \in F4 : \A d \in F4 : n - g.shift >= n - d.shift
  <2> DEFINE f == [c \in F4 |-> n - c.shift]
  <2>1. f \in [F4 -> 0..n] /\ F4 # {}
    <3>1. \A c \in F4 : c.shift \in 1..n
      BY DEF CandidateRecords
    <3>2. \A c \in F4 : n - c.shift \in 0..n
      BY <3>1
    <3>3. e \in F4
      OBVIOUS
    <3> HIDE DEF F4
    <3>4. QED BY <3>2, <3>3
  <2>2. PICK c \in F4 : \A d \in F4 : f[c] >= f[d]
    <3> HIDE DEF f, F4
    <3>1. QED BY <2>1, Greatest
  <2>3. QED BY <2>2
<1>5. /\ g \in found /\ g.matched = a.matched /\ g.contentful = b.contentful
      /\ g.start = e.start
  OBVIOUS
<1>6. ASSUME NEW d \in found \ {g} PROVE Better(g, d)
  <2>1. /\ d.matched \in Int /\ d.contentful \in Int /\ d.start \in Int /\ d.shift \in Int
        /\ g.matched \in Int /\ g.contentful \in Int /\ g.start \in Int /\ g.shift \in Int
    BY <1>5 DEF CandidateRecords
  <2>2. CASE d.matched # a.matched
    <3>1. a.matched > d.matched
      BY <1>1, <1>5, <2>1, <2>2
    <3>2. QED BY <1>5, <3>1 DEF Better
  <2>3. CASE d.matched = a.matched /\ d.contentful # b.contentful
    <3>1. b.contentful > d.contentful
      BY <1>2, <1>5, <2>1, <2>3
    <3>2. QED BY <1>5, <2>3, <3>1 DEF Better
  <2>4. CASE d \in F3 /\ d.start # e.start
    <3>1. n - g.start >= n - d.start
      BY <1>3, <1>5, <2>4
    <3>2. g.start < d.start
      BY <1>5, <2>1, <2>4, <3>1
    <3>3. QED BY <1>5, <2>4, <3>2 DEF Better
  <2>5. CASE d \in F4
    <3>1. n - g.shift >= n - d.shift /\ d.shift # g.shift
      BY <1>4, <1>5, <2>5
    <3>2. g.shift < d.shift
      BY <2>1, <3>1
    <3>3. QED BY <1>5, <2>5, <3>2 DEF Better
  <2>6. QED BY <2>2, <2>3, <2>4, <2>5
<1>7. QED BY <1>5, <1>6

\* What the tracker takes for scrolled away are rows of the picture it saw last.
LEMMA DetectType ==
  ASSUME NEW S, NEW previous \in Seq(S), NEW next \in Seq(S), Len(previous) = Len(next)
  PROVE  /\ DetectScrolledRows(previous, next) \in Seq(S)
         /\ Candidates(previous, next) # {} =>
              \E c \in Candidates(previous, next) :
                /\ c = CHOOSE x \in Candidates(previous, next) :
                         \A d \in Candidates(previous, next) \ {x} : Better(x, d)
                /\ \A d \in Candidates(previous, next) \ {c} : Better(c, d)
<1>1. PICK n \in Nat : n = Len(previous) /\ n = Len(next)
  OBVIOUS
<1> DEFINE found == Candidates(previous, next)
           Best(c) == \A d \in found \ {c} : Better(c, d)
<1>2. \A c \in found : \E start, shift \in 1..n :
        start + shift <= n /\ c = Candidate(previous, next, start, shift)
  BY <1>1 DEF Candidates, AllCandidates
<1>3. \A c \in found : c \in CandidateRecords(n) /\ c.start + c.shift <= n
  <2> SUFFICES ASSUME NEW c \in found PROVE c \in CandidateRecords(n) /\ c.start + c.shift <= n
    OBVIOUS
  <2>1. PICK start, shift \in 1..n :
          start + shift <= n /\ c = Candidate(previous, next, start, shift)
    BY <1>2
  <2>2. c \in CandidateRecords(n)
    BY <1>1, <2>1, CandidateType
  <2>3. c.start = start /\ c.shift = shift
    BY <2>1 DEF Candidate
  <2>4. QED BY <2>1, <2>2, <2>3
<1>4. \A c, d \in found : c.start = d.start /\ c.shift = d.shift => c = d
  <2>1. \A c \in found : c = Candidate(previous, next, c.start, c.shift)
    BY <1>2 DEF Candidate
  <2>2. QED BY <2>1
<1> HIDE DEF found
<1>5. found # {} => \E c \in found : c = (CHOOSE x \in found : Best(x)) /\ Best(c)
  <2>1. found # {} => \E c \in found : Best(c)
    BY <1>3, <1>4, BestExists
  <2> HIDE DEF Best
  <2>2. QED BY <2>1
<1>6. ASSUME NEW c \in found PROVE Removed(previous, c) \in Seq(S)
  <2>1. c.start \in 1..n /\ c.shift \in 1..n /\ c.start + c.shift <= n
    BY <1>3 DEF CandidateRecords
  <2>2. PICK lo \in 1..n : lo = c.start
    BY <2>1
  <2>3. PICK k \in 1..n : k = c.shift
    BY <2>1
  <2>4. PICK hi \in Int : hi = lo + k - 1
    OBVIOUS
  <2>5. hi <= n
    BY <2>1, <2>2, <2>3, <2>4
  <2>6. Holds(previous, lo, hi, S)
    <3>1. \A i \in lo..hi : i \in 1..Len(previous)
      BY <1>1, <2>5
    <3>2. QED BY <3>1, ElementOfSeq DEF Holds
  <2>a. lo \in Int /\ k \in Nat
    OBVIOUS
  <2>7. IsPart(SubSeq(previous, lo, hi), previous, lo, k, S)
    BY <2>4, <2>6, <2>a, PartIs
  <2>8. Removed(previous, c) = SubSeq(previous, lo, hi)
    BY <2>2, <2>3, <2>4 DEF Removed
  <2>9. QED BY <2>7, <2>8 DEF IsPart
<1>7. DetectScrolledRows(previous, next) =
        IF found = {} THEN <<>> ELSE Removed(previous, CHOOSE c \in found : Best(c))
  BY DEF DetectScrolledRows, found
<1>8. <<>> \in Seq(S)
  BY EmptySeq
<1>9. DetectScrolledRows(previous, next) \in Seq(S)
  <2> HIDE DEF Best
  <2>1. CASE found = {}
    BY <1>7, <1>8, <2>1
  <2>2. CASE found # {}
    <3>1. (CHOOSE x \in found : Best(x)) \in found
      BY <1>5, <2>2
    <3>2. QED BY <1>6, <1>7, <2>2, <3>1
  <2>3. QED BY <2>1, <2>2
<1>10. QED BY <1>5, <1>9 DEF found

------------------------------------------------------------------------------
(* Observing.                                                               *)

LEMMA ScreenLengths ==
  ASSUME NEW rows \in Screens, rows # NoScreen
  PROVE  rows \in [1..AltRows -> AnyRow] /\ rows \in Seq(LineRows) /\ Len(rows) = AltRows
<1>1. AltRows \in Nat
  BY ConstantsAssumption
<1>2. rows \in [1..AltRows -> AnyRow]
  BY DEF Screens
<1>3. rows \in Seq(LineRows)
  BY RowTypes
<1>4. DOMAIN rows = 1..AltRows
  BY <1>2
<1>5. Len(rows) = AltRows
  BY <1>1, <1>3, <1>4, LenProperties
<1>6. QED BY <1>2, <1>3, <1>5

LEMMA FlushIs ==
  ASSUME NEW t \in Trackers
  PROVE  LET u == Flush(t) IN
           /\ u \in Trackers /\ Gains(t, u) /\ Len(u.history) <= MAX_HISTORY_LINES
           /\ u.prevScrollback = t.prevScrollback /\ u.prevAlt = NoScreen
           /\ u.pending = <<>>
           /\ u.history = Flush([t EXCEPT !.told = <<>>]).history
<1> DEFINE from(x) == [x EXCEPT !.prevAlt = NoScreen]
           shown(x) == AppendRows(from(x), x.prevAlt)
           closed(x) == [shown(x) EXCEPT !.pending = <<>>]
           last(x) == <<shown(x).pending>>
           new(x) == News(x.history, x.pending, x.prevAlt)
           kept(x) == LastOf(x.history \o new(x), MAX_HISTORY_LINES)
           open(x) == Joined(x.pending, x.prevAlt).pending
<1>0. <<>> \in Lines /\ NoScreen \in Screens
  BY EmptySeq DEF Lines, Screens
<1>1. ASSUME NEW x \in Trackers
      PROVE  /\ shown(x) \in Trackers /\ Gains(x, shown(x))
             /\ Len(shown(x).history) <= MAX_HISTORY_LINES
             /\ shown(x).history = kept(x) /\ shown(x).pending = open(x)
             /\ shown(x).prevScrollback = x.prevScrollback /\ shown(x).prevAlt = NoScreen
  <2>1. /\ from(x) \in Trackers /\ from(x).history = x.history /\ from(x).told = x.told
        /\ from(x).pending = x.pending /\ from(x).prevScrollback = x.prevScrollback
        /\ from(x).prevAlt = NoScreen
    BY <1>0 DEF Trackers
  <2>2. x.prevAlt \in Seq(LineRows)
    BY RowTypes DEF Trackers
  <2> HIDE DEF from
  <2>3. LET f == from(x)
            u == AppendRows(f, x.prevAlt)
        IN /\ u \in Trackers /\ Gains(f, u) /\ Len(u.history) <= MAX_HISTORY_LINES
           /\ u.history = LastOf(f.history \o News(f.history, f.pending, x.prevAlt), MAX_HISTORY_LINES)
           /\ u.pending = Joined(f.pending, x.prevAlt).pending
           /\ u.prevScrollback = f.prevScrollback /\ u.prevAlt = f.prevAlt
    BY <2>1, <2>2, AppendRowsIs
  <2>4. Gains(x, AppendRows(from(x), x.prevAlt))
    BY <2>1, <2>3 DEF Gains
  <2>5. QED BY <2>1, <2>3, <2>4
<1> HIDE DEF shown
<1>2. ASSUME NEW x \in Trackers
      PROVE  /\ closed(x) \in Trackers /\ closed(x).history = shown(x).history
             /\ closed(x).told = shown(x).told /\ closed(x).pending = <<>>
             /\ closed(x).prevScrollback = shown(x).prevScrollback
             /\ closed(x).prevAlt = shown(x).prevAlt
             /\ last(x) \in Seq(Lines)
  <2>1. shown(x) \in Trackers
    BY <1>1
  <2>2. shown(x).pending \in Lines
    BY <2>1 DEF Trackers
  <2>3. last(x) \in Seq(Lines)
    <3>1. \A e \in Lines : <<e>> \in Seq(Lines)
      OBVIOUS
    <3>2. QED BY <2>2, <3>1
  <2>4. /\ closed(x) \in Trackers /\ closed(x).history = shown(x).history
        /\ closed(x).told = shown(x).told /\ closed(x).pending = <<>>
        /\ closed(x).prevScrollback = shown(x).prevScrollback
        /\ closed(x).prevAlt = shown(x).prevAlt
    BY <1>0, <2>1 DEF Trackers
  <2>5. QED BY <2>3, <2>4
<1>3. \A x : Flush(x) = IF shown(x).pending = <<>> THEN shown(x) ELSE ExtendHistory(closed(x), last(x))
  BY DEF Flush, shown
<1> HIDE DEF closed, last
<1>4. ASSUME NEW x \in Trackers
      PROVE  LET u == ExtendHistory(closed(x), last(x)) IN
               /\ u \in Trackers /\ Gains(closed(x), u) /\ Len(u.history) <= MAX_HISTORY_LINES
               /\ u.history = LastOf(closed(x).history \o Appended(closed(x).history, last(x)),
                                     MAX_HISTORY_LINES)
               /\ u.pending = closed(x).pending /\ u.prevScrollback = closed(x).prevScrollback
               /\ u.prevAlt = closed(x).prevAlt
  <2>0. PICK c, l : c = closed(x) /\ l = last(x)
    OBVIOUS
  <2>1. c \in Trackers /\ l \in Seq(Lines)
    BY <1>2, <2>0
  <2>2. LET u == ExtendHistory(c, l) IN
          /\ u \in Trackers /\ Gains(c, u) /\ Len(u.history) <= MAX_HISTORY_LINES
          /\ u.history = LastOf(c.history \o Appended(c.history, l), MAX_HISTORY_LINES)
          /\ u.pending = c.pending /\ u.prevScrollback = c.prevScrollback
          /\ u.prevAlt = c.prevAlt
    BY <2>1, ExtendHistoryIs
  <2>3. QED BY <2>0, <2>2
<1>5. ASSUME NEW x \in Trackers PROVE Gains(x, closed(x))
  <2>1. closed(x).history = shown(x).history /\ closed(x).told = shown(x).told
    BY <1>2
  <2>2. Gains(x, shown(x))
    BY <1>1
  <2> HIDE DEF from, new, kept, open
  <2>3. QED BY <2>1, <2>2 DEF Gains
<1>6. ASSUME NEW x \in Trackers
      PROVE  LET u == Flush(x) IN
               /\ u \in Trackers /\ Gains(x, u) /\ Len(u.history) <= MAX_HISTORY_LINES
               /\ u.prevScrollback = x.prevScrollback /\ u.prevAlt = NoScreen
               /\ u.pending = <<>>
  <2>1. CASE shown(x).pending = <<>>
    BY <1>1, <1>3, <2>1
  <2>2. CASE shown(x).pending # <<>>
    <3> DEFINE u == ExtendHistory(closed(x), last(x))
    <3>1. Flush(x) = u
      BY <1>3, <2>2
    <3>2. u \in Trackers /\ Gains(closed(x), u) /\ Len(u.history) <= MAX_HISTORY_LINES
          /\ u.pending = <<>> /\ u.prevScrollback = x.prevScrollback /\ u.prevAlt = NoScreen
      BY <1>1, <1>2, <1>4
    <3> HIDE DEF u
    <3>3. Gains(x, u)
      BY <1>2, <1>5, <3>2, GainsTwice
    <3>4. QED BY <3>1, <3>2, <3>3
  <2>3. QED BY <2>1, <2>2
<1> DEFINE s == [t EXCEPT !.told = <<>>]
<1>7. s \in Trackers /\ s.history = t.history /\ s.pending = t.pending /\ s.prevAlt = t.prevAlt
  <2>1. <<>> \in Seq(Lines)
    BY EmptySeq
  <2>2. QED BY <2>1 DEF Trackers
<1> HIDE DEF s
<1>8. shown(s).history = shown(t).history /\ shown(s).pending = shown(t).pending
  BY <1>1, <1>7
<1>9. Flush(t).history = Flush(s).history
  <2>1. CASE shown(t).pending = <<>>
    BY <1>3, <1>8, <2>1
  <2>2. CASE shown(t).pending # <<>>
    <3>1. closed(s).history = closed(t).history /\ last(s) = last(t)
      BY <1>2, <1>7, <1>8 DEF last
    <3>2. ExtendHistory(closed(s), last(s)).history = ExtendHistory(closed(t), last(t)).history
      BY <1>4, <1>7, <3>1
    <3>3. QED BY <1>3, <1>8, <2>2, <3>2
  <2>3. QED BY <2>1, <2>2
<1>10. QED BY <1>6, <1>9 DEF s

LEMMA ObserveAlternateIs ==
  ASSUME NEW t \in Trackers, NEW rows \in Screens, rows # NoScreen
  PROVE  LET u == ObserveAlternate(t, rows) IN
           /\ u \in Trackers /\ Gains(t, u) /\ Len(u.history) <= MAX_HISTORY_LINES
           /\ u.prevScrollback = t.prevScrollback /\ u.prevAlt = rows
<1> DEFINE removed == IF t.prevAlt = NoScreen THEN <<>> ELSE DetectScrolledRows(t.prevAlt, rows)
           v == AppendRows(t, removed)
           u == [v EXCEPT !.prevAlt = rows]
<1>1. t.prevAlt \in Screens
  BY DEF Trackers
<1>2. removed \in Seq(LineRows)
  <2>1. CASE t.prevAlt = NoScreen
    BY <2>1, EmptySeq
  <2>2. CASE t.prevAlt # NoScreen
    <3>1. /\ t.prevAlt \in Seq(LineRows) /\ rows \in Seq(LineRows)
          /\ Len(t.prevAlt) = Len(rows)
      BY <1>1, <2>2, ScreenLengths
    <3>2. DetectScrolledRows(t.prevAlt, rows) \in Seq(LineRows)
      BY <3>1, DetectType
    <3>3. QED BY <2>2, <3>2
  <2>3. QED BY <2>1, <2>2
<1> HIDE DEF removed
<1>3. /\ v \in Trackers /\ Gains(t, v) /\ Len(v.history) <= MAX_HISTORY_LINES
      /\ v.prevScrollback = t.prevScrollback
  BY <1>2, AppendRowsIs
<1>4. ObserveAlternate(t, rows) = u
  BY DEF ObserveAlternate, removed
<1> HIDE DEF v
<1>5. /\ u \in Trackers /\ u.history = v.history /\ u.told = v.told
      /\ u.prevScrollback = v.prevScrollback /\ u.prevAlt = rows
  BY <1>3 DEF Trackers
<1> HIDE DEF u
<1>6. Gains(t, u)
  BY <1>3, <1>5 DEF Gains
<1>7. QED BY <1>3, <1>4, <1>5, <1>6

LEMMA ObserveScrollbackIs ==
  ASSUME NEW t \in Trackers, NEW rows \in Seq(Rows)
  PROVE  LET u == ObserveScrollback(t, rows) IN
           /\ u \in Trackers /\ Gains(t, u) /\ Len(u.history) <= MAX_HISTORY_LINES
           /\ u.prevScrollback = rows /\ u.prevAlt = t.prevAlt
           /\ \A out \in Seq(Rows) : rows = t.prevScrollback \o out =>
                /\ u.history = LastOf(t.history \o News(t.history, t.pending, out), MAX_HISTORY_LINES)
                /\ u.pending = Joined(t.pending, out).pending
<1> DEFINE new == SubSeq(rows, OverlapSuffixPrefix(t.prevScrollback, rows) + 1, Len(rows))
           v == AppendRows(t, new)
           u == [v EXCEPT !.prevScrollback = rows]
<1>1. t.prevScrollback \in Seq(Rows)
  BY DEF Trackers
<1>2. new \in Seq(Rows)
  BY <1>1, NewRowsType
<1>a. new \in Seq(LineRows)
  BY <1>2, RowTypes
<1>3. \A out \in Seq(Rows) : rows = t.prevScrollback \o out => new = out
  BY <1>1, NewRowsAreNew
<1>4. ObserveScrollback(t, rows) = u
  BY DEF ObserveScrollback
<1> HIDE DEF new
<1>5. /\ v \in Trackers /\ Gains(t, v) /\ Len(v.history) <= MAX_HISTORY_LINES
      /\ v.history = LastOf(t.history \o News(t.history, t.pending, new), MAX_HISTORY_LINES)
      /\ v.pending = Joined(t.pending, new).pending
      /\ v.prevAlt = t.prevAlt
  BY <1>a, AppendRowsIs
<1> HIDE DEF v
<1>6. /\ u \in Trackers /\ u.history = v.history /\ u.told = v.told /\ u.pending = v.pending
      /\ u.prevScrollback = rows /\ u.prevAlt = v.prevAlt
  BY <1>5 DEF Trackers
<1> HIDE DEF u
<1>7. Gains(t, u)
  BY <1>5, <1>6 DEF Gains
<1>8. QED BY <1>3, <1>4, <1>5, <1>6, <1>7

\* An observation after one that saw this screen.
Looks(t, screen, rows, altRows) == Observed(t, screen # NoScreen, rows, altRows)

IsObserved(t, screen, rows, altRows, u) ==
  /\ u \in Trackers /\ Gains([t EXCEPT !.told = <<>>], u)
  /\ Len(u.history) <= MAX_HISTORY_LINES /\ u.prevAlt = altRows
  /\ u.prevScrollback = IF altRows = NoScreen THEN rows ELSE t.prevScrollback
  /\ \A out \in Seq(Rows) :
       altRows = NoScreen /\ rows = t.prevScrollback \o out =>
         LET f == IF screen # NoScreen THEN Flush(t) ELSE t IN
           /\ u.history = LastOf(f.history \o News(f.history, f.pending, out), MAX_HISTORY_LINES)
           /\ u.pending = Joined(f.pending, out).pending

LEMMA ObservedIs ==
  ASSUME NEW t \in Trackers, NEW screen, t.prevAlt = screen, NEW rows \in Seq(Rows),
         NEW altRows \in Screens
  PROVE  IsObserved(t, screen, rows, altRows, Looks(t, screen, rows, altRows))
<1> DEFINE asked == [t EXCEPT !.told = <<>>]
           f == IF screen # NoScreen THEN Flush(asked) ELSE asked
           u == Looks(t, screen, rows, altRows)
<1>1. /\ asked \in Trackers /\ asked.history = t.history /\ asked.pending = t.pending
      /\ asked.prevScrollback = t.prevScrollback /\ asked.prevAlt = t.prevAlt
  <2>1. <<>> \in Seq(Lines)
    BY EmptySeq
  <2>2. QED BY <2>1 DEF Trackers
<1>2. Flush(t).history = Flush(asked).history /\ Flush(t).pending = Flush(asked).pending
  <2>1. Flush(t).history = Flush(asked).history /\ Flush(t).pending = <<>>
    BY FlushIs
  <2> HIDE DEF asked
  <2>2. Flush(asked).pending = <<>>
    BY <1>1, FlushIs
  <2>3. QED BY <2>1, <2>2
<1>3. u = IF altRows # NoScreen THEN ObserveAlternate(asked, altRows) ELSE ObserveScrollback(f, rows)
  BY DEF Looks, Observed
<1> HIDE DEF asked, IsObserved
<1>4. CASE altRows # NoScreen
  <2>1. LET v == ObserveAlternate(asked, altRows) IN
          /\ v \in Trackers /\ Gains(asked, v) /\ Len(v.history) <= MAX_HISTORY_LINES
          /\ v.prevScrollback = asked.prevScrollback /\ v.prevAlt = altRows
    BY <1>1, <1>4, ObserveAlternateIs
  <2>2. u = ObserveAlternate(asked, altRows)
    BY <1>3, <1>4
  <2>3. IsObserved(t, screen, rows, altRows, u)
    BY <1>1, <1>4, <2>1, <2>2 DEF asked, IsObserved
  <2>4. QED BY <2>3 DEF u
<1>5. CASE altRows = NoScreen
  <2>1. /\ f \in Trackers /\ f.prevScrollback = t.prevScrollback /\ f.prevAlt = NoScreen
        /\ f.history = (IF screen # NoScreen THEN Flush(t) ELSE t).history
        /\ f.pending = (IF screen # NoScreen THEN Flush(t) ELSE t).pending
    <3>1. CASE screen # NoScreen
      <4>1. f = Flush(asked)
        BY <3>1
      <4> HIDE DEF f
      <4>2. QED BY <1>1, <1>2, <3>1, <4>1, FlushIs
    <3>2. CASE screen = NoScreen
      <4>1. f = asked
        BY <3>2
      <4> HIDE DEF f
      <4>2. QED BY <1>1, <3>2, <4>1
    <3>3. QED BY <3>1, <3>2
  <2>2. screen # NoScreen => Gains(asked, f)
    BY <1>1, FlushIs
  <2> HIDE DEF f
  <2>3. LET v == ObserveScrollback(f, rows) IN
           /\ v \in Trackers /\ Gains(f, v) /\ Len(v.history) <= MAX_HISTORY_LINES
           /\ v.prevScrollback = rows /\ v.prevAlt = f.prevAlt
           /\ \A out \in Seq(Rows) : rows = f.prevScrollback \o out =>
                /\ v.history = LastOf(f.history \o News(f.history, f.pending, out), MAX_HISTORY_LINES)
                /\ v.pending = Joined(f.pending, out).pending
    BY <2>1, ObserveScrollbackIs
  <2>4. u = ObserveScrollback(f, rows)
    BY <1>3, <1>5
  <2>5. Gains(asked, u)
    <3>1. CASE screen # NoScreen
      BY <1>1, <2>1, <2>2, <2>3, <2>4, <3>1, GainsTwice
    <3>2. CASE screen = NoScreen
      <4>1. f = asked
        BY <3>2 DEF f
      <4>2. QED BY <2>3, <2>4, <4>1
    <3>3. QED BY <3>1, <3>2
  <2>6. IsObserved(t, screen, rows, altRows, u)
    BY <1>5, <2>1, <2>3, <2>4, <2>5 DEF asked, IsObserved
  <2>7. QED BY <2>6 DEF u
<1>6. QED BY <1>4, <1>5 DEF u

------------------------------------------------------------------------------
(* The alternate screen: what is detected.                                  *)

\* When one row is drawn anew, nothing left the screen.
LEMMA DetectsNothing ==
  ASSUME NEW S, NEW p \in Seq(S), NEW q \in Seq(S), NEW n \in Nat, n = Len(p), n = Len(q),
         Distinct(p), NEW i \in 1..n, \A j \in 1..n : j # i => q[j].text = p[j].text
  PROVE  DetectScrolledRows(p, q) = <<>>
<1>1. ASSUME NEW c \in Candidates(p, q) PROVE FALSE
  <2>1. PICK start \in 1..n, shift \in 1..n :
          start + shift <= n /\ c = Candidate(p, q, start, shift) /\ c.matched >= 2
    BY DEF Candidates, AllCandidates
  <2>2. PICK m : m = Matched(p, q, start, shift)
    OBVIOUS
  <2>3. m \in 0..(n + 1 - start - shift) /\ Run(p, q, start, shift, m)
    BY <2>1, <2>2, MatchedIs
  <2>4. m >= 2
    BY <2>1, <2>2 DEF Candidate
  <2>5. ASSUME NEW j \in {start, start + 1}, j # i PROVE FALSE
    <3>1. j \in start..(start + m - 1) /\ j \in 1..n /\ j + shift \in 1..n /\ j + shift # j
      BY <2>1, <2>3, <2>4
    <3>2. p[j + shift].text = p[j].text
      BY <2>3, <2>5, <3>1 DEF Run, Same
    <3>3. DOMAIN p = 1..n
      BY LenProperties
    <3>4. QED BY <3>1, <3>2, <3>3 DEF Distinct
  <2>6. start # i \/ start + 1 # i
    BY <2>1
  <2>7. QED BY <2>5, <2>6
<1>2. Candidates(p, q) = {}
  BY <1>1
<1>3. QED BY <1>2 DEF DetectScrolledRows

\* Of rows that differ, those from top to bottom moved up by count; the last of them
\* is written, and the others are blank.
MovedUp(S, p, q, n, top, bottom, count) ==
  /\ p \in Seq(S) /\ q \in Seq(S) /\ n \in Nat /\ n = Len(p) /\ n = Len(q) /\ Distinct(p)
  /\ top \in 1..n /\ bottom \in 1..n /\ count \in 1..n /\ top + count + 2 <= bottom
  /\ \A j \in 1..n : j < top \/ j > bottom => q[j].text = p[j].text
  /\ \A j \in top..bottom : j + count < bottom => q[j].text = p[j + count].text
  /\ \A j \in top..bottom : j + count > bottom => q[j].text = <<>>

MayMatch(p, top, bottom, count, j, shift) ==
  /\ j \in top..bottom
  /\ j + count < bottom => shift = count
  /\ j + count > bottom => p[j + shift].text = <<>>

\* Where a row can match one that was further down.
LEMMA WhereItMatches ==
  ASSUME NEW S, NEW p, NEW q, NEW n, NEW top, NEW bottom, NEW count,
         MovedUp(S, p, q, n, top, bottom, count),
         NEW j \in 1..n, NEW shift \in 1..n, j + shift <= n, Same(p, q, j, shift)
  PROVE  MayMatch(p, top, bottom, count, j, shift)
<1>0. /\ n \in Nat /\ top \in 1..n /\ bottom \in 1..n /\ count \in 1..n
      /\ p[j + shift].text = q[j].text
  BY DEF MovedUp, Same
<1>a. p \in Seq(S) /\ n = Len(p)
  BY DEF MovedUp
<1>1. DOMAIN p = 1..n /\ j + shift \in 1..n /\ j + shift # j
  <2>1. DOMAIN p = 1..n
    BY <1>a, LenProperties
  <2>2. QED BY <1>0, <2>1
<1>2. j \in top..bottom
  <2>1. ~(j < top \/ j > bottom)
    BY <1>0, <1>1 DEF MovedUp, Distinct
  <2>2. QED BY <1>0, <2>1
<1>3. ASSUME j + count < bottom PROVE shift = count
  <2>1. q[j].text = p[j + count].text
    BY <1>2, <1>3 DEF MovedUp
  <2>2. j + count \in 1..n
    BY <1>0, <1>3
  <2>3. j + shift = j + count
    BY <1>0, <1>1, <2>1, <2>2 DEF MovedUp, Distinct
  <2>4. QED BY <1>0, <2>3
<1>4. j + count > bottom => p[j + shift].text = <<>>
  BY <1>0, <1>2 DEF MovedUp
<1>5. QED BY <1>2, <1>3, <1>4 DEF MayMatch

\* Two rows that match below the written row cannot both have been blank.
LEMMA NotTwoBlanks ==
  ASSUME NEW S, NEW p, NEW q, NEW n, NEW top, NEW bottom, NEW count,
         MovedUp(S, p, q, n, top, bottom, count),
         NEW j \in 1..n, NEW k \in 1..n, k = j + 1, NEW shift \in 1..n, k + shift <= n,
         Same(p, q, j, shift), Same(p, q, k, shift)
  PROVE  j + count <= bottom
<1>0. /\ n \in Nat /\ bottom \in 1..n /\ count \in 1..n
  BY DEF MovedUp
<1>1. MayMatch(p, top, bottom, count, j, shift)
  BY <1>0, WhereItMatches
<1>2. MayMatch(p, top, bottom, count, k, shift)
  BY <1>0, WhereItMatches
<1>3. SUFFICES ASSUME j + count > bottom PROVE FALSE
  BY <1>0
<1>4. p[j + shift].text = <<>> /\ p[k + shift].text = <<>>
  BY <1>0, <1>1, <1>2, <1>3 DEF MayMatch
<1>a. p \in Seq(S) /\ n = Len(p)
  BY DEF MovedUp
<1>5. DOMAIN p = 1..n /\ j + shift \in 1..n /\ k + shift \in 1..n /\ j + shift # k + shift
  <2>1. DOMAIN p = 1..n
    BY <1>a, LenProperties
  <2>2. QED BY <1>0, <2>1
<1>6. QED BY <1>4, <1>5 DEF MovedUp, Distinct

\* What the candidates can be.
LEMMA OtherCandidates ==
  ASSUME NEW S, NEW p, NEW q, NEW n, NEW top, NEW bottom, NEW count,
         MovedUp(S, p, q, n, top, bottom, count),
         NEW start \in 1..n, NEW shift \in 1..n, start + shift <= n,
         NEW m, m = Matched(p, q, start, shift), m >= 2,
         NEW most, most = Matched(p, q, top, count)
  PROVE  /\ most \in Nat /\ m \in Nat
         /\ \/ start = top /\ shift = count
            \/ most > m
            \/ m = 2 /\ start = bottom - count /\ q[start + 1].text = <<>>
<1>0. /\ n \in Nat /\ n = Len(p) /\ top \in 1..n /\ bottom \in 1..n /\ count \in 1..n
      /\ top + count + 2 <= bottom
      /\ \A j \in top..bottom : j + count < bottom => q[j].text = p[j + count].text
      /\ \A j \in top..bottom : j + count > bottom => q[j].text = <<>>
  BY DEF MovedUp
<1>a. n \in Nat /\ n = Len(p) /\ top \in 1..n /\ bottom \in 1..n /\ count \in 1..n
      /\ top + count + 2 <= bottom
  BY <1>0
<1>1. m \in 0..(n + 1 - start - shift) /\ Run(p, q, start, shift, m)
  BY <1>a, MatchedIs
<1>2. top + count <= n
  BY <1>a
<1>3. /\ most \in 0..(n + 1 - top - count)
      /\ \A k \in 0..(n + 1 - top - count) : Run(p, q, top, count, k) => k <= most
  BY <1>a, <1>2, MatchedIs
<1>4. \A j \in top..(bottom - count - 1) : Same(p, q, j, count)
  <2>1. \A j \in top..(bottom - count - 1) : j \in top..bottom /\ j + count < bottom
    BY <1>a
  <2>2. QED BY <1>0, <2>1 DEF Same
<1>5. PICK next \in 1..n : next = start + 1
  BY <1>a, <1>1
<1>6. /\ Same(p, q, start, shift) /\ Same(p, q, next, shift) /\ next + shift <= n
  <2>1. start \in start..(start + m - 1) /\ next \in start..(start + m - 1)
    BY <1>a, <1>1, <1>5
  <2>2. next + shift <= n
    BY <1>a, <1>1, <1>5
  <2>3. QED BY <1>1, <2>1, <2>2 DEF Run
<1>7. start \in top..bottom /\ (start + count < bottom => shift = count)
  <2>1. MayMatch(p, top, bottom, count, start, shift)
    BY <1>6, WhereItMatches
  <2>2. QED BY <2>1 DEF MayMatch
<1>8. start + count <= bottom
  BY <1>5, <1>6, NotTwoBlanks
<1>9. CASE shift = count /\ start # top
  <2>1. PICK k \in Nat : k = start - top + m
    BY <1>a, <1>1, <1>7
  <2>2. k \in 0..(n + 1 - top - count)
    BY <1>a, <1>1, <1>7, <1>9, <2>1
  <2>3. Run(p, q, top, count, k)
    <3>1. \A j \in top..(top + k - 1) :
            j \in top..(bottom - count - 1) \/ j \in start..(start + m - 1)
      <4> SUFFICES ASSUME NEW j \in top..(top + k - 1)
                   PROVE  j \in top..(bottom - count - 1) \/ j \in start..(start + m - 1)
        OBVIOUS
      <4>1. top \in Int /\ start \in Int /\ m \in Int /\ bottom \in Int /\ count \in Int
            /\ top <= start
        BY <1>a, <1>1, <1>7
      <4>2. j \in Int /\ top <= j /\ j <= start + m - 1
        BY <2>1, <4>1
      <4>3. CASE j < start
        BY <1>8, <4>1, <4>2, <4>3
      <4>4. CASE j >= start
        BY <4>1, <4>2, <4>4
      <4>5. QED BY <4>1, <4>2, <4>3, <4>4
    <3>2. QED BY <1>1, <1>4, <1>9, <3>1 DEF Run
  <2>4. k <= most
    BY <1>3, <2>2, <2>3
  <2>5. most > m
    BY <1>a, <1>1, <1>3, <1>7, <1>9, <2>1, <2>4
  <2>6. QED BY <1>1, <1>3, <2>5
<1>10. CASE shift # count
  <2>1. start = bottom - count
    BY <1>a, <1>7, <1>8, <1>10
  <2>2. q[next].text = <<>>
    <3>1. next \in top..bottom /\ next + count > bottom
      BY <1>a, <1>5, <1>7, <2>1
    <3>2. QED BY <1>0, <3>1
  <2>3. m = 2
    <3>1. SUFFICES ASSUME m >= 3 PROVE FALSE
      BY <1>1
    <3>2. PICK k \in 1..n : k = next + 1
      BY <1>a, <1>1, <1>5, <3>1
    <3>3. next \in start..(start + m - 1) /\ k \in start..(start + m - 1) /\ k + shift <= n
      BY <1>a, <1>1, <1>5, <3>1, <3>2
    <3>4. Same(p, q, next, shift) /\ Same(p, q, k, shift)
      BY <1>1, <3>3 DEF Run
    <3>5. next + count <= bottom
      BY <3>2, <3>3, <3>4, NotTwoBlanks
    <3>6. QED BY <1>a, <1>5, <2>1, <3>5
  <2>4. QED BY <1>1, <1>3, <1>5, <2>1, <2>2, <2>3
<1>11. CASE shift = count /\ start = top
  BY <1>1, <1>3, <1>11
<1>12. QED BY <1>9, <1>10, <1>11

LEMMA MovedMatches ==
  ASSUME NEW S, NEW p, NEW q, NEW n, NEW top, NEW bottom, NEW count,
         MovedUp(S, p, q, n, top, bottom, count),
         NEW most, most = Matched(p, q, top, count)
  PROVE  most \in 2..(n + 1 - top - count)
<1>0. /\ n \in Nat /\ n = Len(p) /\ top \in 1..n /\ bottom \in 1..n /\ count \in 1..n
      /\ top + count + 2 <= bottom
      /\ \A j \in top..bottom : j + count < bottom => q[j].text = p[j + count].text
  BY DEF MovedUp
<1>a. n \in Nat /\ n = Len(p) /\ top \in 1..n /\ bottom \in 1..n /\ count \in 1..n
      /\ top + count + 2 <= bottom
  BY <1>0
<1>1. top + count <= n
  BY <1>a
<1>2. /\ most \in 0..(n + 1 - top - count)
      /\ \A k \in 0..(n + 1 - top - count) : Run(p, q, top, count, k) => k <= most
  BY <1>a, <1>1, MatchedIs
<1>3. Run(p, q, top, count, 2)
  <2>1. \A j \in top..(top + 2 - 1) : j \in top..bottom /\ j + count < bottom
    BY <1>a
  <2>2. QED BY <1>0, <2>1 DEF Run, Same
<1>4. 2 \in 0..(n + 1 - top - count)
  BY <1>a
<1>5. most >= 2
  BY <1>2, <1>3, <1>4
<1>6. QED BY <1>a, <1>2, <1>5

\* Some row of a part is not blank.
HasContent(q, s, hi) == \E j \in s..hi : q[j].text # <<>>

\* How many rows of a part are not blank.
LEMMA ContentOfPart ==
  ASSUME NEW S, NEW q \in Seq(S), NEW n \in Nat, n = Len(q), NEW s \in 1..n, NEW m \in Nat,
         s + m - 1 <= n, NEW c, c = Cardinality(Contentful(SubSeq(q, s, s + m - 1)))
  PROVE  /\ c \in Nat
         /\ HasContent(q, s, s + m - 1) => c >= 1
         /\ m = 2 /\ q[s + 1].text = <<>> => c <= 1
<1>1. PICK hi \in Int : hi = s + m - 1
  OBVIOUS
<1> DEFINE part == SubSeq(q, s, hi)
           full == Contentful(part)
<1>2. IsPart(part, q, s, m, S)
  <2>1. \A j \in s..hi : j \in 1..Len(q)
    BY <1>1
  <2>2. Holds(q, s, hi, S)
    BY <2>1, ElementOfSeq DEF Holds
  <2>3. s \in Int
    OBVIOUS
  <2>4. QED BY <1>1, <2>2, <2>3, PartIs
<1>3. part \in Seq(S) /\ Len(part) = m /\ \A i \in 1..m : part[i] = q[s + i - 1]
  BY <1>2 DEF IsPart
<1> HIDE DEF part
<1>4. DOMAIN part = 1..m
  BY <1>3, LenProperties
<1>5. full \in SUBSET (1..m) /\ \A i \in 1..m : i \in full <=> q[s + i - 1].text # <<>>
  BY <1>3, <1>4 DEF Contentful
<1>6. c = Cardinality(full)
  BY <1>1 DEF part
<1> HIDE DEF full
<1>7. IsFiniteSet(1..m) /\ IsFiniteSet(full) /\ c \in Nat
  <2>1. IsFiniteSet(1..m)
    BY FS_Interval
  <2>2. IsFiniteSet(full)
    BY <1>5, <2>1, FS_Subset
  <2>3. QED BY <1>6, <2>1, <2>2, FS_CardinalityType
<1>8. ASSUME NEW j \in s..(s + m - 1), q[j].text # <<>> PROVE c >= 1
  <2>1. PICK i \in 1..m : i = j - s + 1
    OBVIOUS
  <2>2. s + i - 1 = j
    BY <2>1
  <2>3. i \in full
    BY <1>5, <1>8, <2>2
  <2>4. c # 0
    BY <1>6, <1>7, <2>3, FS_EmptySet
  <2>5. QED BY <1>7, <2>4
<1>9. ASSUME m = 2, q[s + 1].text = <<>> PROVE c <= 1
  <2>1. s + 2 - 1 = s + 1 /\ 2 \in 1..m
    BY <1>9
  <2>2. 2 \notin full
    BY <1>5, <1>9, <2>1
  <2>3. full \in SUBSET {1}
    BY <1>5, <1>9, <2>2
  <2>4. IsFiniteSet({1}) /\ Cardinality({1}) = 1
    BY FS_Singleton
  <2>5. Cardinality(full) <= Cardinality({1})
    BY <2>3, <2>4, FS_Subset
  <2>6. QED BY <1>6, <2>4, <2>5
<1>10. QED BY <1>7, <1>8, <1>9 DEF HasContent

\* When rows moved up, what left the screen is what was above them.
LEMMA DetectsScroll ==
  ASSUME NEW S, NEW p, NEW q, NEW n, NEW top, NEW bottom, NEW count,
         MovedUp(S, p, q, n, top, bottom, count),
         Contentful(SubSeq(p, top, top + count - 1)) # {}
  PROVE  DetectScrolledRows(p, q) = SubSeq(p, top, top + count - 1)
<1> DEFINE c0 == Candidate(p, q, top, count)
           found == Candidates(p, q)
<1>0. /\ n \in Nat /\ n = Len(p) /\ n = Len(q) /\ p \in Seq(S) /\ q \in Seq(S)
      /\ top \in 1..n /\ bottom \in 1..n /\ count \in 1..n /\ top + count + 2 <= bottom
      /\ top + count <= n
  BY DEF MovedUp
<1>1. PICK most : most = Matched(p, q, top, count)
  OBVIOUS
<1>2. most \in 2..(n + 1 - top - count)
  BY <1>1, MovedMatches
<1>3. PICK full : full = Cardinality(Contentful(SubSeq(q, top, top + most - 1)))
  OBVIOUS
<1>4. c0 = [start |-> top, shift |-> count, matched |-> most, contentful |-> full]
  BY <1>1, <1>3 DEF Candidate
<1>5. full \in Nat /\ full >= 1
  <2>1. PICK next \in 1..n : next = top + 1
    BY <1>0
  <2>2. q[top].text = p[top + count].text /\ q[next].text = p[next + count].text
    <3>1. /\ top \in top..bottom /\ next \in top..bottom
          /\ top + count < bottom /\ next + count < bottom
      BY <1>0, <2>1
    <3>2. QED BY <3>1 DEF MovedUp
  <2>3. p[top + count].text # p[next + count].text
    <3>1. DOMAIN p = 1..n
      BY <1>0, LenProperties
    <3>2. top + count \in 1..n /\ next + count \in 1..n /\ top + count # next + count
      BY <1>0, <2>1
    <3>3. QED BY <3>1, <3>2 DEF MovedUp, Distinct
  <2>4. top \in top..(top + most - 1) /\ next \in top..(top + most - 1)
    BY <1>0, <1>2, <2>1
  <2>5. HasContent(q, top, top + most - 1)
    BY <2>2, <2>3, <2>4 DEF HasContent
  <2>6. most \in Nat /\ top + most - 1 <= n
    BY <1>0, <1>2
  <2>7. q \in Seq(S) /\ n \in Nat /\ n = Len(q) /\ top \in 1..n
    BY <1>0
  <2>8. full \in Nat /\ (HasContent(q, top, top + most - 1) => full >= 1)
    BY <1>3, <2>6, <2>7, ContentOfPart
  <2>9. QED BY <2>5, <2>8
<1>6. Removed(p, c0) = SubSeq(p, top, top + count - 1)
  <2> HIDE DEF c0
  <2>1. c0.start = top /\ c0.shift = count
    BY <1>4
  <2>2. QED BY <2>1 DEF Removed
<1>7. c0 \in found
  <2>1. c0 \in AllCandidates(p, q)
    <3>1. <<top, count>> \in {x \in (1..Len(p)) \X (1..Len(p)) : x[1] + x[2] <= Len(p)}
      BY <1>0
    <3>2. QED BY <3>1 DEF AllCandidates
  <2>2. c0.matched >= 2 /\ c0.contentful > 0
    BY <1>2, <1>4, <1>5
  <2> HIDE DEF c0
  <2>3. QED BY <1>6, <2>1, <2>2 DEF Candidates
<1>8. ASSUME NEW d \in found, d # c0 PROVE Better(c0, d)
  <2>1. PICK start \in 1..n, shift \in 1..n :
          start + shift <= n /\ d = Candidate(p, q, start, shift) /\ d.matched >= 2
    BY <1>0 DEF Candidates, AllCandidates
  <2>2. PICK m : m = Matched(p, q, start, shift)
    OBVIOUS
  <2>3. PICK some : some = Cardinality(Contentful(SubSeq(q, start, start + m - 1)))
    OBVIOUS
  <2>4. d = [start |-> start, shift |-> shift, matched |-> m, contentful |-> some]
    BY <2>1, <2>2, <2>3 DEF Candidate
  <2>5. m >= 2
    BY <2>1, <2>4
  <2>6. \/ start = top /\ shift = count
        \/ most > m
        \/ m = 2 /\ start = bottom - count /\ q[start + 1].text = <<>>
    BY <1>1, <2>1, <2>2, <2>5, OtherCandidates
  <2>7. CASE start = top /\ shift = count
    BY <1>8, <2>1, <2>7
  <2>8. CASE most > m
    BY <1>4, <2>4, <2>8 DEF Better
  <2>9. CASE m = 2 /\ start = bottom - count /\ q[start + 1].text = <<>>
    <3>1. some \in Nat /\ some <= 1
      <4>1. m \in Nat /\ start + m - 1 <= n
        BY <1>0, <2>1, <2>9
      <4>2. QED BY <1>0, <2>3, <2>9, <4>1, ContentOfPart
    <3>2. top < start
      BY <1>0, <2>9
    <3>3. most > 2 \/ most = 2
      BY <1>2
    <3>4. full > some \/ full = some
      BY <1>5, <3>1
    <3>5. QED BY <1>4, <2>4, <2>9, <3>2, <3>3, <3>4 DEF Better
  <2>10. QED BY <2>6, <2>7, <2>8, <2>9
<1>9. PICK c \in found :
        /\ c = CHOOSE x \in found : \A d \in found \ {x} : Better(x, d)
        /\ \A d \in found \ {c} : Better(c, d)
  <2>1. Len(p) = Len(q) /\ Candidates(p, q) # {}
    BY <1>0, <1>7
  <2>2. QED BY <1>0, <2>1, DetectType
<1>10. c = c0
  <2>1. SUFFICES ASSUME c # c0 PROVE FALSE
    OBVIOUS
  <2>2. Better(c, c0) /\ Better(c0, c)
    BY <1>7, <1>8, <1>9, <2>1
  <2>3. PICK start \in 1..n, shift \in 1..n : c = Candidate(p, q, start, shift) /\ start + shift <= n
    BY <1>0 DEF Candidates, AllCandidates
  <2>4. c \in CandidateRecords(n) /\ c0 \in CandidateRecords(n)
    BY <1>0, <2>3, CandidateType
  <2> HIDE DEF c0
  <2>5. /\ c.matched \in Int /\ c.contentful \in Int /\ c.start \in Int /\ c.shift \in Int
        /\ c0.matched \in Int /\ c0.contentful \in Int /\ c0.start \in Int /\ c0.shift \in Int
    BY <1>0, <2>4 DEF CandidateRecords
  <2>6. QED BY <2>2, <2>5 DEF Better
<1>11. DetectScrolledRows(p, q) =
         Removed(p, CHOOSE x \in found : \A d \in found \ {x} : Better(x, d))
  BY <1>7 DEF DetectScrolledRows
<1>12. QED BY <1>6, <1>9, <1>10, <1>11

------------------------------------------------------------------------------
(* The inductive invariant.                                                 *)

BreakRecords ==
  [history : Seq(Lines), pending : Lines, above : 0..SCROLLBACK,
   broken : BOOLEAN, resized : BOOLEAN]

\* What is seen has its type, and the copy is the history.
Seen(rows, screen, t, told, spent) ==
  /\ rows \in BoundedSeq(Rows, SCROLLBACK) /\ screen \in Screens
  /\ t \in Trackers /\ Len(t.history) <= MAX_HISTORY_LINES /\ NoRepeats(t.history)
  /\ t.prevAlt = screen /\ told = t.history /\ spent \in 0..MaxSteps

\* The tracker is what became of the one at the break.
FromBreak(t, b, rows) ==
  /\ t.history = LastOf(b.history \o News(b.history, b.pending, rows), MAX_HISTORY_LINES)
  /\ t.pending = Joined(b.pending, rows).pending

Tracks(rows, screen, t, new, b) ==
  /\ new \in Seq(Rows) /\ b \in BreakRecords
  /\ Len(b.history) <= MAX_HISTORY_LINES /\ NoRepeats(b.history)
  /\ ~b.resized => t.prevScrollback = rows
  /\ screen = NoScreen => ~b.resized
  /\ screen # NoScreen => new = <<>>
  /\ Len(rows) <= b.above + Len(new)
  /\ b.above + Len(new) <= SCROLLBACK => FromBreak(t, b, new)

IInv ==
  /\ Seen(scrollback, alt, tracker, copy, steps)
  /\ Tracks(scrollback, alt, tracker, since, before)

LEMMA BoundedSeqIs ==
  ASSUME NEW S, NEW n \in Nat, NEW s
  PROVE  s \in BoundedSeq(S, n) <=> s \in Seq(S) /\ Len(s) <= n
<1>1. BoundedSeq(S, n) = UNION {[1..m -> S] : m \in 0..n}
  BY DEF BoundedSeq, SeqOf
<1>2. ASSUME NEW m \in 0..n, s \in [1..m -> S] PROVE s \in Seq(S) /\ Len(s) <= n
  <2>1. m \in Nat /\ s \in Seq(S)
    BY <1>2, SeqDef
  <2>2. DOMAIN s = 1..m /\ DOMAIN s = 1..Len(s) /\ Len(s) \in Nat
    BY <1>2, <2>1, LenProperties
  <2>3. Len(s) = m
    BY <2>1, <2>2
  <2>4. QED BY <2>1, <2>3
<1>3. ASSUME s \in Seq(S), Len(s) <= n PROVE \E m \in 0..n : s \in [1..m -> S]
  <2>1. Len(s) \in 0..n /\ s \in [1..Len(s) -> S]
    BY <1>3, LenProperties
  <2>2. QED BY <2>1
<1>4. QED BY <1>1, <1>2, <1>3

LEMMA PiecesAre ==
  ASSUME NEW out \in Pieces
  PROVE  out \in Seq(Rows) /\ Len(out) \in Nat
<1>1. MaxScrolled \in Nat
  BY ConstantsAssumption
<1>2. out \in Seq(Rows)
  BY <1>1, BoundedSeqIs DEF Pieces
<1>3. QED BY <1>2, LenProperties

LEMMA KeepsIs ==
  ASSUME NEW rows \in Seq(Rows), Keeps(rows)
  PROVE  /\ scrollback' \in BoundedSeq(Rows, SCROLLBACK) /\ scrollback' \in Seq(Rows)
         /\ Len(scrollback') \in 0..SCROLLBACK /\ Len(scrollback') <= Len(rows)
         /\ Len(rows) <= SCROLLBACK => scrollback' = rows
<1>1. SCROLLBACK \in Nat
  BY ConstantsAssumption
<1>2. scrollback' = LastOf(rows, SCROLLBACK)
  BY DEF Keeps
<1>3. PICK n : n = Len(rows)
  OBVIOUS
<1>4. PICK m : m = Kept(n, SCROLLBACK)
  OBVIOUS
<1>5. m \in Nat /\ m <= n /\ m <= SCROLLBACK /\ LastOf(rows, SCROLLBACK) \in Seq(Rows)
      /\ Len(LastOf(rows, SCROLLBACK)) = m
  BY <1>1, <1>3, <1>4, LastOfIs
<1>6. Len(rows) <= SCROLLBACK => LastOf(rows, SCROLLBACK) = rows
  BY <1>1, LastOfAll
<1>7. scrollback' \in Seq(Rows) /\ Len(scrollback') \in 0..SCROLLBACK /\ Len(scrollback') <= Len(rows)
  BY <1>1, <1>2, <1>3, <1>5
<1>8. scrollback' \in BoundedSeq(Rows, SCROLLBACK)
  BY <1>1, <1>7, BoundedSeqIs
<1>9. QED BY <1>2, <1>6, <1>7, <1>8

LEMMA CostsIs ==
  ASSUME steps \in 0..MaxSteps, NEW n \in Nat, Costs(n)
  PROVE  steps' \in 0..MaxSteps
BY ConstantsAssumption DEF Costs

LEMMA ScrollbackIs ==
  ASSUME NEW rows \in BoundedSeq(Rows, SCROLLBACK)
  PROVE  rows \in Seq(Rows) /\ Len(rows) \in 0..SCROLLBACK
<1>1. SCROLLBACK \in Nat
  BY ConstantsAssumption
<1>2. rows \in Seq(Rows) /\ Len(rows) <= SCROLLBACK
  BY <1>1, BoundedSeqIs
<1>3. QED BY <1>1, <1>2, LenProperties

LEMMA ObservesIs ==
  ASSUME Seen(scrollback, alt, tracker, copy, steps), Observes,
         scrollback' \in BoundedSeq(Rows, SCROLLBACK), alt' \in Screens, steps' \in 0..MaxSteps
  PROVE  /\ Seen(scrollback', alt', tracker', copy', steps')
         /\ tracker'.prevScrollback =
              IF alt' = NoScreen THEN scrollback' ELSE tracker.prevScrollback
         /\ \A out \in Seq(Rows) :
              alt' = NoScreen /\ scrollback' = tracker.prevScrollback \o out =>
                FromBreak(tracker', IF alt # NoScreen THEN Flush(tracker) ELSE tracker, out)
<1> DEFINE asked == [tracker EXCEPT !.told = <<>>]
<1>1. /\ tracker \in Trackers /\ tracker.prevAlt = alt /\ copy = tracker.history
      /\ NoRepeats(tracker.history)
  BY DEF Seen
<1>2. tracker' = Looks(tracker, alt, scrollback', alt')
      /\ copy' = LastOf(copy \o tracker'.told, MAX_HISTORY_LINES)
  BY DEF Observes, Looks
<1>3. scrollback' \in Seq(Rows)
  BY ScrollbackIs
<1>4. IsObserved(tracker, alt, scrollback', alt', Looks(tracker, alt, scrollback', alt'))
  BY <1>1, <1>3, ObservedIs
<1>5. /\ tracker' \in Trackers /\ Gains(asked, tracker')
      /\ Len(tracker'.history) <= MAX_HISTORY_LINES /\ tracker'.prevAlt = alt'
      /\ tracker'.prevScrollback = IF alt' = NoScreen THEN scrollback' ELSE tracker.prevScrollback
  BY <1>2, <1>4 DEF IsObserved
<1>6. \A out \in Seq(Rows) :
        alt' = NoScreen /\ scrollback' = tracker.prevScrollback \o out =>
          FromBreak(tracker', IF alt # NoScreen THEN Flush(tracker) ELSE tracker, out)
  BY <1>2, <1>4 DEF FromBreak, IsObserved
<1>7. asked.history = tracker.history /\ asked.told = <<>>
  BY <1>1 DEF Trackers
<1> HIDE DEF asked
<1>8. PICK new \in Seq(Lines) :
        /\ tracker'.history = LastOf(asked.history \o new, MAX_HISTORY_LINES)
        /\ tracker'.told = asked.told \o new
  BY <1>5 DEF Gains
<1>9. tracker'.told = new
  <2>1. <<>> \o new = new
    BY ConcatEmptySeq
  <2>2. QED BY <1>7, <1>8, <2>1
<1>10. copy' = tracker'.history
  BY <1>1, <1>2, <1>7, <1>8, <1>9
<1>11. NoRepeats(tracker'.history)
  BY <1>1, <1>5, <1>7 DEF Gains
<1>12. Seen(scrollback', alt', tracker', copy', steps')
  BY <1>5, <1>10, <1>11 DEF Seen
<1>13. QED BY <1>5, <1>6, <1>12

\* A break makes a fresh start.
LEMMA BreakTracks ==
  ASSUME NEW rows, NEW screen, NEW t, NEW told, NEW spent, Seen(rows, screen, t, told, spent),
         NEW resized \in BOOLEAN, ~resized => t.prevScrollback = rows,
         screen = NoScreen => ~resized
  PROVE  Tracks(rows, screen, t, <<>>,
                [history |-> t.history, pending |-> t.pending, above |-> Len(rows),
                 broken |-> TRUE, resized |-> resized])
<1> DEFINE b == [history |-> t.history, pending |-> t.pending, above |-> Len(rows),
                 broken |-> TRUE, resized |-> resized]
<1>1. t.history \in Seq(Lines) /\ t.pending \in Lines /\ rows \in Seq(Rows)
      /\ Len(rows) \in 0..SCROLLBACK
      /\ Len(t.history) <= MAX_HISTORY_LINES /\ NoRepeats(t.history)
  BY ScrollbackIs DEF Seen, Trackers
<1>2. /\ b \in BreakRecords /\ b.history = t.history /\ b.pending = t.pending
      /\ b.above = Len(rows) /\ b.resized = resized
  BY <1>1 DEF BreakRecords
<1> HIDE DEF b
<1>3. <<>> \in Seq(Rows) /\ Len(<<>>) = 0
  BY EmptySeq
<1>4. FromBreak(t, b, <<>>)
  BY <1>1, <1>2, NoNews DEF FromBreak
<1>5. Len(rows) <= b.above + Len(<<>>)
  BY <1>1, <1>2, <1>3
<1>6. Tracks(rows, screen, t, <<>>, b)
  BY <1>1, <1>2, <1>3, <1>4, <1>5 DEF Tracks
<1>7. QED BY <1>6 DEF b

------------------------------------------------------------------------------
(* Every step keeps the invariant.                                          *)

\* After a break the tracker is the one at the break.
LEMMA BreaksKeeps ==
  ASSUME Seen(scrollback', alt', tracker', copy', steps'), NEW resized \in BOOLEAN,
         ~resized => tracker'.prevScrollback = scrollback', alt' = NoScreen => ~resized,
         BreaksAt(tracker', scrollback', <<>>, resized)
  PROVE  IInv'
<1>1. Tracks(scrollback', alt', tracker', <<>>,
             [history |-> tracker'.history, pending |-> tracker'.pending,
              above |-> Len(scrollback'), broken |-> TRUE, resized |-> resized])
  BY BreakTracks
<1>2. Tracks(scrollback', alt', tracker', since', before')
  BY <1>1 DEF BreaksAt
<1>3. QED BY <1>2 DEF IInv

LEMMA TracksFacts ==
  ASSUME IInv
  PROVE  /\ scrollback \in Seq(Rows) /\ Len(scrollback) \in 0..SCROLLBACK /\ alt \in Screens
         /\ tracker \in Trackers /\ tracker.history \in Seq(Lines) /\ tracker.pending \in Lines
         /\ Len(tracker.history) <= MAX_HISTORY_LINES /\ NoRepeats(tracker.history)
         /\ since \in Seq(Rows) /\ Len(since) \in Nat /\ steps \in 0..MaxSteps
         /\ before \in BreakRecords /\ before.resized \in BOOLEAN /\ before.above \in 0..SCROLLBACK
         /\ before.history \in Seq(Lines) /\ before.pending \in Lines
         /\ ~before.resized => tracker.prevScrollback = scrollback
<1>1. Seen(scrollback, alt, tracker, copy, steps)
      /\ Tracks(scrollback, alt, tracker, since, before)
  BY DEF IInv
<1>2. /\ scrollback \in BoundedSeq(Rows, SCROLLBACK) /\ alt \in Screens /\ tracker \in Trackers
      /\ Len(tracker.history) <= MAX_HISTORY_LINES /\ NoRepeats(tracker.history)
      /\ steps \in 0..MaxSteps
  BY <1>1 DEF Seen
<1>3. /\ since \in Seq(Rows) /\ before \in BreakRecords
      /\ ~before.resized => tracker.prevScrollback = scrollback
  BY <1>1 DEF Tracks
<1>4. scrollback \in Seq(Rows) /\ Len(scrollback) \in 0..SCROLLBACK
  BY <1>2, ScrollbackIs
<1>5. Len(since) \in Nat
  BY <1>3, LenProperties
<1>6. tracker.history \in Seq(Lines) /\ tracker.pending \in Lines
  BY <1>2 DEF Trackers
<1>7. before.resized \in BOOLEAN /\ before.above \in 0..SCROLLBACK
      /\ before.history \in Seq(Lines) /\ before.pending \in Lines
  BY <1>3 DEF BreakRecords
<1>8. QED BY <1>2, <1>3, <1>4, <1>5, <1>6, <1>7

\* Rows that scroll out after a break, and then more.
LEMMA FromBreakTwice ==
  ASSUME IInv, NEW out \in Seq(Rows), FromBreak(tracker, before, since),
         FromBreak(tracker', tracker, out)
  PROVE  FromBreak(tracker', before, since \o out)
<1>1. /\ before.history \in Seq(Lines) /\ before.pending \in Lines
      /\ tracker.history \in Seq(Lines) /\ tracker.pending \in Lines
      /\ since \in Seq(LineRows) /\ out \in Seq(LineRows)
  BY TracksFacts, RowTypes
<1>2. /\ tracker.history = LastOf(before.history \o News(before.history, before.pending, since),
                                  MAX_HISTORY_LINES)
      /\ tracker.pending = Joined(before.pending, since).pending
      /\ tracker'.history = LastOf(tracker.history \o News(tracker.history, tracker.pending, out),
                                   MAX_HISTORY_LINES)
      /\ tracker'.pending = Joined(tracker.pending, out).pending
  BY DEF FromBreak
<1>3. /\ LastOf(tracker.history \o News(tracker.history, tracker.pending, out), MAX_HISTORY_LINES)
           = LastOf(before.history \o News(before.history, before.pending, since \o out),
                    MAX_HISTORY_LINES)
      /\ Joined(tracker.pending, out).pending = Joined(before.pending, since \o out).pending
  BY <1>1, <1>2, NewsTwice
<1>4. QED BY <1>2, <1>3 DEF FromBreak

LEMMA ScrollOutKeeps ==
  ASSUME IInv, NEW out \in Pieces, ScrollOut(out)
  PROVE  IInv'
<1>1. /\ alt = NoScreen /\ Costs(Len(out)) /\ Keeps(scrollback \o out) /\ alt' = NoScreen
      /\ since' = since \o out /\ Observes /\ before' = before
  BY DEF ScrollOut
<1>2. out \in Seq(Rows) /\ Len(out) \in Nat
  BY PiecesAre
<1>3. scrollback \o out \in Seq(Rows) /\ Len(scrollback \o out) = Len(scrollback) + Len(out)
  BY <1>2, TracksFacts, ConcatProperties
<1>4. /\ scrollback' \in BoundedSeq(Rows, SCROLLBACK)
      /\ Len(scrollback') \in 0..SCROLLBACK
      /\ Len(scrollback') <= Len(scrollback) + Len(out)
      /\ Len(scrollback) + Len(out) <= SCROLLBACK => scrollback' = scrollback \o out
  BY <1>1, <1>3, KeepsIs
<1>5. steps' \in 0..MaxSteps
  BY <1>1, <1>2, TracksFacts, CostsIs
<1>6. ~before.resized
  BY <1>1 DEF IInv, Tracks
<1>7. tracker.prevScrollback = scrollback
  BY <1>6, TracksFacts
<1>8. /\ Seen(scrollback', alt', tracker', copy', steps')
      /\ tracker'.prevScrollback = scrollback'
      /\ scrollback' = scrollback \o out => FromBreak(tracker', tracker, out)
  <2>1. Seen(scrollback, alt, tracker, copy, steps) /\ alt' \in Screens
    BY <1>1 DEF IInv, Screens
  <2>2. QED BY <1>1, <1>2, <1>4, <1>5, <1>7, <2>1, ObservesIs
<1>9. since' \in Seq(Rows) /\ Len(since') = Len(since) + Len(out)
  BY <1>1, <1>2, TracksFacts, ConcatProperties
<1>10. /\ Len(before.history) <= MAX_HISTORY_LINES /\ NoRepeats(before.history)
       /\ Len(scrollback) <= before.above + Len(since)
       /\ before.above + Len(since) <= SCROLLBACK => FromBreak(tracker, before, since)
  BY DEF IInv, Tracks
<1>11. Len(scrollback') <= before.above + Len(since')
  BY <1>2, <1>4, <1>9, <1>10, TracksFacts
<1>12. ASSUME before.above + Len(since') <= SCROLLBACK PROVE FromBreak(tracker', before, since')
  <2>1. /\ before.above + Len(since) <= SCROLLBACK
        /\ Len(scrollback) + Len(out) <= SCROLLBACK
    BY <1>2, <1>9, <1>10, <1>12, TracksFacts, ConstantsAssumption
  <2>2. FromBreak(tracker, before, since) /\ FromBreak(tracker', tracker, out)
    BY <1>4, <1>8, <1>10, <2>1
  <2>3. QED BY <1>1, <1>2, <2>2, FromBreakTwice
<1>13. QED BY <1>1, <1>6, <1>8, <1>9, <1>10, <1>11, <1>12, TracksFacts DEF IInv, Tracks

LEMMA ClearKeeps ==
  ASSUME IInv, NEW out \in Pieces, Clear(out)
  PROVE  IInv'
<1>1. /\ alt = NoScreen /\ Costs(1 + Len(out)) /\ Keeps(out) /\ alt' = NoScreen /\ Observes
      /\ IF out = <<>> THEN UNCHANGED <<since, before>> ELSE Breaks
  BY DEF Clear
<1>2. out \in Seq(Rows) /\ Len(out) \in Nat
  BY PiecesAre
<1>3. /\ scrollback' \in BoundedSeq(Rows, SCROLLBACK) /\ Len(scrollback') <= Len(out)
      /\ scrollback' \in Seq(Rows)
  BY <1>1, <1>2, KeepsIs
<1>4. steps' \in 0..MaxSteps
  <2>1. 1 + Len(out) \in Nat
    BY <1>2
  <2>2. QED BY <1>1, <2>1, TracksFacts, CostsIs
<1>5. ~before.resized
  BY <1>1 DEF IInv, Tracks
<1>6. tracker.prevScrollback = scrollback
  BY <1>5, TracksFacts
<1>7. /\ Seen(scrollback', alt', tracker', copy', steps')
      /\ tracker'.prevScrollback = scrollback'
  <2>1. Seen(scrollback, alt, tracker, copy, steps) /\ alt' \in Screens
    BY <1>1 DEF IInv, Screens
  <2>2. QED BY <1>1, <1>3, <1>4, <2>1, ObservesIs
<1>8. CASE out # <<>>
  BY <1>1, <1>5, <1>7, <1>8, TracksFacts, BreaksKeeps DEF Breaks
<1>9. CASE out = <<>>
  <2>1. since' = since /\ before' = before /\ Len(out) = 0
    BY <1>1, <1>9, EmptySeq
  <2>2. scrollback' = <<>> /\ Len(scrollback') = 0
    <3>1. Len(scrollback') \in Nat
      BY <1>3, LenProperties
    <3>2. Len(scrollback') = 0
      BY <1>3, <2>1, <3>1
    <3>3. QED BY <1>3, <3>2, EmptySeq
  <2>3. tracker'.history = tracker.history /\ tracker'.pending = tracker.pending
    <3>1. ~(alt # NoScreen)
      BY <1>1
    <3>2. OverlapSuffixPrefix(tracker.prevScrollback, scrollback') \in 0..0
      <4>1. tracker.prevScrollback \in Seq(Rows) /\ scrollback' \in Seq(Rows)
        BY <1>3, <1>6, TracksFacts
      <4>2. /\ Overlaps(tracker.prevScrollback, scrollback') \in SUBSET (0..0)
            /\ Overlaps(tracker.prevScrollback, scrollback') # {}
        BY <2>2, <4>1, OverlapsAre
      <4>3. QED BY <4>2, MaxIs DEF OverlapSuffixPrefix
    <3> DEFINE asked == [tracker EXCEPT !.told = <<>>]
    <3>3. tracker'.history = AppendRows(asked, <<>>).history
          /\ tracker'.pending = AppendRows(asked, <<>>).pending
      <4> DEFINE new == SubSeq(scrollback', OverlapSuffixPrefix(tracker.prevScrollback, scrollback') + 1,
                               Len(scrollback'))
                 v == AppendRows(asked, new)
      <4>1. new = <<>>
        <5>1. OverlapSuffixPrefix(tracker.prevScrollback, scrollback') = 0
          BY <3>2
        <5>2. SubSeq(scrollback', 0 + 1, 0) = <<>>
          BY SubSeqEmpty
        <5>3. QED BY <2>2, <5>1, <5>2
      <4>2. asked.prevScrollback = tracker.prevScrollback
        BY TracksFacts DEF Trackers
      <4> HIDE DEF asked
      <4>3. tracker' = ObserveScrollback(asked, scrollback')
        BY <1>1, <3>1 DEF Observes, Observed, asked
      <4>4. tracker' = [v EXCEPT !.prevScrollback = scrollback']
        BY <4>2, <4>3 DEF ObserveScrollback
      <4> HIDE DEF new
      <4>5. v = AppendRows(asked, <<>>)
        BY <4>1
      <4>6. v \in Trackers
        <5>1. asked \in Trackers
          BY TracksFacts, EmptySeq DEF asked, Trackers
        <5>2. <<>> \in Seq(LineRows)
          BY EmptySeq
        <5>3. QED BY <4>5, <5>1, <5>2, AppendRowsIs
      <4> HIDE DEF v
      <4>7. tracker'.history = v.history /\ tracker'.pending = v.pending
        BY <4>4, <4>6 DEF Trackers
      <4>8. QED BY <4>5, <4>7
    <3>4. asked \in Trackers /\ asked.history = tracker.history /\ asked.pending = tracker.pending
      BY TracksFacts, EmptySeq DEF Trackers
    <3> HIDE DEF asked
    <3>5. <<>> \in Seq(LineRows)
      BY EmptySeq
    <3>6. /\ AppendRows(asked, <<>>).history
               = LastOf(asked.history \o News(asked.history, asked.pending, <<>>), MAX_HISTORY_LINES)
          /\ AppendRows(asked, <<>>).pending = Joined(asked.pending, <<>>).pending
      BY <3>4, <3>5, AppendRowsIs
    <3>7. QED BY <3>3, <3>4, <3>6, TracksFacts, NoNews
  <2>4. Tracks(scrollback, alt, tracker, since, before)
    BY DEF IInv
  <2>5. FromBreak(tracker, before, since) => FromBreak(tracker', before, since)
    BY <2>3 DEF FromBreak
  <2>6. Len(scrollback') <= before.above + Len(since)
    BY <2>2, TracksFacts
  <2>7. QED BY <1>1, <1>5, <1>7, <2>1, <2>4, <2>5, <2>6 DEF IInv, Tracks
<1>10. QED BY <1>8, <1>9

LEMMA AlternateKeeps ==
  ASSUME IInv, NEW n \in Nat, Costs(n), alt' \in Screens, alt' # NoScreen,
         UNCHANGED scrollback, Observes, Breaks
  PROVE  IInv'
<1>1. scrollback' \in BoundedSeq(Rows, SCROLLBACK) /\ Seen(scrollback, alt, tracker, copy, steps)
  BY DEF IInv, Seen
<1>2. steps' \in 0..MaxSteps
  BY TracksFacts, CostsIs
<1>3. /\ Seen(scrollback', alt', tracker', copy', steps')
      /\ tracker'.prevScrollback = tracker.prevScrollback
  BY <1>1, <1>2, ObservesIs
<1>4. ~before.resized => tracker'.prevScrollback = scrollback'
  BY <1>3, TracksFacts
<1>5. QED BY <1>3, <1>4, TracksFacts, BreaksKeeps DEF Breaks

LEMMA NotEmptyScreen ==
  ASSUME NEW rows \in [1..AltRows -> AnyRow]
  PROVE  rows \in Screens /\ rows # NoScreen /\ DOMAIN rows = 1..AltRows
<1>1. AltRows \in Nat \ {0}
  BY ConstantsAssumption
<1>2. DOMAIN rows = 1..AltRows /\ 1 \in 1..AltRows
  BY <1>1
<1>3. rows # <<>>
  <2>1. rows \in Seq(AnyRow)
    BY <1>1, SeqDef
  <2>2. DOMAIN rows = 1..Len(rows) /\ Len(rows) \in Nat
    BY <2>1, LenProperties
  <2>3. Len(rows) # 0
    BY <1>1, <1>2, <2>2
  <2>4. QED BY <2>3, EmptySeq
<1>4. QED BY <1>2, <1>3 DEF Screens, NoScreen

LEMMA EnterAlternateKeeps ==
  ASSUME IInv, NEW rows \in [1..AltRows -> {row \in AnyRow : ~row.wrapped}], EnterAlternate(rows)
  PROVE  IInv'
<1>1. rows \in [1..AltRows -> AnyRow]
  OBVIOUS
<1>2. MaxScrolled + 2 \in Nat
  BY ConstantsAssumption
<1>3. QED BY <1>1, <1>2, NotEmptyScreen, AlternateKeeps DEF EnterAlternate

LEMMA RedrawKeeps ==
  ASSUME IInv, NEW i \in 1..AltRows, NEW row \in AnyRow, Redraw(i, row)
  PROVE  IInv'
<1>1. alt \in [1..AltRows -> AnyRow]
  BY TracksFacts DEF Redraw, Screens
<1>2. alt' \in [1..AltRows -> AnyRow]
  BY <1>1 DEF Redraw
<1>3. QED BY <1>2, NotEmptyScreen, AlternateKeeps DEF Redraw

LEMMA ScrollRegionType ==
  ASSUME NEW rows \in [1..AltRows -> AnyRow], NEW top \in 1..AltRows, NEW bottom \in 1..AltRows,
         NEW count \in 1..2, NEW row \in AnyRow
  PROVE  ScrollRegion(rows, top, bottom, count, row) \in [1..AltRows -> AnyRow]
<1>1. AltRows \in Nat /\ DOMAIN rows = 1..AltRows
  BY ConstantsAssumption
<1>2. BlankRow \in AnyRow
  BY DEF BlankRow, AnyRow, RowsOf
<1>3. ASSUME NEW i \in 1..AltRows
      PROVE  (IF i \notin top..bottom THEN rows[i]
              ELSE IF i + count < bottom THEN rows[i + count]
              ELSE IF i + count = bottom THEN row ELSE BlankRow) \in AnyRow
  <2>1. i + count < bottom => i + count \in 1..AltRows
    BY <1>1
  <2>2. rows[i] \in AnyRow /\ (i + count < bottom => rows[i + count] \in AnyRow)
    BY <2>1
  <2>3. QED BY <1>2, <2>2
<1>4. QED BY <1>1, <1>3 DEF ScrollRegion

LEMMA ScrollKeeps ==
  ASSUME IInv, NEW top \in 1..AltRows, NEW bottom \in 1..AltRows, NEW count \in 1..2,
         NEW row \in AnyRow, Scroll(top, bottom, count, row)
  PROVE  IInv'
<1>1. alt \in [1..AltRows -> AnyRow]
  BY TracksFacts DEF Scroll, Screens
<1>2. alt' \in [1..AltRows -> AnyRow]
  BY <1>1, ScrollRegionType DEF Scroll
<1>3. QED BY <1>2, NotEmptyScreen, AlternateKeeps DEF Scroll

LEMMA LeaveAlternateKeeps ==
  ASSUME IInv, NEW out \in Pieces, LeaveAlternate(out)
  PROVE  IInv'
<1>1. /\ alt # NoScreen /\ Costs(Len(out)) /\ alt' = NoScreen /\ Keeps(scrollback \o out) /\ Observes
      /\ IF before.resized THEN BreaksAt(tracker', scrollback', <<>>, FALSE)
         ELSE BreaksAt(Flush(tracker), scrollback, out, FALSE)
  BY DEF LeaveAlternate
<1>2. out \in Seq(Rows) /\ Len(out) \in Nat
  BY PiecesAre
<1>3. scrollback \o out \in Seq(Rows) /\ Len(scrollback \o out) = Len(scrollback) + Len(out)
  BY <1>2, TracksFacts, ConcatProperties
<1>4. /\ scrollback' \in BoundedSeq(Rows, SCROLLBACK)
      /\ Len(scrollback') \in 0..SCROLLBACK
      /\ Len(scrollback') <= Len(scrollback) + Len(out)
      /\ Len(scrollback) + Len(out) <= SCROLLBACK => scrollback' = scrollback \o out
  BY <1>1, <1>3, KeepsIs
<1>5. steps' \in 0..MaxSteps
  BY <1>1, <1>2, TracksFacts, CostsIs
<1>6. /\ Seen(scrollback', alt', tracker', copy', steps')
      /\ tracker'.prevScrollback = scrollback'
      /\ scrollback' = tracker.prevScrollback \o out => FromBreak(tracker', Flush(tracker), out)
  <2>1. Seen(scrollback, alt, tracker, copy, steps) /\ alt' \in Screens
    BY <1>1 DEF IInv, Screens
  <2>2. QED BY <1>1, <1>2, <1>4, <1>5, <2>1, ObservesIs
<1>7. CASE before.resized
  <2>1. BreaksAt(tracker', scrollback', <<>>, FALSE)
    BY <1>1, <1>7
  <2>2. QED BY <1>6, <2>1, BreaksKeeps
<1>8. CASE ~before.resized
  <2> DEFINE f == Flush(tracker)
             b == [history |-> f.history, pending |-> f.pending, above |-> Len(scrollback),
                   broken |-> TRUE, resized |-> FALSE]
  <2>1. since' = out /\ before' = b
    BY <1>1, <1>8 DEF BreaksAt
  <2>2. f \in Trackers /\ Gains(tracker, f) /\ Len(f.history) <= MAX_HISTORY_LINES
    BY TracksFacts, FlushIs
  <2> HIDE DEF f
  <2>3. f.history \in Seq(Lines) /\ f.pending \in Lines /\ NoRepeats(f.history)
    BY <2>2, TracksFacts DEF Trackers, Gains
  <2>4. /\ b \in BreakRecords /\ b.history = f.history /\ b.pending = f.pending
        /\ b.above = Len(scrollback) /\ ~b.resized
    BY <2>3, TracksFacts DEF BreakRecords
  <2> HIDE DEF b
  <2>5. ASSUME b.above + Len(out) <= SCROLLBACK PROVE FromBreak(tracker', b, out)
    <3>1. scrollback' = tracker.prevScrollback \o out
      BY <1>4, <1>8, <2>4, <2>5, TracksFacts
    <3>2. FromBreak(tracker', f, out)
      BY <1>6, <3>1 DEF f
    <3>3. QED BY <2>4, <3>2 DEF FromBreak
  <2>6. Tracks(scrollback', alt', tracker', out, b)
    BY <1>1, <1>2, <1>4, <1>6, <2>2, <2>3, <2>4, <2>5 DEF Tracks
  <2>7. QED BY <1>6, <2>1, <2>6 DEF IInv
<1>9. QED BY <1>7, <1>8

LEMMA ResizeKeeps ==
  ASSUME IInv, NEW kept \in {Len(scrollback), Len(scrollback) - 1} \intersect Nat,
         NEW out \in BoundedSeq(Rows, 1), Resize(kept, out)
  PROVE  IInv'
<1>1. /\ Costs(1) /\ Keeps(SubSeq(scrollback, 1, kept) \o out) /\ UNCHANGED <<alt, copy>>
      /\ tracker' = SyncBaseline(tracker, scrollback', alt)
      /\ BreaksAt(tracker', scrollback', <<>>, before.resized \/ alt # NoScreen)
  BY DEF Resize
<1>2. out \in Seq(Rows)
  BY BoundedSeqIs
<1>3. SubSeq(scrollback, 1, kept) \in Seq(Rows)
  <2>1. kept \in Int /\ 1 \in Int /\ kept <= Len(scrollback)
    BY TracksFacts
  <2>2. \A i \in 1..kept : scrollback[i] \in Rows
    <3>1. \A i \in 1..kept : i \in 1..Len(scrollback)
      BY <2>1, TracksFacts
    <3>2. QED BY <3>1, TracksFacts, ElementOfSeq
  <2>3. QED BY <2>1, <2>2, SubSeqProperties
<1>4. SubSeq(scrollback, 1, kept) \o out \in Seq(Rows)
  BY <1>2, <1>3, ConcatProperties
<1>5. scrollback' \in BoundedSeq(Rows, SCROLLBACK) /\ scrollback' \in Seq(Rows)
  BY <1>1, <1>4, KeepsIs
<1>6. steps' \in 0..MaxSteps
  BY <1>1, TracksFacts, CostsIs
<1>7. Seen(scrollback, alt, tracker, copy, steps) /\ Tracks(scrollback, alt, tracker, since, before)
  BY DEF IInv
<1>8. /\ tracker' \in Trackers /\ tracker'.history = tracker.history /\ tracker'.prevAlt = alt
      /\ alt = NoScreen => tracker'.prevScrollback = scrollback'
  <2>1. <<>> \in Lines /\ <<>> \in Seq(Lines) /\ <<>> \in Seq(Rows)
    BY EmptySeq DEF Lines
  <2>2. QED BY <1>1, <1>5, <2>1, TracksFacts DEF SyncBaseline, Trackers
<1>9. Seen(scrollback', alt', tracker', copy', steps')
  BY <1>1, <1>5, <1>6, <1>7, <1>8 DEF Seen
<1>10. alt = NoScreen => ~before.resized
  BY <1>7 DEF Tracks
<1>11. PICK resized \in BOOLEAN : resized = (before.resized \/ alt # NoScreen)
  OBVIOUS
<1>12. BreaksAt(tracker', scrollback', <<>>, resized)
  BY <1>1, <1>11
<1>13. ~resized => alt = NoScreen
  BY <1>11
<1>14. alt' = NoScreen => ~resized
  BY <1>1, <1>10, <1>11
<1>15. QED BY <1>8, <1>9, <1>12, <1>13, <1>14, BreaksKeeps

LEMMA InitHolds ==
  ASSUME Init
  PROVE  IInv
<1>1. /\ scrollback = <<>> /\ alt = NoScreen
      /\ tracker = [history |-> <<>>, pending |-> <<>>, told |-> <<>>,
                    prevScrollback |-> <<>>, prevAlt |-> NoScreen]
      /\ copy = <<>> /\ since = <<>> /\ steps = 0
      /\ before = [history |-> <<>>, pending |-> <<>>, above |-> 0,
                   broken |-> FALSE, resized |-> FALSE]
  BY DEF Init
<1>2. SCROLLBACK \in Nat /\ MaxSteps \in Nat /\ MAX_HISTORY_LINES \in Nat
  BY ConstantsAssumption
<1>3. <<>> \in Seq(Lines) /\ <<>> \in Lines /\ <<>> \in Seq(Rows) /\ Len(<<>>) = 0
  BY EmptySeq DEF Lines
<1>4. <<>> \in BoundedSeq(Rows, SCROLLBACK)
  <2>1. PICK e \in Seq(Rows) : e = <<>> /\ Len(e) = 0
    BY <1>3
  <2>2. Len(e) <= SCROLLBACK
    BY <1>2, <2>1
  <2>3. e \in BoundedSeq(Rows, SCROLLBACK)
    BY <1>2, <2>2, BoundedSeqIs
  <2>4. QED BY <2>1, <2>3
<1>5. tracker \in Trackers /\ tracker.history = <<>> /\ tracker.pending = <<>>
      /\ tracker.prevScrollback = <<>> /\ tracker.prevAlt = NoScreen
  BY <1>1, <1>3 DEF Trackers, Screens
<1>6. before \in BreakRecords /\ before.history = <<>> /\ before.pending = <<>>
      /\ before.above = 0 /\ before.resized = FALSE
  BY <1>1, <1>2, <1>3 DEF BreakRecords
<1>7. NoRepeats(<<>>)
  BY <1>3 DEF NoRepeats
<1>8. FromBreak(tracker, before, <<>>)
  <2>1. Len(before.history) <= MAX_HISTORY_LINES /\ before.history \in Seq(Lines)
        /\ before.pending \in Lines
    BY <1>2, <1>3, <1>6
  <2>2. /\ before.history = LastOf(before.history \o News(before.history, before.pending, <<>>),
                                   MAX_HISTORY_LINES)
        /\ Joined(before.pending, <<>>).pending = before.pending
    BY <2>1, NoNews
  <2>3. tracker.history = before.history /\ tracker.pending = before.pending
    BY <1>5, <1>6
  <2>4. QED BY <2>2, <2>3 DEF FromBreak
<1>9. Seen(scrollback, alt, tracker, copy, steps)
  BY <1>1, <1>2, <1>3, <1>4, <1>5, <1>7 DEF Seen, Screens
<1>10. Tracks(scrollback, alt, tracker, since, before)
  BY <1>1, <1>2, <1>3, <1>5, <1>6, <1>7, <1>8 DEF Tracks
<1>11. QED BY <1>9, <1>10 DEF IInv

LEMMA NextKeeps ==
  ASSUME IInv, [Next]_vars
  PROVE  IInv'
<1>1. ASSUME NEW out \in Pieces, ScrollOut(out) PROVE IInv'
  BY <1>1, ScrollOutKeeps
<1>2. ASSUME NEW out \in Pieces, Clear(out) PROVE IInv'
  BY <1>2, ClearKeeps
<1>3. ASSUME NEW out \in Pieces, LeaveAlternate(out) PROVE IInv'
  BY <1>3, LeaveAlternateKeeps
<1>4. ASSUME NEW rows \in [1..AltRows -> {row \in AnyRow : ~row.wrapped}], EnterAlternate(rows)
      PROVE  IInv'
  BY <1>4, EnterAlternateKeeps
<1>5. ASSUME NEW i \in 1..AltRows, NEW row \in AnyRow, Redraw(i, row) PROVE IInv'
  BY <1>5, RedrawKeeps
<1>6. ASSUME NEW top \in 1..AltRows, NEW bottom \in 1..AltRows, NEW count \in 1..2,
             NEW row \in AnyRow, Scroll(top, bottom, count, row)
      PROVE  IInv'
  BY <1>6, ScrollKeeps
<1>7. ASSUME NEW kept \in {Len(scrollback), Len(scrollback) - 1} \intersect Nat,
             NEW out \in BoundedSeq(Rows, 1), Resize(kept, out)
      PROVE  IInv'
  BY <1>7, ResizeKeeps
<1>8. CASE UNCHANGED vars
  BY <1>8 DEF vars, IInv
<1>9. QED BY <1>1, <1>2, <1>3, <1>4, <1>5, <1>6, <1>7, <1>8 DEF Next

LEMMA Always == Spec => []IInv
BY InitHolds, NextKeeps, PTL DEF Spec

------------------------------------------------------------------------------
(* What enters the history from the alternate screen.                       *)

\* What the tracker takes in on the alternate screen is what is detected.
LEMMA TakesIn ==
  ASSUME IInv, alt # NoScreen, alt' # NoScreen, Observes,
         NEW rows, rows = DetectScrolledRows(alt, alt')
  PROVE  Enters(rows)
<1> DEFINE asked == [tracker EXCEPT !.told = <<>>]
<1>1. tracker' = Looks(tracker, alt, scrollback', alt')
  BY DEF Observes, Looks
<1>2. tracker' = ObserveAlternate(asked, alt')
  BY <1>1 DEF Looks, Observed
<1>3. tracker \in Trackers /\ tracker.prevAlt = alt
  BY DEF IInv, Seen
<1>4. asked.prevAlt = alt
  BY <1>3 DEF Trackers
<1>5. Enters(rows) <=> tracker' = [AppendRows(asked, rows) EXCEPT !.prevAlt = alt']
  BY DEF Enters
<1> HIDE DEF asked
<1>6. ObserveAlternate(asked, alt') = [AppendRows(asked, rows) EXCEPT !.prevAlt = alt']
  BY <1>4 DEF ObserveAlternate
<1>7. QED BY <1>2, <1>5, <1>6

LEMMA ScreenIs ==
  ASSUME NEW rows \in [1..AltRows -> AnyRow]
  PROVE  /\ AltRows \in Nat /\ rows \in Seq(AnyRow) /\ Len(rows) = AltRows
         /\ DOMAIN rows = 1..AltRows
<1>1. AltRows \in Nat
  BY ConstantsAssumption
<1>2. rows \in Seq(AnyRow)
  BY <1>1, SeqDef
<1>3. DOMAIN rows = 1..AltRows /\ DOMAIN rows = 1..Len(rows) /\ Len(rows) \in Nat
  BY <1>2, LenProperties
<1>4. Len(rows) = AltRows
  BY <1>1, <1>3
<1>5. QED BY <1>1, <1>2, <1>3, <1>4

LEMMA RegionMoves ==
  ASSUME NEW rows \in [1..AltRows -> AnyRow], Distinct(rows),
         NEW top \in 1..AltRows, NEW bottom \in 1..AltRows, NEW count \in 1..2,
         top + count + 2 <= bottom, NEW row \in AnyRow,
         NEW next, next = ScrollRegion(rows, top, bottom, count, row)
  PROVE  MovedUp(AnyRow, rows, next, AltRows, top, bottom, count)
<1>1. next \in [1..AltRows -> AnyRow]
  BY ScrollRegionType
<1>2. /\ AltRows \in Nat /\ rows \in Seq(AnyRow) /\ Len(rows) = AltRows
      /\ DOMAIN rows = 1..AltRows
      /\ next \in Seq(AnyRow) /\ Len(next) = AltRows
  BY <1>1, ScreenIs
<1>3. count \in 1..AltRows
  BY <1>2
<1>4. ASSUME NEW j \in 1..AltRows, j < top \/ j > bottom PROVE next[j].text = rows[j].text
  <2>1. j \notin top..bottom
    BY <1>2, <1>4
  <2>2. QED BY <1>2, <2>1 DEF ScrollRegion
<1>5. ASSUME NEW j \in top..bottom, j + count < bottom PROVE next[j].text = rows[j + count].text
  <2>1. j \in 1..AltRows
    BY <1>2
  <2>2. QED BY <1>2, <1>5, <2>1 DEF ScrollRegion
<1>6. ASSUME NEW j \in top..bottom, j + count > bottom PROVE next[j].text = <<>>
  <2>1. j \in 1..AltRows /\ ~(j + count < bottom) /\ j + count # bottom
    BY <1>2, <1>6
  <2>2. next[j] = BlankRow
    BY <1>2, <2>1 DEF ScrollRegion
  <2>3. QED BY <2>2 DEF BlankRow
<1>7. QED BY <1>2, <1>3, <1>4, <1>5, <1>6 DEF MovedUp

\* What the alternate screen scrolls away is detected, and nothing else.
LEMMA ScrollEnters ==
  ASSUME IInv, Distinct(alt), NEW top \in DOMAIN alt, NEW bottom \in DOMAIN alt,
         NEW count \in 1..2, NEW row \in AnyRow, Scroll(top, bottom, count, row),
         top + count + 2 <= bottom, Contentful(SubSeq(alt, top, top + count - 1)) # {}
  PROVE  Enters(SubSeq(alt, top, top + count - 1))
<1>1. /\ alt # NoScreen /\ Observes /\ alt' = ScrollRegion(alt, top, bottom, count, row)
  BY DEF Scroll
<1>2. alt \in [1..AltRows -> AnyRow]
  BY <1>1, TracksFacts DEF Screens
<1>3. top \in 1..AltRows /\ bottom \in 1..AltRows
  BY <1>2
<1>4. alt' \in [1..AltRows -> AnyRow] /\ alt' # NoScreen
  <2>1. alt' \in [1..AltRows -> AnyRow]
    BY <1>1, <1>2, <1>3, ScrollRegionType
  <2>2. QED BY <2>1, NotEmptyScreen
<1>5. MovedUp(AnyRow, alt, alt', AltRows, top, bottom, count)
  BY <1>1, <1>2, <1>3, RegionMoves
<1>6. DetectScrolledRows(alt, alt') = SubSeq(alt, top, top + count - 1)
  BY <1>5, DetectsScroll
<1>7. QED BY <1>1, <1>4, <1>6, TakesIn

LEMMA RedrawEntersNothing ==
  ASSUME IInv, Distinct(alt), NEW i \in DOMAIN alt, NEW row \in AnyRow, Redraw(i, row)
  PROVE  Enters(<<>>)
<1>1. alt # NoScreen /\ Observes /\ alt' = [alt EXCEPT ![i] = row]
  BY DEF Redraw
<1>2. alt \in [1..AltRows -> AnyRow]
  BY <1>1, TracksFacts DEF Screens
<1>3. alt' \in [1..AltRows -> AnyRow]
  BY <1>1, <1>2
<1>4. alt' # NoScreen
  BY <1>3, NotEmptyScreen
<1>5. /\ AltRows \in Nat /\ alt \in Seq(AnyRow) /\ alt' \in Seq(AnyRow)
      /\ Len(alt) = AltRows /\ Len(alt') = AltRows /\ i \in 1..AltRows
  BY <1>2, <1>3, ScreenIs
<1>6. \A j \in 1..AltRows : j # i => alt'[j].text = alt[j].text
  BY <1>1, <1>2
<1>7. DetectScrolledRows(alt, alt') = <<>>
  BY <1>5, <1>6, DetectsNothing
<1>8. QED BY <1>1, <1>4, <1>7, TakesIn

------------------------------------------------------------------------------
(* What is missed when the emulator drops rows.                             *)

IsEnd(end, s, n, c, S) ==
  end \in Seq(S) /\ Len(end) = c /\ \A i \in 1..c : end[i] = s[n - c + i]

LEMMA EndIs ==
  ASSUME NEW S, NEW s \in Seq(S), NEW c \in Nat, NEW n, n = Len(s), c <= n
  PROVE  IsEnd(LastOf(s, c), s, n, c, S)
<1>1. n \in Nat
  BY LenProperties
<1>2. PICK m : m = Kept(n, c)
  OBVIOUS
<1>3. m = c
  BY <1>1, <1>2 DEF Kept
<1>4. /\ LastOf(s, c) \in Seq(S) /\ Len(LastOf(s, c)) = m
      /\ \A i \in 1..m : LastOf(s, c)[i] = s[n - m + i]
  BY <1>2, LastOfIs
<1>5. QED BY <1>3, <1>4 DEF IsEnd

\* Of the rows that scrolled out, the overlap hides such as repeat those before them.
HidesRepeats(previous, out, current) ==
  \E missed \in 0..Len(out) :
    /\ missed <= Len(previous)
    /\ SubSeq(out, 1, missed) = LastOf(previous, missed)
    /\ SubSeq(current, OverlapSuffixPrefix(previous, current) + 1, Len(current))
         = SubSeq(out, missed + 1, Len(out))

\* Rows scroll out, of which the emulator keeps the newest: those that the longest
\* overlap hides repeat the rows before them.
LEMMA HiddenRowsRepeat ==
  ASSUME NEW S, NEW previous \in Seq(S), NEW out \in Seq(S), NEW cap \in Nat,
         Len(out) <= cap, NEW current, current = LastOf(previous \o out, cap)
  PROVE  HidesRepeats(previous, out, current)
<1>0. PICK a \in Nat : a = Len(previous)
  OBVIOUS
<1>1. PICK b \in Nat : b = Len(out)
  OBVIOUS
<1>2. PICK all : all = previous \o out
  OBVIOUS
<1>3. PICK c \in Nat : c = a + b
  OBVIOUS
<1>4. /\ all \in Seq(S) /\ c = Len(all)
      /\ \A i \in 1..c : all[i] = IF i <= a THEN previous[i] ELSE out[i - a]
  BY <1>0, <1>1, <1>2, <1>3, ConcatProperties
<1>5. PICK m : m = Kept(c, cap)
  OBVIOUS
<1>6. /\ m \in Nat /\ m <= c /\ m <= cap /\ current \in Seq(S) /\ Len(current) = m
      /\ \A i \in 1..m : current[i] = all[c - m + i]
  <2>1. PICK newest : newest = LastOf(all, cap)
    OBVIOUS
  <2>2. current = newest
    BY <1>2, <2>1
  <2>3. /\ m \in Nat /\ m <= c /\ m <= cap /\ newest \in Seq(S) /\ Len(newest) = m
        /\ \A i \in 1..m : newest[i] = all[c - m + i]
    <3>1. all \in Seq(S) /\ c = Len(all)
      BY <1>4
    <3>2. QED BY <1>5, <2>1, <3>1, LastOfIs
  <2>4. QED BY <2>2, <2>3
<1>m. m \in Nat /\ m <= c /\ m <= cap
  BY <1>6
<1>7. m >= b
  BY <1>1, <1>3, <1>5 DEF Kept
<1>8. PICK shown \in Nat : shown = m - b
  BY <1>m, <1>7
<1>9. shown <= a /\ shown <= m
  BY <1>3, <1>m, <1>8
<1>10. \A i \in 1..shown : current[i] = previous[a - shown + i]
  <2> SUFFICES ASSUME NEW i \in 1..shown PROVE current[i] = previous[a - shown + i]
    OBVIOUS
  <2>1. PICK j \in 1..c : j = a - shown + i
    BY <1>0, <1>1, <1>3, <1>8, <1>9
  <2>2. i \in 1..m /\ c - m + i = j /\ j <= a
    BY <1>3, <1>m, <1>8, <1>9, <2>1
  <2>3. current[i] = all[j] /\ all[j] = previous[j]
    BY <1>4, <1>6, <2>2
  <2>4. QED BY <2>1, <2>3
<1>11. \A i \in 1..b : current[shown + i] = out[i]
  <2> SUFFICES ASSUME NEW i \in 1..b PROVE current[shown + i] = out[i]
    OBVIOUS
  <2>1. PICK j \in 1..c : j = a + i
    BY <1>0, <1>1, <1>3
  <2>2. PICK n \in 1..m : n = shown + i
    BY <1>m, <1>8
  <2>3. c - m + n = j /\ ~(j <= a) /\ j - a = i
    BY <1>3, <1>m, <1>8, <2>1, <2>2
  <2>4. current[n] = all[j] /\ all[j] = out[i]
    BY <1>4, <1>6, <2>3
  <2>5. QED BY <2>2, <2>4
<1>12. \A k \in Overlaps(previous, current) :
         /\ k \in 0..m /\ k <= a
         /\ \A i \in 1..k : current[i] = previous[a - k + i]
  <2> SUFFICES ASSUME NEW k \in Overlaps(previous, current)
               PROVE  /\ k \in 0..m /\ k <= a
                      /\ \A i \in 1..k : current[i] = previous[a - k + i]
    OBVIOUS
  <2>1. k \in 0..m /\ k <= a
    BY <1>0, <1>6, OverlapsAre
  <2>2. LastOf(previous, k) = SubSeq(current, 1, k)
    BY DEF Overlaps
  <2>3. IsPart(SubSeq(current, 1, k), current, 1, k, S)
    <3>1. \A i \in 1..k : i \in 1..Len(current)
      BY <1>6, <2>1
    <3>2. Holds(current, 1, k, S)
      BY <1>6, <3>1, ElementOfSeq DEF Holds
    <3>3. k = 1 + k - 1 /\ k \in Int /\ k \in Nat /\ 1 \in Int
      BY <1>6, <2>1
    <3>4. QED BY <3>2, <3>3, PartIs
  <2>4. \A i \in 1..k : SubSeq(current, 1, k)[i] = current[1 + i - 1]
    BY <2>3 DEF IsPart
  <2>5. \A i \in 1..k : LastOf(previous, k)[i] = previous[a - k + i]
    <3>1. k \in Nat
      BY <1>m, <2>1
    <3>2. IsEnd(LastOf(previous, k), previous, a, k, S)
      BY <1>0, <2>1, <3>1, EndIs
    <3>3. QED BY <3>2 DEF IsEnd
  <2>6. \A i \in 1..k : 1 + i - 1 = i
    BY <1>6, <2>1
  <2>7. QED BY <2>1, <2>2, <2>4, <2>5, <2>6
<1>13. shown \in Overlaps(previous, current)
  <2>1. IsPart(SubSeq(current, 1, shown), current, 1, shown, S)
    <3>1. \A i \in 1..shown : i \in 1..Len(current)
      BY <1>6, <1>9
    <3>2. Holds(current, 1, shown, S)
      BY <1>6, <3>1, ElementOfSeq DEF Holds
    <3>3. shown = 1 + shown - 1 /\ shown \in Int /\ 1 \in Int
      OBVIOUS
    <3>4. QED BY <3>2, <3>3, PartIs
  <2>2. PICK part : part = SubSeq(current, 1, shown)
    OBVIOUS
  <2>3. part \in Seq(S) /\ Len(part) = shown /\ \A i \in 1..shown : part[i] = current[1 + i - 1]
    BY <2>1, <2>2 DEF IsPart
  <2>4. PICK end : end = LastOf(previous, shown)
    OBVIOUS
  <2>5. end \in Seq(S) /\ Len(end) = shown /\ \A i \in 1..shown : end[i] = previous[a - shown + i]
    <3>1. IsEnd(LastOf(previous, shown), previous, a, shown, S)
      BY <1>0, <1>9, EndIs
    <3>2. QED BY <2>4, <3>1 DEF IsEnd
  <2>6. \A i \in 1..shown : 1 + i - 1 = i
    OBVIOUS
  <2>7. \A i \in 1..shown : end[i] = part[i]
    BY <1>10, <2>3, <2>5, <2>6
  <2>8. end = part
    BY <2>3, <2>5, <2>7, SeqEqual
  <2>9. shown \in 0..Min({Len(previous), Len(current)})
    <3>1. Min({a, m}) = IF a <= m THEN a ELSE m
      BY <1>6, MinOfTwo
    <3>2. QED BY <1>0, <1>6, <1>9, <3>1
  <2>10. QED BY <2>2, <2>4, <2>8, <2>9 DEF Overlaps
<1>14. PICK k : k = OverlapSuffixPrefix(previous, current)
  OBVIOUS
<1>15. k \in Overlaps(previous, current) /\ k >= shown
  <2>1. PICK both : both = Overlaps(previous, current)
    OBVIOUS
  <2>2. both \in SUBSET (0..m) /\ both # {} /\ shown \in both
    BY <1>12, <1>13, <2>1
  <2>3. Max(both) \in both /\ \A y \in both : Max(both) >= y
    BY <1>6, <2>2, MaxIs
  <2>4. k = Max(both)
    BY <1>14, <2>1 DEF OverlapSuffixPrefix
  <2>5. QED BY <2>1, <2>2, <2>3, <2>4
<1>16. k \in 0..m /\ k <= a /\ \A i \in 1..k : current[i] = previous[a - k + i]
  BY <1>12, <1>15
<1>17. PICK missed \in 0..b : missed = k - shown
  <2>1. k \in 0..m /\ k >= shown
    BY <1>15, <1>16
  <2>2. k - shown \in 0..b
    BY <1>m, <1>8, <2>1
  <2>3. QED BY <2>2
<1>k. k \in 0..m /\ k <= a /\ k >= shown
  BY <1>15, <1>16
<1>18. missed <= a
  BY <1>m, <1>8, <1>k, <1>17
<1>19. SubSeq(out, 1, missed) = LastOf(previous, missed)
  <2>1. IsPart(SubSeq(out, 1, missed), out, 1, missed, S)
    <3>1. \A i \in 1..missed : i \in 1..Len(out)
      BY <1>1, <1>17
    <3>2. Holds(out, 1, missed, S)
      BY <3>1, ElementOfSeq DEF Holds
    <3>3. missed = 1 + missed - 1 /\ missed \in Int /\ missed \in Nat /\ 1 \in Int
      BY <1>1, <1>17
    <3>4. QED BY <3>2, <3>3, PartIs
  <2>2. PICK part : part = SubSeq(out, 1, missed)
    OBVIOUS
  <2>3. part \in Seq(S) /\ Len(part) = missed /\ \A i \in 1..missed : part[i] = out[1 + i - 1]
    BY <2>1, <2>2 DEF IsPart
  <2>4. PICK end : end = LastOf(previous, missed)
    OBVIOUS
  <2>5. end \in Seq(S) /\ Len(end) = missed /\ \A i \in 1..missed : end[i] = previous[a - missed + i]
    <3>1. missed \in Nat
      BY <1>17
    <3>2. IsEnd(LastOf(previous, missed), previous, a, missed, S)
      BY <1>0, <1>18, <3>1, EndIs
    <3>3. QED BY <2>4, <3>2 DEF IsEnd
  <2>6. ASSUME NEW i \in 1..missed PROVE end[i] = part[i]
    <3>1. 1 + i - 1 = i /\ i \in 1..b
      BY <1>1, <1>17
    <3>2. PICK n \in 1..k : n = shown + i
      BY <1>8, <1>k, <1>m, <1>17
    <3>3. a - k + n = a - missed + i
      BY <1>8, <1>k, <1>m, <1>17, <3>2
    <3>4. current[n] = previous[a - missed + i]
      BY <1>16, <3>3
    <3>5. current[n] = out[i]
      BY <1>11, <3>1, <3>2
    <3>6. QED BY <2>3, <2>5, <3>1, <3>4, <3>5
  <2>7. end = part
    BY <2>3, <2>5, <2>6, SeqEqual
  <2>8. QED BY <2>2, <2>4, <2>7
<1>20. SubSeq(current, k + 1, m) = SubSeq(out, missed + 1, b)
  <2>0. PICK rest \in Nat : rest = m - k
    BY <1>m, <1>k
  <2>1. IsPart(SubSeq(current, k + 1, m), current, k + 1, rest, S)
    <3>1. \A i \in (k + 1)..m : i \in 1..Len(current)
      BY <1>6, <1>16
    <3>2. Holds(current, k + 1, m, S)
      BY <1>6, <3>1, ElementOfSeq DEF Holds
    <3>3. m = (k + 1) + rest - 1 /\ m \in Int /\ k + 1 \in Int
      BY <1>6, <1>16, <2>0
    <3>4. QED BY <3>2, <3>3, PartIs
  <2>2. IsPart(SubSeq(out, missed + 1, b), out, missed + 1, rest, S)
    <3>1. \A i \in (missed + 1)..b : i \in 1..Len(out)
      BY <1>1, <1>17
    <3>2. Holds(out, missed + 1, b, S)
      BY <3>1, ElementOfSeq DEF Holds
    <3>3. b = (missed + 1) + rest - 1 /\ b \in Int /\ missed + 1 \in Int
      BY <1>m, <1>8, <1>k, <1>17, <2>0
    <3>4. QED BY <3>2, <3>3, PartIs
  <2>3. PICK p : p = SubSeq(current, k + 1, m)
    OBVIOUS
  <2>4. PICK q : q = SubSeq(out, missed + 1, b)
    OBVIOUS
  <2>5. p \in Seq(S) /\ Len(p) = rest /\ \A i \in 1..rest : p[i] = current[(k + 1) + i - 1]
    BY <2>1, <2>3 DEF IsPart
  <2>6. q \in Seq(S) /\ Len(q) = rest /\ \A i \in 1..rest : q[i] = out[(missed + 1) + i - 1]
    BY <2>2, <2>4 DEF IsPart
  <2>7. ASSUME NEW i \in 1..rest PROVE p[i] = q[i]
    <3>1. PICK n \in 1..b : n = (missed + 1) + i - 1
      BY <1>m, <1>8, <1>k, <1>17, <2>0
    <3>2. shown + n = (k + 1) + i - 1
      BY <1>m, <1>8, <1>k, <1>17, <3>1
    <3>3. current[shown + n] = out[n]
      BY <1>11
    <3>4. QED BY <2>5, <2>6, <3>1, <3>2, <3>3
  <2>8. p = q
    BY <2>5, <2>6, <2>7, SeqEqual
  <2>9. QED BY <2>3, <2>4, <2>8
<1>21. QED BY <1>0, <1>1, <1>6, <1>14, <1>17, <1>18, <1>19, <1>20 DEF HidesRepeats

LEMMA MissesRepeats ==
  ASSUME IInv, NEW out \in Pieces, ~before.resized, Len(out) <= SCROLLBACK,
         Keeps(scrollback \o out), alt' = NoScreen, Observes
  PROVE  RepeatsMissed(out)
<1>1. /\ tracker \in Trackers /\ tracker.prevScrollback = scrollback /\ tracker.prevAlt = alt
      /\ scrollback \in Seq(Rows) /\ out \in Seq(Rows) /\ SCROLLBACK \in Nat
  BY TracksFacts, PiecesAre, ConstantsAssumption DEF IInv, Seen
<1>2. Asked \in Trackers /\ Asked.prevScrollback = scrollback /\ Asked.prevAlt = alt
  BY <1>1, EmptySeq DEF Asked, Trackers
<1>3. Base.prevScrollback = scrollback
  <2>1. CASE alt # NoScreen
    BY <1>2, <2>1, FlushIs DEF Base
  <2>2. CASE alt = NoScreen
    BY <1>2, <2>2 DEF Base
  <2>3. QED BY <2>1, <2>2
<1>4. tracker' = Looks(tracker, alt, scrollback', alt')
  BY DEF Observes, Looks
<1>5. tracker' = ObserveScrollback(Base, scrollback')
  BY <1>4 DEF Looks, Observed, Base, Asked
<1>6. PICK now : now = scrollback'
  OBVIOUS
<1>7. now = LastOf(scrollback \o out, SCROLLBACK)
  BY <1>6 DEF Keeps
<1>a. HidesRepeats(scrollback, out, now)
  BY <1>1, <1>7, HiddenRowsRepeat
<1>8. PICK missed \in 0..Len(out) :
        /\ missed <= Len(scrollback)
        /\ SubSeq(out, 1, missed) = LastOf(scrollback, missed)
        /\ SubSeq(now, OverlapSuffixPrefix(scrollback, now) + 1, Len(now))
             = SubSeq(out, missed + 1, Len(out))
  BY <1>a DEF HidesRepeats
<1>9. tracker' = TakenIn(Base, scrollback', missed, out)
  BY <1>3, <1>5, <1>6, <1>8 DEF ObserveScrollback, TakenIn
<1>10. QED BY <1>8, <1>9 DEF RepeatsMissed

------------------------------------------------------------------------------
(* The theorems.                                                            *)

\* Every variable keeps its type and its bound, so the history never grows past
\* MAX_HISTORY_LINES and a candidate for what scrolled away is always found where
\* the two pictures of the alternate screen have one.
THEOREM TypeCorrect == Spec => []TypeOK
<1>1. ASSUME IInv PROVE TypeOK
  <2>1. Seen(scrollback, alt, tracker, copy, steps)
        /\ Tracks(scrollback, alt, tracker, since, before)
    BY <1>1 DEF IInv
  <2>2. scrollback \in BoundedSeq(Rows, SCROLLBACK) /\ steps \in 0..MaxSteps
    BY <2>1 DEF Seen
  <2>3. alt = NoScreen \/ alt \in [1..AltRows -> AnyRow]
    BY <2>1 DEF Seen, Screens
  <2>4. /\ tracker.history \in Seq(Lines) /\ Len(tracker.history) <= MAX_HISTORY_LINES
        /\ tracker.pending \in Lines /\ tracker.told \in Seq(Lines)
        /\ tracker.prevScrollback \in Seq(Rows) /\ tracker.prevAlt = alt
        /\ copy = tracker.history
    BY <2>1 DEF Seen, Trackers
  <2>5. /\ since \in Seq(Rows) /\ before.history \in Seq(Lines) /\ before.pending \in Lines
        /\ before.above \in 0..SCROLLBACK
    BY <2>1 DEF Tracks, BreakRecords
  <2>6. before.broken \in BOOLEAN /\ before.resized \in BOOLEAN
    BY <2>1 DEF Tracks, BreakRecords
  <2>7. {before.broken, before.resized} \subseteq BOOLEAN
    BY <2>6
  <2>8. QED BY <2>2, <2>3, <2>4, <2>5, <2>7 DEF TypeOK
<1>2. QED BY <1>1, Always, PTL

\* Whoever keeps what it is told has the history of `macagent run`, whatever was
\* observed: the returned lines are all that the history took in, also when the
\* alternate screen was left, and none of them is told twice.
THEOREM CopyIsHistory == Spec => [](copy = tracker.history)
<1>1. IInv => copy = tracker.history
  BY DEF IInv, Seen
<1>2. QED BY <1>1, Always, PTL

\* As long as the emulator drops no row that was there at the last break, the history
\* is what scrolled out since then.
THEOREM HistoryIsWhole == Spec => [](NothingDropped => HistoryIsTold)
<1>1. ASSUME IInv, NothingDropped PROVE HistoryIsTold
  <2>1. copy = tracker.history
    BY <1>1 DEF IInv, Seen
  <2>2. /\ before.history \in Seq(Lines) /\ before.pending \in Lines /\ since \in Seq(LineRows)
    BY <1>1, TracksFacts, RowTypes
  <2>3. NoRepeats(before.history) /\ FromBreak(tracker, before, since)
    BY <1>1 DEF IInv, Tracks, NothingDropped
  <2> DEFINE joined == Joined(before.pending, since)
             lines == LinesOf(<<[text |-> before.pending, wrapped |-> TRUE]>> \o since)
  <2>4. lines = joined.lines /\ joined.lines \in Seq(Lines)
    <3>1. lines = joined.lines
      BY <2>2, JoinedIsLines
    <3>2. joined \in JoinedLines
      BY <2>2, JoinedType
    <3>3. QED BY <3>1, <3>2 DEF JoinedLines
  <2>5. Expected = LastOf(Squeezed(before.history \o lines), MAX_HISTORY_LINES)
    BY DEF Expected
  <2> HIDE DEF joined, lines
  <2>6. Squeezed(before.history \o joined.lines)
          = before.history \o Appended(before.history, joined.lines)
    BY <2>2, <2>3, <2>4, SqueezedIsAppended
  <2>7. tracker.history
          = LastOf(before.history \o Appended(before.history, joined.lines), MAX_HISTORY_LINES)
    BY <2>3 DEF FromBreak, News, joined
  <2>8. tracker.history = Expected
    BY <2>4, <2>5, <2>6, <2>7
  <2>9. QED BY <2>1, <2>8 DEF HistoryIsTold
<1>2. IInv => (NothingDropped => HistoryIsTold)
  BY <1>1
<1>3. QED BY <1>2, Always, PTL

\* On the alternate screen the history takes in exactly what a region scrolls away,
\* also when blank rows or a row written at the bottom match other rows, and nothing
\* when a row is drawn anew: the best candidate is the scroll.
THEOREM AltEnters == Spec => AltScrollsEnter
<1> DEFINE Body ==
      Distinct(alt) =>
        /\ \A top, bottom \in DOMAIN alt, count \in 1..2, row \in AnyRow :
             /\ top + count + 2 <= bottom
             /\ Contentful(SubSeq(alt, top, top + count - 1)) # {}
             /\ Scroll(top, bottom, count, row)
             => Enters(SubSeq(alt, top, top + count - 1))
        /\ \A i \in DOMAIN alt, row \in AnyRow : Redraw(i, row) => Enters(<<>>)
<1>1. AltScrollsEnter <=> [][Body]_vars
  BY DEF AltScrollsEnter
<1>2. ASSUME IInv PROVE Body
  BY <1>2, ScrollEnters, RedrawEntersNothing
<1>3. IInv => Body
  BY <1>2
<1> HIDE DEF Body
<1>4. []IInv => [][Body]_vars
  BY <1>3, PTL
<1>5. QED BY <1>1, <1>4, Always, PTL

\* When the emulator drops rows, which it may before the tracker looks, the longest
\* overlap can hide rows that scrolled out; they are never others than a repetition of
\* the rows right before them, and all that follow enter.
THEOREM MissesOnlyRepeats == Spec => OnlyRepeatsMissed
<1> DEFINE Body ==
      \A out \in Pieces :
        /\ ScrollOut(out) \/ (LeaveAlternate(out) /\ ~before.resized)
        /\ Len(out) <= SCROLLBACK
        => RepeatsMissed(out)
<1>1. OnlyRepeatsMissed <=> [][Body]_vars
  BY DEF OnlyRepeatsMissed
<1>2. ASSUME IInv, NEW out \in Pieces, Len(out) <= SCROLLBACK,
             ScrollOut(out) \/ (LeaveAlternate(out) /\ ~before.resized)
      PROVE  RepeatsMissed(out)
  <2>1. CASE ScrollOut(out)
    <3>1. ~before.resized
      BY <1>2, <2>1 DEF ScrollOut, IInv, Tracks
    <3>2. QED BY <1>2, <2>1, <3>1, MissesRepeats DEF ScrollOut
  <2>2. CASE LeaveAlternate(out) /\ ~before.resized
    BY <1>2, <2>2, MissesRepeats DEF LeaveAlternate
  <2>3. QED BY <1>2, <2>1, <2>2
<1>3. IInv => Body
  BY <1>2
<1> HIDE DEF Body
<1>4. []IInv => [][Body]_vars
  BY <1>3, PTL
<1>5. QED BY <1>1, <1>4, Always, PTL
=============================================================================
