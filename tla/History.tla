------------------------------ MODULE History ------------------------------
(***************************************************************************)
(* How `macagent run` turns what scrolls off the terminal into lines of    *)
(* history (terminal/history.rs, run/parser.rs).  The emulator is external *)
(* and keeps the rows above the screen up to SCROLLBACK; the tracker sees  *)
(* the emulator only after each piece of output that ends with a newline,  *)
(* and compares what it sees with what it saw last.                        *)
(*                                                                         *)
(* The text of a row is a sequence of at most one letter, so that a line   *)
(* that is wrapped over several rows is the concatenation of their texts.  *)
(* Spaces at the end of a row are cut off before it is looked at: <<>> is  *)
(* an empty row.                                                           *)
(***************************************************************************)
EXTENDS Naturals, SequencesExt

CONSTANTS
  Letters,            \* what a row may show
  AltLetters,         \* what a row of the alternate screen may show
  SCROLLBACK,         \* the rows the emulator keeps above the screen
  MAX_HISTORY_LINES,  \* the lines the history keeps
  AltRows,            \* the rows of the screen
  MaxLineRows,        \* bound: the rows of a line
  MaxScrolled,        \* bound: the rows that one piece of output scrolls out
  MaxSteps            \* bound: rows that scroll out, and other changes

\* The lines that the history keeps fit into the rows that the emulator keeps.
ASSUME ConstantsAssumption ==
  /\ Letters \subseteq AltLetters
  /\ SCROLLBACK \in Nat \ {0} /\ MAX_HISTORY_LINES \in Nat \ {0}
  /\ AltRows \in Nat \ {0} /\ MaxLineRows \in Nat \ {0}
  /\ MAX_HISTORY_LINES * MaxLineRows <= SCROLLBACK
  /\ MaxScrolled \in Nat /\ MaxSteps \in Nat

VARIABLES
  scrollback,  \* the rows above the screen
  alt,         \* the rows of the alternate screen, NoScreen when it is not shown
  tracker,     \* TerminalHistory, and the lines its last observation returned
  copy,        \* what a listener keeps that is told those lines
  since,       \* history: the rows that scrolled out since the last break
  before,      \* history: the tracker and the scrollback at that break
  steps        \* how much of MaxSteps is used up

vars == <<scrollback, alt, tracker, copy, since, before, steps>>

NoScreen == <<>>
RowsOf(letters) ==
  [text : {<<>>} \union {<<letter>> : letter \in letters}, wrapped : BOOLEAN]
Rows == RowsOf(Letters)
AnyRow == RowsOf(AltLetters)
Pieces == BoundedSeq(Rows, MaxScrolled)
BlankRow == [text |-> <<>>, wrapped |-> FALSE]

LastOf(seq, count) == SubSeq(seq, Max({1, Len(seq) - count + 1}), Len(seq))

------------------------------------------------------------------------------
(* The tracker.                                                             *)

\* extend_history: a line that repeats the one before it is skipped.
AddLine(history, appended, line) ==
  IF history \o appended # <<>> /\ Last(history \o appended) = line THEN appended
  ELSE Append(appended, line)

Appended(history, lines) ==
  LET upTo[i \in 0..Len(lines)] == IF i = 0 THEN <<>>
                                   ELSE AddLine(history, upTo[i - 1], lines[i])
  IN upTo[Len(lines)]

\* Mutant: the oldest lines are kept.
ExtendForever(t, lines) ==
  LET appended == Appended(t.history, lines)
  IN [t EXCEPT !.history = @ \o appended, !.told = @ \o appended]

ExtendHistory(t, lines) ==
  LET appended == Appended(t.history, lines)
  IN [t EXCEPT !.history = LastOf(@ \o appended, MAX_HISTORY_LINES), !.told = @ \o appended]

\* append_rows: a row that is wrapped leaves the line open.
JoinRow(joined, row) ==
  IF row.wrapped
  THEN [joined EXCEPT !.pending = @ \o row.text]
  ELSE [pending |-> <<>>, lines |-> Append(joined.lines, joined.pending \o row.text)]

Joined(pending, rows) ==
  LET upTo[i \in 0..Len(rows)] == IF i = 0 THEN [pending |-> pending, lines |-> <<>>]
                                  ELSE JoinRow(upTo[i - 1], rows[i])
  IN upTo[Len(rows)]

AppendRows(t, rows) ==
  LET joined == Joined(t.pending, rows)
  IN ExtendHistory([t EXCEPT !.pending = joined.pending], joined.lines)

Overlaps(previous, current) ==
  {k \in 0..Min({Len(previous), Len(current)}) :
     LastOf(previous, k) = SubSeq(current, 1, k)}

\* Mutant: the smallest overlap.
SmallestOverlap(previous, current) ==
  IF Overlaps(previous, current) = {0} THEN 0 ELSE Min(Overlaps(previous, current) \ {0})

\* The longest end of what was seen that what is seen begins with.
OverlapSuffixPrefix(previous, current) == Max(Overlaps(previous, current))

\* How far the rows of next from start on are those that were shift further down.
Matched(previous, next, start, shift) ==
  Max({m \in 0..(Len(previous) + 1 - start - shift) :
         \A i \in start..(start + m - 1) : previous[i + shift].text = next[i].text})

Contentful(rows) == {i \in DOMAIN rows : rows[i].text # <<>>}

Candidate(previous, next, start, shift) ==
  LET matched == Matched(previous, next, start, shift) IN
    [start |-> start, shift |-> shift, matched |-> matched,
     contentful |-> Cardinality(Contentful(SubSeq(next, start, start + matched - 1)))]

Better(c, d) ==
  \/ c.matched > d.matched
  \/ /\ c.matched = d.matched
     /\ \/ c.contentful > d.contentful
        \/ /\ c.contentful = d.contentful
           /\ c.start < d.start \/ (c.start = d.start /\ c.shift < d.shift)

Removed(rows, c) == SubSeq(rows, c.start, c.start + c.shift - 1)

AllCandidates(previous, next) ==
  {Candidate(previous, next, p[1], p[2]) :
     p \in {q \in (1..Len(previous)) \X (1..Len(previous)) : q[1] + q[2] <= Len(previous)}}

\* Mutant: one row that matches is enough.
LooseCandidates(previous, next) ==
  {c \in AllCandidates(previous, next) :
     c.matched >= 1 /\ c.contentful > 0 /\ Contentful(Removed(previous, c)) # {}}

Candidates(previous, next) ==
  {c \in AllCandidates(previous, next) :
     c.matched >= 2 /\ c.contentful > 0 /\ Contentful(Removed(previous, c)) # {}}

\* The rows that left the alternate screen, as far as the two pictures of it tell.
DetectScrolledRows(previous, next) ==
  LET found == Candidates(previous, next) IN
    IF found = {} THEN <<>>
    ELSE Removed(previous, CHOOSE c \in found : \A d \in found \ {c} : Better(c, d))

\* Leaving the alternate screen: its last picture, then a line that is still open.
Flush(t) ==
  LET shown == AppendRows([t EXCEPT !.prevAlt = NoScreen], t.prevAlt)
  IN IF shown.pending = <<>> THEN shown
     ELSE ExtendHistory([shown EXCEPT !.pending = <<>>], <<shown.pending>>)

ObserveAlternate(t, rows) ==
  LET removed == IF t.prevAlt = NoScreen THEN <<>> ELSE DetectScrolledRows(t.prevAlt, rows)
  IN [AppendRows(t, removed) EXCEPT !.prevAlt = rows]

ObserveScrollback(t, rows) ==
  LET overlap == OverlapSuffixPrefix(t.prevScrollback, rows)
  IN [AppendRows(t, SubSeq(rows, overlap + 1, Len(rows))) EXCEPT !.prevScrollback = rows]

\* observe_term.
Observed(t, wasAlternate, rows, altRows) ==
  LET asked == [t EXCEPT !.told = <<>>] IN
    IF altRows # NoScreen THEN ObserveAlternate(asked, altRows)
    ELSE ObserveScrollback(IF wasAlternate THEN Flush(asked) ELSE asked, rows)

\* sync_baseline.  The alternate screen has no rows above it.
SyncBaseline(t, rows, altRows) ==
  [t EXCEPT !.pending = <<>>, !.told = <<>>, !.prevAlt = altRows,
            !.prevScrollback = IF altRows = NoScreen THEN rows ELSE <<>>]

------------------------------------------------------------------------------
(* A piece of output, and what `macagent run` does with it.                 *)

Init ==
  /\ scrollback = <<>> /\ alt = NoScreen
  /\ tracker = [history |-> <<>>, pending |-> <<>>, told |-> <<>>,
                prevScrollback |-> <<>>, prevAlt |-> NoScreen]
  /\ copy = <<>> /\ since = <<>> /\ steps = 0
  /\ before = [history |-> <<>>, pending |-> <<>>, above |-> 0,
               broken |-> FALSE, resized |-> FALSE]

Costs(n) == steps + n <= MaxSteps /\ steps' = steps + n

Observes ==
  /\ tracker' = Observed(tracker, alt # NoScreen, scrollback', alt')
  /\ copy' = LastOf(copy \o tracker'.told, MAX_HISTORY_LINES)

\* From here on what scrolls out is counted anew.
BreaksAt(t, rows, out, resized) ==
  /\ before' = [history |-> t.history, pending |-> t.pending, above |-> Len(rows),
                broken |-> TRUE, resized |-> resized]
  /\ since' = out

Breaks == BreaksAt(tracker', scrollback', <<>>, before.resized)

LineEnds(rows) == {i \in DOMAIN rows : ~rows[i].wrapped}

ShortLines(rows) ==
  \A i \in 1..(Len(rows) + 1 - MaxLineRows) :
    LineEnds(rows) \intersect (i..(i + MaxLineRows - 1)) # {}

\* What the emulator keeps of the rows above the screen: the newest.
Keeps(rows) == scrollback' = LastOf(rows, SCROLLBACK) /\ ShortLines(rows)

\* Rows scroll out above the screen.
ScrollOut(out) ==
  /\ alt = NoScreen /\ out # <<>> /\ Costs(Len(out))
  /\ since' = since \o out
  /\ Keeps(scrollback \o out) /\ alt' = NoScreen
  /\ Observes /\ UNCHANGED before

\* The program clears the scrollback, and rows may scroll out after that.
Clear(out) ==
  /\ alt = NoScreen /\ Costs(1 + Len(out))
  /\ Keeps(out) /\ alt' = NoScreen
  /\ Observes
  /\ IF out = <<>> THEN UNCHANGED <<since, before>> ELSE Breaks

\* The program switches to the alternate screen and draws it.
EnterAlternate(rows) ==
  /\ alt = NoScreen /\ Costs(MaxScrolled + 2)
  /\ alt' = rows /\ UNCHANGED scrollback
  /\ Observes /\ Breaks

\* It draws one row of it anew.
Redraw(i, row) ==
  /\ alt # NoScreen /\ Costs(1)
  /\ alt' = [alt EXCEPT ![i] = row] /\ UNCHANGED scrollback
  /\ Observes /\ Breaks

ScrollRegion(rows, top, bottom, count, row) ==
  [i \in DOMAIN rows |->
     IF i \notin top..bottom THEN rows[i]
     ELSE IF i + count < bottom THEN rows[i + count]
     ELSE IF i + count = bottom THEN row ELSE BlankRow]

\* It writes the last row of a region that then scrolls by some rows.
Scroll(top, bottom, count, row) ==
  /\ alt # NoScreen /\ Costs(1)
  /\ alt' = ScrollRegion(alt, top, bottom, count, row) /\ UNCHANGED scrollback
  /\ Observes /\ Breaks

\* It returns to the normal screen, where more may be printed at once.  After a resize
\* of the alternate screen the tracker takes all rows above for new ones.
LeaveAlternate(out) ==
  /\ alt # NoScreen /\ Costs(Len(out))
  /\ alt' = NoScreen
  /\ Keeps(scrollback \o out)
  /\ Observes
  /\ IF before.resized THEN BreaksAt(tracker', scrollback', <<>>, FALSE)
     ELSE BreaksAt(Flush(tracker), scrollback, out, FALSE)

\* ParserState::resize: the emulator moves rows between the screen and what is above
\* it, and the tracker takes the result for what it saw.
Resize(kept, out) ==
  /\ Costs(1)
  /\ Keeps(SubSeq(scrollback, 1, kept) \o out)
  /\ UNCHANGED <<alt, copy>>
  /\ tracker' = SyncBaseline(tracker, scrollback', alt)
  /\ BreaksAt(tracker', scrollback', <<>>, before.resized \/ alt # NoScreen)

Next ==
  \/ \E out \in Pieces : ScrollOut(out) \/ Clear(out) \/ LeaveAlternate(out)
  \/ /\ alt = NoScreen /\ steps + MaxScrolled + 2 <= MaxSteps
     /\ \E rows \in [1..AltRows -> {row \in AnyRow : ~row.wrapped}] : EnterAlternate(rows)
  \/ /\ alt # NoScreen
     /\ \/ \E i \in 1..AltRows, row \in AnyRow : Redraw(i, row)
        \/ \E top, bottom \in 1..AltRows, count \in 1..2, row \in AnyRow :
             top + count <= bottom /\ Scroll(top, bottom, count, row)
  \/ \E kept \in {Len(scrollback), Len(scrollback) - 1} \intersect Nat, out \in BoundedSeq(Rows, 1) :
       Resize(kept, out)

Spec == Init /\ [][Next]_vars

------------------------------------------------------------------------------
(* Properties.                                                              *)

Lines == Seq(AltLetters)

\* Every variable has its type, and no bound is passed.
TypeOK ==
  /\ scrollback \in BoundedSeq(Rows, SCROLLBACK)
  /\ alt = NoScreen \/ alt \in [1..AltRows -> AnyRow]
  /\ tracker.history \in Seq(Lines) /\ Len(tracker.history) <= MAX_HISTORY_LINES
  /\ tracker.pending \in Lines /\ tracker.told \in Seq(Lines)
  /\ tracker.prevScrollback \in Seq(Rows) /\ tracker.prevAlt = alt
  /\ copy \in Seq(Lines) /\ Len(copy) <= MAX_HISTORY_LINES
  /\ since \in Seq(Rows) /\ steps \in 0..MaxSteps
  /\ before.history \in Seq(Lines) /\ before.pending \in Lines
  /\ before.above \in 0..SCROLLBACK /\ {before.broken, before.resized} \subseteq BOOLEAN

\* What the rows show of the line that the last of them belongs to.
LastLine(rows) ==
  LET upTo[i \in 0..Len(rows)] ==
        IF i = 0 THEN <<>>
        ELSE (IF i > 1 /\ rows[i - 1].wrapped THEN upTo[i - 1] ELSE <<>>) \o rows[i].text
  IN upTo[Len(rows)]

\* The lines that rows make up, one per row that ends a line.
LinesOf(rows) ==
  LET upTo[i \in 0..Len(rows)] ==
        IF i = 0 THEN <<>>
        ELSE IF rows[i].wrapped THEN upTo[i - 1]
        ELSE Append(upTo[i - 1], LastLine(SubSeq(rows, 1, i)))
  IN upTo[Len(rows)]

Squeezed(lines) ==
  LET upTo[i \in 0..Len(lines)] ==
        IF i = 0 THEN <<>>
        ELSE IF i > 1 /\ lines[i] = lines[i - 1] THEN upTo[i - 1]
        ELSE Append(upTo[i - 1], lines[i])
  IN upTo[Len(lines)]

\* What the history should be: the lines that scrolled out, each run of equal ones
\* once, the newest of them.
Expected ==
  LET open == [text |-> before.pending, wrapped |-> TRUE]
      lines == LinesOf(<<open>> \o since)
  IN LastOf(Squeezed(before.history \o lines), MAX_HISTORY_LINES)

\* The emulator dropped no row that was there at the break.
NothingDropped == before.above + Len(since) <= SCROLLBACK

\* The history is what scrolled out since the last resize or visit of the alternate
\* screen, and whoever is told the returned lines has the same.  Rows may repeat, so
\* that what was seen and what is seen overlap in several ways, and the emulator may
\* drop rows: before any break the rows it keeps make up for what the overlap hides, as
\* long as one piece of output scrolls out few of the rows that the emulator keeps.
\* Leaving the alternate screen adds its last picture and what scrolls out meanwhile,
\* and nothing that was there before, unless the alternate screen was resized.
HistoryIsTold ==
  /\ copy = tracker.history
  /\ NothingDropped \/ ~before.broken => tracker.history = Expected

Distinct(rows) == \A i, j \in DOMAIN rows : rows[i].text = rows[j].text => i = j

\* The history takes in these rows and nothing else.
Enters(rows) ==
  tracker' = [AppendRows([tracker EXCEPT !.told = <<>>], rows) EXCEPT !.prevAlt = alt']

\* While the rows of the alternate screen differ, the history takes in what a region
\* scrolls away, as long as two rows of it remain as they were, and nothing when a row is drawn.
AltScrollsEnter ==
  [][Distinct(alt) =>
       /\ \A top, bottom \in DOMAIN alt, count \in 1..2, row \in AnyRow :
            /\ top + count + 2 <= bottom
            /\ Contentful(SubSeq(alt, top, top + count - 1)) # {}
            /\ Scroll(top, bottom, count, row)
            => Enters(SubSeq(alt, top, top + count - 1))
       /\ \A i \in DOMAIN alt, row \in AnyRow : Redraw(i, row) => Enters(<<>>)]_vars

\* What the tracker makes of rows that scrolled out, when it misses some of them.
TakenIn(t, rows, missed, out) ==
  [AppendRows(t, SubSeq(out, missed + 1, Len(out))) EXCEPT !.prevScrollback = rows]

\* The tracker before it looks at the scrollback.
Asked == [tracker EXCEPT !.told = <<>>]
Base == IF alt # NoScreen THEN Flush(Asked) ELSE Asked

\* The rows it misses repeat those that were above them.
RepeatsMissed(out) ==
  \E missed \in 0..Len(out) :
    /\ missed <= Len(scrollback)
    /\ SubSeq(out, 1, missed) = LastOf(scrollback, missed)
    /\ tracker' = TakenIn(Base, scrollback', missed, out)

\* The longest overlap that overlap_suffix_prefix takes may be too long once the
\* emulator drops rows.  Still, of a piece of output that the emulator's rows can hold
\* the history misses at most some rows that repeat the ones right above them, and no
\* row enters twice.
OnlyRepeatsMissed ==
  [][\A out \in Pieces :
       /\ ScrollOut(out) \/ (LeaveAlternate(out) /\ ~before.resized)
       /\ Len(out) <= SCROLLBACK
       => RepeatsMissed(out)]_vars
=============================================================================
