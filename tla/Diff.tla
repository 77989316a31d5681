-------------------------------- MODULE Diff --------------------------------
(***************************************************************************)
(* print_diff (diff.c): the lines of the expected and the actual text of a *)
(* failed test are compared by their longest common subsequence, and all   *)
(* of them are printed: ' ' for common lines, '-' for lines that are only  *)
(* expected, '+' for lines that are only actual.                           *)
(*                                                                         *)
(* Lines are equal when the expected one matches the actual one as a       *)
(* pattern, which is no equivalence.  Every array is cut from the memory   *)
(* pool, where other things were allocated before.                         *)
(***************************************************************************)
EXTENDS Allocator, FiniteSets

CONSTANTS
  Chars, NL,        \* the characters, and the one that ends a line
  ExpectedTexts, ActualTexts,  \* the texts that are compared
  LinesMatch(_, _), \* pattern_match, of an expected and an actual line
  OtherSizes,       \* sizes of what is allocated before
  MaxOther          \* bound: how much is

ASSUME DiffAssumption ==
  /\ NL \in Chars
  /\ ExpectedTexts \cup ActualTexts \subseteq Seq(Chars)
  /\ OtherSizes \subseteq Nat /\ MaxOther \in Nat

VARIABLES
  pc,                  \* where print_diff is
  expected, actual,    \* the two texts
  expLines, actLines,  \* their lines
  table,               \* lcs_table, rows after one another
  i, j,                \* where the loops over the table are
  actions,             \* actions and indices, up to top
  printed              \* the lines that were printed

textVars == <<expected, actual>>
vars == <<poolVars, pc, textVars, expLines, actLines, table, i, j, actions, printed>>

LineSize == 16   \* sizeof(struct diff_line)
IntSize == 4     \* sizeof(unsigned int)

Init ==
  /\ PoolInit
  /\ pc = "before"
  /\ expected \in ExpectedTexts /\ actual \in ActualTexts
  /\ expLines = <<>> /\ actLines = <<>>
  /\ table = <<>> /\ i = 0 /\ j = 0
  /\ actions = <<>> /\ printed = <<>>

\* Whatever else the process allocates before.
AllocateOther ==
  /\ pc = "before" /\ Len(blocks) < MaxOther
  /\ \E size \in OtherSizes : Alloc(size)
  /\ UNCHANGED <<pc, textVars, expLines, actLines, table, i, j, actions, printed>>
-----------------------------------------------------------------------------
(* count_lines, split_lines                                                *)

Newlines(t) == {k \in 1..Len(t) : t[k] = NL}

CountNewlines(t) == Cardinality(Newlines(t))   \* mutant: the last line is not counted

CountLines(t) ==
  Cardinality(Newlines(t)) + IF t # <<>> /\ t[Len(t)] # NL THEN 1 ELSE 0

\* Where the k-th line ends: at the k-th newline, or at the end of the text.
LineEnd(t, k) ==
  IF k > Cardinality(Newlines(t)) THEN Len(t) + 1
  ELSE CHOOSE p \in Newlines(t) : Cardinality({q \in Newlines(t) : q <= p}) = k

LineStart(t, k) == IF k = 1 THEN 1 ELSE LineEnd(t, k - 1) + 1

SplitLines(t) ==
  [k \in 1..CountLines(t) |-> SubSeq(t, LineStart(t, k), LineEnd(t, k) - 1)]

\* A text without lines needs no array.
AllocLines(n) == IF n = 0 THEN UNCHANGED poolVars ELSE Alloc(n * LineSize)

SplitExpected ==
  /\ pc = "before"
  /\ expLines' = SplitLines(expected)
  /\ AllocLines(CountLines(expected))
  /\ pc' = "split actual"
  /\ UNCHANGED <<textVars, actLines, table, i, j, actions, printed>>

SplitActual ==
  /\ pc = "split actual"
  /\ actLines' = SplitLines(actual)
  /\ AllocLines(CountLines(actual))
  /\ pc' = "table"
  /\ UNCHANGED <<textVars, expLines, table, i, j, actions, printed>>
-----------------------------------------------------------------------------
(* The table of the lengths of the longest common subsequences.            *)

Rows == Len(expLines) + 1
Cols == Len(actLines) + 1

AllocTable ==
  /\ pc = "table"
  /\ Alloc(Rows * Cols * IntSize)
  /\ table' = [k \in 0..(Rows * Cols - 1) |-> 0]
  /\ i' = 1 /\ j' = 1
  /\ pc' = "fill"
  /\ UNCHANGED <<textVars, expLines, actLines, actions, printed>>

Cell(r, c) == r * Cols + c

Equal(r, c) == LinesMatch(expLines[r], actLines[c])

Larger(a, b) == IF a > b THEN a ELSE b

FilledFromAbove(r, c) ==   \* mutant: the cell to the left is forgotten
  IF Equal(r, c) THEN table[Cell(r - 1, c - 1)] + 1 ELSE table[Cell(r - 1, c)]

Filled(r, c) ==
  IF Equal(r, c) THEN table[Cell(r - 1, c - 1)] + 1
  ELSE Larger(table[Cell(r - 1, c)], table[Cell(r, c - 1)])

\* A table larger than a blob runs over the end of it; with luck nobody notices.
TableOverruns ==
  /\ pc = "table"
  /\ AlignUp(Rows * Cols * IntSize) > BlobSize
  /\ pc' = "crashed"
  /\ UNCHANGED <<poolVars, textVars, expLines, actLines, table, i, j, actions, printed>>

FillCell ==
  /\ pc = "fill" /\ i < Rows /\ j < Cols
  /\ table' = [table EXCEPT ![Cell(i, j)] = Filled(i, j)]
  /\ j' = j + 1
  /\ UNCHANGED <<poolVars, pc, textVars, expLines, actLines, i, actions, printed>>

NextRow ==
  /\ pc = "fill" /\ i < Rows /\ j = Cols
  /\ i' = i + 1 /\ j' = 1
  /\ UNCHANGED <<poolVars, pc, textVars, expLines, actLines, table, actions, printed>>

StackOfLonger == Larger(Len(expLines), Len(actLines))   \* mutant

StackSize == Len(expLines) + Len(actLines)

\* The table is complete.
AllocActions ==
  /\ pc = "fill" /\ i = Rows
  /\ Alloc(StackSize)
  /\ pc' = "indices"
  /\ UNCHANGED <<textVars, expLines, actLines, table, i, j, actions, printed>>

AllocIndices ==
  /\ pc = "indices"
  /\ Alloc(StackSize * IntSize)
  /\ i' = Len(expLines) /\ j' = Len(actLines)
  /\ pc' = "walk"
  /\ UNCHANGED <<textVars, expLines, actLines, table, actions, printed>>
-----------------------------------------------------------------------------
(* The walk back through the table, and the lines in their order.          *)

Push(action, index) == actions' = Append(actions, [action |-> action, index |-> index])

IsCommon == i > 0 /\ j > 0 /\ Equal(i, j)

LeftIfLess == table[Cell(i, j - 1)] < table[Cell(i - 1, j)]   \* mutant: the smaller one

LeftIfNotLess == table[Cell(i, j - 1)] >= table[Cell(i - 1, j)]

GoLeft == j > 0 /\ (i > 0 => LeftIfNotLess)

Walk ==
  /\ pc = "walk" /\ i + j > 0
  /\ \/ IsCommon /\ Push(" ", i) /\ i' = i - 1 /\ j' = j - 1
     \/ ~IsCommon /\ GoLeft /\ Push("+", j) /\ j' = j - 1 /\ i' = i
     \/ ~IsCommon /\ ~GoLeft /\ Push("-", i) /\ i' = i - 1 /\ j' = j
  /\ UNCHANGED <<poolVars, pc, textVars, expLines, actLines, table, printed>>

EndWalk ==
  /\ pc = "walk" /\ i = 0 /\ j = 0
  /\ pc' = "print"
  /\ i' = Len(actions)
  /\ UNCHANGED <<poolVars, textVars, expLines, actLines, table, j, actions, printed>>

Line(a) == IF a.action = "+" THEN actLines[a.index] ELSE expLines[a.index]

PrintLine ==
  /\ pc = "print" /\ i > 0
  /\ printed' = Append(printed, [prefix |-> actions[i].action, line |-> Line(actions[i])])
  /\ i' = i - 1
  /\ UNCHANGED <<poolVars, pc, textVars, expLines, actLines, table, j, actions>>

\* The diff is over; cleanup frees the pool when the process exits.
Exit ==
  /\ pc = "print" /\ i = 0
  /\ Destroy
  /\ pc' = "exited"
  /\ UNCHANGED <<textVars, expLines, actLines, table, i, j, actions, printed>>

Next ==
  \/ AllocateOther \/ SplitExpected \/ SplitActual
  \/ AllocTable \/ TableOverruns \/ FillCell \/ NextRow \/ AllocActions \/ AllocIndices
  \/ Walk \/ EndWalk \/ PrintLine \/ Exit

Spec == Init /\ [][Next]_vars
-----------------------------------------------------------------------------
Points == {"before", "split actual", "table", "fill", "indices", "walk", "print",
           "exited", "crashed"}
Lines == Seq(Seq(Chars \ {NL}))

\* Every variable keeps its type.  The arrays of the walk are never too short,
\* and its counters never leave the table.
TypeOK ==
  /\ PoolTypeOK
  /\ pc \in Points
  /\ expected \in Seq(Chars) /\ actual \in Seq(Chars)
  /\ expLines \in Lines /\ actLines \in Lines
  /\ pc \notin {"before", "split actual", "table", "crashed"} =>
       table \in [0..(Rows * Cols - 1) -> Nat]
  /\ i \in Nat /\ j \in Nat
  /\ pc = "walk" => i < Rows /\ j < Cols
  /\ Len(actions) <= StackSize
  /\ \A k \in DOMAIN actions :
       /\ actions[k].action \in {" ", "+", "-"}
       /\ actions[k].index \in 1..Len(IF actions[k].action = "+" THEN actLines ELSE expLines)

CommonLines(s) == Cardinality({k \in DOMAIN s : s[k].action = " "})

\* The walk finds as many common lines as the table promises: what it has found
\* and what the table has for the rest are always the entry for the whole.
WalkAgreesWithTable ==
  pc = "walk" =>
    CommonLines(actions) + table[Cell(i, j)] = table[Cell(Len(expLines), Len(actLines))]

\* The lines of the diff that begin with one of these.
Marked(prefixes) == {k \in DOMAIN printed : printed[k].prefix \in prefixes}

\* The lines of t, ended by newlines, are t, up to a last newline.
Joined(s) ==
  LET n[k \in 0..Len(s)] == IF k = 0 THEN <<>> ELSE n[k - 1] \o s[k] \o <<NL>> IN n[Len(s)]

Restores(s, t) == Joined(s) \in {t, Append(t, NL)}

Rank(S, x) == Cardinality({y \in S : y <= x})

\* The diff can be read back: its ' ' and '-' lines are the expected text, and
\* its ' ' and '+' lines are the actual text, line by line, a ' ' line standing
\* for one that matches it.
DiffIsWhole ==
  pc = "exited" =>
    LET old == Marked({" ", "-"})
        new == Marked({" ", "+"})
    IN /\ Restores(expLines, expected) /\ Restores(actLines, actual)
       /\ Cardinality(old) = Len(expLines) /\ Cardinality(new) = Len(actLines)
       /\ \A k \in old : printed[k].line = expLines[Rank(old, k)]
       /\ \A k \in new :
            LET line == actLines[Rank(new, k)]
            IN IF printed[k].prefix = "+" THEN printed[k].line = line
               ELSE LinesMatch(printed[k].line, line)

\* The reference: lines R of the expected and C of the actual text that are
\* common, in order.
CommonSubsequence(R, C) ==
  /\ Cardinality(R) = Cardinality(C)
  /\ \A r \in R, c \in C : Rank(R, r) = Rank(C, c) => Equal(r, c)

\* No diff of the two texts has more common lines, though the walk takes every
\* match it meets and matching is no equivalence.
DiffIsShortest ==
  pc = "print" /\ i = 0 =>
    \A R \in SUBSET DOMAIN expLines, C \in SUBSET DOMAIN actLines :
      CommonSubsequence(R, C) => Cardinality(R) <= CommonLines(actions)
=============================================================================
