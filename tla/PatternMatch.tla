---------------------------- MODULE PatternMatch ----------------------------
(***************************************************************************)
(* pattern_match (match.c): decides whether the output of a program is the *)
(* expected one, where the expected text may hold {{any}} placeholders.    *)
(*                                                                         *)
(* Each placeholder is one element of the pattern: {{any}} cannot overlap  *)
(* itself, so cutting the text into placeholders and characters is exact.  *)
(* The loops of the code are steps; pp and ap are its pattern_pos and      *)
(* actual_pos, the numbers of elements consumed so far.                    *)
(***************************************************************************)
EXTENDS Integers, Sequences

CONSTANTS
  Chars,       \* the characters
  Any,         \* the placeholder {{any}}
  MaxPattern,  \* longest expected text
  MaxActual    \* longest program output

ASSUME InputAssumption ==
  /\ Any \notin Chars
  /\ MaxPattern \in Nat
  /\ MaxActual \in Nat

VARIABLES
  pattern, actual,  \* the arguments
  pp, ap,           \* pattern_pos, actual_pos
  segEnd,           \* where the literal segment being looked for ends
  pc,               \* "match", "skip" (in skip_to_segment) or "done"
  result            \* what pattern_match returned

vars == <<pattern, actual, pp, ap, segEnd, pc, result>>

Upto(n, S) == UNION {[1..k -> S] : k \in 0..n}

Init ==
  /\ pattern \in Upto(MaxPattern, Chars \cup {Any})
  /\ actual \in Upto(MaxActual, Chars)
  /\ pp = 0 /\ ap = 0 /\ segEnd = 0
  /\ pc = "match"
  /\ result = FALSE

Fail ==
  /\ pc' = "done"
  /\ UNCHANGED <<pattern, actual, pp, ap, segEnd, result>>
-----------------------------------------------------------------------------
AtLiteral == pc = "match" /\ pp < Len(pattern) /\ pattern[pp + 1] # Any

SameChar == ap < Len(actual) /\ pattern[pp + 1] = actual[ap + 1]

Literal ==
  /\ AtLiteral
  /\ SameChar
  /\ pp' = pp + 1
  /\ ap' = ap + 1
  /\ UNCHANGED <<pattern, actual, segEnd, pc, result>>

LiteralDiffers ==
  /\ AtLiteral
  /\ ~SameChar
  /\ Fail

\* literal_segment_len: the segment from start on ends before position e + 1.
EndsSegment(start, e) ==
  /\ e < Len(pattern) => pattern[e + 1] = Any
  /\ \A k \in start..(e - 1) : pattern[k + 1] # Any

\* A placeholder is followed by a segment to look for, by another placeholder
\* (it then stands for nothing), or by the end (it then stands for the rest).
PastTheEnd(start) ==        \* mutant: off by one
  IF start = Len(pattern) THEN Len(actual) + 1 ELSE ap

PlaceholderAlone(start) == IF start = Len(pattern) THEN Len(actual) ELSE ap

Placeholder ==
  /\ pc = "match" /\ pp < Len(pattern) /\ pattern[pp + 1] = Any
  /\ pp' = pp + 1
  /\ \E e \in (pp + 1)..Len(pattern) :
       /\ EndsSegment(pp + 1, e)
       /\ segEnd' = e
       /\ IF e = pp + 1
          THEN pc' = "match" /\ ap' = PlaceholderAlone(pp + 1)
          ELSE pc' = "skip" /\ ap' = ap
  /\ UNCHANGED <<pattern, actual, result>>
-----------------------------------------------------------------------------
(* skip_to_segment: one step per iteration.                                *)

SegLen == segEnd - pp

\* memchr finds the first character of the segment i characters in.
Found(i) ==
  /\ i \in ap..(Len(actual) - 1)
  /\ actual[i + 1] = pattern[pp + 1]
  /\ \A k \in ap..(i - 1) : actual[k + 1] # pattern[pp + 1]

FirstCharOnly(i) == i + SegLen <= Len(actual)   \* mutant: memcmp is dropped

SegmentAt(i) ==
  /\ i + SegLen <= Len(actual)
  /\ \A k \in 1..SegLen : actual[i + k] = pattern[pp + k]

StayPut(i) == i   \* mutant: no progress after a partial match
SkipTwo(i) == i + 2   \* mutant: a position is passed over

NextStart(i) == i + 1

SegmentFound ==
  /\ pc = "skip"
  /\ \E i \in 0..Len(actual) :
       /\ Found(i) /\ SegmentAt(i)
       /\ ap' = i + SegLen
  /\ pp' = segEnd
  /\ pc' = "match"
  /\ UNCHANGED <<pattern, actual, segEnd, result>>

SegmentElsewhere ==
  /\ pc = "skip"
  /\ \E i \in 0..Len(actual) :
       /\ Found(i) /\ i + SegLen <= Len(actual) /\ ~SegmentAt(i)
       /\ ap' = NextStart(i)
  /\ UNCHANGED <<pattern, actual, pp, segEnd, pc, result>>

SegmentMissing ==
  /\ pc = "skip"
  /\ \A i \in 0..Len(actual) : Found(i) => i + SegLen > Len(actual)
  /\ Fail
-----------------------------------------------------------------------------
AllConsumed == ap = Len(actual)

Finish ==
  /\ pc = "match" /\ pp = Len(pattern)
  /\ pc' = "done"
  /\ result' = AllConsumed
  /\ UNCHANGED <<pattern, actual, pp, ap, segEnd>>

Next ==
  \/ Literal \/ LiteralDiffers \/ Placeholder
  \/ SegmentFound \/ SegmentElsewhere \/ SegmentMissing
  \/ Finish

Spec == Init /\ [][Next]_vars

\* A loop of a running program goes on.
FairSpec == Spec /\ WF_vars(Next)
-----------------------------------------------------------------------------
\* The reference: text p matches text a when a can be cut into one piece per
\* element of p, any piece for a placeholder and the very character otherwise.
\* cut[i] is where the piece of the i-th element ends.
CutFits(p, a, cut) ==
  \A i \in 1..Len(p) :
    IF p[i] = Any THEN cut[i - 1] <= cut[i]
    ELSE cut[i] = cut[i - 1] + 1 /\ a[cut[i]] = p[i]

Matches(p, a) ==
  \E cut \in [0..Len(p) -> 0..Len(a)] :
    cut[0] = 0 /\ cut[Len(p)] = Len(a) /\ CutFits(p, a, cut)

TypeOK ==
  /\ pattern \in Seq(Chars \cup {Any}) /\ actual \in Seq(Chars)
  /\ pp \in 0..Len(pattern) /\ ap \in 0..Len(actual)
  /\ segEnd \in 0..Len(pattern)
  /\ pc \in {"match", "skip", "done"}
  /\ result \in BOOLEAN

\* An output that is accepted does match the expected text: no test passes on
\* output its author did not describe.
MatchIsSound == pc = "done" /\ result => Matches(pattern, actual)

\* match.h: {{any}} matches zero or more characters, and the function returns
\* 1 if the pattern matches, whatever the pattern.
MatchIsComplete == pc = "done" /\ Matches(pattern, actual) => result

\* The search is leftmost and never backtracks, so an output that matches may
\* be refused; but not when the expected text has no placeholder, or ends with
\* one: there the leftmost place for each segment is as good as any.
OpenEnded ==
  \/ \A i \in 1..Len(pattern) : pattern[i] # Any
  \/ pattern[Len(pattern)] = Any

OpenEndedIsComplete ==
  pc = "done" /\ OpenEnded /\ Matches(pattern, actual) => result

\* The nested loops always end.
Terminates == <>(pc = "done")
=============================================================================
