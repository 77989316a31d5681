------------------------- MODULE PatternMatchProofs -------------------------
(***************************************************************************)
(* Proofs about PatternMatch.tla, for every alphabet and texts of every    *)
(* length.  The invariant behind soundness is that what has been consumed  *)
(* of the pattern matches what has been consumed of the output.            *)
(***************************************************************************)
EXTENDS PatternMatch, SequenceTheorems, FiniteSetTheorems, TLAPS

\* The first n elements of p match the first m characters of a.
PrefixMatches(p, a, n, m) ==
  \E cut \in [0..n -> 0..m] :
    /\ cut[0] = 0 /\ cut[n] = m
    /\ \A i \in 1..n :
         IF p[i] = Any THEN cut[i - 1] <= cut[i]
         ELSE cut[i] = cut[i - 1] + 1 /\ a[cut[i]] = p[i]

MatchInv ==
  /\ pc # "done" => PrefixMatches(pattern, actual, pp, ap) /\ result = FALSE
  /\ pc = "skip" => pp > 0 /\ pattern[pp] = Any /\ segEnd > pp
  /\ pc = "done" /\ result => Matches(pattern, actual)

Inv == TypeOK /\ MatchInv
-----------------------------------------------------------------------------
\* Nothing matches nothing.
LEMMA EmptyMatches == ASSUME NEW p, NEW a PROVE PrefixMatches(p, a, 0, 0)
<1> DEFINE cut == [i \in 0..0 |-> 0]
<1>1. cut \in [0..0 -> 0..0] /\ cut[0] = 0
  OBVIOUS
<1>2. 1..0 = {}
  OBVIOUS
<1> QED  BY <1>1, <1>2 DEF PrefixMatches

\* L characters equal to the next L elements of the pattern extend a match.
LEMMA SegmentExtends ==
  ASSUME NEW p, NEW a, NEW n \in Nat, NEW m \in Nat, NEW L \in Nat,
         PrefixMatches(p, a, n, m),
         \A k \in 1..L : a[m + k] = p[n + k] /\ p[n + k] # Any
  PROVE  PrefixMatches(p, a, n + L, m + L)
<1>1. PICK cut \in [0..n -> 0..m] :
        /\ cut[0] = 0 /\ cut[n] = m
        /\ \A i \in 1..n :
             IF p[i] = Any THEN cut[i - 1] <= cut[i]
             ELSE cut[i] = cut[i - 1] + 1 /\ a[cut[i]] = p[i]
  BY DEF PrefixMatches
<1> DEFINE new == [i \in 0..(n + L) |-> IF i <= n THEN cut[i] ELSE m + (i - n)]
<1>2. new \in [0..(n + L) -> 0..(m + L)]
  BY <1>1
<1>3. new[0] = 0 /\ new[n + L] = m + L
  BY <1>1
<1>4. ASSUME NEW i \in 1..(n + L)
      PROVE  IF p[i] = Any THEN new[i - 1] <= new[i]
             ELSE new[i] = new[i - 1] + 1 /\ a[new[i]] = p[i]
  <2>1. CASE i <= n
    <3>1. new[i] = cut[i] /\ new[i - 1] = cut[i - 1] /\ i \in 1..n
      BY <2>1
    <3> QED  BY <1>1, <3>1
  <2>2. CASE i > n
    <3>1. i - n \in 1..L /\ i = n + (i - n)
      BY <2>2
    <3>2. new[i] = m + (i - n) /\ new[i - 1] = m + (i - n) - 1
      BY <1>1, <2>2
    <3>3. a[m + (i - n)] = p[i] /\ p[i] # Any
      BY <3>1
    <3> QED  BY <3>2, <3>3
  <2> QED  BY <2>1, <2>2
<1> HIDE DEF new
<1> QED  BY <1>2, <1>3, <1>4 DEF PrefixMatches

\* A placeholder that is consumed last may always take more characters.
LEMMA PlaceholderExtends ==
  ASSUME NEW p, NEW a, NEW n \in Nat, NEW m \in Nat, NEW t \in Nat,
         PrefixMatches(p, a, n, m), n > 0, p[n] = Any, m <= t
  PROVE  PrefixMatches(p, a, n, t)
<1>1. PICK cut \in [0..n -> 0..m] :
        /\ cut[0] = 0 /\ cut[n] = m
        /\ \A i \in 1..n :
             IF p[i] = Any THEN cut[i - 1] <= cut[i]
             ELSE cut[i] = cut[i - 1] + 1 /\ a[cut[i]] = p[i]
  BY DEF PrefixMatches
<1> DEFINE new == [i \in 0..n |-> IF i < n THEN cut[i] ELSE t]
<1>2. new \in [0..n -> 0..t]
  BY <1>1
<1>3. new[0] = 0 /\ new[n] = t
  BY <1>1
<1>4. ASSUME NEW i \in 1..n
      PROVE  IF p[i] = Any THEN new[i - 1] <= new[i]
             ELSE new[i] = new[i - 1] + 1 /\ a[new[i]] = p[i]
  BY <1>1
<1> HIDE DEF new
<1> QED  BY <1>2, <1>3, <1>4 DEF PrefixMatches

\* A placeholder can be consumed without taking any character.
LEMMA PlaceholderTakesNone ==
  ASSUME NEW p, NEW a, NEW n \in Nat, NEW m \in Nat,
         PrefixMatches(p, a, n, m), p[n + 1] = Any
  PROVE  PrefixMatches(p, a, n + 1, m)
<1>1. PICK cut \in [0..n -> 0..m] :
        /\ cut[0] = 0 /\ cut[n] = m
        /\ \A i \in 1..n :
             IF p[i] = Any THEN cut[i - 1] <= cut[i]
             ELSE cut[i] = cut[i - 1] + 1 /\ a[cut[i]] = p[i]
  BY DEF PrefixMatches
<1> DEFINE new == [i \in 0..(n + 1) |-> IF i <= n THEN cut[i] ELSE m]
<1>2. new \in [0..(n + 1) -> 0..m]
  BY <1>1
<1>3. new[0] = 0 /\ new[n + 1] = m
  BY <1>1
<1>4. ASSUME NEW i \in 1..(n + 1)
      PROVE  IF p[i] = Any THEN new[i - 1] <= new[i]
             ELSE new[i] = new[i - 1] + 1 /\ a[new[i]] = p[i]
  BY <1>1
<1> HIDE DEF new
<1> QED  BY <1>2, <1>3, <1>4 DEF PrefixMatches
-----------------------------------------------------------------------------
LEMMA InitInv == Init => Inv
<1> SUFFICES ASSUME Init PROVE Inv
  OBVIOUS
<1>1. TypeOK
  <2>1. \A S : \A n \in Nat : Upto(n, S) \subseteq Seq(S)
    BY DEF Upto
  <2>2. pattern \in Seq(Chars \cup {Any}) /\ actual \in Seq(Chars)
    BY <2>1, InputAssumption DEF Init
  <2>3. 0 \in 0..Len(pattern) /\ 0 \in 0..Len(actual)
    BY <2>2, LenProperties
  <2>4. pp = 0 /\ ap = 0 /\ segEnd = 0 /\ pc = "match" /\ result = FALSE
    BY DEF Init
  <2> QED  BY <2>2, <2>3, <2>4 DEF TypeOK
<1>2. MatchInv
  BY EmptyMatches DEF Init, MatchInv
<1> QED  BY <1>1, <1>2 DEF Inv

LEMMA NextInv == Inv /\ [Next]_vars => Inv'
<1> SUFFICES ASSUME Inv, [Next]_vars PROVE Inv'
  OBVIOUS
<1> USE InputAssumption DEF Inv, TypeOK
<1>1. CASE Literal
  <2>1. TypeOK'
    BY <1>1 DEF Literal, AtLiteral, SameChar
  <2>2. PrefixMatches(pattern, actual, pp + 1, ap + 1)
    <3>1. PrefixMatches(pattern, actual, pp, ap)
      BY <1>1 DEF Literal, AtLiteral, MatchInv
    <3>2. \A k \in 1..1 : actual[ap + k] = pattern[pp + k] /\ pattern[pp + k] # Any
      BY <1>1 DEF Literal, AtLiteral, SameChar
    <3>3. pp \in Nat /\ ap \in Nat /\ 1 \in Nat
      OBVIOUS
    <3> HIDE DEF Inv, TypeOK
    <3> QED  BY <3>1, <3>2, <3>3, SegmentExtends
  <2> QED  BY <1>1, <2>1, <2>2 DEF Literal, AtLiteral, MatchInv
<1>2. CASE LiteralDiffers
  BY <1>2 DEF LiteralDiffers, AtLiteral, Fail, MatchInv
<1>3. CASE Placeholder
  <2>1. PrefixMatches(pattern, actual, pp + 1, ap)
    BY <1>3, PlaceholderTakesNone DEF Placeholder, MatchInv
  <2>2. PrefixMatches(pattern, actual, pp + 1, Len(actual))
    BY <1>3, <2>1, PlaceholderExtends DEF Placeholder
  <2>3. TypeOK'
    BY <1>3 DEF Placeholder, PlaceholderAlone
  <2> QED  BY <1>3, <2>1, <2>2, <2>3 DEF Placeholder, PlaceholderAlone, MatchInv
<1>4. CASE SegmentFound
  <2>1. PICK i \in 0..Len(actual) : Found(i) /\ SegmentAt(i) /\ ap' = i + SegLen
    BY <1>4 DEF SegmentFound
  <2>2. SegLen \in Nat /\ pp + SegLen = segEnd
    BY <1>4 DEF SegmentFound, SegLen, MatchInv
  <2>3. ap <= i
    BY <2>1 DEF Found
  <2>4. PrefixMatches(pattern, actual, pp, i)
    BY <1>4, <2>3, PlaceholderExtends DEF SegmentFound, MatchInv
  <2>5. \A k \in 1..SegLen : actual[i + k] = pattern[pp + k] /\ pattern[pp + k] # Any
    <3>1. \A k \in 1..SegLen : i + k \in 1..Len(actual)
      BY <2>1, <2>2 DEF SegmentAt
    <3>2. \A k \in 1..SegLen : actual[i + k] \in Chars
      BY <3>1
    <3> QED  BY <2>1, <3>2 DEF SegmentAt
  <2>6. PrefixMatches(pattern, actual, pp + SegLen, i + SegLen)
    <3>1. pp \in Nat /\ i \in Nat
      BY <2>1
    <3> HIDE DEF Inv, TypeOK
    <3> QED  BY <2>2, <2>4, <2>5, <3>1, SegmentExtends
  <2>7. TypeOK'
    BY <1>4, <2>1, <2>2 DEF SegmentFound, SegmentAt
  <2> QED  BY <1>4, <2>1, <2>2, <2>6, <2>7 DEF SegmentFound, MatchInv
<1>5. CASE SegmentElsewhere
  <2>1. PICK i \in 0..Len(actual) : Found(i) /\ ap' = i + 1 /\ i + SegLen <= Len(actual)
    BY <1>5 DEF SegmentElsewhere, NextStart
  <2>2. ap <= ap' /\ ap' \in 0..Len(actual)
    BY <2>1, <1>5 DEF SegmentElsewhere, SegLen, MatchInv, Found
  <2>3. PrefixMatches(pattern, actual, pp, ap')
    BY <1>5, <2>2, PlaceholderExtends DEF SegmentElsewhere, MatchInv
  <2> QED  BY <1>5, <2>2, <2>3 DEF SegmentElsewhere, MatchInv
<1>6. CASE SegmentMissing
  BY <1>6 DEF SegmentMissing, Fail, MatchInv
<1>7. CASE Finish
  <2>1. result' => Matches(pattern, actual)
    BY <1>7 DEF Finish, AllConsumed, MatchInv, PrefixMatches, Matches, CutFits
  <2> QED  BY <1>7, <2>1 DEF Finish, AllConsumed, MatchInv
<1>8. CASE UNCHANGED vars
  BY <1>8 DEF vars, MatchInv
<1> QED
  BY <1>1, <1>2, <1>3, <1>4, <1>5, <1>6, <1>7, <1>8 DEF Next

\* The positions stay inside the two texts, of whatever length: the matcher
\* reads no character outside of them.
THEOREM TypeCorrect == Spec => []TypeOK
<1>1. Inv => TypeOK
  BY DEF Inv
<1> QED  BY <1>1, InitInv, NextInv, PTL DEF Spec

\* pattern_match accepts only outputs that match.
THEOREM Soundness == Spec => []MatchIsSound
<1>1. Inv => MatchIsSound
  BY DEF Inv, MatchInv, MatchIsSound
<1> QED  BY <1>1, InitInv, NextInv, PTL DEF Spec
-----------------------------------------------------------------------------
\* Every way to cut the output a into one piece per element of p.
Cuts(p, a) ==
  {cut \in [0..Len(p) -> 0..Len(a)] :
     cut[0] = 0 /\ cut[Len(p)] = Len(a) /\ CutFits(p, a, cut)}

LiteralUpto(n) == \A k \in 1..n : pattern[k] # Any

\* The search is never ahead of any way to cut the output.
NeverAhead == pc # "done" => \A cut \in Cuts(pattern, actual) : ap <= cut[pp]

\* A character is compared without a search only before the first placeholder.
SearchedOnlyAfterAny ==
  pc = "match" /\ pp < Len(pattern) /\ pattern[pp + 1] # Any => LiteralUpto(pp)

InStep == pc # "done" /\ LiteralUpto(pp) => ap = pp

TakesTheRest ==
  pc = "match" /\ pp = Len(pattern) /\ pp > 0 /\ pattern[pp] = Any => ap = Len(actual)

CompleteInv ==
  /\ NeverAhead /\ SearchedOnlyAfterAny /\ InStep /\ TakesTheRest
  /\ pc = "skip" => EndsSegment(pp, segEnd)
  /\ OpenEndedIsComplete

CompleteTypeInv == Inv /\ CompleteInv
-----------------------------------------------------------------------------
\* A nonempty set of naturals upto n has a first element.
LEMMA FirstExists ==
  ASSUME NEW n \in Nat, NEW S \in SUBSET (0..n), S # {}
  PROVE  \E i \in S : \A k \in S : i <= k
<1> DEFINE Below(i) == {k \in S : k < i}
           T == {Below(i) : i \in S}
<1>1. IsFiniteSet(S)
  <2>1. IsFiniteSet(0..n)
    BY FS_Interval
  <2> QED
    BY <2>1, FS_Subset
<1>2. T \subseteq FiniteSubsetsOf(S) /\ T # {}
  <2>1. \A i \in S : Below(i) \in SUBSET S /\ IsFiniteSet(Below(i))
    BY <1>1, FS_Subset
  <2> QED
    BY <2>1 DEF FiniteSubsetsOf
<1>3. IsWellFoundedOn(StrictSubsetOrdering(S), FiniteSubsetsOf(S))
  BY FS_StrictSubsetOrderingWellFounded
<1>4. PICK t \in T : \A u \in T : <<u, t>> \notin StrictSubsetOrdering(S)
  <2> HIDE DEF T
  <2> QED
    BY <1>2, <1>3, WFMin, Zenon
<1>5. PICK i \in S : t = Below(i)
  BY <1>4
<1>6. \A k \in S : i <= k
  <2> SUFFICES ASSUME NEW k \in S, k < i PROVE FALSE
    OBVIOUS
  <2>0. \A j \in S : j \in Int
    OBVIOUS
  <2>1. k \in Below(i) /\ k \notin Below(k)
    BY <2>0
  <2>2. Below(k) \subseteq Below(i)
    <3>1. \A x \in S : x < k => x < i
      BY <2>0
    <3> QED
      BY <3>1
  <2>3. <<Below(k), t>> \in StrictSubsetOrdering(S)
    BY <1>5, <2>1, <2>2 DEF StrictSubsetOrdering
  <2> QED
    BY <2>3, <1>4
<1> QED
  BY <1>6

\* Literal elements of the pattern stand for one character each, so a cut goes
\* through them in step.
LEMMA CutInStep ==
  ASSUME NEW p, NEW a, Len(p) \in Nat, Len(a) \in Nat, NEW cut \in Cuts(p, a),
         NEW b \in 0..Len(p), NEW e \in 0..Len(p), \A k \in (b + 1)..e : p[k] # Any
  PROVE  \A k \in b..e : cut[k] = cut[b] + (k - b)
<1> DEFINE S == {k \in b..e : cut[k] # cut[b] + (k - b)}
<1>1. cut \in [0..Len(p) -> 0..Len(a)]
  BY DEF Cuts
<1>2. \A k \in (b + 1)..e : cut[k] = cut[k - 1] + 1
  <2>1. \A k \in (b + 1)..e : k \in 1..Len(p)
    OBVIOUS
  <2> QED
    BY <2>1 DEF Cuts, CutFits
<1> SUFFICES S = {}
  OBVIOUS
<1> SUFFICES ASSUME S # {} PROVE FALSE
  OBVIOUS
<1>3. PICK f \in S : \A k \in S : f <= k
  <2>1. S \in SUBSET (0..Len(p))
    OBVIOUS
  <2> HIDE DEF S
  <2> QED
    BY <2>1, FirstExists
<1>4. f \in b..e /\ f # b /\ cut[f] # cut[b] + (f - b)
  BY <1>1, <1>3
<1>5. f - 1 \in b..e /\ f - 1 \notin S
  BY <1>3, <1>4
<1>6. cut[f - 1] = cut[b] + ((f - 1) - b)
  BY <1>5
<1>7. cut[f] = cut[f - 1] + 1
  BY <1>2, <1>4
<1>8. cut[b] \in Nat /\ f \in Int /\ b \in Int
  BY <1>1, <1>4
<1> QED
  BY <1>4, <1>6, <1>7, <1>8

\* In particular, where a cut places a segment, the output holds it.
LEMMA CutHoldsSegment ==
  ASSUME NEW p, NEW a, Len(p) \in Nat, Len(a) \in Nat, NEW cut \in Cuts(p, a),
         NEW b \in 0..Len(p), NEW e \in b..Len(p), \A k \in (b + 1)..e : p[k] # Any
  PROVE  /\ cut[e] = cut[b] + (e - b)
         /\ \A k \in 1..(e - b) : a[cut[b] + k] = p[b + k]
<1>1. e \in 0..Len(p)
  OBVIOUS
<1>2. \A k \in b..e : cut[k] = cut[b] + (k - b)
  BY <1>1, CutInStep
<1>3. cut[e] = cut[b] + (e - b)
  BY <1>2
<1>4. ASSUME NEW k \in 1..(e - b) PROVE a[cut[b] + k] = p[b + k]
  <2>1. b + k \in b..e /\ b + k \in 1..Len(p) /\ b + k \in (b + 1)..e
    OBVIOUS
  <2>2. a[cut[b + k]] = p[b + k]
    BY <2>1 DEF Cuts, CutFits
  <2>3. cut[b + k] = cut[b] + k
    <3>1. cut[b + k] = cut[b] + ((b + k) - b)
      BY <1>2, <2>1
    <3> QED
      BY <3>1
  <2> QED
    BY <2>2, <2>3
<1> QED
  BY <1>3, <1>4
-----------------------------------------------------------------------------
\* While a segment is looked for, every cut places it where it really is, and
\* no earlier than the search has come.
LEMMA CutIsCandidate ==
  ASSUME CompleteTypeInv, pc = "skip", NEW cut \in Cuts(pattern, actual)
  PROVE  /\ cut[pp] \in ap..(Len(actual) - 1)
         /\ SegmentAt(cut[pp])
         /\ actual[cut[pp] + 1] = pattern[pp + 1]
         /\ cut[segEnd] = cut[pp] + SegLen
<1>1. /\ Len(pattern) \in Nat /\ Len(actual) \in Nat
      /\ pp \in 0..Len(pattern) /\ segEnd \in pp..Len(pattern) /\ pp < segEnd
      /\ ap \in Nat
  BY LenProperties DEF CompleteTypeInv, Inv, TypeOK, MatchInv
<1>2. \A k \in (pp + 1)..segEnd : pattern[k] # Any
  <2>1. \A k \in pp..(segEnd - 1) : pattern[k + 1] # Any
    BY DEF CompleteTypeInv, CompleteInv, EndsSegment
  <2>2. ASSUME NEW k \in (pp + 1)..segEnd PROVE pattern[k] # Any
    <3>1. k - 1 \in pp..(segEnd - 1) /\ (k - 1) + 1 = k
      BY <1>1
    <3> QED
      BY <2>1, <3>1
  <2> QED
    BY <2>2
<1>3. /\ cut[segEnd] = cut[pp] + (segEnd - pp)
      /\ \A k \in 1..(segEnd - pp) : actual[cut[pp] + k] = pattern[pp + k]
  BY <1>1, <1>2, CutHoldsSegment
<1>4. cut[pp] \in 0..Len(actual) /\ cut[segEnd] \in 0..Len(actual)
  BY <1>1 DEF Cuts
<1>5. ap <= cut[pp]
  BY DEF CompleteTypeInv, CompleteInv, NeverAhead
<1>6. cut[pp] \in ap..(Len(actual) - 1) /\ cut[pp] + (segEnd - pp) <= Len(actual)
  BY <1>1, <1>3, <1>4, <1>5
<1>7. 1 \in 1..(segEnd - pp)
  BY <1>1
<1> QED
  BY <1>3, <1>6, <1>7 DEF SegmentAt, SegLen

\* The search finds the first character of the segment no later than there.
LEMMA SearchIsLeftmost ==
  ASSUME CompleteTypeInv, pc = "skip", NEW cut \in Cuts(pattern, actual),
         NEW i, Found(i)
  PROVE  i <= cut[pp]
<1>1. cut[pp] \in ap..(Len(actual) - 1) /\ actual[cut[pp] + 1] = pattern[pp + 1]
  BY CutIsCandidate
<1>2. i \in Int /\ ap \in Int /\ Len(actual) \in Int
  BY LenProperties DEF Found, CompleteTypeInv, Inv, TypeOK
<1>3. cut[pp] \notin ap..(i - 1)
  BY <1>1 DEF Found
<1> QED
  BY <1>1, <1>2, <1>3

\* If the output can be cut at all, the search finds something.
LEMMA SearchFinds ==
  ASSUME CompleteTypeInv, pc = "skip", NEW cut \in Cuts(pattern, actual)
  PROVE  \E i \in 0..Len(actual) : Found(i) /\ i + SegLen <= Len(actual)
<1> DEFINE S == {i \in ap..(Len(actual) - 1) : actual[i + 1] = pattern[pp + 1]}
<1>1. cut[pp] \in S /\ SegmentAt(cut[pp])
  BY CutIsCandidate
<1>2. ap \in Nat /\ Len(actual) \in Nat
  BY LenProperties DEF CompleteTypeInv, Inv, TypeOK
<1>3. S \in SUBSET (0..Len(actual))
  BY <1>2
<1>4. PICK i \in S : \A k \in S : i <= k
  <2> HIDE DEF S
  <2> QED
    BY <1>1, <1>2, <1>3, FirstExists
<1>5. i \in ap..(Len(actual) - 1) /\ actual[i + 1] = pattern[pp + 1]
  BY <1>4
<1>6. \A k \in ap..(i - 1) : actual[k + 1] # pattern[pp + 1]
  <2> SUFFICES ASSUME NEW k \in ap..(i - 1), actual[k + 1] = pattern[pp + 1]
               PROVE  FALSE
    OBVIOUS
  <2>1. k \in S
    BY <1>2, <1>5
  <2> QED
    BY <1>2, <1>4, <1>5, <2>1
<1>7. Found(i)
  BY <1>5, <1>6 DEF Found
<1>8. SegLen \in Int
  BY LenProperties DEF SegLen, CompleteTypeInv, Inv, TypeOK
<1>9. i + SegLen <= Len(actual)
  <2>1. cut[pp] + SegLen <= Len(actual) /\ i <= cut[pp]
    BY <1>1, <1>4 DEF SegmentAt
  <2>2. cut[pp] \in Int /\ i \in Int
    BY <1>1, <1>2, <1>5
  <2> QED
    BY <1>2, <1>8, <2>1, <2>2
<1> QED
  BY <1>2, <1>5, <1>7, <1>9

\* Before the first placeholder, the cut is where the comparison is.
LEMMA CutOfLiterals ==
  ASSUME CompleteTypeInv, NEW cut \in Cuts(pattern, actual), LiteralUpto(pp)
  PROVE  cut[pp] = pp
<1>1. /\ Len(pattern) \in Nat /\ Len(actual) \in Nat
      /\ pp \in 0..Len(pattern) /\ 0 \in 0..Len(pattern)
  BY LenProperties DEF CompleteTypeInv, Inv, TypeOK
<1>2. \A k \in (0 + 1)..pp : pattern[k] # Any
  BY DEF LiteralUpto
<1>3. \A k \in 0..pp : cut[k] = cut[0] + (k - 0)
  BY <1>1, <1>2, CutInStep
<1>4. cut[pp] = 0 + (pp - 0)
  BY <1>1, <1>3 DEF Cuts
<1> QED
  BY <1>1, <1>4
-----------------------------------------------------------------------------
LEMMA InitComplete == Init => CompleteTypeInv
<1> SUFFICES ASSUME Init PROVE CompleteTypeInv
  OBVIOUS
<1>1. Inv
  BY InitInv
<1>2. NeverAhead
  BY DEF NeverAhead, Init, Cuts
<1>3. TakesTheRest /\ SearchedOnlyAfterAny /\ InStep /\ OpenEndedIsComplete
  BY DEF Init, TakesTheRest, SearchedOnlyAfterAny, InStep, LiteralUpto, OpenEndedIsComplete
<1>4. pc # "skip"
  BY DEF Init
<1> QED
  BY <1>1, <1>2, <1>3, <1>4 DEF CompleteTypeInv, CompleteInv

\* A comparison that ends with no match is right to, if the pattern is open ended.
LEMMA RefusalIsRight ==
  ASSUME CompleteTypeInv, OpenEnded, NEW cut \in Cuts(pattern, actual)
  PROVE  ~LiteralDiffers /\ ~SegmentMissing /\ (Finish => result')
<1>1. /\ Len(pattern) \in Nat /\ Len(actual) \in Nat
      /\ pp \in 0..Len(pattern) /\ ap \in 0..Len(actual)
      /\ cut \in [0..Len(pattern) -> 0..Len(actual)] /\ cut[Len(pattern)] = Len(actual)
  BY LenProperties DEF CompleteTypeInv, Inv, TypeOK, Cuts
<1>2. ASSUME LiteralDiffers PROVE FALSE
  <2>1. pc = "match" /\ pp < Len(pattern) /\ pattern[pp + 1] # Any /\ ~SameChar
    BY <1>2 DEF LiteralDiffers, AtLiteral
  <2>2. LiteralUpto(pp)
    BY <2>1 DEF CompleteTypeInv, CompleteInv, SearchedOnlyAfterAny
  <2>3. ap = pp /\ cut[pp] = pp
    BY <2>1, <2>2, CutOfLiterals DEF CompleteTypeInv, CompleteInv, InStep
  <2>4. pp + 1 \in 1..Len(pattern) /\ (pp + 1) - 1 = pp
    BY <1>1, <2>1
  <2>5. cut[pp + 1] = cut[pp] + 1 /\ actual[cut[pp + 1]] = pattern[pp + 1]
    BY <2>1, <2>4 DEF Cuts, CutFits
  <2>6. cut[pp + 1] \in 0..Len(actual)
    BY <1>1, <2>4
  <2> QED
    BY <1>1, <2>1, <2>3, <2>5, <2>6 DEF SameChar
<1>3. ASSUME SegmentMissing PROVE FALSE
  <2>1. PICK i \in 0..Len(actual) : Found(i) /\ i + SegLen <= Len(actual)
    BY <1>3, SearchFinds DEF SegmentMissing
  <2>2. SegLen \in Int
    BY LenProperties DEF SegLen, CompleteTypeInv, Inv, TypeOK
  <2> QED
    BY <1>1, <1>3, <2>1, <2>2 DEF SegmentMissing
<1>4. ASSUME Finish PROVE result'
  <2>1. pc = "match" /\ pp = Len(pattern) /\ result' = (ap = Len(actual))
    BY <1>4 DEF Finish, AllConsumed
  <2>2. CASE \A k \in 1..Len(pattern) : pattern[k] # Any
    <3>1. LiteralUpto(pp)
      BY <2>1, <2>2 DEF LiteralUpto
    <3>2. ap = pp /\ cut[pp] = pp
      BY <2>1, <3>1, CutOfLiterals DEF CompleteTypeInv, CompleteInv, InStep
    <3> QED
      BY <1>1, <2>1, <3>2
  <2>3. CASE pattern[Len(pattern)] = Any /\ Len(pattern) > 0
    BY <2>1, <2>3 DEF CompleteTypeInv, CompleteInv, TakesTheRest
  <2>4. Len(pattern) = 0 => \A k \in 1..Len(pattern) : pattern[k] # Any
    OBVIOUS
  <2> QED
    BY <1>1, <2>2, <2>3, <2>4 DEF OpenEnded
<1> QED
  BY <1>2, <1>3, <1>4

LEMMA NextComplete == CompleteTypeInv /\ [Next]_vars => CompleteTypeInv'
<1> SUFFICES ASSUME CompleteTypeInv, [Next]_vars PROVE CompleteTypeInv'
  OBVIOUS
<1>1. Inv'
  BY NextInv DEF CompleteTypeInv
<1>2. pattern' = pattern /\ actual' = actual
  BY DEF Next, vars, Literal, LiteralDiffers, Fail, Placeholder, SegmentFound,
         SegmentElsewhere, SegmentMissing, Finish
<1>3. /\ Len(pattern) \in Nat /\ Len(actual) \in Nat
      /\ pp \in 0..Len(pattern) /\ ap \in 0..Len(actual)
      /\ pp' \in 0..Len(pattern) /\ ap' \in 0..Len(actual)
      /\ segEnd \in 0..Len(pattern)
  BY <1>1, <1>2, LenProperties DEF CompleteTypeInv, Inv, TypeOK
<1>4. \A cut \in Cuts(pattern, actual) :
        /\ cut \in [0..Len(pattern) -> 0..Len(actual)]
        /\ cut[Len(pattern)] = Len(actual)
        /\ CutFits(pattern, actual, cut)
  BY DEF Cuts
<1> SUFFICES CompleteInv'
  BY <1>1 DEF CompleteTypeInv
<1>5. CASE Literal
  <2>1. /\ pc = "match" /\ pc' = "match" /\ pp < Len(pattern) /\ pattern[pp + 1] # Any
        /\ pp' = pp + 1 /\ ap' = ap + 1
    BY <1>5 DEF Literal, AtLiteral
  <2>2. LiteralUpto(pp) /\ ap = pp
    BY <2>1 DEF CompleteTypeInv, CompleteInv, SearchedOnlyAfterAny, InStep
  <2>3. ASSUME NEW cut \in Cuts(pattern, actual) PROVE ap + 1 <= cut[pp + 1]
    <3>1. pp + 1 \in 1..Len(pattern) /\ (pp + 1) - 1 = pp
      BY <1>3, <2>1
    <3>2. cut[pp + 1] = cut[pp] + 1
      BY <1>4, <2>1, <3>1 DEF CutFits
    <3>3. cut[pp] = pp
      BY <2>2, CutOfLiterals
    <3> QED
      BY <1>3, <2>2, <3>2, <3>3
  <2>4. NeverAhead'
    BY <1>2, <2>1, <2>3 DEF NeverAhead
  <2>5. LiteralUpto(pp)'
    BY <1>2, <1>3, <2>1, <2>2 DEF LiteralUpto
  <2>6. SearchedOnlyAfterAny' /\ InStep' /\ TakesTheRest'
    BY <1>2, <2>1, <2>2, <2>5 DEF SearchedOnlyAfterAny, InStep, TakesTheRest
  <2> QED
    BY <2>1, <2>4, <2>6 DEF CompleteInv, OpenEndedIsComplete
<1>6. CASE Placeholder
  <2>1. /\ pc = "match" /\ pp < Len(pattern) /\ pattern[pp + 1] = Any /\ pp' = pp + 1
        /\ EndsSegment(pp + 1, segEnd')
        /\ segEnd' \in (pp + 1)..Len(pattern)
        /\ IF segEnd' = pp + 1
           THEN pc' = "match" /\ ap' = PlaceholderAlone(pp + 1)
           ELSE pc' = "skip" /\ ap' = ap
    BY <1>6 DEF Placeholder
  <2>2. ~LiteralUpto(pp)'
    <3>1. pp + 1 \in 1..(pp + 1)
      BY <1>3
    <3> QED
      BY <1>2, <2>1, <3>1 DEF LiteralUpto
  <2>3. ASSUME NEW cut \in Cuts(pattern, actual) PROVE ap' <= cut[pp + 1]
    <3>1. ap <= cut[pp]
      BY <2>1 DEF CompleteTypeInv, CompleteInv, NeverAhead
    <3>2. pp + 1 \in 1..Len(pattern) /\ (pp + 1) - 1 = pp
      BY <1>3, <2>1
    <3>3. cut[pp] <= cut[pp + 1]
      BY <1>4, <2>1, <3>2 DEF CutFits
    <3>4. cut[pp] \in Nat /\ cut[pp + 1] \in Nat
      BY <1>3, <1>4, <3>2
    <3>5. ap <= cut[pp + 1]
      BY <1>3, <3>1, <3>3, <3>4
    <3>6. pp + 1 = Len(pattern) => cut[pp + 1] = Len(actual)
      BY <1>4
    <3> QED
      BY <1>3, <2>1, <3>5, <3>6 DEF PlaceholderAlone
  <2>4. pc' # "done" /\ NeverAhead'
    BY <1>2, <2>1, <2>3 DEF NeverAhead
  <2>5. pc' = "skip" => EndsSegment(pp, segEnd)'
    BY <1>2, <2>1 DEF EndsSegment
  <2>6. SearchedOnlyAfterAny'
    BY <1>2, <2>1 DEF SearchedOnlyAfterAny, EndsSegment
  <2>7. TakesTheRest'
    <3> SUFFICES ASSUME pc' = "match", pp' = Len(pattern) PROVE ap' = Len(actual)
      BY <1>2 DEF TakesTheRest
    <3> QED
      BY <2>1 DEF PlaceholderAlone
  <2> QED
    BY <2>2, <2>4, <2>5, <2>6, <2>7 DEF CompleteInv, InStep, OpenEndedIsComplete
<1>7. CASE SegmentFound
  <2>1. PICK i \in 0..Len(actual) : Found(i) /\ ap' = i + SegLen
    BY <1>7 DEF SegmentFound
  <2>2. pc = "skip" /\ pc' = "match" /\ pp' = segEnd /\ segEnd > pp
    BY <1>7 DEF SegmentFound, CompleteTypeInv, Inv, MatchInv
  <2>3. EndsSegment(pp, segEnd)
    BY <2>2 DEF CompleteTypeInv, CompleteInv
  <2>4. ASSUME NEW cut \in Cuts(pattern, actual) PROVE ap' <= cut[segEnd]
    <3>1. i <= cut[pp] /\ cut[segEnd] = cut[pp] + SegLen
      BY <2>1, <2>2, CutIsCandidate, SearchIsLeftmost
    <3>2. cut[pp] \in Int /\ SegLen \in Int
      BY <1>3, <1>4 DEF SegLen
    <3> QED
      BY <2>1, <3>1, <3>2
  <2>5. NeverAhead'
    BY <1>2, <2>2, <2>4 DEF NeverAhead
  <2>6. SearchedOnlyAfterAny'
    BY <1>2, <2>2, <2>3 DEF SearchedOnlyAfterAny, EndsSegment
  <2>7. ~LiteralUpto(pp)'
    <3>1. pp \in 1..segEnd /\ pattern[pp] = Any
      BY <1>3, <2>2 DEF CompleteTypeInv, Inv, MatchInv
    <3> QED
      BY <1>2, <2>2, <3>1 DEF LiteralUpto
  <2>8. pattern[segEnd] # Any
    <3>1. segEnd - 1 \in pp..(segEnd - 1) /\ (segEnd - 1) + 1 = segEnd
      BY <1>3, <2>2
    <3> QED
      BY <2>3, <3>1 DEF EndsSegment
  <2>9. TakesTheRest'
    BY <1>2, <2>2, <2>8 DEF TakesTheRest
  <2> QED
    BY <2>2, <2>5, <2>6, <2>7, <2>9 DEF CompleteInv, InStep, OpenEndedIsComplete
<1>8. CASE SegmentElsewhere
  <2>1. PICK i \in 0..Len(actual) : Found(i) /\ ~SegmentAt(i) /\ ap' = i + 1
    BY <1>8 DEF SegmentElsewhere, NextStart
  <2>2. pc = "skip" /\ pc' = "skip" /\ pp' = pp /\ segEnd' = segEnd
    BY <1>8 DEF SegmentElsewhere
  <2>3. ASSUME NEW cut \in Cuts(pattern, actual) PROVE ap' <= cut[pp]
    <3>1. i <= cut[pp] /\ SegmentAt(cut[pp])
      BY <2>1, <2>2, CutIsCandidate, SearchIsLeftmost
    <3>2. i # cut[pp]
      BY <2>1, <3>1
    <3>3. cut[pp] \in Int
      BY <1>3, <1>4
    <3> QED
      BY <2>1, <3>1, <3>2, <3>3
  <2>4. NeverAhead'
    BY <1>2, <2>2, <2>3 DEF NeverAhead
  <2>5. ~LiteralUpto(pp)'
    <3>1. pp \in 1..pp /\ pattern[pp] = Any
      BY <1>3, <2>2 DEF CompleteTypeInv, Inv, MatchInv
    <3> QED
      BY <1>2, <2>2, <3>1 DEF LiteralUpto
  <2>6. EndsSegment(pp, segEnd)'
    BY <1>2, <2>2 DEF CompleteTypeInv, CompleteInv, EndsSegment
  <2> QED
    BY <2>2, <2>4, <2>5, <2>6
    DEF CompleteInv, InStep, SearchedOnlyAfterAny, TakesTheRest, OpenEndedIsComplete
<1>9. CASE LiteralDiffers \/ SegmentMissing \/ Finish
  <2>1. pc' = "done"
    BY <1>9 DEF LiteralDiffers, SegmentMissing, Finish, Fail
  <2>2. OpenEndedIsComplete'
    <3> SUFFICES ASSUME OpenEnded, Matches(pattern, actual) PROVE result'
      BY <1>2 DEF OpenEndedIsComplete, OpenEnded
    <3>1. PICK cut : cut \in Cuts(pattern, actual)
      BY DEF Matches, Cuts
    <3> QED
      BY <1>9, <3>1, RefusalIsRight
  <2> QED
    BY <2>1, <2>2 DEF CompleteInv, NeverAhead, SearchedOnlyAfterAny, InStep, TakesTheRest
<1>10. CASE UNCHANGED vars
  BY <1>10
  DEF vars, CompleteTypeInv, CompleteInv, NeverAhead, SearchedOnlyAfterAny, InStep,
      LiteralUpto, TakesTheRest, EndsSegment, OpenEndedIsComplete, OpenEnded
<1> QED
  BY <1>5, <1>6, <1>7, <1>8, <1>9, <1>10 DEF Next

\* pattern_match accepts every output that matches, when the expected text has
\* no placeholder or ends with one.
THEOREM OpenEndedCompleteness == Spec => []OpenEndedIsComplete
<1>1. CompleteTypeInv => OpenEndedIsComplete
  BY DEF CompleteTypeInv, CompleteInv
<1> QED
  BY <1>1, InitComplete, NextComplete, PTL DEF Spec
=============================================================================
