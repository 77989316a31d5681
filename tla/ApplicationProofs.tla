-------------------------- MODULE ApplicationProofs --------------------------
(***************************************************************************)
(* A run of jcunit, for every file tree, all arguments and tests of any    *)
(* kind and number: the cache is left as the user wants it, every source is*)
(* found once, a run fails only for a reason, every variable has its type, *)
(* and the report explains every failure and leaves nobody out.            *)
(*                                                                         *)
(* A report only grows.  What is proved of it is said of the items of one  *)
(* kind at a time, as a predicate over a sequence of items: most parts of a*)
(* step leave the items of a kind where they are, and the one that does not*)
(* adds a single one behind them.                                          *)
(***************************************************************************)
EXTENDS Application, FiniteSetTheorems, SequenceTheorems, TLAPS
-----------------------------------------------------------------------------
(* The cache.                                                              *)

\* Past the options the flags are settled, and the environment says the same.
SettledInv ==
  /\ at \in {"options", "start", "sources", "suites", "tests"}
  /\ at \in {"options", "start"} => search = "argument"
  /\ at # "options" /\ noCache => "--no-cache" \in flags
  /\ at \notin {"options", "start"} =>
       /\ ~AsksForText
       /\ "--no-cache" \in flags => noCache
       /\ "--clear-cache" \in flags => cache # "old" \/ "remove" \in refused
  /\ at \in {"options", "start"} => refused = {}
  /\ "remove" \in refused => "--clear-cache" \in flags

\* Only a run that got to its end has saved the cache, or could not.
SavedInv ==
  /\ cache = "new" =>
       at \in {"suites", "tests"} /\ exitCode \in {"0", "2"} /\ "--no-cache" \notin flags
  /\ exitCode \in {"0", "2"} /\ at \in {"suites", "tests"} /\ "--no-cache" \notin flags =>
       (cache = "new" <=> "save" \notin refused)
  /\ "save" \in refused => exitCode \in {"0", "2"} /\ "--no-cache" \notin flags
  /\ exitCode = "2" => at = "tests"

CacheInv == SettledInv /\ SavedInv

LEMMA InitCache == Init => CacheInv
  BY DEF Init, SearchInit, CacheInv, SettledInv, SavedInv, AsksForText

\* Nothing that is said here changes.
LEMMA SameCache ==
  ASSUME CacheInv, UNCHANGED <<at, flags, noCache, cacheVars, exitCode>>,
         at \in {"options", "start"} => search' = search
  PROVE  CacheInv'
<1>1. AsksForText' <=> AsksForText
  BY DEF AsksForText
<1> QED
  BY <1>1 DEF CacheInv, SettledInv, SavedInv, cacheVars

LEMMA NextCache == CacheInv /\ [Next]_vars => CacheInv'
<1> SUFFICES ASSUME CacheInv, [Next]_vars PROVE CacheInv'
  OBVIOUS
<1> USE DEF Running, Goto, Exit, cacheVars
<1>1. CASE ParseOption \/ PassPath
  <2>1. /\ at = "options" /\ exitCode = "running" /\ UNCHANGED <<at, noCache, cache, refused, exitCode>>
        /\ search' = search
    BY <1>1 DEF ParseOption, PassPath, searchVars
  <2> QED
    BY <2>1 DEF CacheInv, SettledInv, SavedInv
<1>2. CASE UnknownOption
  <2>1. /\ at = "options" /\ exitCode = "running" /\ exitCode' = "1"
        /\ UNCHANGED <<at, noCache, cache, refused, flags, search>>
    BY <1>2 DEF UnknownOption, searchVars
  <2> QED
    BY <2>1 DEF CacheInv, SettledInv, SavedInv
<1>3. CASE OptionsParsed
  <2>1. /\ at = "options" /\ exitCode = "running" /\ at' = "start"
        /\ UNCHANGED <<noCache, cache, refused, exitCode, search>>
        /\ flags' = flags \cup (IF noCache THEN {"--no-cache"} ELSE {})
    BY <1>3 DEF OptionsParsed, searchVars
  <2>2. noCache => "--no-cache" \in flags'
    BY <2>1
  <2> QED
    BY <2>1, <2>2 DEF CacheInv, SettledInv, SavedInv
<1>4. CASE ShowText
  <2>1. /\ at = "start" /\ exitCode = "running" /\ exitCode' = "0"
        /\ UNCHANGED <<at, noCache, cache, refused, flags, search>>
    BY <1>4 DEF ShowText, searchVars
  <2> QED
    BY <2>1 DEF CacheInv, SettledInv, SavedInv
<1>5. CASE Start
  <2>1. /\ at = "start" /\ exitCode = "running" /\ at' = "sources" /\ ~AsksForText
        /\ UNCHANGED <<flags, exitCode, search>>
        /\ noCache' = (noCache \/ "--no-cache" \in flags)
        /\ cache' \in {"absent", cache} /\ refused' \in {refused, refused \cup {"remove"}}
        /\ "--clear-cache" \in flags => cache' = "absent" \/ "remove" \in refused'
        /\ "remove" \in refused' => "remove" \in refused \/ "--clear-cache" \in flags
    BY <1>5 DEF Start, searchVars, ClearCache
  <2>2. ~AsksForText'
    BY <2>1 DEF AsksForText
  <2>3. noCache => "--no-cache" \in flags
    BY <2>1 DEF CacheInv, SettledInv
  <2>4. noCache' => "--no-cache" \in flags'
    BY <2>1, <2>3
  <2>5. "--no-cache" \in flags' => noCache'
    BY <2>1
  <2>6. cache # "new" /\ refused = {}
    BY <2>1 DEF CacheInv, SettledInv, SavedInv
  <2>7. SettledInv'
    BY <2>1, <2>2, <2>4, <2>5, <2>6 DEF SettledInv
  <2> QED
    BY <2>1, <2>6, <2>7 DEF CacheInv, SavedInv
<1>6. CASE Fetching
  <2>1. at = "sources" /\ UNCHANGED mainVars
    BY <1>6 DEF Fetching
  <2> QED
    BY <2>1, SameCache DEF mainVars
<1>7. CASE FetchEnds
  <2>1. /\ at = "sources" /\ exitCode = "running" /\ UNCHANGED <<noCache, cache, refused, flags, search>>
        /\ \/ exitCode' \in {"0", "1", "signal"} /\ at' = at
           \/ exitCode' = exitCode /\ at' = "suites"
    BY <1>7 DEF FetchEnds, searchVars
  <2>2. AsksForText' <=> AsksForText
    BY <2>1 DEF AsksForText
  <2> QED
    BY <2>1, <2>2 DEF CacheInv, SettledInv, SavedInv
<1>8. CASE ReadSuite \/ BeginTests \/ RunnerDies
  <2>1. /\ at \in {"suites", "tests"} /\ exitCode = "running"
        /\ UNCHANGED <<noCache, cache, refused, flags, search>>
        /\ exitCode' \in {"running", "1"} /\ at' \in {"suites", "tests"}
    BY <1>8 DEF ReadSuite, BeginTests, RunnerDies, SuitesRead, searchVars
  <2>2. AsksForText' <=> AsksForText
    BY <2>1 DEF AsksForText
  <2> QED
    BY <2>1, <2>2 DEF CacheInv, SettledInv, SavedInv
<1>9. CASE NoTests \/ Finish
  <2>1. /\ at \in {"suites", "tests"} /\ exitCode = "running" /\ at' = at
        /\ UNCHANGED <<noCache, flags, search>>
        /\ exitCode' \in {"0", "2"} /\ (exitCode' = "2" => at = "tests")
        /\ cache' \in {"new", cache} /\ refused' \in {refused, refused \cup {"save"}}
        /\ IF "--no-cache" \in flags THEN cache' = cache /\ refused' = refused
           ELSE \/ cache' = "new" /\ refused' = refused
                \/ cache' = cache /\ "save" \in refused'
    BY <1>9 DEF NoTests, Finish, SuitesRead, searchVars, SaveCache
  <2>2. AsksForText' <=> AsksForText
    BY <2>1 DEF AsksForText
  <2>3. SettledInv'
    BY <2>1, <2>2 DEF CacheInv, SettledInv
  <2>4. SavedInv'
    BY <2>1 DEF CacheInv, SavedInv
  <2> QED
    BY <2>3, <2>4 DEF CacheInv
<1>10. CASE RunTests
  <2>1. at = "tests" /\ UNCHANGED mainVars
    BY <1>10 DEF RunTests
  <2> QED
    BY <2>1, SameCache DEF mainVars
<1>11. CASE FileVanishes
  <2>1. UNCHANGED mainVars /\ search' = search
    BY <1>11 DEF FileVanishes, Vanish
  <2> QED
    BY <2>1, SameCache DEF mainVars
<1>12. CASE UNCHANGED vars
  BY <1>12, SameCache DEF vars, mainVars, searchVars
<1> QED
  BY <1>1, <1>2, <1>3, <1>4, <1>5, <1>6, <1>7, <1>8, <1>9, <1>10, <1>11, <1>12 DEF Next, Step

\* The cache is left as the user wants it (main.c, cache_save of cache.c): a run
\* without cache, one that fails and one that only shows a text save nothing, one
\* that asks for a new cache does not keep the old one, and every other run that
\* gets to its end saves it, unless remove or fopen was refused.
THEOREM CacheCorrect == Spec => []CacheAsTold
<1>1. CacheInv => CacheAsTold
  BY DEF CacheInv, SettledInv, SavedInv, CacheAsTold
<1> QED
  BY <1>1, InitCache, NextCache, PTL DEF Spec
-----------------------------------------------------------------------------
(* Parts of a report.                                                      *)

IsSeq(s) == s \in Seq({s[k] : k \in DOMAIN s})

TellsOfBad(item) == item.kind = "number" \/ (item.kind = "test" /\ item.text \in Bad)

TellsCause(item) == item.kind \in {"error", "diff", "label"}

TellsExit(item, after) == item.kind = "exit code" /\ after.kind = "stderr"

\* The k-th item of s tells why, or it does so with the one after it.
TellsWhy(s, k) ==
  /\ k <= Len(s)
  /\ TellsCause(s[k]) \/ (k + 1 <= Len(s) /\ TellsExit(s[k], s[k + 1]))

Explained(s) == IsSeq(s) /\ \A k \in DOMAIN s : TellsOfBad(s[k]) => TellsWhy(s, k + 1)

Quiet(s) == IsSeq(s) /\ \A k \in DOMAIN s : ~TellsOfBad(s[k])

Explains(s) == Quiet(s) /\ TellsWhy(s, 1)

LEMMA SeqHasItsElements ==
  ASSUME NEW S, NEW s \in Seq(S) PROVE IsSeq(s)
<1>1. s \in [1..Len(s) -> S] /\ Len(s) \in Nat
  BY LenProperties
<1>2. s \in [1..Len(s) -> {s[k] : k \in DOMAIN s}]
  BY <1>1
<1> HIDE DEF IsSeq
<1> QED
  BY <1>1, <1>2, IsASeq DEF IsSeq

LEMMA ConcatFacts ==
  ASSUME NEW s, NEW t, IsSeq(s), IsSeq(t)
  PROVE  /\ IsSeq(s \o t) /\ Len(s) \in Nat /\ Len(t) \in Nat
         /\ Len(s \o t) = Len(s) + Len(t)
         /\ DOMAIN s = 1..Len(s) /\ DOMAIN t = 1..Len(t)
         /\ DOMAIN (s \o t) = 1..(Len(s) + Len(t))
         /\ \A k \in 1..Len(s) : (s \o t)[k] = s[k]
         /\ \A k \in 1..Len(t) : (s \o t)[Len(s) + k] = t[k]
<1> DEFINE A == {s[k] : k \in DOMAIN s}
           B == {t[k] : k \in DOMAIN t}
           S == A \cup B
<1>1. s \in Seq(S) /\ t \in Seq(S)
  <2>1. s \in Seq(A) /\ t \in Seq(B)
    BY DEF IsSeq
  <2>2. A \subseteq S /\ B \subseteq S
    OBVIOUS
  <2> HIDE DEF A, B, S
  <2> QED
    BY <2>1, <2>2, SeqMonotonic
<1> HIDE DEF A, B, S
<1>2. /\ s \o t \in Seq(S)
      /\ Len(s \o t) = Len(s) + Len(t)
      /\ \A k \in 1..(Len(s) + Len(t)) :
           (s \o t)[k] = IF k <= Len(s) THEN s[k] ELSE t[k - Len(s)]
  BY <1>1, ConcatProperties
<1>3. /\ Len(s) \in Nat /\ Len(t) \in Nat /\ DOMAIN s = 1..Len(s) /\ DOMAIN t = 1..Len(t)
      /\ DOMAIN (s \o t) = 1..(Len(s) + Len(t))
  BY <1>1, <1>2, LenProperties
<1>4. \A k \in 1..Len(s) : (s \o t)[k] = s[k]
  <2>1. \A k \in 1..Len(s) : k \in 1..(Len(s) + Len(t)) /\ k <= Len(s)
    BY <1>3
  <2> QED
    BY <1>2, <2>1
<1>5. \A k \in 1..Len(t) : (s \o t)[Len(s) + k] = t[k]
  <2>1. \A k \in 1..Len(t) :
          /\ Len(s) + k \in 1..(Len(s) + Len(t)) /\ ~(Len(s) + k <= Len(s))
          /\ (Len(s) + k) - Len(s) = k
    BY <1>3
  <2> QED
    BY <1>2, <2>1
<1>6. IsSeq(s \o t)
  BY <1>2, SeqHasItsElements
<1> QED
  BY <1>2, <1>3, <1>4, <1>5, <1>6

\* An explanation stays one wherever it is told.
LEMMA WhyMoves ==
  ASSUME NEW s, NEW u, Len(s) \in Nat, Len(u) \in Nat, NEW d \in Nat, NEW k \in Nat \ {0},
         TellsWhy(s, k), d + Len(s) <= Len(u), \A l \in 1..Len(s) : u[d + l] = s[l]
  PROVE  TellsWhy(u, d + k)
<1>1. k \in 1..Len(s) /\ d + k <= Len(u) /\ u[d + k] = s[k]
  BY DEF TellsWhy
<1>2. CASE TellsCause(s[k])
  BY <1>1, <1>2 DEF TellsWhy
<1>3. CASE k + 1 <= Len(s) /\ TellsExit(s[k], s[k + 1])
  <2>1. k + 1 \in 1..Len(s) /\ d + (k + 1) <= Len(u) /\ d + (k + 1) = (d + k) + 1
    BY <1>3
  <2>2. u[(d + k) + 1] = s[k + 1]
    BY <2>1
  <2> QED
    BY <1>1, <1>3, <2>1, <2>2 DEF TellsWhy
<1> QED
  BY <1>2, <1>3 DEF TellsWhy

\* A report that is explained stays so when more is told.
LEMMA ExplainedConcat ==
  ASSUME NEW s, NEW t, Explained(s), Explained(t)
  PROVE  Explained(s \o t)
<1>1. /\ IsSeq(s \o t) /\ Len(s) \in Nat /\ Len(t) \in Nat
      /\ Len(s \o t) = Len(s) + Len(t)
      /\ DOMAIN s = 1..Len(s) /\ DOMAIN t = 1..Len(t)
      /\ DOMAIN (s \o t) = 1..(Len(s) + Len(t))
      /\ \A k \in 1..Len(s) : (s \o t)[k] = s[k]
      /\ \A k \in 1..Len(t) : (s \o t)[Len(s) + k] = t[k]
  BY ConcatFacts DEF Explained
<1> DEFINE u == s \o t
<1> HIDE DEF u
<1>2. ASSUME NEW k \in DOMAIN u, TellsOfBad(u[k]) PROVE TellsWhy(u, k + 1)
  <2>1. k \in 1..(Len(s) + Len(t)) /\ Len(u) \in Nat
    BY <1>1 DEF u
  <2>2. CASE k \in 1..Len(s)
    <3>1. TellsWhy(s, k + 1)
      BY <1>1, <1>2, <2>2 DEF Explained, u
    <3>2. k + 1 \in Nat \ {0} /\ 0 \in Nat /\ 0 + Len(s) <= Len(u)
      BY <1>1, <2>2 DEF u
    <3>3. \A l \in 1..Len(s) : u[0 + l] = s[l]
      BY <1>1 DEF u
    <3>4. TellsWhy(u, 0 + (k + 1))
      BY <1>1, <2>1, <3>1, <3>2, <3>3, WhyMoves
    <3>5. 0 + (k + 1) = k + 1
      BY <2>2
    <3> QED
      BY <3>4, <3>5
  <2>3. CASE k \notin 1..Len(s)
    <3>1. PICK l \in 1..Len(t) : k = Len(s) + l
      <4>1. k - Len(s) \in 1..Len(t) /\ k = Len(s) + (k - Len(s))
        BY <1>1, <2>1, <2>3
      <4> QED
        BY <4>1
    <3>2. TellsWhy(t, l + 1)
      BY <1>1, <1>2, <3>1 DEF Explained, u
    <3>3. l + 1 \in Nat \ {0} /\ Len(s) + Len(t) <= Len(u)
      BY <1>1, <3>1 DEF u
    <3>4. \A x \in 1..Len(t) : u[Len(s) + x] = t[x]
      BY <1>1 DEF u
    <3>5. TellsWhy(u, Len(s) + (l + 1))
      BY <1>1, <2>1, <3>2, <3>3, <3>4, WhyMoves
    <3>6. Len(s) + (l + 1) = k + 1
      BY <1>1, <3>1
    <3> QED
      BY <3>5, <3>6
  <2> QED
    BY <2>2, <2>3
<1> QED
  BY <1>1, <1>2 DEF Explained, u

LEMMA QuietConcat ==
  ASSUME NEW s, NEW t, Quiet(s), Quiet(t) PROVE Quiet(s \o t)
<1>1. /\ IsSeq(s \o t) /\ Len(s) \in Nat /\ Len(t) \in Nat
      /\ DOMAIN s = 1..Len(s) /\ DOMAIN t = 1..Len(t)
      /\ DOMAIN (s \o t) = 1..(Len(s) + Len(t))
      /\ \A k \in 1..Len(s) : (s \o t)[k] = s[k]
      /\ \A k \in 1..Len(t) : (s \o t)[Len(s) + k] = t[k]
  BY ConcatFacts DEF Quiet
<1>2. ASSUME NEW k \in DOMAIN (s \o t) PROVE ~TellsOfBad((s \o t)[k])
  <2>1. CASE k \in 1..Len(s)
    BY <1>1, <2>1 DEF Quiet
  <2>2. CASE k \notin 1..Len(s)
    <3>1. k - Len(s) \in 1..Len(t) /\ k = Len(s) + (k - Len(s))
      BY <1>1, <2>2
    <3>2. PICK l \in 1..Len(t) : k = Len(s) + l
      BY <3>1
    <3> QED
      BY <1>1, <3>2 DEF Quiet
  <2> QED
    BY <2>1, <2>2
<1> QED
  BY <1>1, <1>2 DEF Quiet

LEMMA QuietIsExplained == ASSUME NEW s, Quiet(s) PROVE Explained(s)
  BY DEF Quiet, Explained

LEMMA ExplainsConcat ==
  ASSUME NEW s, NEW t, Explains(s), Quiet(t) PROVE Explains(s \o t)
<1>1. Quiet(s \o t)
  BY QuietConcat DEF Explains
<1>2. /\ Len(s) \in Nat /\ Len(t) \in Nat /\ Len(s \o t) = Len(s) + Len(t)
      /\ \A k \in 1..Len(s) : (s \o t)[k] = s[k]
  BY ConcatFacts DEF Quiet, Explains
<1> DEFINE u == s \o t
<1>3. Len(u) \in Nat /\ 0 + Len(s) <= Len(u) /\ 1 \in Nat \ {0} /\ 0 \in Nat
  BY <1>2
<1>4. \A k \in 1..Len(s) : u[0 + k] = s[k]
  BY <1>2
<1> HIDE DEF u
<1>5. TellsWhy(s, 1)
  BY DEF Explains
<1>6. TellsWhy(u, 0 + 1)
  BY <1>2, <1>3, <1>4, <1>5, WhyMoves
<1> QED
  BY <1>1, <1>6 DEF Explains, u

\* A bad test is told last, and then why.
LEMMA ExplainedByNext ==
  ASSUME NEW s, NEW t, IsSeq(s), \A k \in 1..(Len(s) - 1) : ~TellsOfBad(s[k]), Explains(t)
  PROVE  Explained(s \o t)
<1>1. /\ IsSeq(s \o t) /\ Len(s) \in Nat /\ Len(t) \in Nat
      /\ Len(s \o t) = Len(s) + Len(t)
      /\ DOMAIN t = 1..Len(t)
      /\ DOMAIN (s \o t) = 1..(Len(s) + Len(t))
      /\ \A k \in 1..Len(s) : (s \o t)[k] = s[k]
      /\ \A k \in 1..Len(t) : (s \o t)[Len(s) + k] = t[k]
  BY ConcatFacts DEF Explains, Quiet
<1> DEFINE u == s \o t
<1> HIDE DEF u
<1>2. ASSUME NEW k \in DOMAIN u, TellsOfBad(u[k]) PROVE TellsWhy(u, k + 1)
  <2>1. k \in 1..(Len(s) + Len(t))
    BY <1>1 DEF u
  <2>2. ~(k < Len(s))
    <3> SUFFICES ASSUME k < Len(s) PROVE FALSE
      OBVIOUS
    <3>1. k \in 1..(Len(s) - 1) /\ k \in 1..Len(s)
      BY <1>1, <2>1
    <3>2. u[k] = s[k]
      BY <1>1, <3>1 DEF u
    <3> QED
      BY <1>2, <3>1, <3>2
  <2>3. ~(k > Len(s))
    <3> SUFFICES ASSUME k > Len(s) PROVE FALSE
      OBVIOUS
    <3>1. k - Len(s) \in 1..Len(t) /\ k = Len(s) + (k - Len(s))
      BY <1>1, <2>1
    <3>2. PICK l \in 1..Len(t) : k = Len(s) + l
      BY <3>1
    <3>3. u[k] = t[l]
      BY <1>1, <3>2 DEF u
    <3> QED
      BY <1>1, <1>2, <3>2, <3>3 DEF Explains, Quiet
  <2>4. k = Len(s)
    BY <1>1, <2>1, <2>2, <2>3
  <2>5. TellsWhy(t, 1) /\ 1 \in Nat \ {0}
    BY DEF Explains
  <2>6. Len(u) \in Nat /\ Len(s) + Len(t) <= Len(u)
    BY <1>1 DEF u
  <2>7. \A l \in 1..Len(t) : u[Len(s) + l] = t[l]
    BY <1>1 DEF u
  <2>8. TellsWhy(u, Len(s) + 1)
    BY <1>1, <2>5, <2>6, <2>7, WhyMoves
  <2> QED
    BY <2>4, <2>8
<1> QED
  BY <1>1, <1>2 DEF Explained, u
-----------------------------------------------------------------------------
(* What is told.                                                           *)

\* The result of a test has what explains it.
Supported(r) ==
  /\ r.status = "ERROR" => r.error # "NONE"
  /\ r.status = "FAILURE" =>
       \/ r.diffs \cap Streams # {}
       \/ r.exit # 0 /\ r.noisy /\ "err" \notin r.expects

Sources == UNION {DOMAIN d : d \in Disks}

ReadInv == disk \in Disks /\ suites \in Seq(Sources)

ResultsInv ==
  /\ IsSeq(tests) /\ \A k \in DOMAIN tests : tests[k].case \in Cases
  /\ IsSeq(results) /\ \A k \in DOMAIN results : Supported(results[k])
  /\ next \in Nat \ {0}

ToldInv == ReadInv /\ ResultsInv /\ Explained(printed)

LEMMA FirstExists ==
  ASSUME NEW n \in Nat, NEW S \in SUBSET (0..n), S # {}
  PROVE  \E m \in S : \A k \in S : m <= k
<1> DEFINE Under(m) == {k \in S : k < m}
           T == {Under(m) : m \in S}
<1>1. IsFiniteSet(S)
  <2>1. IsFiniteSet(0..n)
    BY FS_Interval
  <2> QED
    BY <2>1, FS_Subset
<1>2. T \subseteq FiniteSubsetsOf(S) /\ T # {}
  <2>1. \A m \in S : Under(m) \in SUBSET S /\ IsFiniteSet(Under(m))
    BY <1>1, FS_Subset
  <2> QED
    BY <2>1 DEF FiniteSubsetsOf
<1>3. IsWellFoundedOn(StrictSubsetOrdering(S), FiniteSubsetsOf(S))
  BY FS_StrictSubsetOrderingWellFounded
<1>4. PICK t \in T : \A u \in T : <<u, t>> \notin StrictSubsetOrdering(S)
  <2> HIDE DEF T
  <2> QED
    BY <1>2, <1>3, WFMin, Zenon
<1>5. PICK m \in S : t = Under(m)
  BY <1>4
<1>6. \A k \in S : m <= k
  <2> SUFFICES ASSUME NEW k \in S, k < m PROVE FALSE
    OBVIOUS
  <2>0. \A x \in S : x \in Int
    OBVIOUS
  <2>1. k \in Under(m) /\ k \notin Under(k)
    BY <2>0
  <2>2. Under(k) \subseteq Under(m)
    <3>1. \A x \in S : x < k => x < m
      BY <2>0
    <3> QED
      BY <3>1
  <2>3. <<Under(k), t>> \in StrictSubsetOrdering(S)
    BY <1>5, <2>1, <2>2 DEF StrictSubsetOrdering
  <2> QED
    BY <2>3, <1>4
<1> QED
  BY <1>6

\* The parts of a list are put together one after the other: for every number
\* of parts there is one function that does so (else there is a first number
\* for which there is none).
LEMMA JoinExists ==
  ASSUME NEW N \in Nat, NEW part
  PROVE  \E f : f = [k \in 0..N |-> IF k = 0 THEN <<>> ELSE f[k - 1] \o part[k]]
<1> DEFINE Joins(f, n) == f = [k \in 0..n |-> IF k = 0 THEN <<>> ELSE f[k - 1] \o part[k]]
           S == {n \in 0..N : ~\E f : Joins(f, n)}
<1> SUFFICES ASSUME ~\E f : Joins(f, N) PROVE FALSE
  OBVIOUS
<1>0. N \in S
  <2>1. N \in 0..N
    OBVIOUS
  <2> HIDE DEF Joins
  <2> QED
    BY <2>1
<1>1. PICK m \in S : \A n \in S : m <= n
  <2>1. S \in SUBSET (0..N)
    OBVIOUS
  <2> HIDE DEF S
  <2> QED
    BY <1>0, <2>1, FirstExists
<1>2. m \in 0..N /\ ~\E f : Joins(f, m)
  BY <1>1
<1>3. m # 0
  <2> SUFFICES ASSUME m = 0 PROVE FALSE
    OBVIOUS
  <2> DEFINE g == [k \in 0..0 |-> <<>>]
  <2>1. g = [k \in 0..0 |-> IF k = 0 THEN <<>> ELSE g[k - 1] \o part[k]]
    <3>1. \A k \in 0..0 : k = 0
      OBVIOUS
    <3> QED
      BY <3>1
  <2> QED
    BY <1>2, <2>1
<1>4. m - 1 \in 0..N /\ ~(m <= m - 1)
  BY <1>2, <1>3
<1>5. PICK f : Joins(f, m - 1)
  BY <1>1, <1>4
<1> DEFINE g == [k \in 0..m |-> IF k = m THEN f[m - 1] \o part[m] ELSE f[k]]
<1>6. \A k \in 0..m : g[k] = IF k = 0 THEN <<>> ELSE g[k - 1] \o part[k]
  <2> SUFFICES ASSUME NEW k \in 0..m
               PROVE  g[k] = IF k = 0 THEN <<>> ELSE g[k - 1] \o part[k]
    OBVIOUS
  <2>1. CASE k = m
    <3>1. m - 1 \in 0..m /\ m - 1 # m /\ m \in 0..m
      BY <1>2, <1>3
    <3>2. g[m - 1] = f[m - 1] /\ g[m] = f[m - 1] \o part[m]
      BY <3>1
    <3> HIDE DEF g
    <3> QED
      BY <1>3, <2>1, <3>2
  <2>2. CASE k # m
    <3>1. k \in 0..(m - 1) /\ (k # 0 => k - 1 \in 0..m /\ k - 1 # m)
      BY <1>2, <2>2
    <3>2. f[k] = IF k = 0 THEN <<>> ELSE f[k - 1] \o part[k]
      BY <1>5, <3>1
    <3>3. g[k] = f[k] /\ (k # 0 => g[k - 1] = f[k - 1])
      BY <2>2, <3>1
    <3> HIDE DEF g
    <3> QED
      BY <3>2, <3>3
  <2> QED
    BY <2>1, <2>2
<1>7. Joins(g, m)
  <2>1. g = [k \in 0..m |-> g[k]]
    OBVIOUS
  <2> HIDE DEF g
  <2> QED
    BY <1>6, <2>1
<1> QED
  BY <1>2, <1>7

LEMMA JoinType ==
  ASSUME NEW N \in Nat, NEW T, NEW part \in [1..N -> Seq(T)], NEW f,
         f = [k \in 0..N |-> IF k = 0 THEN <<>> ELSE f[k - 1] \o part[k]]
  PROVE  f[N] \in Seq(T)
<1> DEFINE S == {n \in 0..N : f[n] \notin Seq(T)}
<1> SUFFICES ASSUME N \in S PROVE FALSE
  OBVIOUS
<1>1. PICK m \in S : \A n \in S : m <= n
  <2>1. S \in SUBSET (0..N)
    OBVIOUS
  <2> HIDE DEF S
  <2> QED
    BY <2>1, FirstExists
<1>2. m \in 0..N /\ f[m] \notin Seq(T)
  BY <1>1
<1>3. \A k \in 0..N : f[k] = IF k = 0 THEN <<>> ELSE f[k - 1] \o part[k]
  OBVIOUS
<1>4. m # 0
  BY <1>2, <1>3
<1>5. m - 1 \in 0..N /\ ~(m <= m - 1) /\ m \in 1..N
  BY <1>2, <1>4
<1>6. f[m - 1] \in Seq(T) /\ part[m] \in Seq(T)
  BY <1>1, <1>5
<1>7. f[m] = f[m - 1] \o part[m]
  BY <1>2, <1>3, <1>4
<1>8. f[m - 1] \o part[m] \in Seq(T)
  BY <1>6, ConcatProperties
<1> QED
  BY <1>2, <1>7, <1>8

LEMMA AllTestsType ==
  ASSUME ReadInv PROVE IsSeq(AllTests) /\ \A k \in DOMAIN AllTests : AllTests[k].case \in Cases
<1> DEFINE N == Len(suites)
           T == [suite : Nat, case : Cases]
           part == [k \in 1..N |-> [n \in 1..Len(Content(suites[k])) |->
                      [suite |-> k, case |-> Content(suites[k])[n]]]]
           Joins(f) == f = [k \in 0..N |-> IF k = 0 THEN <<>> ELSE f[k - 1] \o part[k]]
<1>1. N \in Nat /\ \A k \in 1..N : suites[k] \in Sources
  BY LenProperties, ElementOfSeq DEF ReadInv
<1>2. part \in [1..N -> Seq(T)]
  <2> SUFFICES ASSUME NEW k \in 1..N
               PROVE  [n \in 1..Len(Content(suites[k])) |->
                         [suite |-> k, case |-> Content(suites[k])[n]]] \in Seq(T)
    OBVIOUS
  <2> DEFINE c == Content(suites[k])
  <2>1. c \in Seq(Cases)
    BY <1>1, ApplicationAssumption DEF Sources
  <2> HIDE DEF c
  <2>2. Len(c) \in Nat /\ \A n \in 1..Len(c) : c[n] \in Cases
    BY <2>1, LenProperties, ElementOfSeq
  <2>3. \A n \in 1..Len(c) : [suite |-> k, case |-> c[n]] \in T
    BY <2>2
  <2> HIDE DEF T
  <2>4. [n \in 1..Len(c) |-> [suite |-> k, case |-> c[n]]] \in Seq(T)
    BY <2>2, <2>3, IsASeq
  <2> QED
    BY <2>4 DEF c
<1>3. \E f : Joins(f)
  <2> HIDE DEF part, N
  <2> QED
    BY <1>1, JoinExists
<1>4. PICK f : Joins(f) /\ AllTests = f[N]
  <2> DEFINE Steps(f) ==
               f = [k \in 0..Len(suites) |->
                      IF k = 0 THEN <<>>
                      ELSE f[k - 1] \o [n \in 1..Len(Content(suites[k])) |->
                                          [suite |-> k, case |-> Content(suites[k])[n]]]]
             h == CHOOSE f : Steps(f)
  <2>0. \A f : Joins(f) <=> Steps(f)
    <3> SUFFICES ASSUME NEW f PROVE Joins(f) <=> Steps(f)
      OBVIOUS
    <3>1. \A k \in 0..N : k # 0 =>
            part[k] = [n \in 1..Len(Content(suites[k])) |->
                         [suite |-> k, case |-> Content(suites[k])[n]]]
      <4>1. \A k \in 0..N : k # 0 => k \in 1..N
        BY <1>1
      <4> QED
        BY <4>1
    <3> HIDE DEF part
    <3> QED
      BY <3>1
  <2>1. Joins(h)
    <3>1. Steps(h)
      <4>1. \E f : Steps(f)
        <5> HIDE DEF Steps, Joins
        <5> QED
          BY <1>3, <2>0
      <4> HIDE DEF Steps
      <4> QED
        BY <4>1
    <3> HIDE DEF Steps, Joins, h
    <3> QED
      BY <2>0, <3>1
  <2>2. AllTests = h[N]
    BY DEF AllTests
  <2> HIDE DEF h, Joins
  <2> QED
    BY <2>1, <2>2
<1>5. AllTests \in Seq(T)
  <2> HIDE DEF part, N, T
  <2> QED
    BY <1>1, <1>2, <1>4, JoinType
<1>6. \A k \in DOMAIN AllTests : AllTests[k] \in T
  <2> HIDE DEF T
  <2>1. DOMAIN AllTests = 1..Len(AllTests)
    BY <1>5, LenProperties
  <2> QED
    BY <1>5, <2>1, ElementOfSeq
<1>7. IsSeq(AllTests)
  <2> HIDE DEF T
  <2> QED
    BY <1>5, SeqHasItsElements
<1> QED
  BY <1>6, <1>7

LEMMA EmptyIsQuiet == Quiet(<<>>)
<1>1. <<>> \in Seq({<<>>[k] : k \in DOMAIN <<>>})
  BY EmptySeq
<1>2. DOMAIN <<>> = {}
  OBVIOUS
<1> QED
  BY <1>1, <1>2 DEF Quiet, IsSeq

LEMMA OneItem ==
  ASSUME NEW x
  PROVE  IsSeq(<<x>>) /\ Len(<<x>>) = 1 /\ DOMAIN <<x>> = {1} /\ <<x>>[1] = x
<1>1. <<x>> \in Seq({x}) /\ Len(<<x>>) = 1 /\ <<x>>[1] = x /\ DOMAIN <<x>> = {1}
  OBVIOUS
<1> QED
  BY <1>1, SeqHasItsElements

LEMMA TwoItems ==
  ASSUME NEW x, NEW y
  PROVE  IsSeq(<<x, y>>) /\ Len(<<x, y>>) = 2 /\ DOMAIN <<x, y>> = {1, 2}
         /\ <<x, y>>[1] = x /\ <<x, y>>[2] = y
<1>1. /\ <<x, y>> \in Seq({x, y}) /\ Len(<<x, y>>) = 2
      /\ <<x, y>>[1] = x /\ <<x, y>>[2] = y /\ DOMAIN <<x, y>> = {1, 2}
  OBVIOUS
<1> QED
  BY <1>1, SeqHasItsElements

LEMMA OneIsQuiet ==
  ASSUME NEW x, ~TellsOfBad(x) PROVE Quiet(<<x>>)
<1> HIDE DEF TellsOfBad
<1> QED
  BY OneItem DEF Quiet

LEMMA TwoAreQuiet ==
  ASSUME NEW x, NEW y, ~TellsOfBad(x), ~TellsOfBad(y) PROVE Quiet(<<x, y>>)
<1> HIDE DEF TellsOfBad
<1> QED
  BY TwoItems DEF Quiet

LEMMA ItemFields ==
  ASSUME NEW kind, NEW text, NEW n
  PROVE  Item(kind, text, n).kind = kind /\ Item(kind, text, n).text = text
BY DEF Item

LEMMA OtherKinds ==
  ASSUME NEW kind, NEW text, NEW n, kind # "number", kind # "test"
  PROVE  ~TellsOfBad(Item(kind, text, n))
BY ItemFields DEF TellsOfBad

LEMMA IfIsQuiet ==
  ASSUME NEW condition, NEW item, ~TellsOfBad(item)
  PROVE  Quiet(If(condition, item))
BY OneIsQuiet, EmptyIsQuiet DEF If

LEMMA CauseExplains ==
  ASSUME NEW item, TellsCause(item), ~TellsOfBad(item) PROVE Explains(<<item>>)
<1>1. Quiet(<<item>>) /\ Len(<<item>>) = 1 /\ <<item>>[1] = item
  BY OneIsQuiet, OneItem
<1> QED
  BY <1>1 DEF Explains, TellsWhy

LEMMA ConcatThree ==
  ASSUME NEW s, NEW t, NEW u, IsSeq(s), IsSeq(t), IsSeq(u)
  PROVE  (s \o t) \o u = s \o (t \o u)
<1> DEFINE A == {s[k] : k \in DOMAIN s}
           B == {t[k] : k \in DOMAIN t}
           C == {u[k] : k \in DOMAIN u}
           S == (A \cup B) \cup C
<1>1. s \in Seq(A) /\ t \in Seq(B) /\ u \in Seq(C)
  BY DEF IsSeq
<1>2. A \subseteq S /\ B \subseteq S /\ C \subseteq S
  OBVIOUS
<1> HIDE DEF A, B, C, S
<1>3. s \in Seq(S) /\ t \in Seq(S) /\ u \in Seq(S)
  BY <1>1, <1>2, SeqMonotonic
<1> QED
  BY <1>3, ConcatAssociative

LEMMA EmptyConcat ==
  ASSUME NEW s, IsSeq(s) PROVE <<>> \o s = s /\ s \o <<>> = s
BY ConcatEmptySeq DEF IsSeq

LEMMA AppendIsTelling ==
  ASSUME NEW s, NEW x, IsSeq(s) PROVE Append(s, x) = s \o <<x>>
<1> DEFINE A == {s[k] : k \in DOMAIN s}
           S == A \cup {x}
<1>1. s \in Seq(A)
  BY DEF IsSeq
<1>2. A \subseteq S /\ x \in S
  OBVIOUS
<1> HIDE DEF A, S
<1>3. s \in Seq(S)
  BY <1>1, <1>2, SeqMonotonic
<1> QED
  BY <1>2, <1>3, AppendIsConcat

\* Append adds one element and leaves the others.
LEMMA Appended ==
  ASSUME NEW s, NEW x, IsSeq(s)
  PROVE  /\ IsSeq(Append(s, x))
         /\ \A k \in DOMAIN Append(s, x) : (k \in DOMAIN s /\ Append(s, x)[k] = s[k]) \/ Append(s, x)[k] = x
<1>1. IsSeq(<<x>>) /\ Len(<<x>>) = 1 /\ <<x>>[1] = x
  BY OneItem
<1>2. /\ IsSeq(s \o <<x>>) /\ Len(s) \in Nat /\ DOMAIN s = 1..Len(s)
      /\ DOMAIN (s \o <<x>>) = 1..(Len(s) + 1)
      /\ \A k \in 1..Len(s) : (s \o <<x>>)[k] = s[k]
      /\ \A k \in 1..1 : (s \o <<x>>)[Len(s) + k] = <<x>>[k]
  <2> DEFINE t == <<x>>
  <2> HIDE DEF t
  <2>1. IsSeq(t) /\ Len(t) = 1
    BY <1>1 DEF t
  <2>2. /\ IsSeq(s \o t) /\ Len(s) \in Nat /\ DOMAIN s = 1..Len(s)
        /\ DOMAIN (s \o t) = 1..(Len(s) + Len(t))
        /\ \A k \in 1..Len(s) : (s \o t)[k] = s[k]
        /\ \A k \in 1..Len(t) : (s \o t)[Len(s) + k] = t[k]
    BY <2>1, ConcatFacts
  <2> QED
    BY <2>1, <2>2 DEF t
<1>3. Append(s, x) = s \o <<x>>
  BY AppendIsTelling
<1> DEFINE u == s \o <<x>>
<1>4. ASSUME NEW k \in DOMAIN u PROVE (k \in DOMAIN s /\ u[k] = s[k]) \/ u[k] = x
  <2>1. k \in 1..Len(s) \/ k = Len(s) + 1
    BY <1>2
  <2>2. 1 \in 1..1
    OBVIOUS
  <2>3. u[Len(s) + 1] = x
    BY <1>1, <1>2, <2>2
  <2> HIDE DEF u
  <2>4. \A l \in 1..Len(s) : u[l] = s[l]
    BY <1>2 DEF u
  <2> QED
    BY <1>2, <2>1, <2>3, <2>4
<1> QED
  BY <1>2, <1>3, <1>4

LEMMA ErrorExplains ==
  ASSUME NEW r
  PROVE  Quiet(Error(r)) /\ Quiet(Stderr(r)) /\ (r.error # "NONE" => Explains(Error(r)))
<1> DEFINE e == Item("error", r.error, 0)
           o == Item("stderr", "", 0)
<1>1. ~TellsOfBad(e) /\ ~TellsOfBad(o) /\ TellsCause(e)
  <2>1. ~TellsOfBad(e)
    BY OtherKinds
  <2>2. ~TellsOfBad(o)
    BY OtherKinds
  <2>3. TellsCause(e)
    BY ItemFields DEF TellsCause
  <2> QED
    BY <2>1, <2>2, <2>3
<1> HIDE DEF e, o
<1>2. Quiet(Error(r)) /\ Quiet(Stderr(r))
  BY <1>1, IfIsQuiet DEF Error, Stderr, e, o
<1>3. r.error # "NONE" => Explains(Error(r))
  <2> SUFFICES ASSUME r.error # "NONE" PROVE Explains(<<e>>)
    BY DEF Error, If, e
  <2> QED
    BY <1>1, CauseExplains
<1> QED
  BY <1>2, <1>3

LEMMA DiffExplains ==
  ASSUME NEW r, NEW s
  PROVE  /\ Quiet(DiffOf(r, s)) /\ (s \in r.diffs => Explains(DiffOf(r, s)))
         /\ (s \notin r.diffs => DiffOf(r, s) = <<>>)
<1> DEFINE l == Item("label", s, 0)
           d == Item("diff", s, 0)
           two == Cardinality(r.diffs) = 2
<1>1. ~TellsOfBad(l) /\ ~TellsOfBad(d) /\ TellsCause(l) /\ TellsCause(d)
  BY OtherKinds, ItemFields DEF TellsCause
<1>2. DiffOf(r, s) = IF s \in r.diffs THEN If(two, l) \o <<d>> ELSE <<>>
  BY DEF DiffOf
<1> HIDE DEF l, d, two
<1>3. Explains(<<l>>) /\ Explains(<<d>>) /\ Quiet(<<d>>)
  BY <1>1, CauseExplains DEF Explains
<1>4. Explains(If(two, l) \o <<d>>)
  <2>1. CASE two
    <3>1. If(two, l) = <<l>>
      BY <2>1 DEF If
    <3>2. Explains(<<l>> \o <<d>>)
      BY <1>3, ExplainsConcat
    <3> QED
      BY <3>1, <3>2
  <2>2. CASE ~two
    <3>1. If(two, l) = <<>>
      BY <2>2 DEF If
    <3>2. <<>> \o <<d>> = <<d>>
      BY <1>3, EmptyConcat DEF Quiet
    <3> QED
      BY <1>3, <3>1, <3>2
  <2> QED
    BY <2>1, <2>2
<1>5. Quiet(<<>>)
  BY EmptyIsQuiet
<1> HIDE DEF Explains
<1>6. Quiet(If(two, l) \o <<d>>)
  BY <1>4 DEF Explains
<1> QED
  BY <1>2, <1>4, <1>5, <1>6

LEMMA ExitItems ==
  ASSUME NEW n PROVE TellsExit(Item("exit code", "", n), Item("stderr", "", 0))
<1> DEFINE c == Item("exit code", "", n)
           m == Item("stderr", "", 0)
<1>1. c.kind = "exit code"
  BY DEF Item
<1>2. m.kind = "stderr"
  BY DEF Item
<1> HIDE DEF c, m
<1> QED
  BY <1>1, <1>2 DEF TellsExit, c, m

LEMMA ExitExplains ==
  ASSUME NEW c, NEW m, TellsExit(c, m)
  PROVE  TellsWhy(<<c>> \o <<m>>, 1)
<1> DEFINE s == <<c>>
           t == <<m>>
           u == s \o t
<1>1. IsSeq(s) /\ IsSeq(t) /\ Len(s) = 1 /\ Len(t) = 1 /\ s[1] = c /\ t[1] = m
  BY OneItem
<1>0. IsSeq(s) /\ IsSeq(t)
  BY <1>1
<1> HIDE DEF s, t
<1>2. /\ Len(s \o t) = Len(s) + Len(t)
      /\ \A k \in 1..Len(s) : (s \o t)[k] = s[k]
      /\ \A k \in 1..Len(t) : (s \o t)[Len(s) + k] = t[k]
  BY <1>0, ConcatFacts
<1>3. 1 <= Len(u) /\ 1 + 1 <= Len(u) /\ u[1] = c /\ u[1 + 1] = m
  <2>1. 1 \in 1..Len(s) /\ 1 \in 1..Len(t)
    BY <1>1
  <2>2. (s \o t)[1] = s[1] /\ (s \o t)[Len(s) + 1] = t[1]
    BY <1>2, <2>1
  <2>3. Len(s \o t) = 1 + 1
    BY <1>1, <1>2
  <2> QED
    BY <1>1, <2>2, <2>3
<1> HIDE DEF u
<1>4. TellsExit(u[1], u[1 + 1])
  BY <1>3
<1>5. TellsWhy(u, 1)
  BY <1>3, <1>4, Zenon DEF TellsWhy
<1> QED
  BY <1>5 DEF s, t, u

LEMMA FailureExplains ==
  ASSUME NEW r
  PROVE  /\ Quiet(Failure(r))
         /\ r.diffs \cap Streams # {} => Explains(Failure(r))
         /\ r.exit # 0 /\ r.noisy /\ "err" \notin r.expects => Explains(Failure(r))
<1> DEFINE o == DiffOf(r, "out")
           e == DiffOf(r, "err")
           c == Item("exit code", "", r.exit)
           x == If(r.exit # 0, c)
           n == Stderr(r)
<1>1. /\ Quiet(o) /\ ("out" \in r.diffs => Explains(o)) /\ ("out" \notin r.diffs => o = <<>>)
      /\ Quiet(e) /\ ("err" \in r.diffs => Explains(e)) /\ ("err" \notin r.diffs => e = <<>>)
  BY DiffExplains
<1>2. ~TellsOfBad(c) /\ c.kind = "exit code"
  BY OtherKinds, ItemFields
<1>3. Quiet(x) /\ Quiet(n)
  <2> HIDE DEF c
  <2> QED
    BY <1>2, IfIsQuiet, ErrorExplains
<1>4. Failure(r) = ((o \o e) \o x) \o n
  BY DEF Failure
<1>5. ASSUME r.exit # 0, r.noisy, "err" \notin r.expects
      PROVE  Explains(x \o n)
  <2> DEFINE m == Item("stderr", "", 0)
  <2>1. TellsExit(c, m)
    BY ExitItems
  <2> HIDE DEF m, c
  <2>2. x = <<c>>
    BY <1>5 DEF If
  <2>3. n = <<m>>
    BY <1>5 DEF If, Stderr, m
  <2> HIDE DEF x, n
  <2>4. TellsWhy(<<c>> \o <<m>>, 1)
    BY <2>1, ExitExplains
  <2>5. Quiet(x \o n)
    BY <1>3, QuietConcat
  <2> QED
    BY <2>2, <2>3, <2>4, <2>5 DEF Explains
<1> HIDE DEF o, e, c, x, n
<1>6. Quiet(o \o e) /\ Quiet((o \o e) \o x) /\ Quiet(((o \o e) \o x) \o n)
  BY <1>1, <1>3, QuietConcat
<1>7. ASSUME Explains(o \o e) PROVE Explains(Failure(r))
  BY <1>3, <1>4, <1>7, ExplainsConcat
<1>8. CASE "out" \in r.diffs
  <2>1. Explains(o \o e)
    BY <1>1, <1>8, ExplainsConcat
  <2> QED
    BY <1>4, <1>6, <1>7, <2>1
<1>9. CASE "out" \notin r.diffs /\ "err" \in r.diffs
  <2>1. o \o e = e
    BY <1>1, <1>9, EmptyConcat DEF Quiet
  <2>2. Explains(o \o e)
    BY <1>1, <1>9, <2>1
  <2> QED
    BY <1>4, <1>6, <1>7, <2>2
<1>10. CASE "out" \notin r.diffs /\ "err" \notin r.diffs
  <2>1. r.diffs \cap Streams = {}
    BY <1>10 DEF Streams
  <2>2. (o \o e) \o x = x
    <3>1. o \o e = <<>>
      BY <1>1, <1>10, EmptyConcat DEF Quiet
    <3> QED
      BY <1>3, <3>1, EmptyConcat DEF Quiet
  <2> QED
    BY <1>4, <1>5, <1>6, <2>1, <2>2
<1> QED
  BY <1>8, <1>9, <1>10

\* A result comes with what explains it: an error with its code, a failure with a
\* stream that differs or with an exit code and a stderr that nobody expected.
LEMMA ResultIsSupported ==
  ASSUME NEW c \in Cases PROVE Supported(Result(c))
<1> DEFINE status ==
             CASE c.flag # "run" -> c.flag
               [] c.flag = "run" /\ c.error # "NONE" -> "ERROR"
               [] c.flag = "run" /\ c.error = "NONE" ->
                    IF c.wrong # {} \/ Unexpected(c) THEN "FAILURE" ELSE "PASS"
<1>1. /\ Result(c).status = status /\ Result(c).error = c.error
      /\ Result(c).expects = c.expects /\ Result(c).exit = c.exit /\ Result(c).noisy = c.noisy
      /\ Result(c).diffs = IF status = "FAILURE" THEN c.wrong ELSE {}
  BY DEF Result
<1>2. c.flag \in {"run", "SKIPPED", "INCOMPLETE"} /\ c.wrong \subseteq Streams
  BY DEF Cases
<1>3. status = "ERROR" => c.error # "NONE"
  <2>1. CASE c.flag # "run"
    BY <1>2, <2>1
  <2>2. CASE c.flag = "run" /\ c.error # "NONE"
    BY <2>2
  <2>3. CASE c.flag = "run" /\ c.error = "NONE"
    BY <2>3
  <2> QED
    BY <2>1, <2>2, <2>3
<1>4. status = "FAILURE" => c.wrong # {} \/ Unexpected(c)
  <2>1. CASE c.flag # "run"
    BY <1>2, <2>1
  <2>2. CASE c.flag = "run" /\ c.error # "NONE"
    BY <2>2
  <2>3. CASE c.flag = "run" /\ c.error = "NONE"
    BY <2>3
  <2> QED
    BY <2>1, <2>2, <2>3
<1> HIDE DEF status
<1>5. c.wrong # {} => c.wrong \cap Streams # {}
  BY <1>2
<1> QED
  BY <1>1, <1>3, <1>4, <1>5 DEF Supported, Unexpected

LEMMA TellsOfTests ==
  ASSUME NEW kind, NEW text, NEW n
  PROVE  kind # "number" /\ (kind = "test" => text \notin Bad) => ~TellsOfBad(Item(kind, text, n))
BY ItemFields DEF TellsOfBad

\* What tells of a test, and then why: VisitInDetail, and the lists at the end.
LEMMA VisitIsExplained ==
  ASSUME NEW r, Supported(r), NEW k
  PROVE  Explained(<<Item("test", r.status, k)>> \o
                     (CASE r.status = "ERROR" -> Error(r)
                        [] r.status = "FAILURE" -> Failure(r)
                        [] OTHER -> <<>>))
<1> DEFINE i == Item("test", r.status, k)
           why == CASE r.status = "ERROR" -> Error(r)
                    [] r.status = "FAILURE" -> Failure(r)
                    [] OTHER -> <<>>
<1>1. IsSeq(<<i>>) /\ \A l \in 1..(Len(<<i>>) - 1) : ~TellsOfBad(<<i>>[l])
  <2> HIDE DEF i, TellsOfBad
  <2> QED
    BY OneItem
<1>2. CASE r.status \in Bad
  <2>1. Explains(why)
    <3>1. CASE r.status = "ERROR"
      <4>1. why = Error(r)
        BY <3>1
      <4> QED
        BY <3>1, <4>1, ErrorExplains DEF Supported
    <3>2. CASE r.status = "FAILURE"
      <4>1. why = Failure(r)
        BY <3>2
      <4> QED
        BY <3>2, <4>1, FailureExplains DEF Supported
    <3> QED
      BY <1>2, <3>1, <3>2 DEF Bad
  <2> HIDE DEF i, why
  <2> QED
    BY <1>1, <2>1, ExplainedByNext DEF i, why
<1>3. CASE r.status \notin Bad
  <2>1. why = <<>>
    BY <1>3 DEF Bad
  <2>2. ~TellsOfBad(i)
    BY <1>3, TellsOfTests
  <2> HIDE DEF i, why
  <2>3. Quiet(<<i>>)
    BY <2>2, OneIsQuiet
  <2>4. <<i>> \o why = <<i>>
    BY <1>1, <2>1, EmptyConcat
  <2> QED
    BY <2>3, <2>4, QuietIsExplained DEF i, why
<1> QED
  BY <1>2, <1>3

LEMMA EntryIsExplained ==
  ASSUME NEW r, Supported(r), NEW k, NEW n, r.status \in Bad
  PROVE  Explained(<<Item("entry", r.status, k), Item("number", "", n)>> \o
                     (IF r.status = "ERROR" THEN Error(r) \o Stderr(r) ELSE Failure(r)))
<1> DEFINE e == Item("entry", r.status, k)
           i == Item("number", "", n)
           why == IF r.status = "ERROR" THEN Error(r) \o Stderr(r) ELSE Failure(r)
<1>1. IsSeq(<<e, i>>) /\ \A l \in 1..(Len(<<e, i>>) - 1) : ~TellsOfBad(<<e, i>>[l])
  <2>1. ~TellsOfBad(e)
    BY OtherKinds
  <2> HIDE DEF e, i, TellsOfBad
  <2>2. IsSeq(<<e, i>>) /\ Len(<<e, i>>) = 2 /\ <<e, i>>[1] = e
    BY TwoItems
  <2> DEFINE u == <<e, i>>
  <2> HIDE DEF u
  <2>3. IsSeq(u) /\ Len(u) = 2 /\ ~TellsOfBad(u[1])
    BY <2>1, <2>2 DEF u
  <2>4. \A l \in 1..(Len(u) - 1) : l = 1
    BY <2>3
  <2> QED
    BY <2>3, <2>4 DEF u
<1>2. Explains(why)
  <2>1. CASE r.status = "ERROR"
    <3>1. Explains(Error(r)) /\ Quiet(Stderr(r))
      BY <2>1, ErrorExplains DEF Supported
    <3>2. Explains(Error(r) \o Stderr(r))
      BY <3>1, ExplainsConcat
    <3> QED
      BY <2>1, <3>2
  <2>2. CASE r.status = "FAILURE"
    <3>1. why = Failure(r)
      BY <2>2
    <3> QED
      BY <2>2, <3>1, FailureExplains DEF Supported
  <2> QED
    BY <2>1, <2>2 DEF Bad
<1> HIDE DEF e, i, why
<1> QED
  BY <1>1, <1>2, ExplainedByNext DEF e, i, why

\* A report that is explained may go on with what is.
LEMMA GoesOn ==
  ASSUME NEW s, NEW t, Explained(s), Quiet(t) PROVE Explained(s \o t)
BY QuietIsExplained, ExplainedConcat

LEMMA GoesOnWith ==
  ASSUME NEW s, NEW t, NEW u, IsSeq(t), IsSeq(u), Explained(s), Explained(t \o u)
  PROVE  Explained((s \o t) \o u)
<1>1. (s \o t) \o u = s \o (t \o u)
  <2>1. IsSeq(s)
    BY DEF Explained
  <2> HIDE DEF Explained
  <2> QED
    BY <2>1, ConcatThree
<1> QED
  BY <1>1, ExplainedConcat

LEMMA WhyIsSeq ==
  ASSUME NEW r
  PROVE  /\ IsSeq(CASE r.status = "ERROR" -> Error(r)
                    [] r.status = "FAILURE" -> Failure(r)
                    [] OTHER -> <<>>)
         /\ IsSeq(IF r.status = "ERROR" THEN Error(r) \o Stderr(r) ELSE Failure(r))
<1>1. IsSeq(Error(r)) /\ IsSeq(Stderr(r)) /\ IsSeq(Failure(r)) /\ IsSeq(<<>>)
  BY ErrorExplains, FailureExplains, EmptyIsQuiet DEF Quiet
<1>2. IsSeq(Error(r) \o Stderr(r))
  BY <1>1, ConcatFacts
<1>3. CASE r.status = "ERROR"
  BY <1>1, <1>2, <1>3
<1>4. CASE r.status = "FAILURE"
  BY <1>1, <1>2, <1>4
<1>5. CASE r.status # "ERROR" /\ r.status # "FAILURE"
  BY <1>1, <1>2, <1>5
<1> QED
  BY <1>3, <1>4, <1>5

LEMMA SummaryIsQuiet ==
  Quiet(SummaryLine) /\ Quiet(FinalSummary)
<1> DEFINE names == <<"PASS", "SKIPPED", "ERROR", "FAILURE", "INCOMPLETE">>
           item(k) == Item("count", names[k], counts[names[k]])
           items == {item(k) : k \in 1..5}
<1>1. \A k \in 1..5 : ~TellsOfBad(item(k))
  BY OtherKinds
<1>2. SummaryLine = [k \in 1..5 |-> item(k)]
  BY DEF SummaryLine
<1> HIDE DEF item
<1>3. \A k \in 1..5 : item(k) \in items
  OBVIOUS
<1>4. [k \in 1..5 |-> item(k)] \in Seq(items)
  <2> HIDE DEF items
  <2> QED
    BY <1>3, IsASeq
<1>5. Quiet(SummaryLine)
  <2>1. IsSeq(SummaryLine)
    <3> HIDE DEF items
    <3> QED
      BY <1>2, <1>4, SeqHasItsElements
  <2>2. \A k \in DOMAIN SummaryLine : ~TellsOfBad(SummaryLine[k])
    BY <1>1, <1>2
  <2> QED
    BY <2>1, <2>2 DEF Quiet
<1> DEFINE t == Item("time", "", 0)
           h == Item("headline", Headline, 0)
<1>6. ~TellsOfBad(t)
  BY OtherKinds
<1>7. ~TellsOfBad(h)
  BY OtherKinds
<1>8. FinalSummary = <<t, h>> \o SummaryLine
  BY DEF FinalSummary
<1> HIDE DEF t, h
<1>9. Quiet(<<t, h>> \o SummaryLine)
  BY <1>5, <1>6, <1>7, TwoAreQuiet, QuietConcat
<1> QED
  BY <1>5, <1>8, <1>9

LEMMA NextRead == ReadInv /\ [Next]_vars => ReadInv'
<1> SUFFICES ASSUME ReadInv, [Next]_vars PROVE ReadInv'
  OBVIOUS
<1>1. CASE Fetching
  <2>1. UNCHANGED suites
    BY <1>1 DEF Fetching, mainVars
  <2>2. FetchSources => UNCHANGED disk
    BY DEF FetchSources, SkipOption, NotThere, EnterDirectory, FetchNamed, ArgumentsDone,
           OpenDirectory, CannotOpen, ReadEntry, CloseDirectory, DirectoryDone, Fails, Overruns,
           tree
  <2> QED
    BY <1>1, <2>1, <2>2 DEF Fetching, ReadInv
<1>2. CASE ReadSuite
  <2>1. UNCHANGED disk /\ disk \in Disks
    BY <1>2 DEF ReadSuite, searchVars, ReadInv
  <2>2. suites' = suites \/ \E p : Exists(p) /\ suites' = Append(suites, p)
    BY <1>2 DEF ReadSuite
  <2>3. ASSUME NEW p, Exists(p), suites' = Append(suites, p) PROVE suites' \in Seq(Sources)
    <3>1. p \in Sources
      BY <2>1, <2>3 DEF Exists, Sources
    <3>2. Append(suites, p) \in Seq(Sources)
      BY <3>1, AppendProperties DEF ReadInv
    <3> QED
      BY <2>3, <3>2
  <2> QED
    BY <2>1, <2>2, <2>3 DEF ReadInv
<1>3. UNCHANGED <<disk, suites>> => ReadInv'
  BY DEF ReadInv
<1>4. CASE FileVanishes
  BY <1>3, <1>4 DEF FileVanishes, Vanish, mainVars
<1>5. CASE UNCHANGED vars
  BY <1>3, <1>5 DEF vars, searchVars, mainVars
<1>6. CASE ParseOption \/ UnknownOption \/ PassPath \/ OptionsParsed
  BY <1>3, <1>6 DEF ParseOption, UnknownOption, PassPath, OptionsParsed, searchVars
<1>7. CASE ShowText \/ Start \/ FetchEnds \/ NoTests \/ BeginTests
  BY <1>3, <1>7 DEF ShowText, Start, FetchEnds, NoTests, BeginTests, searchVars
<1>8. CASE RunTests \/ Finish \/ RunnerDies
  BY <1>3, <1>8 DEF RunTests, Finish, RunnerDies, searchVars, mainVars
<1> QED
  BY <1>1, <1>2, <1>4, <1>5, <1>6, <1>7, <1>8 DEF Next, Step

\* The result of the next test is supported, and joins the others.
LEMMA VisitKeepsResults ==
  ASSUME ResultsInv, Visiting, Visit(Result(tests[Len(results) + 1].case)),
         UNCHANGED <<tests, next>>
  PROVE  ResultsInv' /\ Supported(Result(tests[Len(results) + 1].case))
<1> DEFINE k == Len(results) + 1
           r == Result(tests[k].case)
<1>1. k \in DOMAIN tests
  <2>1. IsSeq(tests) /\ IsSeq(results) /\ Len(results) < Len(tests)
    BY DEF ResultsInv, Visiting
  <2>2. Len(tests) \in Nat /\ Len(results) \in Nat /\ DOMAIN tests = 1..Len(tests)
    BY <2>1, ConcatFacts
  <2> QED
    BY <2>1, <2>2
<1>2. tests[k].case \in Cases
  BY <1>1 DEF ResultsInv
<1>3. Supported(r)
  BY <1>2, ResultIsSupported
<1>4. results' = Append(results, r)
  BY DEF Visit
<1> HIDE DEF r
<1>5. IsSeq(results') /\ \A l \in DOMAIN results' : Supported(results'[l])
  <2>1. /\ IsSeq(Append(results, r))
        /\ \A l \in DOMAIN Append(results, r) :
             (l \in DOMAIN results /\ Append(results, r)[l] = results[l]) \/ Append(results, r)[l] = r
    BY Appended DEF ResultsInv
  <2>2. \A l \in DOMAIN results : Supported(results[l])
    BY DEF ResultsInv
  <2> HIDE DEF Supported
  <2>3. \A l \in DOMAIN Append(results, r) : Supported(Append(results, r)[l])
    BY <1>3, <2>1, <2>2
  <2> QED
    BY <1>4, <2>1, <2>3
<1> QED
  BY <1>3, <1>5 DEF ResultsInv, r

LEMMA NextResults == ReadInv /\ ResultsInv /\ [Next]_vars => ResultsInv'
<1> SUFFICES ASSUME ReadInv, ResultsInv, [Next]_vars PROVE ResultsInv'
  OBVIOUS
<1>1. UNCHANGED <<tests, results, next>> => ResultsInv'
  BY DEF ResultsInv
<1>2. CASE BeginTests
  <2>1. tests' = AllTests /\ UNCHANGED <<results, next>>
    BY <1>2 DEF BeginTests
  <2>2. IsSeq(AllTests) /\ \A k \in DOMAIN AllTests : AllTests[k].case \in Cases
    BY AllTestsType
  <2> QED
    BY <2>1, <2>2 DEF ResultsInv
<1>3. CASE RunTests
  <2>1. RunSuites(mode = "detail", "--no-summary" \in flags)
    BY <1>3 DEF RunTests
  <2>2. CASE VisitInDetail \/ VisitInPassthrough
    <3>1. /\ Visiting /\ Visit(Result(tests[Len(results) + 1].case))
          /\ UNCHANGED <<tests, next>>
      BY <2>2 DEF VisitInDetail, VisitInPassthrough
    <3> QED
      BY <3>1, VisitKeepsResults
  <2>3. CASE BeginList \/ ListNext
    <3>1. UNCHANGED <<tests, results>> /\ (next' = 1 \/ next' = next + 1)
      BY <2>3 DEF BeginList, ListNext
    <3>2. next' \in Nat \ {0}
      BY <3>1 DEF ResultsInv
    <3> QED
      BY <3>1, <3>2 DEF ResultsInv
  <2>4. CASE EndDetail \/ EndPassthrough \/ EndList
    BY <1>1, <2>4 DEF EndDetail, EndPassthrough, EndList
  <2>5. CASE Summary(mode = "detail", "--no-summary" \in flags)
    BY <1>1, <2>5 DEF Summary
  <2> QED
    BY <2>1, <2>2, <2>3, <2>4, <2>5 DEF RunSuites
<1>4. CASE ParseOption \/ UnknownOption \/ PassPath \/ OptionsParsed \/ Start
  BY <1>1, <1>4 DEF ParseOption, UnknownOption, PassPath, OptionsParsed, Start, reportVars
<1>5. CASE ShowText \/ FetchEnds \/ NoTests \/ RunnerDies
  BY <1>1, <1>5 DEF ShowText, FetchEnds, NoTests, RunnerDies, unprinted
<1>6. CASE Fetching \/ ReadSuite \/ Finish \/ FileVanishes
  BY <1>1, <1>6 DEF Fetching, ReadSuite, Finish, FileVanishes, reportVars
<1>7. CASE UNCHANGED vars
  BY <1>1, <1>7 DEF vars, reportVars
<1> QED
  BY <1>2, <1>3, <1>4, <1>5, <1>6, <1>7 DEF Next, Step

LEMMA EmptyLineIsQuiet ==
  ASSUME NEW condition
  PROVE  /\ ~TellsOfBad(Item("empty line", "", 0)) /\ Quiet(<<Item("empty line", "", 0)>>)
         /\ Quiet(If(condition, Item("empty line", "", 0)))
<1> DEFINE e == Item("empty line", "", 0)
<1>1. ~TellsOfBad(e)
  BY OtherKinds
<1> HIDE DEF e
<1> QED
  BY <1>1, OneIsQuiet, IfIsQuiet DEF e

LEMMA HeaderIsQuiet == ASSUME NEW k PROVE Quiet(Header(k))
<1> DEFINE h == Item("suite", "", SuiteOf(k))
<1>1. ~TellsOfBad(h)
  BY OtherKinds
<1>2. Header(k) = If(NewSuite(k), h)
  BY DEF Header
<1> HIDE DEF h
<1> QED
  BY <1>1, <1>2, IfIsQuiet

LEMMA DetailGoesOn ==
  ASSUME ResultsInv, Explained(printed), VisitInDetail PROVE Explained(printed')
<1> DEFINE k == Len(results) + 1
           r == Result(tests[k].case)
           i == Item("test", r.status, k)
           why == CASE r.status = "ERROR" -> Error(r)
                    [] r.status = "FAILURE" -> Failure(r)
                    [] OTHER -> <<>>
           l == If(k = Len(tests) \/ SuiteOf(k) # SuiteOf(k + 1), Item("empty line", "", 0))
<1>1. printed' = (((printed \o Header(k)) \o <<i>>) \o why) \o l
  BY DEF VisitInDetail
<1>2. Supported(r)
  <2>1. Visiting /\ Visit(Result(tests[Len(results) + 1].case)) /\ UNCHANGED <<tests, next>>
    BY DEF VisitInDetail
  <2> QED
    BY <2>1, VisitKeepsResults
<1>3. Explained(<<i>> \o why) /\ IsSeq(why)
  <2> HIDE DEF r, k
  <2> QED
    BY <1>2, VisitIsExplained, WhyIsSeq
<1>4. Quiet(l) /\ Quiet(Header(k)) /\ IsSeq(<<i>>)
  <2>1. IsSeq(<<i>>)
    <3> HIDE DEF i
    <3> QED
      BY OneItem
  <2>2. Quiet(Header(k))
    <3> HIDE DEF k
    <3> QED
      BY HeaderIsQuiet
  <2>3. Quiet(l)
    BY EmptyLineIsQuiet
  <2> QED
    BY <2>1, <2>2, <2>3
<1> HIDE DEF k, r, i, why, l
<1>5. Explained(printed \o Header(k))
  BY <1>4, GoesOn
<1>6. Explained(((printed \o Header(k)) \o <<i>>) \o why)
  BY <1>3, <1>4, <1>5, GoesOnWith
<1>7. Explained((((printed \o Header(k)) \o <<i>>) \o why) \o l)
  BY <1>4, <1>6, GoesOn
<1> QED
  BY <1>1, <1>7

LEMMA PassthroughGoesOn ==
  ASSUME Explained(printed), VisitInPassthrough \/ EndPassthrough PROVE Explained(printed')
<1>1. CASE VisitInPassthrough
  <2> DEFINE k == Len(results) + 1
             m == Item("mark", Result(tests[k].case).status, k)
             p == Item("percent", "", Percent(k))
             full == inLine + 1 = PerLine
  <2>1. printed' = (printed \o <<m>>) \o If(full, p)
    BY <1>1 DEF VisitInPassthrough
  <2>2. ~TellsOfBad(m)
    BY OtherKinds
  <2>3. ~TellsOfBad(p)
    BY OtherKinds
  <2> HIDE DEF m, p, full
  <2>4. Quiet(<<m>>) /\ Quiet(If(full, p))
    BY <2>2, <2>3, OneIsQuiet, IfIsQuiet
  <2>5. Explained(printed \o <<m>>)
    BY <2>4, GoesOn
  <2>6. Explained((printed \o <<m>>) \o If(full, p))
    BY <2>4, <2>5, GoesOn
  <2> QED
    BY <2>1, <2>6
<1>2. CASE EndPassthrough
  <2> DEFINE b == Item("spaces", "", PerLine - inLine)
             p == Item("percent", "", 100)
             e == Item("empty line", "", 0)
             rest == IF inLine = 0 THEN <<>> ELSE <<b, p>>
  <2>1. printed' = (printed \o rest) \o <<e>>
    BY <1>2 DEF EndPassthrough
  <2>2. ~TellsOfBad(b)
    BY OtherKinds
  <2>3. ~TellsOfBad(p)
    BY OtherKinds
  <2>4. Quiet(<<e>>)
    BY EmptyLineIsQuiet
  <2> HIDE DEF b, p, e
  <2>5. Quiet(rest)
    BY <2>2, <2>3, TwoAreQuiet, EmptyIsQuiet
  <2> HIDE DEF rest
  <2>6. Explained(printed \o rest)
    BY <2>5, GoesOn
  <2>7. Explained((printed \o rest) \o <<e>>)
    BY <2>4, <2>6, GoesOn
  <2> QED
    BY <2>1, <2>7
<1> QED
  BY <1>1, <1>2

LEMMA ListGoesOn ==
  ASSUME ResultsInv, Explained(printed), BeginList \/ ListNext \/ EndList
  PROVE  Explained(printed')
<1>1. CASE BeginList
  <2> DEFINE l == Item("---", "", 0)
             a == Item("there are", stage, counts[stage])
             both == stage = "FAILURE" /\ counts["ERROR"] > 0
  <2>1. printed' = printed \/ printed' = (printed \o If(both, l)) \o <<a>>
    BY <1>1 DEF BeginList
  <2>2. ~TellsOfBad(l)
    BY OtherKinds
  <2>3. ~TellsOfBad(a)
    BY OtherKinds
  <2> HIDE DEF l, a, both
  <2>4. Quiet(If(both, l)) /\ Quiet(<<a>>)
    BY <2>2, <2>3, IfIsQuiet, OneIsQuiet
  <2>5. Explained(printed \o If(both, l))
    BY <2>4, GoesOn
  <2>6. Explained((printed \o If(both, l)) \o <<a>>)
    BY <2>4, <2>5, GoesOn
  <2> QED
    BY <2>1, <2>6
<1>2. CASE ListNext
  <2> DEFINE r == results[next]
             e == Item("entry", Listed, next)
             i == Item("number", "", number + 1)
             why == IF Listed = "ERROR" THEN Error(r) \o Stderr(r) ELSE Failure(r)
  <2>1. printed' = printed \/ (IsListed(r) /\ printed' = (printed \o <<e, i>>) \o why)
    BY <1>2 DEF ListNext
  <2>2. Supported(r)
    <3>1. IsSeq(results) /\ next \in Nat \ {0} /\ next <= Len(results)
      BY <1>2 DEF ResultsInv, ListNext
    <3>2. next \in DOMAIN results
      <4>1. Len(results) \in Nat /\ DOMAIN results = 1..Len(results)
        BY <3>1, ConcatFacts
      <4> QED
        BY <3>1, <4>1
    <3> QED
      BY <3>2 DEF ResultsInv
  <2>3. ASSUME IsListed(r) PROVE Explained((printed \o <<e, i>>) \o why)
    <3>1. r.status = Listed
      BY <2>3 DEF IsListed
    <3>2. r.status \in Bad
      BY <3>1 DEF Listed, Bad
    <3> HIDE DEF r
    <3>3. Explained(<<e, i>> \o why) /\ IsSeq(why)
      BY <2>2, <3>1, <3>2, EntryIsExplained, WhyIsSeq
    <3> HIDE DEF e, i, why
    <3>4. IsSeq(<<e, i>>)
      BY TwoItems
    <3> QED
      BY <3>3, <3>4, GoesOnWith
  <2> QED
    BY <2>1, <2>3
<1>3. CASE EndList
  <2> DEFINE e == Item("empty line", "", 0)
  <2>1. printed' = Append(printed, e) /\ IsSeq(printed)
    BY <1>3 DEF EndList, Explained
  <2>2. Quiet(<<e>>)
    BY EmptyLineIsQuiet
  <2> HIDE DEF e
  <2>3. printed' = printed \o <<e>>
    BY <2>1, AppendIsTelling
  <2> QED
    BY <2>2, <2>3, GoesOn
<1> QED
  BY <1>1, <1>2, <1>3

LEMMA SummaryGoesOn ==
  ASSUME NEW inDetail, NEW noSummary, Explained(printed), Summary(inDetail, noSummary)
  PROVE  Explained(printed')
<1> DEFINE lines == IF ~noSummary THEN FinalSummary ELSE IF inDetail THEN <<>> ELSE SummaryLine
<1>1. printed' = printed \o lines
  BY DEF Summary
<1>2. Quiet(lines)
  BY SummaryIsQuiet, EmptyIsQuiet
<1> HIDE DEF lines
<1> QED
  BY <1>1, <1>2, GoesOn

LEMMA InitTold == Init => ToldInv
<1> SUFFICES ASSUME Init PROVE ToldInv
  OBVIOUS
<1>1. IsSeq(<<>>) /\ DOMAIN <<>> = {} /\ Explained(<<>>)
  BY EmptyIsQuiet, QuietIsExplained DEF Quiet
<1>2. tests = <<>> /\ results = <<>> /\ next = 1 /\ printed = <<>> /\ suites = <<>> /\ disk \in Disks
  BY DEF Init, ReportInit, SearchInit
<1>3. <<>> \in Seq(Sources)
  BY EmptySeq
<1> QED
  BY <1>1, <1>2, <1>3 DEF ToldInv, ReadInv, ResultsInv

LEMMA NextTold == ToldInv /\ [Next]_vars => ToldInv'
<1> SUFFICES ASSUME ToldInv, [Next]_vars PROVE ToldInv'
  OBVIOUS
<1>0. ReadInv' /\ ResultsInv'
  BY NextRead, NextResults DEF ToldInv
<1> SUFFICES Explained(printed')
  BY <1>0 DEF ToldInv
<1>1. Explained(printed) /\ ResultsInv
  BY DEF ToldInv
<1>2. CASE ShowText \/ FetchEnds \/ NoTests
  <2> DEFINE a == Item(IF "--help" \in flags THEN "help" ELSE "version", "", 0)
             b == Item("no sources", "", 0)
             c == Item("no tests", "", 0)
  <2>1. printed' \in {printed, <<a>>, <<b>>, <<c>>}
    BY <1>2 DEF ShowText, FetchEnds, NoTests
  <2>2. ~TellsOfBad(a)
    <3> DEFINE kind == IF "--help" \in flags THEN "help" ELSE "version"
    <3>1. kind # "number" /\ kind # "test"
      OBVIOUS
    <3> HIDE DEF kind
    <3>2. ~TellsOfBad(Item(kind, "", 0))
      BY <3>1, OtherKinds
    <3> QED
      BY <3>2 DEF kind
  <2>3. ~TellsOfBad(b)
    BY OtherKinds
  <2>4. ~TellsOfBad(c)
    BY OtherKinds
  <2> HIDE DEF a, b, c
  <2>5. Explained(<<a>>) /\ Explained(<<b>>) /\ Explained(<<c>>)
    BY <2>2, <2>3, <2>4, OneIsQuiet, QuietIsExplained
  <2> QED
    BY <1>1, <2>1, <2>5
<1>3. CASE RunTests
  <2>1. RunSuites(mode = "detail", "--no-summary" \in flags)
    BY <1>3 DEF RunTests
  <2>2. CASE EndDetail
    BY <1>1, <2>2 DEF EndDetail
  <2> QED
    BY <1>1, <2>1, <2>2, DetailGoesOn, PassthroughGoesOn, ListGoesOn, SummaryGoesOn DEF RunSuites
<1>4. CASE RunnerDies
  <2> DEFINE k == Len(results) + 1
             h == IF mode = "detail" THEN Header(k) ELSE <<>>
  <2>1. printed' = printed \o h
    BY <1>4 DEF RunnerDies
  <2>2. Quiet(h)
    <3> HIDE DEF k
    <3> QED
      BY HeaderIsQuiet, EmptyIsQuiet
  <2> HIDE DEF h
  <2> QED
    BY <1>1, <2>1, <2>2, GoesOn
<1>5. CASE ParseOption \/ UnknownOption \/ PassPath \/ OptionsParsed \/ Start
  BY <1>1, <1>5 DEF ParseOption, UnknownOption, PassPath, OptionsParsed, Start, reportVars
<1>6. CASE Fetching \/ ReadSuite \/ Finish \/ FileVanishes \/ BeginTests
  BY <1>1, <1>6 DEF Fetching, ReadSuite, Finish, FileVanishes, BeginTests, reportVars
<1>7. CASE UNCHANGED vars
  BY <1>1, <1>7 DEF vars, reportVars
<1> QED
  BY <1>2, <1>3, <1>4, <1>5, <1>6, <1>7 DEF Next, Step

\* Whoever reads that a test failed also reads why, whichever way the results
\* are shown (show-result.c), and however the run ends.
THEOREM FailuresExplained == Spec => []FailuresAreExplained
<1>1. ToldInv => FailuresAreExplained
  <2> SUFFICES ASSUME Explained(printed), NEW k \in DOMAIN printed, TellsOfBad(printed[k])
               PROVE  /\ k < Len(printed)
                      /\ \/ printed[k + 1].kind \in {"error", "diff", "label"}
                         \/ /\ k + 1 < Len(printed)
                            /\ printed[k + 1].kind = "exit code" /\ printed[k + 2].kind = "stderr"
    BY DEF ToldInv, FailuresAreExplained, TellsOfBad
  <2>1. TellsWhy(printed, k + 1) /\ IsSeq(printed)
    BY DEF Explained
  <2>2. Len(printed) \in Nat /\ k \in 1..Len(printed)
    BY <2>1, ConcatFacts
  <2>3. k < Len(printed) /\ (k + 1) + 1 = k + 2
    BY <2>1, <2>2 DEF TellsWhy
  <2>4. CASE TellsCause(printed[k + 1])
    BY <2>3, <2>4 DEF TellsCause
  <2>5. CASE (k + 1) + 1 <= Len(printed) /\ TellsExit(printed[k + 1], printed[(k + 1) + 1])
    <3>1. k + 1 < Len(printed) /\ TellsExit(printed[k + 1], printed[k + 2])
      BY <2>2, <2>3, <2>5
    <3> QED
      BY <2>3, <3>1 DEF TellsExit
  <2> QED
    BY <2>1, <2>4, <2>5 DEF TellsWhy
<1> QED
  BY <1>1, InitTold, NextTold, PTL DEF Spec
-----------------------------------------------------------------------------
(* The search.                                                             *)

\* The path q is p or runs through it.
Within(p, q) == Len(p) <= Len(q) /\ SubSeq(q, 1, Len(p)) = p

Directory(d, p) == d[p] \in {"directory", "locked directory"}

\* The files that an argument stands for in the tree d.
TestsBelow(d, p) ==
  {q \in DOMAIN d : /\ d[q] = "file" /\ q[Len(q)] \in TestNames
                    /\ Len(q) > Len(p) /\ SubSeq(q, 1, Len(p)) = p}

FilesOf(d, p) ==
  IF p \notin DOMAIN d THEN {} ELSE IF Directory(d, p) THEN TestsBelow(d, p) ELSE {p}

\* The a-th of the arguments v leads to p, and none before it does.
Leads(d, v, a, p) == a \in DOMAIN v /\ v[a] \notin Options /\ p \in FilesOf(d, Target(v[a]))

LeadsFirst(d, v, a, p) ==
  Leads(d, v, a, p) /\ \A b \in DOMAIN v : Leads(d, v, b, p) => a <= b

Reading == search \in {"directory", "entries"}

\* The directory that is gone through.
Root == Target(IF arg <= Len(argv) THEN argv[arg] ELSE DefaultTests)

\* No argument led to a file: the default is tried.
InDefault == arg = Len(argv) + 2 \/ (arg = Len(argv) + 1 /\ Reading)

PathsInv ==
  /\ disk \in Disks /\ gone \subseteq Fleeting /\ argv \in Seq(STRING)
  /\ search \in {"argument", "directory", "entries", "found", "fatal", "crashed"}
  /\ arg \in 1..(Len(argv) + 2) /\ (Reading => arg <= Len(argv) + 1)
  /\ queue \in Seq({p \in DOMAIN disk : Directory(disk, p)})
  /\ dir \in DOMAIN disk \cup {<<>>}
  /\ unread \subseteq [name : Names \cup {".", ".."}, kind : Kinds]
  /\ sources \in Seq(DOMAIN disk)
  /\ \A k, l \in DOMAIN sources : sources[k] = sources[l] => k = l

\* What is read is below the directory that an argument names.
BelowInv ==
  /\ Reading =>
       /\ Root \in DOMAIN disk /\ Directory(disk, Root)
       /\ arg <= Len(argv) => argv[arg] \notin Options
       /\ \A i \in DOMAIN queue : Within(Root, queue[i])
  /\ search = "entries" =>
       /\ dir \in DOMAIN disk /\ Directory(disk, dir) /\ Within(Root, dir)
       /\ \A e \in unread :
            IF Skipped(e.name) THEN e.kind = "directory"
            ELSE Append(dir, e.name) \in DOMAIN disk /\ disk[Append(dir, e.name)] = e.kind

\* Directories are read level by level.
LevelsInv ==
  /\ \A i, j \in DOMAIN queue : i <= j => Len(queue[i]) <= Len(queue[j])
  /\ search = "entries" =>
       \A i \in DOMAIN queue : Len(dir) <= Len(queue[i]) /\ Len(queue[i]) <= Len(dir) + 1
  /\ search = "directory" => \A i \in DOMAIN queue : Len(queue[i]) <= Len(queue[1]) + 1

\* A file below the directory is still ahead.
Awaits(q) ==
  \/ \E i \in DOMAIN queue : Within(queue[i], q) /\ Len(queue[i]) < Len(q)
  \/ search = "entries" /\ \E e \in unread : Within(Append(dir, e.name), q)

\* Nothing was passed over.
PassedInv ==
  /\ \A a \in DOMAIN argv : a < arg => \A q \in DOMAIN disk : Leads(disk, argv, a, q) => q \in Found \cup gone
  /\ arg = Len(argv) + 2 => TestsBelow(disk, Target(DefaultTests)) \subseteq Found \cup gone
  /\ Reading => \A q \in TestsBelow(disk, Root) : q \in Found \cup gone \/ Awaits(q)

Near(p) ==
  /\ search = "entries" => Len(p) <= Len(dir) + 1
  /\ search = "directory" /\ queue # <<>> => Len(p) <= Len(queue[1]) + 1

\* The source was found at this argument.
FoundAt(p, a) ==
  LeadsFirst(disk, argv, a, p) /\ (a < arg \/ (a = arg /\ Reading /\ Near(p)))

Follows(p, q) ==
  \E a, b \in DOMAIN argv :
    /\ LeadsFirst(disk, argv, a, p) /\ LeadsFirst(disk, argv, b, q)
    /\ a < b \/ (a = b /\ Len(p) <= Len(q))

\* Every source is there because of an argument, or because no argument led to a file.
OriginInv ==
  /\ ~InDefault =>
       /\ \A k \in DOMAIN sources : \E a \in DOMAIN argv : FoundAt(sources[k], a)
       /\ \A k, l \in DOMAIN sources : k < l => Follows(sources[k], sources[l])
  /\ InDefault =>
       /\ \A a \in DOMAIN argv : \A q \in DOMAIN disk : Leads(disk, argv, a, q) => q \in gone
       /\ \A k \in DOMAIN sources :
            /\ sources[k] \in TestsBelow(disk, Target(DefaultTests))
            /\ \A a \in DOMAIN argv : ~Leads(disk, argv, a, sources[k])
  /\ search = "found" => arg > Len(argv) /\ (arg = Len(argv) + 1 => sources # <<>>)

GoesWell == search \notin {"fatal", "crashed"}

SearchInv ==
  PathsInv /\ (GoesWell => BelowInv /\ LevelsInv /\ PassedInv /\ OriginInv)
-----------------------------------------------------------------------------
(* Paths.                                                                  *)

LEMMA TreeFacts ==
  ASSUME NEW d \in Disks, NEW p \in DOMAIN d
  PROVE  /\ p \in Seq(Names) /\ Len(p) \in Nat /\ DOMAIN p = 1..Len(p)
         /\ \A i \in 1..Len(p) : p[i] \in Names
         /\ d[p] \in Kinds
<1>1. p \in Seq(Names) /\ d[p] \in Kinds
  BY TreeAssumption, FileSearchAssumption
<1> QED
  BY <1>1, LenProperties, ElementOfSeq

LEMMA BelowIsWithin ==
  ASSUME NEW d \in Disks, NEW p \in DOMAIN d, NEW q \in TestsBelow(d, p)
  PROVE  q \in DOMAIN d /\ Within(p, q) /\ Len(p) < Len(q)
<1>1. q \in DOMAIN d /\ Len(q) > Len(p) /\ SubSeq(q, 1, Len(p)) = p
  BY DEF TestsBelow
<1>2. Len(p) \in Nat /\ Len(q) \in Nat
  BY <1>1, TreeFacts
<1> QED
  BY <1>1, <1>2 DEF Within

LEMMA PrefixFacts ==
  ASSUME NEW S, NEW q \in Seq(S), NEW k \in 0..Len(q)
  PROVE  /\ SubSeq(q, 1, k) \in Seq(S) /\ Len(SubSeq(q, 1, k)) = k
         /\ \A i \in 1..k : SubSeq(q, 1, k)[i] = q[i]
<1>1. Len(q) \in Nat /\ \A i \in 1..Len(q) : q[i] \in S
  BY LenProperties, ElementOfSeq
<1>2. 1..k \subseteq 1..Len(q) /\ k \in Nat
  BY <1>1
<1>3. \A i \in 1..k : q[i] \in S
  BY <1>1, <1>2
<1> QED
  BY <1>1, <1>2, <1>3, SubSeqProperties

\* A path through which another one runs, name by name.
LEMMA WithinIs ==
  ASSUME NEW S, NEW p \in Seq(S), NEW q \in Seq(S)
  PROVE  Within(p, q) <=> Len(p) <= Len(q) /\ \A i \in 1..Len(p) : p[i] = q[i]
<1>1. Len(p) \in Nat /\ Len(q) \in Nat
  BY LenProperties
<1>2. ASSUME Within(p, q), NEW i \in 1..Len(p) PROVE p[i] = q[i]
  <2>1. Len(p) \in 0..Len(q)
    BY <1>1, <1>2 DEF Within
  <2>2. \A k \in 1..Len(p) : SubSeq(q, 1, Len(p))[k] = q[k]
    BY <2>1, PrefixFacts
  <2> QED
    BY <1>2, <2>2 DEF Within
<1>3. ASSUME Len(p) <= Len(q), \A i \in 1..Len(p) : p[i] = q[i] PROVE Within(p, q)
  <2>1. Len(p) \in 0..Len(q)
    BY <1>1, <1>3
  <2> DEFINE r == SubSeq(q, 1, Len(p))
  <2>2. r \in Seq(S) /\ Len(r) = Len(p) /\ \A k \in 1..Len(p) : r[k] = q[k]
    BY <2>1, PrefixFacts
  <2> HIDE DEF r
  <2>3. \A k \in 1..Len(p) : r[k] = p[k]
    BY <1>3, <2>2
  <2>4. r = p
    BY <2>2, <2>3, SeqEqual
  <2> QED
    BY <1>3, <2>4 DEF Within, r
<1>4. Within(p, q) => Len(p) <= Len(q)
  BY DEF Within
<1> QED
  BY <1>2, <1>3, <1>4

LEMMA WithinItself ==
  ASSUME NEW S, NEW p \in Seq(S) PROVE Within(p, p)
<1>1. Len(p) <= Len(p)
  BY LenProperties
<1> QED
  BY <1>1, WithinIs

LEMMA WithinGoesOn ==
  ASSUME NEW S, NEW p \in Seq(S), NEW q \in Seq(S), NEW r \in Seq(S),
         Within(p, q), Within(q, r)
  PROVE  Within(p, r)
<1>1. Len(p) \in Nat /\ Len(q) \in Nat /\ Len(r) \in Nat
  BY LenProperties
<1>2. Len(p) <= Len(q) /\ \A i \in 1..Len(p) : p[i] = q[i]
  BY WithinIs
<1>3. Len(q) <= Len(r) /\ \A i \in 1..Len(q) : q[i] = r[i]
  BY WithinIs
<1>4. Len(p) <= Len(r)
  BY <1>1, <1>2, <1>3
<1>5. 1..Len(p) \subseteq 1..Len(q)
  BY <1>1, <1>2
<1>6. \A i \in 1..Len(p) : p[i] = r[i]
  BY <1>2, <1>3, <1>5
<1> QED
  BY <1>4, <1>6, WithinIs

\* The path of an entry.
LEMMA EntryFacts ==
  ASSUME NEW S, NEW p \in Seq(S), NEW n \in S
  PROVE  /\ Append(p, n) \in Seq(S) /\ Len(Append(p, n)) = Len(p) + 1 /\ Within(p, Append(p, n))
         /\ Append(p, n)[Len(p) + 1] = n /\ \A i \in 1..Len(p) : Append(p, n)[i] = p[i]
<1>1. Len(p) \in Nat
  BY LenProperties
<1>2. /\ Append(p, n) \in Seq(S) /\ Len(Append(p, n)) = Len(p) + 1
      /\ \A i \in 1..Len(p) : Append(p, n)[i] = p[i] /\ Append(p, n)[Len(p) + 1] = n
      /\ Append(p, n)[Len(p) + 1] = n
  BY AppendProperties
<1>3. Len(p) <= Len(Append(p, n))
  BY <1>1, <1>2
<1>4. Within(p, Append(p, n))
  BY <1>2, <1>3, WithinIs
<1> QED
  BY <1>2, <1>4

\* A path in a directory is that of an entry.
LEMMA EntryOf ==
  ASSUME NEW S, NEW p \in Seq(S), NEW q \in Seq(S), q # <<>>, SubSeq(q, 1, Len(q) - 1) = p
  PROVE  Append(p, q[Len(q)]) = q /\ q[Len(q)] \in S /\ Len(q) = Len(p) + 1
<1>1. Len(q) \in Nat /\ Len(p) \in Nat /\ \A i \in 1..Len(q) : q[i] \in S
  BY LenProperties, ElementOfSeq
<1>2. Len(q) # 0
  BY EmptySeq
<1>3. Len(q) \in 1..Len(q) /\ Len(q) - 1 \in 0..Len(q)
  BY <1>1, <1>2
<1>4. Len(p) = Len(q) - 1 /\ \A i \in 1..(Len(q) - 1) : p[i] = q[i]
  BY <1>3, PrefixFacts
<1> DEFINE n == q[Len(q)]
           r == Append(p, n)
<1>5. n \in S
  BY <1>1, <1>3
<1>6. /\ r \in Seq(S) /\ Len(r) = Len(p) + 1 /\ r[Len(p) + 1] = n
      /\ \A i \in 1..Len(p) : r[i] = p[i]
  BY <1>5, EntryFacts
<1>7. Len(r) = Len(q)
  BY <1>1, <1>4, <1>6
<1>8. \A i \in 1..Len(q) : r[i] = q[i]
  <2> SUFFICES ASSUME NEW i \in 1..Len(q) PROVE r[i] = q[i]
    OBVIOUS
  <2>1. CASE i = Len(q)
    <3>1. i = Len(p) + 1
      BY <1>1, <1>4, <2>1
    <3> QED
      BY <1>6, <2>1, <3>1
  <2>2. CASE i # Len(q)
    <3>1. i \in 1..Len(p) /\ i \in 1..(Len(q) - 1)
      BY <1>1, <1>4, <2>2
    <3> QED
      BY <1>4, <1>6, <3>1
  <2> QED
    BY <2>1, <2>2
<1> HIDE DEF r
<1>9. r = q
  BY <1>6, <1>7, <1>8, SeqEqual
<1> QED
  BY <1>1, <1>4, <1>5, <1>9 DEF r

\* On the way to a path below a directory lies an entry of the directory.
LEMMA NextOnTheWay ==
  ASSUME NEW S, NEW p \in Seq(S), NEW q \in Seq(S), Within(p, q), Len(p) < Len(q)
  PROVE  LET r == SubSeq(q, 1, Len(p) + 1)
         IN /\ r \in Seq(S) /\ Len(r) = Len(p) + 1 /\ r # <<>> /\ Within(r, q)
            /\ SubSeq(r, 1, Len(r) - 1) = p
            /\ Len(p) + 1 < Len(q) \/ r = q
<1> DEFINE r == SubSeq(q, 1, Len(p) + 1)
<1>1. Len(p) \in Nat /\ Len(q) \in Nat
  BY LenProperties
<1>2. Len(p) + 1 \in 0..Len(q)
  BY <1>1
<1>3. r \in Seq(S) /\ Len(r) = Len(p) + 1 /\ \A i \in 1..(Len(p) + 1) : r[i] = q[i]
  BY <1>2, PrefixFacts
<1> HIDE DEF r
<1>4. Len(r) <= Len(q) /\ \A i \in 1..Len(r) : r[i] = q[i]
  BY <1>1, <1>2, <1>3
<1>5. Within(r, q)
  BY <1>3, <1>4, WithinIs
<1>6. r # <<>>
  <2> SUFFICES ASSUME r = <<>> PROVE FALSE
    OBVIOUS
  <2>1. Len(r) = 0
    BY <1>3, EmptySeq
  <2> QED
    BY <1>1, <1>3, <2>1
<1>7. SubSeq(r, 1, Len(r) - 1) = p
  <2> DEFINE s == SubSeq(r, 1, Len(p))
  <2>1. Len(r) - 1 = Len(p) /\ Len(p) \in 0..Len(r)
    BY <1>1, <1>3
  <2>2. s \in Seq(S) /\ Len(s) = Len(p) /\ \A i \in 1..Len(p) : s[i] = r[i]
    BY <1>3, <2>1, PrefixFacts
  <2>3. \A i \in 1..Len(p) : i \in 1..(Len(p) + 1)
    BY <1>1
  <2>4. \A i \in 1..Len(p) : p[i] = q[i]
    BY WithinIs
  <2> HIDE DEF s
  <2>5. \A i \in 1..Len(p) : s[i] = p[i]
    BY <1>3, <2>2, <2>3, <2>4
  <2>6. s = p
    BY <2>2, <2>5, SeqEqual
  <2> QED
    BY <2>1, <2>6 DEF s
<1>8. Len(p) + 1 < Len(q) \/ r = q
  <2> SUFFICES ASSUME ~(Len(p) + 1 < Len(q)) PROVE r = q
    OBVIOUS
  <2>1. Len(r) = Len(q)
    BY <1>1, <1>3
  <2> QED
    BY <1>3, <1>4, <2>1, SeqEqual
<1> QED
  BY <1>3, <1>5, <1>6, <1>7, <1>8 DEF r

\* What lies between a directory and a path below it is a directory.
LEMMA OnTheWay ==
  ASSUME NEW d \in Disks, NEW p \in DOMAIN d, NEW q \in DOMAIN d, Within(p, q), Len(p) < Len(q)
  PROVE  LET r == SubSeq(q, 1, Len(p) + 1)
         IN /\ r \in DOMAIN d /\ Append(p, r[Len(r)]) = r /\ Within(r, q)
            /\ r # <<>> /\ SubSeq(r, 1, Len(r) - 1) = p /\ Len(r) = Len(p) + 1
            /\ r = q \/ (Directory(d, r) /\ Len(r) < Len(q))
<1> DEFINE r == SubSeq(q, 1, Len(p) + 1)
<1>1. p \in Seq(Names) /\ q \in Seq(Names) /\ Len(p) \in Nat /\ Len(q) \in Nat
  BY TreeFacts
<1>2. /\ r \in Seq(Names) /\ Len(r) = Len(p) + 1 /\ r # <<>> /\ Within(r, q)
      /\ SubSeq(r, 1, Len(r) - 1) = p
      /\ Len(p) + 1 < Len(q) \/ r = q
  BY <1>1, NextOnTheWay
<1>3. r = q \/ (r \in DOMAIN d /\ Directory(d, r) /\ Len(r) < Len(q))
  <2> SUFFICES ASSUME Len(p) + 1 < Len(q) PROVE r \in DOMAIN d /\ Directory(d, r) /\ Len(r) < Len(q)
    BY <1>2
  <2>1. Len(p) + 1 \in 0..(Len(q) - 1)
    BY <1>1
  <2>2. \A k \in 0..(Len(q) - 1) :
          SubSeq(q, 1, k) \in DOMAIN d /\ d[SubSeq(q, 1, k)] \in {"directory", "locked directory"}
    BY TreeAssumption
  <2>3. r \in DOMAIN d /\ d[r] \in {"directory", "locked directory"}
    BY <2>1, <2>2
  <2> QED
    BY <1>2, <2>3 DEF Directory
<1> HIDE DEF r
<1>4. Append(p, r[Len(r)]) = r
  BY <1>1, <1>2, EntryOf
<1> QED
  BY <1>2, <1>3, <1>4 DEF r

\* A path without the names "." and ".." is plain as it is: for its prefixes
\* too, one name after the other.
LEMMA PlainIsItself ==
  ASSUME NEW p \in Seq(Names) PROVE Plain(p) = p
<1> DEFINE N == Len(p)
           Step1(f, k) == IF k = 0 THEN <<>>
                          ELSE IF p[k] = "." THEN f[k - 1]
                          ELSE IF p[k] = ".." THEN SubSeq(f[k - 1], 1, Len(f[k - 1]) - 1)
                          ELSE Append(f[k - 1], p[k])
           Walks(f) == f = [k \in 0..N |-> Step1(f, k)]
           g == [k \in 0..N |-> SubSeq(p, 1, k)]
           h == CHOOSE f : Walks(f)
<1>1. N \in Nat /\ \A k \in 1..N : p[k] \in Names
  BY LenProperties, ElementOfSeq
<1>2. \A k \in 1..N : Append(SubSeq(p, 1, k - 1), p[k]) = SubSeq(p, 1, k)
  <2> SUFFICES ASSUME NEW k \in 1..N PROVE Append(SubSeq(p, 1, k - 1), p[k]) = SubSeq(p, 1, k)
    OBVIOUS
  <2>1. k \in 0..N /\ k - 1 \in 0..N /\ k \in 1..k /\ k \in Nat
    BY <1>1
  <2> DEFINE q == SubSeq(p, 1, k)
             s == SubSeq(p, 1, k - 1)
  <2>2. q \in Seq(Names) /\ Len(q) = k /\ \A i \in 1..k : q[i] = p[i]
    BY <2>1, PrefixFacts
  <2>3. s \in Seq(Names) /\ Len(s) = k - 1 /\ \A i \in 1..(k - 1) : s[i] = p[i]
    BY <2>1, PrefixFacts
  <2> HIDE DEF q, s
  <2>4. SubSeq(q, 1, k - 1) = s
    <3> DEFINE u == SubSeq(q, 1, k - 1)
    <3>1. u \in Seq(Names) /\ Len(u) = k - 1 /\ \A i \in 1..(k - 1) : u[i] = q[i]
      <4>1. k - 1 \in 0..Len(q)
        BY <2>1, <2>2
      <4> QED
        BY <2>2, <4>1, PrefixFacts
    <3>2. \A i \in 1..(k - 1) : i \in 1..k
      BY <2>1
    <3> HIDE DEF u
    <3>3. \A i \in 1..(k - 1) : u[i] = s[i]
      BY <2>2, <2>3, <3>1, <3>2
    <3>4. u = s
      BY <2>3, <3>1, <3>3, SeqEqual
    <3> QED
      BY <3>4 DEF u
  <2>5. q # <<>>
    <3>1. q = <<>> => Len(q) = 0
      BY EmptySeq
    <3> QED
      BY <2>1, <2>2, <3>1
  <2>6. Append(s, q[Len(q)]) = q
    <3>1. SubSeq(q, 1, Len(q) - 1) = s
      BY <2>2, <2>4
    <3> QED
      BY <2>2, <2>3, <2>5, <3>1, EntryOf
  <2>7. q[Len(q)] = p[k]
    BY <2>1, <2>2
  <2> QED
    BY <2>6, <2>7 DEF q, s
<1>3. SubSeq(p, 1, 0) = <<>>
  <2>1. Len(SubSeq(p, 1, 0)) = 0 /\ SubSeq(p, 1, 0) \in Seq(Names)
    <3>1. 0 \in 0..Len(p)
      BY <1>1
    <3> QED
      BY <3>1, PrefixFacts
  <2> QED
    BY <2>1, EmptySeq
<1>4. Walks(g)
  <2>1. \A k \in 0..N : g[k] = Step1(g, k)
    <3> SUFFICES ASSUME NEW k \in 0..N PROVE g[k] = Step1(g, k)
      OBVIOUS
    <3>1. CASE k = 0
      BY <1>3, <3>1
    <3>2. CASE k # 0
      <4>1. k \in 1..N /\ k - 1 \in 0..N
        BY <1>1, <3>2
      <4>2. p[k] # "." /\ p[k] # ".."
        BY <1>1, <4>1 DEF Names
      <4>3. g[k] = SubSeq(p, 1, k) /\ g[k - 1] = SubSeq(p, 1, k - 1)
        BY <4>1
      <4> HIDE DEF g
      <4> QED
        BY <1>2, <3>2, <4>1, <4>2, <4>3
    <3> QED
      BY <3>1, <3>2
  <2>2. g = [k \in 0..N |-> g[k]]
    OBVIOUS
  <2> HIDE DEF g, Step1
  <2> QED
    BY <2>1, <2>2
<1>5. Walks(h)
  <2> HIDE DEF Walks, g
  <2> QED
    BY <1>4
<1>6. h[N] = SubSeq(p, 1, N)
  <2> DEFINE S == {k \in 0..N : h[k] # SubSeq(p, 1, k)}
  <2> SUFFICES ASSUME h[N] # SubSeq(p, 1, N) PROVE FALSE
    OBVIOUS
  <2>0. S # {}
    <3> HIDE DEF h
    <3> QED
      BY <1>1
  <2>1. PICK m \in S : \A n \in S : m <= n
    <3>1. S \in SUBSET (0..N)
      BY Zenon
    <3> HIDE DEF S, h
    <3> QED
      BY <1>1, <2>0, <3>1, FirstExists
  <2>2. m \in 0..N /\ h[m] # SubSeq(p, 1, m)
    BY <2>1
  <2>3. \A k \in 0..N : h[k] = Step1(h, k)
    <3> HIDE DEF h, Step1
    <3> QED
      BY <1>5
  <2>4. m # 0
    <3>1. m = 0 => h[m] = <<>>
      BY <2>2, <2>3
    <3> HIDE DEF h
    <3> QED
      BY <1>3, <2>2, <3>1
  <2>5. m \in 1..N /\ m - 1 \in 0..N /\ ~(m <= m - 1)
    <3> HIDE DEF h, S
    <3> QED
      BY <1>1, <2>2, <2>4
  <2>6. h[m - 1] = SubSeq(p, 1, m - 1)
    <3> HIDE DEF h
    <3> QED
      BY <2>1, <2>5
  <2>7. p[m] # "." /\ p[m] # ".."
    BY <1>1, <2>5 DEF Names
  <2>8. h[m] = Append(h[m - 1], p[m])
    <3> HIDE DEF h
    <3> QED
      BY <2>2, <2>3, <2>4, <2>7
  <2> HIDE DEF h
  <2> QED
    BY <1>2, <2>2, <2>5, <2>6, <2>8
<1>7. Plain(p) = h[N]
  BY DEF Plain
<1>8. SubSeq(p, 1, N) = p
  <2> DEFINE q == SubSeq(p, 1, N)
  <2>1. q \in Seq(Names) /\ Len(q) = N /\ \A i \in 1..N : q[i] = p[i]
    <3>1. N \in 0..Len(p)
      BY <1>1
    <3> QED
      BY <3>1, PrefixFacts
  <2> HIDE DEF q
  <2>2. q = p
    BY <2>1, SeqEqual
  <2> QED
    BY <2>2 DEF q
<1> HIDE DEF h
<1> QED
  BY <1>6, <1>7, <1>8

LEMMA EntriesFacts ==
  ASSUME disk \in Disks, NEW p \in DOMAIN disk
  PROVE  /\ Entries(p) \subseteq [name : Names \cup {".", ".."}, kind : Kinds]
         /\ \A e \in Entries(p) :
              IF Skipped(e.name) THEN e.kind = "directory"
              ELSE Append(p, e.name) \in DOMAIN disk /\ disk[Append(p, e.name)] = e.kind
         /\ \A r \in DOMAIN disk \ gone : r # <<>> /\ SubSeq(r, 1, Len(r) - 1) = p =>
              \E e \in Entries(p) : e.name = r[Len(r)]
<1> DEFINE inside == {q \in DOMAIN disk \ gone : q # <<>> /\ SubSeq(q, 1, Len(q) - 1) = p}
           A == {[name |-> q[Len(q)], kind |-> disk[q]] : q \in inside}
           B == {[name |-> n, kind |-> "directory"] : n \in {".", ".."}}
<1>1. p \in Seq(Names) /\ Plain(p) = p
  <2>1. p \in Seq(Names)
    BY TreeFacts
  <2> QED
    BY <2>1, PlainIsItself
<1>2. Entries(p) = A \cup B
  BY <1>1 DEF Entries
<1>3. \A q \in inside : /\ Append(p, q[Len(q)]) = q /\ q[Len(q)] \in Names
                        /\ q \in DOMAIN disk /\ disk[q] \in Kinds
  <2> SUFFICES ASSUME NEW q \in inside
               PROVE  Append(p, q[Len(q)]) = q /\ q[Len(q)] \in Names /\ q \in DOMAIN disk
                      /\ disk[q] \in Kinds
    OBVIOUS
  <2>1. q \in DOMAIN disk /\ q # <<>> /\ SubSeq(q, 1, Len(q) - 1) = p
    OBVIOUS
  <2>2. q \in Seq(Names) /\ disk[q] \in Kinds
    BY <2>1, TreeFacts
  <2>3. Append(p, q[Len(q)]) = q /\ q[Len(q)] \in Names
    BY <1>1, <2>1, <2>2, EntryOf
  <2> QED
    BY <2>1, <2>2, <2>3
<1>4. A \subseteq [name : Names \cup {".", ".."}, kind : Kinds]
  <2> HIDE DEF inside
  <2> QED
    BY <1>3
<1>5. B \subseteq [name : Names \cup {".", ".."}, kind : Kinds]
      /\ \A e \in B : Skipped(e.name) /\ e.kind = "directory"
  <2>1. \A e \in B : e.name \in {".", ".."} /\ e.kind = "directory"
    OBVIOUS
  <2>2. "directory" \in Kinds
    BY DEF Kinds
  <2>3. B \subseteq [name : Names \cup {".", ".."}, kind : Kinds]
    BY <2>2
  <2> HIDE DEF B
  <2> QED
    BY <2>1, <2>3 DEF Skipped
<1>6. \A e \in A : /\ ~Skipped(e.name)
                   /\ Append(p, e.name) \in DOMAIN disk /\ disk[Append(p, e.name)] = e.kind
  <2> SUFFICES ASSUME NEW q \in inside
               PROVE  LET e == [name |-> q[Len(q)], kind |-> disk[q]]
                      IN /\ ~Skipped(e.name)
                         /\ Append(p, e.name) \in DOMAIN disk /\ disk[Append(p, e.name)] = e.kind
    OBVIOUS
  <2>1. Append(p, q[Len(q)]) = q /\ q \in DOMAIN disk /\ ~Skipped(q[Len(q)])
    BY <1>3 DEF Names, Skipped
  <2> HIDE DEF inside
  <2> QED
    BY <2>1
<1>7. \A r \in inside : \E e \in A : e.name = r[Len(r)]
  <2> SUFFICES ASSUME NEW r \in inside PROVE \E e \in A : e.name = r[Len(r)]
    OBVIOUS
  <2>1. [name |-> r[Len(r)], kind |-> disk[r]] \in A
    OBVIOUS
  <2>2. [name |-> r[Len(r)], kind |-> disk[r]].name = r[Len(r)]
    OBVIOUS
  <2> HIDE DEF A, inside
  <2> QED
    BY <2>1, <2>2
<1>8. \A r \in DOMAIN disk \ gone : r # <<>> /\ SubSeq(r, 1, Len(r) - 1) = p => r \in inside
  OBVIOUS
<1> HIDE DEF A, B, inside
<1> QED
  BY <1>2, <1>4, <1>5, <1>6, <1>7, <1>8

-----------------------------------------------------------------------------
(* The steps of the search.                                                *)

LEMMA SeqGrows ==
  ASSUME NEW S, NEW s \in Seq(S), NEW e \in S
  PROVE  /\ Append(s, e) \in Seq(S) /\ Len(s) \in Nat /\ DOMAIN s = 1..Len(s)
         /\ Len(Append(s, e)) = Len(s) + 1
         /\ DOMAIN Append(s, e) = 1..(Len(s) + 1)
         /\ \A i \in 1..Len(s) : Append(s, e)[i] = s[i]
         /\ Append(s, e)[Len(s) + 1] = e
<1>1. /\ Append(s, e) \in Seq(S) /\ Len(Append(s, e)) = Len(s) + 1
      /\ \A i \in 1..Len(s) : Append(s, e)[i] = s[i]
      /\ Append(s, e)[Len(s) + 1] = e
  BY AppendProperties
<1> QED
  BY <1>1, LenProperties

LEMMA LeadsFacts ==
  ASSUME NEW d, NEW v, NEW a, NEW p, Leads(d, v, a, p)
  PROVE  /\ a \in DOMAIN v /\ v[a] \notin Options /\ p \in DOMAIN d
         /\ Target(v[a]) \in DOMAIN d
         /\ IF Directory(d, Target(v[a])) THEN p \in TestsBelow(d, Target(v[a]))
            ELSE p = Target(v[a])
  BY DEF Leads, FilesOf, TestsBelow

\* What was found stays found: only the directories and the place may change.
LEMMA PathsStay ==
  ASSUME PathsInv, UNCHANGED <<disk, argv, queue, dir, unread, sources>>,
         gone' \subseteq Fleeting,
         search' \in {"argument", "directory", "entries", "found", "fatal", "crashed"},
         arg' \in 1..(Len(argv) + 2), Reading' => arg' <= Len(argv) + 1
  PROVE  PathsInv'
  BY DEF PathsInv

LEMMA FailureKeeps ==
  ASSUME SearchInv, search' \in {"fatal", "crashed"},
         UNCHANGED <<tree, arg, queue, dir, unread, sources>>
  PROVE  SearchInv'
<1>1. PathsInv /\ ~GoesWell' /\ ~Reading'
  BY DEF SearchInv, GoesWell, Reading
<1>2. PathsInv'
  BY <1>1, PathsStay DEF PathsInv, tree
<1> QED
  BY <1>1, <1>2 DEF SearchInv

LEMMA SkipKeeps == ASSUME SearchInv, SkipOption PROVE SearchInv'
<1>1. /\ search = "argument" /\ arg <= Len(argv) /\ argv[arg] \in Options /\ arg' = arg + 1
      /\ UNCHANGED <<disk, gone, argv, search, queue, dir, unread, sources>>
  BY DEF SkipOption, At, NextArg, tree
<1>2. PathsInv /\ BelowInv /\ LevelsInv /\ PassedInv /\ OriginInv
  BY <1>1 DEF SearchInv, GoesWell
<1>3. arg \in 1..(Len(argv) + 2) /\ Len(argv) \in Nat
  BY <1>2, LenProperties DEF PathsInv
<1>4. ~Reading /\ ~Reading' /\ ~InDefault /\ ~InDefault'
  BY <1>1, <1>3 DEF Reading, InDefault
<1>5. PathsInv'
  BY <1>1, <1>2, <1>3, <1>4, PathsStay DEF PathsInv
<1>6. BelowInv'
  BY <1>1, <1>4 DEF BelowInv, Reading
<1>7. LevelsInv'
  BY <1>1, <1>2 DEF LevelsInv
<1>8. PassedInv'
  <2>1. \A a \in DOMAIN argv : a < arg' => a < arg \/ a = arg
    <3>1. DOMAIN argv = 1..Len(argv)
      BY <1>2, LenProperties DEF PathsInv
    <3> QED
      BY <1>1, <1>3, <3>1
  <2>2. \A q : ~Leads(disk, argv, arg, q)
    BY <1>1 DEF Leads
  <2>3. \A a \in DOMAIN argv : a < arg' =>
          \A q \in DOMAIN disk : Leads(disk, argv, a, q) => q \in Found \cup gone
    BY <1>2, <2>1, <2>2 DEF PassedInv
  <2>4. arg' # Len(argv) + 2
    BY <1>1, <1>3
  <2> QED
    BY <1>1, <1>4, <2>3, <2>4 DEF PassedInv, Found
<1>9. OriginInv'
  <2>1. \A a \in DOMAIN argv : a < arg => a < arg'
    <3>1. DOMAIN argv = 1..Len(argv)
      BY <1>2, LenProperties DEF PathsInv
    <3> QED
      BY <1>1, <1>3, <3>1
  <2>2. \A k \in DOMAIN sources : \E a \in DOMAIN argv :
          LeadsFirst(disk, argv, a, sources[k]) /\ a < arg'
    BY <1>2, <1>4, <2>1 DEF OriginInv, FoundAt
  <2>3. \A k, l \in DOMAIN sources : k < l => Follows(sources[k], sources[l])'
    BY <1>1, <1>2, <1>4 DEF OriginInv, Follows
  <2> QED
    BY <1>1, <1>4, <2>2, <2>3 DEF OriginInv, FoundAt
<1> QED
  BY <1>5, <1>6, <1>7, <1>8, <1>9 DEF SearchInv

LEMMA DoneKeeps == ASSUME SearchInv, ArgumentsDone PROVE SearchInv'
<1>1. /\ search = "argument" /\ arg > Len(argv) /\ ~WithoutFiles /\ search' = "found"
      /\ UNCHANGED <<disk, gone, argv, arg, queue, dir, unread, sources>>
  BY DEF ArgumentsDone, tree
<1>2. PathsInv /\ BelowInv /\ LevelsInv /\ PassedInv /\ OriginInv
  BY <1>1 DEF SearchInv, GoesWell
<1>3. ~Reading /\ ~Reading' /\ (InDefault' <=> InDefault)
  BY <1>1 DEF Reading, InDefault
<1>4. PathsInv'
  BY <1>1, <1>2, <1>3, PathsStay DEF PathsInv
<1>5. BelowInv' /\ LevelsInv' /\ PassedInv'
  BY <1>1, <1>2, <1>3 DEF BelowInv, LevelsInv, PassedInv, Found
<1>6. OriginInv'
  <2>1. \A k \in DOMAIN sources : ~InDefault =>
          \E a \in DOMAIN argv : LeadsFirst(disk, argv, a, sources[k]) /\ a < arg
    BY <1>2, <1>3 DEF OriginInv, FoundAt
  <2>2. \A k, l \in DOMAIN sources : ~InDefault /\ k < l => Follows(sources[k], sources[l])'
    BY <1>1, <1>2, <1>3 DEF OriginInv, Follows
  <2>3. arg = Len(argv) + 1 => sources # <<>>
    BY <1>1 DEF WithoutFiles
  <2>4. InDefault =>
          /\ \A a \in DOMAIN argv : \A q \in DOMAIN disk : Leads(disk, argv, a, q) => q \in gone
          /\ \A k \in DOMAIN sources :
               /\ sources[k] \in TestsBelow(disk, Target(DefaultTests))
               /\ \A a \in DOMAIN argv : ~Leads(disk, argv, a, sources[k])
    BY <1>2 DEF OriginInv
  <2> QED
    BY <1>1, <1>3, <2>1, <2>2, <2>3, <2>4 DEF OriginInv, FoundAt
<1> QED
  BY <1>4, <1>5, <1>6 DEF SearchInv

LEMMA EnterKeeps == ASSUME SearchInv, EnterDirectory PROVE SearchInv'
<1>1. /\ search = "argument" /\ Exists(Root) /\ IsDir(Root) /\ queue' = <<Root>>
      /\ \/ arg <= Len(argv) /\ argv[arg] \notin Options
         \/ arg = Len(argv) + 1 /\ ~(arg <= Len(argv)) /\ sources = <<>>
      /\ search' = "directory"
      /\ UNCHANGED <<disk, gone, argv, arg, dir, unread, sources>>
  <2>1. PICK p \in NextPath : Exists(p) /\ IsDir(p) /\ queue' = <<p>>
    BY DEF EnterDirectory
  <2>2. CASE search = "argument" /\ arg <= Len(argv) /\ argv[arg] \notin Options
    BY <2>1, <2>2 DEF NextPath, Root, EnterDirectory, tree
  <2>3. CASE ~(search = "argument" /\ arg <= Len(argv) /\ argv[arg] \notin Options)
             /\ search = "argument" /\ WithoutFiles
    <3>1. NextPath = {Target(DefaultTests)}
      BY <2>3 DEF NextPath
    <3>2. arg = Len(argv) + 1 /\ sources = <<>>
      BY <2>3 DEF WithoutFiles
    <3>3. PathsInv
      BY DEF SearchInv
    <3>4. ~(arg <= Len(argv))
      <4>1. Len(argv) \in Nat
        BY <3>3, LenProperties DEF PathsInv
      <4> QED
        BY <3>2, <4>1
    <3> QED
      BY <2>1, <2>3, <3>1, <3>2, <3>4 DEF Root, EnterDirectory, tree
  <2> QED
    BY <2>1, <2>2, <2>3 DEF NextPath
<1>2. PathsInv /\ BelowInv /\ LevelsInv /\ PassedInv /\ OriginInv
  BY <1>1 DEF SearchInv, GoesWell
<1>3. arg \in 1..(Len(argv) + 2) /\ Len(argv) \in Nat /\ DOMAIN argv = 1..Len(argv)
  BY <1>2, LenProperties DEF PathsInv
<1>4. Root \in DOMAIN disk /\ Directory(disk, Root) /\ Root' = Root /\ Reading' /\ ~Reading
  BY <1>1 DEF Exists, IsDir, Directory, Root, Reading
<1>5. Root \in Seq(Names)
  BY <1>2, <1>4, TreeFacts DEF PathsInv
<1>6. DOMAIN queue' = {1} /\ queue'[1] = Root /\ queue' # <<>>
  BY <1>1
<1>7. PathsInv'
  <2> DEFINE D == {p \in DOMAIN disk : Directory(disk, p)}
  <2>1. Root \in D
    BY <1>4
  <2> HIDE DEF D
  <2>2. <<Root>> \in Seq(D)
    BY <2>1
  <2>3. queue' \in Seq({p \in DOMAIN disk' : Directory(disk', p)})
    BY <1>1, <2>2 DEF D
  <2>4. arg' <= Len(argv') + 1
    BY <1>1, <1>3
  <2> QED
    BY <1>1, <1>2, <2>3, <2>4 DEF PathsInv
<1>8. BelowInv'
  <2>1. Within(Root, Root)
    BY <1>5, WithinItself
  <2>2. arg <= Len(argv) => argv[arg] \notin Options
    BY <1>1
  <2> QED
    BY <1>1, <1>4, <1>6, <2>1, <2>2 DEF BelowInv
<1>9. LevelsInv'
  <2>1. Len(Root) \in Nat
    BY <1>5, LenProperties
  <2> QED
    BY <1>1, <1>6, <2>1 DEF LevelsInv
<1>10. PassedInv'
  <2>1. \A q \in TestsBelow(disk, Root) : Awaits(q)'
    <3>1. \A q \in TestsBelow(disk, Root) : Within(Root, q) /\ Len(Root) < Len(q)
      BY <1>2, <1>4, BelowIsWithin DEF PathsInv
    <3> QED
      BY <1>6, <3>1 DEF Awaits
  <2>2. arg' # Len(argv') + 2
    BY <1>1, <1>3
  <2>3. \A q \in TestsBelow(disk', Root') : q \in Found' \cup gone' \/ Awaits(q)'
    BY <1>1, <1>4, <2>1
  <2> QED
    BY <1>1, <1>2, <2>2, <2>3 DEF PassedInv, Found
<1>11. OriginInv'
  <2>1. CASE arg <= Len(argv)
    <3>1. ~InDefault /\ ~InDefault'
      BY <1>1, <1>3, <1>4, <2>1 DEF InDefault
    <3>2. \A k \in DOMAIN sources :
            \E a \in DOMAIN argv : LeadsFirst(disk, argv, a, sources[k]) /\ a < arg
      BY <1>2, <1>4, <3>1 DEF OriginInv, FoundAt
    <3>3. \A k, l \in DOMAIN sources : k < l => Follows(sources[k], sources[l])'
      BY <1>1, <1>2, <3>1 DEF OriginInv, Follows
    <3> QED
      BY <1>1, <3>1, <3>2, <3>3 DEF OriginInv, FoundAt
  <2>2. CASE ~(arg <= Len(argv))
    <3>1. arg = Len(argv) + 1 /\ sources = <<>> /\ InDefault'
      BY <1>1, <1>4, <2>2 DEF InDefault
    <3>2. Found = {}
      BY <3>1 DEF Found
    <3>3. \A a \in DOMAIN argv : a < arg
      BY <1>3, <3>1
    <3>4. \A a \in DOMAIN argv : \A q \in DOMAIN disk : Leads(disk, argv, a, q) => q \in gone
      BY <1>2, <3>2, <3>3 DEF PassedInv
    <3>5. DOMAIN sources = {}
      BY <3>1
    <3> QED
      BY <1>1, <3>1, <3>4, <3>5 DEF OriginInv
  <2> QED
    BY <2>1, <2>2
<1> QED
  BY <1>7, <1>8, <1>9, <1>10, <1>11 DEF SearchInv

LEMMA CloseKeeps == ASSUME SearchInv, CloseDirectory PROVE SearchInv'
<1>1. /\ search = "entries" /\ unread = {} /\ search' = "directory"
      /\ UNCHANGED <<disk, gone, argv, arg, queue, dir, unread, sources>>
  BY DEF CloseDirectory, tree
<1>2. PathsInv /\ BelowInv /\ LevelsInv /\ PassedInv /\ OriginInv
  BY <1>1 DEF SearchInv, GoesWell
<1>3. Reading /\ Reading' /\ (InDefault' <=> InDefault) /\ Root' = Root
  BY <1>1 DEF Reading, InDefault, Root
<1>4. PathsInv'
  BY <1>1, <1>2, <1>3, PathsStay DEF PathsInv
<1>5. BelowInv'
  BY <1>1, <1>2, <1>3 DEF BelowInv
<1>6. dir \in DOMAIN disk /\ Len(dir) \in Nat
  BY <1>1, <1>2, TreeFacts DEF BelowInv, PathsInv
<1>7. \A i \in DOMAIN queue : Len(queue[i]) \in Nat
  <2>1. \A i \in DOMAIN queue : queue[i] \in DOMAIN disk
    BY <1>2, LenProperties, ElementOfSeq DEF PathsInv
  <2> QED
    BY <1>2, <2>1, TreeFacts DEF PathsInv
<1>8. queue # <<>> => 1 \in DOMAIN queue
  <2>1. queue # <<>> => Len(queue) \in Nat \ {0} /\ DOMAIN queue = 1..Len(queue)
    BY <1>2, EmptySeq, LenProperties DEF PathsInv
  <2> QED
    BY <2>1
<1>9. \A i \in DOMAIN queue : queue # <<>>
  OBVIOUS
<1>10. LevelsInv'
  <2>1. \A i \in DOMAIN queue : Len(dir) <= Len(queue[i]) /\ Len(queue[i]) <= Len(dir) + 1
    BY <1>1, <1>2 DEF LevelsInv
  <2>2. \A i \in DOMAIN queue : Len(queue[i]) <= Len(queue[1]) + 1
    BY <1>6, <1>7, <1>8, <1>9, <2>1
  <2>3. \A i, j \in DOMAIN queue : i <= j => Len(queue[i]) <= Len(queue[j])
    BY <1>2 DEF LevelsInv
  <2> QED
    BY <1>1, <2>2, <2>3 DEF LevelsInv
<1>11. PassedInv'
  <2>1. \A q : Awaits(q) => Awaits(q)'
    BY <1>1 DEF Awaits
  <2> QED
    BY <1>1, <1>2, <1>3, <2>1 DEF PassedInv, Found
<1>12. OriginInv'
  <2>1. \A p \in DOMAIN disk : Near(p) => Near(p)'
    <3> SUFFICES ASSUME NEW p \in DOMAIN disk, Near(p), queue # <<>> PROVE Len(p) <= Len(queue[1]) + 1
      BY <1>1 DEF Near
    <3>1. Len(p) \in Nat /\ Len(p) <= Len(dir) + 1
      BY <1>1, <1>2, TreeFacts DEF Near, PathsInv
    <3>2. Len(dir) <= Len(queue[1]) /\ Len(queue[1]) \in Nat
      BY <1>1, <1>2, <1>7, <1>8 DEF LevelsInv
    <3> QED
      BY <1>6, <3>1, <3>2
  <2>2. \A k \in DOMAIN sources : sources[k] \in DOMAIN disk
    BY <1>2, LenProperties, ElementOfSeq DEF PathsInv
  <2>3. ~InDefault => \A k \in DOMAIN sources : \E a \in DOMAIN argv :
          /\ LeadsFirst(disk, argv, a, sources[k])
          /\ a < arg \/ (a = arg /\ Near(sources[k])')
    BY <1>1, <1>2, <1>3, <2>1, <2>2 DEF OriginInv, FoundAt
  <2>4. ~InDefault =>
          \A k, l \in DOMAIN sources : k < l => Follows(sources[k], sources[l])'
    BY <1>1, <1>2 DEF OriginInv, Follows
  <2>5. \A k \in DOMAIN sources : ~InDefault => \E a \in DOMAIN argv : FoundAt(sources[k], a)'
    BY <1>1, <1>3, <2>3 DEF FoundAt
  <2> QED
    BY <1>1, <1>2, <1>3, <2>4, <2>5 DEF OriginInv
<1> QED
  BY <1>4, <1>5, <1>10, <1>11, <1>12 DEF SearchInv

LEMMA LeaveKeeps == ASSUME SearchInv, DirectoryDone PROVE SearchInv'
<1>1. /\ search = "directory" /\ queue = <<>> /\ search' = "argument" /\ arg' = arg + 1
      /\ UNCHANGED <<disk, gone, argv, queue, dir, unread, sources>>
  BY DEF DirectoryDone, tree
<1>2. PathsInv /\ BelowInv /\ LevelsInv /\ PassedInv /\ OriginInv
  BY <1>1 DEF SearchInv, GoesWell
<1>3. /\ arg \in 1..(Len(argv) + 1) /\ Len(argv) \in Nat /\ DOMAIN argv = 1..Len(argv)
      /\ Reading /\ ~Reading'
  <2>1. Reading /\ ~Reading'
    BY <1>1 DEF Reading
  <2>2. Len(argv) \in Nat /\ DOMAIN argv = 1..Len(argv)
    BY <1>2, LenProperties DEF PathsInv
  <2> QED
    BY <1>2, <2>1, <2>2 DEF PathsInv
<1>4. InDefault' <=> InDefault
  BY <1>1, <1>3 DEF InDefault
<1>5. PathsInv'
  BY <1>1, <1>2, <1>3, PathsStay DEF PathsInv
<1>6. BelowInv' /\ LevelsInv'
  BY <1>1, <1>2, <1>3 DEF BelowInv, LevelsInv
<1>7. \A q \in TestsBelow(disk, Root) : q \in Found \cup gone
  <2>1. \A q : ~Awaits(q)
    BY <1>1 DEF Awaits
  <2> QED
    BY <1>2, <1>3, <2>1 DEF PassedInv
<1>8. PassedInv'
  <2>1. ASSUME NEW a \in DOMAIN argv, a < arg', NEW q \in DOMAIN disk, Leads(disk, argv, a, q)
        PROVE  q \in Found \cup gone
    <3>1. CASE a < arg
      BY <1>2, <2>1, <3>1 DEF PassedInv
    <3>2. CASE a = arg
      <4>1. Root = Target(argv[a])
        BY <1>3, <2>1, <3>2 DEF Root
      <4>2. q \in TestsBelow(disk, Root)
        BY <1>2, <1>3, <2>1, <4>1, LeadsFacts DEF BelowInv
      <4> QED
        BY <1>7, <4>2
    <3> QED
      BY <1>1, <1>3, <2>1, <3>1, <3>2
  <2>2. arg' = Len(argv) + 2 => Root = Target(DefaultTests)
    BY <1>1, <1>3 DEF Root
  <2> QED
    BY <1>1, <1>3, <1>7, <2>1, <2>2 DEF PassedInv, Found
<1>9. OriginInv'
  <2>1. \A a \in DOMAIN argv : a <= arg => a < arg'
    BY <1>1, <1>3
  <2>2. ~InDefault => \A k \in DOMAIN sources :
          \E a \in DOMAIN argv : LeadsFirst(disk, argv, a, sources[k]) /\ a < arg'
    <3>1. \A a \in DOMAIN argv : a < arg \/ a = arg => a < arg'
      BY <1>1, <1>3
    <3> QED
      BY <1>2, <3>1 DEF OriginInv, FoundAt
  <2>3. ~InDefault =>
          \A k, l \in DOMAIN sources : k < l => Follows(sources[k], sources[l])'
    BY <1>1, <1>2 DEF OriginInv, Follows
  <2>4. \A k \in DOMAIN sources : ~InDefault => \E a \in DOMAIN argv : FoundAt(sources[k], a)'
    BY <1>1, <2>2 DEF FoundAt
  <2> QED
    BY <1>1, <1>2, <1>4, <2>3, <2>4 DEF OriginInv
<1> QED
  BY <1>5, <1>6, <1>8, <1>9 DEF SearchInv

LEMMA DirectoriesStay ==
  ASSUME PathsInv, NEW p \in DOMAIN disk, Directory(disk, p) PROVE p \notin gone
  BY TreeAssumption DEF PathsInv, Directory

LEMMA OpenKeeps == ASSUME SearchInv, OpenDirectory PROVE SearchInv'
<1>1. /\ search = "directory" /\ queue # <<>> /\ dir' = Head(queue) /\ queue' = Tail(queue)
      /\ unread' = Entries(Head(queue)) /\ search' = "entries"
      /\ UNCHANGED <<disk, gone, argv, arg, sources>>
  BY DEF OpenDirectory, tree
<1>2. PathsInv /\ BelowInv /\ LevelsInv /\ PassedInv /\ OriginInv
  BY <1>1 DEF SearchInv, GoesWell
<1>3. Reading /\ Reading' /\ (InDefault' <=> InDefault) /\ Root' = Root
  BY <1>1 DEF Reading, InDefault, Root
<1> DEFINE D == {p \in DOMAIN disk : Directory(disk, p)}
<1>4. queue \in Seq(D) /\ disk \in Disks
  BY <1>2 DEF PathsInv
<1>d. \A p \in D : p \in DOMAIN disk /\ Directory(disk, p)
  OBVIOUS
<1> HIDE DEF D
<1>5. /\ Len(queue) \in Nat \ {0} /\ DOMAIN queue = 1..Len(queue)
      /\ queue' \in Seq(D) /\ Len(queue') = Len(queue) - 1 /\ DOMAIN queue' = 1..(Len(queue) - 1)
      /\ \A i \in 1..(Len(queue) - 1) : queue'[i] = queue[i + 1]
      /\ Head(queue) = queue[1]
  <2>1. /\ queue' \in Seq(D) /\ Len(queue') = Len(queue) - 1
        /\ \A i \in 1..(Len(queue) - 1) : queue'[i] = queue[i + 1]
    BY <1>1, <1>4, HeadTailProperties
  <2>2. Len(queue) \in Nat \ {0} /\ DOMAIN queue = 1..Len(queue)
    BY <1>1, <1>4, EmptySeq, LenProperties
  <2>3. DOMAIN queue' = 1..(Len(queue) - 1)
    BY <2>1, LenProperties
  <2> QED
    BY <2>1, <2>2, <2>3
<1>6. \A i \in 1..Len(queue) : queue[i] \in D
  BY <1>4, ElementOfSeq
<1> DEFINE h == queue[1]
<1>7. 1 \in DOMAIN queue /\ h \in DOMAIN disk /\ Directory(disk, h)
  BY <1>5, <1>6, <1>d
<1>8. dir' = h /\ unread' = Entries(h)
  BY <1>1, <1>5
<1>9. /\ Entries(h) \subseteq [name : Names \cup {".", ".."}, kind : Kinds]
      /\ \A e \in Entries(h) :
           IF Skipped(e.name) THEN e.kind = "directory"
           ELSE Append(h, e.name) \in DOMAIN disk /\ disk[Append(h, e.name)] = e.kind
      /\ \A r \in DOMAIN disk \ gone : r # <<>> /\ SubSeq(r, 1, Len(r) - 1) = h =>
           \E e \in Entries(h) : e.name = r[Len(r)]
  BY <1>4, <1>7, EntriesFacts
<1> HIDE DEF h
<1>10. \A i \in 1..(Len(queue) - 1) : i + 1 \in 1..Len(queue) /\ i + 1 # 1
  BY <1>5
<1>11. PathsInv'
  <2>1. queue' \in Seq({p \in DOMAIN disk' : Directory(disk', p)})
    BY <1>1, <1>5 DEF D
  <2> QED
    BY <1>1, <1>2, <1>3, <1>7, <1>8, <1>9, <2>1 DEF PathsInv
<1>12. BelowInv'
  <2>1. Within(Root, h) /\ \A i \in DOMAIN queue : Within(Root, queue[i])
    BY <1>2, <1>3, <1>7 DEF BelowInv, h
  <2>2. \A i \in DOMAIN queue' : Within(Root, queue'[i])
    BY <1>5, <1>10, <2>1
  <2> QED
    BY <1>1, <1>2, <1>3, <1>7, <1>8, <1>9, <2>1, <2>2 DEF BelowInv
<1>13. LevelsInv'
  <2>1. \A i, j \in DOMAIN queue : i <= j => Len(queue[i]) <= Len(queue[j])
    BY <1>2 DEF LevelsInv
  <2>2. \A i \in DOMAIN queue : Len(queue[i]) <= Len(h) + 1 /\ Len(h) <= Len(queue[i])
    <3>1. \A i \in DOMAIN queue : 1 <= i
      BY <1>5
    <3> QED
      BY <1>1, <1>2, <1>7, <2>1, <3>1 DEF LevelsInv, h
  <2>3. \A i \in DOMAIN queue' : Len(h) <= Len(queue'[i]) /\ Len(queue'[i]) <= Len(h) + 1
    BY <1>5, <1>10, <2>2
  <2>4. \A i, j \in DOMAIN queue' : i <= j => Len(queue'[i]) <= Len(queue'[j])
    <3>1. \A i, j \in 1..(Len(queue) - 1) : i <= j => i + 1 <= j + 1
      BY <1>5
    <3> QED
      BY <1>5, <1>10, <2>1, <3>1
  <2> QED
    BY <1>1, <1>8, <2>3, <2>4 DEF LevelsInv
<1>14. PassedInv'
  <2>1. ASSUME NEW q \in TestsBelow(disk, Root), q \notin Found \cup gone PROVE Awaits(q)'
    <3>1. PICK i \in DOMAIN queue : Within(queue[i], q) /\ Len(queue[i]) < Len(q)
      BY <1>1, <1>2, <1>3, <2>1 DEF PassedInv, Awaits
    <3>2. CASE i = 1
      <4>1. q \in DOMAIN disk /\ Within(h, q) /\ Len(h) < Len(q)
        BY <3>1, <3>2 DEF TestsBelow, h
      <4> DEFINE r == SubSeq(q, 1, Len(h) + 1)
      <4>2. /\ r \in DOMAIN disk /\ Append(h, r[Len(r)]) = r /\ Within(r, q)
            /\ r # <<>> /\ SubSeq(r, 1, Len(r) - 1) = h
            /\ r = q \/ Directory(disk, r)
        BY <1>4, <1>7, <4>1, OnTheWay
      <4> HIDE DEF r
      <4>3. r \notin gone
        BY <1>2, <2>1, <4>2, DirectoriesStay
      <4>4. PICK e \in Entries(h) : e.name = r[Len(r)]
        BY <1>9, <4>2, <4>3
      <4>5. Append(h, e.name) = r
        BY <4>2, <4>4
      <4> QED
        BY <1>1, <1>8, <4>2, <4>4, <4>5 DEF Awaits
    <3>3. CASE i # 1
      <4>1. i - 1 \in 1..(Len(queue) - 1) /\ (i - 1) + 1 = i
        BY <1>5, <3>3
      <4>2. i - 1 \in DOMAIN queue' /\ queue'[i - 1] = queue[i]
        BY <1>5, <4>1
      <4> QED
        BY <3>1, <4>2 DEF Awaits
    <3> QED
      BY <3>2, <3>3
  <2>2. \A q \in TestsBelow(disk', Root') : q \in Found' \cup gone' \/ Awaits(q)'
    BY <1>1, <1>3, <2>1 DEF Found
  <2> QED
    BY <1>1, <1>2, <2>2 DEF PassedInv, Found
<1>15. OriginInv'
  <2>1. \A p : Near(p) => Near(p)'
    BY <1>1, <1>8 DEF Near, h
  <2>3. ~InDefault => \A k \in DOMAIN sources : \E a \in DOMAIN argv :
          /\ LeadsFirst(disk, argv, a, sources[k])
          /\ a < arg \/ (a = arg /\ Near(sources[k])')
    BY <1>1, <1>2, <1>3, <2>1 DEF OriginInv, FoundAt
  <2>4. ~InDefault =>
          \A k, l \in DOMAIN sources : k < l => Follows(sources[k], sources[l])'
    BY <1>1, <1>2 DEF OriginInv, Follows
  <2>5. \A k \in DOMAIN sources : ~InDefault => \E a \in DOMAIN argv : FoundAt(sources[k], a)'
    BY <1>1, <1>3, <2>3 DEF FoundAt
  <2> QED
    BY <1>1, <1>2, <1>3, <2>4, <2>5 DEF OriginInv
<1> QED
  BY <1>11, <1>12, <1>13, <1>14, <1>15 DEF SearchInv

\* A file is added at the end, unless it is there.
LEMMA FetchGrows ==
  ASSUME PathsInv, NEW p, Fetch(p)
  PROVE  /\ p \in DOMAIN disk /\ p \notin gone
         /\ sources' \in Seq(DOMAIN disk)
         /\ \A k, l \in DOMAIN sources' : sources'[k] = sources'[l] => k = l
         /\ Found' = Found \cup {p}
         /\ \A k \in DOMAIN sources' :
              \/ k \in DOMAIN sources /\ sources'[k] = sources[k]
              \/ sources'[k] = p /\ p \notin Found
         /\ \A k, l \in DOMAIN sources' : k < l => k \in DOMAIN sources /\ sources'[k] = sources[k]
<1>1. p \in DOMAIN disk /\ p \notin gone
  BY DEF Fetch, Exists
<1>2. sources \in Seq(DOMAIN disk) /\ \A k, l \in DOMAIN sources : sources[k] = sources[l] => k = l
  BY DEF PathsInv
<1>3. Len(sources) \in Nat /\ DOMAIN sources = 1..Len(sources)
  BY <1>2, LenProperties
<1>4. CASE Known(p)
  <2>1. sources' = sources
    BY <1>4 DEF Fetch
  <2>2. p \in Found
    BY <1>4 DEF Known, Found
  <2>3. Found' = Found
    BY <2>1 DEF Found
  <2> QED
    BY <1>1, <1>2, <2>1, <2>2, <2>3
<1>5. CASE ~Known(p)
  <2>1. sources' = Append(sources, p)
    BY <1>5 DEF Fetch
  <2>2. /\ sources' \in Seq(DOMAIN disk)
        /\ DOMAIN sources' = 1..(Len(sources) + 1)
        /\ \A k \in 1..Len(sources) : sources'[k] = sources[k]
        /\ sources'[Len(sources) + 1] = p
    BY <1>1, <1>2, <2>1, SeqGrows
  <2>3. p \notin Found /\ \A k \in 1..Len(sources) : sources[k] # p
    BY <1>3, <1>5 DEF Known, Found
  <2>4. \A k \in DOMAIN sources' : k \in 1..Len(sources) \/ k = Len(sources) + 1
    BY <1>3, <2>2
  <2>5. \A k, l \in DOMAIN sources' : sources'[k] = sources'[l] => k = l
    BY <1>2, <1>3, <2>2, <2>3, <2>4
  <2>6. Found' = Found \cup {p}
    <3>1. Found' = {sources'[k] : k \in 1..(Len(sources) + 1)}
      BY <2>2 DEF Found
    <3>2. Found = {sources[k] : k \in 1..Len(sources)}
      BY <1>3 DEF Found
    <3>3. \A k \in 1..Len(sources) : k \in 1..(Len(sources) + 1)
      BY <1>3
    <3>4. Len(sources) + 1 \in 1..(Len(sources) + 1)
      BY <1>3
    <3> QED
      BY <2>2, <2>4, <3>1, <3>2, <3>3, <3>4
  <2>7. \A k, l \in DOMAIN sources' : k < l => k \in 1..Len(sources)
    BY <1>3, <2>2
  <2>8. \A k \in DOMAIN sources' :
          \/ k \in DOMAIN sources /\ sources'[k] = sources[k]
          \/ sources'[k] = p /\ p \notin Found
    BY <1>3, <2>2, <2>3, <2>4
  <2> QED
    BY <1>1, <1>3, <2>2, <2>5, <2>6, <2>7, <2>8
<1> QED
  BY <1>4, <1>5

\* Where arguments led to files, a new one was not led to before.
LEMMA FetchedFirst ==
  ASSUME PathsInv, PassedInv, NEW p \in DOMAIN disk, p \notin Found, p \notin gone,
         Leads(disk, argv, arg, p)
  PROVE  LeadsFirst(disk, argv, arg, p)
<1>1. arg \in 1..(Len(argv) + 2) /\ DOMAIN argv = 1..Len(argv) /\ Len(argv) \in Nat
  BY LenProperties DEF PathsInv
<1>2. ASSUME NEW b \in DOMAIN argv, Leads(disk, argv, b, p) PROVE arg <= b
  <2>1. ~(b < arg)
    BY <1>2 DEF PassedInv
  <2> QED
    BY <1>1, <2>1
<1> QED
  BY <1>2 DEF LeadsFirst

LEMMA GivenFetch ==
  ASSUME PathsInv, PassedInv, OriginInv, ~InDefault, ~InDefault', UNCHANGED <<disk, argv>>,
         NEW p, Fetch(p), Leads(disk, argv, arg, p), search' # "found",
         \A q \in DOMAIN disk : \A a \in DOMAIN argv : FoundAt(q, a) => FoundAt(q, a)',
         \A a \in DOMAIN argv : a = arg /\ LeadsFirst(disk, argv, a, p) => FoundAt(p, a)',
         \A q \in DOMAIN disk : FoundAt(q, arg) => Len(q) <= Len(p)
  PROVE  OriginInv'
<1>1. /\ p \in DOMAIN disk /\ p \notin gone
      /\ \A k \in DOMAIN sources' :
              \/ k \in DOMAIN sources /\ sources'[k] = sources[k]
              \/ sources'[k] = p /\ p \notin Found
      /\ \A k, l \in DOMAIN sources' : k < l => k \in DOMAIN sources /\ sources'[k] = sources[k]
  BY FetchGrows
<1>2. arg \in DOMAIN argv /\ (p \notin Found => LeadsFirst(disk, argv, arg, p))
  BY <1>1, FetchedFirst, LeadsFacts
<1>3. \A k \in DOMAIN sources : sources[k] \in DOMAIN disk
  BY LenProperties, ElementOfSeq DEF PathsInv
<1>4. \A k \in DOMAIN sources : \E a \in DOMAIN argv : FoundAt(sources[k], a)
  BY DEF OriginInv
<1>5. ASSUME NEW k \in DOMAIN sources'
      PROVE  \E a \in DOMAIN argv : FoundAt(sources[k], a)'
  <2>0. PICK q : q = sources'[k]
    OBVIOUS
  <2>1. CASE k \in DOMAIN sources /\ sources'[k] = sources[k]
    <3>1. PICK a \in DOMAIN argv : FoundAt(sources[k], a)
      BY <1>4, <2>1
    <3>2. q \in DOMAIN disk /\ FoundAt(q, a)
      BY <1>3, <2>0, <2>1, <3>1
    <3>3. FoundAt(q, a)'
      BY <3>2
    <3>4. FoundAt(sources[k], a)'
      BY <2>0, <3>3 DEF FoundAt, Near
    <3> QED
      BY <3>4
  <2>2. CASE sources'[k] = p /\ p \notin Found
    <3>1. PICK a \in DOMAIN argv : a = arg
      BY <1>2
    <3>2. FoundAt(p, a)'
      BY <1>2, <2>2, <3>1
    <3>3. FoundAt(sources[k], a)'
      BY <2>2, <3>2 DEF FoundAt, Near
    <3> QED
      BY <3>3
  <2> QED
    BY <1>1, <2>1, <2>2
<1>6. ASSUME NEW k \in DOMAIN sources', NEW l \in DOMAIN sources', k < l
      PROVE  Follows(sources[k], sources[l])'
  <2>1. k \in DOMAIN sources /\ sources'[k] = sources[k]
    BY <1>1, <1>6
  <2>2. CASE l \in DOMAIN sources /\ sources'[l] = sources[l]
    <3>1. Follows(sources[k], sources[l])
      BY <1>6, <2>1, <2>2 DEF OriginInv
    <3> QED
      BY <2>1, <2>2, <3>1 DEF Follows
  <2>3. CASE sources'[l] = p /\ p \notin Found
    <3>1. PICK a \in DOMAIN argv : FoundAt(sources[k], a)
      BY <1>4, <2>1
    <3>2. LeadsFirst(disk, argv, a, sources[k]) /\ (a < arg \/ a = arg)
      BY <3>1 DEF FoundAt
    <3>3. a = arg => Len(sources[k]) <= Len(p)
      BY <1>3, <2>1, <3>1
    <3>4. \/ a < arg
          \/ a = arg /\ Len(sources[k]) <= Len(p)
      BY <3>2, <3>3
    <3> QED
      BY <1>2, <2>1, <2>3, <3>2, <3>4 DEF Follows
  <2> QED
    BY <1>1, <2>2, <2>3
<1> QED
  BY <1>5, <1>6 DEF OriginInv

\* The arguments led to no file, so none of those that are found is one of theirs.
LEMMA DefaultFetch ==
  ASSUME PathsInv, OriginInv, InDefault, InDefault', UNCHANGED <<disk, gone, argv>>,
         NEW p, Fetch(p), p \in TestsBelow(disk, Target(DefaultTests)), search' # "found"
  PROVE  OriginInv'
<1>1. /\ p \in DOMAIN disk /\ p \notin gone
      /\ \A k \in DOMAIN sources' :
              \/ k \in DOMAIN sources /\ sources'[k] = sources[k]
              \/ sources'[k] = p /\ p \notin Found
  BY FetchGrows
<1>2. /\ \A a \in DOMAIN argv : \A q \in DOMAIN disk : Leads(disk, argv, a, q) => q \in gone
      /\ \A k \in DOMAIN sources :
           /\ sources[k] \in TestsBelow(disk, Target(DefaultTests))
           /\ \A a \in DOMAIN argv : ~Leads(disk, argv, a, sources[k])
  BY DEF OriginInv
<1>3. \A a \in DOMAIN argv : ~Leads(disk, argv, a, p)
  BY <1>1, <1>2
<1>4. \A k \in DOMAIN sources' :
        /\ sources'[k] \in TestsBelow(disk, Target(DefaultTests))
        /\ \A a \in DOMAIN argv : ~Leads(disk, argv, a, sources'[k])
  BY <1>1, <1>2, <1>3
<1> QED
  BY <1>2, <1>4 DEF OriginInv

LEMMA NamedKeeps == ASSUME SearchInv, FetchNamed PROVE SearchInv'
<1>1. PICK p \in NextPath :
        /\ p \in DOMAIN disk /\ ~IsDir(p)
        /\ \/ Fetch(p) /\ arg' = NextArg /\ UNCHANGED <<tree, search, queue, dir, unread>>
           \/ Overruns(p)
  BY DEF FetchNamed
<1>2. /\ search = "argument" /\ arg <= Len(argv) /\ argv[arg] \notin Options
      /\ p = Target(argv[arg])
  BY <1>1 DEF FetchNamed, NextPath
<1>3. CASE Overruns(p)
  BY <1>3, FailureKeeps DEF Overruns
<1>4. CASE Fetch(p) /\ arg' = NextArg /\ UNCHANGED <<tree, search, queue, dir, unread>>
  <2>1. PathsInv /\ BelowInv /\ LevelsInv /\ PassedInv /\ OriginInv
    BY <1>2 DEF SearchInv, GoesWell
  <2>2. arg' = arg + 1 /\ UNCHANGED <<disk, gone, argv, search, queue, dir, unread>>
    BY <1>4 DEF NextArg, tree
  <2>3. arg \in DOMAIN argv /\ Len(argv) \in Nat /\ DOMAIN argv = 1..Len(argv)
    <3>1. Len(argv) \in Nat /\ DOMAIN argv = 1..Len(argv) /\ arg \in 1..(Len(argv) + 2)
      BY <2>1, LenProperties DEF PathsInv
    <3> QED
      BY <1>2, <3>1
  <2>4. ~Reading /\ ~Reading' /\ ~InDefault /\ ~InDefault'
    BY <1>2, <2>2, <2>3 DEF Reading, InDefault
  <2>5. /\ p \notin gone /\ sources' \in Seq(DOMAIN disk)
        /\ \A k, l \in DOMAIN sources' : sources'[k] = sources'[l] => k = l
        /\ Found' = Found \cup {p}
    BY <1>4, <2>1, FetchGrows
  <2>6. \A q : Leads(disk, argv, arg, q) <=> q = p
    BY <1>1, <1>2, <2>3 DEF Leads, FilesOf, IsDir, Directory
  <2>7. PathsInv'
    BY <2>1, <2>2, <2>3, <2>4, <2>5 DEF PathsInv
  <2>8. BelowInv' /\ LevelsInv'
    BY <2>1, <2>2, <2>4, <1>2 DEF BelowInv, LevelsInv, Reading
  <2>9. PassedInv'
    <3>1. \A a \in DOMAIN argv : a < arg' => a < arg \/ a = arg
      BY <2>2, <2>3
    <3>2. arg' # Len(argv) + 2
      BY <2>2, <2>3
    <3>3. \A a \in DOMAIN argv : a < arg' =>
            \A q \in DOMAIN disk : Leads(disk, argv, a, q) => q \in Found' \cup gone
      BY <2>1, <2>5, <2>6, <3>1 DEF PassedInv
    <3> QED
      BY <2>2, <2>4, <3>2, <3>3 DEF PassedInv
  <2>10. OriginInv'
    <3>1. \A a \in DOMAIN argv : a < arg => a < arg'
      BY <2>2, <2>3
    <3>2. \A q \in DOMAIN disk : \A a \in DOMAIN argv : FoundAt(q, a) => FoundAt(q, a)'
      BY <2>2, <2>4, <3>1 DEF FoundAt
    <3>3. \A a \in DOMAIN argv : a = arg => a < arg'
      BY <2>2, <2>3
    <3>4. \A a \in DOMAIN argv : a = arg /\ LeadsFirst(disk, argv, a, p) => FoundAt(p, a)'
      BY <2>2, <3>3 DEF FoundAt
    <3>5. \A q \in DOMAIN disk : FoundAt(q, arg) => Len(q) <= Len(p)
      BY <2>3, <2>4 DEF FoundAt
    <3>6. Leads(disk, argv, arg, p) /\ search' # "found"
      BY <1>2, <2>2, <2>6
    <3> QED
      BY <1>4, <2>1, <2>2, <2>4, <3>2, <3>4, <3>5, <3>6, GivenFetch
  <2> QED
    BY <2>7, <2>8, <2>9, <2>10 DEF SearchInv
<1> QED
  BY <1>1, <1>3, <1>4

\* An entry that is read: a directory is queued, or a test file is there, or neither.
Reads(e) ==
  LET p == Append(dir, e.name)
  IN /\ search = "entries" /\ e \in unread /\ unread' = unread \ {e}
     /\ queue' = IF e.kind \in {"directory", "locked directory"} /\ ~Skipped(e.name)
                 THEN Append(queue, p) ELSE queue
     /\ IF e.kind = "file" /\ e.name \in TestNames THEN Fetch(p) ELSE UNCHANGED sources
     /\ UNCHANGED <<disk, gone, argv, search, arg, dir>>

\* Where an entry leads to.
LEMMA EntryPath ==
  ASSUME PathsInv, BelowInv, search = "entries", NEW e \in unread
  PROVE  LET p == Append(dir, e.name)
         IN /\ Root \in DOMAIN disk /\ dir \in DOMAIN disk /\ Directory(disk, dir)
            /\ Len(dir) \in Nat /\ Len(p) = Len(dir) + 1
            /\ p \in DOMAIN disk => ~Skipped(e.name)
            /\ ~Skipped(e.name) =>
                 /\ p \in DOMAIN disk /\ disk[p] = e.kind /\ p[Len(p)] = e.name
                 /\ Within(Root, p) /\ Len(Root) < Len(p)
            /\ \A q \in DOMAIN disk : Within(p, q) =>
                 Within(dir, q) /\ Len(dir) < Len(q) /\ ~Skipped(e.name)
<1> DEFINE p == Append(dir, e.name)
           All == Names \cup {".", ".."}
<1>1. /\ disk \in Disks /\ e.name \in All
      /\ Root \in DOMAIN disk /\ dir \in DOMAIN disk /\ Directory(disk, dir) /\ Within(Root, dir)
      /\ ~Skipped(e.name) => p \in DOMAIN disk /\ disk[p] = e.kind
  BY DEF PathsInv, BelowInv, Reading
<1>2. \A q \in DOMAIN disk : q \in Seq(All) /\ q \in Seq(Names)
  <2>1. \A q \in DOMAIN disk : q \in Seq(Names)
    BY <1>1, TreeFacts
  <2>2. Names \subseteq All
    OBVIOUS
  <2> HIDE DEF All
  <2> QED
    BY <2>1, <2>2, SeqMonotonic
<1>3. dir \in Seq(All) /\ Root \in Seq(All)
  BY <1>1, <1>2
<1> HIDE DEF All
<1>4. /\ p \in Seq(All) /\ Len(p) = Len(dir) + 1 /\ Within(dir, p) /\ p[Len(dir) + 1] = e.name
  BY <1>1, <1>3, EntryFacts
<1> HIDE DEF p
<1>5. Len(dir) \in Nat /\ Len(Root) \in Nat /\ Len(Root) <= Len(dir)
  BY <1>1, <1>3, LenProperties DEF Within
<1>6. \A n \in Names : ~Skipped(n)
  BY DEF Names, Skipped
<1>7. ASSUME p \in DOMAIN disk PROVE ~Skipped(e.name)
  <2>1. Len(dir) + 1 \in 1..Len(p)
    BY <1>4, <1>5
  <2>2. p[Len(dir) + 1] \in Names
    BY <1>2, <1>7, <2>1, ElementOfSeq
  <2> QED
    BY <1>4, <1>6, <2>2
<1>8. ~Skipped(e.name) => Within(Root, p) /\ Len(Root) < Len(p) /\ p[Len(p)] = e.name
  <2>1. Within(Root, p)
    BY <1>1, <1>3, <1>4, WithinGoesOn
  <2>2. Len(Root) < Len(p) /\ p[Len(p)] = e.name
    BY <1>4, <1>5
  <2> QED
    BY <2>1, <2>2
<1>9. ASSUME NEW q \in DOMAIN disk, Within(p, q)
      PROVE  Within(dir, q) /\ Len(dir) < Len(q) /\ ~Skipped(e.name)
  <2>1. q \in Seq(All) /\ q \in Seq(Names)
    BY <1>2
  <2>2. Within(dir, q)
    BY <1>3, <1>4, <1>9, <2>1, WithinGoesOn
  <2>3. Len(p) <= Len(q) /\ Len(q) \in Nat /\ \A i \in 1..Len(p) : p[i] = q[i]
    BY <1>4, <1>9, <2>1, WithinIs, LenProperties
  <2>4. Len(dir) + 1 \in 1..Len(p) /\ Len(dir) + 1 \in 1..Len(q) /\ Len(dir) < Len(q)
    BY <1>4, <1>5, <2>3
  <2>5. q[Len(dir) + 1] = e.name
    BY <1>4, <2>3, <2>4
  <2>6. e.name \in Names
    BY <2>1, <2>4, <2>5, ElementOfSeq
  <2> QED
    BY <1>6, <2>2, <2>4, <2>6
<1> QED
  BY <1>1, <1>4, <1>5, <1>7, <1>8, <1>9 DEF p

LEMMA EntryKeeps == ASSUME SearchInv, NEW e, Reads(e) PROVE SearchInv'
<1> DEFINE p == Append(dir, e.name)
           enters == e.kind \in {"directory", "locked directory"} /\ ~Skipped(e.name)
           fetches == e.kind = "file" /\ e.name \in TestNames
           D == {q \in DOMAIN disk : Directory(disk, q)}
<1>1. /\ search = "entries" /\ e \in unread /\ unread' = unread \ {e}
      /\ queue' = IF enters THEN Append(queue, p) ELSE queue
      /\ IF fetches THEN Fetch(p) ELSE UNCHANGED sources
      /\ UNCHANGED <<disk, gone, argv, search, arg, dir>>
  BY DEF Reads
<1>2. PathsInv /\ BelowInv /\ LevelsInv /\ PassedInv /\ OriginInv
  BY <1>1 DEF SearchInv, GoesWell
<1>3. Reading /\ Reading' /\ (InDefault' <=> InDefault) /\ Root' = Root
  BY <1>1 DEF Reading, InDefault, Root
<1>4. /\ Root \in DOMAIN disk /\ dir \in DOMAIN disk /\ Directory(disk, dir)
      /\ Len(dir) \in Nat /\ Len(p) = Len(dir) + 1
      /\ p \in DOMAIN disk => ~Skipped(e.name)
      /\ ~Skipped(e.name) =>
           /\ p \in DOMAIN disk /\ disk[p] = e.kind /\ p[Len(p)] = e.name
           /\ Within(Root, p) /\ Len(Root) < Len(p)
      /\ \A q \in DOMAIN disk : Within(p, q) =>
           Within(dir, q) /\ Len(dir) < Len(q) /\ ~Skipped(e.name)
  BY <1>1, <1>2, EntryPath
<1>5. queue \in Seq(D) /\ disk \in Disks
  BY <1>2 DEF PathsInv
<1>6. enters => p \in D
  BY <1>4 DEF Directory
<1>7. fetches => p \notin gone /\ p \in TestsBelow(disk, Root) /\ Found' = Found \cup {p}
  <2> SUFFICES ASSUME fetches
               PROVE  p \notin gone /\ p \in TestsBelow(disk, Root) /\ Found' = Found \cup {p}
    OBVIOUS
  <2>1. p \in DOMAIN disk /\ p \notin gone /\ Found' = Found \cup {p}
    <3> HIDE DEF p
    <3> QED
      BY <1>1, <1>2, FetchGrows
  <2> HIDE DEF p
  <2> QED
    BY <1>4, <2>1 DEF TestsBelow, Within
<1>8. ~fetches => sources' = sources /\ Found' = Found
  BY <1>1 DEF Found
<1> HIDE DEF p, D
<1>9. /\ queue' \in Seq(D) /\ Len(queue) \in Nat /\ DOMAIN queue = 1..Len(queue)
      /\ \A i \in DOMAIN queue : i \in DOMAIN queue' /\ queue'[i] = queue[i]
      /\ \A i \in DOMAIN queue' :
           \/ i \in DOMAIN queue /\ queue'[i] = queue[i]
           \/ enters /\ queue'[i] = p
      /\ \A i, j \in DOMAIN queue' : i <= j => i = j \/ i \in DOMAIN queue
      /\ enters => \E i \in DOMAIN queue' : queue'[i] = p
  <2>1. CASE enters
    <3>1. /\ queue' \in Seq(D) /\ Len(queue) \in Nat /\ DOMAIN queue = 1..Len(queue)
          /\ DOMAIN queue' = 1..(Len(queue) + 1)
          /\ \A i \in 1..Len(queue) : queue'[i] = queue[i]
          /\ queue'[Len(queue) + 1] = p
      <4>1. queue' = Append(queue, p) /\ p \in D
        BY <1>1, <1>6, <2>1
      <4> HIDE DEF enters, fetches
      <4> QED
        BY <1>5, <4>1, SeqGrows
    <3>2. \A i \in 1..(Len(queue) + 1) : i \in 1..Len(queue) \/ i = Len(queue) + 1
      BY <3>1
    <3>3. \A i, j \in 1..(Len(queue) + 1) : i <= j => i = j \/ i \in 1..Len(queue)
      BY <3>1
    <3>4. Len(queue) + 1 \in 1..(Len(queue) + 1) /\ 1..Len(queue) \subseteq 1..(Len(queue) + 1)
      BY <3>1
    <3> HIDE DEF enters
    <3> QED
      BY <2>1, <3>1, <3>2, <3>3, <3>4
  <2>2. CASE ~enters
    <3>1. queue' = queue
      BY <1>1, <2>2
    <3>2. Len(queue) \in Nat /\ DOMAIN queue = 1..Len(queue)
      BY <1>5, LenProperties
    <3> HIDE DEF enters
    <3> QED
      BY <1>5, <2>2, <3>1, <3>2
  <2> QED
    BY <2>1, <2>2
<1>10. \A i \in DOMAIN queue : queue[i] \in DOMAIN disk /\ Len(queue[i]) \in Nat
  <2>1. \A i \in DOMAIN queue : queue[i] \in D
    BY <1>5, <1>9, ElementOfSeq
  <2> QED
    BY <1>5, <2>1, TreeFacts DEF D
<1>11. PathsInv'
  <2>1. queue' \in Seq({q \in DOMAIN disk' : Directory(disk', q)})
    BY <1>1, <1>9 DEF D
  <2>2. /\ sources' \in Seq(DOMAIN disk)
        /\ \A k, l \in DOMAIN sources' : sources'[k] = sources'[l] => k = l
    <3>1. CASE fetches
      BY <1>1, <1>2, <3>1, FetchGrows
    <3>2. CASE ~fetches
      BY <1>2, <1>8, <3>2 DEF PathsInv
    <3> QED
      BY <3>1, <3>2
  <2> HIDE DEF enters, fetches
  <2> QED
    BY <1>1, <1>2, <1>3, <2>1, <2>2 DEF PathsInv
<1>12. BelowInv'
  <2>1. \A i \in DOMAIN queue' : Within(Root, queue'[i])
    BY <1>2, <1>3, <1>4, <1>9 DEF BelowInv
  <2> HIDE DEF enters, fetches
  <2> QED
    BY <1>1, <1>2, <1>3, <2>1 DEF BelowInv
<1>13. LevelsInv'
  <2>1. /\ \A i, j \in DOMAIN queue : i <= j => Len(queue[i]) <= Len(queue[j])
        /\ \A i \in DOMAIN queue : Len(dir) <= Len(queue[i]) /\ Len(queue[i]) <= Len(dir) + 1
    BY <1>1, <1>2 DEF LevelsInv
  <2>2. Len(dir) <= Len(p) /\ Len(p) <= Len(dir) + 1 /\ Len(p) \in Nat
    BY <1>4
  <2> HIDE DEF enters, fetches
  <2>3. \A i \in DOMAIN queue' : Len(dir) <= Len(queue'[i]) /\ Len(queue'[i]) <= Len(dir) + 1
    BY <1>9, <2>1, <2>2
  <2>4. ASSUME NEW i \in DOMAIN queue', NEW j \in DOMAIN queue', i <= j
        PROVE  Len(queue'[i]) <= Len(queue'[j])
    <3>1. CASE i = j
      <4>1. Len(queue'[i]) \in Nat
        BY <1>9, <1>10, <2>2
      <4> QED
        BY <3>1, <4>1
    <3>2. CASE i \in DOMAIN queue /\ j \in DOMAIN queue /\ queue'[j] = queue[j]
      BY <1>9, <2>1, <2>4, <3>2
    <3>3. CASE i \in DOMAIN queue /\ queue'[j] = p
      BY <1>4, <1>9, <2>1, <3>3
    <3> QED
      BY <1>9, <2>4, <3>1, <3>2, <3>3
  <2> QED
    BY <1>1, <2>3, <2>4 DEF LevelsInv
<1>14. PassedInv'
  <2>0. Found \subseteq Found'
    BY <1>7, <1>8
  <2>1. ASSUME NEW q \in TestsBelow(disk, Root), q \notin Found', q \notin gone PROVE Awaits(q)'
    <3>1. q \in DOMAIN disk /\ disk[q] = "file" /\ q[Len(q)] \in TestNames
      BY <2>1 DEF TestsBelow
    <3>2. Awaits(q)
      BY <1>2, <1>3, <2>0, <2>1 DEF PassedInv
    <3>3. CASE \E i \in DOMAIN queue : Within(queue[i], q) /\ Len(queue[i]) < Len(q)
      <4> HIDE DEF enters
      <4> QED
        BY <1>9, <3>3 DEF Awaits
    <3>4. CASE \E f \in unread : f # e /\ Within(Append(dir, f.name), q)
      <4> HIDE DEF enters, fetches
      <4> QED
        BY <1>1, <3>4 DEF Awaits
    <3>5. CASE Within(p, q)
      <4>1. Within(dir, q) /\ Len(dir) < Len(q) /\ ~Skipped(e.name)
        BY <1>4, <3>1, <3>5
      <4>2. p \in DOMAIN disk /\ disk[p] = e.kind /\ p[Len(p)] = e.name
        BY <1>4, <4>1
      <4>3. SubSeq(q, 1, Len(dir) + 1) = p
        BY <1>4, <3>5 DEF Within
      <4>4. p = q \/ (Directory(disk, p) /\ Len(p) < Len(q))
        BY <1>4, <1>5, <3>1, <4>1, <4>3, OnTheWay
      <4>5. CASE p = q
        <5>1. fetches
          BY <3>1, <4>2, <4>5
        <5> QED
          BY <1>7, <2>1, <4>5, <5>1
      <4>6. CASE Directory(disk, p) /\ Len(p) < Len(q)
        <5>1. enters
          BY <4>1, <4>2, <4>6 DEF Directory
        <5> HIDE DEF enters
        <5> QED
          BY <1>9, <3>5, <4>6, <5>1 DEF Awaits
      <4> QED
        BY <4>4, <4>5, <4>6
    <3> QED
      BY <3>2, <3>3, <3>4, <3>5 DEF Awaits, p
  <2>2. \A q \in TestsBelow(disk', Root') : q \in Found' \cup gone' \/ Awaits(q)'
    BY <1>1, <1>3, <2>1
  <2> HIDE DEF enters, fetches
  <2>3. \A a \in DOMAIN argv : a < arg =>
          \A q \in DOMAIN disk : Leads(disk, argv, a, q) => q \in Found' \cup gone
    BY <1>2, <2>0 DEF PassedInv
  <2>4. arg = Len(argv) + 2 => TestsBelow(disk, Target(DefaultTests)) \subseteq Found' \cup gone
    BY <1>2, <2>0 DEF PassedInv
  <2> QED
    BY <1>1, <2>2, <2>3, <2>4 DEF PassedInv
<1>15. OriginInv'
  <2>1. \A q : Near(q) => Near(q)'
    <3> HIDE DEF enters, fetches
    <3> QED
      BY <1>1 DEF Near
  <2>2. \A q \in DOMAIN disk : \A a \in DOMAIN argv : FoundAt(q, a) => FoundAt(q, a)'
    <3> HIDE DEF enters, fetches
    <3> QED
      BY <1>1, <1>3, <2>1 DEF FoundAt
  <2>3. arg \in 1..(Len(argv) + 1) /\ Len(argv) \in Nat /\ DOMAIN argv = 1..Len(argv)
    <3>1. Len(argv) \in Nat /\ DOMAIN argv = 1..Len(argv)
      BY <1>2, LenProperties DEF PathsInv
    <3> QED
      BY <1>2, <1>3, <3>1 DEF PathsInv
  <2>4. search' # "found"
    BY <1>1
  <2>5. CASE ~fetches
    <3>1. sources' = sources
      BY <1>8, <2>5
    <3>2. ASSUME NEW k \in DOMAIN sources, ~InDefault
          PROVE  \E a \in DOMAIN argv : FoundAt(sources[k], a)'
      <4>1. PICK a \in DOMAIN argv : FoundAt(sources[k], a)
        BY <1>2, <3>2 DEF OriginInv
      <4>2. PICK q : q = sources[k]
        OBVIOUS
      <4>3. q \in DOMAIN disk
        BY <1>2, <4>2, LenProperties, ElementOfSeq DEF PathsInv
      <4>4. FoundAt(q, a)'
        BY <2>2, <4>1, <4>2, <4>3
      <4>5. FoundAt(sources[k], a)'
        BY <3>1, <4>2, <4>4 DEF FoundAt, Near
      <4> QED
        BY <4>5
    <3>3. \A k, l \in DOMAIN sources : ~InDefault /\ k < l => Follows(sources[k], sources[l])'
      <4> HIDE DEF enters, fetches
      <4> QED
        BY <1>1, <1>2, <3>1 DEF OriginInv, Follows
    <3> HIDE DEF enters, fetches
    <3> QED
      BY <1>1, <1>2, <1>3, <2>4, <3>1, <3>2, <3>3 DEF OriginInv
  <2>6. CASE fetches /\ ~InDefault
    <3>1. arg <= Len(argv) /\ arg \in DOMAIN argv
      BY <1>3, <2>3, <2>6 DEF InDefault
    <3>2. Root = Target(argv[arg]) /\ Directory(disk, Root) /\ argv[arg] \notin Options
      BY <1>2, <1>3, <3>1 DEF Root, BelowInv
    <3>3. Leads(disk, argv, arg, p)
      BY <1>4, <1>7, <2>6, <3>1, <3>2 DEF Leads, FilesOf
    <3>4. PICK q : q = p
      OBVIOUS
    <3>5. Fetch(q) /\ Leads(disk, argv, arg, q)
      BY <1>1, <2>6, <3>3, <3>4
    <3>6. \A a \in DOMAIN argv : a = arg /\ LeadsFirst(disk, argv, a, q) => FoundAt(q, a)'
      <4>1. Len(q) <= Len(dir) + 1
        BY <1>4, <3>4
      <4> HIDE DEF enters, fetches
      <4>2. Near(q)'
        BY <1>1, <4>1 DEF Near
      <4> QED
        BY <1>1, <1>3, <4>2 DEF FoundAt
    <3>7. \A r \in DOMAIN disk : FoundAt(r, arg) => Len(r) <= Len(q)
      <4>1. ~(arg < arg)
        BY <2>3
      <4>2. Len(q) = Len(dir) + 1
        BY <1>4, <3>4
      <4> QED
        BY <1>1, <4>1, <4>2 DEF FoundAt, Near
    <3>8. ~InDefault /\ ~InDefault' /\ UNCHANGED <<disk, argv>>
      BY <1>1, <1>3, <2>6
    <3> HIDE DEF enters, fetches
    <3> QED
      BY <1>2, <2>2, <2>4, <3>5, <3>6, <3>7, <3>8, GivenFetch
  <2>7. CASE fetches /\ InDefault
    <3>1. Root = Target(DefaultTests)
      BY <2>3, <2>7 DEF InDefault, Root
    <3>2. p \in TestsBelow(disk, Target(DefaultTests))
      BY <1>7, <2>7, <3>1
    <3> QED
      BY <1>1, <1>2, <1>3, <2>4, <2>7, <3>2, DefaultFetch
  <2> QED
    BY <2>5, <2>6, <2>7
<1> QED
  BY <1>11, <1>12, <1>13, <1>14, <1>15 DEF SearchInv

LEMMA ReadKeeps == ASSUME SearchInv, ReadEntry PROVE SearchInv'
<1>1. PICK e \in unread :
        LET p == Append(dir, e.name)
            fetches == e.kind = "file" /\ IsTest(e.name)
        IN Reads(e) \/ (fetches /\ ~Exists(p) /\ Fails) \/ (fetches /\ Overruns(p))
  BY DEF ReadEntry, Reads, IsTest, tree
<1> QED
  BY <1>1, EntryKeeps, FailureKeeps DEF Fails, Overruns

LEMMA VanishKeeps == ASSUME SearchInv, Vanish PROVE SearchInv'
<1>1. /\ gone \subseteq gone' /\ (gone \subseteq Fleeting => gone' \subseteq Fleeting)
      /\ UNCHANGED <<disk, argv, search, arg, queue, dir, unread, sources>>
  BY DEF Vanish
<1>2. /\ (Reading' <=> Reading) /\ (GoesWell' <=> GoesWell) /\ (InDefault' <=> InDefault)
      /\ Root' = Root
  BY <1>1 DEF Reading, GoesWell, InDefault, Root
<1>3. PathsInv => PathsInv'
  BY <1>1, <1>2 DEF PathsInv
<1>4. BelowInv => BelowInv'
  BY <1>1, <1>2 DEF BelowInv
<1>5. LevelsInv => LevelsInv'
  BY <1>1 DEF LevelsInv
<1>6. PassedInv => PassedInv'
  <2>1. \A q : Awaits(q) => Awaits(q)'
    BY <1>1 DEF Awaits
  <2> QED
    BY <1>1, <1>2, <2>1 DEF PassedInv, Found
<1>7. OriginInv => OriginInv'
  BY <1>1, <1>2 DEF OriginInv, FoundAt, Near, Follows
<1> QED
  BY <1>2, <1>3, <1>4, <1>5, <1>6, <1>7 DEF SearchInv

LEMMA SearchStays == ASSUME SearchInv, UNCHANGED searchVars PROVE SearchInv'
<1>1. UNCHANGED <<disk, gone, argv, search, arg, queue, dir, unread, sources>>
  BY DEF searchVars
<1>2. PathsInv => PathsInv'
  BY <1>1 DEF PathsInv, Reading
<1>3. BelowInv => BelowInv'
  BY <1>1 DEF BelowInv, Reading, Root
<1>4. LevelsInv => LevelsInv'
  BY <1>1 DEF LevelsInv
<1>5. PassedInv => PassedInv'
  BY <1>1 DEF PassedInv, Found, Awaits, Reading, Root
<1>6. OriginInv => OriginInv'
  BY <1>1 DEF OriginInv, InDefault, Reading, FoundAt, Near, Follows
<1>7. GoesWell' <=> GoesWell
  BY <1>1 DEF GoesWell
<1> QED
  BY <1>2, <1>3, <1>4, <1>5, <1>6, <1>7 DEF SearchInv

LEMMA InitSearch == Init => SearchInv
<1> SUFFICES ASSUME Init PROVE SearchInv
  OBVIOUS
<1>1. /\ disk \in Disks /\ gone = {} /\ argv \in Invocations /\ search = "argument" /\ arg = 1
      /\ queue = <<>> /\ dir = <<>> /\ unread = {} /\ sources = <<>>
  BY DEF Init, SearchInit
<1>2. argv \in Seq(STRING) /\ Len(argv) \in Nat /\ DOMAIN argv = 1..Len(argv)
  BY <1>1, ApplicationAssumption, LenProperties
<1>3. ~Reading /\ ~InDefault
  BY <1>1, <1>2 DEF Reading, InDefault
<1>4. PathsInv
  <2>1. <<>> \in Seq(DOMAIN disk) /\ <<>> \in Seq({p \in DOMAIN disk : Directory(disk, p)})
    BY EmptySeq
  <2>2. arg \in 1..(Len(argv) + 2)
    BY <1>1, <1>2
  <2> QED
    BY <1>1, <1>2, <1>3, <2>1, <2>2 DEF PathsInv
<1>5. BelowInv /\ LevelsInv
  BY <1>1, <1>3 DEF BelowInv, LevelsInv
<1>6. PassedInv
  <2>1. arg # Len(argv) + 2 /\ \A a \in DOMAIN argv : ~(a < arg)
    BY <1>1, <1>2
  <2> QED
    BY <1>3, <2>1 DEF PassedInv
<1>7. OriginInv
  BY <1>1, <1>3 DEF OriginInv
<1> QED
  BY <1>4, <1>5, <1>6, <1>7 DEF SearchInv

LEMMA SearchSteps ==
  [Next]_vars => UNCHANGED searchVars \/ (Running("sources") /\ FetchSources) \/ Vanish
<1> SUFFICES ASSUME [Next]_vars, ~UNCHANGED searchVars
             PROVE  (Running("sources") /\ FetchSources) \/ Vanish
  OBVIOUS
<1>1. CASE Fetching
  BY <1>1 DEF Fetching
<1>2. CASE FileVanishes
  BY <1>2 DEF FileVanishes
<1>3. CASE ParseOption \/ UnknownOption \/ PassPath \/ OptionsParsed \/ ShowText \/ Start
           \/ FetchEnds
  BY <1>3 DEF ParseOption, UnknownOption, PassPath, OptionsParsed, ShowText, Start, FetchEnds
<1>4. CASE ReadSuite \/ NoTests \/ BeginTests \/ RunTests \/ Finish \/ RunnerDies
  BY <1>4 DEF ReadSuite, NoTests, BeginTests, RunTests, Finish, RunnerDies
<1>5. CASE UNCHANGED vars
  BY <1>5 DEF vars
<1> QED
  BY <1>1, <1>2, <1>3, <1>4, <1>5 DEF Next, Step

LEMMA NextSearch == SearchInv /\ [Next]_vars => SearchInv'
<1> SUFFICES ASSUME SearchInv, [Next]_vars PROVE SearchInv'
  OBVIOUS
<1>1. CASE NotThere \/ CannotOpen
  BY <1>1, FailureKeeps DEF NotThere, CannotOpen, Fails
<1> QED
  BY <1>1, SearchSteps, SearchStays, VanishKeeps, SkipKeeps, EnterKeeps, NamedKeeps, DoneKeeps,
     OpenKeeps, ReadKeeps, CloseKeeps, LeaveKeeps DEF FetchSources
-----------------------------------------------------------------------------
LEMMA SameFiles == \A p : Below(p) = TestsBelow(disk, p) /\ SourcesOf(p) = FilesOf(disk, p)
  BY DEF Below, TestsBelow, SourcesOf, FilesOf, IsDir, Directory

LEMMA GivenIs == \A p : p \in Given <=> \E a \in DOMAIN argv : Leads(disk, argv, a, p)
  BY SameFiles DEF Given, PathArguments, Leads

LEMMA MentionIs ==
  ASSUME PathsInv, NEW p, NEW a, LeadsFirst(disk, argv, a, p) PROVE Mention(p) = a
<1> DEFINE First(k) ==
             /\ p \in SourcesOf(Target(argv[k]))
             /\ \A l \in PathArguments : p \in SourcesOf(Target(argv[l])) => k <= l
<1>1. DOMAIN argv = 1..Len(argv) /\ Len(argv) \in Nat
  BY LenProperties DEF PathsInv
<1>2. a \in PathArguments /\ First(a)
  BY SameFiles DEF LeadsFirst, Leads, PathArguments
<1>3. \A k \in PathArguments : First(k) => k = a
  <2> SUFFICES ASSUME NEW k \in PathArguments, First(k) PROVE k = a
    OBVIOUS
  <2>1. k <= a /\ a <= k
    BY <1>2
  <2>2. k \in Nat /\ a \in Nat
    BY <1>1, <1>2 DEF PathArguments
  <2> QED
    BY <2>1, <2>2
<1>4. Mention(p) = CHOOSE k \in PathArguments : First(k)
  BY DEF Mention
<1> HIDE DEF First
<1> QED
  BY <1>2, <1>3, <1>4

LEMMA FoundCount ==
  ASSUME PathsInv PROVE IsFiniteSet(Found) /\ Cardinality(Found) = Len(sources)
<1> DEFINE n == Len(sources)
<1>1. n \in Nat /\ DOMAIN sources = 1..n /\ sources \in [1..n -> DOMAIN disk]
  BY LenProperties DEF PathsInv
<1>2. Found = {sources[k] : k \in 1..n}
  BY <1>1 DEF Found
<1>3. \A k, l \in 1..n : sources[k] = sources[l] => k = l
  BY <1>1 DEF PathsInv
<1> HIDE DEF n
<1>4. sources \in [1..n -> Found]
  BY <1>1, <1>2
<1>5. sources \in Bijection(1..n, Found)
  <2>1. \A q \in Found : \E k \in 1..n : sources[k] = q
    BY <1>2
  <2> QED
    BY <1>3, <1>4, <2>1 DEF Bijection, Injection, Surjection, IsInjective
<1>6. ExistsBijection(1..n, Found)
  BY <1>5 DEF ExistsBijection
<1>7. IsFiniteSet(1..n) /\ Cardinality(1..n) = n
  BY <1>1, FS_Interval
<1>8. IsFiniteSet(Found) /\ Cardinality(Found) = Cardinality(1..n)
  BY <1>6, <1>7, FS_Bijection
<1> QED
  BY <1>7, <1>8 DEF n

LEMMA ExactSearch == SearchInv => SearchIsExact
<1> SUFFICES ASSUME SearchInv, search = "found" PROVE SearchIsExact
  BY DEF SearchIsExact
<1>1. PathsInv /\ PassedInv /\ OriginInv
  BY DEF SearchInv, GoesWell
<1>2. /\ arg \in (Len(argv) + 1)..(Len(argv) + 2) /\ Len(argv) \in Nat
      /\ DOMAIN argv = 1..Len(argv) /\ ~Reading
  <2>1. DOMAIN argv = 1..Len(argv) /\ Len(argv) \in Nat
    BY <1>1, LenProperties DEF PathsInv
  <2>2. arg \in 1..(Len(argv) + 2) /\ arg > Len(argv)
    BY <1>1 DEF PathsInv, OriginInv
  <2> QED
    BY <2>1, <2>2 DEF Reading
<1>3. Cardinality(Found) = Len(sources)
  BY <1>1, FoundCount
<1>4. Given \subseteq Found \cup gone
  <2>1. \A a \in DOMAIN argv : a < arg
    BY <1>2
  <2>2. \A a \in DOMAIN argv : \A q : Leads(disk, argv, a, q) => q \in DOMAIN disk
    BY LeadsFacts
  <2> QED
    BY <1>1, <2>1, <2>2, GivenIs DEF PassedInv
<1>5. CASE ~InDefault
  <2>1. \A k \in DOMAIN sources : \E a \in DOMAIN argv : LeadsFirst(disk, argv, a, sources[k])
    BY <1>1, <1>5 DEF OriginInv, FoundAt
  <2>2. Found \subseteq Given
    BY <2>1, GivenIs DEF Found, LeadsFirst
  <2>3. ASSUME NEW k \in DOMAIN sources, NEW l \in DOMAIN sources, k < l
        PROVE  \/ Mention(sources[k]) < Mention(sources[l])
               \/ /\ Mention(sources[k]) = Mention(sources[l])
                  /\ Len(sources[k]) <= Len(sources[l])
    <3>1. PICK a \in DOMAIN argv, b \in DOMAIN argv :
            /\ LeadsFirst(disk, argv, a, sources[k]) /\ LeadsFirst(disk, argv, b, sources[l])
            /\ a < b \/ (a = b /\ Len(sources[k]) <= Len(sources[l]))
      BY <1>1, <1>5, <2>3 DEF OriginInv, Follows
    <3>2. Mention(sources[k]) = a /\ Mention(sources[l]) = b
      BY <1>1, <3>1, MentionIs
    <3> QED
      BY <3>1, <3>2
  <2>4. ExactlyFound(Given)
    BY <1>4, <2>2 DEF ExactlyFound
  <2>5. Found # {}
    <3>1. arg = Len(argv) + 1
      BY <1>2, <1>5 DEF InDefault
    <3>2. sources # <<>>
      BY <1>1, <3>1 DEF OriginInv
    <3>3. 1 \in DOMAIN sources
      BY <1>1, <3>2, EmptySeq, LenProperties DEF PathsInv
    <3> QED
      BY <3>3 DEF Found
  <2> QED
    BY <1>3, <2>2, <2>3, <2>4, <2>5 DEF SearchIsExact
<1>6. CASE InDefault
  <2>1. arg = Len(argv) + 2
    BY <1>2, <1>6 DEF InDefault
  <2>2. Given \subseteq gone
    <3>1. \A a \in DOMAIN argv : \A q \in DOMAIN disk : Leads(disk, argv, a, q) => q \in gone
      BY <1>1, <1>6 DEF OriginInv
    <3> QED
      BY <3>1, GivenIs, LeadsFacts
  <2>3. \A k \in DOMAIN sources : sources[k] \in Below(Target(DefaultTests)) /\ sources[k] \notin Given
    BY <1>1, <1>6, SameFiles, GivenIs DEF OriginInv
  <2>4. ExactlyFound(Below(Target(DefaultTests)))
    BY <1>1, <2>1, <2>3, SameFiles DEF ExactlyFound, Found, PassedInv
  <2>5. ~(Found # {} /\ Found \subseteq Given)
    BY <2>3 DEF Found
  <2> QED
    BY <1>3, <2>2, <2>4, <2>5 DEF SearchIsExact
<1> QED
  BY <1>5, <1>6

\* Every source is read once, whatever number of ways lead to it, and nothing
\* else is, and where the arguments lead to no file all test files below ./tests
\* are (fetch_sources and fetch_one_source of application.c, fs_read_dir of fs.c),
\* for every file tree, all arguments, and files that vanish meanwhile.
THEOREM SearchExact == Spec => []SearchIsExact
  BY InitSearch, NextSearch, ExactSearch, PTL DEF Spec

-----------------------------------------------------------------------------
(* The reasons of a failure.                                               *)

Reached == {Target(argv[k]) : k \in PathArguments} \cup {Target(DefaultTests)}

Inside(p) == {q \in DOMAIN disk : Len(q) >= Len(p) /\ SubSeq(q, 1, Len(p)) = p}

\* A path that cannot be read.
FatalCause ==
  \/ gone # {}
  \/ \E p \in Reached : p \notin DOMAIN disk
  \/ Given = {} /\ ~IsDir(Target(DefaultTests))
  \/ \E p \in Reached : \E q \in Inside(p) :
       disk[q] = "locked directory" \/ (IsDir(q) /\ Len(q) > MaxPath)

\* More files than the list of the known ones has room for.
CrashCause ==
  \/ Cardinality(Given) > MaxSources
  \/ Given \subseteq gone /\ Cardinality(Below(Target(DefaultTests))) > MaxSources

SearchFailsInv ==
  /\ search = "fatal" => FatalCause
  /\ search = "crashed" => CrashCause

\* The arguments, or a source, are to blame.
ExitsInv ==
  /\ exitCode = "1" /\ at = "options" =>
       \E k \in DOMAIN argv : argv[k] \in Options /\ Means(argv[k]) = "unknown"
  /\ exitCode = "1" /\ at = "suites" => Found \cap (Broken \cup gone) # {}

LEMMA CausesStay ==
  ASSUME UNCHANGED <<disk, argv>>, gone \subseteq gone'
  PROVE  (FatalCause => FatalCause') /\ (CrashCause => CrashCause')
<1>1. /\ Given' = Given /\ Reached' = Reached
      /\ Below(Target(DefaultTests))' = Below(Target(DefaultTests))
      /\ IsDir(Target(DefaultTests))' = IsDir(Target(DefaultTests))
  BY DEF Given, Reached, PathArguments, SourcesOf, Below, IsDir
<1>2. CrashCause => CrashCause'
  BY <1>1 DEF CrashCause
<1>3. ASSUME NEW p \in Reached, NEW q \in Inside(p),
             disk[q] = "locked directory" \/ (IsDir(q) /\ Len(q) > MaxPath)
      PROVE  FatalCause'
  <2>1. p \in Reached' /\ q \in Inside(p)'
    BY <1>1, <1>3 DEF Inside
  <2>2. disk'[q] = "locked directory" \/ (IsDir(q)' /\ Len(q) > MaxPath)
    BY <1>3 DEF IsDir
  <2> QED
    BY <2>1, <2>2 DEF FatalCause
<1>4. ASSUME NEW p \in Reached, p \notin DOMAIN disk PROVE FatalCause'
  BY <1>1, <1>4 DEF FatalCause
<1>5. gone # {} \/ (Given = {} /\ ~IsDir(Target(DefaultTests))) => FatalCause'
  BY <1>1 DEF FatalCause
<1> QED
  BY <1>2, <1>3, <1>4, <1>5 DEF FatalCause

\* The root of what is read was reached.
LEMMA RootIsReached ==
  ASSUME PathsInv, BelowInv, Reading PROVE Root \in Reached
<1>1. arg \in 1..(Len(argv) + 2) /\ Len(argv) \in Nat /\ DOMAIN argv = 1..Len(argv)
  BY LenProperties DEF PathsInv
<1>2. CASE arg <= Len(argv)
  <2>1. arg \in PathArguments
    BY <1>1, <1>2 DEF PathArguments, BelowInv
  <2> QED
    BY <1>2, <2>1 DEF Root, Reached
<1>3. CASE ~(arg <= Len(argv))
  BY <1>3 DEF Root, Reached
<1> QED
  BY <1>2, <1>3

LEMMA NotThereCause == ASSUME SearchInv, NotThere PROVE FatalCause
<1>1. PICK p \in NextPath : ~Exists(p) \/ (WithoutFiles /\ ~IsDir(p))
  BY DEF NotThere
<1>2. search = "argument"
  BY <1>1 DEF NextPath
<1>3. PathsInv /\ PassedInv
  BY <1>2 DEF SearchInv, GoesWell
<1>4. arg \in 1..(Len(argv) + 2) /\ Len(argv) \in Nat /\ DOMAIN argv = 1..Len(argv)
  BY <1>3, LenProperties DEF PathsInv
<1>5. p \in Reached /\ (WithoutFiles => p = Target(DefaultTests))
  <2>1. CASE arg <= Len(argv) /\ argv[arg] \notin Options
    <3>1. arg \in PathArguments /\ p = Target(argv[arg])
      BY <1>1, <1>2, <1>4, <2>1 DEF PathArguments, NextPath
    <3>2. ~WithoutFiles
      BY <1>4, <2>1 DEF WithoutFiles
    <3> QED
      BY <3>1, <3>2 DEF Reached
  <2>2. CASE ~(arg <= Len(argv) /\ argv[arg] \notin Options)
    <3>1. p = Target(DefaultTests)
      BY <1>1, <2>2 DEF NextPath
    <3> QED
      BY <3>1 DEF Reached
  <2> QED
    BY <2>1, <2>2
<1>6. CASE ~Exists(p)
  BY <1>5, <1>6 DEF Exists, FatalCause
<1>7. CASE WithoutFiles /\ ~IsDir(p)
  <2>1. Found = {} /\ arg = Len(argv) + 1
    BY <1>7 DEF WithoutFiles, Found
  <2>2. Given \subseteq gone
    <3>1. \A a \in DOMAIN argv : a < arg
      BY <1>4, <2>1
    <3>2. \A a \in DOMAIN argv : \A q : Leads(disk, argv, a, q) => q \in DOMAIN disk
      BY LeadsFacts
    <3> QED
      BY <1>3, <2>1, <3>1, <3>2, GivenIs DEF PassedInv
  <2> QED
    BY <1>5, <1>7, <2>2 DEF FatalCause
<1> QED
  BY <1>1, <1>6, <1>7

LEMMA CannotOpenCause == ASSUME SearchInv, CannotOpen PROVE FatalCause
<1>1. search = "directory" /\ queue # <<>> /\ ~Opens(Head(queue))
  BY DEF CannotOpen
<1>2. PathsInv /\ BelowInv /\ Reading
  BY <1>1 DEF SearchInv, GoesWell, Reading
<1> DEFINE D == {p \in DOMAIN disk : Directory(disk, p)}
           h == Head(queue)
<1>3. queue \in Seq(D) /\ disk \in Disks
  BY <1>2 DEF PathsInv
<1>d. \A p \in D : p \in DOMAIN disk /\ Directory(disk, p)
  OBVIOUS
<1> HIDE DEF D
<1>4. 1 \in DOMAIN queue /\ h = queue[1] /\ h \in D
  <2>1. Len(queue) \in Nat \ {0} /\ DOMAIN queue = 1..Len(queue)
    BY <1>1, <1>3, EmptySeq, LenProperties
  <2>2. h \in D
    BY <1>1, <1>3, HeadTailProperties
  <2> QED
    BY <2>1, <2>2
<1> HIDE DEF h
<1>5. h \in DOMAIN disk /\ Directory(disk, h)
  BY <1>4, <1>d
<1>6. h \notin gone /\ h \in Seq(Names)
  BY <1>2, <1>3, <1>5, DirectoriesStay, TreeFacts
<1>7. Plain(h) = h /\ Exists(h)
  BY <1>5, <1>6, PlainIsItself DEF Exists
<1>8. disk[h] = "locked directory" \/ (IsDir(h) /\ ~(Len(h) <= MaxPath))
  BY <1>1, <1>5, <1>7 DEF Opens, Directory, IsDir, h
<1>9. Len(h) \in Nat /\ MaxPath \in Nat
  BY <1>6, LenProperties, FileSearchAssumption
<1>10. h \in Inside(Root)
  <2>1. Within(Root, h) /\ Root \in DOMAIN disk
    BY <1>2, <1>4 DEF BelowInv
  <2>2. Len(Root) \in Nat
    BY <1>3, <2>1, TreeFacts
  <2> QED
    BY <1>5, <1>9, <2>1, <2>2 DEF Inside, Within
<1>11. Root \in Reached
  BY <1>2, RootIsReached
<1>12. disk[h] = "locked directory" \/ (IsDir(h) /\ Len(h) > MaxPath)
  <2>1. ~(Len(h) <= MaxPath) => Len(h) > MaxPath
    BY <1>9
  <2> QED
    BY <1>8, <2>1, Zenon
<1> QED
  BY <1>10, <1>11, <1>12 DEF FatalCause

LEMMA NotFetchedCause ==
  ASSUME SearchInv, search = "entries", NEW e \in unread, e.kind = "file",
         ~Exists(Append(dir, e.name))
  PROVE  FatalCause
<1>1. BelowInv
  BY DEF SearchInv, GoesWell
<1>2. Append(dir, e.name) \in DOMAIN disk
  BY <1>1 DEF BelowInv
<1> QED
  BY <1>2 DEF Exists, FatalCause

\* There are as many files as were found, and one more.
LEMMA TooMany ==
  ASSUME PathsInv, NEW p, NEW F, F \subseteq DOMAIN disk, Found \subseteq F, p \in F, p \notin Found,
         Len(sources) >= MaxSources
  PROVE  Cardinality(F) > MaxSources
<1>1. IsFiniteSet(Found) /\ Cardinality(Found) = Len(sources)
  BY FoundCount
<1>2. IsFiniteSet(DOMAIN disk)
  BY TreeAssumption DEF PathsInv
<1>3. IsFiniteSet(F) /\ Cardinality(F) \in Nat
  BY <1>2, FS_Subset, FS_CardinalityType
<1>4. Cardinality(Found \cup {p}) = Len(sources) + 1
  BY <1>1, FS_AddElement
<1>5. Cardinality(Found \cup {p}) <= Cardinality(F)
  <2>1. Found \cup {p} \in SUBSET F
    OBVIOUS
  <2> QED
    BY <1>3, <2>1, FS_Subset
<1>6. Len(sources) \in Nat /\ MaxSources \in Nat
  BY LenProperties, FileSearchAssumption DEF PathsInv
<1> QED
  BY <1>3, <1>4, <1>5, <1>6

LEMMA OverrunCause ==
  ASSUME PathsInv, OriginInv, NEW p, Exists(p), ~Known(p), Len(sources) >= MaxSources,
         ~InDefault => Leads(disk, argv, arg, p),
         InDefault => p \in TestsBelow(disk, Target(DefaultTests))
  PROVE  CrashCause
<1>1. p \notin Found /\ p \in DOMAIN disk
  BY DEF Known, Found, Exists
<1>2. CASE ~InDefault
  <2>1. \A k \in DOMAIN sources : \E a \in DOMAIN argv : Leads(disk, argv, a, sources[k])
    BY <1>2 DEF OriginInv, FoundAt, LeadsFirst
  <2>2. Found \subseteq Given
    BY <2>1, GivenIs DEF Found
  <2>3. p \in Given
    BY <1>2, GivenIs, LeadsFacts
  <2>4. Given \subseteq DOMAIN disk
    BY GivenIs, LeadsFacts
  <2> QED
    BY <1>1, <2>2, <2>3, <2>4, TooMany DEF CrashCause
<1>3. CASE InDefault
  <2> DEFINE F == Below(Target(DefaultTests))
  <2>1. Given \subseteq gone
    <3>1. \A a \in DOMAIN argv : \A q \in DOMAIN disk : Leads(disk, argv, a, q) => q \in gone
      BY <1>3 DEF OriginInv
    <3> QED
      BY <3>1, GivenIs, LeadsFacts
  <2>2. F \subseteq DOMAIN disk
    BY DEF Below
  <2>3. p \in F
    BY <1>3, SameFiles
  <2>4. Found \subseteq F
    BY <1>3, SameFiles DEF OriginInv, Found
  <2> HIDE DEF F
  <2>5. Cardinality(F) > MaxSources
    BY <1>1, <2>2, <2>3, <2>4, TooMany
  <2> QED
    BY <2>1, <2>5 DEF CrashCause, F
<1> QED
  BY <1>2, <1>3

LEMMA NamedOverruns ==
  ASSUME SearchInv, FetchNamed, search' = "crashed" PROVE CrashCause
<1>1. PICK p \in NextPath :
        /\ p \in DOMAIN disk /\ ~IsDir(p)
        /\ \/ Fetch(p) /\ arg' = NextArg /\ UNCHANGED <<tree, search, queue, dir, unread>>
           \/ Overruns(p)
  BY DEF FetchNamed
<1>2. /\ search = "argument" /\ arg <= Len(argv) /\ argv[arg] \notin Options
      /\ p = Target(argv[arg])
  BY <1>1 DEF FetchNamed, NextPath
<1>3. Exists(p) /\ ~Known(p) /\ Len(sources) >= MaxSources
  BY <1>1, <1>2 DEF Overruns
<1>4. PathsInv /\ OriginInv
  BY <1>2 DEF SearchInv, GoesWell
<1>5. arg \in DOMAIN argv /\ Len(argv) \in Nat
  <2>1. arg \in 1..(Len(argv) + 2) /\ Len(argv) \in Nat /\ DOMAIN argv = 1..Len(argv)
    BY <1>4, LenProperties DEF PathsInv
  <2> QED
    BY <1>2, <2>1
<1>6. ~InDefault
  BY <1>2, <1>5 DEF InDefault, Reading
<1>7. p \in FilesOf(disk, p)
  BY <1>1 DEF FilesOf, IsDir, Directory
<1>8. Leads(disk, argv, arg, p)
  BY <1>2, <1>5, <1>7 DEF Leads
<1> QED
  BY <1>3, <1>4, <1>6, <1>8, OverrunCause

LEMMA EntryOverruns ==
  ASSUME SearchInv, search = "entries", NEW e \in unread, e.kind = "file", e.name \in TestNames,
         Overruns(Append(dir, e.name))
  PROVE  CrashCause
<1> DEFINE p == Append(dir, e.name)
<1>1. Exists(p) /\ ~Known(p) /\ Len(sources) >= MaxSources
  BY DEF Overruns
<1>2. PathsInv /\ BelowInv /\ OriginInv /\ Reading
  BY DEF SearchInv, GoesWell, Reading
<1>3. /\ Root \in DOMAIN disk
      /\ p \in DOMAIN disk => ~Skipped(e.name)
      /\ ~Skipped(e.name) =>
                 /\ p \in DOMAIN disk /\ disk[p] = e.kind /\ p[Len(p)] = e.name
                 /\ Within(Root, p) /\ Len(Root) < Len(p)
  BY <1>2, EntryPath
<1> HIDE DEF p
<1>4. p \in TestsBelow(disk, Root)
  BY <1>1, <1>3 DEF Exists, TestsBelow, Within
<1>5. arg \in 1..(Len(argv) + 1) /\ Len(argv) \in Nat /\ DOMAIN argv = 1..Len(argv)
  <2>1. Len(argv) \in Nat /\ DOMAIN argv = 1..Len(argv)
    BY <1>2, LenProperties DEF PathsInv
  <2> QED
    BY <1>2, <2>1 DEF PathsInv
<1>6. ~InDefault => Leads(disk, argv, arg, p)
  <2> SUFFICES ASSUME ~InDefault PROVE Leads(disk, argv, arg, p)
    OBVIOUS
  <2>1. arg <= Len(argv) /\ arg \in DOMAIN argv
    BY <1>2, <1>5 DEF InDefault
  <2>2. Root = Target(argv[arg]) /\ Directory(disk, Root) /\ argv[arg] \notin Options
    BY <1>2, <2>1 DEF Root, BelowInv
  <2> QED
    BY <1>3, <1>4, <2>1, <2>2 DEF Leads, FilesOf
<1>7. InDefault => p \in TestsBelow(disk, Target(DefaultTests))
  BY <1>4, <1>5 DEF InDefault, Root
<1> QED
  BY <1>1, <1>2, <1>6, <1>7, OverrunCause

LEMMA NextFails == SearchInv /\ SearchFailsInv /\ [Next]_vars => SearchFailsInv'
<1> SUFFICES ASSUME SearchInv, SearchFailsInv, [Next]_vars PROVE SearchFailsInv'
  OBVIOUS
<1>1. CASE UNCHANGED searchVars \/ Vanish
  <2>1. UNCHANGED <<disk, argv, search>> /\ gone \subseteq gone'
    BY <1>1 DEF searchVars, Vanish
  <2> QED
    BY <2>1, CausesStay DEF SearchFailsInv
<1>2. CASE FetchSources
  <2>0. UNCHANGED <<disk, argv, gone>>
    <3>1. CASE SkipOption \/ NotThere \/ EnterDirectory \/ FetchNamed \/ ArgumentsDone
      BY <3>1 DEF SkipOption, NotThere, EnterDirectory, FetchNamed, ArgumentsDone, Fails, Overruns, tree
    <3>2. CASE OpenDirectory \/ CannotOpen \/ ReadEntry \/ CloseDirectory \/ DirectoryDone
      BY <3>2 DEF OpenDirectory, CannotOpen, ReadEntry, CloseDirectory, DirectoryDone, Fails,
         Overruns, tree
    <3> QED
      BY <1>2, <3>1, <3>2 DEF FetchSources
  <2>1. CASE NotThere \/ CannotOpen
    <3>1. FatalCause /\ search' = "fatal"
      BY <2>1, NotThereCause, CannotOpenCause DEF NotThere, CannotOpen, Fails
    <3> QED
      BY <2>0, <3>1, CausesStay DEF SearchFailsInv
  <2>2. CASE FetchNamed
    <3>1. search' = "crashed" => CrashCause
      BY <2>2, NamedOverruns
    <3>2. search' # "fatal"
      <4>1. \E p \in NextPath : search' = search \/ search' = "crashed"
        BY <2>2 DEF FetchNamed, Overruns
      <4>2. search # "fatal"
        BY <4>1 DEF NextPath
      <4> QED
        BY <4>1, <4>2
    <3> QED
      BY <2>0, <3>1, <3>2, CausesStay DEF SearchFailsInv
  <2>3. CASE ReadEntry
    <3>1. PICK e \in unread :
            LET p == Append(dir, e.name)
                fetches == e.kind = "file" /\ IsTest(e.name)
            IN Reads(e) \/ (fetches /\ ~Exists(p) /\ Fails) \/ (fetches /\ Overruns(p))
      BY <2>3 DEF ReadEntry, Reads, IsTest, tree
    <3>2. search = "entries"
      BY <2>3 DEF ReadEntry
    <3>3. CASE Reads(e)
      BY <3>3 DEF Reads, SearchFailsInv
    <3>4. CASE e.kind = "file" /\ ~Exists(Append(dir, e.name)) /\ Fails
      <4>1. FatalCause /\ search' = "fatal"
        BY <3>2, <3>4, NotFetchedCause DEF Fails
      <4> QED
        BY <2>0, <4>1, CausesStay DEF SearchFailsInv
    <3>5. CASE e.kind = "file" /\ IsTest(e.name) /\ Overruns(Append(dir, e.name))
      <4>1. CrashCause /\ search' = "crashed"
        BY <3>2, <3>5, EntryOverruns DEF Overruns, IsTest
      <4> QED
        BY <2>0, <4>1, CausesStay DEF SearchFailsInv
    <3> QED
      BY <3>1, <3>3, <3>4, <3>5
  <2>4. CASE SkipOption \/ EnterDirectory \/ ArgumentsDone \/ OpenDirectory \/ CloseDirectory
             \/ DirectoryDone
    <3>1. search' \notin {"fatal", "crashed"}
      BY <2>4 DEF SkipOption, At, EnterDirectory, ArgumentsDone, OpenDirectory, CloseDirectory,
         DirectoryDone
    <3> QED
      BY <3>1 DEF SearchFailsInv
  <2> QED
    BY <1>2, <2>1, <2>2, <2>3, <2>4 DEF FetchSources
<1> QED
  BY <1>1, <1>2, SearchSteps

LEMMA InitFails == Init => SearchFailsInv /\ ExitsInv
  BY DEF Init, SearchInit, SearchFailsInv, ExitsInv

\* Every step is one of a run that goes on.
LEMMA OnlyRunning == [Next]_vars => exitCode = "running" \/ UNCHANGED vars
<1> SUFFICES ASSUME Next, exitCode # "running" PROVE FALSE
  OBVIOUS
<1> USE DEF Running
<1>1. ~(ParseOption \/ UnknownOption \/ PassPath \/ OptionsParsed \/ ShowText \/ Start)
  BY DEF ParseOption, UnknownOption, PassPath, OptionsParsed, ShowText, Start
<1>2. ~(Fetching \/ FetchEnds \/ ReadSuite \/ NoTests \/ BeginTests)
  BY DEF Fetching, FetchEnds, ReadSuite, NoTests, BeginTests, SuitesRead
<1>3. ~(RunTests \/ Finish \/ RunnerDies \/ FileVanishes)
  BY DEF RunTests, Finish, RunnerDies, FileVanishes
<1> QED
  BY <1>1, <1>2, <1>3 DEF Next, Step

\* The variables of main, but the sources that were read.
MainInv ==
  /\ option \in 1..(Len(argv) + 1)
  /\ flags \subseteq {Means(a) : a \in Options} \cup {"--no-cache"}
  /\ mode \in {"detail", "passthrough"}
  /\ noCache \in BOOLEAN /\ cache \in {"absent", "old", "new"}
  /\ refused \subseteq {"remove", "save"}
  /\ exitCode \in {"running", "0", "1", "2", "signal"}

LEMMA InitMain == Init => MainInv
<1> SUFFICES ASSUME Init PROVE MainInv
  OBVIOUS
<1>1. option \in 1..(Len(argv) + 1)
  <2>1. option = 1 /\ Len(argv) \in Nat
    BY ApplicationAssumption, LenProperties DEF Init
  <2> QED
    BY <2>1
<1> QED
  BY <1>1 DEF Init, MainInv

LEMMA NextMain == SearchInv /\ MainInv /\ [Next]_vars => MainInv'
<1> SUFFICES ASSUME SearchInv, MainInv, [Next]_vars PROVE MainInv'
  OBVIOUS
<1> USE DEF Running, Goto, Exit
<1>0. UNCHANGED argv /\ Len(argv) \in Nat
  <2>1. Len(argv) \in Nat
    BY LenProperties DEF SearchInv, PathsInv
  <2>2. FetchSources => UNCHANGED argv
    BY DEF FetchSources, SkipOption, NotThere, EnterDirectory, FetchNamed, ArgumentsDone,
           OpenDirectory, CannotOpen, ReadEntry, CloseDirectory, DirectoryDone, Fails, Overruns,
           tree
  <2> QED
    BY <2>1, <2>2, SearchSteps DEF searchVars, Vanish
<1>1. CASE ParseOption
  <2> DEFINE o == Means(argv[option])
  <2>1. option <= Len(argv) /\ argv[option] \in Options /\ option' = option + 1
        /\ flags' = flags \cup ({o} \ {"--run-mode=detail", "--run-mode=passthrough"})
        /\ UNCHANGED <<at, noCache, cache, refused, exitCode>>
    BY <1>1 DEF ParseOption, IsOption, Set, cacheVars
  <2>2. mode' = CASE o = "--run-mode=detail" -> "detail"
                  [] o = "--run-mode=passthrough" -> "passthrough"
                  [] OTHER -> mode
    BY <1>1 DEF ParseOption, Set
  <2>3. mode' \in {"detail", "passthrough"}
    <3>1. mode \in {"detail", "passthrough"}
      BY DEF MainInv
    <3> HIDE DEF o
    <3> QED
      BY <2>2, <3>1
  <2>4. option' \in 1..(Len(argv) + 1)
    BY <1>0, <2>1 DEF MainInv
  <2>5. o \in {Means(a) : a \in Options}
    BY <2>1
  <2> HIDE DEF o
  <2> QED
    BY <1>0, <2>1, <2>3, <2>4, <2>5 DEF MainInv
<1>2. CASE PassPath
  <2>1. option' \in 1..(Len(argv) + 1)
    BY <1>0, <1>2 DEF PassPath, MainInv
  <2> QED
    BY <1>0, <1>2, <2>1 DEF PassPath, MainInv, cacheVars
<1>3. CASE UnknownOption \/ OptionsParsed \/ ShowText \/ FetchEnds \/ ReadSuite \/ BeginTests
  BY <1>0, <1>3 DEF UnknownOption, OptionsParsed, ShowText, FetchEnds, ReadSuite, BeginTests,
     MainInv, cacheVars
<1>4. CASE Start \/ NoTests \/ Finish \/ RunnerDies
  BY <1>0, <1>4 DEF Start, ClearCache, NoTests, SaveCache, Finish, RunnerDies, MainInv, cacheVars
<1>5. CASE UNCHANGED mainVars
  BY <1>0, <1>5 DEF mainVars, MainInv, cacheVars
<1>6. Fetching \/ RunTests \/ FileVanishes \/ UNCHANGED vars => UNCHANGED mainVars
  BY DEF Fetching, RunTests, FileVanishes, vars
<1> QED
  BY <1>1, <1>2, <1>3, <1>4, <1>5, <1>6 DEF Next, Step

LEMMA NextExits == SearchInv /\ MainInv /\ ReadInv /\ ExitsInv /\ [Next]_vars => ExitsInv'
<1> SUFFICES ASSUME SearchInv, MainInv, ReadInv, ExitsInv, [Next]_vars PROVE ExitsInv'
  OBVIOUS
<1>1. CASE UNCHANGED vars
  <2>1. UNCHANGED <<at, exitCode, argv, gone, sources>>
    BY <1>1 DEF vars, searchVars, mainVars
  <2>2. Found' = Found
    BY <2>1 DEF Found
  <2>3. exitCode' = "1" /\ at' = "options" =>
          \E k \in DOMAIN argv' : argv'[k] \in Options /\ Means(argv'[k]) = "unknown"
    BY <2>1 DEF ExitsInv
  <2>4. exitCode' = "1" /\ at' = "suites" => Found' \cap (Broken \cup gone') # {}
    BY <2>1, <2>2 DEF ExitsInv
  <2> QED
    BY <2>3, <2>4 DEF ExitsInv
<1>2. CASE Next /\ exitCode = "running"
  <2>1. CASE UnknownOption
    <3>1. at = "options" /\ UNCHANGED <<at, argv>> /\ option <= Len(argv) /\ argv[option] \in Options
          /\ Means(argv[option]) = "unknown"
      BY <2>1 DEF UnknownOption, Running, IsOption, Exit, searchVars
    <3>2. option \in DOMAIN argv
      <4>1. DOMAIN argv = 1..Len(argv) /\ Len(argv) \in Nat
        BY LenProperties DEF SearchInv, PathsInv
      <4> QED
        BY <3>1, <4>1 DEF MainInv
    <3> QED
      BY <3>1, <3>2 DEF ExitsInv
  <2>2. CASE ReadSuite
    <3> DEFINE p == sources[Len(suites) + 1]
    <3>1. at = "suites" /\ UNCHANGED <<at, sources, gone>> /\ Len(suites) < Len(sources)
      BY <2>2 DEF ReadSuite, Running, searchVars
    <3>2. Len(suites) \in Nat /\ Len(sources) \in Nat /\ sources \in Seq(DOMAIN disk)
          /\ DOMAIN sources = 1..Len(sources)
      BY LenProperties DEF ReadInv, SearchInv, PathsInv
    <3>3. Len(suites) + 1 \in DOMAIN sources
      BY <3>1, <3>2
    <3>4. p \in Found /\ p \in DOMAIN disk
      BY <3>2, <3>3, ElementOfSeq DEF Found
    <3>5. exitCode' = "1" => ~(Exists(p) /\ p \notin Broken)
      <4> HIDE DEF p
      <4> QED
        BY <1>2, <2>2 DEF ReadSuite, p
    <3> HIDE DEF p
    <3>6. exitCode' = "1" => Found \cap (Broken \cup gone) # {}
      BY <3>4, <3>5 DEF Exists
    <3>7. Found' = Found
      BY <3>1 DEF Found
    <3> QED
      BY <3>1, <3>6, <3>7 DEF ExitsInv
  <2>3. CASE at' \notin {"options", "suites"} \/ exitCode' # "1"
    BY <2>3 DEF ExitsInv
  <2>4. \/ UnknownOption \/ ReadSuite
        \/ at' \notin {"options", "suites"} \/ exitCode' # "1"
    <3> USE DEF Running, Goto, Exit
    <3>1. CASE ParseOption \/ PassPath \/ OptionsParsed \/ ShowText \/ Start
      BY <1>2, <3>1 DEF ParseOption, PassPath, OptionsParsed, ShowText, Start
    <3>2. CASE Fetching \/ FetchEnds \/ NoTests \/ BeginTests
      BY <1>2, <3>2 DEF Fetching, FetchEnds, NoTests, BeginTests, mainVars
    <3>3. CASE RunTests \/ Finish \/ RunnerDies \/ FileVanishes
      BY <1>2, <3>3 DEF RunTests, Finish, RunnerDies, FileVanishes, mainVars
    <3> QED
      BY <1>2, <3>1, <3>2, <3>3 DEF Next, Step
  <2> QED
    BY <2>1, <2>2, <2>3, <2>4
<1> QED
  BY <1>1, <1>2, OnlyRunning

\* A run fails only for a reason that lies in what it was given: an unknown
\* option, a path that is not there or cannot be read, more files than the list
\* has room for, a source that vanished or cannot be compiled (parse_options,
\* fetch_sources, fs_read_dir and read_suites).
THEOREM FailuresHaveReasons == Spec => []FailsForAReason
<1>1. SearchFailsInv /\ ExitsInv => FailsForAReason
  BY DEF SearchFailsInv, ExitsInv, FatalCause, CrashCause, Reached, Inside, FailsForAReason
<1>2. Init => ReadInv
  BY InitTold DEF ToldInv
<1> QED
  BY <1>1, <1>2, InitFails, InitSearch, InitMain, NextMain, NextRead, NextSearch, NextFails, NextExits, PTL DEF Spec
-----------------------------------------------------------------------------
(* The types.                                                              *)

\* The suites are the first sources, and in the end all.
SuitesInv ==
  /\ suites \in Seq(DOMAIN disk) /\ Len(suites) <= Len(sources)
  /\ \A k \in 1..Len(suites) : suites[k] = sources[k]
  /\ at \in {"options", "start", "sources"} => suites = <<>>
  /\ at = "tests" => Len(suites) = Len(sources) /\ tests = AllTests

LEMMA SameTests == UNCHANGED suites => AllTests' = AllTests
  BY DEF AllTests

LEMMA InitSuites == Init => SuitesInv
<1> SUFFICES ASSUME Init PROVE SuitesInv
  OBVIOUS
<1>1. suites = <<>> /\ sources = <<>> /\ at = "options"
  BY DEF Init, SearchInit
<1>2. suites \in Seq(DOMAIN disk) /\ Len(suites) = 0 /\ Len(sources) = 0
  BY <1>1, EmptySeq
<1> QED
  BY <1>1, <1>2 DEF SuitesInv

LEMMA ReadSuiteKeeps ==
  ASSUME PathsInv, SuitesInv, ReadSuite PROVE SuitesInv'
<1> DEFINE p == sources[Len(suites) + 1]
<1>1. /\ at = "suites" /\ UNCHANGED <<at, sources, disk>> /\ Len(suites) < Len(sources)
      /\ Len(suites) \in Nat /\ Len(sources) \in Nat /\ suites \in Seq(DOMAIN disk)
  BY LenProperties DEF ReadSuite, Running, searchVars, SuitesInv, PathsInv
<1>2. suites' = suites \/ suites' = Append(suites, p)
  BY DEF ReadSuite
<1>3. CASE suites' = suites
  BY <1>1, <1>3 DEF SuitesInv
<1>4. CASE suites' = Append(suites, p)
  <2>1. p \in DOMAIN disk
    <3>1. Len(suites) + 1 \in 1..Len(sources)
      BY <1>1
    <3> QED
      BY <3>1, ElementOfSeq DEF PathsInv
  <2>2. /\ Append(suites, p) \in Seq(DOMAIN disk) /\ Len(Append(suites, p)) = Len(suites) + 1
        /\ \A k \in 1..Len(suites) : Append(suites, p)[k] = suites[k]
        /\ Append(suites, p)[Len(suites) + 1] = p
    <3> HIDE DEF p
    <3> QED
      BY <1>1, <2>1, AppendProperties
  <2>3. \A k \in 1..(Len(suites) + 1) : Append(suites, p)[k] = sources[k]
    <3> SUFFICES ASSUME NEW k \in 1..(Len(suites) + 1) PROVE Append(suites, p)[k] = sources[k]
      OBVIOUS
    <3>1. k \in 1..Len(suites) \/ k = Len(suites) + 1
      BY <1>1
    <3> QED
      BY <2>2, <3>1 DEF SuitesInv
  <2>4. Len(suites) + 1 <= Len(sources)
    BY <1>1
  <2> HIDE DEF p
  <2> QED
    BY <1>1, <1>4, <2>2, <2>3, <2>4 DEF SuitesInv
<1> QED
  BY <1>2, <1>3, <1>4

LEMMA NextSuites ==
  CacheInv /\ SearchInv /\ SuitesInv /\ [Next]_vars => SuitesInv'
<1> SUFFICES ASSUME CacheInv, SearchInv, SuitesInv, [Next]_vars PROVE SuitesInv'
  OBVIOUS
<1> USE DEF Running, Goto, Exit
<1>1. UNCHANGED <<disk, sources, suites, tests, at>> => SuitesInv'
  BY SameTests DEF SuitesInv
<1>2. CASE ReadSuite
  BY <1>2, ReadSuiteKeeps DEF SearchInv
<1>3. CASE BeginTests
  <2>1. /\ at = "suites" /\ at' = "tests" /\ tests' = AllTests /\ UNCHANGED <<suites, sources, disk>>
        /\ Len(suites) = Len(sources)
    BY <1>3 DEF BeginTests, SuitesRead, searchVars
  <2> QED
    BY <2>1, SameTests DEF SuitesInv
<1>4. CASE OptionsParsed \/ Start \/ FetchEnds
  <2>1. at \in {"options", "start", "sources"} /\ UNCHANGED <<suites, sources, disk>> /\ at' # "tests"
    BY <1>4 DEF OptionsParsed, Start, FetchEnds, searchVars
  <2> QED
    BY <2>1 DEF SuitesInv
<1>5. CASE Fetching
  <2>1. at = "sources" /\ UNCHANGED <<suites, at, disk>> /\ suites = <<>>
    <3>1. at = "sources" /\ UNCHANGED <<suites, at>> /\ FetchSources
      BY <1>5 DEF Fetching, mainVars
    <3>2. FetchSources => UNCHANGED disk
      BY DEF FetchSources, SkipOption, NotThere, EnterDirectory, FetchNamed, ArgumentsDone,
           OpenDirectory, CannotOpen, ReadEntry, CloseDirectory, DirectoryDone, Fails, Overruns,
           tree
    <3> QED
      BY <3>1, <3>2 DEF SuitesInv
  <2>2. sources' \in Seq(DOMAIN disk')
    BY NextSearch DEF SearchInv, PathsInv
  <2>3. Len(sources') \in Nat
    BY <2>2, LenProperties
  <2>4. Len(suites) = 0
    BY <2>1
  <2> QED
    BY <2>1, <2>3, <2>4 DEF SuitesInv
<1>6. CASE RunTests
  <2>1. UNCHANGED tests
    BY <1>6 DEF RunTests, RunSuites, VisitInDetail, EndDetail, VisitInPassthrough, EndPassthrough,
       BeginList, ListNext, EndList, Summary
  <2> QED
    BY <1>1, <1>6, <2>1 DEF RunTests, searchVars, mainVars
<1>7. CASE ParseOption \/ UnknownOption \/ PassPath \/ Finish
  BY <1>1, <1>7 DEF ParseOption, UnknownOption, PassPath, Finish, searchVars, reportVars
<1>8. CASE ShowText \/ NoTests \/ RunnerDies
  BY <1>1, <1>8 DEF ShowText, NoTests, RunnerDies, searchVars, unprinted
<1>9. CASE FileVanishes
  BY <1>1, <1>9 DEF FileVanishes, Vanish, reportVars, mainVars
<1>10. CASE UNCHANGED vars
  BY <1>1, <1>10 DEF vars, searchVars, reportVars, mainVars
<1> QED
  BY <1>2, <1>3, <1>4, <1>5, <1>6, <1>7, <1>8, <1>9, <1>10 DEF Next, Step
-----------------------------------------------------------------------------
(* The counts.                                                             *)

Stages == Bad \cup {"tests", "list errors", "list failures", "summary", "over"}

CountsInv ==
  /\ at # "tests" => tests = <<>> /\ results = <<>> /\ stage = "tests"
  /\ stage \in Stages
  /\ Len(results) <= Len(tests)
  /\ \A k \in DOMAIN results : results[k].status \in Statuses
  /\ counts = [s \in Statuses |-> Cardinality(With(s))]
  /\ inLine \in 0..(PerLine - 1)
  /\ next <= Len(results) + 1 /\ number \in Nat /\ number < next

LEMMA StatusOfResult ==
  ASSUME NEW c \in Cases PROVE Result(c).status \in Statuses
<1>1. c.flag \in {"run", "SKIPPED", "INCOMPLETE"}
  BY DEF Cases
<1> DEFINE status == CASE c.flag # "run" -> c.flag
                       [] c.flag = "run" /\ c.error # "NONE" -> "ERROR"
                       [] c.flag = "run" /\ c.error = "NONE" ->
                            IF c.wrong # {} \/ Unexpected(c) THEN "FAILURE" ELSE "PASS"
<1>2. Result(c).status = status
  BY DEF Result
<1>3. CASE c.flag # "run"
  BY <1>1, <1>2, <1>3 DEF Statuses
<1>4. CASE c.flag = "run" /\ c.error # "NONE"
  BY <1>2, <1>4 DEF Statuses
<1>5. CASE c.flag = "run" /\ c.error = "NONE"
  BY <1>2, <1>5 DEF Statuses
<1> QED
  BY <1>3, <1>4, <1>5

LEMMA WithFacts ==
  ASSUME IsSeq(results), NEW s
  PROVE  /\ With(s) \subseteq 1..Len(results) /\ IsFiniteSet(With(s))
         /\ Cardinality(With(s)) \in Nat /\ Cardinality(With(s)) <= Len(results)
<1>1. DOMAIN results = 1..Len(results) /\ Len(results) \in Nat
  BY ConcatFacts
<1>2. With(s) \subseteq 1..Len(results)
  BY <1>1 DEF With
<1>3. IsFiniteSet(1..Len(results)) /\ Cardinality(1..Len(results)) = Len(results)
  <2>1. \A n \in Nat : IsFiniteSet(1..n) /\ Cardinality(1..n) = n
    BY FS_Interval
  <2> QED
    BY <1>1, <2>1
<1>4. IsFiniteSet(With(s)) /\ Cardinality(With(s)) <= Cardinality(1..Len(results))
  BY <1>2, <1>3, FS_Subset
<1>5. Cardinality(With(s)) \in Nat
  BY <1>4, FS_CardinalityType
<1> QED
  BY <1>2, <1>3, <1>4, <1>5

\* A result that joins the others counts for its status, and for no other.
LEMMA WithGrows ==
  ASSUME IsSeq(results), NEW r, NEW s, results' = Append(results, r)
  PROVE  With(s)' = IF r.status = s THEN With(s) \cup {Len(results) + 1} ELSE With(s)
<1> DEFINE n == Len(results)
<1>1. n \in Nat /\ DOMAIN results = 1..n
  BY ConcatFacts
<1>2. /\ DOMAIN Append(results, r) = 1..(n + 1)
      /\ \A k \in 1..n : Append(results, r)[k] = results[k]
      /\ Append(results, r)[n + 1] = r
  <2>1. results \in Seq({results[k] : k \in DOMAIN results} \cup {r})
    <3> DEFINE A == {results[k] : k \in DOMAIN results}
    <3>1. results \in Seq(A) /\ A \subseteq A \cup {r}
      BY DEF IsSeq
    <3> HIDE DEF A
    <3> QED
      BY <3>1, SeqMonotonic DEF A
  <2>2. r \in {results[k] : k \in DOMAIN results} \cup {r}
    OBVIOUS
  <2> QED
    BY <2>1, <2>2, AppendProperties, LenProperties
<1>3. 1..(n + 1) = 1..n \cup {n + 1} /\ n + 1 \notin 1..n
  BY <1>1
<1> HIDE DEF n
<1>4. With(s)' = {k \in 1..(n + 1) : Append(results, r)[k].status = s}
  BY <1>2 DEF With
<1>5. With(s) = {k \in 1..n : results[k].status = s}
  BY <1>1 DEF With
<1>6. \A k : k \in With(s)' <=> k \in With(s) \/ (k = n + 1 /\ r.status = s)
  BY <1>2, <1>3, <1>4, <1>5
<1> QED
  BY <1>6 DEF n

LEMMA VisitCounts ==
  ASSUME IsSeq(results), CountsInv, NEW r, r.status \in Statuses, Visit(r)
  PROVE  /\ counts' = [s \in Statuses |-> Cardinality(With(s)')]
         /\ \A k \in DOMAIN results' : results'[k].status \in Statuses
         /\ Len(results') = Len(results) + 1
<1>1. results' = Append(results, r) /\ counts' = [counts EXCEPT ![r.status] = @ + 1]
  BY DEF Visit
<1>2. Len(results) \in Nat /\ Len(Append(results, r)) = Len(results) + 1
  <2>1. results \in Seq({results[k] : k \in DOMAIN results} \cup {r})
    <3> DEFINE A == {results[k] : k \in DOMAIN results}
    <3>1. results \in Seq(A) /\ A \subseteq A \cup {r}
      BY DEF IsSeq
    <3> HIDE DEF A
    <3> QED
      BY <3>1, SeqMonotonic DEF A
  <2> QED
    BY <2>1, AppendProperties, LenProperties
<1>3. \A k \in DOMAIN results' : results'[k].status \in Statuses
  <2>1. \A k \in DOMAIN Append(results, r) :
           (k \in DOMAIN results /\ Append(results, r)[k] = results[k]) \/ Append(results, r)[k] = r
    BY Appended
  <2> QED
    BY <1>1, <2>1 DEF CountsInv
<1>4. ASSUME NEW s \in Statuses PROVE counts'[s] = Cardinality(With(s)')
  <2>1. counts[s] = Cardinality(With(s)) /\ counts \in [Statuses -> Nat]
    BY WithFacts DEF CountsInv
  <2>2. counts'[s] = IF s = r.status THEN Cardinality(With(s)) + 1 ELSE Cardinality(With(s))
    BY <1>1, <2>1
  <2>3. CASE s = r.status
    <3>1. With(s)' = With(s) \cup {Len(results) + 1} /\ Len(results) + 1 \notin With(s)
      <4>1. Len(results) + 1 \notin 1..Len(results)
        BY <1>2
      <4> QED
        BY <1>1, <2>3, <4>1, WithGrows, WithFacts
    <3>2. Cardinality(With(s) \cup {Len(results) + 1}) = Cardinality(With(s)) + 1
      BY <3>1, WithFacts, FS_AddElement
    <3> QED
      BY <2>2, <2>3, <3>1, <3>2
  <2>4. CASE s # r.status
    <3>1. With(s)' = With(s)
      BY <1>1, <2>4, WithGrows
    <3> QED
      BY <2>2, <2>4, <3>1
  <2> QED
    BY <2>3, <2>4
<1>5. counts' = [s \in Statuses |-> counts'[s]]
  BY <1>1 DEF CountsInv
<1> DEFINE C(s) == Cardinality(With(s)')
<1>6. \A s \in Statuses : counts'[s] = C(s)
  BY <1>4
<1> HIDE DEF C
<1>7. counts' = [s \in Statuses |-> C(s)]
  BY <1>5, <1>6
<1> QED
  BY <1>1, <1>2, <1>3, <1>7 DEF C

LEMMA InitCounts == Init => CountsInv
<1> SUFFICES ASSUME Init PROVE CountsInv
  OBVIOUS
<1>1. /\ tests = <<>> /\ results = <<>> /\ stage = "tests" /\ inLine = 0 /\ next = 1 /\ number = 0
      /\ counts = [s \in Statuses |-> 0]
  BY DEF Init, ReportInit
<1>2. Len(<<>>) = 0 /\ DOMAIN <<>> = {}
  OBVIOUS
<1>3. \A s : With(s) = {}
  BY <1>1, <1>2 DEF With
<1>4. counts = [s \in Statuses |-> Cardinality(With(s))]
  <2>1. \A s \in Statuses : Cardinality(With(s)) = 0
    BY <1>3, FS_EmptySet
  <2> QED
    BY <1>1, <2>1
<1>5. inLine \in 0..(PerLine - 1)
  BY <1>1, ReportAssumption
<1> QED
  BY <1>1, <1>2, <1>4, <1>5 DEF CountsInv, Stages

LEMMA VisitKeepsCounts ==
  ASSUME ResultsInv, CountsInv, Visiting, Visit(Result(tests[Len(results) + 1].case)),
         UNCHANGED <<tests, stage, next, number, at>>, at = "tests",
         inLine' \in 0..(PerLine - 1)
  PROVE  CountsInv'
<1> DEFINE r == Result(tests[Len(results) + 1].case)
<1>1. IsSeq(results) /\ IsSeq(tests) /\ Len(results) < Len(tests)
  BY DEF ResultsInv, Visiting
<1>2. Len(results) \in Nat /\ Len(tests) \in Nat /\ DOMAIN tests = 1..Len(tests)
  BY <1>1, ConcatFacts
<1>3. tests[Len(results) + 1].case \in Cases
  <2>1. Len(results) + 1 \in DOMAIN tests
    BY <1>1, <1>2
  <2> QED
    BY <2>1 DEF ResultsInv
<1>4. r.status \in Statuses
  BY <1>3, StatusOfResult
<1> HIDE DEF r
<1>5. /\ counts' = [s \in Statuses |-> Cardinality(With(s)')]
      /\ \A k \in DOMAIN results' : results'[k].status \in Statuses
      /\ Len(results') = Len(results) + 1
  BY <1>1, <1>4, VisitCounts DEF r
<1>6. /\ Len(results') <= Len(tests) /\ next <= Len(results') + 1
      /\ number \in Nat /\ number < next
  BY <1>1, <1>2, <1>5 DEF CountsInv, ResultsInv
<1> QED
  BY <1>5, <1>6 DEF CountsInv

\* The results are what they were.
LEMMA CountsStay ==
  ASSUME CountsInv, UNCHANGED <<results, counts>>,
         /\ at' # "tests" => at # "tests" /\ UNCHANGED <<tests, stage>>
         /\ stage' \in Stages /\ Len(results) <= Len(tests') /\ inLine' \in 0..(PerLine - 1)
         /\ next' <= Len(results) + 1 /\ number' \in Nat /\ number' < next'
  PROVE  CountsInv'
<1>1. \A s : With(s)' = With(s)
  BY DEF With
<1>2. counts' = [s \in Statuses |-> Cardinality(With(s)')]
  BY <1>1 DEF CountsInv
<1> QED
  BY <1>2 DEF CountsInv

LEMMA NextCounts == ReadInv /\ ResultsInv /\ CountsInv /\ [Next]_vars => CountsInv'
<1> SUFFICES ASSUME ReadInv, ResultsInv, CountsInv, [Next]_vars PROVE CountsInv'
  OBVIOUS
<1> USE DEF Running, Goto, Exit
<1>0. /\ Len(results) \in Nat /\ Len(tests) \in Nat /\ next \in Nat \ {0}
      /\ inLine \in 0..(PerLine - 1) /\ number \in Nat /\ number < next
      /\ next <= Len(results) + 1 /\ Len(results) <= Len(tests) /\ stage \in Stages
  BY ConcatFacts DEF CountsInv, ResultsInv
<1>1. UNCHANGED <<unprinted, at>> => CountsInv'
  BY <1>0, CountsStay DEF unprinted
<1>2. CASE BeginTests
  <2>1. /\ tests' = AllTests /\ at = "suites" /\ at' = "tests"
        /\ UNCHANGED <<stage, results, counts, inLine, next, number>>
    BY <1>2 DEF BeginTests, SuitesRead
  <2>2. results = <<>>
    BY <2>1 DEF CountsInv
  <2>3. Len(AllTests) \in Nat /\ Len(results) = 0
    BY <2>2, AllTestsType, ConcatFacts
  <2> QED
    BY <1>0, <2>1, <2>3, CountsStay
<1>3. CASE RunTests
  <2>0. at = "tests" /\ UNCHANGED at
    BY <1>3 DEF RunTests, mainVars
  <2>1. RunSuites(mode = "detail", "--no-summary" \in flags)
    BY <1>3 DEF RunTests
  <2>2. CASE VisitInDetail \/ VisitInPassthrough
    <3>1. /\ Visiting /\ Visit(Result(tests[Len(results) + 1].case))
          /\ UNCHANGED <<tests, stage, next, number>>
      BY <2>2 DEF VisitInDetail, VisitInPassthrough
    <3>2. inLine' \in 0..(PerLine - 1)
      <4>1. inLine' = inLine \/ inLine' = (inLine + 1) % PerLine
        BY <2>2 DEF VisitInDetail, VisitInPassthrough
      <4>2. (inLine + 1) % PerLine \in 0..(PerLine - 1)
        BY <1>0, ReportAssumption
      <4> QED
        BY <1>0, <4>1, <4>2
    <3> QED
      BY <2>0, <3>1, <3>2, VisitKeepsCounts
  <2>3. CASE BeginList
    <3>1. /\ next' = 1 /\ number' = 0 /\ UNCHANGED <<tests, results, counts, inLine>>
          /\ stage' \in Stages
      BY <2>3 DEF BeginList, AfterList, Stages, Bad
    <3> QED
      BY <1>0, <2>0, <3>1, CountsStay
  <2>4. CASE ListNext
    <3>1. /\ next' = next + 1 /\ (number' = number + 1 \/ number' = number)
          /\ next <= Len(results) /\ UNCHANGED <<tests, stage, results, counts, inLine>>
      BY <2>4 DEF ListNext
    <3>2. next' <= Len(results) + 1 /\ number' \in Nat /\ number' < next'
      BY <1>0, <3>1
    <3> QED
      BY <1>0, <2>0, <3>1, <3>2, CountsStay
  <2>5. CASE EndDetail \/ EndPassthrough \/ EndList
    <3>1. /\ UNCHANGED <<tests, results, counts, inLine, next, number>>
          /\ stage' \in Stages
      BY <2>5 DEF EndDetail, EndPassthrough, EndList, AfterList, Listed, Stages, Bad
    <3> QED
      BY <1>0, <2>0, <3>1, CountsStay
  <2>6. CASE Summary(mode = "detail", "--no-summary" \in flags)
    <3>1. /\ UNCHANGED <<tests, results, counts, inLine, next, number>>
          /\ stage' \in Stages
      BY <2>6 DEF Summary, Stages
    <3> QED
      BY <1>0, <2>0, <3>1, CountsStay
  <2> QED
    BY <2>1, <2>2, <2>3, <2>4, <2>5, <2>6 DEF RunSuites
<1>4. CASE ParseOption \/ UnknownOption \/ PassPath \/ OptionsParsed \/ Start \/ FetchEnds
  <2>1. UNCHANGED unprinted /\ (at' = "tests" => at = "tests")
    BY <1>4 DEF ParseOption, UnknownOption, PassPath, OptionsParsed, Start, FetchEnds, reportVars,
       unprinted
  <2>2. at' # "tests" => at # "tests"
    BY <1>4 DEF ParseOption, UnknownOption, PassPath, OptionsParsed, Start, FetchEnds
  <2> QED
    BY <1>0, <2>1, <2>2, CountsStay DEF unprinted
<1>5. CASE ShowText \/ NoTests \/ RunnerDies \/ ReadSuite \/ Finish
  BY <1>1, <1>5 DEF ShowText, NoTests, RunnerDies, ReadSuite, Finish, reportVars, unprinted
<1>6. CASE Fetching \/ FileVanishes
  BY <1>1, <1>6 DEF Fetching, FileVanishes, reportVars, unprinted, mainVars
<1>7. CASE UNCHANGED vars
  BY <1>1, <1>7 DEF vars, reportVars, unprinted, mainVars
<1> QED
  BY <1>2, <1>3, <1>4, <1>5, <1>6, <1>7 DEF Next, Step

LEMMA SearchTyped == SearchInv => SearchTypeOK
<1> SUFFICES ASSUME SearchInv PROVE SearchTypeOK
  OBVIOUS
<1>1. PathsInv
  BY DEF SearchInv
<1>2. Len(sources) <= Cardinality(DOMAIN disk)
  <2>1. IsFiniteSet(Found) /\ Cardinality(Found) = Len(sources)
    BY <1>1, FoundCount
  <2>2. IsFiniteSet(DOMAIN disk)
    BY <1>1, TreeAssumption DEF PathsInv
  <2>3. Found \subseteq DOMAIN disk
    <3>1. DOMAIN sources = 1..Len(sources)
      BY <1>1, LenProperties DEF PathsInv
    <3> QED
      BY <1>1, <3>1, ElementOfSeq DEF PathsInv, Found
  <2>4. Cardinality(Found) <= Cardinality(DOMAIN disk)
    BY <2>2, <2>3, FS_Subset
  <2> QED
    BY <2>1, <2>4
<1>3. \A i \in DOMAIN queue : IsDir(queue[i])
  <2>1. DOMAIN queue = 1..Len(queue)
    BY <1>1, LenProperties DEF PathsInv
  <2>2. \A i \in DOMAIN queue : Directory(disk, queue[i])
    BY <1>1, <2>1, ElementOfSeq DEF PathsInv
  <2> QED
    BY <2>2 DEF Directory, IsDir
<1> QED
  BY <1>1, <1>2, <1>3 DEF PathsInv, SearchTypeOK

LEMMA ReportTyped == ResultsInv /\ CountsInv => ReportTypeOK
<1> SUFFICES ASSUME ResultsInv, CountsInv PROVE ReportTypeOK
  OBVIOUS
<1>1. Len(results) \in Nat /\ Len(tests) \in Nat /\ IsSeq(results) /\ Len(results) <= Len(tests)
  BY ConcatFacts DEF ResultsInv, CountsInv
<1>2. counts \in [Statuses -> 0..Len(tests)]
  <2>1. \A s \in Statuses : Cardinality(With(s)) \in 0..Len(tests)
    BY <1>1, WithFacts
  <2> QED
    BY <2>1 DEF CountsInv
<1>3. next \in 1..(Len(tests) + 1) /\ number \in 0..Len(tests)
  BY <1>1 DEF CountsInv, ResultsInv
<1> QED
  BY <1>1, <1>2, <1>3 DEF CountsInv, ReportTypeOK, Stages

\* Every variable has its type (for every file tree, all arguments, and tests of
\* any kind and number): what fetch_sources keeps of the paths, what the results
\* and counts of run_suites are, and that the suites are the first sources.
THEOREM Typed == Spec => []TypeOK
<1>1. CacheInv /\ SearchInv /\ ResultsInv /\ SuitesInv /\ CountsInv /\ MainInv => TypeOK
  <2> SUFFICES ASSUME CacheInv, SearchInv, ResultsInv, SuitesInv, CountsInv, MainInv PROVE TypeOK
    OBVIOUS
  <2>1. suites = SubSeq(sources, 1, Len(suites))
    <3> DEFINE n == Len(suites)
    <3>1. /\ suites \in Seq(DOMAIN disk) /\ sources \in Seq(DOMAIN disk)
          /\ n \in Nat /\ n <= Len(sources) /\ \A k \in 1..n : suites[k] = sources[k]
          /\ Len(sources) \in Nat
      BY LenProperties DEF SuitesInv, SearchInv, PathsInv
    <3>2. /\ SubSeq(sources, 1, n) \in Seq(DOMAIN disk) /\ Len(SubSeq(sources, 1, n)) = n
          /\ \A k \in 1..n : SubSeq(sources, 1, n)[k] = sources[k]
      <4> HIDE DEF n
      <4>1. 1 \in 1..(Len(sources) + 1) /\ n \in (1 - 1)..Len(sources)
        BY <3>1
      <4>2. IF 1 <= n THEN n - 1 + 1 = n ELSE n = 0
        BY <3>1
      <4> QED
        BY <3>1, <4>1, <4>2, SubSeqProperties
    <3>3. \A k \in 1..n : suites[k] = SubSeq(sources, 1, n)[k]
      BY <3>1, <3>2
    <3> HIDE DEF n
    <3>4. Len(suites) = Len(SubSeq(sources, 1, n)) /\ \A k \in 1..Len(suites) : suites[k] = SubSeq(sources, 1, n)[k]
      BY <3>2, <3>3 DEF n
    <3> QED
      BY <3>1, <3>2, <3>4, SeqEqual DEF n
  <2>2. at \in {"options", "start", "sources", "suites", "tests"}
    BY DEF CacheInv, SettledInv
  <2>3. SearchTypeOK /\ ReportTypeOK
    BY SearchTyped, ReportTyped
  <2> QED
    BY <2>1, <2>2, <2>3 DEF MainInv, TypeOK
<1>2. Init => ReadInv /\ ResultsInv
  BY InitTold DEF ToldInv
<1> QED
  BY <1>1, <1>2, InitCache, NextCache, InitSearch, NextSearch, NextRead, NextResults, InitSuites,
     NextSuites, InitCounts, NextCounts, InitMain, NextMain, PTL DEF Spec
-----------------------------------------------------------------------------
(* All tests, suite by suite (test_iterator_init_by_suites).               *)

\* The tests of the k-th suite.
SuiteTests(k) ==
  [n \in 1..Len(Content(suites[k])) |-> [suite |-> k, case |-> Content(suites[k])[n]]]

LEMMA AllTestsJoin ==
  ASSUME Len(suites) \in Nat
  PROVE  \E f : /\ f = [k \in 0..Len(suites) |->
                          IF k = 0 THEN <<>> ELSE f[k - 1] \o SuiteTests(k)]
                /\ AllTests = f[Len(suites)]
<1> DEFINE N == Len(suites)
           part == [k \in 1..N |-> SuiteTests(k)]
           Joins(f) == f = [k \in 0..N |-> IF k = 0 THEN <<>> ELSE f[k - 1] \o part[k]]
           Steps(f) == f = [k \in 0..N |-> IF k = 0 THEN <<>> ELSE f[k - 1] \o SuiteTests(k)]
           h == CHOOSE f : Steps(f)
<1>1. \E f : Joins(f)
  <2>1. N \in Nat
    OBVIOUS
  <2> HIDE DEF N, part
  <2> QED
    BY <2>1, JoinExists
<1>2. \A f : Joins(f) <=> Steps(f)
  <2> SUFFICES ASSUME NEW f PROVE Joins(f) <=> Steps(f)
    OBVIOUS
  <2>1. \A k \in 0..N : k # 0 => part[k] = SuiteTests(k)
    <3>1. \A k \in 0..N : k # 0 => k \in 1..N
      OBVIOUS
    <3> QED
      BY <3>1
  <2> HIDE DEF part
  <2> QED
    BY <2>1
<1>3. \E f : Steps(f)
  <2> HIDE DEF Steps, Joins
  <2> QED
    BY <1>1, <1>2
<1>4. Steps(h)
  <2> HIDE DEF Steps
  <2> QED
    BY <1>3
<1>5. AllTests = h[N]
  BY DEF AllTests, SuiteTests
<1> HIDE DEF h
<1> QED
  BY <1>4, <1>5

\* The tests of the k-th suite stand together in t.
Block(t, k) ==
  \E d \in 0..Len(t) :
    /\ {n \in DOMAIN t : t[n].suite = k} = (d + 1)..(d + Len(Content(suites[k])))
    /\ \A n \in 1..Len(Content(suites[k])) : t[d + n].case = Content(suites[k])[n]

\* The tests of the first m suites, suite by suite.
BySuite(t, m) ==
  /\ IsSeq(t)
  /\ \A i \in DOMAIN t : t[i].suite \in 1..m
  /\ \A i, j \in DOMAIN t : i < j => t[i].suite <= t[j].suite
  /\ \A k \in 1..m : Block(t, k)

LEMMA SuiteJoins ==
  ASSUME NEW m \in Nat, NEW t, BySuite(t, m),
         \A k \in 1..(m + 1) : Content(suites[k]) \in Seq(Cases)
  PROVE  BySuite(t \o SuiteTests(m + 1), m + 1)
<1> DEFINE c == Content(suites[m + 1])
           p == SuiteTests(m + 1)
           u == t \o p
<1>10. \A k \in 1..(m + 1) : Len(Content(suites[k])) \in Nat
  BY LenProperties
<1>1. Len(c) \in Nat
  BY <1>10
<1>2. /\ IsSeq(p) /\ Len(p) = Len(c) /\ DOMAIN p = 1..Len(c)
      /\ \A n \in 1..Len(c) : p[n].suite = m + 1 /\ p[n].case = c[n]
  <2>1. p = [n \in 1..Len(c) |-> [suite |-> m + 1, case |-> c[n]]]
    BY DEF SuiteTests
  <2> DEFINE A == {p[k] : k \in DOMAIN p}
  <2> HIDE DEF c, p
  <2>2. DOMAIN p = 1..Len(c) /\ \A n \in 1..Len(c) : p[n] = [suite |-> m + 1, case |-> c[n]]
    BY <2>1
  <2>3. p = [n \in 1..Len(c) |-> p[n]] /\ \A n \in 1..Len(c) : p[n] \in A
    BY <2>1, <2>2
  <2>4. p \in Seq(A) /\ Len(p) = Len(c)
    <3> HIDE DEF A
    <3>1. [n \in 1..Len(c) |-> p[n]] \in Seq(A)
      BY <1>1, <2>3, IsASeq
    <3>2. DOMAIN p = 1..Len(p) /\ Len(p) \in Nat
      BY <2>3, <3>1, LenProperties
    <3> QED
      BY <1>1, <2>2, <2>3, <3>1, <3>2
  <2>5. IsSeq(p)
    BY <2>4 DEF IsSeq
  <2> QED
    BY <2>2, <2>4, <2>5
<1> HIDE DEF c, p, u
<1>3. /\ IsSeq(t) /\ Len(t) \in Nat /\ DOMAIN t = 1..Len(t)
      /\ IsSeq(u) /\ DOMAIN u = 1..(Len(t) + Len(c)) /\ Len(u) = Len(t) + Len(c)
      /\ \A k \in 1..Len(t) : u[k] = t[k]
      /\ \A k \in 1..Len(c) : u[Len(t) + k] = p[k]
  <2>1. IsSeq(t)
    BY DEF BySuite
  <2>2. /\ IsSeq(t \o p) /\ Len(t) \in Nat /\ Len(t \o p) = Len(t) + Len(p)
        /\ DOMAIN t = 1..Len(t) /\ DOMAIN (t \o p) = 1..(Len(t) + Len(p))
        /\ \A k \in 1..Len(t) : (t \o p)[k] = t[k]
        /\ \A k \in 1..Len(p) : (t \o p)[Len(t) + k] = p[k]
    BY <1>2, <2>1, ConcatFacts
  <2>3. Len(p) = Len(c) /\ u = t \o p
    BY <1>2 DEF u
  <2> QED
    BY <2>1, <2>2, <2>3
<1>4. \A i \in DOMAIN u :
        \/ i \in DOMAIN t /\ u[i] = t[i]
        \/ i > Len(t) /\ i - Len(t) \in 1..Len(c) /\ u[i].suite = m + 1
  <2> SUFFICES ASSUME NEW i \in DOMAIN u
               PROVE  \/ i \in DOMAIN t /\ u[i] = t[i]
                      \/ i > Len(t) /\ i - Len(t) \in 1..Len(c) /\ u[i].suite = m + 1
    OBVIOUS
  <2>0. CASE i \in DOMAIN t
    BY <1>3, <2>0
  <2> SUFFICES ASSUME i \notin DOMAIN t
               PROVE  i > Len(t) /\ i - Len(t) \in 1..Len(c) /\ u[i].suite = m + 1
    BY <2>0
  <2>1. i > Len(t) /\ i - Len(t) \in 1..Len(c) /\ i = Len(t) + (i - Len(t))
    BY <1>1, <1>3
  <2>2. u[i] = p[i - Len(t)]
    BY <1>3, <2>1
  <2> QED
    BY <1>2, <2>1, <2>2
<1>5. \A i \in DOMAIN u : u[i].suite \in 1..(m + 1)
  <2>1. \A i \in DOMAIN t : t[i].suite \in 1..m
    BY DEF BySuite
  <2>2. m + 1 \in 1..(m + 1) /\ \A x \in 1..m : x \in 1..(m + 1)
    OBVIOUS
  <2> QED
    BY <1>4, <2>1, <2>2
<1>6. ASSUME NEW i \in DOMAIN u, NEW j \in DOMAIN u, i < j PROVE u[i].suite <= u[j].suite
  <2>1. CASE j \in DOMAIN t /\ u[j] = t[j]
    <3>1. i \in DOMAIN t
      BY <1>3, <1>6, <2>1
    <3> QED
      BY <1>3, <1>6, <2>1, <3>1 DEF BySuite
  <2>2. CASE u[j].suite = m + 1
    BY <1>5, <2>2
  <2> QED
    BY <1>4, <2>1, <2>2
<1>7. ASSUME NEW k \in 1..m PROVE Block(u, k)
  <2>1. PICK d \in 0..Len(t) :
          /\ {n \in DOMAIN t : t[n].suite = k} = (d + 1)..(d + Len(Content(suites[k])))
          /\ \A n \in 1..Len(Content(suites[k])) : t[d + n].case = Content(suites[k])[n]
    BY DEF BySuite, Block
  <2>2. {n \in DOMAIN u : u[n].suite = k} = {n \in DOMAIN t : t[n].suite = k}
    <3>1. m + 1 # k
      OBVIOUS
    <3>2. \A n \in DOMAIN t : n \in DOMAIN u /\ u[n] = t[n]
      BY <1>1, <1>3
    <3> QED
      BY <1>4, <3>1, <3>2
  <2>3. \A n \in 1..Len(Content(suites[k])) : u[d + n].case = Content(suites[k])[n]
    <3> SUFFICES ASSUME NEW n \in 1..Len(Content(suites[k]))
                 PROVE  u[d + n].case = Content(suites[k])[n]
      OBVIOUS
    <3>1. d + n \in (d + 1)..(d + Len(Content(suites[k])))
      <4> DEFINE l == Len(Content(suites[k]))
      <4>0. l \in Nat
        BY <1>10
      <4>1. n \in 1..l
        OBVIOUS
      <4> HIDE DEF l
      <4>2. d + n \in (d + 1)..(d + l)
        BY <4>0, <4>1
      <4> QED
        BY <4>2 DEF l
    <3>2. d + n \in DOMAIN t
      <4>1. d + n \in {x \in DOMAIN t : t[x].suite = k}
        BY <2>1, <3>1
      <4> QED
        BY <4>1
    <3> QED
      BY <1>3, <2>1, <3>2
  <2>4. d \in 0..Len(u)
    BY <1>1, <1>3
  <2> QED
    BY <2>1, <2>2, <2>3, <2>4 DEF Block
<1>8. Block(u, m + 1)
  <2>1. {n \in DOMAIN u : u[n].suite = m + 1} = (Len(t) + 1)..(Len(t) + Len(c))
    <3>1. \A n \in DOMAIN t : t[n].suite # m + 1
      <4>1. \A n \in DOMAIN t : t[n].suite \in 1..m
        BY DEF BySuite
      <4>2. m + 1 \notin 1..m
        OBVIOUS
      <4> QED
        BY <4>1, <4>2
    <3>2. \A n \in DOMAIN u : u[n].suite = m + 1 => n \in (Len(t) + 1)..(Len(t) + Len(c))
      <4> SUFFICES ASSUME NEW n \in DOMAIN u, u[n].suite = m + 1
                   PROVE  n \in (Len(t) + 1)..(Len(t) + Len(c))
        OBVIOUS
      <4>1. ~(n \in DOMAIN t /\ u[n] = t[n])
        BY <3>1
      <4>2. n > Len(t) /\ n \in 1..(Len(t) + Len(c))
        BY <1>3, <1>4, <4>1
      <4> QED
        BY <1>1, <1>3, <4>2
    <3>3. \A n \in (Len(t) + 1)..(Len(t) + Len(c)) : n \in DOMAIN u /\ n \notin DOMAIN t
      BY <1>1, <1>3
    <3> QED
      BY <1>4, <3>2, <3>3
  <2>2. \A n \in 1..Len(c) : u[Len(t) + n].case = c[n]
    BY <1>2, <1>3
  <2>3. Len(t) \in 0..Len(u)
    BY <1>1, <1>3
  <2> QED
    BY <2>1, <2>2, <2>3 DEF Block, c
<1>9. \A k \in 1..(m + 1) : Block(u, k)
  <2>1. \A k \in 1..(m + 1) : k \in 1..m \/ k = m + 1
    OBVIOUS
  <2> QED
    BY <1>7, <1>8, <2>1
<1> QED
  BY <1>3, <1>5, <1>6, <1>9 DEF BySuite, u, p

\* The iterator has the tests of all suites, suite by suite.
LEMMA AllTestsBySuite ==
  ASSUME ReadInv PROVE BySuite(AllTests, Len(suites))
<1> DEFINE N == Len(suites)
<1>1. N \in Nat /\ \A k \in 1..N : Content(suites[k]) \in Seq(Cases)
  <2>1. N \in Nat /\ \A k \in 1..N : suites[k] \in Sources
    BY LenProperties, ElementOfSeq DEF ReadInv
  <2> QED
    BY <2>1, ApplicationAssumption DEF Sources
<1>2. PICK f : /\ f = [k \in 0..N |-> IF k = 0 THEN <<>> ELSE f[k - 1] \o SuiteTests(k)]
               /\ AllTests = f[N]
  BY <1>1, AllTestsJoin
<1> HIDE DEF N
<1>3. \A k \in 0..N : f[k] = IF k = 0 THEN <<>> ELSE f[k - 1] \o SuiteTests(k)
  BY <1>2
<1> DEFINE S == {n \in 0..N : ~BySuite(f[n], n)}
<1> SUFFICES ASSUME N \in S PROVE FALSE
  BY <1>1, <1>2 DEF N
<1>4. PICK m \in S : \A n \in S : m <= n
  <2>1. S \in SUBSET (0..N) /\ S # {}
    OBVIOUS
  <2> HIDE DEF S
  <2> QED
    BY <1>1, <2>1, FirstExists
<1>5. m \in 0..N /\ ~BySuite(f[m], m)
  BY <1>4
<1>6. m # 0
  <2> SUFFICES ASSUME m = 0 PROVE FALSE
    OBVIOUS
  <2>1. f[0] = <<>>
    BY <1>3, <1>5
  <2>2. IsSeq(<<>>) /\ DOMAIN <<>> = {} /\ 1..0 = {}
    BY EmptyIsQuiet DEF Quiet
  <2>3. BySuite(<<>>, 0)
    BY <2>2 DEF BySuite
  <2> QED
    BY <1>5, <2>1, <2>3
<1>7. m - 1 \in Nat /\ m - 1 \in 0..N /\ ~(m <= m - 1) /\ (m - 1) + 1 = m /\ m \in 1..N
  BY <1>1, <1>5, <1>6
<1>8. BySuite(f[m - 1], m - 1)
  BY <1>4, <1>7
<1>9. BySuite(f[m - 1] \o SuiteTests((m - 1) + 1), (m - 1) + 1)
  <2>1. \A k \in 1..((m - 1) + 1) : Content(suites[k]) \in Seq(Cases)
    BY <1>1, <1>7
  <2> QED
    BY <1>7, <1>8, <2>1, SuiteJoins
<1>10. f[m] = f[m - 1] \o SuiteTests(m)
  BY <1>3, <1>5, <1>6
<1> HIDE DEF S
<1> QED
  BY <1>5, <1>7, <1>9, <1>10
-----------------------------------------------------------------------------
(* What a report tells: the items of a kind, and how they grow.            *)

Where(s, kind) == {i \in DOMAIN s : s[i].kind = kind}

Telling == {"test", "suite", "mark", "percent", "entry", "number", "there are", "count", "headline"}

\* Items that say nothing of those kinds.
Aside(s) == IsSeq(s) /\ \A k \in DOMAIN s : s[k].kind \notin Telling

\* From s to u the items of the kind stay.
Stays(s, u, kind) ==
  Where(u, kind) = Where(s, kind) /\ \A i \in Where(s, kind) : u[i] = s[i]

\* There is one more, at p, behind all of s.
Gains(s, u, kind, p) ==
  /\ p \in Nat \ {0} /\ Where(s, kind) \subseteq 1..(p - 1)
  /\ Where(u, kind) = Where(s, kind) \cup {p}
  /\ \A i \in Where(s, kind) : u[i] = s[i]

LEMMA WhereIs == ASSUME NEW kind PROVE Told(kind) = Where(printed, kind)
  BY DEF Told, Where

LEMMA WhereConcat ==
  ASSUME NEW s, NEW t, IsSeq(s), IsSeq(t), NEW kind
  PROVE  /\ Where(s, kind) \subseteq 1..Len(s)
         /\ Where(s \o t, kind) = Where(s, kind) \cup {Len(s) + j : j \in Where(t, kind)}
         /\ \A i \in Where(s, kind) : (s \o t)[i] = s[i]
<1> DEFINE u == s \o t
<1>1. /\ Len(s) \in Nat /\ Len(t) \in Nat
      /\ DOMAIN s = 1..Len(s) /\ DOMAIN t = 1..Len(t)
      /\ DOMAIN u = 1..(Len(s) + Len(t))
      /\ \A k \in 1..Len(s) : u[k] = s[k]
      /\ \A k \in 1..Len(t) : u[Len(s) + k] = t[k]
  BY ConcatFacts
<1> HIDE DEF u
<1>2. \A k \in 1..Len(s) : k \in DOMAIN u
  BY <1>1
<1>3. \A k \in 1..Len(t) : Len(s) + k \in DOMAIN u
  BY <1>1
<1>4. \A i \in DOMAIN u : i \in 1..Len(s) \/ \E j \in 1..Len(t) : i = Len(s) + j
  <2> SUFFICES ASSUME NEW i \in DOMAIN u, i \notin 1..Len(s) PROVE \E j \in 1..Len(t) : i = Len(s) + j
    OBVIOUS
  <2>1. i - Len(s) \in 1..Len(t) /\ i = Len(s) + (i - Len(s))
    BY <1>1
  <2> QED
    BY <2>1
<1>5. \A i : i \in Where(u, kind) => i \in Where(s, kind) \/ \E j \in Where(t, kind) : i = Len(s) + j
  BY <1>1, <1>4 DEF Where
<1>6. \A i \in Where(s, kind) : i \in Where(u, kind) /\ u[i] = s[i]
  BY <1>1, <1>2 DEF Where
<1>7. \A j \in Where(t, kind) : Len(s) + j \in Where(u, kind)
  BY <1>1, <1>3 DEF Where
<1>8. Where(s, kind) \subseteq 1..Len(s)
  BY <1>1 DEF Where
<1> QED
  BY <1>5, <1>6, <1>7, <1>8 DEF u

LEMMA AsideStays ==
  ASSUME NEW s, NEW t, IsSeq(s), Aside(t), NEW kind \in Telling
  PROVE  Stays(s, s \o t, kind)
<1>1. Where(t, kind) = {} /\ IsSeq(t)
  BY DEF Aside, Where
<1>2. {Len(s) + j : j \in Where(t, kind)} = {}
  BY <1>1
<1>3. /\ Where(s \o t, kind) = Where(s, kind) \cup {Len(s) + j : j \in Where(t, kind)}
      /\ \A i \in Where(s, kind) : (s \o t)[i] = s[i]
  BY <1>1, WhereConcat
<1> QED
  BY <1>2, <1>3 DEF Stays

LEMMA OneMore ==
  ASSUME NEW s, IsSeq(s), NEW x
  PROVE  /\ IsSeq(s \o <<x>>) /\ Len(s) \in Nat /\ Len(s \o <<x>>) = Len(s) + 1
         /\ (s \o <<x>>)[Len(s) + 1] = x
         /\ Gains(s, s \o <<x>>, x.kind, Len(s) + 1)
         /\ \A kind : kind # x.kind => Stays(s, s \o <<x>>, kind)
<1> DEFINE t == <<x>>
           u == s \o t
<1>1. IsSeq(t) /\ Len(t) = 1 /\ DOMAIN t = {1} /\ t[1] = x
  BY OneItem
<1> HIDE DEF t
<1>2. /\ IsSeq(u) /\ Len(s) \in Nat /\ Len(u) = Len(s) + 1 /\ u[Len(s) + 1] = x
  <2>1. 1 \in 1..Len(t) /\ IsSeq(t)
    BY <1>1
  <2>2. /\ IsSeq(s \o t) /\ Len(s) \in Nat /\ Len(s \o t) = Len(s) + Len(t)
        /\ \A k \in 1..Len(t) : (s \o t)[Len(s) + k] = t[k]
    BY <2>1, ConcatFacts
  <2>3. (s \o t)[Len(s) + 1] = t[1]
    BY <2>1, <2>2
  <2> QED
    BY <1>1, <2>2, <2>3
<1>3. \A kind : /\ Where(s, kind) \subseteq 1..Len(s)
                /\ Where(u, kind) = Where(s, kind) \cup {Len(s) + j : j \in Where(t, kind)}
                /\ \A i \in Where(s, kind) : u[i] = s[i]
  BY <1>1, WhereConcat
<1>4. \A kind : kind # x.kind => Where(t, kind) = {}
  BY <1>1 DEF Where
<1>5. Where(t, x.kind) = {1}
  BY <1>1 DEF Where
<1> HIDE DEF u
<1>6. Gains(s, u, x.kind, Len(s) + 1)
  <2>1. Where(u, x.kind) = Where(s, x.kind) \cup {Len(s) + 1}
    BY <1>3, <1>5
  <2>2. Where(s, x.kind) \subseteq 1..((Len(s) + 1) - 1) /\ Len(s) + 1 \in Nat \ {0}
    <3>1. (Len(s) + 1) - 1 = Len(s)
      BY <1>2
    <3> QED
      BY <1>2, <1>3, <3>1
  <2> QED
    BY <1>3, <2>1, <2>2 DEF Gains
<1>7. ASSUME NEW kind, kind # x.kind PROVE Stays(s, u, kind)
  <2>1. {Len(s) + j : j \in Where(t, kind)} = {}
    BY <1>4, <1>7
  <2> QED
    BY <1>3, <2>1 DEF Stays
<1> QED
  BY <1>2, <1>6, <1>7 DEF u, t

LEMMA EmptyIsAside == Aside(<<>>)
<1>1. IsSeq(<<>>) /\ DOMAIN <<>> = {}
  BY EmptyIsQuiet DEF Quiet
<1> QED
  BY <1>1 DEF Aside

LEMMA OneIsAside == ASSUME NEW x, x.kind \notin Telling PROVE Aside(<<x>>)
  BY OneItem DEF Aside

LEMMA IfIsAside ==
  ASSUME NEW x, x.kind \notin Telling, NEW condition PROVE Aside(If(condition, x))
<1>1. CASE condition
  BY <1>1, OneIsAside DEF If
<1>2. CASE ~condition
  BY <1>2, EmptyIsAside DEF If
<1> QED
  BY <1>1, <1>2

LEMMA AsideConcat == ASSUME NEW s, NEW t, Aside(s), Aside(t) PROVE Aside(s \o t)
<1>1. /\ IsSeq(s \o t) /\ Len(s) \in Nat /\ Len(t) \in Nat
      /\ DOMAIN s = 1..Len(s) /\ DOMAIN t = 1..Len(t)
      /\ DOMAIN (s \o t) = 1..(Len(s) + Len(t))
      /\ \A k \in 1..Len(s) : (s \o t)[k] = s[k]
      /\ \A k \in 1..Len(t) : (s \o t)[Len(s) + k] = t[k]
  BY ConcatFacts DEF Aside
<1>2. ASSUME NEW k \in DOMAIN (s \o t) PROVE (s \o t)[k].kind \notin Telling
  <2>1. CASE k \in 1..Len(s)
    BY <1>1, <2>1 DEF Aside
  <2>2. CASE k \notin 1..Len(s)
    <3>1. k - Len(s) \in 1..Len(t) /\ k = Len(s) + (k - Len(s))
      BY <1>1, <2>2
    <3>2. PICK l \in 1..Len(t) : k = Len(s) + l
      BY <3>1
    <3> QED
      BY <1>1, <3>2 DEF Aside
  <2> QED
    BY <2>1, <2>2
<1> QED
  BY <1>1, <1>2 DEF Aside

LEMMA PartsAreAside ==
  ASSUME NEW r
  PROVE  Aside(Error(r)) /\ Aside(Stderr(r)) /\ Aside(Failure(r))
<1>1. \A text, n :
        /\ Item("error", text, n).kind \notin Telling /\ Item("stderr", text, n).kind \notin Telling
        /\ Item("label", text, n).kind \notin Telling /\ Item("diff", text, n).kind \notin Telling
        /\ Item("exit code", text, n).kind \notin Telling
  BY DEF Item, Telling
<1>2. Aside(Error(r)) /\ Aside(Stderr(r))
  BY <1>1, IfIsAside DEF Error, Stderr
<1>3. ASSUME NEW s PROVE Aside(DiffOf(r, s))
  <2>1. /\ Aside(If(Cardinality(r.diffs) = 2, Item("label", s, 0)))
        /\ Aside(<<Item("diff", s, 0)>>)
    BY <1>1, IfIsAside, OneIsAside
  <2>2. Aside(If(Cardinality(r.diffs) = 2, Item("label", s, 0)) \o <<Item("diff", s, 0)>>)
    BY <2>1, AsideConcat
  <2> QED
    BY <2>2, EmptyIsAside DEF DiffOf
<1>4. Aside(If(r.exit # 0, Item("exit code", "", r.exit)))
  BY <1>1, IfIsAside
<1>5. Failure(r) = ((DiffOf(r, "out") \o DiffOf(r, "err"))
                      \o If(r.exit # 0, Item("exit code", "", r.exit))) \o Stderr(r)
  BY DEF Failure
<1>6. Aside((DiffOf(r, "out") \o DiffOf(r, "err")) \o If(r.exit # 0, Item("exit code", "", r.exit)))
  BY <1>3, <1>4, AsideConcat
<1>7. Aside(Failure(r))
  BY <1>2, <1>5, <1>6, AsideConcat
<1> QED
  BY <1>2, <1>7
-----------------------------------------------------------------------------
(* The tests, told in their order.                                         *)

\* The results are told in the items of the kind, in their order.
InOrder(s, kind, R) ==
  /\ \A k \in 1..Len(R) : \E i \in Where(s, kind) : s[i].n = k
  /\ \A i \in Where(s, kind) : s[i].n \in 1..Len(R) /\ s[i].text = R[s[i].n].status
  /\ \A i, j \in Where(s, kind) : i < j => s[i].n < s[j].n

LEMMA OrderStays ==
  ASSUME NEW s, NEW u, NEW kind, NEW R, InOrder(s, kind, R), Stays(s, u, kind)
  PROVE  InOrder(u, kind, R)
BY DEF InOrder, Stays

LEMMA OrderGrows ==
  ASSUME NEW s, NEW u, NEW kind, NEW R, IsSeq(R), NEW r, NEW p, InOrder(s, kind, R),
         Gains(s, u, kind, p), u[p].n = Len(R) + 1, u[p].text = r.status
  PROVE  InOrder(u, kind, Append(R, r))
<1> DEFINE Q == Append(R, r)
<1>1. /\ Len(R) \in Nat /\ Len(Q) = Len(R) + 1
      /\ \A k \in 1..Len(R) : Q[k] = R[k]
      /\ Q[Len(R) + 1] = r
  <2> DEFINE A == {R[k] : k \in DOMAIN R}
  <2>1. R \in Seq(A \cup {r}) /\ r \in A \cup {r}
    <3>1. R \in Seq(A) /\ A \subseteq A \cup {r}
      BY DEF IsSeq
    <3> HIDE DEF A
    <3> QED
      BY <3>1, SeqMonotonic
  <2> HIDE DEF A
  <2> QED
    BY <2>1, AppendProperties, LenProperties
<1> HIDE DEF Q
<1>2. /\ Where(u, kind) = Where(s, kind) \cup {p} /\ p \in Nat \ {0}
      /\ \A i \in Where(s, kind) : i \in 1..(p - 1) /\ i < p /\ u[i] = s[i]
  BY DEF Gains
<1>3. ASSUME NEW k \in 1..Len(Q) PROVE \E i \in Where(u, kind) : u[i].n = k
  <2>1. CASE k \in 1..Len(R)
    <3>1. PICK i \in Where(s, kind) : s[i].n = k
      BY <2>1 DEF InOrder
    <3> QED
      BY <1>2, <3>1
  <2>2. CASE k \notin 1..Len(R)
    <3>1. k = Len(R) + 1
      BY <1>1, <2>2
    <3> QED
      BY <1>2, <3>1
  <2> QED
    BY <2>1, <2>2
<1>4. ASSUME NEW i \in Where(u, kind) PROVE u[i].n \in 1..Len(Q) /\ u[i].text = Q[u[i].n].status
  <2>1. CASE i = p
    <3>1. Len(R) + 1 \in 1..Len(Q)
      BY <1>1
    <3> QED
      BY <1>1, <2>1, <3>1
  <2>2. CASE i \in Where(s, kind)
    <3>1. u[i] = s[i] /\ s[i].n \in 1..Len(R) /\ s[i].text = R[s[i].n].status
      BY <1>2, <2>2 DEF InOrder
    <3>2. s[i].n \in 1..Len(Q)
      BY <1>1, <3>1
    <3> QED
      BY <1>1, <3>1, <3>2
  <2> QED
    BY <1>2, <2>1, <2>2
<1>5. ASSUME NEW i \in Where(u, kind), NEW j \in Where(u, kind), i < j PROVE u[i].n < u[j].n
  <2>1. i # p
    <3> SUFFICES ASSUME i = p PROVE FALSE
      OBVIOUS
    <3>1. CASE j = p
      BY <1>2, <1>5, <3>1
    <3>2. CASE j \in Where(s, kind)
      <4>1. j \in 1..(p - 1) /\ p < j
        BY <1>2, <1>5, <3>2
      <4> QED
        BY <1>2, <4>1
    <3> QED
      BY <1>2, <3>1, <3>2
  <2>2. i \in Where(s, kind) /\ u[i] = s[i] /\ s[i].n \in 1..Len(R)
    BY <1>2, <2>1 DEF InOrder
  <2>3. CASE j = p
    BY <1>1, <2>2, <2>3
  <2>4. CASE j \in Where(s, kind)
    BY <1>2, <1>5, <2>2, <2>4 DEF InOrder
  <2> QED
    BY <1>2, <2>3, <2>4
<1> QED
  BY <1>3, <1>4, <1>5 DEF InOrder, Q
-----------------------------------------------------------------------------
(* Detail mode: the headers.                                               *)

\* Each of the suites of the first m tests has a header, that of the m-th the last.
Headers(s, T, m) ==
  /\ \A i, j \in Where(s, "suite") : s[i].n = s[j].n => i = j
  /\ \A i \in Where(s, "suite") : \E t \in 1..m : s[i].n = T[t].suite
  /\ m # 0 => \E i \in Where(s, "suite") :
                s[i].n = T[m].suite /\ \A l \in Where(s, "suite") : l <= i

\* The tests stand under the header of their suite.
UnderHeaders(s, T) ==
  \A k \in Where(s, "test") :
    \E i \in Where(s, "suite") :
      /\ i < k /\ s[i].n = T[s[k].n].suite
      /\ \A l \in Where(s, "suite") : l <= i \/ k < l

LEMMA HeadersStay ==
  ASSUME NEW s, NEW u, NEW T, NEW m, Stays(s, u, "suite")
  PROVE  /\ Headers(s, T, m) => Headers(u, T, m)
         /\ Stays(s, u, "test") /\ UnderHeaders(s, T) => UnderHeaders(u, T)
<1>1. Headers(s, T, m) => Headers(u, T, m)
  BY DEF Headers, Stays
<1>2. Stays(s, u, "test") /\ UnderHeaders(s, T) => UnderHeaders(u, T)
  BY DEF UnderHeaders, Stays
<1> QED
  BY <1>1, <1>2

\* A suite that goes on needs no header.
LEMMA HeadersGoOn ==
  ASSUME NEW s, NEW T, NEW m \in Nat \ {0}, Headers(s, T, m), T[m + 1].suite = T[m].suite
  PROVE  Headers(s, T, m + 1)
<1>1. \A t \in 1..m : t \in 1..(m + 1)
  OBVIOUS
<1>2. m + 1 # 0
  OBVIOUS
<1> QED
  BY <1>1, <1>2 DEF Headers

\* A new one has its first.
LEMMA HeadersGrow ==
  ASSUME NEW s, NEW u, NEW T, NEW m \in Nat, NEW p, IsSeq(s), Headers(s, T, m),
         Gains(s, u, "suite", p), Where(s, "test") \subseteq 1..(p - 1), Stays(s, u, "test"),
         u[p].n = T[m + 1].suite, \A t \in 1..m : T[t].suite # T[m + 1].suite, UnderHeaders(s, T)
  PROVE  Headers(u, T, m + 1) /\ UnderHeaders(u, T)
<1>1. /\ Where(u, "suite") = Where(s, "suite") \cup {p} /\ p \in Nat \ {0}
      /\ \A i \in Where(s, "suite") : i \in 1..(p - 1) /\ u[i] = s[i]
  BY DEF Gains
<1>3. ASSUME NEW i \in Where(s, "suite") PROVE s[i].n # T[m + 1].suite
  BY DEF Headers
<1>4. \A i, j \in Where(u, "suite") : u[i].n = u[j].n => i = j
  BY <1>1, <1>3 DEF Headers
<1>5. \A i \in Where(u, "suite") : \E t \in 1..(m + 1) : u[i].n = T[t].suite
  <2>1. m + 1 \in 1..(m + 1) /\ \A t \in 1..m : t \in 1..(m + 1)
    OBVIOUS
  <2> QED
    BY <1>1, <2>1 DEF Headers
<1>6. p \in Where(u, "suite") /\ \A l \in Where(u, "suite") : l <= p
  BY <1>1
<1>7. UnderHeaders(u, T)
  <2> SUFFICES ASSUME NEW k \in Where(u, "test")
               PROVE  \E i \in Where(u, "suite") :
                        /\ i < k /\ u[i].n = T[u[k].n].suite
                        /\ \A l \in Where(u, "suite") : l <= i \/ k < l
    BY DEF UnderHeaders
  <2>1. k \in Where(s, "test") /\ u[k] = s[k] /\ k < p
    BY <1>1 DEF Stays
  <2>2. PICK i \in Where(s, "suite") :
          /\ i < k /\ s[i].n = T[s[k].n].suite
          /\ \A l \in Where(s, "suite") : l <= i \/ k < l
    BY <2>1 DEF UnderHeaders
  <2>3. i \in Where(u, "suite") /\ u[i] = s[i]
    BY <1>1
  <2>4. \A l \in Where(u, "suite") : l <= i \/ k < l
    BY <1>1, <2>1, <2>2
  <2> QED
    BY <2>1, <2>2, <2>3, <2>4
<1> QED
  BY <1>4, <1>5, <1>6, <1>7 DEF Headers

\* A test joins those under the last header.
LEMMA TestJoins ==
  ASSUME NEW s, NEW u, NEW T, NEW m \in Nat, NEW p, IsSeq(s), Headers(s, T, m + 1),
         UnderHeaders(s, T), Gains(s, u, "test", p), Stays(s, u, "suite"),
         Where(s, "suite") \subseteq 1..(p - 1), u[p].n = m + 1
  PROVE  UnderHeaders(u, T)
<1>1. /\ Where(u, "test") = Where(s, "test") \cup {p} /\ p \in Nat \ {0}
      /\ \A i \in Where(s, "test") : u[i] = s[i]
      /\ Where(u, "suite") = Where(s, "suite") /\ \A i \in Where(s, "suite") : u[i] = s[i]
  BY DEF Gains, Stays
<1>2. PICK i \in Where(s, "suite") :
        s[i].n = T[m + 1].suite /\ \A l \in Where(s, "suite") : l <= i
  <2>1. m + 1 # 0
    OBVIOUS
  <2> QED
    BY <2>1 DEF Headers
<1>3. i < p
  BY <1>1, <1>2
<1>4. \A k \in Where(s, "test") :
        \E x \in Where(u, "suite") :
          /\ x < k /\ u[x].n = T[u[k].n].suite
          /\ \A l \in Where(u, "suite") : l <= x \/ k < l
  BY <1>1 DEF UnderHeaders
<1>5. \E x \in Where(u, "suite") :
        /\ x < p /\ u[x].n = T[u[p].n].suite
        /\ \A l \in Where(u, "suite") : l <= x \/ p < l
  BY <1>1, <1>2, <1>3
<1> QED
  BY <1>1, <1>4, <1>5 DEF UnderHeaders

LEMMA StaysTwice ==
  ASSUME NEW s, NEW u, NEW v, NEW kind, Stays(s, u, kind), Stays(u, v, kind)
  PROVE  Stays(s, v, kind)
BY DEF Stays

\* A suite that begins has not been told.
LEMMA SuiteIsNew ==
  ASSUME NEW M \in Nat, NEW m \in Nat, BySuite(tests, M), m + 1 \in DOMAIN tests, NewSuite(m + 1)
  PROVE  \A t \in 1..m : tests[t].suite # tests[m + 1].suite
<1>1. CASE m = 0
  BY <1>1
<1>2. CASE m # 0
  <2>1. DOMAIN tests = 1..Len(tests) /\ Len(tests) \in Nat
    BY ConcatFacts DEF BySuite
  <2>2. m \in DOMAIN tests /\ (m + 1) - 1 = m /\ m + 1 # 1
    BY <1>2, <2>1
  <2>3. tests[m + 1].suite # tests[m].suite
    BY <2>2 DEF NewSuite, SuiteOf
  <2>4. tests[m].suite <= tests[m + 1].suite
    <3>1. m < m + 1
      OBVIOUS
    <3> QED
      BY <2>2, <3>1 DEF BySuite
  <2>5. ASSUME NEW t \in 1..m PROVE tests[t].suite <= tests[m].suite /\ tests[t].suite \in Int
    <3>1. t \in DOMAIN tests /\ (t = m \/ t < m)
      BY <2>1, <2>2
    <3>2. \A i \in DOMAIN tests : tests[i].suite \in Int
      BY DEF BySuite
    <3> QED
      BY <2>2, <3>1, <3>2 DEF BySuite
  <2>6. tests[m].suite \in Int /\ tests[m + 1].suite \in Int
    BY <2>2 DEF BySuite
  <2> QED
    BY <2>3, <2>4, <2>5, <2>6
<1> QED
  BY <1>1, <1>2

LEMMA DetailTells ==
  ASSUME NEW M \in Nat, BySuite(tests, M), IsSeq(results), IsSeq(printed), VisitInDetail,
         InOrder(printed, "test", results), Headers(printed, tests, Len(results)),
         UnderHeaders(printed, tests)
  PROVE  /\ InOrder(printed', "test", results')
         /\ Headers(printed', tests, Len(results) + 1)
         /\ UnderHeaders(printed', tests)
         /\ Stays(printed, printed', "count") /\ Stays(printed, printed', "headline")
<1> DEFINE m == Len(results)
           r == Result(tests[m + 1].case)
           H == Header(m + 1)
           x == Item("test", r.status, m + 1)
           why == CASE r.status = "ERROR" -> Error(r)
                    [] r.status = "FAILURE" -> Failure(r)
                    [] OTHER -> <<>>
           e == If(m + 1 = Len(tests) \/ SuiteOf(m + 1) # SuiteOf(m + 1 + 1), Item("empty line", "", 0))
           s1 == printed \o H
           s2 == s1 \o <<x>>
           s3 == s2 \o why
           s4 == s3 \o e
<1>1. /\ m \in Nat /\ m + 1 \in DOMAIN tests
      /\ results' = Append(results, r) /\ printed' = s4
  <2>1. m \in Nat /\ Len(tests) \in Nat /\ DOMAIN tests = 1..Len(tests)
    BY ConcatFacts DEF BySuite
  <2>2. m < Len(tests)
    BY DEF VisitInDetail, Visiting
  <2>3. results' = Append(results, r) /\ printed' = s4
    BY DEF VisitInDetail, Visit
  <2> HIDE DEF m, s4, r
  <2>4. m + 1 \in DOMAIN tests
    BY <2>1, <2>2
  <2> QED
    BY <2>1, <2>3, <2>4
<1>2. Aside(why) /\ Aside(e)
  <2>1. Aside(Error(r)) /\ Aside(Failure(r)) /\ Aside(<<>>)
    BY PartsAreAside, EmptyIsAside
  <2>2. Aside(why)
    <3>1. CASE r.status = "ERROR"
      BY <2>1, <3>1
    <3>2. CASE r.status = "FAILURE"
      BY <2>1, <3>2
    <3>3. CASE r.status # "ERROR" /\ r.status # "FAILURE"
      BY <2>1, <3>3
    <3> QED
      BY <3>1, <3>2, <3>3
  <2>3. Item("empty line", "", 0).kind \notin Telling
    BY DEF Item, Telling
  <2> QED
    BY <2>2, <2>3, IfIsAside
<1>3. x.kind = "test" /\ x.text = r.status /\ x.n = m + 1
  BY DEF Item
<1> HIDE DEF m, r, H, x, why, e, s1, s2, s3, s4
<1>4. /\ IsSeq(s1) /\ Headers(s1, tests, m + 1) /\ UnderHeaders(s1, tests)
      /\ \A kind : kind # "suite" => Stays(printed, s1, kind)
  <2>1. CASE NewSuite(m + 1)
    <3> DEFINE h == Item("suite", "", SuiteOf(m + 1))
    <3>1. s1 = printed \o <<h>>
      BY <2>1 DEF s1, H, Header, If
    <3>2. h.kind = "suite" /\ h.n = SuiteOf(m + 1)
      BY DEF Item
    <3> HIDE DEF h
    <3>3. /\ IsSeq(s1) /\ s1[Len(printed) + 1] = h
          /\ Gains(printed, s1, "suite", Len(printed) + 1)
          /\ \A kind : kind # "suite" => Stays(printed, s1, kind)
      BY <3>1, <3>2, OneMore
    <3>4. Where(printed, "test") \subseteq 1..((Len(printed) + 1) - 1)
      <4>1. Len(printed) \in Nat /\ Where(printed, "test") \subseteq 1..Len(printed)
        BY ConcatFacts DEF Where
      <4> QED
        BY <4>1
    <3>5. \A t \in 1..m : tests[t].suite # tests[m + 1].suite
      BY <1>1, <2>1, SuiteIsNew
    <3>6. s1[Len(printed) + 1].n = tests[m + 1].suite
      BY <3>2, <3>3 DEF SuiteOf
    <3>7. Stays(printed, s1, "test")
      BY <3>3
    <3>8. Headers(printed, tests, m)
      BY DEF m
    <3> QED
      BY <1>1, <3>3, <3>4, <3>5, <3>6, <3>7, <3>8, HeadersGrow
  <2>2. CASE ~NewSuite(m + 1)
    <3>1. s1 = printed
      BY <2>2, EmptyConcat DEF s1, H, Header, If
    <3>2. m # 0 /\ tests[m + 1].suite = tests[m].suite
      <4>1. m + 1 # 1 /\ tests[m + 1].suite = tests[(m + 1) - 1].suite
        BY <2>2 DEF NewSuite, SuiteOf
      <4> QED
        BY <1>1, <4>1
    <3>3. Headers(printed, tests, m + 1)
      BY <1>1, <3>2, HeadersGoOn DEF m
    <3> QED
      BY <3>1, <3>3 DEF Stays
  <2> QED
    BY <2>1, <2>2
<1>5. /\ IsSeq(s2) /\ Len(s1) \in Nat
      /\ s2[Len(s1) + 1] = x /\ Gains(s1, s2, "test", Len(s1) + 1)
      /\ \A kind : kind # "test" => Stays(s1, s2, kind)
  BY <1>3, <1>4, OneMore DEF s2
<1>6. InOrder(s2, "test", Append(results, r))
  <2>1. InOrder(s1, "test", results)
    BY <1>4, OrderStays
  <2> QED
    BY <1>3, <1>5, <2>1, OrderGrows DEF m
<1>7. UnderHeaders(s2, tests) /\ Headers(s2, tests, m + 1)
  <2>1. Stays(s1, s2, "suite")
    BY <1>5
  <2>2. Where(s1, "suite") \subseteq 1..((Len(s1) + 1) - 1)
    <3>1. Where(s1, "suite") \subseteq 1..Len(s1)
      BY <1>4, ConcatFacts DEF Where
    <3> QED
      BY <1>5, <3>1
  <2>3. s2[Len(s1) + 1].n = m + 1
    BY <1>3, <1>5
  <2>4. UnderHeaders(s2, tests)
    BY <1>1, <1>4, <1>5, <2>1, <2>2, <2>3, TestJoins
  <2> QED
    BY <1>4, <2>1, <2>4, HeadersStay
<1>8. IsSeq(s3) /\ \A kind \in Telling : Stays(s2, s4, kind)
  <2>1. IsSeq(s3)
    BY <1>2, <1>5, ConcatFacts DEF s3, Aside
  <2>2. \A kind \in Telling : Stays(s2, s3, kind) /\ Stays(s3, s4, kind)
    BY <1>2, <1>5, <2>1, AsideStays DEF s3, s4
  <2> QED
    BY <2>1, <2>2, StaysTwice
<1>9. Stays(s2, s4, "test") /\ Stays(s2, s4, "suite") /\ Stays(s2, s4, "count") /\ Stays(s2, s4, "headline")
  BY <1>8 DEF Telling
<1>10. InOrder(s4, "test", Append(results, r))
  BY <1>6, <1>9, OrderStays
<1>11. Headers(s4, tests, m + 1) /\ UnderHeaders(s4, tests)
  BY <1>7, <1>9, HeadersStay
<1>12. Stays(printed, s4, "count") /\ Stays(printed, s4, "headline")
  BY <1>4, <1>5, <1>9, StaysTwice
<1> QED
  BY <1>1, <1>10, <1>11, <1>12 DEF m
-----------------------------------------------------------------------------
(* Passthrough mode: the lists of the errors and of the failures.          *)

\* The results of the status, up to the b-th.
Bearing(R, st) == {k \in DOMAIN R : R[k].status = st}

Before(R, st, b) == {k \in Bearing(R, st) : k < b}

\* The list of st has got to the B[st]-th result.
Listing(s, R, B) ==
  /\ \A st \in Bad : \A k \in Before(R, st, B[st]) :
       \E i \in Where(s, "entry") : s[i].text = st /\ s[i].n = k
  /\ \A i \in Where(s, "entry") :
       s[i].text \in Bad /\ s[i].n \in Before(R, s[i].text, B[s[i].text])
  /\ \A i, j \in Where(s, "entry") : i < j =>
       IF s[i].text = s[j].text THEN s[i].n < s[j].n ELSE s[i].text = "ERROR"

\* Each entry has its number in the list.
Numbering(s, R) ==
  /\ Where(s, "number") = {i + 1 : i \in Where(s, "entry")}
  /\ \A i \in Where(s, "entry") :
       s[i + 1].n = Cardinality({k \in Bearing(R, s[i].text) : k <= s[i].n})

LEMMA ListStays ==
  ASSUME NEW s, NEW u, NEW R, NEW B, Stays(s, u, "entry"), Stays(s, u, "number")
  PROVE  (Listing(s, R, B) => Listing(u, R, B)) /\ (Numbering(s, R) => Numbering(u, R))
<1>1. Listing(s, R, B) => Listing(u, R, B)
  BY DEF Listing, Stays
<1>2. ASSUME Numbering(s, R) PROVE Numbering(u, R)
  <2>1. \A i \in Where(s, "entry") : i + 1 \in Where(s, "number")
    BY <1>2 DEF Numbering
  <2>2. \A i \in Where(s, "entry") : u[i] = s[i] /\ u[i + 1] = s[i + 1]
    BY <2>1 DEF Stays
  <2> QED
    BY <1>2, <2>2 DEF Numbering, Stays
<1> QED
  BY <1>1, <1>2

\* Where the list goes on over results of another status, nothing is told.
LEMMA ListPasses ==
  ASSUME NEW s, NEW R, NEW B, NEW C, Listing(s, R, B),
         \A st \in Bad : Before(R, st, C[st]) = Before(R, st, B[st])
  PROVE  Listing(s, R, C)
<1>1. \A st \in Bad : \A k \in Before(R, st, C[st]) :
        \E i \in Where(s, "entry") : s[i].text = st /\ s[i].n = k
  BY DEF Listing
<1>2. ASSUME NEW i \in Where(s, "entry")
      PROVE  s[i].text \in Bad /\ s[i].n \in Before(R, s[i].text, C[s[i].text])
  <2>1. s[i].text \in Bad /\ s[i].n \in Before(R, s[i].text, B[s[i].text])
    BY DEF Listing
  <2> QED
    BY <2>1
<1>3. \A i, j \in Where(s, "entry") : i < j =>
        IF s[i].text = s[j].text THEN s[i].n < s[j].n ELSE s[i].text = "ERROR"
  BY DEF Listing
<1> QED
  BY <1>1, <1>2, <1>3 DEF Listing

LEMMA BearingFacts ==
  ASSUME NEW R, IsSeq(R), NEW st, NEW b \in Nat, NEW S \in SUBSET Bearing(R, st)
  PROVE  /\ Bearing(R, st) \subseteq 1..Len(R) /\ Len(R) \in Nat /\ IsFiniteSet(S)
         /\ Cardinality(S) \in Nat
<1>1. Bearing(R, st) \subseteq 1..Len(R) /\ Len(R) \in Nat
  BY ConcatFacts DEF Bearing
<1>2. IsFiniteSet(1..Len(R))
  BY <1>1, FS_Interval
<1>3. IsFiniteSet(S)
  <2>1. S \subseteq 1..Len(R)
    BY <1>1
  <2> QED
    BY <1>2, <2>1, FS_Subset
<1> QED
  BY <1>1, <1>3, FS_CardinalityType

LEMMA BeforeGrows ==
  ASSUME NEW R, IsSeq(R), NEW st, NEW b \in 1..Len(R)
  PROVE  /\ R[b].status = st => Before(R, st, b + 1) = Before(R, st, b) \cup {b}
         /\ R[b].status # st => Before(R, st, b + 1) = Before(R, st, b)
         /\ \A k : k \in Before(R, st, b + 1) <=> k \in Bearing(R, st) /\ k <= b
<1>1. Bearing(R, st) \subseteq 1..Len(R) /\ Len(R) \in Nat /\ DOMAIN R = 1..Len(R)
  BY ConcatFacts DEF Bearing
<1>2. \A k \in 1..Len(R) : (k < b + 1 <=> k <= b) /\ (k <= b <=> k < b \/ k = b)
  BY <1>1
<1>3. \A k : k \in Before(R, st, b + 1) <=> k \in Bearing(R, st) /\ k <= b
  BY <1>1, <1>2 DEF Before
<1>4. b \in Bearing(R, st) <=> R[b].status = st
  BY <1>1 DEF Bearing
<1>5. \A k : k \in Before(R, st, b + 1) <=> k \in Before(R, st, b) \/ (k = b /\ R[b].status = st)
  BY <1>1, <1>2, <1>4 DEF Before
<1> QED
  BY <1>3, <1>5

LEMMA BeforeCounts ==
  ASSUME NEW R, IsSeq(R), NEW st, NEW b \in 1..Len(R), R[b].status = st
  PROVE  Cardinality(Before(R, st, b + 1)) = Cardinality(Before(R, st, b)) + 1
<1>1. IsFiniteSet(Before(R, st, b)) /\ b \notin Before(R, st, b)
  <2>1. Before(R, st, b) \in SUBSET Bearing(R, st)
    BY DEF Before
  <2>2. ~(b < b)
    OBVIOUS
  <2> QED
    BY <2>1, <2>2, BearingFacts DEF Before
<1>2. Before(R, st, b + 1) = Before(R, st, b) \cup {b}
  BY BeforeGrows
<1> QED
  BY <1>1, <1>2, FS_AddElement

\* From s over u to v, the b-th result is told in the list of st, with its number n.
Enters(s, u, v, st, b, n, p) ==
  /\ p \in Nat /\ Gains(s, u, "entry", p) /\ u[p].text = st /\ u[p].n = b
  /\ Stays(s, u, "number") /\ Gains(u, v, "number", p + 1) /\ v[p + 1].n = n
  /\ Stays(u, v, "entry")

\* The list of st moves on from the b-th result; that of the errors is the first.
Moves(B, C, st, b) ==
  /\ B \in [Bad -> Nat] /\ B[st] = b /\ C = [B EXCEPT ![st] = b + 1]
  /\ st = "ERROR" => B["FAILURE"] <= 1

\* The next result of the status is told.
LEMMA ListGrows ==
  ASSUME NEW s, NEW u, NEW v, NEW R, NEW st, NEW b, NEW n, NEW p, Enters(s, u, v, st, b, n, p),
         NEW B, NEW C, Moves(B, C, st, b), Listing(s, R, B), Numbering(s, R),
         IsSeq(R), st \in Bad, b \in 1..Len(R), R[b].status = st,
         n = Cardinality(Before(R, st, b)) + 1
  PROVE  Listing(v, R, C) /\ Numbering(v, R)
<1> USE DEF Moves
<1>0. /\ p \in Nat /\ Gains(s, u, "entry", p) /\ u[p].text = st /\ u[p].n = b
      /\ Stays(s, u, "number") /\ Gains(u, v, "number", p + 1)
      /\ v[p + 1].n = Cardinality(Before(R, st, b)) + 1 /\ Stays(u, v, "entry")
  BY DEF Enters
<1>1. /\ p \in Nat \ {0} /\ Where(s, "entry") \subseteq 1..(p - 1)
      /\ Where(v, "entry") = Where(s, "entry") \cup {p}
      /\ v[p] = u[p] /\ \A i \in Where(s, "entry") : v[i] = s[i]
  <2>1. /\ p \in Nat \ {0} /\ Where(s, "entry") \subseteq 1..(p - 1)
        /\ Where(u, "entry") = Where(s, "entry") \cup {p}
        /\ \A i \in Where(s, "entry") : u[i] = s[i]
    BY <1>0 DEF Gains
  <2>2. Where(v, "entry") = Where(u, "entry") /\ \A i \in Where(u, "entry") : v[i] = u[i]
    BY <1>0 DEF Stays
  <2> QED
    BY <2>1, <2>2
<1>2. /\ Where(v, "number") = Where(s, "number") \cup {p + 1}
      /\ \A i \in Where(s, "number") : v[i] = s[i]
  BY <1>0 DEF Gains, Stays
<1>3. v[p].text = st /\ v[p].n = b
  BY <1>0, <1>1
<1>4. /\ C[st] = b + 1 /\ \A x \in Bad : x # st => C[x] = B[x]
      /\ Before(R, st, C[st]) = Before(R, st, B[st]) \cup {b}
  <2>1. C[st] = b + 1 /\ \A x \in Bad : x # st => C[x] = B[x]
    OBVIOUS
  <2>2. Before(R, st, b + 1) = Before(R, st, b) \cup {b}
    BY BeforeGrows
  <2> QED
    BY <2>1, <2>2
<1>5. \A x \in Bad : \A k \in Before(R, x, C[x]) :
        \E i \in Where(v, "entry") : v[i].text = x /\ v[i].n = k
  <2> SUFFICES ASSUME NEW x \in Bad, NEW k \in Before(R, x, C[x])
               PROVE  \E i \in Where(v, "entry") : v[i].text = x /\ v[i].n = k
    OBVIOUS
  <2>1. CASE k \in Before(R, x, B[x])
    <3>1. PICK i \in Where(s, "entry") : s[i].text = x /\ s[i].n = k
      BY <2>1 DEF Listing
    <3> QED
      BY <1>1, <3>1
  <2>2. CASE k \notin Before(R, x, B[x])
    <3>1. x = st /\ k = b
      BY <1>4, <2>2
    <3> QED
      BY <1>1, <1>3, <3>1
  <2> QED
    BY <2>1, <2>2
<1>6. ASSUME NEW i \in Where(v, "entry")
      PROVE  v[i].text \in Bad /\ v[i].n \in Before(R, v[i].text, C[v[i].text])
  <2>1. CASE i = p
    BY <1>3, <1>4, <2>1
  <2>2. CASE i \in Where(s, "entry")
    <3>1. v[i] = s[i] /\ s[i].text \in Bad /\ s[i].n \in Before(R, s[i].text, B[s[i].text])
      BY <1>1, <2>2 DEF Listing
    <3>2. Before(R, s[i].text, B[s[i].text]) \subseteq Before(R, s[i].text, C[s[i].text])
      <4>1. CASE s[i].text = st
        BY <1>4, <4>1
      <4>2. CASE s[i].text # st
        BY <1>4, <3>1, <4>2
      <4> QED
        BY <4>1, <4>2
    <3> QED
      BY <3>1, <3>2
  <2> QED
    BY <1>1, <2>1, <2>2
<1>7. ASSUME NEW i \in Where(v, "entry"), NEW j \in Where(v, "entry"), i < j
      PROVE  IF v[i].text = v[j].text THEN v[i].n < v[j].n ELSE v[i].text = "ERROR"
  <2>1. i # p
    BY <1>1, <1>7
  <2>2. i \in Where(s, "entry") /\ v[i] = s[i]
    BY <1>1, <2>1
  <2>3. CASE j \in Where(s, "entry")
    BY <1>1, <1>7, <2>2, <2>3 DEF Listing
  <2>4. CASE j = p
    <3>1. s[i].text \in Bad /\ s[i].n \in Before(R, s[i].text, B[s[i].text])
      BY <2>2 DEF Listing
    <3>2. CASE s[i].text = st
      <4>1. s[i].n < b
        BY <3>1, <3>2 DEF Before
      <4> QED
        BY <1>3, <2>2, <2>4, <3>2, <4>1
    <3>3. CASE s[i].text # st
      <4>1. st # "ERROR"
        <5> SUFFICES ASSUME st = "ERROR" PROVE FALSE
          OBVIOUS
        <5>1. s[i].text = "FAILURE" /\ B["FAILURE"] <= 1 /\ B["FAILURE"] \in Nat
          BY <3>1, <3>3 DEF Bad
        <5>2. s[i].n < B["FAILURE"] /\ s[i].n \in 1..Len(R)
          <6>1. Bearing(R, "FAILURE") \subseteq 1..Len(R)
            BY ConcatFacts DEF Bearing
          <6> QED
            BY <3>1, <5>1, <6>1 DEF Before
        <5> QED
          BY <5>1, <5>2
      <4>2. s[i].text = "ERROR"
        BY <3>1, <3>3, <4>1 DEF Bad
      <4> QED
        BY <1>3, <2>2, <2>4, <3>3, <4>2
    <3> QED
      BY <3>2, <3>3
  <2> QED
    BY <1>1, <2>3, <2>4
<1>8. Where(v, "number") = {i + 1 : i \in Where(v, "entry")}
  BY <1>1, <1>2 DEF Numbering
<1>9. ASSUME NEW i \in Where(v, "entry")
      PROVE  v[i + 1].n = Cardinality({k \in Bearing(R, v[i].text) : k <= v[i].n})
  <2>1. CASE i = p
    <3>1. Cardinality(Before(R, st, b + 1)) = Cardinality(Before(R, st, b)) + 1
      BY BeforeCounts
    <3>2. {k \in Bearing(R, v[p].text) : k <= v[p].n} = Before(R, st, b + 1)
      <4>1. \A k : k \in Before(R, st, b + 1) <=> k \in Bearing(R, st) /\ k <= b
        BY BeforeGrows
      <4> QED
        BY <1>3, <4>1
    <3> QED
      BY <1>0, <2>1, <3>1, <3>2
  <2>2. CASE i \in Where(s, "entry")
    <3>1. i + 1 \in Where(s, "number") /\ v[i] = s[i]
      BY <1>1, <2>2 DEF Numbering
    <3>2. s[i + 1].n = Cardinality({k \in Bearing(R, s[i].text) : k <= s[i].n})
      BY <2>2 DEF Numbering
    <3> QED
      BY <1>2, <3>1, <3>2
  <2> QED
    BY <1>1, <2>1, <2>2
<1>10. Listing(v, R, C)
  BY <1>5, <1>6, <1>7 DEF Listing
<1>11. Numbering(v, R)
  BY <1>8, <1>9 DEF Numbering
<1> QED
  BY <1>10, <1>11
-----------------------------------------------------------------------------
(* Passthrough mode: the tests to a line.                                  *)

LEMMA RestIs ==
  ASSUME NEW P \in Nat \ {0}, NEW q \in Nat, NEW t \in 0..(P - 1) PROVE (P * q + t) % P = t
  OBVIOUS

LEMMA RestOf ==
  ASSUME NEW P \in Nat \ {0}, NEW n \in Nat
  PROVE  \E q \in Nat : n = P * q + (n % P) /\ n % P \in 0..(P - 1)
<1>1. n \div P \in Nat /\ n = P * (n \div P) + (n % P) /\ n % P \in 0..(P - 1)
  OBVIOUS
<1> QED
  BY <1>1

LEMMA NextRest ==
  ASSUME NEW P \in Nat \ {0}, NEW n \in Nat
  PROVE  (n + 1) % P = IF (n % P) + 1 = P THEN 0 ELSE (n % P) + 1
<1>1. PICK q \in Nat : n = P * q + (n % P) /\ n % P \in 0..(P - 1)
  BY RestOf
<1> DEFINE r == n % P
<1> HIDE DEF r
<1>2. r \in 0..(P - 1) /\ n = P * q + r /\ P * q \in Nat
  BY <1>1 DEF r
<1>3. CASE r + 1 = P
  <2>1. n + 1 = P * (q + 1) + 0 /\ q + 1 \in Nat /\ 0 \in 0..(P - 1)
    <3>1. P * (q + 1) = P * q + P
      OBVIOUS
    <3> QED
      BY <1>2, <1>3, <3>1
  <2>2. (P * (q + 1) + 0) % P = 0
    BY <2>1, RestIs
  <2> QED
    BY <1>3, <2>1, <2>2 DEF r
<1>4. CASE r + 1 # P
  <2>1. n + 1 = P * q + (r + 1) /\ r + 1 \in 0..(P - 1)
    BY <1>2, <1>4
  <2>2. (P * q + (r + 1)) % P = r + 1
    BY <2>1, RestIs
  <2> QED
    BY <1>4, <2>1, <2>2 DEF r
<1> QED
  BY <1>3, <1>4

LEMMA AllAreDone ==
  ASSUME NEW T \in Nat \ {0}
  PROVE  (T * 100) \div T = 100 /\ \A m \in 0..(T - 1) : (m * 100) \div T < 100
<1>1. (T * 100) \div T = 100
  OBVIOUS
<1>2. ASSUME NEW m \in 0..(T - 1) PROVE (m * 100) \div T < 100
  OBVIOUS
<1> QED
  BY <1>1, <1>2
-----------------------------------------------------------------------------
(* Passthrough mode: the marks, and the shares at the ends of their lines. *)

\* The marks before the i-th item.
Marks(s, i) == {j \in Where(s, "mark") : j < i}

MarksTold(s, n) ==
  /\ IsSeq(s) /\ n \in Nat
  /\ IsFiniteSet(Where(s, "mark")) /\ Cardinality(Where(s, "mark")) = n

\* There is a share of T where the number of marks is in E, and nowhere else.
SharesAt(s, E, T) ==
  /\ \A i \in Where(s, "percent") :
       /\ Cardinality(Marks(s, i)) \in E
       /\ s[i].n = (Cardinality(Marks(s, i)) * 100) \div T
  /\ \A m \in E : \E i \in Where(s, "percent") : Cardinality(Marks(s, i)) = m
  /\ \A i, j \in Where(s, "percent") :
       Cardinality(Marks(s, i)) = Cardinality(Marks(s, j)) => i = j

\* The ends of the lines that are full.
Full(n) == {m \in 1..n : m % PerLine = 0}

LEMMA SharesStay ==
  ASSUME NEW s, NEW u, NEW n, NEW E, NEW T, IsSeq(u), MarksTold(s, n), SharesAt(s, E, T),
         Stays(s, u, "mark"), Stays(s, u, "percent")
  PROVE  MarksTold(u, n) /\ SharesAt(u, E, T)
<1>1. \A i : Marks(u, i) = Marks(s, i)
  BY DEF Marks, Stays
<1>2. MarksTold(u, n)
  BY DEF MarksTold, Stays
<1>3. SharesAt(u, E, T)
  BY <1>1 DEF SharesAt, Stays
<1> QED
  BY <1>2, <1>3

LEMMA MarkJoins ==
  ASSUME NEW s, NEW u, NEW n, NEW E, NEW T, NEW p, IsSeq(u), MarksTold(s, n), SharesAt(s, E, T),
         Gains(s, u, "mark", p), Where(s, "percent") \subseteq 1..(p - 1), Stays(s, u, "percent")
  PROVE  MarksTold(u, n + 1) /\ SharesAt(u, E, T)
<1>1. /\ Where(u, "mark") = Where(s, "mark") \cup {p} /\ p \in Nat \ {0}
      /\ Where(s, "mark") \subseteq 1..(p - 1)
  BY DEF Gains
<1>2. p \notin Where(s, "mark")
  BY <1>1
<1>3. /\ IsFiniteSet(Where(s, "mark") \cup {p})
      /\ Cardinality(Where(s, "mark") \cup {p}) = Cardinality(Where(s, "mark")) + 1
  BY <1>2, FS_AddElement DEF MarksTold
<1>4. MarksTold(u, n + 1)
  BY <1>1, <1>3 DEF MarksTold
<1>5. \A i \in Where(s, "percent") : Marks(u, i) = Marks(s, i)
  <2> SUFFICES ASSUME NEW i \in Where(s, "percent") PROVE Marks(u, i) = Marks(s, i)
    OBVIOUS
  <2>1. ~(p < i)
    BY <1>1
  <2> QED
    BY <1>1, <2>1 DEF Marks
<1>6. Where(u, "percent") = Where(s, "percent") /\ \A i \in Where(s, "percent") : u[i] = s[i]
  BY DEF Stays
<1>7. SharesAt(u, E, T)
  BY <1>5, <1>6 DEF SharesAt
<1> QED
  BY <1>4, <1>7

\* A line ends with the share of the tests that are done.
LEMMA ShareJoins ==
  ASSUME NEW s, NEW u, NEW n, NEW E, NEW T, NEW p, IsSeq(u), MarksTold(s, n), SharesAt(s, E, T),
         Gains(s, u, "percent", p), Where(s, "mark") \subseteq 1..(p - 1), Stays(s, u, "mark"),
         n \notin E, u[p].n = (n * 100) \div T
  PROVE  MarksTold(u, n) /\ SharesAt(u, E \cup {n}, T)
<1>1. /\ Where(u, "percent") = Where(s, "percent") \cup {p} /\ p \in Nat \ {0}
      /\ \A i \in Where(s, "percent") : u[i] = s[i]
  BY DEF Gains
<1>2. MarksTold(u, n)
  BY DEF MarksTold, Stays
<1>3. \A i : Marks(u, i) = Marks(s, i)
  BY DEF Marks, Stays
<1>4. Cardinality(Marks(s, p)) = n
  <2>1. Marks(s, p) = Where(s, "mark")
    BY <1>1 DEF Marks
  <2> QED
    BY <2>1 DEF MarksTold
<1>5. \A i \in Where(s, "percent") : Cardinality(Marks(s, i)) \in E /\ Cardinality(Marks(s, i)) # n
  BY DEF SharesAt
<1>6. \A i \in Where(u, "percent") :
        /\ Cardinality(Marks(u, i)) \in E \cup {n}
        /\ u[i].n = (Cardinality(Marks(u, i)) * 100) \div T
  <2> SUFFICES ASSUME NEW i \in Where(u, "percent")
               PROVE  /\ Cardinality(Marks(s, i)) \in E \cup {n}
                      /\ u[i].n = (Cardinality(Marks(s, i)) * 100) \div T
    BY <1>3
  <2>1. CASE i = p
    BY <1>4, <2>1
  <2>2. CASE i \in Where(s, "percent")
    BY <1>1, <2>2 DEF SharesAt
  <2> QED
    BY <1>1, <2>1, <2>2
<1>7. \A m \in E \cup {n} : \E i \in Where(u, "percent") : Cardinality(Marks(u, i)) = m
  <2>1. \A m \in E : \E i \in Where(u, "percent") : Cardinality(Marks(u, i)) = m
    BY <1>1, <1>3 DEF SharesAt
  <2>2. p \in Where(u, "percent") /\ Cardinality(Marks(u, p)) = n
    BY <1>1, <1>3, <1>4
  <2> QED
    BY <2>1, <2>2
<1>8. \A i, j \in Where(u, "percent") :
        Cardinality(Marks(u, i)) = Cardinality(Marks(u, j)) => i = j
  <2> SUFFICES ASSUME NEW i \in Where(u, "percent"), NEW j \in Where(u, "percent"),
                      Cardinality(Marks(s, i)) = Cardinality(Marks(s, j))
               PROVE  i = j
    BY <1>3
  <2>1. CASE i = p \/ j = p
    BY <1>1, <1>4, <1>5, <2>1
  <2>2. CASE i \in Where(s, "percent") /\ j \in Where(s, "percent")
    BY <2>2 DEF SharesAt
  <2> QED
    BY <1>1, <2>1, <2>2
<1> QED
  BY <1>2, <1>6, <1>7, <1>8 DEF SharesAt
-----------------------------------------------------------------------------
(* How far the report is, and detail mode.                                 *)

\* The tests are run, and the runner has not failed.
Live == at = "tests" /\ exitCode # "1"

\* How far the report is.
DoneInv ==
  /\ at # "tests" => inLine = 0 /\ (exitCode = "running" => printed = <<>>)
  /\ at = "tests" =>
       /\ tests # <<>> /\ exitCode # "signal"
       /\ exitCode = "1" => stage = "tests" /\ Len(results) < Len(tests)
       /\ stage # "tests" => Len(results) = Len(tests)
       /\ exitCode \in {"0", "2"} => stage = "over" /\ (exitCode = "2" <=> AnyFailed)

LEMMA InitDone == Init => DoneInv
  BY DEF Init, ReportInit, DoneInv

LEMMA DoneStays ==
  ASSUME DoneInv, UNCHANGED <<at, exitCode, reportVars>> PROVE DoneInv'
  BY DEF DoneInv, reportVars, AnyFailed

LEMMA NextDone == MainInv /\ ResultsInv /\ CountsInv /\ DoneInv /\ [Next]_vars => DoneInv'
<1> SUFFICES ASSUME MainInv, ResultsInv, CountsInv, DoneInv, [Next]_vars PROVE DoneInv'
  OBVIOUS
<1>1. CASE UNCHANGED vars
  BY <1>1, DoneStays DEF vars, mainVars
<1>2. CASE Next /\ exitCode = "running"
  <2> USE DEF Running, Goto, Exit
  <2>1. CASE ParseOption \/ PassPath \/ OptionsParsed \/ Start
    <3>1. UNCHANGED reportVars /\ at # "tests" /\ at' # "tests"
      BY <2>1 DEF ParseOption, PassPath, OptionsParsed, Start
    <3> QED
      BY <1>2, <3>1 DEF DoneInv, reportVars
  <2>2. CASE UnknownOption \/ ShowText \/ NoTests
    <3>1. inLine' = inLine /\ at # "tests" /\ at' # "tests" /\ exitCode' # "running"
      BY <2>2 DEF UnknownOption, ShowText, NoTests, SuitesRead, reportVars, unprinted
    <3> QED
      BY <3>1 DEF DoneInv
  <2>3. CASE FetchEnds
    <3>1. /\ inLine' = inLine /\ at # "tests" /\ at' # "tests"
          /\ exitCode' = "running" => printed' = printed
      BY <1>2, <2>3 DEF FetchEnds, unprinted
    <3> QED
      BY <1>2, <3>1 DEF DoneInv
  <2>4. CASE Fetching \/ ReadSuite \/ FileVanishes
    <3>1. UNCHANGED reportVars /\ at # "tests" /\ at' # "tests"
      BY <2>4 DEF Fetching, ReadSuite, FileVanishes, mainVars
    <3> QED
      BY <1>2, <3>1 DEF DoneInv, reportVars
  <2>5. CASE BeginTests
    <3>1. at = "suites" /\ at' = "tests" /\ exitCode' = "running" /\ AllTests # <<>> /\ tests' = AllTests
          /\ stage' = stage
      BY <1>2, <2>5 DEF BeginTests, SuitesRead
    <3>2. stage = "tests"
      BY <3>1 DEF CountsInv
    <3> QED
      BY <3>1, <3>2 DEF DoneInv
  <2>6. CASE RunTests
    <3>1. at = "tests" /\ UNCHANGED <<at, exitCode, tests>>
      BY <2>6 DEF RunTests, mainVars, RunSuites, VisitInDetail, EndDetail, VisitInPassthrough,
         EndPassthrough, BeginList, ListNext, EndList, Summary
    <3>2. RunSuites(mode = "detail", "--no-summary" \in flags)
      BY <2>6 DEF RunTests
    <3>3. stage' # "tests" => Len(results') = Len(tests)
      <4>1. CASE VisitInDetail \/ VisitInPassthrough
        BY <4>1 DEF VisitInDetail, VisitInPassthrough, Visiting
      <4>2. CASE EndDetail \/ EndPassthrough
        BY <4>2 DEF EndDetail, EndPassthrough, AllVisited
      <4>3. CASE BeginList \/ ListNext \/ EndList
        BY <3>1, <4>3 DEF BeginList, ListNext, EndList, Bad, DoneInv
      <4>4. CASE Summary(mode = "detail", "--no-summary" \in flags)
        BY <3>1, <4>4 DEF Summary, DoneInv
      <4> QED
        BY <3>2, <4>1, <4>2, <4>3, <4>4 DEF RunSuites
    <3> QED
      BY <1>2, <3>1, <3>3 DEF DoneInv
  <2>7. CASE RunnerDies
    <3>1. at = "tests" /\ at' = at /\ exitCode' = "1" /\ Visiting /\ UNCHANGED unprinted
      BY <2>7 DEF RunnerDies
    <3> QED
      BY <3>1 DEF DoneInv, Visiting, unprinted
  <2>8. CASE Finish
    <3>1. /\ at = "tests" /\ at' = at /\ exitCode' = (IF AnyFailed THEN "2" ELSE "0")
          /\ stage = "over" /\ UNCHANGED reportVars
      BY <2>8 DEF Finish
    <3>2. AnyFailed' = AnyFailed
      BY <3>1 DEF AnyFailed, reportVars
    <3>3. tests' # <<>> /\ (stage' # "tests" => Len(results') = Len(tests')) /\ stage' = "over"
      BY <3>1 DEF DoneInv, reportVars
    <3> QED
      BY <3>1, <3>2, <3>3 DEF DoneInv
  <2> QED
    BY <1>2, <2>1, <2>2, <2>3, <2>4, <2>5, <2>6, <2>7, <2>8 DEF Next, Step
<1> QED
  BY <1>1, <1>2, OnlyRunning

\* The steps that lead to a report: its beginning, and its own.
LEMMA LiveSteps ==
  ASSUME CountsInv, DoneInv, [Next]_vars, Live'
  PROVE  \/ /\ Live /\ RunSuites(mode = "detail", "--no-summary" \in flags)
            /\ UNCHANGED <<at, exitCode, mode>>
         \/ Live /\ UNCHANGED <<reportVars, mode>>
         \/ /\ tests' = AllTests /\ results' = <<>> /\ stage' = "tests" /\ inLine' = 0
            /\ printed' = <<>> /\ UNCHANGED <<suites, sources>>
<1>1. CASE UNCHANGED vars
  BY <1>1 DEF vars, mainVars, Live
<1>2. CASE Next /\ exitCode = "running"
  <2> USE DEF Running, Goto, Exit
  <2>1. ~(ParseOption \/ UnknownOption \/ PassPath \/ OptionsParsed \/ ShowText \/ Start)
    BY DEF ParseOption, UnknownOption, PassPath, OptionsParsed, ShowText, Start, Live
  <2>2. ~(Fetching \/ FetchEnds \/ ReadSuite \/ NoTests \/ FileVanishes)
    BY DEF Fetching, FetchEnds, ReadSuite, NoTests, FileVanishes, SuitesRead, mainVars, Live
  <2>3. CASE BeginTests
    <3>1. /\ at = "suites" /\ tests' = AllTests
          /\ UNCHANGED <<results, stage, inLine, printed, suites, sources>>
      BY <2>3 DEF BeginTests, SuitesRead, searchVars
    <3> QED
      BY <1>2, <3>1 DEF CountsInv, DoneInv
  <2>4. CASE RunTests
    BY <1>2, <2>4 DEF RunTests, mainVars, Live
  <2>5. CASE RunnerDies
    BY <2>5 DEF RunnerDies, Live
  <2>6. CASE Finish
    BY <1>2, <2>6 DEF Finish, Live
  <2> QED
    BY <1>2, <2>1, <2>2, <2>3, <2>4, <2>5, <2>6 DEF Next, Step
<1> QED
  BY <1>1, <1>2, OnlyRunning
-----------------------------------------------------------------------------
\* In detail mode the tests so far are told, each under the header of its suite.
DetailInv ==
  Live /\ mode = "detail" =>
    /\ InOrder(printed, "test", results)
    /\ Headers(printed, tests, Len(results)) /\ UnderHeaders(printed, tests)

LEMMA InitDetail == Init => DetailInv
  BY DEF Init, DetailInv, Live

LEMMA NothingTold ==
  ASSUME NEW kind, NEW T
  PROVE  /\ Where(<<>>, kind) = {} /\ InOrder(<<>>, kind, <<>>)
         /\ Headers(<<>>, T, 0) /\ UnderHeaders(<<>>, T)
<1>1. Where(<<>>, kind) = {} /\ Where(<<>>, "suite") = {} /\ Where(<<>>, "test") = {}
  BY DEF Where
<1>2. Len(<<>>) = 0 /\ 1..0 = {}
  OBVIOUS
<1> QED
  BY <1>1, <1>2 DEF InOrder, Headers, UnderHeaders

LEMMA SummaryTellsNone ==
  ASSUME NEW kind, kind \notin {"count", "headline", "time"}
  PROVE  /\ Where(SummaryLine, kind) = {} /\ Where(FinalSummary, kind) = {}
         /\ IsSeq(SummaryLine) /\ IsSeq(FinalSummary)
<1>1. IsSeq(SummaryLine) /\ IsSeq(FinalSummary)
  BY SummaryIsQuiet DEF Quiet
<1>2. Where(SummaryLine, kind) = {}
  BY DEF Where, SummaryLine, Item
<1> DEFINE a == Item("time", "", 0)
           b == Item("headline", Headline, 0)
<1>3. a.kind = "time" /\ b.kind = "headline"
  BY DEF Item
<1> HIDE DEF a, b
<1>4. IsSeq(<<a, b>>) /\ Where(<<a, b>>, kind) = {}
  BY <1>3, TwoItems DEF Where
<1> DEFINE h == <<a, b>>
<1>5. IsSeq(h) /\ Where(h, kind) = {} /\ FinalSummary = h \o SummaryLine
  BY <1>4 DEF FinalSummary, a, b
<1> HIDE DEF h
<1>6. Where(h \o SummaryLine, kind)
        = Where(h, kind) \cup {Len(h) + j : j \in Where(SummaryLine, kind)}
  BY <1>1, <1>5, WhereConcat
<1>7. Where(FinalSummary, kind) = {}
  <2>1. {Len(h) + j : j \in Where(SummaryLine, kind)} = {}
    BY <1>2
  <2> QED
    BY <1>5, <1>6, <2>1
<1> QED
  BY <1>1, <1>2, <1>7

LEMMA NoneStays ==
  ASSUME NEW s, NEW t, IsSeq(s), IsSeq(t), NEW kind, Where(t, kind) = {}
  PROVE  Stays(s, s \o t, kind)
<1>1. {Len(s) + j : j \in Where(t, kind)} = {}
  OBVIOUS
<1>2. /\ Where(s \o t, kind) = Where(s, kind) \cup {Len(s) + j : j \in Where(t, kind)}
      /\ \A i \in Where(s, kind) : (s \o t)[i] = s[i]
  BY WhereConcat
<1> QED
  BY <1>1, <1>2 DEF Stays

LEMMA SummaryStays ==
  ASSUME IsSeq(printed), NEW inDetail, NEW noSummary, Summary(inDetail, noSummary),
         NEW kind, kind \notin {"count", "headline", "time"}
  PROVE  Stays(printed, printed', kind)
<1> DEFINE lines == IF ~noSummary THEN FinalSummary ELSE IF inDetail THEN <<>> ELSE SummaryLine
<1>1. printed' = printed \o lines
  BY DEF Summary
<1>2. IsSeq(lines) /\ Where(lines, kind) = {}
  BY SummaryTellsNone, NothingTold, EmptyIsQuiet DEF Quiet
<1> HIDE DEF lines
<1> QED
  BY <1>1, <1>2, NoneStays

LEMMA NextDetail ==
  ReadInv /\ ToldInv /\ CountsInv /\ SuitesInv /\ DoneInv /\ DetailInv /\ [Next]_vars => DetailInv'
<1> SUFFICES ASSUME ReadInv, ToldInv, CountsInv, SuitesInv, DoneInv, DetailInv, [Next]_vars,
                    Live', mode' = "detail"
             PROVE  /\ InOrder(printed', "test", results')
                    /\ Headers(printed', tests', Len(results')) /\ UnderHeaders(printed', tests')
  BY DEF DetailInv
<1>1. IsSeq(printed) /\ IsSeq(results)
  BY DEF ToldInv, ResultsInv, Explained
<1>2. CASE Live /\ RunSuites(mode = "detail", "--no-summary" \in flags) /\ UNCHANGED <<at, exitCode, mode>>
  <2>1. /\ InOrder(printed, "test", results) /\ Headers(printed, tests, Len(results))
        /\ UnderHeaders(printed, tests) /\ mode = "detail"
    BY <1>2 DEF DetailInv
  <2>2. CASE VisitInDetail
    <3>1. BySuite(tests, Len(suites)) /\ Len(suites) \in Nat
      BY <1>2, AllTestsBySuite, LenProperties DEF SuitesInv, Live, ReadInv
    <3>2. /\ InOrder(printed', "test", results') /\ Headers(printed', tests, Len(results) + 1)
          /\ UnderHeaders(printed', tests)
      BY <1>1, <2>1, <2>2, <3>1, DetailTells
    <3>3. tests' = tests /\ Len(results') = Len(results) + 1
      <4>1. tests' = tests /\ results' = Append(results, Result(tests[Len(results) + 1].case))
        BY <2>2 DEF VisitInDetail, Visit
      <4> DEFINE r == Result(tests[Len(results) + 1].case)
      <4> HIDE DEF r
      <4>2. Len(results \o <<r>>) = Len(results) + 1
        BY <1>1, OneMore
      <4>3. Append(results, r) = results \o <<r>>
        BY <1>1, AppendIsTelling
      <4> QED
        BY <4>1, <4>2, <4>3 DEF r
    <3> QED
      BY <3>2, <3>3
  <2>3. CASE EndDetail
    BY <2>1, <2>3 DEF EndDetail
  <2>4. CASE Summary(mode = "detail", "--no-summary" \in flags)
    <3>1. Stays(printed, printed', "test") /\ Stays(printed, printed', "suite")
      BY <1>1, <2>4, SummaryStays
    <3>2. UNCHANGED <<tests, results>>
      BY <2>4 DEF Summary
    <3> QED
      BY <2>1, <3>1, <3>2, OrderStays, HeadersStay
  <2> QED
    BY <1>2, <2>1, <2>2, <2>3, <2>4 DEF RunSuites
<1>3. CASE Live /\ UNCHANGED <<reportVars, mode>>
  BY <1>3 DEF DetailInv, reportVars
<1>4. CASE results' = <<>> /\ printed' = <<>>
  <2>1. Len(results') = 0
    BY <1>4
  <2> QED
    BY <1>4, <2>1, NothingTold
<1> QED
  BY <1>2, <1>3, <1>4, LiveSteps
-----------------------------------------------------------------------------
(* Passthrough mode, step by step.                                         *)

LEMMA FullGrows ==
  ASSUME NEW n \in Nat
  PROVE  /\ n + 1 \notin Full(n)
         /\ (n + 1) % PerLine = 0 => Full(n + 1) = Full(n) \cup {n + 1}
         /\ (n + 1) % PerLine # 0 => Full(n + 1) = Full(n)
         /\ n \in Full(n) <=> n # 0 /\ n % PerLine = 0
<1>1. \A m : m \in 1..(n + 1) <=> m \in 1..n \/ m = n + 1
  OBVIOUS
<1>2. n + 1 \notin 1..n /\ (n \in 1..n <=> n # 0)
  OBVIOUS
<1> DEFINE rest(m) == m % PerLine
<1> HIDE DEF rest
<1>3. \A m, l : m \in Full(l) <=> m \in 1..l /\ rest(m) = 0
  BY DEF Full, rest
<1>4. rest(n + 1) = 0 => Full(n + 1) = Full(n) \cup {n + 1}
  BY <1>1, <1>3
<1>5. rest(n + 1) # 0 => Full(n + 1) = Full(n)
  BY <1>1, <1>3
<1>6. n + 1 \notin Full(n) /\ (n \in Full(n) <=> n # 0 /\ rest(n) = 0)
  BY <1>2, <1>3
<1> QED
  BY <1>4, <1>5, <1>6 DEF rest

LEMMA LineGoesOn ==
  ASSUME NEW n \in Nat, NEW l, l = n % PerLine
  PROVE  /\ (l + 1) % PerLine = (n + 1) % PerLine
         /\ (n + 1) % PerLine = 0 <=> l + 1 = PerLine
<1>1. PerLine \in Nat \ {0}
  BY ReportAssumption
<1>2. l \in 0..(PerLine - 1)
  BY <1>1, RestOf
<1>3. (n + 1) % PerLine = IF l + 1 = PerLine THEN 0 ELSE l + 1
  BY <1>1, NextRest
<1>4. (l + 1) % PerLine = IF l + 1 = PerLine THEN 0 ELSE l + 1
  <2>1. CASE l + 1 = PerLine
    <3>1. (PerLine * 1 + 0) % PerLine = 0
      BY <1>1, RestIs
    <3>2. PerLine * 1 + 0 = l + 1
      BY <1>1, <2>1
    <3> QED
      BY <2>1, <3>1, <3>2
  <2>2. CASE l + 1 # PerLine
    <3>1. l + 1 \in 0..(PerLine - 1)
      BY <1>1, <1>2, <2>2
    <3>2. (PerLine * 0 + (l + 1)) % PerLine = l + 1
      BY <1>1, <3>1, RestIs
    <3>3. PerLine * 0 + (l + 1) = l + 1
      BY <1>1, <1>2
    <3> QED
      BY <2>2, <3>2, <3>3
  <2> QED
    BY <2>1, <2>2
<1>5. l + 1 # 0
  BY <1>1, <1>2
<1> QED
  BY <1>3, <1>4, <1>5

LEMMA PairIsConcat ==
  ASSUME NEW x, NEW y PROVE <<x, y>> = <<x>> \o <<y>>
<1>1. <<x, y>> = Append(<<x>>, y)
  OBVIOUS
<1> QED
  BY <1>1, AppendIsTelling, OneItem

LEMMA AppendLength ==
  ASSUME NEW s, IsSeq(s), NEW x PROVE Len(Append(s, x)) = Len(s) + 1 /\ Len(s) \in Nat
BY OneMore, AppendIsTelling

\* A test has its mark, and the last of a line the share of those that are done.
LEMMA PassthroughTells ==
  ASSUME IsSeq(results), IsSeq(printed), VisitInPassthrough, inLine = Len(results) % PerLine,
         InOrder(printed, "mark", results), MarksTold(printed, Len(results)),
         SharesAt(printed, Full(Len(results)), Len(tests))
  PROVE  /\ inLine' = Len(results') % PerLine
         /\ InOrder(printed', "mark", results')
         /\ MarksTold(printed', Len(results'))
         /\ SharesAt(printed', Full(Len(results')), Len(tests))
<1> DEFINE m == Len(results)
           r == Result(tests[m + 1].case)
           x == Item("mark", r.status, m + 1)
           y == Item("percent", "", Percent(m + 1))
           s1 == printed \o <<x>>
           s2 == s1 \o If(inLine + 1 = PerLine, y)
<1>1. results' = Append(results, r) /\ printed' = s2 /\ inLine' = (inLine + 1) % PerLine
  BY DEF VisitInPassthrough, Visit
<1>2. x.kind = "mark" /\ x.text = r.status /\ x.n = m + 1 /\ y.kind = "percent"
      /\ y.n = ((m + 1) * 100) \div Len(tests)
  BY DEF Item, Percent
<1> HIDE DEF m, r, x, y, s1, s2
<1>3. m \in Nat /\ Len(results') = m + 1
  BY <1>1, AppendLength DEF m
<1>4. inLine' = (m + 1) % PerLine /\ ((m + 1) % PerLine = 0 <=> inLine + 1 = PerLine)
  BY <1>1, <1>3, LineGoesOn DEF m
<1>5. /\ IsSeq(s1) /\ Len(printed) \in Nat /\ Len(s1) = Len(printed) + 1
      /\ s1[Len(printed) + 1] = x /\ Gains(printed, s1, "mark", Len(printed) + 1)
      /\ Stays(printed, s1, "percent")
  <2>1. /\ IsSeq(s1) /\ Len(printed) \in Nat /\ Len(s1) = Len(printed) + 1
        /\ s1[Len(printed) + 1] = x /\ Gains(printed, s1, x.kind, Len(printed) + 1)
        /\ \A kind : kind # x.kind => Stays(printed, s1, kind)
    BY OneMore DEF s1
  <2> QED
    BY <1>2, <2>1
<1>6. InOrder(s1, "mark", Append(results, r))
  BY <1>2, <1>5, OrderGrows DEF m
<1>7. MarksTold(s1, m + 1) /\ SharesAt(s1, Full(m), Len(tests))
  <2>1. Where(printed, "percent") \subseteq 1..((Len(printed) + 1) - 1)
    <3>1. Where(printed, "percent") \subseteq 1..Len(printed)
      BY ConcatFacts DEF Where
    <3> QED
      BY <1>5, <3>1
  <2>2. MarksTold(printed, m) /\ SharesAt(printed, Full(m), Len(tests))
    BY DEF m
  <2> QED
    BY <1>5, <2>1, <2>2, MarkJoins
<1>8. CASE inLine + 1 # PerLine
  <2>1. s2 = s1
    BY <1>5, <1>8, EmptyConcat DEF s2, If
  <2>2. Full(m + 1) = Full(m)
    BY <1>3, <1>4, <1>8, FullGrows
  <2> QED
    BY <1>1, <1>3, <1>4, <1>6, <1>7, <2>1, <2>2
<1>9. CASE inLine + 1 = PerLine
  <2>1. s2 = s1 \o <<y>>
    BY <1>9 DEF s2, If
  <2>2. /\ IsSeq(s2) /\ Len(s1) \in Nat /\ s2[Len(s1) + 1] = y
        /\ Gains(s1, s2, "percent", Len(s1) + 1) /\ Stays(s1, s2, "mark")
    <3>1. /\ IsSeq(s2) /\ Len(s1) \in Nat /\ s2[Len(s1) + 1] = y
          /\ Gains(s1, s2, y.kind, Len(s1) + 1) /\ \A kind : kind # y.kind => Stays(s1, s2, kind)
      BY <1>5, <2>1, OneMore
    <3> QED
      BY <1>2, <3>1
  <2>3. Full(m + 1) = Full(m) \cup {m + 1} /\ m + 1 \notin Full(m)
    BY <1>3, <1>4, <1>9, FullGrows
  <2>4. Where(s1, "mark") \subseteq 1..((Len(s1) + 1) - 1)
    <3>1. Where(s1, "mark") \subseteq 1..Len(s1)
      BY <1>5, ConcatFacts DEF Where
    <3> QED
      BY <2>2, <3>1
  <2>5. s2[Len(s1) + 1].n = ((m + 1) * 100) \div Len(tests)
    BY <1>2, <2>2
  <2>6. MarksTold(s2, m + 1) /\ SharesAt(s2, Full(m) \cup {m + 1}, Len(tests))
    BY <1>7, <2>2, <2>3, <2>4, <2>5, ShareJoins
  <2>7. InOrder(s2, "mark", Append(results, r))
    BY <1>6, <2>2, OrderStays
  <2> QED
    BY <1>1, <1>3, <1>4, <2>3, <2>6, <2>7
<1> QED
  BY <1>8, <1>9

\* The last line is filled up, with the share of all tests.
LEMMA LastLineTells ==
  ASSUME IsSeq(results), IsSeq(printed), EndPassthrough, inLine = Len(results) % PerLine,
         Len(results) # 0, MarksTold(printed, Len(results)),
         SharesAt(printed, Full(Len(results)), Len(tests))
  PROVE  /\ MarksTold(printed', Len(results))
         /\ SharesAt(printed', Full(Len(results)) \cup {Len(tests)}, Len(tests))
         /\ \A kind \in Telling : kind # "percent" => Stays(printed, printed', kind)
<1> DEFINE x == Item("spaces", "", PerLine - inLine)
           y == Item("percent", "", 100)
           z == Item("empty line", "", 0)
           n == Len(results)
<1>1. Len(tests) = n
  BY DEF EndPassthrough, AllVisited
<1>2. printed' = (printed \o IF inLine = 0 THEN <<>> ELSE <<x, y>>) \o <<z>>
  BY DEF EndPassthrough
<1>3. x.kind \notin Telling /\ z.kind \notin Telling /\ y.kind = "percent" /\ y.n = 100
  BY DEF Item, Telling
<1>4. inLine = n % PerLine /\ n # 0
  OBVIOUS
<1> HIDE DEF x, y, z, n
<1>5. Aside(<<z>>) /\ IsSeq(<<z>>)
  BY <1>3, OneIsAside DEF Aside
<1>6. n \in Nat
  BY AppendLength DEF n
<1>7. MarksTold(printed, n) /\ SharesAt(printed, Full(n), n)
  BY <1>1 DEF n
<1>8. CASE inLine = 0
  <2>1. printed' = printed \o <<z>>
    BY <1>2, <1>8, EmptyConcat
  <2>2. IsSeq(printed') /\ \A kind \in Telling : Stays(printed, printed', kind)
    BY <1>5, <2>1, AsideStays, ConcatFacts
  <2>3. Stays(printed, printed', "mark") /\ Stays(printed, printed', "percent")
    BY <2>2 DEF Telling
  <2>4. Full(n) \cup {n} = Full(n)
    <3>1. n \in Full(n)
      BY <1>4, <1>6, <1>8, FullGrows
    <3> QED
      BY <3>1
  <2>5. MarksTold(printed', n) /\ SharesAt(printed', Full(n), n)
    BY <1>7, <2>2, <2>3, SharesStay
  <2> QED
    BY <1>1, <2>2, <2>4, <2>5 DEF n
<1>9. CASE inLine # 0
  <2> DEFINE s1 == printed \o <<x>>
             s2 == s1 \o <<y>>
             s3 == s2 \o <<z>>
  <2>1. printed' = s3
    <3>1. <<x, y>> = <<x>> \o <<y>>
      BY PairIsConcat
    <3>2. IsSeq(<<x>>) /\ IsSeq(<<y>>)
      BY OneItem
    <3>3. printed \o (<<x>> \o <<y>>) = s2
      BY <3>2, ConcatThree
    <3> QED
      BY <1>2, <1>9, <3>1, <3>3
  <2> HIDE DEF s1, s2, s3
  <2>2. IsSeq(s1) /\ \A kind \in Telling : Stays(printed, s1, kind)
    <3>1. Aside(<<x>>) /\ IsSeq(<<x>>)
      BY <1>3, OneIsAside DEF Aside
    <3> QED
      BY <3>1, AsideStays, ConcatFacts DEF s1
  <2>3. /\ IsSeq(s2) /\ Len(s1) \in Nat /\ s2[Len(s1) + 1] = y
        /\ Gains(s1, s2, "percent", Len(s1) + 1)
        /\ \A kind : kind # "percent" => Stays(s1, s2, kind)
    <3>1. /\ IsSeq(s2) /\ Len(s1) \in Nat /\ s2[Len(s1) + 1] = y
          /\ Gains(s1, s2, y.kind, Len(s1) + 1)
          /\ \A kind : kind # y.kind => Stays(s1, s2, kind)
      BY <2>2, OneMore DEF s2
    <3> QED
      BY <1>3, <3>1
  <2>4. IsSeq(s3) /\ \A kind \in Telling : Stays(s2, s3, kind)
    BY <1>5, <2>3, AsideStays, ConcatFacts DEF s3
  <2>5. "mark" \in Telling /\ "percent" \in Telling /\ "mark" # "percent"
    BY DEF Telling
  <2>6. MarksTold(s1, n) /\ SharesAt(s1, Full(n), n)
    BY <1>7, <2>2, <2>5, SharesStay
  <2>7. Where(s1, "mark") \subseteq 1..((Len(s1) + 1) - 1)
    <3>1. Where(s1, "mark") \subseteq 1..Len(s1)
      BY <2>2, ConcatFacts DEF Where
    <3> QED
      BY <2>3, <3>1
  <2>8. n \notin Full(n)
    BY <1>4, <1>6, <1>9, FullGrows
  <2>9. s2[Len(s1) + 1].n = (n * 100) \div n
    BY <1>3, <1>4, <1>6, <2>3, AllAreDone
  <2>10. Stays(s1, s2, "mark")
    BY <2>3, <2>5
  <2>11. MarksTold(s2, n) /\ SharesAt(s2, Full(n) \cup {n}, n)
    BY <2>3, <2>6, <2>7, <2>8, <2>9, <2>10, ShareJoins
  <2>12. MarksTold(s3, n) /\ SharesAt(s3, Full(n) \cup {n}, n)
    BY <2>4, <2>5, <2>11, SharesStay
  <2>13. \A kind \in Telling : kind # "percent" => Stays(printed, s3, kind)
    BY <2>2, <2>3, <2>4, StaysTwice
  <2> QED
    BY <1>1, <2>1, <2>12, <2>13 DEF n
<1> QED
  BY <1>8, <1>9

LEMMA GainsStays ==
  ASSUME NEW s, NEW u, NEW v, NEW kind, NEW p, Gains(s, u, kind, p), Stays(u, v, kind)
  PROVE  Gains(s, v, kind, p) /\ v[p] = u[p]
BY DEF Gains, Stays

LEMMA SameStays == ASSUME NEW s, NEW kind PROVE Stays(s, s, kind)
BY DEF Stays

\* The line over a list says how many are in it.
LEMMA BeginTells ==
  ASSUME IsSeq(printed), BeginList
  PROVE  /\ \A kind \in Telling : kind # "there are" => Stays(printed, printed', kind)
         /\ \A i \in Where(printed, "there are") :
              i \in Where(printed', "there are") /\ printed'[i] = printed[i]
         /\ counts[stage] # 0 =>
              \E i \in Where(printed', "there are") :
                printed'[i] = Item("there are", stage, counts[stage])
<1> DEFINE both == stage = "FAILURE" /\ counts["ERROR"] > 0
           l == Item("---", "", 0)
           x == Item("there are", stage, counts[stage])
           s1 == printed \o If(both, l)
           s2 == s1 \o <<x>>
<1>1. CASE counts[stage] = 0
  <2>1. printed' = printed
    BY <1>1 DEF BeginList
  <2> QED
    BY <1>1, <2>1, SameStays
<1>2. CASE counts[stage] # 0
  <2>1. printed' = s2
    BY <1>2 DEF BeginList
  <2>2. l.kind \notin Telling /\ x.kind = "there are" /\ "there are" \in Telling
    BY DEF Item, Telling
  <2>3. x = Item("there are", stage, counts[stage])
    OBVIOUS
  <2> HIDE DEF both, l, x, s1, s2
  <2>4. Aside(If(both, l)) /\ IsSeq(If(both, l))
    BY <2>2, IfIsAside DEF Aside
  <2>5. IsSeq(s1) /\ \A kind \in Telling : Stays(printed, s1, kind)
    BY <2>4, AsideStays, ConcatFacts DEF s1
  <2>6. /\ IsSeq(s2) /\ Len(s1) \in Nat /\ s2[Len(s1) + 1] = x
        /\ Gains(s1, s2, x.kind, Len(s1) + 1)
        /\ \A kind : kind # x.kind => Stays(s1, s2, kind)
    BY <2>5, OneMore DEF s2
  <2>7. \A kind \in Telling : kind # "there are" => Stays(printed, s2, kind)
    BY <2>2, <2>5, <2>6, StaysTwice
  <2>8. Stays(printed, s1, "there are")
    BY <2>2, <2>5
  <2>9. \A i \in Where(printed, "there are") : i \in Where(s2, "there are") /\ s2[i] = printed[i]
    BY <2>2, <2>6, <2>8 DEF Stays, Gains
  <2>10. Len(s1) + 1 \in Where(s2, "there are")
    BY <2>2, <2>6 DEF Gains
  <2> QED
    BY <2>1, <2>3, <2>6, <2>7, <2>9, <2>10
<1> QED
  BY <1>1, <1>2

\* An entry is told with its number and its explanation.
LEMMA EntryTells ==
  ASSUME IsSeq(printed), ListNext, IsListed(results[next])
  PROVE  /\ \E u, p :
              /\ p \in Nat /\ Gains(printed, u, "entry", p) /\ u[p].text = Listed /\ u[p].n = next
              /\ Stays(printed, u, "number") /\ Gains(u, printed', "number", p + 1)
              /\ printed'[p + 1].n = number + 1 /\ Stays(u, printed', "entry")
         /\ \A kind \in Telling : kind # "entry" /\ kind # "number" => Stays(printed, printed', kind)
         /\ number' = number + 1
<1> DEFINE r == results[next]
           x == Item("entry", Listed, next)
           y == Item("number", "", number + 1)
           why == IF Listed = "ERROR" THEN Error(r) \o Stderr(r) ELSE Failure(r)
           u == printed \o <<x>>
           v == u \o <<y>>
           w == v \o why
<1>1. printed' = (printed \o <<x, y>>) \o why /\ number' = number + 1
  BY DEF ListNext
<1>2. /\ x.kind = "entry" /\ x.text = Listed /\ x.n = next
      /\ y.kind = "number" /\ y.n = number + 1
      /\ "entry" \in Telling /\ "number" \in Telling
  BY DEF Item, Telling
<1>3. Aside(why) /\ IsSeq(why)
  <2>1. Aside(Error(r) \o Stderr(r)) /\ Aside(Failure(r))
    BY PartsAreAside, AsideConcat
  <2>2. Aside(why)
    BY <2>1
  <2> QED
    BY <2>2 DEF Aside
<1> HIDE DEF r, x, y, why, u, v, w
<1>4. printed' = w
  <2>1. IsSeq(<<x>>) /\ IsSeq(<<y>>) /\ <<x, y>> = <<x>> \o <<y>>
    BY OneItem, PairIsConcat
  <2>2. printed \o (<<x>> \o <<y>>) = v
    BY <2>1, ConcatThree DEF u, v
  <2> QED
    BY <1>1, <2>1, <2>2 DEF w
<1>5. /\ IsSeq(u) /\ Len(printed) \in Nat /\ Len(u) = Len(printed) + 1 /\ u[Len(printed) + 1] = x
      /\ Gains(printed, u, x.kind, Len(printed) + 1)
      /\ \A kind : kind # x.kind => Stays(printed, u, kind)
  BY OneMore DEF u
<1>6. /\ IsSeq(v) /\ Len(u) \in Nat /\ v[Len(u) + 1] = y
      /\ Gains(u, v, y.kind, Len(u) + 1)
      /\ \A kind : kind # y.kind => Stays(u, v, kind)
  BY <1>5, OneMore DEF v
<1>7. \A kind \in Telling : Stays(v, w, kind)
  BY <1>3, <1>6, AsideStays DEF w
<1>8. Gains(u, w, "number", Len(u) + 1) /\ w[Len(u) + 1] = y
  <2>1. Gains(u, v, "number", Len(u) + 1) /\ Stays(v, w, "number")
    BY <1>2, <1>6, <1>7
  <2> DEFINE p == Len(u) + 1
  <2>2. Gains(u, v, "number", p) /\ v[p] = y
    BY <1>6, <2>1
  <2> HIDE DEF p
  <2>3. Gains(u, w, "number", p) /\ w[p] = v[p]
    BY <2>1, <2>2, GainsStays
  <2> QED
    BY <2>2, <2>3 DEF p
<1>9. Stays(u, w, "entry")
  BY <1>2, <1>6, <1>7, StaysTwice
<1>10. \A kind \in Telling : kind # "entry" /\ kind # "number" => Stays(printed, w, kind)
  <2>1. ASSUME NEW kind \in Telling, kind # "entry", kind # "number" PROVE Stays(printed, w, kind)
    <3>1. Stays(printed, u, kind) /\ Stays(u, v, kind) /\ Stays(v, w, kind)
      BY <1>2, <1>5, <1>6, <1>7, <2>1
    <3> QED
      BY <3>1, StaysTwice
  <2> QED
    BY <2>1
<1>11. Gains(printed, u, "entry", Len(printed) + 1) /\ Stays(printed, u, "number")
  BY <1>2, <1>5
<1> DEFINE p == Len(printed) + 1
<1>12. /\ p \in Nat /\ p = Len(u) /\ u[p] = x /\ Gains(printed, u, "entry", p)
  BY <1>5, <1>11
<1> HIDE DEF p
<1>13. /\ p \in Nat /\ Gains(printed, u, "entry", p) /\ u[p].text = Listed /\ u[p].n = next
       /\ Stays(printed, u, "number") /\ Gains(u, printed', "number", p + 1)
       /\ printed'[p + 1].n = number + 1 /\ Stays(u, printed', "entry")
  BY <1>2, <1>4, <1>8, <1>9, <1>11, <1>12
<1> QED
  BY <1>1, <1>4, <1>10, <1>13

LEMMA OthersTellNone ==
  ASSUME IsSeq(printed), (ListNext /\ ~IsListed(results[next])) \/ EndList, NEW kind \in Telling
  PROVE  Stays(printed, printed', kind)
<1>1. CASE ListNext /\ ~IsListed(results[next])
  BY <1>1, SameStays DEF ListNext
<1>2. CASE EndList
  <2> DEFINE z == Item("empty line", "", 0)
  <2>1. printed' = printed \o <<z>>
    BY <1>2, AppendIsTelling DEF EndList
  <2>2. Aside(<<z>>)
    <3>1. z.kind \notin Telling
      BY DEF Item, Telling
    <3> HIDE DEF z
    <3> QED
      BY <3>1, OneIsAside
  <2> HIDE DEF z
  <2> QED
    BY <2>1, <2>2, AsideStays
<1> QED
  BY <1>1, <1>2

\* No list tells of marks, and so on.
LEMMA ListsTellOnly ==
  ASSUME IsSeq(printed), BeginList \/ ListNext \/ EndList,
         NEW kind \in Telling \ {"there are", "entry", "number"}
  PROVE  Stays(printed, printed', kind)
BY BeginTells, EntryTells, OthersTellNone
-----------------------------------------------------------------------------
MarksInv ==
  Live /\ mode # "detail" =>
    /\ inLine = Len(results) % PerLine
    /\ InOrder(printed, "mark", results) /\ MarksTold(printed, Len(results))
    /\ SharesAt(printed, Full(Len(results)) \cup (IF stage = "tests" THEN {} ELSE {Len(tests)}),
                Len(tests))

LEMMA InitMarks == Init => MarksInv
  BY DEF Init, MarksInv, Live

LEMMA MarksStay ==
  ASSUME NEW kind, MarksInv, Live, mode # "detail", UNCHANGED <<tests, results, inLine>>,
         stage # "tests", stage' # "tests", IsSeq(printed'),
         Stays(printed, printed', "mark"), Stays(printed, printed', "percent")
  PROVE  MarksInv'
<1> DEFINE E == Full(Len(results)) \cup {Len(tests)}
<1>1. /\ inLine = Len(results) % PerLine
      /\ InOrder(printed, "mark", results) /\ MarksTold(printed, Len(results))
      /\ SharesAt(printed, E, Len(tests))
  BY DEF MarksInv
<1>2. InOrder(printed', "mark", results)
  BY <1>1, OrderStays
<1> HIDE DEF E
<1>3. MarksTold(printed', Len(results)) /\ SharesAt(printed', E, Len(tests))
  BY <1>1, SharesStay
<1>4. E' = E
  BY DEF E, Full
<1>5. /\ inLine' = Len(results') % PerLine
      /\ InOrder(printed', "mark", results') /\ MarksTold(printed', Len(results'))
      /\ SharesAt(printed', E', Len(tests'))
  BY <1>1, <1>2, <1>3, <1>4
<1> QED
  BY <1>5 DEF MarksInv, E

LEMMA NextMarks == ToldInv /\ CountsInv /\ DoneInv /\ MarksInv /\ [Next]_vars => MarksInv'
<1> SUFFICES ASSUME ToldInv, CountsInv, DoneInv, MarksInv, [Next]_vars, Live', mode' # "detail"
             PROVE  MarksInv'
  BY DEF MarksInv
<1>1. IsSeq(printed) /\ IsSeq(results) /\ Len(results) \in Nat
  BY AppendLength DEF ToldInv, ResultsInv, Explained
<1>2. CASE Live /\ RunSuites(mode = "detail", "--no-summary" \in flags) /\ UNCHANGED <<at, exitCode, mode>>
  <2>1. /\ inLine = Len(results) % PerLine /\ mode # "detail"
        /\ InOrder(printed, "mark", results) /\ MarksTold(printed, Len(results))
        /\ stage = "tests" => SharesAt(printed, Full(Len(results)), Len(tests))
    <3>1. Full(Len(results)) \cup {} = Full(Len(results))
      OBVIOUS
    <3> QED
      BY <1>2, <3>1 DEF MarksInv
  <2>2. CASE VisitInPassthrough
    <3>1. stage = "tests" /\ UNCHANGED <<tests, stage>>
      BY <2>2 DEF VisitInPassthrough, Visiting
    <3>2. /\ inLine' = Len(results') % PerLine
          /\ InOrder(printed', "mark", results') /\ MarksTold(printed', Len(results'))
          /\ SharesAt(printed', Full(Len(results')), Len(tests))
      BY <1>1, <2>1, <2>2, <3>1, PassthroughTells
    <3>3. Full(Len(results))' = Full(Len(results')) /\ Full(Len(results')) \cup {} = Full(Len(results'))
      BY DEF Full
    <3> QED
      BY <3>1, <3>2, <3>3 DEF MarksInv
  <2>3. CASE EndPassthrough
    <3>1. stage = "tests" /\ stage' # "tests" /\ UNCHANGED <<tests, results, inLine>>
          /\ Len(results) = Len(tests)
      BY <2>3 DEF EndPassthrough, AllVisited
    <3>2. Len(results) # 0
      <4>1. tests # <<>> /\ IsSeq(tests)
        BY <1>2 DEF Live, DoneInv, ToldInv, ResultsInv
      <4>2. tests \in Seq({tests[k] : k \in DOMAIN tests})
        BY <4>1 DEF IsSeq
      <4> QED
        BY <3>1, <4>1, <4>2, EmptySeq
    <3>3. /\ MarksTold(printed', Len(results))
          /\ SharesAt(printed', Full(Len(results)) \cup {Len(tests)}, Len(tests))
          /\ Stays(printed, printed', "mark")
      <4>1. "mark" \in Telling /\ "mark" # "percent"
        BY DEF Telling
      <4> QED
        BY <1>1, <2>1, <2>3, <3>1, <3>2, <4>1, LastLineTells
    <3>4. InOrder(printed', "mark", results)
      BY <2>1, <3>3, OrderStays
    <3>5. Full(Len(results))' = Full(Len(results))
      BY <3>1 DEF Full
    <3> QED
      BY <2>1, <3>1, <3>3, <3>4, <3>5 DEF MarksInv
  <2>4. CASE BeginList \/ ListNext \/ EndList
    <3>1. /\ stage # "tests" /\ stage' # "tests" /\ UNCHANGED <<tests, results, inLine>>
      BY <2>4 DEF BeginList, ListNext, EndList, AfterList, Bad
    <3>2. Stays(printed, printed', "mark") /\ Stays(printed, printed', "percent")
      <4>1. {"mark", "percent"} \subseteq Telling \ {"there are", "entry", "number"}
        BY DEF Telling
      <4> QED
        BY <1>1, <2>4, <4>1, ListsTellOnly
    <3>3. IsSeq(printed')
      BY <2>4, ListGoesOn DEF ToldInv, Explained
    <3> QED
      BY <1>2, <2>1, <3>1, <3>2, <3>3, MarksStay
  <2>5. CASE Summary(mode = "detail", "--no-summary" \in flags)
    <3>1. /\ stage # "tests" /\ stage' # "tests" /\ UNCHANGED <<tests, results, inLine>>
      BY <2>5 DEF Summary
    <3>2. Stays(printed, printed', "mark") /\ Stays(printed, printed', "percent")
      BY <1>1, <2>5, SummaryStays
    <3>3. IsSeq(printed')
      BY <2>5, SummaryGoesOn DEF ToldInv, Explained
    <3> QED
      BY <1>2, <2>1, <3>1, <3>2, <3>3, MarksStay
  <2> QED
    BY <1>2, <2>1, <2>2, <2>3, <2>4, <2>5 DEF RunSuites
<1>3. CASE Live /\ UNCHANGED <<reportVars, mode>>
  <2>1. UNCHANGED <<tests, stage, results, inLine, printed>>
    BY <1>3 DEF reportVars
  <2>2. Full(Len(results))' = Full(Len(results))
    BY <2>1 DEF Full
  <2> QED
    BY <1>3, <2>1, <2>2 DEF MarksInv
<1>4. CASE results' = <<>> /\ printed' = <<>> /\ stage' = "tests" /\ inLine' = 0
  <2>1. Len(<<>>) = 0 /\ Full(0) = {} /\ 0 % PerLine = 0
    <3>1. PerLine * 0 + 0 = 0 /\ 0 \in 0..(PerLine - 1) /\ (PerLine * 0 + 0) % PerLine = 0
      BY ReportAssumption, RestIs
    <3>2. Full(0) = {}
      BY DEF Full
    <3> QED
      BY <3>1, <3>2
  <2>2. InOrder(<<>>, "mark", <<>>) /\ Where(<<>>, "mark") = {} /\ Where(<<>>, "percent") = {}
    BY NothingTold
  <2>3. MarksTold(<<>>, 0)
    BY <2>2, FS_EmptySet, EmptyIsQuiet DEF MarksTold, Quiet
  <2>4. SharesAt(<<>>, {}, Len(tests)')
    BY <2>2 DEF SharesAt
  <2>5. Full(Len(results))' = {} /\ Len(results)' = 0
    BY <1>4, <2>1 DEF Full
  <2>6. {} \cup {} = {}
    OBVIOUS
  <2> QED
    BY <1>4, <2>1, <2>2, <2>3, <2>4, <2>5, <2>6 DEF MarksInv
<1> QED
  BY <1>2, <1>3, <1>4, LiveSteps
-----------------------------------------------------------------------------
(* The lists go on.                                                        *)

\* The result that the list of st has got to.
Upto ==
  [st \in Bad |->
     IF st = "ERROR"
     THEN CASE stage \in {"tests", "ERROR"} -> 1
            [] stage = "list errors" -> next
            [] OTHER -> Len(results) + 1
     ELSE CASE stage = "list failures" -> next
            [] stage \in {"summary", "over"} -> Len(results) + 1
            [] OTHER -> 1]

Began(st) ==
  IF st = "ERROR" THEN stage \notin {"tests", "ERROR"}
  ELSE stage \in {"list failures", "summary", "over"}

\* A list that is not empty has a line over it that says how many are in it.
Titled(s, R, st) ==
  Bearing(R, st) # {} =>
    \E i \in Where(s, "there are") : s[i] = Item("there are", st, Cardinality(Bearing(R, st)))

ListsInv ==
  Live /\ mode # "detail" =>
    /\ Listing(printed, results, Upto) /\ Numbering(printed, results)
    /\ stage \in {"list errors", "list failures"} =>
         number = Cardinality(Before(results, Listed, next))
    /\ \A st \in Bad : Began(st) => Titled(printed, results, st)

LEMMA InitLists == Init => ListsInv
  BY DEF Init, ListsInv, Live

LEMMA WithIs == ASSUME NEW st PROVE With(st) = Bearing(results, st)
BY DEF With, Bearing

LEMMA UptoType ==
  ASSUME IsSeq(results), next \in Nat PROVE Upto \in [Bad -> Nat]
<1>1. Len(results) + 1 \in Nat
  BY AppendLength
<1> QED
  BY <1>1 DEF Upto

LEMMA BeforeEnds ==
  ASSUME NEW R, IsSeq(R), NEW st
  PROVE  Before(R, st, 1) = {} /\ Before(R, st, Len(R) + 1) = Bearing(R, st)
<1>1. Bearing(R, st) \subseteq 1..Len(R) /\ Len(R) \in Nat
  BY ConcatFacts DEF Bearing
<1>2. \A k \in 1..Len(R) : ~(k < 1) /\ k < Len(R) + 1
  BY <1>1
<1> QED
  BY <1>1, <1>2 DEF Before

LEMMA NoLists ==
  ASSUME NEW s, NEW R, NEW B, \A st \in Bad : Before(R, st, B[st]) = {},
         Where(s, "entry") = {}, Where(s, "number") = {}
  PROVE  Listing(s, R, B) /\ Numbering(s, R)
BY DEF Listing, Numbering

LEMMA NoEntries ==
  ASSUME NEW s, NEW R, NEW B, \A st \in Bad : Before(R, st, B[st]) = {}, Listing(s, R, B), Numbering(s, R)
  PROVE  Where(s, "entry") = {} /\ Where(s, "number") = {}
<1>1. Where(s, "entry") = {}
  BY DEF Listing
<1> QED
  BY <1>1 DEF Numbering

LEMMA TitleStays ==
  ASSUME NEW s, NEW u, NEW R, NEW st, Titled(s, R, st),
         \A i \in Where(s, "there are") : i \in Where(u, "there are") /\ u[i] = s[i]
  PROVE  Titled(u, R, st)
BY DEF Titled

\* The results stay, and the lists do not go on but over other results.
LEMMA ListsStay ==
  ASSUME ListsInv, Live, mode # "detail", UNCHANGED results,
         Stays(printed, printed', "entry"), Stays(printed, printed', "number"),
         \A i \in Where(printed, "there are") :
           i \in Where(printed', "there are") /\ printed'[i] = printed[i],
         \A st \in Bad : Before(results, st, Upto'[st]) = Before(results, st, Upto[st]),
         stage' \in {"list errors", "list failures"} =>
           number' = Cardinality(Before(results, Listed', next')),
         \A st \in Bad : Began(st)' => Began(st) \/ Titled(printed', results, st)
  PROVE  ListsInv'
<1>1. Listing(printed', results, Upto) /\ Numbering(printed', results)
  BY ListStays DEF ListsInv
<1>2. Listing(printed', results, Upto')
  BY <1>1, ListPasses
<1>3. ASSUME NEW st \in Bad, Began(st)' PROVE Titled(printed', results, st)
  <2>1. CASE Began(st)
    <3>1. Titled(printed, results, st)
      BY <2>1 DEF ListsInv
    <3> QED
      BY <3>1, TitleStays
  <2> QED
    BY <1>3, <2>1
<1> QED
  BY <1>1, <1>2, <1>3 DEF ListsInv

LEMMA BeginKeeps ==
  ASSUME ListsInv, Live, mode # "detail", IsSeq(printed), IsSeq(results), CountsInv, BeginList
  PROVE  ListsInv'
<1>1. Stays(printed, printed', "entry") /\ Stays(printed, printed', "number")
  <2>1. "entry" \in Telling /\ "number" \in Telling
    BY DEF Telling
  <2> QED
    BY <2>1, BeginTells
<1>2. \A i \in Where(printed, "there are") : i \in Where(printed', "there are") /\ printed'[i] = printed[i]
  BY BeginTells
<1>3. /\ UNCHANGED results /\ next' = 1 /\ number' = 0 /\ stage \in Bad
      /\ stage' = IF counts[stage] = 0 THEN AfterList(stage)
                  ELSE IF stage = "ERROR" THEN "list errors" ELSE "list failures"
  BY DEF BeginList
<1>4. counts[stage] = Cardinality(Bearing(results, stage)) /\ IsFiniteSet(Bearing(results, stage))
  <2>1. stage \in Statuses
    BY <1>3 DEF Bad, Statuses
  <2> QED
    BY <2>1, WithIs, WithFacts DEF CountsInv
<1>5. counts[stage] = 0 => Bearing(results, stage) = {}
  BY <1>4, FS_EmptySet
<1>6. Titled(printed', results, stage)
  BY <1>4, <1>5, BeginTells DEF Titled
<1>7. \A st : Before(results, st, 1) = {} /\ Before(results, st, Len(results) + 1) = Bearing(results, st)
  BY BeforeEnds
<1>8. stage' \in {"list errors", "list failures"} =>
        number' = Cardinality(Before(results, Listed', next'))
  BY <1>3, <1>7, FS_EmptySet
<1>9. /\ Upto[stage] = 1 /\ Upto'[stage] = (IF counts[stage] = 0 THEN Len(results) + 1 ELSE 1)
      /\ \A st \in Bad : st # stage => Upto'[st] = Upto[st]
  <2>1. CASE stage = "ERROR"
    <3>1. stage' \in {"FAILURE", "list errors"} /\ (stage' = "FAILURE" <=> counts[stage] = 0)
      BY <1>3, <2>1 DEF AfterList
    <3> QED
      BY <1>3, <2>1, <3>1 DEF Upto, Bad
  <2>2. CASE stage = "FAILURE"
    <3>1. stage' \in {"summary", "list failures"} /\ (stage' = "summary" <=> counts[stage] = 0)
      BY <1>3, <2>2 DEF AfterList
    <3> QED
      BY <1>3, <2>2, <3>1 DEF Upto, Bad
  <2> QED
    BY <1>3, <2>1, <2>2 DEF Bad
<1>10. \A st \in Bad : Before(results, st, Upto'[st]) = Before(results, st, Upto[st])
  BY <1>5, <1>7, <1>9
<1>11. \A st \in Bad : Began(st)' => Began(st) \/ st = stage
  <2>1. CASE stage = "ERROR"
    <3>1. stage' \in {"FAILURE", "list errors"}
      BY <1>3, <2>1 DEF AfterList
    <3> QED
      BY <2>1, <3>1 DEF Began, Bad
  <2>2. CASE stage = "FAILURE"
    BY <2>2 DEF Began, Bad
  <2> QED
    BY <1>3, <2>1, <2>2 DEF Bad
<1>12. \A st \in Bad : Began(st)' => Began(st) \/ Titled(printed', results, st)
  BY <1>6, <1>11
<1> QED
  BY <1>1, <1>2, <1>3, <1>8, <1>10, <1>12, ListsStay

LEMMA EntryKeepsLists ==
  ASSUME ListsInv, Live', Live, mode # "detail", IsSeq(printed), IsSeq(results), next \in Nat \ {0}, ListNext
  PROVE  ListsInv'
<1>1. /\ UNCHANGED <<results, stage>> /\ next' = next + 1 /\ stage \in {"list errors", "list failures"}
      /\ Listed' = Listed /\ Listed \in Bad /\ next <= Len(results)
  BY DEF ListNext, Listed, Bad
<1>2. next \in 1..Len(results)
  <2>1. Len(results) \in Nat
    BY AppendLength
  <2>2. next <= Len(results)
    BY <1>1
  <2> QED
    BY <2>1, <2>2
<1>3. /\ Listing(printed, results, Upto) /\ Numbering(printed, results)
      /\ number = Cardinality(Before(results, Listed, next))
      /\ \A st \in Bad : Began(st) => Titled(printed, results, st)
  BY <1>1 DEF ListsInv
<1>4. /\ Upto[Listed] = next /\ Upto' = [Upto EXCEPT ![Listed] = next + 1]
      /\ Listed = "ERROR" => Upto["FAILURE"] <= 1
  <2>1. CASE stage = "list errors"
    <3>1. Listed = "ERROR" /\ stage' = "list errors" /\ next' = next + 1
      BY <1>1, <2>1 DEF Listed
    <3>2. /\ Upto["ERROR"] = next /\ Upto["FAILURE"] = 1
          /\ Upto = [st \in Bad |-> IF st = "ERROR" THEN next ELSE 1]
          /\ Upto' = [st \in Bad |-> IF st = "ERROR" THEN next + 1 ELSE 1]
      BY <2>1, <3>1 DEF Upto, Bad
    <3>3. Upto' = [Upto EXCEPT !["ERROR"] = next + 1] /\ Upto["FAILURE"] <= 1
      <4>1. \A st \in Bad : (IF st = "ERROR" THEN next + 1 ELSE 1)
                              = IF st = "ERROR" THEN next + 1 ELSE Upto[st]
        BY <3>2 DEF Bad
      <4> QED
        BY <3>2, <4>1
    <3> QED
      BY <3>1, <3>2, <3>3
  <2>2. CASE stage = "list failures"
    BY <1>1, <2>2 DEF Upto, Listed, Bad
  <2> QED
    BY <1>1, <2>1, <2>2
<1>5. \A st \in Bad : Began(st)' => Began(st)
  BY <1>1 DEF Began
<1>6. CASE IsListed(results[next])
  <2>1. results[next].status = Listed
    BY <1>6 DEF IsListed
  <2>2. PICK u, p :
          /\ p \in Nat /\ Gains(printed, u, "entry", p) /\ u[p].text = Listed /\ u[p].n = next
          /\ Stays(printed, u, "number") /\ Gains(u, printed', "number", p + 1)
          /\ printed'[p + 1].n = number + 1 /\ Stays(u, printed', "entry")
    BY <1>6, EntryTells
  <2>3. Upto \in [Bad -> Nat]
    BY UptoType
  <2>4. Listing(printed', results, [Upto EXCEPT ![Listed] = next + 1]) /\ Numbering(printed', results)
    <3> DEFINE st == Listed
               v == printed'
               B == Upto
               C == [Upto EXCEPT ![Listed] = next + 1]
    <3>1. Enters(printed, u, v, st, next, number + 1, p)
      BY <2>2 DEF Enters
    <3>2. Moves(B, C, st, next)
      BY <1>4, <2>3 DEF Moves
    <3>3. /\ Listing(printed, results, B) /\ Numbering(printed, results)
          /\ st \in Bad /\ next \in 1..Len(results) /\ results[next].status = st
          /\ number + 1 = Cardinality(Before(results, st, next)) + 1
      BY <1>1, <1>2, <1>3, <2>1
    <3> HIDE DEF st, v, B, C
    <3>4. Listing(v, results, C) /\ Numbering(v, results)
      BY <3>1, <3>2, <3>3, ListGrows
    <3> QED
      BY <3>4 DEF v, C
  <2>5. number' = Cardinality(Before(results, Listed, next + 1))
    <3>1. number' = number + 1
      BY <1>6, EntryTells
    <3> QED
      BY <1>2, <1>3, <2>1, <3>1, BeforeCounts
  <2>6. \A st \in Bad : Began(st)' => Titled(printed', results, st)
    <3>1. Stays(printed, printed', "there are")
      <4>1. "there are" \in Telling
        BY DEF Telling
      <4> QED
        BY <1>6, <4>1, EntryTells
    <3>2. \A i \in Where(printed, "there are") : i \in Where(printed', "there are") /\ printed'[i] = printed[i]
      BY <3>1 DEF Stays
    <3> QED
      BY <1>3, <1>5, <3>2, TitleStays
  <2> QED
    BY <1>1, <1>4, <2>4, <2>5, <2>6 DEF ListsInv
<1>7. CASE ~IsListed(results[next])
  <2>1. results[next].status # Listed /\ UNCHANGED <<printed, number>>
    BY <1>7 DEF IsListed, ListNext
  <2>2. Before(results, Listed, next + 1) = Before(results, Listed, next)
    BY <1>2, <2>1, BeforeGrows
  <2>3. \A st \in Bad : Before(results, st, Upto'[st]) = Before(results, st, Upto[st])
    <3>1. Upto'[Listed] = next + 1 /\ \A st \in Bad : st # Listed => Upto'[st] = Upto[st]
      <4>1. Upto \in [Bad -> Nat]
        BY UptoType
      <4> HIDE DEF Upto
      <4> QED
        BY <1>1, <1>4, <4>1
    <3> QED
      BY <1>4, <2>2, <3>1
  <2>4. /\ Stays(printed, printed', "entry") /\ Stays(printed, printed', "number")
        /\ \A i \in Where(printed, "there are") : i \in Where(printed', "there are") /\ printed'[i] = printed[i]
    BY <2>1, SameStays
  <2>5. number' = Cardinality(Before(results, Listed', next'))
    BY <1>1, <1>3, <2>1, <2>2
  <2> QED
    BY <1>1, <1>5, <2>3, <2>4, <2>5, ListsStay
<1> QED
  BY <1>6, <1>7

LEMMA EndKeepsLists ==
  ASSUME ListsInv, Live, mode # "detail", IsSeq(printed), IsSeq(results), CountsInv, next \in Nat, EndList
  PROVE  ListsInv'
<1>1. /\ UNCHANGED <<results, next, number>> /\ next = Len(results) + 1
      /\ \/ stage = "list errors" /\ stage' = "FAILURE"
         \/ stage = "list failures" /\ stage' = "summary"
  <2>1. /\ UNCHANGED <<results, next, number>> /\ next > Len(results)
        /\ \/ stage = "list errors" /\ stage' = "FAILURE"
           \/ stage = "list failures" /\ stage' = "summary"
    BY DEF EndList, AfterList, Listed
  <2>2. next <= Len(results) + 1
    BY DEF CountsInv
  <2>3. Len(results) \in Nat
    BY AppendLength
  <2>4. next > Len(results)
    BY <2>1
  <2>5. next = Len(results) + 1
    BY <2>2, <2>3, <2>4
  <2> QED
    BY <2>1, <2>5
<1>2. \A kind \in Telling : Stays(printed, printed', kind)
  BY OthersTellNone
<1>3. /\ Stays(printed, printed', "entry") /\ Stays(printed, printed', "number")
      /\ \A i \in Where(printed, "there are") : i \in Where(printed', "there are") /\ printed'[i] = printed[i]
  BY <1>2 DEF Telling, Stays
<1>4. Upto' = Upto
  BY <1>1 DEF Upto, Bad
<1>5. stage' \notin {"list errors", "list failures"} /\ \A st \in Bad : Began(st)' => Began(st)
  BY <1>1 DEF Began, Bad
<1> QED
  BY <1>1, <1>3, <1>4, <1>5, ListsStay

LEMMA VisitTellsOnly ==
  ASSUME IsSeq(printed), VisitInPassthrough, NEW kind \in Telling \ {"mark", "percent"}
  PROVE  Stays(printed, printed', kind)
<1> DEFINE m == Len(results)
           x == Item("mark", Result(tests[m + 1].case).status, m + 1)
           y == Item("percent", "", Percent(m + 1))
           s1 == printed \o <<x>>
           s2 == s1 \o If(inLine + 1 = PerLine, y)
<1>1. printed' = s2
  BY DEF VisitInPassthrough
<1>2. x.kind # kind /\ y.kind # kind
  BY DEF Item
<1> HIDE DEF m, x, y, s1, s2
<1>3. IsSeq(s1) /\ Stays(printed, s1, kind)
  BY <1>2, OneMore DEF s1
<1>4. Stays(s1, s2, kind)
  <2>1. CASE inLine + 1 = PerLine
    <3>1. s2 = s1 \o <<y>>
      BY <2>1 DEF s2, If
    <3> QED
      BY <1>2, <1>3, <3>1, OneMore
  <2>2. CASE inLine + 1 # PerLine
    <3>1. s2 = s1
      BY <1>3, <2>2, EmptyConcat DEF s2, If
    <3> QED
      BY <3>1, SameStays
  <2> QED
    BY <2>1, <2>2
<1> QED
  BY <1>1, <1>3, <1>4, StaysTwice

LEMMA NextLists == ToldInv /\ CountsInv /\ DoneInv /\ MarksInv /\ ListsInv /\ [Next]_vars => ListsInv'
<1> SUFFICES ASSUME ToldInv, CountsInv, DoneInv, MarksInv, ListsInv, [Next]_vars, Live', mode' # "detail"
             PROVE  ListsInv'
  BY DEF ListsInv
<1>1. /\ IsSeq(printed) /\ IsSeq(results) /\ next \in Nat \ {0} /\ IsSeq(results')
  BY NextTold DEF ToldInv, ResultsInv, Explained
<1>2. CASE Live /\ RunSuites(mode = "detail", "--no-summary" \in flags) /\ UNCHANGED <<at, exitCode, mode>>
  <2>0. mode # "detail" /\ Live
    BY <1>2
  <2>1. CASE VisitInPassthrough
    <3>1. stage = "tests" /\ stage' = "tests"
      BY <2>1 DEF VisitInPassthrough, Visiting
    <3>2. Stays(printed, printed', "entry") /\ Stays(printed, printed', "number")
      <4>1. {"entry", "number"} \subseteq Telling \ {"mark", "percent"}
        BY DEF Telling
      <4> QED
        BY <1>1, <2>1, <4>1, VisitTellsOnly
    <3>3. \A st \in Bad : Upto[st] = 1 /\ Upto'[st] = 1
      BY <3>1 DEF Upto, Bad
    <3>4. \A st : Before(results, st, 1) = {} /\ Before(results', st, 1) = {}
      BY <1>1, BeforeEnds
    <3>5. Listing(printed, results, Upto) /\ Numbering(printed, results)
      BY <2>0 DEF ListsInv
    <3>6. /\ \A st \in Bad : Before(results, st, Upto[st]) = {}
          /\ \A st \in Bad : Before(results', st, Upto'[st]) = {}
      BY <3>3, <3>4
    <3>7. Where(printed, "entry") = {} /\ Where(printed, "number") = {}
      BY <3>5, <3>6, NoEntries
    <3>8. Where(printed', "entry") = {} /\ Where(printed', "number") = {}
      BY <3>2, <3>7 DEF Stays
    <3>9. Listing(printed', results', Upto') /\ Numbering(printed', results')
      BY <3>6, <3>8, NoLists
    <3>10. \A st \in Bad : ~Began(st)'
      BY <3>1 DEF Began, Bad
    <3> QED
      BY <3>1, <3>9, <3>10 DEF ListsInv
  <2>2. CASE EndPassthrough
    <3>1. stage = "tests" /\ stage' = "ERROR" /\ UNCHANGED <<tests, results, next, number>>
      BY <2>2 DEF EndPassthrough, AllVisited
    <3>2. \A kind \in Telling : kind # "percent" => Stays(printed, printed', kind)
      <4>1. Len(results) # 0
        <5>1. Len(results) = Len(tests) /\ tests # <<>> /\ IsSeq(tests)
          BY <2>0, <2>2 DEF Live, DoneInv, ToldInv, ResultsInv, EndPassthrough, AllVisited
        <5>2. tests \in Seq({tests[k] : k \in DOMAIN tests})
          BY <5>1 DEF IsSeq
        <5> QED
          BY <5>1, <5>2, EmptySeq
      <4>2. Full(Len(results)) \cup {} = Full(Len(results))
        OBVIOUS
      <4>3. /\ inLine = Len(results) % PerLine /\ MarksTold(printed, Len(results))
            /\ SharesAt(printed, Full(Len(results)), Len(tests))
        BY <2>0, <3>1, <4>2 DEF MarksInv
      <4> QED
        BY <1>1, <2>2, <4>1, <4>3, LastLineTells
    <3>3. /\ Stays(printed, printed', "entry") /\ Stays(printed, printed', "number")
          /\ \A i \in Where(printed, "there are") : i \in Where(printed', "there are") /\ printed'[i] = printed[i]
      BY <3>2 DEF Telling, Stays
    <3>4. Upto' = Upto
      BY <3>1 DEF Upto, Bad
    <3>5. \A st \in Bad : ~Began(st)'
      BY <3>1 DEF Began, Bad
    <3> QED
      BY <2>0, <3>1, <3>3, <3>4, <3>5, ListsStay
  <2>3. CASE BeginList \/ ListNext \/ EndList
    BY <1>1, <2>0, <2>3, BeginKeeps, EntryKeepsLists, EndKeepsLists
  <2>4. CASE Summary(mode = "detail", "--no-summary" \in flags)
    <3>1. stage = "summary" /\ stage' = "over" /\ UNCHANGED <<results, next, number>>
      BY <2>4 DEF Summary
    <3>2. /\ Stays(printed, printed', "entry") /\ Stays(printed, printed', "number")
          /\ Stays(printed, printed', "there are")
      BY <1>1, <2>4, SummaryStays
    <3>3. \A i \in Where(printed, "there are") : i \in Where(printed', "there are") /\ printed'[i] = printed[i]
      BY <3>2 DEF Stays
    <3>4. Upto' = Upto /\ \A st \in Bad : Began(st)
      BY <3>1 DEF Upto, Bad, Began
    <3> QED
      BY <2>0, <3>1, <3>2, <3>3, <3>4, ListsStay
  <2> QED
    BY <1>2, <2>1, <2>2, <2>3, <2>4 DEF RunSuites
<1>3. CASE Live /\ UNCHANGED <<reportVars, mode>>
  <2>1. UNCHANGED <<stage, results, next, number, printed>>
    BY <1>3 DEF reportVars
  <2>2. Upto' = Upto /\ Listed' = Listed /\ \A st \in Bad : Began(st)' = Began(st)
    BY <2>1 DEF Upto, Listed, Began
  <2>3. /\ Listing(printed, results, Upto) /\ Numbering(printed, results)
        /\ stage \in {"list errors", "list failures"} =>
             number = Cardinality(Before(results, Listed, next))
        /\ \A st \in Bad : Began(st) => Titled(printed, results, st)
    BY <1>3 DEF ListsInv
  <2> QED
    BY <2>1, <2>2, <2>3 DEF ListsInv
<1>4. CASE results' = <<>> /\ printed' = <<>> /\ stage' = "tests"
  <2>1. Where(<<>>, "entry") = {} /\ Where(<<>>, "number") = {}
    BY NothingTold
  <2>2. \A st \in Bad : Before(results', st, Upto'[st]) = {}
    <3>1. \A st \in Bad : Upto'[st] = 1
      BY <1>4 DEF Upto, Bad
    <3> QED
      BY <1>1, <3>1, BeforeEnds
  <2>3. Listing(printed', results', Upto') /\ Numbering(printed', results')
    BY <1>4, <2>1, <2>2, NoLists
  <2>4. \A st \in Bad : ~Began(st)'
    BY <1>4 DEF Began, Bad
  <2> QED
    BY <1>4, <2>3, <2>4 DEF ListsInv
<1> QED
  BY <1>2, <1>3, <1>4, LiveSteps
-----------------------------------------------------------------------------
(* The summary.                                                            *)

\* What the items of the summary say.
Counted(s, n, headline) ==
  /\ \A i \in Where(s, "count") : s[i].text \in Statuses /\ s[i].n = n[s[i].text]
  /\ \A i \in Where(s, "headline") : s[i].text = headline

CountedInv ==
  Live =>
    /\ stage # "over" => Where(printed, "count") = {} /\ Where(printed, "headline") = {}
    /\ Counted(printed, counts, Headline)

LEMMA InitCounted == Init => CountedInv
  BY DEF Init, CountedInv, Live

LEMMA CountedConcat ==
  ASSUME NEW s, NEW t, IsSeq(s), IsSeq(t), NEW n, NEW h, Counted(s, n, h), Counted(t, n, h)
  PROVE  Counted(s \o t, n, h)
<1>1. /\ IsSeq(s \o t) /\ Len(s) \in Nat /\ Len(t) \in Nat
      /\ DOMAIN s = 1..Len(s) /\ DOMAIN t = 1..Len(t)
      /\ DOMAIN (s \o t) = 1..(Len(s) + Len(t))
      /\ \A k \in 1..Len(s) : (s \o t)[k] = s[k]
      /\ \A k \in 1..Len(t) : (s \o t)[Len(s) + k] = t[k]
  BY ConcatFacts
<1> DEFINE u == s \o t
<1>2. \A kind : \A i \in Where(u, kind) :
        (i \in Where(s, kind) /\ u[i] = s[i]) \/ \E j \in Where(t, kind) : u[i] = t[j]
  <2> SUFFICES ASSUME NEW kind, NEW i \in Where(u, kind)
               PROVE  (i \in Where(s, kind) /\ u[i] = s[i]) \/ \E j \in Where(t, kind) : u[i] = t[j]
    OBVIOUS
  <2>1. i \in 1..(Len(s) + Len(t)) /\ u[i].kind = kind
    BY <1>1 DEF Where
  <2> HIDE DEF u
  <2>2. CASE i \in 1..Len(s)
    BY <1>1, <2>1, <2>2 DEF Where, u
  <2>3. CASE i \notin 1..Len(s)
    <3>1. i - Len(s) \in 1..Len(t) /\ i = Len(s) + (i - Len(s))
      BY <1>1, <2>1, <2>3
    <3>2. PICK l \in 1..Len(t) : i = Len(s) + l
      BY <3>1
    <3>3. u[i] = t[l] /\ l \in DOMAIN t
      BY <1>1, <3>2 DEF u
    <3> QED
      BY <2>1, <3>3 DEF Where
  <2> QED
    BY <2>2, <2>3
<1> HIDE DEF u
<1>3. ASSUME NEW i \in Where(u, "count") PROVE u[i].text \in Statuses /\ u[i].n = n[u[i].text]
  <2>1. CASE i \in Where(s, "count") /\ u[i] = s[i]
    BY <2>1 DEF Counted
  <2>2. CASE \E j \in Where(t, "count") : u[i] = t[j]
    BY <2>2 DEF Counted
  <2> QED
    BY <1>2, <2>1, <2>2
<1>4. ASSUME NEW i \in Where(u, "headline") PROVE u[i].text = h
  <2>1. CASE i \in Where(s, "headline") /\ u[i] = s[i]
    BY <2>1 DEF Counted
  <2>2. CASE \E j \in Where(t, "headline") : u[i] = t[j]
    BY <2>2 DEF Counted
  <2> QED
    BY <1>2, <2>1, <2>2
<1> QED
  BY <1>3, <1>4 DEF Counted, u

LEMMA CountedSummary ==
  /\ Counted(<<>>, counts, Headline) /\ Counted(SummaryLine, counts, Headline)
  /\ Counted(FinalSummary, counts, Headline)
<1>1. Counted(<<>>, counts, Headline)
  BY NothingTold DEF Counted
<1>2. Counted(SummaryLine, counts, Headline)
  <2> DEFINE names == <<"PASS", "SKIPPED", "ERROR", "FAILURE", "INCOMPLETE">>
  <2>1. \A k \in 1..5 : names[k] \in Statuses
    BY DEF Statuses
  <2> HIDE DEF names
  <2>2. SummaryLine = [k \in 1..5 |-> Item("count", names[k], counts[names[k]])]
    BY DEF SummaryLine, names
  <2>3. ASSUME NEW k \in DOMAIN SummaryLine
        PROVE  /\ SummaryLine[k].kind = "count" /\ SummaryLine[k].text \in Statuses
               /\ SummaryLine[k].n = counts[SummaryLine[k].text]
    BY <2>1, <2>2 DEF Item
  <2> QED
    BY <2>3 DEF Counted, Where
<1>3. Counted(FinalSummary, counts, Headline)
  <2> DEFINE a == Item("time", "", 0)
             b == Item("headline", Headline, 0)
             h == <<a, b>>
  <2>1. a.kind = "time" /\ b.kind = "headline" /\ b.text = Headline
    BY DEF Item
  <2>2. FinalSummary = h \o SummaryLine
    BY DEF FinalSummary
  <2> HIDE DEF a, b
  <2>3. IsSeq(h) /\ DOMAIN h = {1, 2} /\ h[1] = a /\ h[2] = b
    BY TwoItems
  <2> HIDE DEF h
  <2>4. Counted(h, counts, Headline)
    BY <2>1, <2>3 DEF Counted, Where
  <2>5. IsSeq(SummaryLine)
    BY SummaryIsQuiet DEF Quiet
  <2> QED
    BY <1>2, <2>2, <2>3, <2>4, <2>5, CountedConcat
<1> QED
  BY <1>1, <1>2, <1>3

LEMMA CountedStays ==
  ASSUME CountedInv, Live, stage # "over", stage' # "over",
         Stays(printed, printed', "count"), Stays(printed, printed', "headline")
  PROVE  CountedInv'
<1>1. Where(printed', "count") = {} /\ Where(printed', "headline") = {}
  BY DEF CountedInv, Stays
<1> QED
  BY <1>1 DEF CountedInv, Counted

LEMMA NextCounted ==
  ReadInv /\ ToldInv /\ CountsInv /\ SuitesInv /\ DoneInv /\ DetailInv /\ MarksInv /\ CountedInv /\ [Next]_vars
    => CountedInv'
<1> SUFFICES ASSUME ReadInv, ToldInv, CountsInv, SuitesInv, DoneInv, DetailInv, MarksInv, CountedInv,
                    [Next]_vars, Live'
             PROVE  CountedInv'
  BY DEF CountedInv
<1>1. /\ IsSeq(printed) /\ IsSeq(results)
  BY DEF ToldInv, ResultsInv, Explained
<1>2. CASE Live /\ RunSuites(mode = "detail", "--no-summary" \in flags) /\ UNCHANGED <<at, exitCode, mode>>
  <2>0. {"count", "headline"} \subseteq Telling
    BY DEF Telling
  <2>1. CASE mode # "detail" /\ VisitInPassthrough
    <3>1. stage = "tests" /\ stage' = "tests"
      BY <2>1 DEF VisitInPassthrough, Visiting
    <3>2. Stays(printed, printed', "count") /\ Stays(printed, printed', "headline")
      BY <1>1, <2>0, <2>1, VisitTellsOnly
    <3> QED
      BY <1>2, <3>1, <3>2, CountedStays
  <2>2. CASE mode = "detail" /\ VisitInDetail
    <3>1. stage = "tests" /\ stage' = "tests"
      BY <2>2 DEF VisitInDetail, Visiting
    <3>2. BySuite(tests, Len(suites)) /\ Len(suites) \in Nat
      BY <1>2, AllTestsBySuite, LenProperties DEF SuitesInv, Live, ReadInv
    <3>3. Stays(printed, printed', "count") /\ Stays(printed, printed', "headline")
      BY <1>1, <1>2, <2>2, <3>2, DetailTells DEF DetailInv
    <3> QED
      BY <1>2, <3>1, <3>3, CountedStays
  <2>3. CASE EndDetail
    <3>1. stage = "tests" /\ stage' # "over" /\ UNCHANGED printed
      BY <2>3 DEF EndDetail, AllVisited
    <3> QED
      BY <1>2, <3>1, SameStays, CountedStays
  <2>4. CASE mode # "detail" /\ EndPassthrough
    <3>1. stage = "tests" /\ stage' = "ERROR"
      BY <2>4 DEF EndPassthrough, AllVisited
    <3>2. \A kind \in Telling : kind # "percent" => Stays(printed, printed', kind)
      <4>1. Len(results) # 0
        <5>1. Len(results) = Len(tests) /\ tests # <<>> /\ IsSeq(tests)
          BY <1>2, <2>4 DEF Live, DoneInv, ToldInv, ResultsInv, EndPassthrough, AllVisited
        <5>2. tests \in Seq({tests[k] : k \in DOMAIN tests})
          BY <5>1 DEF IsSeq
        <5> QED
          BY <5>1, <5>2, EmptySeq
      <4>2. Full(Len(results)) \cup {} = Full(Len(results))
        OBVIOUS
      <4>3. /\ inLine = Len(results) % PerLine /\ MarksTold(printed, Len(results))
            /\ SharesAt(printed, Full(Len(results)), Len(tests))
        BY <1>2, <2>4, <3>1, <4>2 DEF MarksInv
      <4> QED
        BY <1>1, <2>4, <4>1, <4>3, LastLineTells
    <3>3. Stays(printed, printed', "count") /\ Stays(printed, printed', "headline")
      BY <2>0, <3>2
    <3> QED
      BY <1>2, <3>1, <3>3, CountedStays
  <2>5. CASE BeginList \/ ListNext \/ EndList
    <3>1. stage # "over" /\ stage' # "over"
      BY <2>5 DEF BeginList, ListNext, EndList, AfterList, Bad
    <3>2. Stays(printed, printed', "count") /\ Stays(printed, printed', "headline")
      BY <1>1, <2>0, <2>5, ListsTellOnly
    <3> QED
      BY <1>2, <3>1, <3>2, CountedStays
  <2>6. CASE Summary(mode = "detail", "--no-summary" \in flags)
    <3> DEFINE lines == IF ~("--no-summary" \in flags) THEN FinalSummary
                        ELSE IF mode = "detail" THEN <<>> ELSE SummaryLine
    <3>1. printed' = printed \o lines /\ stage' = "over" /\ UNCHANGED counts
      BY <2>6 DEF Summary
    <3>2. Counted(lines, counts, Headline) /\ IsSeq(lines)
      BY CountedSummary, SummaryIsQuiet, EmptyIsQuiet DEF Quiet
    <3>3. Counted(printed, counts, Headline)
      BY <1>2 DEF CountedInv
    <3> HIDE DEF lines
    <3>4. Counted(printed', counts, Headline)
      BY <1>1, <3>1, <3>2, <3>3, CountedConcat
    <3>5. Headline' = Headline
      BY <3>1 DEF Headline, HasFailures, HasWarnings
    <3> QED
      BY <3>1, <3>4, <3>5 DEF CountedInv
  <2> QED
    BY <1>2, <2>1, <2>2, <2>3, <2>4, <2>5, <2>6 DEF RunSuites
<1>3. CASE Live /\ UNCHANGED <<reportVars, mode>>
  <2>1. UNCHANGED <<stage, counts, printed>>
    BY <1>3 DEF reportVars
  <2>2. Headline' = Headline
    BY <2>1 DEF Headline, HasFailures, HasWarnings
  <2>3. /\ stage # "over" => Where(printed, "count") = {} /\ Where(printed, "headline") = {}
        /\ Counted(printed, counts, Headline)
    BY <1>3 DEF CountedInv
  <2> QED
    BY <2>1, <2>2, <2>3 DEF CountedInv
<1>4. CASE printed' = <<>>
  BY <1>4, NothingTold DEF CountedInv, Counted
<1> QED
  BY <1>2, <1>3, <1>4, LiveSteps
\* Once the report is over, the summary that was asked for is in it.
SummaryInv == Live /\ stage = "over" => SummaryIsThere

LEMMA InitSummary == Init => SummaryInv
  BY DEF Init, SummaryInv, Live

LEMMA FlagsStay ==
  ASSUME [Next]_vars, at = "tests" PROVE UNCHANGED flags
<1>1. CASE UNCHANGED vars
  BY <1>1 DEF vars, mainVars
<1>2. CASE Next
  <2>1. ~(ParseOption \/ UnknownOption \/ PassPath \/ OptionsParsed \/ ShowText \/ Start)
    BY DEF ParseOption, UnknownOption, PassPath, OptionsParsed, ShowText, Start, Running
  <2>2. CASE Fetching \/ FetchEnds \/ ReadSuite \/ NoTests \/ BeginTests \/ RunTests \/ Finish
    BY <2>2 DEF Fetching, FetchEnds, ReadSuite, NoTests, BeginTests, RunTests, Finish, mainVars
  <2>3. CASE RunnerDies \/ FileVanishes
    BY <2>3 DEF RunnerDies, FileVanishes, mainVars
  <2> QED
    BY <1>2, <2>1, <2>2, <2>3 DEF Next, Step
<1> QED
  BY <1>1, <1>2

\* The items of t are all in u.
Includes(u, t) ==
  \A kind : \A j \in Where(t, kind) : \E i \in Where(u, kind) : u[i] = t[j]

LEMMA EndIsTold ==
  ASSUME NEW s, NEW t, IsSeq(s), IsSeq(t)
  PROVE  Includes(s \o t, t)
<1> DEFINE u == s \o t
<1> SUFFICES ASSUME NEW kind, NEW j \in Where(t, kind)
             PROVE  \E i \in Where(u, kind) : u[i] = t[j]
  BY DEF Includes
<1>1. /\ Len(s) \in Nat /\ Len(t) \in Nat /\ DOMAIN t = 1..Len(t)
      /\ DOMAIN u = 1..(Len(s) + Len(t))
      /\ \A k \in 1..Len(t) : u[Len(s) + k] = t[k]
  BY ConcatFacts
<1> HIDE DEF u
<1>2. j \in 1..Len(t) /\ t[j].kind = kind
  BY <1>1 DEF Where
<1>3. Len(s) + j \in 1..(Len(s) + Len(t))
  BY <1>1, <1>2
<1>4. u[Len(s) + j] = t[j]
  BY <1>1, <1>2
<1>5. PICK i : i = Len(s) + j
  OBVIOUS
<1>6. i \in DOMAIN u /\ u[i] = t[j]
  BY <1>1, <1>3, <1>4, <1>5
<1> QED
  BY <1>2, <1>6 DEF Where

LEMMA SummaryTellsAll ==
  /\ \A st \in Statuses : \E j \in Where(SummaryLine, "count") : SummaryLine[j].text = st
  /\ \A st \in Statuses : \E j \in Where(FinalSummary, "count") : FinalSummary[j].text = st
  /\ Where(FinalSummary, "headline") # {}
<1>1. \A st \in Statuses : \E j \in Where(SummaryLine, "count") : SummaryLine[j].text = st
  <2> DEFINE names == <<"PASS", "SKIPPED", "ERROR", "FAILURE", "INCOMPLETE">>
  <2>1. \A st \in Statuses : \E k \in 1..5 : names[k] = st
    BY DEF Statuses
  <2> HIDE DEF names
  <2>2. SummaryLine = [k \in 1..5 |-> Item("count", names[k], counts[names[k]])]
    BY DEF SummaryLine, names
  <2>3. DOMAIN SummaryLine = 1..5
    BY <2>2
  <2>4. \A k \in 1..5 : SummaryLine[k].kind = "count" /\ SummaryLine[k].text = names[k]
    BY <2>2 DEF Item
  <2> QED
    BY <2>1, <2>3, <2>4 DEF Where
<1> DEFINE a == Item("time", "", 0)
           b == Item("headline", Headline, 0)
           h == <<a, b>>
<1>2. b.kind = "headline" /\ FinalSummary = h \o SummaryLine
  BY DEF Item, FinalSummary
<1> HIDE DEF a, b
<1>3. IsSeq(h) /\ DOMAIN h = {1, 2} /\ h[2] = b
  BY TwoItems
<1> HIDE DEF h
<1>4. IsSeq(SummaryLine)
  BY SummaryIsQuiet DEF Quiet
<1>5. \A st \in Statuses : \E j \in Where(FinalSummary, "count") : FinalSummary[j].text = st
  <2>1. Includes(h \o SummaryLine, SummaryLine)
    BY <1>3, <1>4, EndIsTold
  <2>2. Includes(FinalSummary, SummaryLine)
    BY <1>2, <2>1
  <2>3. \A j \in Where(SummaryLine, "count") :
          \E i \in Where(FinalSummary, "count") : FinalSummary[i] = SummaryLine[j]
    BY <2>2 DEF Includes
  <2>4. ASSUME NEW st \in Statuses
        PROVE  \E j \in Where(FinalSummary, "count") : FinalSummary[j].text = st
    <3>1. PICK j \in Where(SummaryLine, "count") : SummaryLine[j].text = st
      BY <1>1
    <3> QED
      BY <2>3, <3>1
  <2> QED
    BY <2>4
<1>6. Where(FinalSummary, "headline") # {}
  <2>1. /\ Len(h) \in Nat /\ Len(SummaryLine) \in Nat /\ DOMAIN h = 1..Len(h)
        /\ DOMAIN FinalSummary = 1..(Len(h) + Len(SummaryLine))
        /\ \A k \in 1..Len(h) : FinalSummary[k] = h[k]
    BY <1>2, <1>3, <1>4, ConcatFacts
  <2>2. 2 \in 1..Len(h)
    BY <1>3, <2>1
  <2>3. 2 \in 1..(Len(h) + Len(SummaryLine))
    BY <2>1, <2>2
  <2>4. FinalSummary[2].kind = "headline"
    BY <1>2, <1>3, <2>1, <2>2
  <2> QED
    BY <2>1, <2>3, <2>4 DEF Where
<1> QED
  BY <1>1, <1>5, <1>6

LEMMA NextSummary ==
  ToldInv /\ CountsInv /\ DoneInv /\ SummaryInv /\ [Next]_vars => SummaryInv'
<1> SUFFICES ASSUME ToldInv, CountsInv, DoneInv, SummaryInv, [Next]_vars, Live', stage' = "over"
             PROVE  SummaryIsThere'
  BY DEF SummaryInv
<1>1. CASE Live /\ RunSuites(mode = "detail", "--no-summary" \in flags) /\ UNCHANGED <<at, exitCode, mode>>
  <2>1. Summary(mode = "detail", "--no-summary" \in flags)
    <3>1. ~(VisitInDetail \/ EndDetail \/ VisitInPassthrough \/ EndPassthrough)
      BY DEF VisitInDetail, EndDetail, VisitInPassthrough, EndPassthrough, Visiting, AllVisited
    <3>2. ~(BeginList \/ ListNext \/ EndList)
      BY DEF BeginList, ListNext, EndList, AfterList, Bad
    <3> QED
      BY <1>1, <3>1, <3>2 DEF RunSuites
  <2> DEFINE lines == IF ~("--no-summary" \in flags) THEN FinalSummary
                      ELSE IF mode = "detail" THEN <<>> ELSE SummaryLine
  <2>2. printed' = printed \o lines
    BY <2>1 DEF Summary
  <2>3. IsSeq(lines) /\ IsSeq(printed)
    BY SummaryIsQuiet, EmptyIsQuiet DEF Quiet, ToldInv, Explained
  <2>4. flags' = flags /\ mode' = mode
    BY <1>1, FlagsStay DEF Live
  <2>5. "--no-summary" \notin flags => Where(lines, "headline") # {}
    BY SummaryTellsAll
  <2>6. mode = "passthrough" \/ "--no-summary" \notin flags =>
          \A st \in Statuses : \E j \in Where(lines, "count") : lines[j].text = st
    BY SummaryTellsAll
  <2> HIDE DEF lines
  <2>7. Includes(printed', lines)
    <3>1. Includes(printed \o lines, lines)
      BY <2>3, EndIsTold
    <3> QED
      BY <2>2, <3>1
  <2>8. "--no-summary" \notin flags => Where(printed', "headline") # {}
    BY <2>5, <2>7 DEF Includes
  <2>9. mode = "passthrough" \/ "--no-summary" \notin flags =>
          \A st \in Statuses : \E i \in Where(printed', "count") : printed'[i].text = st
    BY <2>6, <2>7 DEF Includes
  <2> QED
    BY <2>4, <2>8, <2>9 DEF SummaryIsThere, Told, Where
<1>2. CASE Live /\ UNCHANGED <<reportVars, mode>>
  <2>1. SummaryIsThere
    BY <1>2 DEF SummaryInv, reportVars
  <2>2. UNCHANGED <<printed, mode, flags>>
    BY <1>2, FlagsStay DEF Live, reportVars
  <2> QED
    BY <2>1, <2>2 DEF SummaryIsThere, Told
<1> QED
  BY <1>1, <1>2, LiveSteps
-----------------------------------------------------------------------------
(* The report is whole.                                                    *)

LEMMA TestsAreBlocks ==
  ASSUME ReadInv, SuitesInv, at = "tests", NEW k \in DOMAIN sources, sources \in Seq(DOMAIN disk)
  PROVE  TestsAreOf(k)
<1>1. k \in 1..Len(suites) /\ suites[k] = sources[k] /\ tests = AllTests
  <2>1. DOMAIN sources = 1..Len(sources)
    BY LenProperties
  <2> QED
    BY <2>1 DEF SuitesInv
<1> DEFINE c == Content(sources[k])
<1>2. Block(tests, k)
  BY <1>1, AllTestsBySuite DEF BySuite
<1>3. Content(suites[k]) = c
  BY <1>1
<1> HIDE DEF c
<1>4. PICK d \in 0..Len(tests) :
        /\ {n \in DOMAIN tests : tests[n].suite = k} = (d + 1)..(d + Len(c))
        /\ \A n \in 1..Len(c) : tests[d + n].case = c[n]
  BY <1>2, <1>3 DEF Block
<1> QED
  BY <1>4 DEF TestsAreOf, c

LEMMA OrderIsTold ==
  ASSUME NEW kind, InOrder(printed, kind, results), IsSeq(results) PROVE ToldInOrder(kind)
<1>1. Told(kind) = Where(printed, kind) /\ DOMAIN results = 1..Len(results)
  BY WhereIs, ConcatFacts
<1>2. {printed[i].n : i \in Told(kind)} = DOMAIN results
  <2>1. \A k \in DOMAIN results : \E i \in Told(kind) : printed[i].n = k
    BY <1>1 DEF InOrder
  <2>2. \A i \in Told(kind) : printed[i].n \in DOMAIN results
    BY <1>1 DEF InOrder
  <2> QED
    BY <2>1, <2>2
<1>3. \A i, j \in Told(kind) : i < j => printed[i].n < printed[j].n
  BY <1>1 DEF InOrder
<1>4. \A i \in Told(kind) : printed[i].text = results[printed[i].n].status
  BY <1>1 DEF InOrder
<1> QED
  BY <1>2, <1>3, <1>4 DEF ToldInOrder

LEMMA HeadersAreTold ==
  ASSUME Headers(printed, tests, Len(results)), UnderHeaders(printed, tests) PROVE SuitesAreGrouped
<1>1. Told("suite") = Where(printed, "suite") /\ Told("test") = Where(printed, "test")
  BY WhereIs
<1>2. \A i, j \in Told("suite") : printed[i].n = printed[j].n => i = j
  BY <1>1 DEF Headers
<1>3. \A k \in Told("test") :
        \E i \in Told("suite") :
          /\ i < k /\ printed[i].n = tests[printed[k].n].suite
          /\ \A l \in Told("suite") : l <= i \/ k < l
  BY <1>1 DEF UnderHeaders
<1> QED
  BY <1>2, <1>3 DEF SuitesAreGrouped

LEMMA ListsAreTold ==
  ASSUME IsSeq(results), ListsInv, Live, mode # "detail", stage = "over" PROVE ListsAreWhole
<1>1. /\ Listing(printed, results, Upto) /\ Numbering(printed, results)
      /\ \A st \in Bad : Titled(printed, results, st)
  BY DEF ListsInv, Began, Bad
<1>2. \A st \in Bad : Before(results, st, Upto[st]) = With(st)
  <2>1. \A st \in Bad : Upto[st] = Len(results) + 1
    BY DEF Upto, Bad
  <2> QED
    BY <2>1, BeforeEnds, WithIs
<1>3. \A kind : Told(kind) = Where(printed, kind)
  BY WhereIs
<1>4. ASSUME NEW s \in Bad
      PROVE  {printed[i].n : i \in {j \in Told("entry") : printed[j].text = s}} = With(s)
  <2>1. \A k \in With(s) : \E i \in Told("entry") : printed[i].text = s /\ printed[i].n = k
    BY <1>1, <1>2, <1>3 DEF Listing
  <2>2. \A i \in Told("entry") : printed[i].text = s => printed[i].n \in With(s)
    BY <1>1, <1>2, <1>3 DEF Listing
  <2> QED
    BY <2>1, <2>2
<1>5. ASSUME NEW s \in Bad, With(s) # {}
      PROVE  \E i \in Told("there are") : printed[i] = Item("there are", s, Cardinality(With(s)))
  BY <1>1, <1>3, <1>5, WithIs DEF Titled
<1>6. \A i, j \in Told("entry") : i < j =>
        IF printed[i].text = printed[j].text THEN printed[i].n < printed[j].n
        ELSE printed[i].text = "ERROR"
  BY <1>1, <1>3 DEF Listing
<1>7. Told("number") = {i + 1 : i \in Told("entry")}
  BY <1>1, <1>3 DEF Numbering
<1>8. ASSUME NEW i \in Told("entry")
      PROVE  printed[i + 1].n = Cardinality({k \in With(printed[i].text) : k <= printed[i].n})
  <2>1. printed[i + 1].n = Cardinality({k \in Bearing(results, printed[i].text) : k <= printed[i].n})
    BY <1>1, <1>3 DEF Numbering
  <2> QED
    BY <2>1, WithIs
<1> QED
  BY <1>4, <1>5, <1>6, <1>7, <1>8 DEF ListsAreWhole

LEMMA CountsAreTold ==
  ASSUME ToldInv, CountsInv, DoneInv, CountedInv, at = "tests", exitCode \in {"0", "2"}
  PROVE  /\ \A i \in Told("count") : printed[i].n = Cardinality(With(printed[i].text))
         /\ \A i \in Told("headline") :
              CASE printed[i].text = "FAILED!" -> exitCode = "2"
                [] printed[i].text = "OK!" -> With("PASS") = DOMAIN tests
                [] OTHER -> exitCode = "0" /\ With("PASS") # DOMAIN tests
         /\ exitCode = "2" <=> \E s \in Bad : With(s) # {}
<1>1. /\ Counted(printed, counts, Headline)
      /\ exitCode = "2" <=> AnyFailed
      /\ Len(results) = Len(tests) /\ IsSeq(results) /\ IsSeq(tests)
  BY DEF CountedInv, Live, DoneInv, ToldInv, ResultsInv
<1>2. \A kind : Told(kind) = Where(printed, kind)
  BY WhereIs
<1>3. \A s \in Statuses : counts[s] = Cardinality(With(s)) /\ counts[s] \in Nat /\ (counts[s] > 0 <=> With(s) # {})
  <2> SUFFICES ASSUME NEW s \in Statuses
               PROVE  counts[s] = Cardinality(With(s)) /\ counts[s] \in Nat /\ (counts[s] > 0 <=> With(s) # {})
    OBVIOUS
  <2>1. counts[s] = Cardinality(With(s))
    BY DEF CountsInv
  <2>2. IsFiniteSet(With(s)) /\ Cardinality(With(s)) \in Nat
    BY <1>1, WithFacts
  <2>3. Cardinality(With(s)) = 0 <=> With(s) = {}
    BY <2>2, FS_EmptySet
  <2> QED
    BY <2>1, <2>2, <2>3
<1>4. \A i \in Told("count") : printed[i].n = Cardinality(With(printed[i].text))
  BY <1>1, <1>2, <1>3 DEF Counted
<1>5. HasFailures <=> AnyFailed
  BY DEF HasFailures, AnyFailed
<1>6. AnyFailed <=> \E s \in Bad : With(s) # {}
  <2>1. "ERROR" \in Statuses /\ "FAILURE" \in Statuses
    BY DEF Statuses
  <2> QED
    BY <1>3, <2>1 DEF AnyFailed, Bad
<1>7. HasWarnings <=> With("SKIPPED") # {} \/ With("INCOMPLETE") # {}
  <2>1. "SKIPPED" \in Statuses /\ "INCOMPLETE" \in Statuses
    BY DEF Statuses
  <2> QED
    BY <1>3, <2>1 DEF HasWarnings
<1>8. DOMAIN tests = DOMAIN results
  BY <1>1, ConcatFacts
<1>9. \A k \in DOMAIN results : results[k].status \in Statuses
  BY DEF CountsInv
<1>10. ~HasFailures /\ ~HasWarnings => With("PASS") = DOMAIN results
  <2> SUFFICES ASSUME ~HasFailures, ~HasWarnings, NEW k \in DOMAIN results
               PROVE  results[k].status = "PASS"
    BY DEF With
  <2>1. /\ k \notin With("ERROR") /\ k \notin With("FAILURE")
        /\ k \notin With("SKIPPED") /\ k \notin With("INCOMPLETE")
    BY <1>5, <1>6, <1>7 DEF Bad
  <2> QED
    BY <1>9, <2>1 DEF With, Statuses
<1>11. HasWarnings => With("PASS") # DOMAIN results
  BY <1>7 DEF With
<1>12. Headline = IF HasFailures THEN "FAILED!" ELSE IF HasWarnings THEN "OK, but" ELSE "OK!"
  BY DEF Headline
<1>13. ASSUME NEW i \in Told("headline")
       PROVE  CASE printed[i].text = "FAILED!" -> exitCode = "2"
                [] printed[i].text = "OK!" -> With("PASS") = DOMAIN tests
                [] OTHER -> exitCode = "0" /\ With("PASS") # DOMAIN tests
  <2>1. printed[i].text = Headline
    BY <1>1, <1>2 DEF Counted
  <2>2. CASE HasFailures
    <3>1. printed[i].text = "FAILED!" /\ exitCode = "2"
      BY <1>1, <1>5, <1>12, <2>1, <2>2
    <3> QED
      BY <3>1
  <2>3. CASE ~HasFailures /\ HasWarnings
    <3>1. printed[i].text = "OK, but" /\ exitCode = "0" /\ With("PASS") # DOMAIN tests
      BY <1>1, <1>5, <1>8, <1>11, <1>12, <2>1, <2>3
    <3> QED
      BY <3>1
  <2>4. CASE ~HasFailures /\ ~HasWarnings
    <3>1. printed[i].text = "OK!" /\ With("PASS") = DOMAIN tests
      BY <1>8, <1>10, <1>12, <2>1, <2>4
    <3> QED
      BY <3>1
  <2> QED
    BY <2>2, <2>3, <2>4
<1> QED
  BY <1>1, <1>4, <1>6, <1>13

LEMMA InitReports == Init => DetailInv /\ MarksInv /\ ListsInv /\ CountedInv /\ SummaryInv
  BY InitDetail, InitMarks, InitLists, InitCounted, InitSummary

\* The report leaves nobody out, for every file tree, all arguments, tests of any
\* kind and number and lines of any length: every test is told once and in order,
\* under the one header of its suite or with its mark; each list has all its tests
\* with their numbers; the summary is told when it is asked for; and its counts and
\* headline and the exit code say what the results say (test_iterator_visit, show-result.c, run_suites and main).
THEOREM ReportWhole == Spec => []ReportIsWhole
<1>1. SearchInv /\ ReadInv /\ ToldInv /\ CountsInv /\ SuitesInv /\ DoneInv /\ DetailInv /\ MarksInv
        /\ ListsInv /\ CountedInv /\ SummaryInv => ReportIsWhole
  <2> SUFFICES ASSUME SearchInv, ReadInv, ToldInv, CountsInv, SuitesInv, DoneInv, DetailInv, MarksInv,
                      ListsInv, CountedInv, SummaryInv, at = "tests", exitCode \in {"0", "2"}
               PROVE  /\ \A k \in DOMAIN sources : TestsAreOf(k)
                      /\ Len(results) = Len(tests)
                      /\ mode = "detail" => ToldInOrder("test") /\ SuitesAreGrouped
                      /\ mode = "passthrough" => ToldInOrder("mark") /\ ListsAreWhole
                      /\ SummaryIsThere
                      /\ \A i \in Told("count") : printed[i].n = Cardinality(With(printed[i].text))
                      /\ \A i \in Told("headline") :
                           CASE printed[i].text = "FAILED!" -> exitCode = "2"
                             [] printed[i].text = "OK!" -> With("PASS") = DOMAIN tests
                             [] OTHER -> exitCode = "0" /\ With("PASS") # DOMAIN tests
                      /\ exitCode = "2" <=> \E s \in Bad : With(s) # {}
    BY DEF ReportIsWhole
  <2>1. Live /\ stage = "over" /\ Len(results) = Len(tests) /\ IsSeq(results)
    BY DEF Live, DoneInv, ToldInv, ResultsInv
  <2>2. \A k \in DOMAIN sources : TestsAreOf(k)
    BY TestsAreBlocks DEF SearchInv, PathsInv
  <2>3. mode = "detail" => ToldInOrder("test") /\ SuitesAreGrouped
    BY <2>1, OrderIsTold, HeadersAreTold DEF DetailInv
  <2>4. mode = "passthrough" => ToldInOrder("mark") /\ ListsAreWhole
    BY <2>1, OrderIsTold, ListsAreTold DEF MarksInv
  <2>5. /\ \A i \in Told("count") : printed[i].n = Cardinality(With(printed[i].text))
        /\ \A i \in Told("headline") :
             CASE printed[i].text = "FAILED!" -> exitCode = "2"
               [] printed[i].text = "OK!" -> With("PASS") = DOMAIN tests
               [] OTHER -> exitCode = "0" /\ With("PASS") # DOMAIN tests
        /\ exitCode = "2" <=> \E s \in Bad : With(s) # {}
    BY CountsAreTold
  <2>6. SummaryIsThere
    BY <2>1 DEF SummaryInv
  <2> QED
    BY <2>1, <2>2, <2>3, <2>4, <2>5, <2>6
<1>2. Init => ReadInv /\ ResultsInv
  BY InitTold DEF ToldInv
<1>3. ToldInv => ResultsInv /\ ReadInv
  BY DEF ToldInv
<1> QED
  BY <1>1, <1>2, <1>3, InitTold, NextTold, InitCache, NextCache, InitSearch, NextSearch, InitSuites, NextSuites,
     InitCounts, NextCounts, InitMain, NextMain, InitDone, NextDone, InitReports, NextDetail, NextMarks,
     NextLists, NextCounted, NextSummary, PTL DEF Spec

\* Lines of marks are full but the last, and each tells the share of the tests that
\* are done, for lines of any length and any number of tests: the last one, and
\* only that, tells 100% (test_iterator_visit_show_passthrough_result).
THEOREM ProgressTold == Spec => []ProgressReaches100
<1>1. ToldInv /\ CountsInv /\ DoneInv /\ MarksInv => ProgressReaches100
  <2> DEFINE T == Len(tests)
             marks(i) == Cardinality({j \in Told("mark") : j < i})
             endsLine(m) == m = T \/ m % PerLine = 0
  <2> SUFFICES ASSUME ToldInv, CountsInv, DoneInv, MarksInv,
                      mode = "passthrough", Len(results) = T, stage # "tests"
               PROVE  /\ \A i \in Told("percent") :
                           /\ marks(i) \in 1..T /\ endsLine(marks(i))
                           /\ printed[i].n = (marks(i) * 100) \div T
                           /\ printed[i].n = 100 <=> marks(i) = T
                      /\ \A m \in 1..T : endsLine(m) => \E i \in Told("percent") : marks(i) = m
                      /\ \A i, j \in Told("percent") : marks(i) = marks(j) => i = j
    BY DEF ProgressReaches100
  <2> HIDE DEF T, marks, endsLine
  <2>1. Live /\ T \in Nat \ {0}
    <3>1. Live /\ tests # <<>> /\ IsSeq(tests)
      BY DEF CountsInv, DoneInv, Live, ToldInv, ResultsInv
    <3>2. tests \in Seq({tests[k] : k \in DOMAIN tests})
      BY <3>1 DEF IsSeq
    <3> QED
      BY <3>1, <3>2, EmptySeq, LenProperties DEF T
  <2>2. SharesAt(printed, Full(T) \cup {T}, T)
    BY <2>1 DEF MarksInv, T
  <2>3. \A i : Cardinality(Marks(printed, i)) = marks(i)
    BY WhereIs DEF Marks, marks
  <2>4. \A m : m \in Full(T) \cup {T} <=> m \in 1..T /\ endsLine(m)
    <3>1. T \in 1..T
      BY <2>1
    <3> QED
      BY <3>1 DEF Full, endsLine
  <2>5. Told("percent") = Where(printed, "percent")
    BY WhereIs
  <2>6. ASSUME NEW i \in Told("percent")
        PROVE  /\ marks(i) \in 1..T /\ endsLine(marks(i))
               /\ printed[i].n = (marks(i) * 100) \div T
               /\ printed[i].n = 100 <=> marks(i) = T
    <3>1. marks(i) \in 1..T /\ endsLine(marks(i)) /\ printed[i].n = (marks(i) * 100) \div T
      BY <2>2, <2>3, <2>4, <2>5 DEF SharesAt
    <3>2. (T * 100) \div T = 100 /\ \A m \in 0..(T - 1) : (m * 100) \div T < 100
      BY <2>1, AllAreDone
    <3>3. marks(i) # T => marks(i) \in 0..(T - 1)
      BY <2>1, <3>1
    <3>4. marks(i) # T => printed[i].n < 100
      BY <3>1, <3>2, <3>3
    <3>5. marks(i) = T => printed[i].n = 100
      BY <3>1, <3>2
    <3> QED
      BY <3>1, <3>4, <3>5
  <2>7. \A m \in 1..T : endsLine(m) => \E i \in Told("percent") : marks(i) = m
    BY <2>2, <2>3, <2>4, <2>5 DEF SharesAt
  <2>8. \A i, j \in Told("percent") : marks(i) = marks(j) => i = j
    BY <2>2, <2>3, <2>5 DEF SharesAt
  <2> QED
    BY <2>6, <2>7, <2>8
<1>2. Init => ReadInv /\ ResultsInv
  BY InitTold DEF ToldInv
<1>3. ToldInv => ResultsInv /\ ReadInv
  BY DEF ToldInv
<1> QED
  BY <1>1, <1>2, <1>3, InitTold, NextTold, InitCounts, NextCounts, InitSearch, NextSearch,
     InitMain, NextMain, InitDone, NextDone, InitReports, NextMarks, PTL DEF Spec
=============================================================================
