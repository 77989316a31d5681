------------------------ MODULE SuiteCompilerProofs ------------------------
(***************************************************************************)
(* A test that is compiled can be run and means what is written, for tests *)
(* of any number of requirements in any order; and the cache gives back    *)
(* what was compiled, or tells that it cannot, for suites of any number of *)
(* tests.                                                                  *)
(*                                                                         *)
(* The argument for the compiler: what the record says after some          *)
(* requirements is what these mean.  Of the inputs and of the programs     *)
(* that is the last one, of the expectations for a stream the first that   *)
(* has a content; the next requirement makes itself the last, and leaves   *)
(* the first what it is.                                                   *)
(*                                                                         *)
(* The argument for the store: data is parts, one after the other.  A part *)
(* that is whole is read as what was written, and the reader is then at    *)
(* the next.  A cut leaves the parts before it whole.  What it leaves of   *)
(* its own part reads as no text, and what is left over then is nothing or *)
(* characters; those are no text either, and no numbers of a test.         *)
(***************************************************************************)
EXTENDS SuiteStore, FiniteSetTheorems, SequenceTheorems, TLAPS

-----------------------------------------------------------------------------
(* The last and the first of some positions.                               *)

IsLast(i, S)  == i \in S /\ \A k \in S : k <= i
IsFirst(i, S) == i \in S /\ \A k \in S : i <= k

LEMMA LastExists ==
  ASSUME NEW n \in Nat, NEW S \in SUBSET (1..n), S # {}
  PROVE  \E i \in S : IsLast(i, S)
<1> DEFINE Above(i) == {k \in S : k > i}
           T == {Above(i) : i \in S}
<1>1. IsFiniteSet(S)
  <2>1. IsFiniteSet(1..n)
    BY FS_Interval
  <2> QED
    BY <2>1, FS_Subset
<1>2. T \subseteq FiniteSubsetsOf(S) /\ T # {}
  <2>1. \A i \in S : Above(i) \in SUBSET S /\ IsFiniteSet(Above(i))
    BY <1>1, FS_Subset
  <2> QED
    BY <2>1 DEF FiniteSubsetsOf
<1>3. IsWellFoundedOn(StrictSubsetOrdering(S), FiniteSubsetsOf(S))
  BY FS_StrictSubsetOrderingWellFounded
<1>4. PICK t \in T : \A u \in T : <<u, t>> \notin StrictSubsetOrdering(S)
  <2> HIDE DEF T
  <2> QED
    BY <1>2, <1>3, WFMin, Zenon
<1>5. PICK i \in S : t = Above(i)
  BY <1>4
<1>6. \A k \in S : k <= i
  <2> SUFFICES ASSUME NEW k \in S, k > i PROVE FALSE
    OBVIOUS
  <2>0. \A j \in S : j \in Int
    OBVIOUS
  <2>1. k \in Above(i) /\ k \notin Above(k)
    BY <2>0
  <2>2. Above(k) \subseteq Above(i)
    <3>1. \A x \in S : x > k => x > i
      BY <2>0
    <3> QED
      BY <3>1
  <2>3. <<Above(k), t>> \in StrictSubsetOrdering(S)
    BY <1>5, <2>1, <2>2 DEF StrictSubsetOrdering
  <2> QED
    BY <2>3, <1>4
<1> QED
  BY <1>6 DEF IsLast

LEMMA LastIsChosen ==
  ASSUME NEW S \in SUBSET Int, NEW i, IsLast(i, S)
  PROVE  (CHOOSE j \in S : \A k \in S : k <= j) = i
<1> DEFINE c == CHOOSE j \in S : \A k \in S : k <= j
<1>1. c \in S /\ \A k \in S : k <= c
  BY Zenon DEF IsLast
<1> HIDE DEF c
<1>2. c <= i /\ i <= c /\ c \in Int /\ i \in Int
  BY <1>1 DEF IsLast
<1>3. c = i
  BY <1>2
<1> QED
  BY <1>3 DEF c

LEMMA FirstIsChosen ==
  ASSUME NEW S \in SUBSET Int, NEW i, IsFirst(i, S)
  PROVE  (CHOOSE j \in S : \A k \in S : j <= k) = i
<1> DEFINE c == CHOOSE j \in S : \A k \in S : j <= k
<1>1. c \in S /\ \A k \in S : c <= k
  BY Zenon DEF IsFirst
<1> HIDE DEF c
<1>2. c <= i /\ i <= c /\ c \in Int /\ i \in Int
  BY <1>1 DEF IsFirst
<1>3. c = i
  BY <1>2
<1> QED
  BY <1>3 DEF c

\* A position behind all others is the last, and not the first.
LEMMA Behind ==
  ASSUME NEW S \in SUBSET Int, NEW n \in Int, \A k \in S : k < n
  PROVE  /\ IsLast(n, S \cup {n})
         /\ S = {} => IsFirst(n, S \cup {n})
         /\ \A i : IsFirst(i, S) => IsFirst(i, S \cup {n})
<1>1. IsLast(n, S \cup {n})
  BY DEF IsLast
<1>2. S = {} => IsFirst(n, S \cup {n})
  BY DEF IsFirst
<1>3. ASSUME NEW i, IsFirst(i, S)
      PROVE  IsFirst(i, S \cup {n})
  <2>1. i \in S /\ i \in Int /\ i < n
    BY <1>3 DEF IsFirst
  <2>2. i <= n
    BY <2>1
  <2> QED
    BY <1>3, <2>1, <2>2 DEF IsFirst
<1> QED
  BY <1>1, <1>2, <1>3
-----------------------------------------------------------------------------
(* Types.                                                                  *)

\* The value of an argument is a text, or there is none.
LEMMA ValueType ==
  ASSUME NEW arguments \in Seq(Arguments), NEW names
  PROVE  Value(arguments, names) \in OrNull(Texts)
<1> DEFINE I == {i \in DOMAIN arguments : arguments[i].name \in names}
<1>1. CASE I = {}
  BY <1>1 DEF Value, OrNull
<1>2. CASE I # {}
  <2>1. Len(arguments) \in Nat /\ I \in SUBSET (1..Len(arguments))
    OBVIOUS
  <2>2. PICK i \in I : IsLast(i, I)
    BY <1>2, <2>1, LastExists
  <2>3. (CHOOSE j \in I : \A k \in I : k <= j) = i
    <3>1. I \in SUBSET Int
      BY <2>1
    <3> HIDE DEF I
    <3> QED
      BY <3>1, <2>2, LastIsChosen
  <2>4. Value(arguments, names) = arguments[i].value
    BY <1>2, <2>3 DEF Value
  <2>5. arguments[i] \in Arguments
    BY <2>1, <2>2
  <2> QED
    BY <2>4, <2>5 DEF Arguments, OrNull
<1> QED
  BY <1>1, <1>2

GivenTypes == {"none", "file", "reference", "stdin"}

\* What the compiler makes of a test.
Records ==
  [name : OrNull(Texts), givenType : GivenTypes,
   givenFilename : OrNull(Texts), givenContent : OrNull(Texts),
   givenPath : OrNull(Texts), program : OrNull(Texts), args : OrNull(Texts),
   stdout : OrNull(Texts), stderr : OrNull(Texts), flags : SUBSET Flags]

\* A list of requirements, and the one at a position.
LEMMA AstType ==
  ASSUME TypeOK
  PROVE  /\ ast.arguments \in Seq(Arguments)
         /\ ast.requirements \in Seq(Requirements)
         /\ Len(ast.requirements) \in Nat /\ at \in Nat \ {0}
<1>1. ast \in AstTests
  BY ParsedAssumption DEF TypeOK
<1>2. ast.arguments \in Seq(Arguments) /\ ast.requirements \in Seq(Requirements)
  BY <1>1 DEF AstTests
<1> QED
  BY <1>2 DEF TypeOK

LEMMA PositionType == TypeOK => at \in Int
  BY AstType

LEMMA RequirementType ==
  ASSUME TypeOK, at <= Len(ast.requirements)
  PROVE  /\ Requirement \in Requirements
         /\ Requirement.arguments \in Seq(Arguments)
         /\ Requirement.content \in OrNull(Texts)
         /\ \A names : Arg(names) \in OrNull(Texts)
<1>1. Requirement \in Requirements
  BY AstType DEF Requirement
<1>2. Requirement.arguments \in Seq(Arguments) /\ Requirement.content \in OrNull(Texts)
  BY <1>1 DEF Requirements, OrNull
<1> QED
  BY <1>1, <1>2, ValueType DEF Arg
-----------------------------------------------------------------------------
(* What the record says after the requirements before at.                  *)

Before(name) == {i \in Of(name) : i < at}

ContentsBefore(s) ==
  {i \in Before("expectOutput") : /\ ast.requirements[i].arguments[1].value = s
                                  /\ ast.requirements[i].content # NULL}

InputOf(g) ==
  [type |-> Value(g.arguments, {Unnamed, "type"}),
   filename |-> Value(g.arguments, {"filename"}),
   content |-> g.content,
   path |-> Value(g.arguments, {"path"})]

\* The input is that of the last @given, and one the runner can use.
GivenInv ==
  /\ Before("given") = {} => test.givenType = "none" /\ "HAS_GIVEN" \notin test.flags
  /\ Before("given") # {} =>
       /\ "HAS_GIVEN" \in test.flags
       /\ \E i \in Before("given") :
            /\ IsLast(i, Before("given"))
            /\ InputUsed(test) = InputOf(ast.requirements[i])
  /\ test.givenType = "reference" => test.givenPath \notin {NULL, ""}
  /\ test.givenType = "file" => test.givenFilename \notin {""} \cup Slashed

\* The program is that of the last @whenRun.
WhenInv ==
  /\ Before("whenRun") # {} =>
       /\ "HAS_WHEN" \in test.flags
       /\ test.program \notin {NULL, ""}
       /\ \E i \in Before("whenRun") :
            /\ IsLast(i, Before("whenRun"))
            /\ test.program = Value(ast.requirements[i].arguments, {Unnamed, "program"})
            /\ test.args = Value(ast.requirements[i].arguments, {"args"})
  /\ test.args # ""

\* What is expected of a stream is the first content that was given for it.
StreamInv(s) ==
  /\ ContentsBefore(s) = {} => test[s] = NULL
  /\ ContentsBefore(s) # {} =>
       \E i \in ContentsBefore(s) :
         /\ IsFirst(i, ContentsBefore(s))
         /\ test[s] = ast.requirements[i].content

FlagsInv ==
  /\ "HAS_THEN" \in test.flags <=> Before("expectOutput") # {}
  /\ "SKIPPED" \in test.flags <=> Before("shouldBeSkipped") # {}

Streams == {"stdout", "stderr"}

Meaning ==
  /\ test.name \notin {NULL, ""} /\ HasCompiler
  /\ GivenInv /\ WhenInv /\ (\A s \in Streams : StreamInv(s)) /\ FlagsInv

Incomplete == Before("given") = {} \/ Before("expectOutput") = {}

CompilerInv ==
  /\ TypeOK
  /\ pc = "arguments" => test = EmptyTest /\ at = 1
  /\ pc \in {"requirements", "compiled"} => Meaning
  /\ pc = "requirements" => "INCOMPLETE" \notin test.flags
  /\ pc = "compiled" =>
       /\ at = Len(ast.requirements) + 1
       /\ ~FilePlaceholderRejected
       /\ "INCOMPLETE" \in test.flags <=> Incomplete
-----------------------------------------------------------------------------
(* What one more requirement does to these sets.                           *)

\* The requirement at is compiled, and the record is t.
Step(t) ==
  /\ pc = "requirements" /\ at <= Len(ast.requirements)
  /\ Compiled(t)

LEMMA BeforeGrows ==
  ASSUME TypeOK, NEW t, Step(t), NEW name
  PROVE  /\ Requirement.name = name => Before(name)' = Before(name) \cup {at}
         /\ Requirement.name # name => Before(name)' = Before(name)
         /\ Before(name) \in SUBSET Int /\ \A k \in Before(name) : k < at
<1>1. ast' = ast /\ at' = at + 1 /\ at \in Nat \ {0} /\ at <= Len(ast.requirements)
  BY AstType DEF Step, Compiled
<1>2. DOMAIN ast.requirements = 1..Len(ast.requirements) /\ Len(ast.requirements) \in Nat
  BY AstType
<1>3. Of(name)' = Of(name) /\ Of(name) \subseteq 1..Len(ast.requirements)
  BY <1>1, <1>2 DEF Of
<1>4. Before(name)' = {i \in Of(name) : i < at + 1}
  BY <1>1, <1>3 DEF Before
<1>5. at \in Of(name) <=> Requirement.name = name
  BY <1>1, <1>2 DEF Of, Requirement
<1>6. \A i \in Of(name) : i \in Int /\ (i < at + 1 <=> i < at \/ i = at)
  BY <1>1, <1>3
<1>7. Before(name)' = {i \in Of(name) : i < at \/ i = at}
  BY <1>4, <1>6
<1> QED
  BY <1>1, <1>5, <1>6, <1>7 DEF Before

LEMMA ContentsGrow ==
  ASSUME TypeOK, NEW t, Step(t), NEW s
  PROVE  /\ ContentsBefore(s)' =
              IF /\ Requirement.name = "expectOutput"
                 /\ Requirement.arguments[1].value = s /\ Requirement.content # NULL
              THEN ContentsBefore(s) \cup {at} ELSE ContentsBefore(s)
         /\ ContentsBefore(s) \in SUBSET Int /\ \A k \in ContentsBefore(s) : k < at
<1>1. ast' = ast
  BY DEF Step, Compiled
<1> DEFINE E == Before("expectOutput")
           P(i) == /\ ast.requirements[i].arguments[1].value = s
                   /\ ast.requirements[i].content # NULL
<1>2. /\ Requirement.name = "expectOutput" => E' = E \cup {at}
      /\ Requirement.name # "expectOutput" => E' = E
      /\ E \in SUBSET Int /\ \A k \in E : k < at
  BY BeforeGrows
<1>3. ContentsBefore(s)' = {i \in E' : P(i)} /\ ContentsBefore(s) = {i \in E : P(i)}
  BY <1>1 DEF ContentsBefore
<1>4. P(at) <=> Requirement.arguments[1].value = s /\ Requirement.content # NULL
  BY DEF Requirement
<1> HIDE DEF E, P
<1>5. ContentsBefore(s) \in SUBSET Int /\ \A k \in ContentsBefore(s) : k < at
  BY <1>2, <1>3
<1>6. CASE Requirement.name = "expectOutput"
  <2>1. CASE P(at)
    <3>1. ContentsBefore(s)' = ContentsBefore(s) \cup {at}
      BY <1>2, <1>3, <1>6, <2>1
    <3> QED
      BY <3>1, <2>1, <1>4, <1>5, <1>6
  <2>2. CASE ~P(at)
    <3>1. ContentsBefore(s)' = ContentsBefore(s)
      BY <1>2, <1>3, <1>6, <2>2
    <3> QED
      BY <3>1, <2>2, <1>4, <1>5, <1>6
  <2> QED
    BY <2>1, <2>2
<1>7. CASE Requirement.name # "expectOutput"
  <2>1. ContentsBefore(s)' = ContentsBefore(s)
    BY <1>2, <1>3, <1>7
  <2> QED
    BY <2>1, <1>5, <1>7
<1> QED
  BY <1>6, <1>7
-----------------------------------------------------------------------------
(* What a requirement of another kind leaves alone.                        *)

LEMMA GivenKept ==
  ASSUME TypeOK, NEW t, Step(t), GivenInv, Requirement.name # "given",
         t.givenType = test.givenType, t.givenFilename = test.givenFilename,
         t.givenContent = test.givenContent, t.givenPath = test.givenPath,
         "HAS_GIVEN" \in t.flags <=> "HAS_GIVEN" \in test.flags
  PROVE  GivenInv'
<1>1. ast' = ast /\ test' = t
  BY DEF Step, Compiled
<1>2. Before("given")' = Before("given")
  BY BeforeGrows
<1>3. InputUsed(test') = InputUsed(test)
  BY <1>1 DEF InputUsed
<1> QED
  BY <1>1, <1>2, <1>3 DEF GivenInv

LEMMA WhenKept ==
  ASSUME TypeOK, NEW t, Step(t), WhenInv, Requirement.name # "whenRun",
         t.program = test.program, t.args = test.args,
         "HAS_WHEN" \in t.flags <=> "HAS_WHEN" \in test.flags
  PROVE  WhenInv'
<1>1. ast' = ast /\ test' = t
  BY DEF Step, Compiled
<1>2. Before("whenRun")' = Before("whenRun")
  BY BeforeGrows
<1> QED
  BY <1>1, <1>2 DEF WhenInv

LEMMA StreamKept ==
  ASSUME TypeOK, NEW t, Step(t), NEW s, StreamInv(s), t[s] = test[s],
         ContentsBefore(s)' = ContentsBefore(s)
  PROVE  StreamInv(s)'
<1>1. ast' = ast /\ test' = t
  BY DEF Step, Compiled
<1> QED
  BY <1>1 DEF StreamInv

LEMMA FlagsKept ==
  ASSUME TypeOK, NEW t, Step(t), FlagsInv,
         Requirement.name \notin {"expectOutput", "shouldBeSkipped"},
         "HAS_THEN" \in t.flags <=> "HAS_THEN" \in test.flags,
         "SKIPPED" \in t.flags <=> "SKIPPED" \in test.flags
  PROVE  FlagsInv'
<1>1. test' = t
  BY DEF Step, Compiled
<1>2. /\ Before("expectOutput")' = Before("expectOutput")
      /\ Before("shouldBeSkipped")' = Before("shouldBeSkipped")
  BY BeforeGrows
<1> QED
  BY <1>1, <1>2 DEF FlagsInv

\* A requirement that is compiled keeps the invariant when the meaning is kept.
LEMMA StepKeeps ==
  ASSUME CompilerInv, NEW t, Step(t), t \in Records,
         t.name = test.name, "INCOMPLETE" \in t.flags <=> "INCOMPLETE" \in test.flags,
         (GivenInv /\ WhenInv /\ (\A s \in Streams : StreamInv(s)) /\ FlagsInv)'
  PROVE  CompilerInv'
<1>1. ast' = ast /\ test' = t /\ at' = at + 1 /\ pc' = pc /\ pc = "requirements"
  BY DEF Step, Compiled
<1>2. TypeOK /\ Meaning /\ "INCOMPLETE" \notin test.flags
  BY <1>1 DEF CompilerInv
<1>3. TypeOK'
  <2>1. at' \in 1..(Len(ast.requirements) + 1)
    BY <1>1, <1>2, AstType DEF Step
  <2> QED
    BY <1>1, <1>2, <2>1 DEF TypeOK, Records, GivenTypes
<1>4. Meaning'
  <2>1. HasCompiler' /\ t.name \notin {NULL, ""}
    BY <1>1, <1>2 DEF Meaning, HasCompiler
  <2> QED
    BY <1>1, <2>1 DEF Meaning
<1> QED
  BY <1>1, <1>2, <1>3, <1>4 DEF CompilerInv
-----------------------------------------------------------------------------
(* @given                                                                  *)

\* The record becomes t, whose input is that of this requirement.
LEMMA GivenStep ==
  ASSUME CompilerInv, NEW t, Step(t), Requirement.name = "given", t \in Records,
         t.name = test.name, t.program = test.program, t.args = test.args,
         t.stdout = test.stdout, t.stderr = test.stderr,
         t.flags = test.flags \cup {"HAS_GIVEN"},
         InputUsed(t) = InputOf(Requirement),
         t.givenType = "reference" => t.givenPath \notin {NULL, ""},
         t.givenType = "file" => t.givenFilename \notin {""} \cup Slashed
  PROVE  CompilerInv'
<1>1. ast' = ast /\ test' = t /\ pc = "requirements"
  BY DEF Step, Compiled
<1>2. TypeOK /\ GivenInv /\ WhenInv /\ (\A s \in Streams : StreamInv(s)) /\ FlagsInv
  BY <1>1 DEF CompilerInv, Meaning
<1>3. GivenInv'
  <2>1. /\ Before("given")' = Before("given") \cup {at}
        /\ Before("given") \in SUBSET Int /\ \A k \in Before("given") : k < at
    BY <1>2, BeforeGrows
  <2>0. at \in Int
    BY <1>2, PositionType, Zenon
  <2>2. IsLast(at, Before("given") \cup {at})
    BY <2>0, <2>1, Behind
  <2>3. InputUsed(test') = InputOf(ast'.requirements[at])
    BY <1>1 DEF Requirement
  <2>4. "HAS_GIVEN" \in t.flags
    OBVIOUS
  <2> QED
    BY <1>1, <2>1, <2>2, <2>3, <2>4 DEF GivenInv
<1>4. WhenInv'
  BY <1>2, WhenKept
<1>5. ASSUME NEW s \in Streams PROVE StreamInv(s)'
  <2>1. ContentsBefore(s)' = ContentsBefore(s)
    BY <1>2, ContentsGrow
  <2>2. t[s] = test[s]
    BY DEF Streams
  <2> QED
    BY <1>2, <2>1, <2>2, StreamKept
<1>6. FlagsInv'
  BY <1>2, FlagsKept
<1>7. (\A s \in Streams : StreamInv(s))'
  BY <1>5 DEF Streams
<1> QED
  BY <1>3, <1>4, <1>6, <1>7, StepKeeps

LEMMA CompileGivenKeeps ==
  ASSUME CompilerInv, CompileGiven
  PROVE  CompilerInv'
<1>1. /\ pc = "requirements" /\ at <= Len(ast.requirements)
      /\ Requirement.name = "given" /\ ~GivenRejected
  BY DEF CompileGiven, At, Requirement
<1>2. TypeOK
  BY DEF CompilerInv
<1>3. /\ Requirement.content \in OrNull(Texts)
      /\ Arg({"filename"}) \in OrNull(Texts) /\ Arg({"path"}) \in OrNull(Texts)
  BY <1>1, <1>2, RequirementType
<1>4. /\ GivenType \in {"none", "reference"} => Requirement.content = NULL
      /\ GivenType # "file" => Arg({"filename"}) = NULL
      /\ GivenType # "reference" => Arg({"path"}) = NULL
      /\ GivenType = "reference" => Arg({"path"}) \notin {NULL, ""}
      /\ GivenType = "file" => Arg({"filename"}) \notin {""} \cup Slashed
  BY <1>1 DEF GivenRejected
<1>5. test \in Records
  BY <1>2 DEF TypeOK, Records, GivenTypes
<1> DEFINE u == [test EXCEPT !.flags = @ \cup {"HAS_GIVEN"}]
<1>6. u \in Records
  BY <1>5 DEF Records, GivenTypes, Flags, CompleteMask
<1>7. /\ u.name = test.name /\ u.program = test.program /\ u.args = test.args
      /\ u.stdout = test.stdout /\ u.stderr = test.stderr
      /\ u.flags = test.flags \cup {"HAS_GIVEN"}
  BY <1>5 DEF Records, GivenTypes
<1>8. \/ GivenType = "none" /\ Compiled(GivenNone(u))
      \/ GivenType = "reference" /\ Compiled(GivenReference(u))
      \/ GivenType = "stdin" /\ Compiled(GivenStdin(u))
      \/ GivenType = "file" /\ Compiled(GivenFile(u))
  BY Zenon DEF CompileGiven
<1>9. InputOf(Requirement) = [type |-> GivenType, filename |-> Arg({"filename"}),
                              content |-> Requirement.content, path |-> Arg({"path"})]
  BY DEF InputOf, GivenType, Arg
<1> HIDE DEF u
<1>10. CASE GivenType = "none" /\ Compiled(GivenNone(u))
  <2> DEFINE t == GivenNone(u)
  <2>1. t \in Records /\ t.givenType = "none"
    BY <1>6 DEF GivenNone, Records, GivenTypes
  <2>2. /\ t.name = u.name /\ t.program = u.program /\ t.args = u.args
        /\ t.stdout = u.stdout /\ t.stderr = u.stderr /\ t.flags = u.flags
    BY <1>6 DEF GivenNone, Records, GivenTypes
  <2>3. Step(t)
    BY <1>1, <1>10 DEF Step
  <2> HIDE DEF t
  <2>4. InputUsed(t) = InputOf(Requirement)
    BY <2>1, <1>4, <1>9, <1>10 DEF InputUsed
  <2> QED
    BY <1>1, <1>7, <2>1, <2>2, <2>3, <2>4, GivenStep
<1>11. CASE GivenType = "reference" /\ Compiled(GivenReference(u))
  <2> DEFINE t == GivenReference(u)
  <2>1. t \in Records /\ t.givenType = "reference" /\ t.givenPath = Arg({"path"})
    BY <1>6, <1>3 DEF GivenReference, Records, GivenTypes
  <2>2. /\ t.name = u.name /\ t.program = u.program /\ t.args = u.args
        /\ t.stdout = u.stdout /\ t.stderr = u.stderr /\ t.flags = u.flags
    BY <1>6 DEF GivenReference, Records, GivenTypes
  <2>3. Step(t)
    BY <1>1, <1>11 DEF Step
  <2> HIDE DEF t
  <2>4. InputUsed(t) = InputOf(Requirement)
    BY <2>1, <1>4, <1>9, <1>11 DEF InputUsed
  <2>5. t.givenPath \notin {NULL, ""}
    BY <2>1, <1>4, <1>11
  <2> QED
    BY <1>1, <1>7, <2>1, <2>2, <2>3, <2>4, <2>5, GivenStep
<1>12. CASE GivenType = "stdin" /\ Compiled(GivenStdin(u))
  <2> DEFINE t == GivenStdin(u)
  <2>1. t \in Records /\ t.givenType = "stdin" /\ t.givenContent = Requirement.content
    BY <1>6, <1>3 DEF GivenStdin, Records, GivenTypes
  <2>2. /\ t.name = u.name /\ t.program = u.program /\ t.args = u.args
        /\ t.stdout = u.stdout /\ t.stderr = u.stderr /\ t.flags = u.flags
    BY <1>6 DEF GivenStdin, Records, GivenTypes
  <2>3. Step(t)
    BY <1>1, <1>12 DEF Step
  <2> HIDE DEF t
  <2>4. InputUsed(t) = InputOf(Requirement)
    BY <2>1, <1>4, <1>9, <1>12 DEF InputUsed
  <2> QED
    BY <1>1, <1>7, <2>1, <2>2, <2>3, <2>4, GivenStep
<1>13. CASE GivenType = "file" /\ Compiled(GivenFile(u))
  <2> DEFINE t == GivenFile(u)
  <2>1. /\ t \in Records /\ t.givenType = "file"
        /\ t.givenFilename = Arg({"filename"}) /\ t.givenContent = Requirement.content
    BY <1>6, <1>3 DEF GivenFile, Records, GivenTypes
  <2>2. /\ t.name = u.name /\ t.program = u.program /\ t.args = u.args
        /\ t.stdout = u.stdout /\ t.stderr = u.stderr /\ t.flags = u.flags
    BY <1>6 DEF GivenFile, Records, GivenTypes
  <2>3. Step(t)
    BY <1>1, <1>13 DEF Step
  <2> HIDE DEF t
  <2>4. InputUsed(t) = InputOf(Requirement)
    BY <2>1, <1>4, <1>9, <1>13 DEF InputUsed
  <2>5. t.givenFilename \notin {""} \cup Slashed
    BY <2>1, <1>4, <1>13
  <2> QED
    BY <1>1, <1>7, <2>1, <2>2, <2>3, <2>4, <2>5, GivenStep
<1> QED
  BY <1>8, <1>10, <1>11, <1>12, <1>13
-----------------------------------------------------------------------------
(* @whenRun                                                                *)

LEMMA CompileWhenRunKeeps ==
  ASSUME CompilerInv, CompileWhenRun
  PROVE  CompilerInv'
<1> DEFINE t == [test EXCEPT !.program = Program, !.args = Arg({"args"}),
                             !.flags = @ \cup {"HAS_WHEN"}]
<1>1. /\ pc = "requirements" /\ at <= Len(ast.requirements)
      /\ Requirement.name = "whenRun" /\ ~WhenRunRejected
      /\ Compiled(t)
  BY DEF CompileWhenRun, At, Requirement
<1>2. /\ TypeOK /\ GivenInv /\ WhenInv
      /\ (\A s \in Streams : StreamInv(s)) /\ FlagsInv
  BY <1>1 DEF CompilerInv, Meaning
<1>3. Program \in OrNull(Texts) /\ Arg({"args"}) \in OrNull(Texts)
  BY <1>1, <1>2, RequirementType DEF Program
<1>4. Program \notin {NULL, ""} /\ Arg({"args"}) # ""
  BY <1>1 DEF WhenRunRejected
<1>5. test \in Records
  BY <1>2 DEF TypeOK, Records, GivenTypes
<1>6. t \in Records
  BY <1>3, <1>5 DEF Records, GivenTypes, Flags, CompleteMask
<1>7. /\ t.name = test.name /\ t.givenType = test.givenType
      /\ t.givenFilename = test.givenFilename /\ t.givenContent = test.givenContent
      /\ t.givenPath = test.givenPath /\ t.stdout = test.stdout /\ t.stderr = test.stderr
      /\ t.flags = test.flags \cup {"HAS_WHEN"}
      /\ t.program = Program /\ t.args = Arg({"args"})
  BY <1>5 DEF Records, GivenTypes
<1>8. Step(t)
  BY <1>1 DEF Step
<1> HIDE DEF t
<1>9. ast' = ast /\ test' = t
  BY <1>8 DEF Step, Compiled
<1>10. GivenInv'
  BY <1>1, <1>2, <1>7, <1>8, GivenKept
<1>11. WhenInv'
  <2>1. /\ Before("whenRun")' = Before("whenRun") \cup {at}
        /\ Before("whenRun") \in SUBSET Int /\ \A k \in Before("whenRun") : k < at
    BY <1>1, <1>2, <1>8, BeforeGrows
  <2>2. at \in Int
    BY <1>2, AstType
  <2>3. IsLast(at, Before("whenRun") \cup {at})
    BY <2>1, <2>2, Behind
  <2>4. /\ Program = Value(ast.requirements[at].arguments, {Unnamed, "program"})
        /\ Arg({"args"}) = Value(ast.requirements[at].arguments, {"args"})
    BY DEF Program, Arg, Requirement
  <2>5. "HAS_WHEN" \in t.flags
    BY <1>7
  <2> QED
    BY <1>4, <1>7, <1>9, <2>1, <2>3, <2>4, <2>5 DEF WhenInv
<1>12. ASSUME NEW s \in Streams PROVE StreamInv(s)'
  <2>1. ContentsBefore(s)' = ContentsBefore(s)
    BY <1>1, <1>2, <1>8, ContentsGrow
  <2>2. t[s] = test[s]
    BY <1>7 DEF Streams
  <2> QED
    BY <1>2, <1>8, <2>1, <2>2, StreamKept
<1>13. FlagsInv'
  BY <1>1, <1>2, <1>7, <1>8, FlagsKept
<1>14. (\A s \in Streams : StreamInv(s))'
  BY <1>12 DEF Streams
<1> QED
  BY <1>6, <1>7, <1>8, <1>10, <1>11, <1>13, <1>14, StepKeeps
-----------------------------------------------------------------------------
(* @expectOutput                                                           *)

LEMMA CompileExpectOutputKeeps ==
  ASSUME CompilerInv, CompileExpectOutput
  PROVE  CompilerInv'
<1> DEFINE c == Requirement.content
           u == [test EXCEPT ![Stream] = c, !.flags = @ \cup {"HAS_THEN"}]
           t == IF Duplicate(Stream) THEN test ELSE u
<1>1. /\ pc = "requirements" /\ at <= Len(ast.requirements)
      /\ Requirement.name = "expectOutput" /\ ~StreamRejected
      /\ Compiled(t)
  BY DEF CompileExpectOutput, At, Requirement
<1>2. /\ TypeOK /\ GivenInv /\ WhenInv
      /\ (\A s \in Streams : StreamInv(s)) /\ FlagsInv
  BY <1>1 DEF CompilerInv, Meaning
<1>3. Stream \in Streams
  BY <1>1 DEF StreamRejected, Stream, Streams
<1>4. c \in OrNull(Texts)
  BY <1>1, <1>2, RequirementType
<1>5. test \in Records
  BY <1>2 DEF TypeOK, Records, GivenTypes
<1>6. /\ u \in Records
      /\ u.name = test.name /\ u.givenType = test.givenType
      /\ u.givenFilename = test.givenFilename /\ u.givenContent = test.givenContent
      /\ u.givenPath = test.givenPath /\ u.program = test.program /\ u.args = test.args
      /\ u.flags = test.flags \cup {"HAS_THEN"}
      /\ u[Stream] = c /\ \A s \in Streams : s # Stream => u[s] = test[s]
  <2>1. CASE Stream = "stdout"
    <3>1. u = [test EXCEPT !.stdout = c, !.flags = @ \cup {"HAS_THEN"}]
      BY <2>1
    <3> HIDE DEF c, u
    <3> QED
      BY <1>4, <1>5, <2>1, <3>1 DEF Records, GivenTypes, Flags, CompleteMask, Streams
  <2>2. CASE Stream = "stderr"
    <3>1. u = [test EXCEPT !.stderr = c, !.flags = @ \cup {"HAS_THEN"}]
      BY <2>2
    <3> HIDE DEF c, u
    <3> QED
      BY <1>4, <1>5, <2>2, <3>1 DEF Records, GivenTypes, Flags, CompleteMask, Streams
  <2> QED
    BY <1>3, <2>1, <2>2 DEF Streams
<1>7. Step(t)
  BY <1>1 DEF Step
<1> DEFINE Grows(s) == s = Stream /\ c # NULL
<1>8. /\ \A s : /\ Grows(s) => ContentsBefore(s)' = ContentsBefore(s) \cup {at}
                /\ ~Grows(s) => ContentsBefore(s)' = ContentsBefore(s)
                /\ ContentsBefore(s) \in SUBSET Int /\ \A k \in ContentsBefore(s) : k < at
      /\ at \in Int
  <2>1. at \in Int
    BY <1>2, AstType
  <2>2. ASSUME NEW s
        PROVE  /\ Grows(s) => ContentsBefore(s)' = ContentsBefore(s) \cup {at}
               /\ ~Grows(s) => ContentsBefore(s)' = ContentsBefore(s)
               /\ ContentsBefore(s) \in SUBSET Int /\ \A k \in ContentsBefore(s) : k < at
    <3>1. Grows(s) <=> /\ Requirement.name = "expectOutput"
                       /\ Requirement.arguments[1].value = s /\ Requirement.content # NULL
      BY <1>1 DEF Stream
    <3> HIDE DEF Grows, t
    <3> QED
      BY <1>2, <1>7, <3>1, ContentsGrow
  <2> QED
    BY <2>1, <2>2
<1>9. /\ Before("expectOutput")' = Before("expectOutput") \cup {at}
      /\ Before("shouldBeSkipped")' = Before("shouldBeSkipped")
  BY <1>1, <1>2, <1>7, BeforeGrows
<1>10. t \in Records /\ t.name = test.name
       /\ ("INCOMPLETE" \in t.flags <=> "INCOMPLETE" \in test.flags)
  BY <1>5, <1>6
<1>11. GivenInv'
  <2>1. /\ t.givenType = test.givenType
        /\ t.givenFilename = test.givenFilename /\ t.givenContent = test.givenContent
        /\ t.givenPath = test.givenPath
        /\ ("HAS_GIVEN" \in t.flags <=> "HAS_GIVEN" \in test.flags)
    BY <1>6
  <2> HIDE DEF t
  <2> QED
    BY <1>1, <1>2, <1>7, <2>1, GivenKept
<1>12. WhenInv'
  <2>1. /\ t.program = test.program /\ t.args = test.args
        /\ ("HAS_WHEN" \in t.flags <=> "HAS_WHEN" \in test.flags)
    BY <1>6
  <2> HIDE DEF t
  <2> QED
    BY <1>1, <1>2, <1>7, <2>1, WhenKept
<1>13. ast' = ast /\ test' = t
  BY <1>7 DEF Step, Compiled
<1>14. ASSUME NEW s \in Streams PROVE StreamInv(s)'
  <2>1. CASE t[s] = test[s] /\ ~Grows(s)
    <3> HIDE DEF t, Grows
    <3> QED
      BY <1>2, <1>7, <1>8, <2>1, StreamKept
  <2>2. CASE Duplicate(Stream) /\ Grows(s)
    \* what is there remains, and so does the first content
    <3>1. t = test /\ test[s] # NULL
      BY <2>2 DEF Duplicate
    <3>2. PICK i \in ContentsBefore(s) :
            /\ IsFirst(i, ContentsBefore(s)) /\ test[s] = ast.requirements[i].content
      BY <1>2, <3>1 DEF StreamInv
    <3>3. IsFirst(i, ContentsBefore(s) \cup {at})
      BY <1>8, <3>2, Behind
    <3>4. ContentsBefore(s)' = ContentsBefore(s) \cup {at}
      BY <1>8, <2>2
    <3> HIDE DEF t
    <3> QED
      BY <1>13, <3>1, <3>2, <3>3, <3>4 DEF StreamInv
  <2>3. CASE ~Duplicate(Stream) /\ Grows(s)
    \* this is the first content
    <3>1. t[s] = c /\ test[s] = NULL /\ c # NULL
      BY <1>6, <2>3 DEF Duplicate
    <3>2. ContentsBefore(s) = {}
      <4>1. \A i \in ContentsBefore(s) : ast.requirements[i].content # NULL
        BY DEF ContentsBefore
      <4> HIDE DEF t
      <4> QED
        BY <1>2, <3>1, <4>1 DEF StreamInv
    <3>3. IsFirst(at, ContentsBefore(s) \cup {at})
      BY <1>8, <3>2, Behind
    <3>4. ContentsBefore(s)' = ContentsBefore(s) \cup {at}
      BY <1>8, <2>3
    <3>5. t[s] = ast.requirements[at].content
      BY <3>1 DEF Requirement
    <3> HIDE DEF t
    <3> QED
      BY <1>13, <3>3, <3>4, <3>5 DEF StreamInv
  <2>4. CASE t[s] # test[s] /\ ~Grows(s)
    \* there was no content, and there is none
    <3>1. s = Stream /\ c = NULL /\ ~Duplicate(Stream)
      BY <1>6, <2>4
    <3>2. t[s] = c /\ test[s] = NULL
      BY <1>6, <3>1 DEF Duplicate
    <3> QED
      BY <2>4, <3>1, <3>2
  <2> QED
    BY <2>1, <2>2, <2>3, <2>4
<1>15. FlagsInv'
  <2>1. "HAS_THEN" \in t.flags
    <3>1. CASE Duplicate(Stream)
      <4>1. test[Stream] # NULL
        BY <3>1 DEF Duplicate
      <4>2. ContentsBefore(Stream) # {}
        BY <1>2, <1>3, <4>1 DEF StreamInv
      <4>3. Before("expectOutput") # {}
        BY <4>2 DEF ContentsBefore
      <4> QED
        BY <1>2, <3>1, <4>3 DEF FlagsInv
    <3>2. CASE ~Duplicate(Stream)
      BY <1>6, <3>2
    <3> QED
      BY <3>1, <3>2
  <2>2. "SKIPPED" \in t.flags <=> "SKIPPED" \in test.flags
    BY <1>6
  <2> HIDE DEF t
  <2> QED
    BY <1>2, <1>9, <1>13, <2>1, <2>2 DEF FlagsInv
<1>16. (\A s \in Streams : StreamInv(s))'
  BY <1>14 DEF Streams
<1> HIDE DEF t
<1> QED
  BY <1>7, <1>10, <1>11, <1>12, <1>15, <1>16, StepKeeps
-----------------------------------------------------------------------------
(* The other steps.                                                        *)

LEMMA CompileShouldBeSkippedKeeps ==
  ASSUME CompilerInv, CompileShouldBeSkipped
  PROVE  CompilerInv'
<1> DEFINE t == [test EXCEPT !.flags = @ \cup {"SKIPPED"}]
<1>1. /\ pc = "requirements" /\ at <= Len(ast.requirements)
      /\ Requirement.name = "shouldBeSkipped" /\ Compiled(t)
  BY DEF CompileShouldBeSkipped, At, Requirement
<1>2. /\ TypeOK /\ GivenInv /\ WhenInv
      /\ (\A s \in Streams : StreamInv(s)) /\ FlagsInv
  BY <1>1 DEF CompilerInv, Meaning
<1>3. test \in Records
  BY <1>2 DEF TypeOK, Records, GivenTypes
<1>4. t \in Records
  BY <1>3 DEF Records, GivenTypes, Flags
<1>5. /\ t.name = test.name /\ t.givenType = test.givenType
      /\ t.givenFilename = test.givenFilename /\ t.givenContent = test.givenContent
      /\ t.givenPath = test.givenPath /\ t.program = test.program /\ t.args = test.args
      /\ t.stdout = test.stdout /\ t.stderr = test.stderr
      /\ t.flags = test.flags \cup {"SKIPPED"}
  BY <1>3 DEF Records, GivenTypes
<1>6. Step(t)
  BY <1>1 DEF Step
<1> HIDE DEF t
<1>7. test' = t
  BY <1>6 DEF Step, Compiled
<1>8. GivenInv'
  BY <1>1, <1>2, <1>5, <1>6, GivenKept
<1>9. WhenInv'
  BY <1>1, <1>2, <1>5, <1>6, WhenKept
<1>10. ASSUME NEW s \in Streams PROVE StreamInv(s)'
  <2>1. ContentsBefore(s)' = ContentsBefore(s)
    BY <1>1, <1>2, <1>6, ContentsGrow
  <2>2. t[s] = test[s]
    BY <1>5 DEF Streams
  <2> QED
    BY <1>2, <1>6, <2>1, <2>2, StreamKept
<1>11. FlagsInv'
  <2>1. /\ Before("expectOutput")' = Before("expectOutput")
        /\ Before("shouldBeSkipped")' = Before("shouldBeSkipped") \cup {at}
    BY <1>1, <1>2, <1>6, BeforeGrows
  <2> QED
    BY <1>2, <1>5, <1>7, <2>1 DEF FlagsInv
<1>12. (\A s \in Streams : StreamInv(s))'
  BY <1>10 DEF Streams
<1> QED
  BY <1>4, <1>5, <1>6, <1>8, <1>9, <1>11, <1>12, StepKeeps

LEMMA FatalKeeps ==
  ASSUME CompilerInv, Fatal
  PROVE  CompilerInv'
  BY DEF CompilerInv, Fatal, TypeOK

LEMMA CompileArgumentsKeeps ==
  ASSUME CompilerInv, CompileArguments
  PROVE  CompilerInv'
<1>1. /\ TypeOK /\ test = EmptyTest /\ at = 1 /\ pc = "arguments"
      /\ HasCompiler /\ ~NameRejected
      /\ test' = [test EXCEPT !.name = Name] /\ pc' = "requirements"
      /\ ast' = ast /\ at' = at
  BY DEF CompilerInv, CompileArguments
<1>2. Name \in OrNull(Texts) /\ Name \notin {NULL, ""}
  <2>1. ast.arguments \in Seq(Arguments)
    BY <1>1, AstType
  <2> QED
    BY <1>1, <2>1, ValueType DEF Name, NameRejected
<1>3. TypeOK'
  <2>1. test \in Records
    BY <1>1 DEF TypeOK, Records, GivenTypes
  <2>2. test' \in Records
    BY <1>1, <1>2, <2>1 DEF Records, GivenTypes
  <2> QED
    BY <1>1, <2>2 DEF TypeOK, Records, GivenTypes
<1>4. /\ test'.name = Name /\ test'.givenType = "none" /\ test'.flags = {}
      /\ test'.args = NULL /\ test'.stdout = NULL /\ test'.stderr = NULL
  BY <1>1 DEF EmptyTest, ZeroType
<1>5. \A name : Before(name)' = {}
  <2>1. DOMAIN ast.requirements \subseteq Nat \ {0}
    BY <1>1, AstType
  <2> QED
    BY <1>1, <2>1 DEF Before, Of
<1>6. \A s : ContentsBefore(s)' = {}
  BY <1>5 DEF ContentsBefore
<1>7. GivenInv' /\ WhenInv' /\ FlagsInv'
  <2>1. GivenInv'
    BY <1>4, <1>5 DEF GivenInv
  <2>2. WhenInv'
    BY <1>4, <1>5 DEF WhenInv, NULL
  <2>3. FlagsInv'
    BY <1>4, <1>5 DEF FlagsInv
  <2> QED
    BY <2>1, <2>2, <2>3
<1>8. (\A s \in Streams : StreamInv(s))'
  <2>1. ASSUME NEW s \in Streams PROVE StreamInv(s)'
    BY <1>4, <1>6 DEF StreamInv, Streams
  <2> QED
    BY <2>1 DEF Streams
<1>9. HasCompiler' /\ test'.name \notin {NULL, ""}
  BY <1>1, <1>2, <1>4 DEF HasCompiler
<1>10. Meaning'
  BY <1>7, <1>8, <1>9 DEF Meaning
<1> QED
  BY <1>1, <1>3, <1>4, <1>10 DEF CompilerInv

LEMMA FinishKeeps ==
  ASSUME CompilerInv, Finish
  PROVE  CompilerInv'
<1>1. /\ pc = "requirements" /\ at > Len(ast.requirements) /\ ~FilePlaceholderRejected
      /\ pc' = "compiled" /\ ast' = ast /\ at' = at
      /\ test' = IF CompleteMask \subseteq test.flags THEN test
                 ELSE [test EXCEPT !.flags = @ \cup {"INCOMPLETE"}]
  BY DEF Finish
<1>2. /\ TypeOK /\ Meaning /\ "INCOMPLETE" \notin test.flags
      /\ GivenInv /\ WhenInv /\ (\A s \in Streams : StreamInv(s)) /\ FlagsInv
  BY <1>1 DEF CompilerInv, Meaning
<1>3. at = Len(ast.requirements) + 1
  BY <1>1, <1>2, AstType DEF TypeOK
<1>4. test \in Records
  BY <1>2 DEF TypeOK, Records, GivenTypes
<1>5. /\ test' \in Records
      /\ test'.name = test.name /\ test'.givenType = test.givenType
      /\ test'.givenFilename = test.givenFilename /\ test'.givenContent = test.givenContent
      /\ test'.givenPath = test.givenPath /\ test'.program = test.program
      /\ test'.args = test.args /\ test'.stdout = test.stdout /\ test'.stderr = test.stderr
      /\ \A f : f # "INCOMPLETE" => (f \in test'.flags <=> f \in test.flags)
      /\ "INCOMPLETE" \in test'.flags <=> ~(CompleteMask \subseteq test.flags)
  <2>1. CASE CompleteMask \subseteq test.flags
    BY <1>1, <1>2, <1>4, <2>1
  <2>2. CASE ~(CompleteMask \subseteq test.flags)
    BY <1>1, <1>4, <2>2 DEF Records, GivenTypes, Flags
  <2> QED
    BY <2>1, <2>2
<1>6. /\ \A name : Before(name)' = Before(name)
      /\ \A s : ContentsBefore(s)' = ContentsBefore(s)
  BY <1>1 DEF Before, Of, ContentsBefore
<1>7. TypeOK'
  BY <1>1, <1>2, <1>5 DEF TypeOK, Records, GivenTypes
<1>8. GivenInv'
  <2>1. InputUsed(test') = InputUsed(test)
    BY <1>5 DEF InputUsed
  <2> QED
    BY <1>1, <1>2, <1>5, <1>6, <2>1 DEF GivenInv
<1>9. WhenInv'
  BY <1>1, <1>2, <1>5, <1>6 DEF WhenInv
<1>10. (\A s \in Streams : StreamInv(s))'
  <2>1. ASSUME NEW s \in Streams PROVE StreamInv(s)'
    <3>1. test'[s] = test[s]
      BY <1>5 DEF Streams
    <3> QED
      BY <1>1, <1>2, <1>6, <3>1 DEF StreamInv
  <2> QED
    BY <2>1 DEF Streams
<1>11. FlagsInv'
  BY <1>2, <1>5, <1>6 DEF FlagsInv
<1>12. Meaning'
  BY <1>1, <1>2, <1>5, <1>8, <1>9, <1>10, <1>11 DEF Meaning, HasCompiler
<1>13. ~FilePlaceholderRejected'
  BY <1>1, <1>5 DEF FilePlaceholderRejected
<1>14. ("INCOMPLETE" \in test.flags <=> Incomplete)'
  <2>1. Before("whenRun") # {}
    <3>1. PICK i \in DOMAIN ast.requirements : ast.requirements[i].name = "whenRun"
      BY <1>2 DEF Meaning, HasCompiler
    <3>2. i < at
      BY <1>2, <1>3, AstType
    <3> QED
      BY <3>1, <3>2 DEF Before, Of
  <2>2. /\ "HAS_GIVEN" \in test.flags <=> Before("given") # {}
        /\ "HAS_THEN" \in test.flags <=> Before("expectOutput") # {}
        /\ "HAS_WHEN" \in test.flags
    BY <1>2, <2>1 DEF GivenInv, WhenInv, FlagsInv
  <2> QED
    BY <1>5, <1>6, <2>2 DEF CompleteMask, Incomplete
<1> QED
  BY <1>1, <1>3, <1>7, <1>12, <1>13, <1>14 DEF CompilerInv

LEMMA CompilerStutters ==
  ASSUME CompilerInv, UNCHANGED vars
  PROVE  CompilerInv'
<1>1. ast' = ast /\ at' = at /\ test' = test /\ pc' = pc
  BY DEF vars
<1>2. /\ \A name : Before(name)' = Before(name)
      /\ \A s : ContentsBefore(s)' = ContentsBefore(s)
      /\ HasCompiler' = HasCompiler
  BY <1>1 DEF Before, Of, ContentsBefore, HasCompiler
<1>3. InputUsed(test') = InputUsed(test)
  BY <1>1
<1>4. TypeOK' = TypeOK
  BY <1>1 DEF TypeOK
<1>5. GivenInv' = GivenInv /\ WhenInv' = WhenInv /\ FlagsInv' = FlagsInv
  BY <1>1, <1>2, <1>3 DEF GivenInv, WhenInv, FlagsInv
<1>6. \A s : StreamInv(s)' = StreamInv(s)
  BY <1>1, <1>2 DEF StreamInv
<1>7. Meaning' = Meaning
  BY <1>1, <1>2, <1>5, <1>6 DEF Meaning, Streams
<1> QED
  BY <1>1, <1>2, <1>4, <1>7 DEF CompilerInv, Incomplete, FilePlaceholderRejected
-----------------------------------------------------------------------------
(* The theorems.                                                           *)

LEMMA InitCompilerInv == Init => CompilerInv
<1> SUFFICES ASSUME Init PROVE CompilerInv
  OBVIOUS
<1>1. ast \in AstTests
  BY ParsedAssumption DEF Init
<1>2. Len(ast.requirements) \in Nat
  BY <1>1 DEF AstTests
<1>3. test \in Records
  BY DEF Init, EmptyTest, ZeroType, Records, GivenTypes, OrNull, Flags, NULL
<1> QED
  BY <1>2, <1>3 DEF Init, CompilerInv, TypeOK, Records, GivenTypes

LEMMA CompilerInvariant == Spec => []CompilerInv
<1>1. CompilerInv /\ [Next]_vars => CompilerInv'
  <2> SUFFICES ASSUME CompilerInv, [Next]_vars PROVE CompilerInv'
    OBVIOUS
  <2>1. RejectArguments \/ RejectRequirement \/ RejectTest => Fatal
    BY DEF RejectArguments, RejectRequirement, RejectTest
  <2>2. CASE Next
    BY <2>1, <2>2, FatalKeeps, CompileArgumentsKeeps, CompileGivenKeeps,
       CompileWhenRunKeeps, CompileExpectOutputKeeps, CompileShouldBeSkippedKeeps,
       FinishKeeps DEF Next
  <2>3. CASE UNCHANGED vars
    BY <2>3, CompilerStutters
  <2> QED
    BY <2>2, <2>3
<1> QED
  BY InitCompilerInv, <1>1, PTL DEF Spec

\* The position stays in the list of requirements and the record keeps its type:
\* an argument that is looked up is one of the texts, or there is none.
THEOREM TypeCorrect == Spec => []TypeOK
<1>1. CompilerInv => TypeOK
  BY DEF CompilerInv
<1> QED
  BY <1>1, CompilerInvariant, PTL

\* A test that the compiler accepts has all that the runner takes for granted, in
\* whatever order and however often its requirements are given.
THEOREM Runnable == Spec => []RunnerCanRun
<1>1. CompilerInv => RunnerCanRun
  <2> SUFFICES ASSUME CompilerInv, pc = "compiled"
               PROVE  RunnerCanRun
    BY DEF RunnerCanRun
  <2>1. /\ TypeOK /\ Meaning /\ at = Len(ast.requirements) + 1
        /\ ~FilePlaceholderRejected
    BY DEF CompilerInv
  <2>2. Before("whenRun") # {}
    <3>1. PICK i \in DOMAIN ast.requirements : ast.requirements[i].name = "whenRun"
      BY <2>1 DEF Meaning, HasCompiler
    <3>2. i < at
      BY <2>1, AstType
    <3> QED
      BY <3>1, <3>2 DEF Before, Of
  <2>3. /\ test.name \notin {NULL, ""} /\ test.program \notin {NULL, ""}
        /\ test.args # ""
    BY <2>1, <2>2 DEF Meaning, WhenInv
  <2>4. test.args \in WithFile => test.givenType \in {"file", "reference"}
    <3>1. test.givenType \in {"none", "file", "reference", "stdin"}
      BY <2>1 DEF TypeOK
    <3> QED
      BY <2>1, <3>1 DEF FilePlaceholderRejected
  <2>5. /\ test.givenType = "reference" => test.givenPath \notin {NULL, ""}
        /\ test.givenType = "file" => test.givenFilename \notin {""} \cup Slashed
    BY <2>1 DEF Meaning, GivenInv
  <2> QED
    BY <2>3, <2>4, <2>5 DEF RunnerCanRun
<1> QED
  BY <1>1, CompilerInvariant, PTL

\* The compiled test means what is written, for any list of requirements: the
\* order of requirements of different kinds does not matter, the last input and
\* the last program count, and of a stream the first content.
THEOREM Meant == Spec => []CompiledAsMeant
<1>1. CompilerInv => CompiledAsMeant
  <2> SUFFICES ASSUME CompilerInv, pc = "compiled"
               PROVE  CompiledAsMeant
    BY DEF CompiledAsMeant
  <2>1. /\ TypeOK /\ at = Len(ast.requirements) + 1 /\ HasCompiler
        /\ GivenInv /\ WhenInv /\ (\A s \in Streams : StreamInv(s)) /\ FlagsInv
        /\ "INCOMPLETE" \in test.flags <=> Incomplete
    BY DEF CompilerInv, Meaning
  <2>2. Len(ast.requirements) \in Nat /\ DOMAIN ast.requirements = 1..Len(ast.requirements)
    BY <2>1, AstType
  <2>3. \A name : Before(name) = Of(name) /\ Of(name) \in SUBSET Int
    BY <2>1, <2>2 DEF Before, Of
  <2>4. InputUsed(test) = InputMeant
    <3>1. CASE Of("given") = {}
      <4>1. test.givenType = "none"
        BY <2>1, <2>3, <3>1 DEF GivenInv
      <4> QED
        BY <3>1, <4>1 DEF InputUsed, InputMeant
    <3>2. CASE Of("given") # {}
      <4>1. PICK i \in Of("given") :
              /\ IsLast(i, Of("given")) /\ InputUsed(test) = InputOf(ast.requirements[i])
        BY <2>1, <2>3, <3>2 DEF GivenInv
      <4>2. Last(Of("given")) = ast.requirements[i]
        BY <2>3, <4>1, LastIsChosen DEF Last
      <4> QED
        BY <3>2, <4>1, <4>2 DEF InputOf, InputMeant
    <3> QED
      BY <3>1, <3>2
  <2>5. /\ test.program = Value(Last(Of("whenRun")).arguments, {Unnamed, "program"})
        /\ test.args = Value(Last(Of("whenRun")).arguments, {"args"})
    <3>1. Of("whenRun") # {}
      BY <2>1 DEF HasCompiler, Of
    <3>2. PICK i \in Of("whenRun") :
            /\ IsLast(i, Of("whenRun"))
            /\ test.program = Value(ast.requirements[i].arguments, {Unnamed, "program"})
            /\ test.args = Value(ast.requirements[i].arguments, {"args"})
      BY <2>1, <2>3, <3>1 DEF WhenInv
    <3>3. Last(Of("whenRun")) = ast.requirements[i]
      BY <2>3, <3>2, LastIsChosen DEF Last
    <3> QED
      BY <3>2, <3>3
  <2>6. ASSUME NEW s \in Streams
        PROVE  LET texts == {i \in OfStream(s) : ast.requirements[i].content # NULL}
               IN IF texts = {} THEN test[s] = NULL
                  ELSE test[s] = First(texts).content
    <3> DEFINE texts == {i \in OfStream(s) : ast.requirements[i].content # NULL}
    <3> SUFFICES IF texts = {} THEN test[s] = NULL ELSE test[s] = First(texts).content
      OBVIOUS
    <3>1. texts = ContentsBefore(s) /\ texts \in SUBSET Int
      BY <2>3 DEF OfStream, ContentsBefore
    <3> HIDE DEF texts
    <3>2. CASE texts = {}
      BY <2>1, <3>1, <3>2 DEF StreamInv
    <3>3. CASE texts # {}
      <4>1. PICK i \in texts :
              IsFirst(i, texts) /\ test[s] = ast.requirements[i].content
        BY <2>1, <3>1, <3>3 DEF StreamInv
      <4>2. First(texts) = ast.requirements[i]
        BY <3>1, <4>1, FirstIsChosen DEF First
      <4> QED
        BY <3>3, <4>1, <4>2
    <3> QED
      BY <3>2, <3>3
  <2>7. /\ "SKIPPED" \in test.flags <=> Of("shouldBeSkipped") # {}
        /\ "INCOMPLETE" \in test.flags <=> Of("given") = {} \/ Of("expectOutput") = {}
    BY <2>1, <2>3 DEF FlagsInv, Incomplete
  <2> QED
    BY <2>4, <2>5, <2>6, <2>7 DEF CompiledAsMeant, Streams
<1> QED
  BY <1>1, CompilerInvariant, PTL
-----------------------------------------------------------------------------
(* The store.  Sequences of cells, whole and cut short.                    *)

Cells ==
  Texts \cup {Length, Chars, "0", NULL, Kind, "name"} \cup (SUBSET Flags) \cup GivenTypes \cup Nat

\* Four characters of a text, again and again.
Junk(data) == data \in Seq({Chars})

\* What is left of the data d when it was cut short.
Torn(e, d) ==
  \E cells \in 0..(Len(d) - 1), n \in Nat :
    (n > 0 => cells > 0 /\ d[cells] = Length) /\ e = Cut(d, cells, n)

\* What holds at 0 and goes on holding is reached: there is a last number up to
\* which it does.
LEMMA Reached ==
  ASSUME NEW n \in Nat, NEW S, 0 \in S, \A k \in 0..n : k \in S /\ k # n => k + 1 \in S
  PROVE  n \in S
<1> DEFINE T == {k \in 1..(n + 1) : k - 1 \in S}
<1> SUFFICES ASSUME n \notin S PROVE FALSE
  OBVIOUS
<1> DEFINE m == n + 1
<1>1. T \in SUBSET (1..m) /\ T # {} /\ m \in Nat
  <2>1. 1 \in T
    OBVIOUS
  <2> QED
    BY <2>1
<1>2. PICK i \in T : IsLast(i, T)
  <2> HIDE DEF T, m
  <2> QED
    BY <1>1, LastExists
<1>3. i \in 1..(n + 1) /\ i - 1 \in S
  OBVIOUS
<1>4. i # n + 1
  BY <1>3
<1>5. i - 1 \in 0..n /\ i - 1 # n /\ (i - 1) + 1 = i
  BY <1>3, <1>4
<1>6. i \in S
  BY <1>3, <1>5
<1>7. i + 1 \in T
  BY <1>3, <1>4, <1>6
<1>8. i + 1 <= i
  <2> HIDE DEF T
  <2> QED
    BY <1>2, <1>7 DEF IsLast
<1> QED
  BY <1>3, <1>8

\* Characters that were written are characters.
LEMMA JunkFacts ==
  ASSUME NEW n \in Nat
  PROVE  /\ Junk([k \in 1..n |-> Chars]) /\ Len([k \in 1..n |-> Chars]) = n
         /\ [k \in 1..n |-> Chars] \in Seq(Cells)
<1>1. [k \in 1..n |-> Chars] \in [1..n -> {Chars}]
  OBVIOUS
<1>2. [k \in 1..n |-> Chars] \in Seq({Chars})
  BY <1>1, SeqDef
<1>3. Chars \in Cells
  BY DEF Cells
<1>4. {Chars} \subseteq Cells
  BY <1>3
<1>5. [k \in 1..n |-> Chars] \in Seq(Cells)
  BY <1>2, <1>4, SeqMonotonic
<1>6. Len([k \in 1..n |-> Chars]) = n
  BY <1>1
<1> QED
  BY <1>2, <1>5, <1>6 DEF Junk

\* Three parts are two, either way.
LEMMA Reassociated ==
  ASSUME NEW s \in Seq(Cells), NEW t \in Seq(Cells), NEW u \in Seq(Cells)
  PROVE  (s \o t) \o u = s \o (t \o u)
BY ConcatAssociative

\* Behind the first of two parts is the second.
LEMMA RestOfConcat ==
  ASSUME NEW S, NEW s \in Seq(S), NEW t \in Seq(S)
  PROVE  Rest(s \o t, Len(s)) = t
<1>1. /\ Len(s) \in Nat /\ Len(t) \in Nat /\ Len(s \o t) = Len(s) + Len(t)
      /\ s \o t \in Seq(S)
  BY LenProperties, ConcatProperties
<1>2. CASE Len(t) = 0
  <2>1. SubSeq(s \o t, Len(s) + 1, Len(s) + Len(t)) = <<>>
    BY <1>1, <1>2, SubSeqEmpty
  <2>2. t = <<>>
    BY <1>2, EmptySeq
  <2> QED
    BY <1>1, <2>1, <2>2 DEF Rest
<1>3. CASE Len(t) # 0
  <2>1. SubSeq(s \o t, Len(s) + 1, Len(s) + Len(t)) =
          SubSeq(t, (Len(s) + 1) - Len(s), (Len(s) + Len(t)) - Len(s))
    BY <1>1, <1>3, SubSeqOfConcat2
  <2>2. (Len(s) + 1) - Len(s) = 1 /\ (Len(s) + Len(t)) - Len(s) = Len(t)
    BY <1>1
  <2>3. SubSeq(t, 1, Len(t)) = t
    BY SubSeqFull
  <2> QED
    BY <1>1, <2>1, <2>2, <2>3 DEF Rest
<1> QED
  BY <1>2, <1>3

\* The beginning of two parts is that of the first, or all of the first with the
\* beginning of the second.
LEMMA BeginningOfConcat ==
  ASSUME NEW S, NEW s \in Seq(S), NEW t \in Seq(S), NEW c \in 0..(Len(s) + Len(t))
  PROVE  /\ c <= Len(s) => SubSeq(s \o t, 1, c) = SubSeq(s, 1, c)
         /\ c >= Len(s) => SubSeq(s \o t, 1, c) = s \o SubSeq(t, 1, c - Len(s))
<1>1. /\ Len(s) \in Nat /\ Len(t) \in Nat /\ Len(s \o t) = Len(s) + Len(t)
      /\ s \o t \in Seq(S)
  BY LenProperties, ConcatProperties
<1>2. ASSUME c <= Len(s)
      PROVE  SubSeq(s \o t, 1, c) = SubSeq(s, 1, c)
  <2>1. CASE c = 0
    <3>1. SubSeq(s \o t, 1, c) = <<>> /\ SubSeq(s, 1, c) = <<>>
      BY <2>1, SubSeqEmpty
    <3> QED
      BY <3>1
  <2>2. CASE c # 0
    <3>1. c \in 1..Len(s) /\ 1 \in 1..Len(s)
      BY <1>1, <1>2, <2>2
    <3> QED
      BY <3>1, SubSeqOfConcat1
  <2> QED
    BY <2>1, <2>2
<1>3. ASSUME c >= Len(s)
      PROVE  SubSeq(s \o t, 1, c) = s \o SubSeq(t, 1, c - Len(s))
  <2>1. Len(s) \in 0..(Len(s) + Len(t)) /\ Len(s) <= Len(s)
    BY <1>1
  <2>2. SubSeq(s \o t, 1, Len(s)) = s
    <3>1. CASE Len(s) = 0
      <4>1. SubSeq(s \o t, 1, Len(s)) = <<>>
        BY <3>1, SubSeqEmpty
      <4> QED
        BY <3>1, <4>1, EmptySeq
    <3>2. CASE Len(s) # 0
      <4>1. SubSeq(s \o t, 1, Len(s)) = SubSeq(s, 1, Len(s))
        BY <1>1, <3>2, SubSeqOfConcat1
      <4> QED
        BY <4>1, SubSeqFull
    <3> QED
      BY <3>1, <3>2
  <2>3. SubSeq(s \o t, Len(s) + 1, c) = SubSeq(t, 1, c - Len(s))
    <3>1. CASE c = Len(s)
      <4>1. SubSeq(s \o t, Len(s) + 1, c) = <<>> /\ SubSeq(t, 1, c - Len(s)) = <<>>
        BY <1>1, <3>1, SubSeqEmpty
      <4> QED
        BY <4>1
    <3>2. CASE c # Len(s)
      <4>1. /\ Len(s) + 1 \in Len(s) + 1..Len(s) + Len(t) /\ c \in Len(s) + 1..Len(s) + Len(t)
            /\ (Len(s) + 1) - Len(s) = 1
        BY <1>1, <1>3, <3>2
      <4>2. SubSeq(s \o t, Len(s) + 1, c) = SubSeq(t, (Len(s) + 1) - Len(s), c - Len(s))
        BY <4>1, SubSeqOfConcat2
      <4> QED
        BY <4>1, <4>2
    <3> QED
      BY <3>1, <3>2
  <2>4. SubSeq(s \o t, 1, Len(s)) \o SubSeq(s \o t, Len(s) + 1, c) = SubSeq(s \o t, 1, c)
    <3>1. /\ 1 \in 1..(Len(s \o t) + 1) /\ Len(s) \in (1 - 1)..Len(s \o t)
          /\ c \in Len(s)..Len(s \o t)
      BY <1>1, <1>3
    <3> QED
      BY <1>1, <3>1, ConcatAdjacentSubSeq
  <2> QED
    BY <2>2, <2>3, <2>4
<1> QED
  BY <1>2, <1>3

\* Data that was cut short was cut in its first part, or that is whole.
LEMMA TornParts ==
  ASSUME NEW p \in Seq(Cells), NEW d \in Seq(Cells), p # <<>>, p[Len(p)] # Length,
         NEW e, Torn(e, p \o d)
  PROVE  Torn(e, p) \/ \E b \in Seq(Cells) : e = p \o b /\ Torn(b, d)
<1>1. /\ Len(p) \in Nat \ {0} /\ Len(d) \in Nat /\ Len(p \o d) = Len(p) + Len(d)
      /\ \A i \in 1..Len(p) + Len(d) : (p \o d)[i] = IF i <= Len(p) THEN p[i] ELSE d[i - Len(p)]
  BY LenProperties, EmptySeq, ConcatProperties
<1>2. PICK c \in 0..(Len(p \o d) - 1), n \in Nat :
        (n > 0 => c > 0 /\ (p \o d)[c] = Length) /\ e = Cut(p \o d, c, n)
  BY DEF Torn
<1> DEFINE junk == [k \in 1..n |-> Chars]
<1>3. junk \in Seq(Cells)
  BY JunkFacts
<1>4. e = SubSeq(p \o d, 1, c) \o junk
  BY <1>2 DEF Cut
<1> HIDE DEF junk
<1>5. c \in 0..(Len(p) + Len(d))
  BY <1>1, <1>2
<1>6. CASE c < Len(p)
  <2>1. SubSeq(p \o d, 1, c) = SubSeq(p, 1, c)
    BY <1>1, <1>5, <1>6, BeginningOfConcat
  <2>2. c \in 0..(Len(p) - 1) /\ (n > 0 => p[c] = Length)
    BY <1>1, <1>2, <1>6
  <2>3. e = Cut(p, c, n)
    BY <1>4, <2>1 DEF Cut, junk
  <2> QED
    BY <1>2, <2>2, <2>3 DEF Torn
<1>7. CASE c >= Len(p)
  <2> DEFINE m == c - Len(p)
             b == SubSeq(d, 1, m) \o junk
  <2>1. SubSeq(p \o d, 1, c) = p \o SubSeq(d, 1, m)
    BY <1>1, <1>5, <1>7, BeginningOfConcat
  <2>2. m \in 0..(Len(d) - 1)
    BY <1>1, <1>2, <1>7
  <2>3. n > 0 => m > 0 /\ d[m] = Length
    <3> SUFFICES ASSUME n > 0 PROVE m > 0 /\ d[m] = Length
      OBVIOUS
    <3>1. c \in 1..Len(p) + Len(d) /\ (p \o d)[c] = Length
      BY <1>1, <1>2, <1>5
    <3>2. c # Len(p)
      BY <1>1, <3>1
    <3> QED
      BY <1>1, <1>7, <3>1, <3>2
  <2> HIDE DEF m
  <2>4. SubSeq(d, 1, m) \in Seq(Cells)
    <3>1. ASSUME NEW i \in 1..m
          PROVE  d[i] \in Cells
      <4>1. i \in 1..Len(d)
        BY <1>1, <2>2
      <4> QED
        BY <4>1, ElementOfSeq
    <3> QED
      BY <2>2, <3>1, SubSeqProperties
  <2>5. e = p \o b
    <3> DEFINE x == SubSeq(d, 1, m)
    <3>1. e = (p \o x) \o junk /\ x \in Seq(Cells)
      BY <1>4, <2>1, <2>4
    <3> HIDE DEF x, junk
    <3>2. (p \o x) \o junk = p \o (x \o junk)
      BY <1>3, <3>1, Reassociated
    <3> QED
      BY <3>1, <3>2 DEF x
  <2>6. b \in Seq(Cells)
    BY <1>3, <2>4, ConcatProperties
  <2>7. b = Cut(d, m, n)
    BY DEF Cut, junk
  <2> HIDE DEF b
  <2>8. Torn(b, d)
    BY <2>2, <2>3, <2>7 DEF Torn
  <2> QED
    BY <2>5, <2>6, <2>8
<1>8. c < Len(p) \/ c >= Len(p)
  BY <1>1, <1>5
<1> QED
  BY <1>6, <1>7, <1>8
-----------------------------------------------------------------------------
(* One text.                                                               *)

\* The two cells of a text are told from its other cells.
LEMMA CellFacts ==
  /\ "NULL" \in Cells /\ "0" \in Cells /\ Length \in Cells /\ Chars \in Cells /\ Kind \in Cells
  /\ {Length, Chars} \cap {"NULL", "0", Kind, "name"} = {} /\ Length # Chars /\ "NULL" # "0"
  /\ \A s \in OrNull(Texts) : s \in Cells /\ s # Length /\ s # Chars
BY StoreAssumption DEF Cells, OrNull, NULL

\* What is read of data that begins with one cell.
LEMMA OneCell ==
  ASSUME NEW x \in Cells, NEW d \in Seq(Cells)
  PROVE  /\ <<x>> \in Seq(Cells) /\ Len(<<x>>) = 1 /\ <<x>> # <<>> /\ <<x>>[1] = x
         /\ <<x>> \o d \in Seq(Cells) /\ <<x>> \o d # <<>> /\ (<<x>> \o d)[1] = x
         /\ Len(<<x>> \o d) = Len(d) + 1 /\ Rest(<<x>> \o d, 1) = d
<1>1. <<x>> \in Seq(Cells) /\ Len(<<x>>) = 1 /\ <<x>> # <<>> /\ <<x>>[1] = x
  OBVIOUS
<1>2. Len(d) \in Nat
  BY LenProperties
<1>3. /\ <<x>> \o d \in Seq(Cells) /\ Len(<<x>> \o d) = Len(<<x>>) + Len(d)
      /\ \A i \in 1..Len(<<x>>) + Len(d) :
           (<<x>> \o d)[i] = IF i <= Len(<<x>>) THEN <<x>>[i] ELSE d[i - Len(<<x>>)]
  BY <1>1, ConcatProperties
<1>4. (<<x>> \o d)[1] = x
  <2>1. 1 \in 1..Len(<<x>>) + Len(d) /\ 1 <= Len(<<x>>)
    BY <1>1, <1>2
  <2> QED
    BY <1>1, <1>3, <2>1
<1>5. Len(<<x>> \o d) = Len(d) + 1
  BY <1>1, <1>2, <1>3
<1>6. <<x>> \o d # <<>>
  BY <1>2, <1>5, EmptySeq
<1>7. Rest(<<x>> \o d, 1) = d
  BY <1>1, RestOfConcat
<1> QED
  BY <1>1, <1>3, <1>4, <1>5, <1>6, <1>7

\* What is read of data that begins with two cells.
LEMMA TwoCells ==
  ASSUME NEW x \in Cells, NEW y \in Cells, NEW d \in Seq(Cells)
  PROVE  /\ <<x, y>> \in Seq(Cells) /\ Len(<<x, y>>) = 2 /\ <<x, y>> # <<>>
         /\ <<x, y>>[1] = x /\ <<x, y>>[2] = y
         /\ <<x, y>> \o d \in Seq(Cells) /\ <<x, y>> \o d # <<>>
         /\ (<<x, y>> \o d)[1] = x /\ (<<x, y>> \o d)[2] = y
         /\ Len(<<x, y>> \o d) = Len(d) + 2 /\ Rest(<<x, y>> \o d, 2) = d
<1>1. /\ <<x, y>> \in Seq(Cells) /\ Len(<<x, y>>) = 2 /\ <<x, y>> # <<>>
      /\ <<x, y>>[1] = x /\ <<x, y>>[2] = y
  OBVIOUS
<1>2. Len(d) \in Nat
  BY LenProperties
<1>3. /\ <<x, y>> \o d \in Seq(Cells) /\ Len(<<x, y>> \o d) = Len(<<x, y>>) + Len(d)
      /\ \A i \in 1..Len(<<x, y>>) + Len(d) :
           (<<x, y>> \o d)[i] = IF i <= Len(<<x, y>>) THEN <<x, y>>[i] ELSE d[i - Len(<<x, y>>)]
  BY <1>1, ConcatProperties
<1>4. (<<x, y>> \o d)[1] = x /\ (<<x, y>> \o d)[2] = y
  <2>1. /\ 1 \in 1..Len(<<x, y>>) + Len(d) /\ 1 <= Len(<<x, y>>)
        /\ 2 \in 1..Len(<<x, y>>) + Len(d) /\ 2 <= Len(<<x, y>>)
    BY <1>1, <1>2
  <2>2. (<<x, y>> \o d)[1] = <<x, y>>[1] /\ (<<x, y>> \o d)[2] = <<x, y>>[2]
    BY <1>3, <2>1
  <2> QED
    BY <1>1, <2>2
<1>5. Len(<<x, y>> \o d) = Len(d) + 2
  BY <1>1, <1>2, <1>3
<1>6. <<x, y>> \o d # <<>>
  BY <1>2, <1>5, EmptySeq
<1>7. Rest(<<x, y>> \o d, 2) = d
  BY <1>1, RestOfConcat
<1> QED
  BY <1>1, <1>3, <1>4, <1>5, <1>6, <1>7

\* No text is written without a length.
LEMMA FieldFacts ==
  ASSUME NEW s \in OrNull(Texts)
  PROVE  /\ StringField(s) \in Seq(Cells) /\ StringField(s) # <<>>
         /\ StringField(s)[Len(StringField(s))] # Length
<1>1. <<>> \in Seq(Cells)
  BY EmptySeq
<1>2. CASE s = "NULL"
  <2>1. StringField(s) = <<"NULL">>
    BY <1>2 DEF StringField, NULL
  <2>2. "NULL" \in Cells /\ "NULL" # Length
    BY CellFacts
  <2>3. /\ <<"NULL">> \in Seq(Cells) /\ <<"NULL">> # <<>>
        /\ <<"NULL">>[Len(<<"NULL">>)] = "NULL"
    BY <2>2
  <2> QED
    BY <2>1, <2>2, <2>3
<1>3. CASE s # "NULL" /\ s = ""
  <2>1. StringField(s) = <<"0">>
    BY <1>3 DEF StringField, NULL
  <2>2. "0" \in Cells /\ "0" # Length
    BY CellFacts
  <2>3. /\ <<"0">> \in Seq(Cells) /\ <<"0">> # <<>>
        /\ <<"0">>[Len(<<"0">>)] = "0"
    BY <2>2
  <2> QED
    BY <2>1, <2>2, <2>3
<1>4. CASE s # "NULL" /\ s # ""
  <2>1. StringField(s) = <<Length, s>>
    BY <1>4 DEF StringField, NULL
  <2>2. Length \in Cells /\ s \in Cells /\ s # Length
    BY CellFacts
  <2>3. Len(<<Length, s>>) = 2 /\ <<Length, s>>[2] = s
    OBVIOUS
  <2> QED
    BY <1>1, <2>1, <2>2, <2>3, TwoCells
<1> QED
  BY <1>2, <1>3, <1>4

\* A text is read back as it was written.
LEMMA ReadBack ==
  ASSUME NEW s \in OrNull(Texts), NEW d \in Seq(Cells)
  PROVE  ReadString(StringField(s) \o d) = [text |-> s, rest |-> d]
<1> DEFINE x == StringField(s) \o d
<1>1. CASE s = "NULL"
  <2>1. x = <<"NULL">> \o d
    BY <1>1 DEF StringField, NULL
  <2> HIDE DEF x
  <2>2. x # <<>> /\ x[1] = "NULL" /\ Rest(x, 1) = d
    BY <2>1, CellFacts, OneCell
  <2>3. ReadString(x) = [text |-> s, rest |-> d]
    BY <1>1, <2>2, CellFacts DEF ReadString, NULL
  <2> QED
    BY <2>3 DEF x
<1>2. CASE s # "NULL" /\ s = ""
  <2>1. x = <<"0">> \o d
    BY <1>2 DEF StringField, NULL
  <2> HIDE DEF x
  <2>2. x # <<>> /\ x[1] = "0" /\ Rest(x, 1) = d
    BY <2>1, CellFacts, OneCell
  <2>3. ReadString(x) = [text |-> s, rest |-> d]
    BY <1>2, <2>2, CellFacts DEF ReadString, NULL
  <2> QED
    BY <2>3 DEF x
<1>3. CASE s # "NULL" /\ s # ""
  <2>1. x = <<Length, s>> \o d
    BY <1>3 DEF StringField, NULL
  <2> HIDE DEF x
  <2>2. Length \in Cells /\ s \in Cells /\ s # Chars /\ Len(d) \in Nat
    BY CellFacts, LenProperties
  <2>3. x # <<>> /\ x[1] = Length /\ x[2] = s /\ Rest(x, 2) = d /\ Len(x) = Len(d) + 2
    BY <2>1, <2>2, TwoCells
  <2>4. ~(Len(x) < 2)
    BY <2>2, <2>3
  <2>5. ReadString(x) = [text |-> s, rest |-> d]
    BY <2>2, <2>3, <2>4, CellFacts DEF ReadString
  <2> QED
    BY <2>5 DEF x
<1> QED
  BY <1>1, <1>2, <1>3

\* Behind characters are characters.
LEMMA RestOfJunk ==
  ASSUME NEW d, Junk(d)
  PROVE  /\ d \in Seq(Cells) /\ Junk(Rest(d, 1)) /\ (d # <<>> => d[1] = Chars)
         /\ Len(d) \in Nat
<1>1. d \in Seq({Chars}) /\ Len(d) \in Nat /\ {Chars} \subseteq Cells
  BY LenProperties, CellFacts DEF Junk
<1>2. \A i \in 1..Len(d) : d[i] \in {Chars}
  BY <1>1, ElementOfSeq
<1>3. Junk(Rest(d, 1))
  <2>1. \A i \in 2..Len(d) : d[i] \in {Chars}
    BY <1>1, <1>2
  <2>2. SubSeq(d, 2, Len(d)) \in Seq({Chars})
    BY <1>1, <2>1, SubSeqProperties
  <2> QED
    BY <2>2 DEF Junk, Rest
<1>4. d # <<>> => d[1] = Chars
  <2> SUFFICES ASSUME d # <<>> PROVE d[1] = Chars
    OBVIOUS
  <2>1. Len(d) # 0
    BY <1>1, EmptySeq
  <2>2. 1 \in 1..Len(d)
    BY <1>1, <2>1
  <2> QED
    BY <1>2, <2>2
<1> QED
  BY <1>1, <1>3, <1>4, SeqMonotonic

\* Characters are no text.
LEMMA ReadJunk ==
  ASSUME NEW d, Junk(d)
  PROVE  ReadString(d).text = NULL /\ Junk(ReadString(d).rest)
<1>1. CASE d = <<>>
  <2>1. ReadString(d) = [text |-> NULL, rest |-> d]
    BY <1>1 DEF ReadString
  <2> QED
    BY <2>1
<1>2. CASE d # <<>>
  <2>1. d[1] = Chars /\ Junk(Rest(d, 1))
    BY <1>2, RestOfJunk
  <2>2. ReadString(d) = [text |-> NULL, rest |-> Rest(d, 1)]
    BY <1>2, <2>1, CellFacts DEF ReadString
  <2> QED
    BY <2>1, <2>2
<1> QED
  BY <1>1, <1>2

\* What there is of a text that was cut is none.
LEMMA ReadTorn ==
  ASSUME NEW s \in OrNull(Texts), NEW e, Torn(e, StringField(s))
  PROVE  /\ ReadString(e).text = NULL /\ Junk(ReadString(e).rest)
         /\ e \in Seq(Cells)
<1> DEFINE p == StringField(s)
<1>1. PICK c \in 0..(Len(p) - 1), n \in Nat :
        (n > 0 => c > 0 /\ p[c] = Length) /\ e = Cut(p, c, n)
  BY DEF Torn
<1> DEFINE junk == [k \in 1..n |-> Chars]
<1>2. Junk(junk) /\ Len(junk) = n /\ junk \in Seq(Cells)
  BY JunkFacts
<1>3. e = SubSeq(p, 1, c) \o junk
  BY <1>1 DEF Cut
<1>4. p \in Seq(Cells) /\ Len(p) \in Nat
  BY FieldFacts, LenProperties
<1> HIDE DEF junk
<1>5. CASE c = 0
  <2>1. SubSeq(p, 1, c) = <<>>
    BY <1>5, SubSeqEmpty
  <2>2. n = 0
    BY <1>1, <1>5
  <2>3. junk = <<>>
    BY <1>2, <2>2, EmptySeq
  <2>4. e = <<>>
    BY <1>3, <2>1, <2>3, EmptySeq, ConcatEmptySeq
  <2>5. Junk(e)
    BY <1>2, <2>3, <2>4
  <2> QED
    BY <2>5, ReadJunk, RestOfJunk
<1>6. CASE c # 0
  <2>1. c \in 1..(Len(p) - 1)
    BY <1>1, <1>6
  <2>2. p = <<Length, s>> /\ c = 1
    <3>1. s # "NULL" /\ s # ""
      <4>1. ASSUME s = "NULL" \/ s = "" PROVE Len(p) = 1
        <5>1. p = <<"NULL">> \/ p = <<"0">>
          BY <4>1 DEF StringField, NULL
        <5> HIDE DEF p
        <5> QED
          BY <5>1
      <4> HIDE DEF p
      <4> DEFINE m == Len(p)
      <4>2. m \in Nat /\ c \in 1..(m - 1)
        BY <1>4, <2>1
      <4> HIDE DEF m
      <4>3. m # 1
        BY <4>2
      <4>4. Len(p) # 1
        BY <4>3 DEF m
      <4> QED
        BY <4>1, <4>4, Zenon
    <3>2. p = <<Length, s>>
      BY <3>1 DEF StringField, NULL
    <3>3. Len(p) = 2
      BY <3>2
    <3>4. c = 1
      BY <2>1, <3>3
    <3> QED
      BY <3>2, <3>4
  <2> HIDE DEF p
  <2>3. SubSeq(p, 1, c) = <<Length>>
    <3>1. Length \in Cells /\ s \in Cells
      BY CellFacts
    <3>2. 1 \in 1..Len(p) /\ p[1] = Length
      BY <2>2, <3>1
    <3>3. SubSeq(p, 1, 1) = <<p[1]>> \o SubSeq(p, 2, 1)
      BY <1>4, <3>2, SubSeqRecursiveFirst
    <3>4. SubSeq(p, 2, 1) = <<>>
      BY SubSeqEmpty
    <3>5. SubSeq(p, 1, 1) = <<Length>> \o <<>>
      BY <3>2, <3>3, <3>4
    <3>6. <<Length>> \o <<>> = <<Length>>
      BY <3>1, OneCell, ConcatEmptySeq
    <3> QED
      BY <2>2, <3>5, <3>6
  <2>4. e = <<Length>> \o junk
    BY <1>3, <2>3
  <2>5. /\ e \in Seq(Cells) /\ e # <<>> /\ e[1] = Length /\ Rest(e, 1) = junk
        /\ Len(e) = n + 1
    BY <1>2, <2>4, CellFacts, OneCell
  <2>6. Len(e) < 2 \/ e[2] = Chars
    <3> SUFFICES ASSUME n # 0 PROVE e[2] = Chars
      BY <2>5
    <3>1. Length \in Cells
      BY CellFacts
    <3>2. e[2] = junk[1]
      <4>1. <<Length>> \in Seq(Cells) /\ Len(<<Length>>) = 1
        BY <1>2, <3>1, OneCell
      <4>2. \A i \in 1..Len(<<Length>>) + Len(junk) : (<<Length>> \o junk)[i] =
              IF i <= Len(<<Length>>) THEN <<Length>>[i] ELSE junk[i - Len(<<Length>>)]
        BY <1>2, <4>1, ConcatProperties
      <4>3. 2 \in 1..Len(<<Length>>) + Len(junk) /\ ~(2 <= Len(<<Length>>)) /\ 2 - Len(<<Length>>) = 1
        BY <1>2, <4>1
      <4> QED
        BY <2>4, <4>2, <4>3
    <3> QED
      BY <3>2 DEF junk
  <2>7. ReadString(e) = [text |-> NULL, rest |-> Rest(e, 1)]
    BY <2>5, <2>6, CellFacts DEF ReadString
  <2> QED
    BY <1>2, <2>5, <2>7
<1> QED
  BY <1>5, <1>6
-----------------------------------------------------------------------------
(* Parts, one after the other.                                             *)

\* The parts can be joined, however many they are.
LEMMA JoinExists ==
  ASSUME NEW N \in Nat, NEW part
  PROVE  \E f : f = [k \in 0..N |-> IF k = 0 THEN <<>> ELSE f[k - 1] \o part[k]]
<1> DEFINE Joins(f, n) == f = [k \in 0..n |-> IF k = 0 THEN <<>> ELSE f[k - 1] \o part[k]]
           S == {n \in 0..N : \E f : Joins(f, n)}
<1>1. 0 \in S
  <2> DEFINE g == [k \in 0..0 |-> <<>>]
  <2>1. g = [k \in 0..0 |-> IF k = 0 THEN <<>> ELSE g[k - 1] \o part[k]]
    <3>1. \A k \in 0..0 : k = 0
      OBVIOUS
    <3> QED
      BY <3>1
  <2>2. Joins(g, 0)
    BY <2>1
  <2> HIDE DEF Joins, g
  <2> QED
    BY <2>2
<1>2. ASSUME NEW n \in 0..N, n \in S, n # N
      PROVE  n + 1 \in S
  <2>1. PICK f : Joins(f, n)
    BY <1>2
  <2> DEFINE m == n + 1
             g == [k \in 0..m |-> IF k = m THEN f[n] \o part[m] ELSE f[k]]
  <2>2. m \in 0..N /\ m - 1 = n /\ m # 0
    BY <1>2
  <2>3. \A k \in 0..m : g[k] = IF k = 0 THEN <<>> ELSE g[k - 1] \o part[k]
    <3> SUFFICES ASSUME NEW k \in 0..m
                 PROVE  g[k] = IF k = 0 THEN <<>> ELSE g[k - 1] \o part[k]
      OBVIOUS
    <3>1. CASE k = m
      <4>1. n \in 0..m /\ n # m /\ m \in 0..m /\ k - 1 = n /\ k # 0
        BY <3>1
      <4>2. g[n] = f[n] /\ g[m] = f[n] \o part[m]
        BY <4>1
      <4> HIDE DEF g
      <4> QED
        BY <3>1, <4>1, <4>2
    <3>2. CASE k # m
      <4>1. k \in 0..n /\ (k # 0 => k - 1 \in 0..m /\ k - 1 # m)
        BY <3>2
      <4>2. f[k] = IF k = 0 THEN <<>> ELSE f[k - 1] \o part[k]
        BY <2>1, <4>1
      <4>3. g[k] = f[k] /\ (k # 0 => g[k - 1] = f[k - 1])
        BY <3>2, <4>1
      <4> HIDE DEF g
      <4> QED
        BY <4>2, <4>3
    <3> QED
      BY <3>1, <3>2
  <2>4. Joins(g, m)
    <3>1. g = [k \in 0..m |-> g[k]]
      OBVIOUS
    <3> HIDE DEF g
    <3> QED
      BY <2>3, <3>1
  <2> HIDE DEF Joins, g
  <2> QED
    BY <2>2, <2>4
<1>3. N \in S
  <2> HIDE DEF S
  <2> QED
    BY <1>1, <1>2, Reached
<1> HIDE DEF Joins
<1>4. \E f : Joins(f, N)
  BY <1>3
<1> QED
  BY <1>4 DEF Joins

\* What follows each part.
Follows(parts, from) ==
  /\ from \in [0..Len(parts) -> Seq(Cells)]
  /\ from[0] = Joined(parts) /\ from[Len(parts)] = <<>>
  /\ \A k \in 1..Len(parts) : from[k - 1] = parts[k] \o from[k]

\* Behind each of the joined parts are those that follow it.
LEMMA JoinedFollows ==
  ASSUME NEW parts \in Seq(Seq(Cells))
  PROVE  \E from : Follows(parts, from)
<1> DEFINE N == Len(parts)
           Joins(f) == f = [k \in 0..N |-> IF k = 0 THEN <<>> ELSE f[k - 1] \o parts[k]]
           h == CHOOSE f : Joins(f)
<1>1. N \in Nat /\ \A k \in 1..N : parts[k] \in Seq(Cells)
  BY LenProperties, ElementOfSeq
<1>2. Joins(h)
  <2>1. \E f : Joins(f)
    <3> HIDE DEF N
    <3> QED
      BY <1>1, JoinExists
  <2> HIDE DEF Joins
  <2> QED
    BY <2>1
<1>3. Joined(parts) = h[N]
  BY DEF Joined
<1> HIDE DEF h
<1>4. h[0] = <<>> /\ \A k \in 1..N : h[k] = h[k - 1] \o parts[k]
  <2>1. \A k \in 0..N : h[k] = IF k = 0 THEN <<>> ELSE h[k - 1] \o parts[k]
    BY <1>2
  <2> HIDE DEF N
  <2>2. \A k \in 1..N : k \in 0..N /\ k # 0
    BY <1>1
  <2>3. 0 \in 0..N
    BY <1>1
  <2> QED
    BY <2>1, <2>2, <2>3
<1> DEFINE Is(n, from) ==
             /\ from \in [0..n -> Seq(Cells)] /\ from[0] = h[n] /\ from[n] = <<>>
             /\ \A k \in 1..n : from[k - 1] = parts[k] \o from[k]
           S == {n \in 0..N : \E from : Is(n, from)}
<1> HIDE DEF N, Joins
<1>5. 0 \in S
  <2> DEFINE g == [k \in 0..0 |-> <<>>]
  <2>1. g \in [0..0 -> Seq(Cells)] /\ g[0] = <<>>
    BY EmptySeq
  <2>2. \A k \in 1..0 : FALSE
    OBVIOUS
  <2> HIDE DEF g
  <2>3. Is(0, g)
    BY <1>4, <2>1, <2>2
  <2> HIDE DEF Is
  <2> QED
    BY <1>1, <2>3
<1>6. ASSUME NEW n \in 0..N, n \in S, n # N
      PROVE  n + 1 \in S
  <2>1. PICK from : Is(n, from)
    BY <1>6
  <2> DEFINE m == n + 1
             g == [k \in 0..m |-> IF k = m THEN <<>> ELSE from[k] \o parts[m]]
  <2>2. m \in 1..N /\ m - 1 = n /\ n \in Nat
    BY <1>1, <1>6
  <2>3. parts[m] \in Seq(Cells) /\ h[m] = h[n] \o parts[m] /\ <<>> \in Seq(Cells)
    <3> HIDE DEF m
    <3>1. h[m] = h[m - 1] \o parts[m]
      BY <1>4, <2>2
    <3> QED
      BY <1>1, <2>2, <3>1, EmptySeq
  <2>4. \A k \in 0..n : k \in 0..m /\ k # m /\ g[k] = from[k] \o parts[m]
    BY <2>2
  <2>5. m \in 0..m /\ g[m] = <<>>
    BY <2>2
  <2>6. \A k \in 0..m : k = m \/ k \in 0..n
    BY <2>2
  <2>7. g = [k \in 0..m |-> g[k]]
    OBVIOUS
  <2>8. from \in [0..n -> Seq(Cells)] /\ from[0] = h[n] /\ from[n] = <<>>
    BY <2>1
  <2>9. \A k \in 1..n : from[k - 1] = parts[k] \o from[k]
    BY <2>1
  <2> HIDE DEF g
  <2>10. \A k \in 0..m : g[k] \in Seq(Cells)
    <3> SUFFICES ASSUME NEW k \in 0..m PROVE g[k] \in Seq(Cells)
      OBVIOUS
    <3>1. CASE k = m
      BY <2>3, <2>5, <3>1
    <3>2. CASE k \in 0..n
      <4>1. from[k] \in Seq(Cells)
        BY <2>8, <3>2
      <4>2. from[k] \o parts[m] \in Seq(Cells)
        BY <2>3, <4>1, ConcatProperties
      <4> QED
        BY <2>4, <3>2, <4>2
    <3> QED
      BY <2>6, <3>1, <3>2
  <2>11. g[0] = h[m]
    <3>1. 0 \in 0..n
      BY <2>2
    <3> QED
      BY <2>3, <2>4, <2>8, <3>1
  <2>12. \A k \in 1..m : g[k - 1] = parts[k] \o g[k]
    <3> SUFFICES ASSUME NEW k \in 1..m PROVE g[k - 1] = parts[k] \o g[k]
      OBVIOUS
    <3>1. CASE k = m
      <4>0. n \in 0..n
        BY <2>2
      <4>1. g[n] = from[n] \o parts[m]
        BY <2>4, <4>0
      <4>2. g[n] = <<>> \o parts[m]
        BY <2>8, <4>1
      <4>3. <<>> \o parts[m] = parts[m] /\ parts[m] \o <<>> = parts[m]
        BY <2>3, ConcatEmptySeq
      <4>4. g[n] = parts[m] \o g[m]
        BY <2>5, <4>2, <4>3
      <4> HIDE DEF m
      <4> QED
        BY <2>2, <3>1, <4>4
    <3>2. CASE k # m
      <4>1. k \in 1..n /\ k \in 0..n /\ k - 1 \in 0..n /\ k \in 1..N
        BY <1>1, <2>2, <3>2
      <4>2. from[k] \in Seq(Cells) /\ parts[k] \in Seq(Cells)
        BY <1>1, <2>8, <4>1
      <4>3. g[k - 1] = from[k - 1] \o parts[m] /\ g[k] = from[k] \o parts[m]
        BY <2>4, <4>1
      <4>4. g[k - 1] = (parts[k] \o from[k]) \o parts[m]
        BY <2>9, <4>1, <4>3
      <4>5. (parts[k] \o from[k]) \o parts[m] = parts[k] \o (from[k] \o parts[m])
        BY <2>3, <4>2, Reassociated
      <4> QED
        BY <4>3, <4>4, <4>5
    <3> QED
      BY <3>1, <3>2
  <2> HIDE DEF m
  <2>13. g \in [0..m -> Seq(Cells)]
    BY <2>7, <2>10
  <2>14. Is(m, g)
    BY <2>5, <2>11, <2>12, <2>13
  <2>15. m \in 0..N
    BY <2>2
  <2> HIDE DEF Is
  <2>16. m \in S
    BY <2>14, <2>15
  <2> QED
    BY <2>16 DEF m
<1>7. N \in S
  <2> HIDE DEF S
  <2> QED
    BY <1>1, <1>5, <1>6, Reached
<1>8. PICK from : Is(N, from)
  <2> HIDE DEF Is
  <2> QED
    BY <1>7
<1>9. Follows(parts, from)
  BY <1>3, <1>8 DEF Follows, N
<1> HIDE DEF Is
<1> QED
  BY <1>9

\* What is there from each part on, with more data behind the last.
Remains(parts, d, rem) ==
  /\ rem[0] = Joined(parts) \o d /\ rem[Len(parts)] = d
  /\ \A k \in 0..Len(parts) : rem[k] \in Seq(Cells)
  /\ \A k \in 1..Len(parts) : rem[k - 1] = parts[k] \o rem[k]

\* So it is with more data behind them.
LEMMA PartsRemain ==
  ASSUME NEW parts \in Seq(Seq(Cells)), NEW d \in Seq(Cells)
  PROVE  Joined(parts) \in Seq(Cells) /\ \E rem : Remains(parts, d, rem)
<1>1. PICK from : Follows(parts, from)
  BY JoinedFollows
<1> DEFINE N == Len(parts)
           rem == [k \in 0..N |-> from[k] \o d]
<1>2. N \in Nat /\ \A k \in 1..N : parts[k] \in Seq(Cells)
  BY LenProperties, ElementOfSeq
<1>3. /\ \A k \in 0..N : from[k] \in Seq(Cells)
      /\ from[0] = Joined(parts) /\ from[N] = <<>>
      /\ \A k \in 1..N : from[k - 1] = parts[k] \o from[k]
  BY <1>1 DEF Follows
<1> HIDE DEF N
<1>4. 0 \in 0..N /\ N \in 0..N /\ \A k \in 1..N : k \in 0..N /\ k - 1 \in 0..N
  BY <1>2
<1>5. \A k \in 0..N : rem[k] = from[k] \o d
  OBVIOUS
<1> HIDE DEF rem
<1>6. \A k \in 0..N : rem[k] \in Seq(Cells)
  <2> SUFFICES ASSUME NEW k \in 0..N PROVE rem[k] \in Seq(Cells)
    OBVIOUS
  <2>1. from[k] \in Seq(Cells) /\ rem[k] = from[k] \o d
    BY <1>3, <1>5
  <2> QED
    BY <2>1, ConcatProperties
<1>7. \A k \in 1..N : rem[k - 1] = parts[k] \o rem[k]
  <2> SUFFICES ASSUME NEW k \in 1..N PROVE rem[k - 1] = parts[k] \o rem[k]
    OBVIOUS
  <2>1. parts[k] \in Seq(Cells) /\ from[k] \in Seq(Cells)
    BY <1>2, <1>3, <1>4
  <2>2. rem[k - 1] = (parts[k] \o from[k]) \o d /\ rem[k] = from[k] \o d
    BY <1>3, <1>4, <1>5
  <2>3. (parts[k] \o from[k]) \o d = parts[k] \o (from[k] \o d)
    BY <2>1, Reassociated
  <2> QED
    BY <2>2, <2>3
<1>8. <<>> \o d = d
  BY ConcatEmptySeq
<1>9. rem[0] = Joined(parts) \o d /\ rem[N] = d
  BY <1>3, <1>4, <1>5, <1>8
<1>10. Joined(parts) \in Seq(Cells)
  BY <1>3, <1>4
<1>11. Remains(parts, d, rem)
  BY <1>6, <1>7, <1>9 DEF Remains, N
<1> QED
  BY <1>10, <1>11
-----------------------------------------------------------------------------
(* The texts of a test.                                                    *)

Readable ==
  [name : OrNull(Texts), givenType : GivenTypes \cup {Chars},
   givenFilename : OrNull(Texts), givenContent : OrNull(Texts),
   givenPath : OrNull(Texts), program : OrNull(Texts), args : OrNull(Texts),
   stdout : OrNull(Texts), stderr : OrNull(Texts), flags : SUBSET Flags]

TextNames ==
  {"givenFilename", "givenContent", "givenPath", "program", "args", "stdout", "stderr"}

FieldNames == {"name", "givenType", "flags"} \cup TextNames

\* The seven texts of a test.
LEMMA TextFieldsFacts ==
  /\ Len(TextFields) = 7 /\ DOMAIN TextFields = 1..7
  /\ \A k \in 1..7 : TextFields[k] \in TextNames
  /\ \A k, l \in 1..7 : TextFields[k] = TextFields[l] => k = l
  /\ \A x \in TextNames : \E k \in 1..7 : TextFields[k] = x
<1>1. /\ TextFields[1] = "givenFilename" /\ TextFields[2] = "givenContent"
      /\ TextFields[3] = "givenPath" /\ TextFields[4] = "program" /\ TextFields[5] = "args"
      /\ TextFields[6] = "stdout" /\ TextFields[7] = "stderr"
  BY DEF TextFields
<1>2. Len(TextFields) = 7 /\ DOMAIN TextFields = 1..7
  BY DEF TextFields
<1>3. \A k \in 1..7 : k = 1 \/ k = 2 \/ k = 3 \/ k = 4 \/ k = 5 \/ k = 6 \/ k = 7
  OBVIOUS
<1>4. \A k \in 1..7 : TextFields[k] \in TextNames
  BY <1>1, <1>3 DEF TextNames
<1>5. \A k, l \in 1..7 : TextFields[k] = TextFields[l] => k = l
  BY <1>1, <1>3
<1>6. \A x \in TextNames : \E k \in 1..7 : TextFields[k] = x
  <2>1. 1 \in 1..7 /\ 2 \in 1..7 /\ 3 \in 1..7 /\ 4 \in 1..7 /\ 5 \in 1..7 /\ 6 \in 1..7 /\ 7 \in 1..7
    OBVIOUS
  <2> QED
    BY <1>1, <2>1 DEF TextNames
<1> QED
  BY <1>2, <1>4, <1>5, <1>6

\* The fields of a test that is being read.
LEMMA ReadableFacts ==
  ASSUME NEW t \in Readable
  PROVE  /\ DOMAIN t = FieldNames /\ t = [x \in FieldNames |-> t[x]]
         /\ \A x \in TextNames : t[x] \in OrNull(Texts)
         /\ t.name = t["name"] /\ t.givenType = t["givenType"] /\ t.flags = t["flags"]
         /\ t.name \in OrNull(Texts) /\ t.givenType \in GivenTypes \cup {Chars}
         /\ t.flags \in SUBSET Flags
<1>1. DOMAIN t = FieldNames
  BY DEF Readable, FieldNames, TextNames
<1>2. t = [x \in DOMAIN t |-> t[x]]
  BY DEF Readable
<1>3. \A x \in TextNames : t[x] \in OrNull(Texts)
  BY DEF Readable, TextNames
<1>4. /\ t.name \in OrNull(Texts) /\ t.givenType \in GivenTypes \cup {Chars}
      /\ t.flags \in SUBSET Flags
  BY DEF Readable
<1> QED
  BY <1>1, <1>2, <1>3, <1>4

\* One more text than before.
LEMMA OneMoreText ==
  ASSUME NEW t, DOMAIN t = FieldNames, NEW k \in 1..7
  PROVE  [LacksTexts(t, k) EXCEPT ![TextFields[k]] = t[TextFields[k]]] = LacksTexts(t, k + 1)
<1> DEFINE r == LacksTexts(t, k)
           x == TextFields[k]
           r2 == [r EXCEPT ![x] = t[x]]
           u == LacksTexts(t, k + 1)
<1>1. /\ DOMAIN r = FieldNames
      /\ \A y \in FieldNames :
           r[y] = IF \E l \in k..7 : TextFields[l] = y THEN NULL ELSE t[y]
  BY TextFieldsFacts DEF LacksTexts
<1>2. /\ u = [y \in FieldNames |-> u[y]]
      /\ \A y \in FieldNames :
           u[y] = IF \E l \in (k + 1)..7 : TextFields[l] = y THEN NULL ELSE t[y]
  BY TextFieldsFacts DEF LacksTexts
<1>3. x \in FieldNames
  BY TextFieldsFacts DEF FieldNames
<1> HIDE DEF r, u, x
<1>4. /\ r2 = [y \in FieldNames |-> r2[y]] /\ r2[x] = t[x]
      /\ \A y \in FieldNames : y # x => r2[y] = r[y]
  BY <1>1, <1>3
<1> HIDE DEF r2
<1>5. ASSUME NEW y \in FieldNames
      PROVE  r2[y] = u[y]
  <2>1. \A l \in (k + 1)..7 : l \in k..7 /\ l \in 1..7 /\ l # k
    OBVIOUS
  <2>2. \A l \in k..7 : l = k \/ l \in (k + 1)..7
    OBVIOUS
  <2>3. CASE y = x
    <3>1. ~\E l \in (k + 1)..7 : TextFields[l] = y
      BY <2>1, <2>3, TextFieldsFacts DEF x
    <3> QED
      BY <1>2, <1>4, <2>3, <3>1
  <2>4. CASE y # x
    <3>1. (\E l \in (k + 1)..7 : TextFields[l] = y) <=> (\E l \in k..7 : TextFields[l] = y)
      BY <2>1, <2>2, <2>4 DEF x
    <3> QED
      BY <1>1, <1>2, <1>4, <2>4, <3>1
  <2> QED
    BY <2>3, <2>4
<1>6. r2 = u
  BY <1>2, <1>4, <1>5
<1> QED
  BY <1>6 DEF r2, u, r, x

\* A text that is lost once more.
LEMMA SameTexts ==
  ASSUME NEW t, DOMAIN t = FieldNames, t = [x \in FieldNames |-> t[x]],
         NEW k \in 1..7, t[TextFields[k]] = NULL
  PROVE  [t EXCEPT ![TextFields[k]] = NULL] = t
<1> DEFINE x == TextFields[k]
           u == [t EXCEPT ![x] = NULL]
<1>1. x \in FieldNames
  BY TextFieldsFacts DEF FieldNames
<1> HIDE DEF x
<1>2. u = [y \in FieldNames |-> u[y]] /\ \A y \in FieldNames : u[y] = IF y = x THEN NULL ELSE t[y]
  BY <1>1
<1> HIDE DEF u
<1>3. \A y \in FieldNames : u[y] = t[y]
  BY <1>2 DEF x
<1>4. u = t
  BY <1>2, <1>3
<1> QED
  BY <1>4 DEF u, x

\* A test that lacks its last texts is otherwise the same.
LEMMA LackingFacts ==
  ASSUME NEW t \in Readable, NEW k \in 1..8
  PROVE  /\ DOMAIN LacksTexts(t, k) = FieldNames
         /\ LacksTexts(t, k) = [x \in FieldNames |-> LacksTexts(t, k)[x]]
         /\ \A l \in 1..7 : k <= l => LacksTexts(t, k)[TextFields[l]] = NULL
         /\ k = 8 => LacksTexts(t, k) = t
<1>1. DOMAIN t = FieldNames /\ t = [x \in FieldNames |-> t[x]]
  BY ReadableFacts
<1> DEFINE u == LacksTexts(t, k)
<1>2. /\ u = [y \in FieldNames |-> u[y]] /\ DOMAIN u = FieldNames
      /\ \A y \in FieldNames :
           u[y] = IF \E l \in k..7 : TextFields[l] = y THEN NULL ELSE t[y]
  BY <1>1, TextFieldsFacts DEF LacksTexts
<1> HIDE DEF u
<1>3. ASSUME NEW l \in 1..7, k <= l
      PROVE  u[TextFields[l]] = NULL
  <2>1. l \in k..7 /\ TextFields[l] \in FieldNames
    BY <1>3, TextFieldsFacts DEF FieldNames
  <2> QED
    BY <1>2, <2>1
<1>4. ASSUME k = 8
      PROVE  u = t
  <2>1. \A l \in k..7 : FALSE
    BY <1>4
  <2>2. \A y \in FieldNames : u[y] = t[y]
    BY <1>2, <2>1
  <2> QED
    BY <1>1, <1>2, <2>2
<1>5. /\ DOMAIN u = FieldNames /\ u = [x \in FieldNames |-> u[x]]
      /\ \A l \in 1..7 : k <= l => u[TextFields[l]] = NULL
      /\ k = 8 => u = t
  BY <1>2, <1>3, <1>4
<1> QED
  BY <1>5 DEF u

\* The texts are read one after the other.
TextsRead(start, f) ==
  /\ f[0] = start /\ f[7] = ReadTexts(start)
  /\ \A k \in 1..7 : f[k] = ReadText(f[k - 1], TextFields[k])

\* There are seven steps from the first text to the last.
LEMMA TextsAreRead == ASSUME NEW start PROVE \E f : TextsRead(start, f)
<1> DEFINE Steps(f, n) ==
             f = [k \in 0..n |-> IF k = 0 THEN start ELSE ReadText(f[k - 1], TextFields[k])]
           S == {n \in 0..7 : \E f : Steps(f, n)}
           h == CHOOSE f : Steps(f, 7)
<1>1. 0 \in S
  <2> DEFINE g == [k \in 0..0 |-> start]
  <2>1. g = [k \in 0..0 |-> IF k = 0 THEN start ELSE ReadText(g[k - 1], TextFields[k])]
    <3>1. \A k \in 0..0 : k = 0
      OBVIOUS
    <3> QED
      BY <3>1
  <2>2. Steps(g, 0)
    BY <2>1
  <2> HIDE DEF Steps, g
  <2> QED
    BY <2>2
<1>2. ASSUME NEW n \in 0..7, n \in S, n # 7
      PROVE  n + 1 \in S
  <2>1. PICK f : Steps(f, n)
    BY <1>2
  <2> DEFINE m == n + 1
             g == [k \in 0..m |-> IF k = m THEN ReadText(f[n], TextFields[m]) ELSE f[k]]
  <2>2. m \in 0..7 /\ m - 1 = n /\ m # 0
    BY <1>2
  <2>3. \A k \in 0..m : g[k] = IF k = 0 THEN start ELSE ReadText(g[k - 1], TextFields[k])
    <3> SUFFICES ASSUME NEW k \in 0..m
                 PROVE  g[k] = IF k = 0 THEN start ELSE ReadText(g[k - 1], TextFields[k])
      OBVIOUS
    <3>1. CASE k = m
      <4>1. n \in 0..m /\ n # m /\ m \in 0..m /\ k - 1 = n /\ k # 0
        BY <3>1
      <4>2. g[n] = f[n] /\ g[m] = ReadText(f[n], TextFields[m])
        BY <4>1
      <4> HIDE DEF g
      <4> QED
        BY <3>1, <4>1, <4>2
    <3>2. CASE k # m
      <4>1. k \in 0..n /\ (k # 0 => k - 1 \in 0..m /\ k - 1 # m)
        BY <3>2
      <4>2. f[k] = IF k = 0 THEN start ELSE ReadText(f[k - 1], TextFields[k])
        BY <2>1, <4>1
      <4>3. g[k] = f[k] /\ (k # 0 => g[k - 1] = f[k - 1])
        BY <3>2, <4>1
      <4> HIDE DEF g
      <4> QED
        BY <4>2, <4>3
    <3> QED
      BY <3>1, <3>2
  <2>4. Steps(g, m)
    <3>1. g = [k \in 0..m |-> g[k]]
      OBVIOUS
    <3> HIDE DEF g
    <3> QED
      BY <2>3, <3>1
  <2> HIDE DEF Steps, g
  <2> QED
    BY <2>2, <2>4
<1>3. 7 \in S
  <2> HIDE DEF S
  <2> QED
    BY <1>1, <1>2, Reached
<1>4. Steps(h, 7)
  <2> HIDE DEF Steps
  <2> QED
    BY <1>3
<1>5. ReadTexts(start) = h[7]
  BY TextFieldsFacts DEF ReadTexts
<1> HIDE DEF h
<1>6. \A k \in 0..7 : h[k] = IF k = 0 THEN start ELSE ReadText(h[k - 1], TextFields[k])
  BY <1>4
<1>7. TextsRead(start, h)
  <2>1. 0 \in 0..7 /\ \A k \in 1..7 : k \in 0..7 /\ k # 0
    OBVIOUS
  <2> HIDE DEF Steps
  <2> QED
    BY <1>5, <1>6, <2>1 DEF TextsRead
<1> QED
  BY <1>7

TextParts(t) == [k \in 1..Len(TextFields) |-> StringField(t[TextFields[k]])]

\* A function of the first numbers is a sequence.
LEMMA FunctionIsSeq ==
  ASSUME NEW n \in Nat, NEW S, NEW f \in [1..n -> S]
  PROVE  f \in Seq(S) /\ Len(f) = n
OBVIOUS

\* What is written of the texts of a test.
LEMMA TextPartsFacts ==
  ASSUME NEW t \in Readable
  PROVE  /\ TextParts(t) \in Seq(Seq(Cells)) /\ Len(TextParts(t)) = 7
         /\ \A k \in 1..7 : /\ t[TextFields[k]] \in OrNull(Texts)
                            /\ TextParts(t)[k] = StringField(t[TextFields[k]])
<1>1. \A k \in 1..7 : t[TextFields[k]] \in OrNull(Texts)
  BY ReadableFacts, TextFieldsFacts
<1>2. \A k \in 1..7 : StringField(t[TextFields[k]]) \in Seq(Cells)
  BY <1>1, FieldFacts
<1>3. TextParts(t) = [k \in 1..7 |-> StringField(t[TextFields[k]])]
  BY TextFieldsFacts DEF TextParts
<1>4. TextParts(t) \in [1..7 -> Seq(Cells)]
  BY <1>2, <1>3
<1>5. TextParts(t) \in Seq(Seq(Cells)) /\ Len(TextParts(t)) = 7
  BY <1>4, FunctionIsSeq
<1> QED
  BY <1>1, <1>3, <1>5

\* What there is to read from each text on.
LEMMA TextsRemain ==
  ASSUME NEW t \in Readable, NEW d \in Seq(Cells)
  PROVE  \E rem : /\ rem[0] = Joined(TextParts(t)) \o d /\ rem[7] = d
                  /\ \A k \in 0..7 : rem[k] \in Seq(Cells)
                  /\ \A k \in 1..7 : rem[k - 1] = StringField(t[TextFields[k]]) \o rem[k]
<1> DEFINE parts == TextParts(t)
<1>1. /\ parts \in Seq(Seq(Cells)) /\ Len(parts) = 7
      /\ \A k \in 1..7 : parts[k] = StringField(t[TextFields[k]])
  BY TextPartsFacts
<1> HIDE DEF parts
<1>2. PICK rem : Remains(parts, d, rem)
  BY <1>1, PartsRemain
<1>3. /\ rem[0] = Joined(parts) \o d /\ rem[7] = d
      /\ \A k \in 0..7 : rem[k] \in Seq(Cells)
      /\ \A k \in 1..7 : rem[k - 1] = parts[k] \o rem[k]
  BY <1>1, <1>2 DEF Remains
<1>4. \A k \in 1..7 : rem[k - 1] = StringField(t[TextFields[k]]) \o rem[k]
  BY <1>1, <1>3
<1> QED
  BY <1>3, <1>4 DEF parts

\* All texts of a test are read back as they were written.
LEMMA TextsWhole ==
  ASSUME NEW t \in Readable, NEW d \in Seq(Cells)
  PROVE  ReadTexts([test |-> LacksTexts(t, 1), rest |-> Joined(TextParts(t)) \o d])
           = [test |-> t, rest |-> d]
<1> DEFINE start == [test |-> LacksTexts(t, 1), rest |-> Joined(TextParts(t)) \o d]
<1>1. PICK rem : /\ rem[0] = Joined(TextParts(t)) \o d /\ rem[7] = d
                 /\ \A k \in 0..7 : rem[k] \in Seq(Cells)
                 /\ \A k \in 1..7 : rem[k - 1] = StringField(t[TextFields[k]]) \o rem[k]
  BY TextsRemain
<1>2. PICK f : TextsRead(start, f)
  BY TextsAreRead
<1>3. f[0] = start /\ f[7] = ReadTexts(start) /\ \A k \in 1..7 : f[k] = ReadText(f[k - 1], TextFields[k])
  BY <1>2 DEF TextsRead
<1> DEFINE S == {k \in 0..7 : f[k] = [test |-> LacksTexts(t, k + 1), rest |-> rem[k]]}
<1>4. 0 \in S
  <2>1. f[0] = [test |-> LacksTexts(t, 0 + 1), rest |-> rem[0]]
    BY <1>1, <1>3
  <2> QED
    BY <2>1
<1>5. ASSUME NEW n \in 0..7, n \in S, n # 7
      PROVE  n + 1 \in S
  <2> DEFINE k == n + 1
             x == TextFields[k]
  <2>1. k \in 1..7 /\ k \in 0..7 /\ k - 1 = n
    BY <1>5
  <2>2. f[n] = [test |-> LacksTexts(t, k), rest |-> rem[n]]
    BY <1>5
  <2> HIDE DEF k
  <2>3. f[k] = ReadText(f[n], x) /\ rem[n] = StringField(t[x]) \o rem[k] /\ rem[k] \in Seq(Cells)
    BY <1>1, <1>3, <2>1
  <2>4. t[x] \in OrNull(Texts)
    BY <2>1, TextPartsFacts
  <2>5. ReadString(rem[n]) = [text |-> t[x], rest |-> rem[k]]
    BY <2>3, <2>4, ReadBack
  <2>6. f[k] = [test |-> [LacksTexts(t, k) EXCEPT ![x] = t[x]], rest |-> rem[k]]
    <3>1. f[n].test = LacksTexts(t, k) /\ f[n].rest = rem[n]
      BY <2>2
    <3>2. ReadString(f[n].rest).text = t[x] /\ ReadString(f[n].rest).rest = rem[k]
      BY <2>5, <3>1
    <3> QED
      BY <2>3, <3>1, <3>2 DEF ReadText
  <2>7. [LacksTexts(t, k) EXCEPT ![x] = t[x]] = LacksTexts(t, k + 1)
    BY <2>1, ReadableFacts, OneMoreText
  <2>8. f[k] = [test |-> LacksTexts(t, k + 1), rest |-> rem[k]]
    BY <2>6, <2>7
  <2>9. k \in S
    BY <2>1, <2>8
  <2> QED
    BY <2>9 DEF k
<1>6. 7 \in S
  <2> HIDE DEF S
  <2> QED
    BY <1>4, <1>5, Reached
<1>7. f[7] = [test |-> LacksTexts(t, 8), rest |-> d]
  BY <1>1, <1>6
<1>8. LacksTexts(t, 8) = t
  <2>1. 8 \in 1..8
    OBVIOUS
  <2> QED
    BY <2>1, LackingFacts
<1> QED
  BY <1>3, <1>7, <1>8

\* Of texts that were cut, those before the cut are read.
LEMMA TextsTorn ==
  ASSUME NEW t \in Readable, NEW d \in Seq(Cells), NEW e,
         Torn(e, Joined(TextParts(t)) \o d)
  PROVE  LET r == ReadTexts([test |-> LacksTexts(t, 1), rest |-> e])
         IN \/ r.test = t /\ Torn(r.rest, d)
            \/ \E j \in 1..7 : r.test = LacksTexts(t, j) /\ Junk(r.rest)
<1> DEFINE start == [test |-> LacksTexts(t, 1), rest |-> e]
<1>1. PICK rem : /\ rem[0] = Joined(TextParts(t)) \o d /\ rem[7] = d
                 /\ \A k \in 0..7 : rem[k] \in Seq(Cells)
                 /\ \A k \in 1..7 : rem[k - 1] = StringField(t[TextFields[k]]) \o rem[k]
  BY TextsRemain
<1>2. PICK f : TextsRead(start, f)
  BY TextsAreRead
<1>3. f[0] = start /\ f[7] = ReadTexts(start) /\ \A k \in 1..7 : f[k] = ReadText(f[k - 1], TextFields[k])
  BY <1>2 DEF TextsRead
<1> DEFINE Good(k) == f[k].test = LacksTexts(t, k + 1) /\ Torn(f[k].rest, rem[k])
           Lost(k, j) == f[k].test = LacksTexts(t, j) /\ Junk(f[k].rest)
           S == {k \in 0..7 : Good(k) \/ \E j \in 1..k : Lost(k, j)}
<1>4. 0 \in S
  <2>1. f[0].test = LacksTexts(t, 0 + 1) /\ f[0].rest = e
    BY <1>3
  <2>2. Good(0)
    BY <1>1, <2>1
  <2> HIDE DEF Good, Lost
  <2> QED
    BY <2>2
<1>5. ASSUME NEW n \in 0..7, n \in S, n # 7
      PROVE  n + 1 \in S
  <2> DEFINE k == n + 1
             x == TextFields[k]
             s == ReadString(f[n].rest)
  <2>1. k \in 1..7 /\ k \in 0..7 /\ k - 1 = n /\ k \in 1..8 /\ k \in 1..k
    BY <1>5
  <2>2. Good(n) \/ \E j \in 1..n : Lost(n, j)
    BY <1>5
  <2>3. /\ rem[n] = StringField(t[x]) \o rem[k] /\ rem[k] \in Seq(Cells)
        /\ f[k].test = [f[n].test EXCEPT ![x] = s.text] /\ f[k].rest = s.rest
    <3> HIDE DEF k
    <3>1. f[k] = ReadText(f[n], x)
      BY <1>3, <2>1
    <3>2. rem[n] = StringField(t[x]) \o rem[k] /\ rem[k] \in Seq(Cells)
      BY <1>1, <2>1
    <3> QED
      BY <3>1, <3>2 DEF ReadText
  <2>4. t[x] \in OrNull(Texts)
    <3> HIDE DEF k
    <3> QED
      BY <2>1, TextPartsFacts
  <2>5. CASE Good(n)
    <3>1. f[n].test = LacksTexts(t, k) /\ Torn(f[n].rest, StringField(t[x]) \o rem[k])
      BY <2>3, <2>5
    <3> HIDE DEF k, Good, Lost
    <3>2. /\ StringField(t[x]) \in Seq(Cells) /\ StringField(t[x]) # <<>>
          /\ StringField(t[x])[Len(StringField(t[x]))] # Length
      BY <2>4, FieldFacts
    <3>3. CASE Torn(f[n].rest, StringField(t[x]))
      <4>1. s.text = NULL /\ Junk(s.rest)
        BY <2>4, <3>3, ReadTorn
      <4>2. [LacksTexts(t, k) EXCEPT ![x] = NULL] = LacksTexts(t, k)
        <5>1. /\ DOMAIN LacksTexts(t, k) = FieldNames
              /\ LacksTexts(t, k) = [y \in FieldNames |-> LacksTexts(t, k)[y]]
              /\ LacksTexts(t, k)[x] = NULL
          BY <2>1, LackingFacts
        <5> QED
          BY <2>1, <5>1, SameTexts
      <4>3. f[k].test = LacksTexts(t, k) /\ Junk(f[k].rest)
        <5> HIDE DEF s, x
        <5> QED
          BY <2>3, <3>1, <4>1, <4>2
      <4>4. Lost(k, k)
        BY <4>3 DEF Lost
      <4>5. k \in S
        BY <2>1, <4>4
      <4> QED
        BY <4>5 DEF k
    <3>4. CASE \E b \in Seq(Cells) : f[n].rest = StringField(t[x]) \o b /\ Torn(b, rem[k])
      <4>1. PICK b \in Seq(Cells) : f[n].rest = StringField(t[x]) \o b /\ Torn(b, rem[k])
        BY <3>4
      <4>2. s = [text |-> t[x], rest |-> b]
        BY <2>4, <4>1, ReadBack
      <4>3. [LacksTexts(t, k) EXCEPT ![x] = t[x]] = LacksTexts(t, k + 1)
        BY <2>1, ReadableFacts, OneMoreText
      <4>4. f[k].test = LacksTexts(t, k + 1) /\ Torn(f[k].rest, rem[k])
        <5>1. s.text = t[x] /\ s.rest = b
          BY <4>2
        <5> HIDE DEF s, x
        <5> QED
          BY <2>3, <3>1, <4>1, <4>3, <5>1
      <4>5. Good(k)
        BY <4>4 DEF Good
      <4>6. k \in S
        BY <2>1, <4>5
      <4> QED
        BY <4>6 DEF k
    <3> QED
      BY <2>3, <3>1, <3>2, <3>3, <3>4, TornParts
  <2>6. CASE \E j \in 1..n : Lost(n, j)
    <3>1. PICK j \in 1..n : f[n].test = LacksTexts(t, j) /\ Junk(f[n].rest)
      BY <2>6
    <3>2. j \in 1..8 /\ j \in 1..k /\ j <= k
      BY <2>1
    <3> HIDE DEF k, Good
    <3>3. s.text = NULL /\ Junk(s.rest)
      BY <3>1, ReadJunk
    <3>4. [LacksTexts(t, j) EXCEPT ![x] = NULL] = LacksTexts(t, j)
      <4>1. /\ DOMAIN LacksTexts(t, j) = FieldNames
            /\ LacksTexts(t, j) = [y \in FieldNames |-> LacksTexts(t, j)[y]]
            /\ LacksTexts(t, j)[x] = NULL
        BY <2>1, <3>2, LackingFacts
      <4> QED
        BY <2>1, <4>1, SameTexts
    <3>5. Lost(k, j)
      <4> HIDE DEF s, x
      <4> QED
        BY <2>3, <3>1, <3>3, <3>4
    <3> HIDE DEF Lost
    <3>6. k \in S
      BY <2>1, <3>2, <3>5
    <3> QED
      BY <3>6 DEF k
  <2> QED
    BY <2>2, <2>5, <2>6
<1>6. 7 \in S
  <2> HIDE DEF S
  <2> QED
    BY <1>4, <1>5, Reached
<1>7. Good(7) \/ \E j \in 1..7 : Lost(7, j)
  BY <1>6
<1>8. LacksTexts(t, 7 + 1) = t
  <2>1. 8 \in 1..8 /\ 7 + 1 = 8
    OBVIOUS
  <2> QED
    BY <2>1, LackingFacts
<1> QED
  BY <1>1, <1>3, <1>7, <1>8

\* Of characters no texts are read.
LEMMA TextsJunk ==
  ASSUME NEW u, DOMAIN u = FieldNames, u = [x \in FieldNames |-> u[x]],
         \A k \in 1..7 : u[TextFields[k]] = NULL,
         NEW e, Junk(e)
  PROVE  LET r == ReadTexts([test |-> u, rest |-> e]) IN r.test = u /\ Junk(r.rest)
<1> DEFINE start == [test |-> u, rest |-> e]
<1>1. PICK f : TextsRead(start, f)
  BY TextsAreRead
<1>2. f[0] = start /\ f[7] = ReadTexts(start) /\ \A k \in 1..7 : f[k] = ReadText(f[k - 1], TextFields[k])
  BY <1>1 DEF TextsRead
<1> DEFINE S == {k \in 0..7 : f[k].test = u /\ Junk(f[k].rest)}
<1>3. 0 \in S
  BY <1>2
<1>4. ASSUME NEW n \in 0..7, n \in S, n # 7
      PROVE  n + 1 \in S
  <2> DEFINE k == n + 1
             x == TextFields[k]
             s == ReadString(f[n].rest)
  <2>1. k \in 1..7 /\ k \in 0..7 /\ k - 1 = n
    BY <1>4
  <2>2. f[n].test = u /\ Junk(f[n].rest)
    BY <1>4
  <2> HIDE DEF k
  <2>3. f[k].test = [f[n].test EXCEPT ![x] = s.text] /\ f[k].rest = s.rest
    <3>1. f[k] = ReadText(f[n], x)
      BY <1>2, <2>1
    <3> QED
      BY <3>1 DEF ReadText
  <2>4. s.text = NULL /\ Junk(s.rest)
    BY <2>2, ReadJunk
  <2>5. [u EXCEPT ![x] = NULL] = u
    BY <2>1, SameTexts
  <2>6. f[k].test = u /\ Junk(f[k].rest)
    <3> HIDE DEF s, x
    <3> QED
      BY <2>2, <2>3, <2>4, <2>5
  <2>7. k \in S
    BY <2>1, <2>6
  <2> QED
    BY <2>7 DEF k
<1>5. 7 \in S
  <2> HIDE DEF S
  <2> QED
    BY <1>3, <1>4, Reached
<1> QED
  BY <1>2, <1>5
-----------------------------------------------------------------------------
(* A test.                                                                 *)

\* The numbers of a test are not the cells of a text.
LEMMA RecordFacts ==
  ASSUME NEW t \in Records
  PROVE  /\ t \in Readable /\ t.name \in OrNull(Texts) /\ t.givenType \in GivenTypes
         /\ t.givenType \in Cells /\ t.givenType # Length /\ t.flags \in SUBSET Flags
         /\ t.flags \in Cells /\ t.flags # Length /\ t.flags # Chars
<1>1. t \in Readable
  BY DEF Records, Readable
<1>2. t.name \in OrNull(Texts) /\ t.givenType \in GivenTypes /\ t.flags \in SUBSET Flags
  BY DEF Records
<1>3. t.givenType \in Cells /\ t.givenType # Length
  <2>1. GivenTypes \subseteq OrNull(Texts)
    BY TextAssumption DEF GivenTypes, OrNull
  <2> QED
    BY <1>2, <2>1, CellFacts
<1>4. t.flags \in Cells /\ t.flags # Length /\ t.flags # Chars
  BY <1>2, StoreAssumption DEF Cells
<1> QED
  BY <1>1, <1>2, <1>3, <1>4

Begun(flags, name, type) ==
  [EmptyTest EXCEPT !.flags = flags, !.name = name, !.givenType = type]

\* A test of which the texts are not read yet.
LEMMA BegunFacts ==
  ASSUME NEW flags \in SUBSET Flags, NEW name \in OrNull(Texts), NEW type \in GivenTypes \cup {Chars}
  PROVE  /\ Begun(flags, name, type) \in Readable
         /\ Begun(flags, name, type).flags = flags
         /\ Begun(flags, name, type).name = name
         /\ Begun(flags, name, type).givenType = type
         /\ \A x \in TextNames : Begun(flags, name, type)[x] = NULL
<1> DEFINE e == EmptyTest
           b == [e EXCEPT !.flags = flags, !.name = name, !.givenType = type]
<1>1. e \in Readable /\ \A x \in TextNames : e[x] = NULL
  <2>1. NULL \in OrNull(Texts) /\ ZeroType \in GivenTypes /\ {} \in SUBSET Flags
    BY DEF OrNull, ZeroType, GivenTypes
  <2> QED
    BY <2>1 DEF EmptyTest, Readable, TextNames
<1> HIDE DEF e
<1>2. DOMAIN e = FieldNames
  BY <1>1, ReadableFacts
<1>3. b \in Readable
  BY <1>1 DEF Readable
<1>4. b.flags = flags /\ b.name = name /\ b.givenType = type
  BY <1>2 DEF FieldNames
<1>5. \A x \in TextNames : b[x] = e[x]
  BY <1>2 DEF FieldNames, TextNames
<1>6. Begun(flags, name, type) = b
  BY DEF Begun, e
<1> QED
  BY <1>1, <1>3, <1>4, <1>5, <1>6

\* The numbers and the name of a test.
LEMMA BegunIsLacking ==
  ASSUME NEW t \in Readable
  PROVE  Begun(t.flags, t.name, t.givenType) = LacksTexts(t, 1)
<1> DEFINE b == Begun(t.flags, t.name, t.givenType)
           u == LacksTexts(t, 1)
<1>1. /\ b \in Readable /\ b.flags = t.flags /\ b.name = t.name /\ b.givenType = t.givenType
      /\ \A x \in TextNames : b[x] = NULL
  BY ReadableFacts, BegunFacts
<1>2. DOMAIN t = FieldNames
  BY ReadableFacts
<1>3. /\ u = [y \in FieldNames |-> u[y]]
      /\ \A y \in FieldNames :
           u[y] = IF \E l \in 1..7 : TextFields[l] = y THEN NULL ELSE t[y]
  BY <1>2, TextFieldsFacts DEF LacksTexts
<1> HIDE DEF b, u
<1>4. /\ b = [y \in FieldNames |-> b[y]] /\ b.flags = b["flags"] /\ b.name = b["name"]
      /\ b.givenType = b["givenType"]
  BY <1>1, ReadableFacts
<1>5. t.flags = t["flags"] /\ t.name = t["name"] /\ t.givenType = t["givenType"]
  BY ReadableFacts
<1>6. ASSUME NEW y \in FieldNames
      PROVE  b[y] = u[y]
  <2>1. CASE y \in TextNames
    <3>1. \E l \in 1..7 : TextFields[l] = y
      BY <2>1, TextFieldsFacts
    <3> QED
      BY <1>1, <1>3, <2>1, <3>1
  <2>2. CASE y \notin TextNames
    <3>1. ~\E l \in 1..7 : TextFields[l] = y
      BY <2>2, TextFieldsFacts
    <3>2. u[y] = t[y]
      BY <1>3, <3>1
    <3>3. y = "flags" \/ y = "name" \/ y = "givenType"
      BY <2>2 DEF FieldNames
    <3> QED
      BY <1>1, <1>4, <1>5, <3>2, <3>3
  <2> QED
    BY <2>1, <2>2
<1>7. b = u
  BY <1>3, <1>4, <1>6
<1> QED
  BY <1>7 DEF b, u

\* What is written of a test, with more data behind it.
LEMMA SerializedIs ==
  ASSUME NEW t \in Records, NEW d \in Seq(Cells)
  PROVE  /\ SerializedTest(t) \in Seq(Cells)
         /\ <<t.givenType>> \o (Joined(TextParts(t)) \o d) \in Seq(Cells)
         /\ StringField(t.name) \o (<<t.givenType>> \o (Joined(TextParts(t)) \o d)) \in Seq(Cells)
         /\ SerializedTest(t) \o d =
              <<Kind, t.flags>> \o
                (StringField(t.name) \o (<<t.givenType>> \o (Joined(TextParts(t)) \o d)))
<1> DEFINE a == <<Kind, t.flags>>
           n == StringField(t.name)
           g == <<t.givenType>>
           x == Joined(TextParts(t))
<1>0. <<>> \in Seq(Cells)
  BY EmptySeq
<1>1. a \in Seq(Cells)
  BY <1>0, RecordFacts, CellFacts, TwoCells
<1>2. n \in Seq(Cells)
  BY RecordFacts, FieldFacts
<1>3. g \in Seq(Cells)
  BY <1>0, RecordFacts, OneCell
<1>4. x \in Seq(Cells)
  BY <1>0, RecordFacts, TextPartsFacts, PartsRemain
<1>5. SerializedTest(t) = ((a \o n) \o g) \o x
  BY DEF SerializedTest, TextParts
<1> HIDE DEF a, n, g, x
<1>6. a \o n \in Seq(Cells) /\ x \o d \in Seq(Cells)
  BY <1>1, <1>2, <1>4, ConcatProperties
<1>7. (a \o n) \o g \in Seq(Cells) /\ g \o (x \o d) \in Seq(Cells)
  BY <1>3, <1>6, ConcatProperties
<1>8. ((a \o n) \o g) \o x \in Seq(Cells) /\ n \o (g \o (x \o d)) \in Seq(Cells)
  BY <1>2, <1>4, <1>7, ConcatProperties
<1>9. (((a \o n) \o g) \o x) \o d = ((a \o n) \o g) \o (x \o d)
  BY <1>4, <1>7, Reassociated
<1>10. ((a \o n) \o g) \o (x \o d) = (a \o n) \o (g \o (x \o d))
  BY <1>3, <1>6, Reassociated
<1>11. (a \o n) \o (g \o (x \o d)) = a \o (n \o (g \o (x \o d)))
  BY <1>1, <1>2, <1>7, Reassociated
<1>12. SerializedTest(t) \o d = a \o (n \o (g \o (x \o d)))
  BY <1>5, <1>9, <1>10, <1>11, Zenon
<1> QED
  BY <1>5, <1>7, <1>8, <1>12 DEF a, n, g, x

\* A test is read: its numbers and name, and then its texts.
LEMMA ReadingTest ==
  ASSUME NEW read, read.miss = FALSE, NEW flags \in Cells, NEW e \in Seq(Cells),
         read.rest = <<Kind, flags>> \o e
  PROVE  LET named == ReadString(e)
             whole == ReadTexts([test |-> Begun(flags, named.text, named.rest[1]),
                                 rest |-> Rest(named.rest, 1)])
         IN /\ named.rest = <<>> => ReadTest(read).miss = TRUE
            /\ named.rest # <<>> =>
                 ReadTest(read) = [miss |-> FALSE, tests |-> Append(read.tests, whole.test),
                                   rest |-> whole.rest]
<1> DEFINE named == ReadString(e)
           whole == ReadTexts([test |-> Begun(flags, named.text, named.rest[1]),
                               rest |-> Rest(named.rest, 1)])
<1>1. Len(e) \in Nat /\ Kind \in Cells
  BY LenProperties, CellFacts
<1>2. /\ read.rest[1] = Kind /\ read.rest[2] = flags /\ Rest(read.rest, 2) = e
      /\ Len(read.rest) = Len(e) + 2
  BY <1>1, TwoCells
<1>3. ~(Len(read.rest) < 2)
  BY <1>1, <1>2
<1>4. CASE named.rest = <<>>
  <2>1. ReadTest(read) = Miss(named.rest)
    BY <1>2, <1>3, <1>4 DEF ReadTest, TypeIsMissing
  <2> QED
    BY <1>4, <2>1 DEF Miss
<1>5. CASE named.rest # <<>>
  <2>1. ReadTest(read) = [miss |-> FALSE, tests |-> Append(read.tests, whole.test),
                          rest |-> whole.rest]
    BY <1>2, <1>3, <1>5 DEF ReadTest, TypeIsMissing, Begun
  <2> QED
    BY <1>5, <2>1
<1> QED
  BY <1>4, <1>5

\* A test is read back as it was written.
LEMMA ReadWhole ==
  ASSUME NEW t \in Records, NEW d \in Seq(Cells), NEW tests
  PROVE  ReadTest([miss |-> FALSE, tests |-> tests, rest |-> SerializedTest(t) \o d])
           = [miss |-> FALSE, tests |-> Append(tests, t), rest |-> d]
<1> DEFINE x == Joined(TextParts(t))
           g == <<t.givenType>> \o (x \o d)
           e == StringField(t.name) \o g
           read == [miss |-> FALSE, tests |-> tests, rest |-> SerializedTest(t) \o d]
<1>1. x \o d \in Seq(Cells)
  <2>1. x \in Seq(Cells)
    BY RecordFacts, TextPartsFacts, PartsRemain
  <2> QED
    BY <2>1, ConcatProperties
<1>2. g \in Seq(Cells) /\ e \in Seq(Cells) /\ SerializedTest(t) \o d = <<Kind, t.flags>> \o e
  BY SerializedIs
<1>3. g # <<>> /\ g[1] = t.givenType /\ Rest(g, 1) = x \o d
  <2> HIDE DEF x
  <2> QED
    BY <1>1, RecordFacts, OneCell
<1>4. ReadString(e) = [text |-> t.name, rest |-> g]
  <2> HIDE DEF g
  <2> QED
    BY <1>2, RecordFacts, ReadBack
<1>5. ReadTexts([test |-> LacksTexts(t, 1), rest |-> x \o d]) = [test |-> t, rest |-> d]
  BY RecordFacts, TextsWhole
<1>6. Begun(t.flags, t.name, t.givenType) = LacksTexts(t, 1)
  BY RecordFacts, BegunIsLacking
<1>7. read.miss = FALSE /\ read.rest = <<Kind, t.flags>> \o e /\ read.tests = tests
  BY <1>2
<1>8. t.flags \in Cells
  BY RecordFacts
<1> DEFINE named == ReadString(e)
           whole == ReadTexts([test |-> Begun(t.flags, named.text, named.rest[1]),
                               rest |-> Rest(named.rest, 1)])
<1>9. named.text = t.name /\ named.rest = g
  <2> HIDE DEF e, g
  <2> QED
    BY <1>4
<1>10. whole = [test |-> t, rest |-> d]
  <2> HIDE DEF named, g, x
  <2> QED
    BY <1>3, <1>5, <1>6, <1>9
<1> HIDE DEF g, e, read
<1>11. ReadTest(read) = [miss |-> FALSE, tests |-> Append(read.tests, whole.test), rest |-> whole.rest]
  BY <1>2, <1>3, <1>7, <1>8, <1>9, ReadingTest
<1> HIDE DEF whole, named
<1>12. ReadTest(read) = [miss |-> FALSE, tests |-> Append(tests, t), rest |-> d]
  BY <1>7, <1>10, <1>11
<1> QED
  BY <1>12 DEF read

\* Numbers that were cut are fewer.
LEMMA TornNumbers ==
  ASSUME NEW p \in Seq(Cells), \A i \in 1..Len(p) : p[i] # Length, NEW e, Torn(e, p)
  PROVE  e \in Seq(Cells) /\ Len(e) \in Nat /\ Len(e) < Len(p)
<1>1. PICK c \in 0..(Len(p) - 1), n \in Nat :
        (n > 0 => c > 0 /\ p[c] = Length) /\ e = Cut(p, c, n)
  BY DEF Torn
<1> DEFINE junk == [k \in 1..n |-> Chars]
           b == SubSeq(p, 1, c)
<1>2. Len(p) \in Nat /\ \A i \in 1..Len(p) : p[i] \in Cells
  BY LenProperties, ElementOfSeq
<1>3. n = 0
  BY <1>1, <1>2
<1>4. b \in Seq(Cells) /\ Len(b) = c
  <2>1. \A i \in 1..c : p[i] \in Cells
    BY <1>1, <1>2
  <2> QED
    BY <1>1, <2>1, SubSeqProperties
<1>5. junk \in Seq(Cells) /\ Len(junk) = 0
  BY <1>3, JunkFacts
<1>6. e = b \o junk
  BY <1>1 DEF Cut
<1> HIDE DEF b, junk
<1>7. e \in Seq(Cells) /\ Len(e) = Len(b) + Len(junk)
  BY <1>4, <1>5, <1>6, ConcatProperties
<1> QED
  BY <1>1, <1>2, <1>4, <1>5, <1>7

\* Characters are no test.
LEMMA TestJunk ==
  ASSUME NEW read, read.miss = FALSE, Junk(read.rest)
  PROVE  ReadTest(read).miss = TRUE
<1>1. Len(read.rest) < 2 \/ read.rest[1] # Kind
  <2> SUFFICES ASSUME ~(Len(read.rest) < 2) PROVE read.rest[1] # Kind
    OBVIOUS
  <2>1. read.rest # <<>>
    BY EmptySeq
  <2>2. read.rest[1] = Chars
    BY <2>1, RestOfJunk
  <2> QED
    BY <2>2, CellFacts
<1>2. ReadTest(read) = Miss(read.rest)
  BY <1>1 DEF ReadTest
<1> QED
  BY <1>2 DEF Miss

\* After a miss there is nothing but misses.
LEMMA StaysMiss ==
  ASSUME NEW read, read.miss = TRUE PROVE ReadTest(read).miss = TRUE
<1>1. ReadTest(read) = Miss(read.rest)
  BY DEF ReadTest
<1> QED
  BY <1>1 DEF Miss

\* What is read where a test was: none, the test, or what is left of it.
Becomes(r, tests, t, d) ==
  \/ r.miss = TRUE
  \/ r.miss = FALSE /\ r.tests = Append(tests, t) /\ Torn(r.rest, d)
  \/ r.miss = FALSE /\ Junk(r.rest) /\ \E u \in Suffered(t) : r.tests = Append(tests, u)

\* What is read where data was cut, in a test or behind it.
LEMMA ReadShort ==
  ASSUME NEW t \in Records, NEW d \in Seq(Cells), NEW read, read.miss = FALSE,
         Torn(read.rest, SerializedTest(t) \o d)
  PROVE  Becomes(ReadTest(read), read.tests, t, d)
<1> DEFINE r == ReadTest(read)
           a == <<Kind, t.flags>>
           s == StringField(t.name)
           x == Joined(TextParts(t))
           g == <<t.givenType>>
<1>0. <<>> \in Seq(Cells) /\ Kind \in Cells /\ t.flags \in Cells /\ t.givenType \in Cells
  BY EmptySeq, CellFacts, RecordFacts
<1>1. x \o d \in Seq(Cells)
  <2>1. x \in Seq(Cells)
    BY <1>0, RecordFacts, TextPartsFacts, PartsRemain
  <2> QED
    BY <2>1, ConcatProperties
<1>2. /\ g \o (x \o d) \in Seq(Cells) /\ s \o (g \o (x \o d)) \in Seq(Cells)
      /\ SerializedTest(t) \o d = a \o (s \o (g \o (x \o d)))
  BY SerializedIs
<1>3. /\ a \in Seq(Cells) /\ a # <<>> /\ Len(a) = 2 /\ a[1] = Kind /\ a[2] = t.flags
      /\ Kind # Length /\ t.flags # Length
  BY <1>0, CellFacts, RecordFacts, TwoCells
<1>4. \A i \in 1..Len(a) : a[i] # Length
  <2> HIDE DEF a
  <2>1. \A i \in 1..2 : i = 1 \/ i = 2
    OBVIOUS
  <2> QED
    BY <1>3, <2>1
<1>5. s \in Seq(Cells) /\ s # <<>> /\ s[Len(s)] # Length
  BY RecordFacts, FieldFacts
<1>6. g \in Seq(Cells) /\ g # <<>> /\ Len(g) = 1 /\ g[1] = t.givenType /\ t.givenType # Length
  BY <1>0, RecordFacts, OneCell
<1>7. Torn(read.rest, a) \/ \E e \in Seq(Cells) : read.rest = a \o e /\ Torn(e, s \o (g \o (x \o d)))
  <2> HIDE DEF a, s, g, x
  <2>1. a[Len(a)] # Length
    BY <1>3
  <2> QED
    BY <1>2, <1>3, <2>1, TornParts
<1>8. CASE Torn(read.rest, a)
  <2>1. Len(read.rest) \in Nat /\ Len(read.rest) < 2
    <3> HIDE DEF a
    <3> QED
      BY <1>3, <1>4, <1>8, TornNumbers
  <2>2. r = Miss(read.rest)
    BY <2>1 DEF ReadTest
  <2>3. r.miss = TRUE
    BY <2>2 DEF Miss
  <2> QED
    BY <2>3 DEF Becomes
<1>9. CASE \E e \in Seq(Cells) : read.rest = a \o e /\ Torn(e, s \o (g \o (x \o d)))
  <2>1. PICK e \in Seq(Cells) : read.rest = a \o e /\ Torn(e, s \o (g \o (x \o d)))
    BY <1>9
  <2> DEFINE named == ReadString(e)
             whole == ReadTexts([test |-> Begun(t.flags, named.text, named.rest[1]),
                                 rest |-> Rest(named.rest, 1)])
  <2>2. /\ named.rest = <<>> => r.miss = TRUE
        /\ named.rest # <<>> =>
             r = [miss |-> FALSE, tests |-> Append(read.tests, whole.test), rest |-> whole.rest]
    BY <1>0, <2>1, ReadingTest
  <2>3. CASE named.rest = <<>>
    BY <2>2, <2>3 DEF Becomes
  <2>4. CASE named.rest # <<>>
    <3>1. /\ r.miss = FALSE /\ r.tests = Append(read.tests, whole.test)
          /\ r.rest = whole.rest
      BY <2>2, <2>4
    <3>2. Torn(e, s) \/ \E b \in Seq(Cells) : e = s \o b /\ Torn(b, g \o (x \o d))
      <4> HIDE DEF s, g, x
      <4> QED
        BY <1>2, <1>5, <2>1, TornParts
    <3>3. CASE Torn(e, s)
      <4>1. named.text = NULL /\ Junk(named.rest)
        BY <3>3, RecordFacts, ReadTorn
      <4>2. named.rest[1] = Chars /\ Junk(Rest(named.rest, 1))
        BY <2>4, <4>1, RestOfJunk
      <4> DEFINE u == LacksName(t)
      <4>3. u = Begun(t.flags, NULL, Chars)
        BY DEF LacksName, Begun
      <4>4. u \in Readable /\ \A y \in TextNames : u[y] = NULL
        <5>1. NULL \in OrNull(Texts) /\ Chars \in GivenTypes \cup {Chars} /\ t.flags \in SUBSET Flags
          BY RecordFacts DEF OrNull
        <5> QED
          BY <4>3, <5>1, BegunFacts
      <4> HIDE DEF u
      <4>5. /\ DOMAIN u = FieldNames /\ u = [y \in FieldNames |-> u[y]]
            /\ \A k \in 1..7 : u[TextFields[k]] = NULL
        BY <4>4, ReadableFacts, TextFieldsFacts
      <4>6. whole = ReadTexts([test |-> u, rest |-> Rest(named.rest, 1)])
        <5> HIDE DEF named
        <5> QED
          BY <4>1, <4>2, <4>3
      <4> DEFINE w == Rest(named.rest, 1)
      <4>7. Junk(w)
        BY <4>2
      <4> HIDE DEF w
      <4>8. LET q == ReadTexts([test |-> u, rest |-> w]) IN q.test = u /\ Junk(q.rest)
        BY <4>5, <4>7, TextsJunk
      <4>9. whole.test = u /\ Junk(whole.rest)
        <5> HIDE DEF whole
        <5> QED
          BY <4>6, <4>8 DEF w
      <4>10. u \in Suffered(t)
        BY DEF Suffered, u
      <4> HIDE DEF whole, r
      <4>11. Becomes(r, read.tests, t, d)
        BY <3>1, <4>9, <4>10 DEF Becomes
      <4> QED
        BY <4>11 DEF r
    <3>4. CASE \E b \in Seq(Cells) : e = s \o b /\ Torn(b, g \o (x \o d))
      <4>1. PICK b \in Seq(Cells) : e = s \o b /\ Torn(b, g \o (x \o d))
        BY <3>4
      <4>2. named = [text |-> t.name, rest |-> b]
        BY <4>1, RecordFacts, ReadBack
      <4>3. named.text = t.name /\ named.rest = b
        <5> HIDE DEF named
        <5> QED
          BY <4>2
      <4>4. Torn(b, g) \/ \E f \in Seq(Cells) : b = g \o f /\ Torn(f, x \o d)
        <5> HIDE DEF g, x
        <5>1. g[Len(g)] # Length
          BY <1>6
        <5> QED
          BY <1>1, <1>6, <4>1, <5>1, TornParts
      <4>5. ~Torn(b, g)
        <5> SUFFICES ASSUME Torn(b, g) PROVE FALSE
          OBVIOUS
        <5>1. \A i \in 1..Len(g) : g[i] # Length
          <6> HIDE DEF g
          <6>1. \A i \in 1..1 : i = 1
            OBVIOUS
          <6> QED
            BY <1>6, <6>1
        <5>2. Len(b) \in Nat /\ Len(b) < 1
          <6> HIDE DEF g
          <6> QED
            BY <1>6, <5>1, TornNumbers
        <5>3. b = <<>>
          BY <5>2, EmptySeq
        <5> QED
          BY <2>4, <4>3, <5>3
      <4>6. PICK f \in Seq(Cells) : b = g \o f /\ Torn(f, x \o d)
        BY <4>4, <4>5
      <4>7. b[1] = t.givenType /\ Rest(b, 1) = f
        BY <1>0, <4>6, OneCell
      <4>8. Begun(t.flags, t.name, t.givenType) = LacksTexts(t, 1)
        BY RecordFacts, BegunIsLacking
      <4>9. whole = ReadTexts([test |-> LacksTexts(t, 1), rest |-> f])
        <5> HIDE DEF named
        <5> QED
          BY <4>3, <4>7, <4>8
      <4> HIDE DEF whole, r
      <4>10. \/ whole.test = t /\ Torn(whole.rest, d)
             \/ \E j \in 1..7 : whole.test = LacksTexts(t, j) /\ Junk(whole.rest)
        <5>1. LET q == ReadTexts([test |-> LacksTexts(t, 1), rest |-> f])
              IN \/ q.test = t /\ Torn(q.rest, d)
                 \/ \E j \in 1..7 : q.test = LacksTexts(t, j) /\ Junk(q.rest)
          BY <4>6, RecordFacts, TextsTorn
        <5> QED
          BY <4>9, <5>1
      <4>11. \A j \in 1..7 : LacksTexts(t, j) \in Suffered(t)
        BY TextFieldsFacts DEF Suffered
      <4>12. Becomes(r, read.tests, t, d)
        BY <3>1, <4>10, <4>11 DEF Becomes
      <4> QED
        BY <4>12 DEF r
    <3> QED
      BY <3>2, <3>3, <3>4
  <2> QED
    BY <2>3, <2>4
<1> QED
  BY <1>7, <1>8, <1>9
-----------------------------------------------------------------------------
(* A suite.                                                                *)

\* What is read of data that begins with three cells.
LEMMA ThreeCells ==
  ASSUME NEW x \in Cells, NEW y \in Cells, NEW z \in Cells, NEW d \in Seq(Cells)
  PROVE  /\ <<x, y, z>> \in Seq(Cells) /\ Len(<<x, y, z>>) = 3 /\ <<x, y, z>> # <<>>
         /\ <<x, y, z>>[1] = x /\ <<x, y, z>>[2] = y /\ <<x, y, z>>[3] = z
         /\ <<x, y, z>> \o d \in Seq(Cells)
         /\ (<<x, y, z>> \o d)[2] = y /\ (<<x, y, z>> \o d)[3] = z
         /\ Len(<<x, y, z>> \o d) = Len(d) + 3 /\ Rest(<<x, y, z>> \o d, 3) = d
<1> DEFINE h == <<x, y, z>>
<1>1. /\ h \in Seq(Cells) /\ Len(h) = 3 /\ h # <<>>
      /\ h[1] = x /\ h[2] = y /\ h[3] = z
  OBVIOUS
<1> HIDE DEF h
<1>2. Len(d) \in Nat
  BY LenProperties
<1>3. /\ h \o d \in Seq(Cells) /\ Len(h \o d) = Len(h) + Len(d)
      /\ \A i \in 1..Len(h) + Len(d) : (h \o d)[i] = IF i <= Len(h) THEN h[i] ELSE d[i - Len(h)]
  BY <1>1, ConcatProperties
<1>4. (h \o d)[2] = y /\ (h \o d)[3] = z
  <2>1. /\ 2 \in 1..Len(h) + Len(d) /\ 2 <= Len(h)
        /\ 3 \in 1..Len(h) + Len(d) /\ 3 <= Len(h)
    BY <1>1, <1>2
  <2>2. (h \o d)[2] = h[2] /\ (h \o d)[3] = h[3]
    BY <1>3, <2>1
  <2> QED
    BY <1>1, <2>2
<1>5. Len(h \o d) = Len(d) + 3
  BY <1>1, <1>2, <1>3
<1>6. Rest(h \o d, 3) = d
  BY <1>1, RestOfConcat
<1> QED
  BY <1>1, <1>3, <1>4, <1>5, <1>6 DEF h

\* Tests are read one after the other.
TestsRead(start, n, f) ==
  f = [k \in 0..n |-> IF k = 0 THEN start ELSE ReadTest(f[k - 1])]

\* The tests can be read one after the other, however many they are.
LEMMA TestsAreRead ==
  ASSUME NEW N \in Nat, NEW start PROVE \E f : TestsRead(start, N, f)
<1> DEFINE Steps(f, n) == f = [k \in 0..n |-> IF k = 0 THEN start ELSE ReadTest(f[k - 1])]
           S == {n \in 0..N : \E f : Steps(f, n)}
<1>1. 0 \in S
  <2> DEFINE g == [k \in 0..0 |-> start]
  <2>1. g = [k \in 0..0 |-> IF k = 0 THEN start ELSE ReadTest(g[k - 1])]
    <3>1. \A k \in 0..0 : k = 0
      OBVIOUS
    <3> QED
      BY <3>1
  <2>2. Steps(g, 0)
    BY <2>1
  <2> HIDE DEF Steps, g
  <2> QED
    BY <2>2
<1>2. ASSUME NEW n \in 0..N, n \in S, n # N
      PROVE  n + 1 \in S
  <2>1. PICK f : Steps(f, n)
    BY <1>2
  <2> DEFINE m == n + 1
             g == [k \in 0..m |-> IF k = m THEN ReadTest(f[n]) ELSE f[k]]
  <2>2. m \in 0..N /\ m - 1 = n /\ m # 0
    BY <1>2
  <2>3. \A k \in 0..m : g[k] = IF k = 0 THEN start ELSE ReadTest(g[k - 1])
    <3> SUFFICES ASSUME NEW k \in 0..m
                 PROVE  g[k] = IF k = 0 THEN start ELSE ReadTest(g[k - 1])
      OBVIOUS
    <3>1. CASE k = m
      <4>1. n \in 0..m /\ n # m /\ m \in 0..m /\ k - 1 = n /\ k # 0
        BY <3>1
      <4>2. g[n] = f[n] /\ g[m] = ReadTest(f[n])
        BY <4>1
      <4> HIDE DEF g
      <4> QED
        BY <3>1, <4>1, <4>2
    <3>2. CASE k # m
      <4>1. k \in 0..n /\ (k # 0 => k - 1 \in 0..m /\ k - 1 # m)
        BY <3>2
      <4>2. f[k] = IF k = 0 THEN start ELSE ReadTest(f[k - 1])
        BY <2>1, <4>1
      <4>3. g[k] = f[k] /\ (k # 0 => g[k - 1] = f[k - 1])
        BY <3>2, <4>1
      <4> HIDE DEF g
      <4> QED
        BY <4>2, <4>3
    <3> QED
      BY <3>1, <3>2
  <2>4. Steps(g, m)
    <3>1. g = [k \in 0..m |-> g[k]]
      OBVIOUS
    <3> HIDE DEF g
    <3> QED
      BY <2>3, <3>1
  <2> HIDE DEF Steps, g
  <2> QED
    BY <2>2, <2>4
<1>3. N \in S
  <2> HIDE DEF S
  <2> QED
    BY <1>1, <1>2, Reached
<1> HIDE DEF Steps
<1>4. PICK f : Steps(f, N)
  BY <1>3
<1>5. TestsRead(start, N, f)
  BY <1>4 DEF Steps, TestsRead
<1> QED
  BY <1>5

Opened(rest) == [miss |-> FALSE, tests |-> <<>>, rest |-> rest]

\* The suite is what was read after the last test.
LEMMA DeserializedIs ==
  ASSUME NEW name \in Cells, name # Chars, NEW n \in Nat, NEW d \in Seq(Cells)
  PROVE  \E f : /\ f[0] = Opened(d) /\ f[n] = Deserialized(<<Length, name, n>> \o d)
                /\ \A k \in 1..n : f[k] = ReadTest(f[k - 1])
<1> DEFINE data == <<Length, name, n>> \o d
           Steps(f) == TestsRead(Opened(d), n, f)
           h == CHOOSE f : Steps(f)
<1>1. Length \in Cells /\ n \in Cells /\ Len(d) \in Nat
  BY CellFacts, LenProperties DEF Cells
<1>2. data[2] = name /\ data[3] = n /\ Len(data) = Len(d) + 3 /\ Rest(data, 3) = d
  BY <1>1, ThreeCells
<1> HIDE DEF data
<1>3. ~(Len(data) < 3) /\ data[2] # Chars
  BY <1>1, <1>2
<1>4. Deserialized(data) = h[n]
  BY <1>2, <1>3 DEF Deserialized, Opened, TestsRead
<1>5. Steps(h)
  <2>1. \E f : Steps(f)
    BY TestsAreRead
  <2> HIDE DEF Steps
  <2> QED
    BY <2>1
<1> HIDE DEF h
<1>6. \A k \in 0..n : h[k] = IF k = 0 THEN Opened(d) ELSE ReadTest(h[k - 1])
  BY <1>5 DEF TestsRead
<1>7. 0 \in 0..n /\ \A k \in 1..n : k \in 0..n /\ k # 0
  OBVIOUS
<1> HIDE DEF Steps
<1>8. h[0] = Opened(d) /\ \A k \in 1..n : h[k] = ReadTest(h[k - 1])
  BY <1>6, <1>7
<1> QED
  BY <1>4, <1>8 DEF data

TestParts(suite) == [k \in 1..Len(suite) |-> SerializedTest(suite[k])]

\* What there is to read from each test of a suite on.
LEMMA SuiteFacts ==
  ASSUME NEW suite \in Seq(Records)
  PROVE  /\ Len(suite) \in Nat /\ \A k \in 1..Len(suite) : suite[k] \in Records
         /\ \E rem : /\ rem[0] = Joined(TestParts(suite)) /\ rem[Len(suite)] = <<>>
                     /\ \A k \in 0..Len(suite) : rem[k] \in Seq(Cells)
                     /\ \A k \in 1..Len(suite) : rem[k - 1] = SerializedTest(suite[k]) \o rem[k]
<1> DEFINE n == Len(suite)
           parts == TestParts(suite)
<1>1. n \in Nat /\ \A k \in 1..n : suite[k] \in Records
  BY LenProperties, ElementOfSeq
<1> HIDE DEF n
<1>2. <<>> \in Seq(Cells)
  BY EmptySeq
<1>3. \A k \in 1..n : SerializedTest(suite[k]) \in Seq(Cells)
  BY <1>1, <1>2, SerializedIs
<1>4. parts = [k \in 1..n |-> SerializedTest(suite[k])]
  BY DEF TestParts, n
<1> HIDE DEF parts
<1>5. parts \in [1..n -> Seq(Cells)] /\ \A k \in 1..n : parts[k] = SerializedTest(suite[k])
  BY <1>3, <1>4
<1>6. parts \in Seq(Seq(Cells)) /\ Len(parts) = n
  BY <1>1, <1>5, FunctionIsSeq
<1>7. Joined(parts) \in Seq(Cells) /\ \E rem : Remains(parts, <<>>, rem)
  BY <1>2, <1>6, PartsRemain
<1>8. PICK rem : Remains(parts, <<>>, rem)
  BY <1>7
<1>9. Joined(parts) \o <<>> = Joined(parts)
  BY <1>7, ConcatEmptySeq
<1>10. /\ rem[0] = Joined(parts) /\ rem[n] = <<>> /\ \A k \in 0..n : rem[k] \in Seq(Cells)
       /\ \A k \in 1..n : rem[k - 1] = SerializedTest(suite[k]) \o rem[k]
  BY <1>5, <1>6, <1>8, <1>9 DEF Remains
<1> QED
  BY <1>1, <1>10 DEF n, parts

\* One more test of a suite.
LEMMA Prefix ==
  ASSUME NEW S, NEW s \in Seq(S), NEW k \in 1..Len(s)
  PROVE  /\ SubSeq(s, 1, k - 1) \in Seq(S) /\ Len(SubSeq(s, 1, k - 1)) = k - 1
         /\ Append(SubSeq(s, 1, k - 1), s[k]) = SubSeq(s, 1, k)
<1>1. Len(s) \in Nat /\ \A i \in 1..Len(s) : s[i] \in S
  BY LenProperties, ElementOfSeq
<1>2. SubSeq(s, 1, k - 1) \in Seq(S) /\ Len(SubSeq(s, 1, k - 1)) = k - 1
  <2>1. \A i \in 1..(k - 1) : s[i] \in S
    BY <1>1
  <2>2. k - 1 \in Int /\ 1 \in Int
    BY <1>1
  <2>3. /\ SubSeq(s, 1, k - 1) \in Seq(S)
        /\ Len(SubSeq(s, 1, k - 1)) = IF 1 <= k - 1 THEN (k - 1) - 1 + 1 ELSE 0
    BY <2>1, <2>2, SubSeqProperties
  <2> QED
    BY <1>1, <2>3
<1>3. SubSeq(s, 1, k) = SubSeq(s, 1, k - 1) \o <<s[k]>>
  <2>1. 1 \in 1..Len(s) /\ k \in 1..Len(s)
    BY <1>1
  <2> QED
    BY <2>1, SubSeqRecursiveSecond
<1>4. Append(SubSeq(s, 1, k - 1), s[k]) = SubSeq(s, 1, k - 1) \o <<s[k]>>
  BY <1>1, <1>2, AppendIsConcat
<1> QED
  BY <1>2, <1>3, <1>4

\* A suite is read back as it was written.
LEMMA SuiteWhole ==
  ASSUME NEW suite \in Seq(Records), NEW name \in Cells, name # Chars
  PROVE  Deserialized(Serialized(name, suite)) = [miss |-> FALSE, tests |-> suite, rest |-> <<>>]
<1> DEFINE n == Len(suite)
           d == Joined(TestParts(suite))
           Is(x, k, r) == x = [miss |-> FALSE, tests |-> SubSeq(suite, 1, k), rest |-> r]
<1>1. PICK rem : /\ rem[0] = d /\ rem[n] = <<>>
                 /\ \A k \in 0..n : rem[k] \in Seq(Cells)
                 /\ \A k \in 1..n : rem[k - 1] = SerializedTest(suite[k]) \o rem[k]
  BY SuiteFacts
<1>2. n \in Nat /\ \A k \in 1..n : suite[k] \in Records
  BY SuiteFacts
<1>3. Serialized(name, suite) = <<Length, name, n>> \o d
  BY DEF Serialized, TestParts
<1>4. d \in Seq(Cells)
  <2>1. 0 \in 0..n
    BY <1>2
  <2> QED
    BY <1>1, <2>1
<1> HIDE DEF d
<1>5. PICK f : /\ f[0] = Opened(d) /\ f[n] = Deserialized(<<Length, name, n>> \o d)
               /\ \A k \in 1..n : f[k] = ReadTest(f[k - 1])
  BY <1>2, <1>4, DeserializedIs
<1> DEFINE S == {k \in 0..n : Is(f[k], k, rem[k])}
<1>6. 0 \in S
  <2>1. SubSeq(suite, 1, 0) = <<>>
    BY SubSeqEmpty
  <2>2. Is(f[0], 0, rem[0])
    BY <1>1, <1>5, <2>1 DEF Opened
  <2> HIDE DEF Is
  <2> QED
    BY <1>2, <2>2
<1>7. ASSUME NEW m \in 0..n, m \in S, m # n
      PROVE  m + 1 \in S
  <2> DEFINE k == m + 1
  <2>1. k \in 1..n /\ k \in 0..n /\ k - 1 = m
    BY <1>2, <1>7
  <2>2. f[m] = [miss |-> FALSE, tests |-> SubSeq(suite, 1, k - 1), rest |-> rem[m]]
    BY <1>7, <2>1
  <2> HIDE DEF k
  <2>3. /\ f[k] = ReadTest(f[m]) /\ rem[m] = SerializedTest(suite[k]) \o rem[k]
        /\ rem[k] \in Seq(Cells) /\ suite[k] \in Records
    BY <1>1, <1>2, <1>5, <2>1
  <2>4. f[k] = [miss |-> FALSE, tests |-> Append(SubSeq(suite, 1, k - 1), suite[k]), rest |-> rem[k]]
    <3> DEFINE tests == SubSeq(suite, 1, k - 1)
               before == [miss |-> FALSE, tests |-> tests,
                          rest |-> SerializedTest(suite[k]) \o rem[k]]
               after  == [miss |-> FALSE, tests |-> Append(tests, suite[k]), rest |-> rem[k]]
    <3>1. f[m] = before
      BY <2>2, <2>3
    <3> HIDE DEF tests
    <3>2. ReadTest(before) = after
      <4> DEFINE x == suite[k]
                 y == rem[k]
      <4>1. x \in Records /\ y \in Seq(Cells)
        BY <2>3
      <4> HIDE DEF x, y
      <4>2. ReadTest([miss |-> FALSE, tests |-> tests, rest |-> SerializedTest(x) \o y])
              = [miss |-> FALSE, tests |-> Append(tests, x), rest |-> y]
        BY <4>1, ReadWhole
      <4> QED
        BY <4>2 DEF x, y
    <3> HIDE DEF before, after
    <3>3. f[k] = after
      BY <2>3, <3>1, <3>2
    <3> QED
      BY <3>3 DEF after, tests
  <2>5. Append(SubSeq(suite, 1, k - 1), suite[k]) = SubSeq(suite, 1, k)
    BY <2>1, Prefix
  <2>6. Is(f[k], k, rem[k])
    BY <2>4, <2>5
  <2> HIDE DEF Is
  <2>7. k \in S
    BY <2>1, <2>6
  <2> QED
    BY <2>7 DEF k
<1>8. n \in S
  <2> HIDE DEF S
  <2> QED
    BY <1>2, <1>6, <1>7, Reached
<1>9. f[n] = [miss |-> FALSE, tests |-> SubSeq(suite, 1, n), rest |-> <<>>]
  BY <1>1, <1>8
<1>10. SubSeq(suite, 1, n) = suite
  BY SubSeqFull
<1> QED
  BY <1>3, <1>5, <1>9, <1>10

\* What was written of a suite before the first test is a miss.
LEMMA HeadTorn ==
  ASSUME NEW name \in Cells, name \notin {Length, Chars}, NEW n \in Nat, NEW e,
         Torn(e, <<Length, name, n>>)
  PROVE  Deserialized(e).miss = TRUE
<1> DEFINE p == <<Length, name, n>>
<1>1. PICK c \in 0..(Len(p) - 1), j \in Nat :
        (j > 0 => c > 0 /\ p[c] = Length) /\ e = Cut(p, c, j)
  BY DEF Torn
<1> DEFINE junk == [k \in 1..j |-> Chars]
           b == SubSeq(p, 1, c)
<1>2. <<>> \in Seq(Cells) /\ Length \in Cells /\ n \in Cells /\ n # Length
  BY EmptySeq, CellFacts, StoreAssumption DEF Cells
<1>3. /\ p \in Seq(Cells) /\ Len(p) = 3 /\ p[1] = Length /\ p[2] = name /\ p[3] = n
  BY <1>2, ThreeCells
<1> HIDE DEF p
<1>4. c \in 0..2 /\ \A i \in 1..3 : p[i] \in Cells
  <2>1. c \in 0..2
    BY <1>1, <1>3
  <2>2. p[1] \in Cells /\ p[2] \in Cells /\ p[3] \in Cells
    BY <1>2, <1>3
  <2>3. ASSUME NEW i \in 1..3
        PROVE  p[i] \in Cells
    <3>1. i = 1 \/ i = 2 \/ i = 3
      BY <2>3
    <3> QED
      BY <2>2, <3>1
  <2> QED
    BY <2>1, <2>3
<1>5. b \in Seq(Cells) /\ Len(b) = c
  <2>1. \A i \in 1..c : p[i] \in Cells
    BY <1>4
  <2> QED
    BY <1>4, <2>1, SubSeqProperties
<1>6. junk \in Seq(Cells) /\ Len(junk) = j /\ (j > 0 => junk[1] = Chars)
  BY JunkFacts
<1>7. e = b \o junk
  BY <1>1 DEF Cut
<1> HIDE DEF b, junk
<1>8. /\ Len(e) = c + j
      /\ \A i \in 1..(c + j) : e[i] = IF i <= c THEN b[i] ELSE junk[i - c]
  BY <1>5, <1>6, <1>7, ConcatProperties
<1>9. Len(e) < 3 \/ e[2] = Chars
  <2>1. CASE j = 0
    BY <1>4, <1>8, <2>1
  <2>2. CASE j # 0
    <3>1. c = 1
      <4>1. p[c] = Length /\ c \in 1..2
        BY <1>1, <1>4, <2>2
      <4>2. p[2] # Length
        BY <1>3
      <4> QED
        BY <4>1, <4>2
    <3>2. 2 \in 1..(c + j) /\ ~(2 <= c) /\ 2 - c = 1
      BY <2>2, <3>1
    <3>3. e[2] = junk[1]
      BY <1>8, <3>2
    <3> QED
      BY <1>6, <2>2, <3>3
  <2> QED
    BY <2>1, <2>2
<1>10. Deserialized(e) = Miss(e)
  BY <1>9 DEF Deserialized
<1> QED
  BY <1>10 DEF Miss

\* A suite whose data was cut is none, or only its last test has suffered.
LEMMA SuiteTorn ==
  ASSUME NEW suite \in Seq(Records), NEW name \in Cells, name \notin {Length, Chars},
         NEW e, Torn(e, Serialized(name, suite))
  PROVE  Deserialized(e).miss \/ LastSuffers(suite, Deserialized(e).tests)
<1> DEFINE n == Len(suite)
           d == Joined(TestParts(suite))
           p == <<Length, name, n>>
<1>1. PICK rem : /\ rem[0] = d /\ rem[n] = <<>>
                 /\ \A k \in 0..n : rem[k] \in Seq(Cells)
                 /\ \A k \in 1..n : rem[k - 1] = SerializedTest(suite[k]) \o rem[k]
  BY SuiteFacts
<1>2. n \in Nat /\ \A k \in 1..n : suite[k] \in Records
  BY SuiteFacts
<1>3. Serialized(name, suite) = p \o d
  BY DEF Serialized, TestParts
<1>4. d \in Seq(Cells)
  <2>1. 0 \in 0..n
    BY <1>2
  <2> QED
    BY <1>1, <2>1
<1> HIDE DEF d, n
<1>5. p \in Seq(Cells) /\ p # <<>> /\ p[Len(p)] # Length
  <2>1. <<>> \in Seq(Cells) /\ Length \in Cells /\ n \in Cells /\ n # Length
    BY <1>2, EmptySeq, CellFacts, StoreAssumption DEF Cells
  <2>2. p \in Seq(Cells) /\ p # <<>> /\ Len(p) = 3 /\ p[3] = n
    BY <2>1, ThreeCells
  <2> HIDE DEF p
  <2> QED
    BY <2>1, <2>2
<1>6. Torn(e, p) \/ \E b \in Seq(Cells) : e = p \o b /\ Torn(b, d)
  <2> HIDE DEF p
  <2> QED
    BY <1>3, <1>4, <1>5, TornParts
<1>7. CASE Torn(e, p)
  BY <1>2, <1>7, HeadTorn
<1>8. CASE \E b \in Seq(Cells) : e = p \o b /\ Torn(b, d)
  <2>1. PICK b \in Seq(Cells) : e = p \o b /\ Torn(b, d)
    BY <1>8
  <2>2. PICK f : /\ f[0] = Opened(b) /\ f[n] = Deserialized(p \o b)
                 /\ \A k \in 1..n : f[k] = ReadTest(f[k - 1])
    BY <1>2, DeserializedIs
  <2> DEFINE Goes(k) == f[k].miss = FALSE /\ f[k].tests = SubSeq(suite, 1, k) /\ Torn(f[k].rest, rem[k])
             Ends(k) == /\ f[k].miss = FALSE /\ Junk(f[k].rest)
                        /\ k \in 1..n /\ \E u \in Suffered(suite[k]) :
                                           f[k].tests = Append(SubSeq(suite, 1, k - 1), u)
             Fails(k) == f[k].miss = TRUE
             S == {k \in 0..n : Goes(k) \/ Ends(k) \/ Fails(k)}
  <2>3. 0 \in S
    <3>1. SubSeq(suite, 1, 0) = <<>>
      BY SubSeqEmpty
    <3>2. Goes(0)
      BY <1>1, <2>1, <2>2, <3>1 DEF Opened
    <3> HIDE DEF Goes, Ends, Fails
    <3> QED
      BY <1>2, <3>2
  <2>4. ASSUME NEW m \in 0..n, m \in S, m # n
        PROVE  m + 1 \in S
    <3> DEFINE k == m + 1
    <3>1. k \in 1..n /\ k \in 0..n /\ k - 1 = m
      BY <1>2, <2>4
    <3>2. Goes(m) \/ Ends(m) \/ Fails(m)
      BY <2>4
    <3>3. f[k] = ReadTest(f[m])
      <4> HIDE DEF k
      <4> QED
        BY <2>2, <3>1
    <3>4. CASE Goes(m)
      <4>1. /\ f[m].miss = FALSE /\ f[m].tests = SubSeq(suite, 1, k - 1)
            /\ Torn(f[m].rest, rem[m])
        BY <3>1, <3>4
      <4> HIDE DEF k
      <4>2. /\ rem[m] = SerializedTest(suite[k]) \o rem[k]
            /\ rem[k] \in Seq(Cells) /\ suite[k] \in Records
        BY <1>1, <1>2, <3>1
      <4>3. Torn(f[m].rest, SerializedTest(suite[k]) \o rem[k])
        BY <4>1, <4>2
      <4>4. Becomes(f[k], f[m].tests, suite[k], rem[k])
        BY <3>3, <4>1, <4>2, <4>3, ReadShort
      <4>5. Becomes(f[k], SubSeq(suite, 1, k - 1), suite[k], rem[k])
        BY <4>1, <4>4
      <4>6. Append(SubSeq(suite, 1, k - 1), suite[k]) = SubSeq(suite, 1, k)
        <5> HIDE DEF Goes, Ends, Fails
        <5> QED
          BY <3>1, Prefix DEF n
      <4>7. Goes(k) \/ Ends(k) \/ Fails(k)
        BY <3>1, <4>5, <4>6 DEF Becomes
      <4> HIDE DEF Goes, Ends, Fails
      <4>8. k \in S
        BY <3>1, <4>7
      <4> QED
        BY <4>8 DEF k
    <3>5. CASE Ends(m) \/ Fails(m)
      <4>1. Fails(k)
        <5> HIDE DEF k
        <5> QED
          BY <3>3, <3>5, TestJunk, StaysMiss
      <4> HIDE DEF Goes, Ends, Fails, k
      <4>2. k \in S
        BY <3>1, <4>1
      <4> QED
        BY <4>2 DEF k
    <3> QED
      BY <3>2, <3>4, <3>5
  <2>5. n \in S
    <3> HIDE DEF S
    <3> QED
      BY <1>2, <2>3, <2>4, Reached
  <2>6. Goes(n) \/ Ends(n) \/ Fails(n)
    BY <2>5
  <2>7. ~Goes(n)
    <3> SUFFICES ASSUME Torn(f[n].rest, <<>>) PROVE FALSE
      BY <1>1
    <3>1. Len(<<>>) = 0 /\ \A c \in 0..(0 - 1) : FALSE
      OBVIOUS
    <3> QED
      BY <3>1 DEF Torn
  <2>8. ASSUME Ends(n)
        PROVE  LastSuffers(suite, f[n].tests)
    <3>1. n \in 1..n
      BY <2>8
    <3>2. PICK u \in Suffered(suite[n]) : f[n].tests = Append(SubSeq(suite, 1, n - 1), u)
      BY <2>8
    <3>3. Append(SubSeq(suite, 1, n - 1), u) = [suite EXCEPT ![n] = u]
      <4> DEFINE s == SubSeq(suite, 1, n - 1)
                 X == Records \cup {u}
                 a == Append(s, u)
                 v == [suite EXCEPT ![n] = u]
      <4>1. suite \in Seq(X) /\ u \in X
        BY SeqMonotonic
      <4> HIDE DEF X
      <4>2. s \in Seq(X) /\ Len(s) = n - 1
        BY <3>1, <4>1, Prefix DEF n
      <4>3. \A i \in 1..(n - 1) : s[i] = suite[i]
        <5>1. \A i \in 1..(n - 1) : suite[i] \in Records
          BY <1>2
        <5>2. 1 \in Int /\ n - 1 \in Int
          BY <1>2
        <5>3. \A i \in 1..(n - 1) - 1 + 1 : SubSeq(suite, 1, n - 1)[i] = suite[1 + i - 1]
          BY <5>1, <5>2, SubSeqProperties
        <5>4. (n - 1) - 1 + 1 = n - 1 /\ \A i \in 1..(n - 1) : 1 + i - 1 = i
          BY <1>2
        <5> QED
          BY <5>3, <5>4
      <4> HIDE DEF s
      <4>4. /\ a \in Seq(X) /\ Len(a) = n /\ a[n] = u
            /\ \A i \in 1..(n - 1) : a[i] = s[i]
        <5>1. /\ a \in Seq(X) /\ Len(a) = Len(s) + 1
              /\ \A i \in 1..Len(s) : a[i] = s[i]
              /\ a[Len(s) + 1] = u
          BY <4>1, <4>2, AppendProperties
        <5>2. Len(s) + 1 = n
          BY <1>2, <4>2
        <5> QED
          BY <4>2, <5>1, <5>2
      <4>5. /\ v \in Seq(X) /\ Len(v) = n
            /\ \A i \in 1..n : v[i] = IF i = n THEN u ELSE suite[i]
        BY <3>1, <4>1, ExceptSeq DEF n
      <4> HIDE DEF a, v
      <4>6. \A i \in 1..n : a[i] = v[i]
        <5> SUFFICES ASSUME NEW i \in 1..n PROVE a[i] = v[i]
          OBVIOUS
        <5>1. CASE i = n
          BY <4>4, <4>5, <5>1
        <5>2. CASE i # n
          <6>1. i \in 1..(n - 1)
            BY <1>2, <5>2
          <6> QED
            BY <4>3, <4>4, <4>5, <5>2, <6>1
        <5> QED
          BY <5>1, <5>2
      <4>7. a = v
        BY <4>4, <4>5, <4>6, SeqEqual
      <4> QED
        BY <4>7 DEF a, v, s
    <3>4. n \in DOMAIN suite /\ n = Len(suite)
      <4>1. DOMAIN suite = 1..Len(suite)
        BY LenProperties
      <4> QED
        BY <3>1, <4>1 DEF n
    <3> QED
      BY <3>2, <3>3, <3>4 DEF LastSuffers
  <2>9. f[n].miss = TRUE \/ LastSuffers(suite, f[n].tests)
    BY <2>6, <2>7, <2>8
  <2>10. f[n] = Deserialized(e)
    BY <2>1, <2>2
  <2> HIDE DEF p
  <2> QED
    BY <2>9, <2>10
<1> QED
  BY <1>6, <1>7, <1>8

\* A suite of any number of tests is restored as it was compiled; and when it was cut
\* anywhere, also in the middle of a text and with any number of its characters left,
\* it is a miss, or no test but the last has suffered (serialize_test_suite and
\* deserialize_test_suite of cache.c).
THEOREM AnySuite ==
  ASSUME NEW suite \in Seq(Records)
  PROVE  /\ RestoredAsCompiled(suite)
         /\ \A e : Torn(e, Serialized("name", suite)) =>
              Deserialized(e).miss \/ LastSuffers(suite, Deserialized(e).tests)
<1>1. "name" \in Cells /\ "name" \notin {Length, Chars}
  BY CellFacts DEF Cells
<1>2. RestoredAsCompiled(suite)
  BY <1>1, SuiteWhole DEF RestoredAsCompiled
<1> QED
  BY <1>1, <1>2, SuiteTorn

\* The cuts of the run are among them.
LEMMA CutsAreTorn ==
  ASSUME NEW suite \in Seq(Records)
  PROVE  CutIsMissOrLacksTexts(suite)
<1> DEFINE data == Serialized("name", suite)
<1>1. ASSUME NEW cells \in 0..(Len(data) - 1), NEW n \in {0, 1, Len(TextFields) + 2},
             n > 0 => cells > 0 /\ data[cells] = Length
      PROVE  LET r == Deserialized(Cut(data, cells, n))
             IN r.miss \/ LastSuffers(suite, r.tests)
  <2>1. n \in Nat
    BY TextFieldsFacts
  <2>2. Torn(Cut(data, cells, n), data)
    <3> HIDE DEF data
    <3> QED
      BY <1>1, <2>1 DEF Torn
  <2> QED
    BY <2>2, AnySuite
<1> QED
  BY <1>1 DEF CutIsMissOrLacksTexts

\* What the cache gives back of a compiled test is what was compiled, and data that
\* was cut short is a miss or lacks texts of its last test, for tests of any
\* requirements and texts.
THEOREM Faithful == Spec => []StoreIsFaithful
<1>1. TypeOK => StoreIsFaithful
  <2> SUFFICES ASSUME TypeOK
               PROVE  RestoredAsCompiled(<<test, test>>) /\ CutIsMissOrLacksTexts(<<test, test>>)
    BY DEF StoreIsFaithful
  <2>1. test \in Records
    BY DEF TypeOK, Records, GivenTypes
  <2>2. <<test, test>> \in Seq(Records)
    BY <2>1
  <2> QED
    BY <2>2, AnySuite, CutsAreTorn
<1> QED
  BY <1>1, TypeCorrect, PTL
=============================================================================
