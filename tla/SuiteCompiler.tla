--------------------------- MODULE SuiteCompiler ---------------------------
(***************************************************************************)
(* The compiler (compiler.c): a parsed test, which is a list of            *)
(* requirements with their arguments, is compiled into the record that the *)
(* test runner and the cache work on.  Requirements are compiled one after *)
(* the other into the same record, so a later one meets what an earlier    *)
(* one left there.                                                         *)
(*                                                                         *)
(* Texts are atoms: of an argument it matters whether it is empty, has a   *)
(* path separator or mentions {{file}}, and which keyword it is.  Messages *)
(* of fatal errors are left out: a test is compiled or it is not.          *)
(***************************************************************************)
EXTENDS Integers, Sequences, FiniteSets

CONSTANTS
  Texts,     \* every name, argument value and content
  Slashed,   \* the texts with a '/'
  WithFile,  \* the texts with a {{file}} placeholder
  ParsedTests   \* the tests to compile: what the parser may return

ASSUME TextAssumption ==
  /\ {"", "none", "file", "reference", "stdin", "stdout", "stderr"} \subseteq Texts
  /\ "NULL" \notin Texts
  /\ Slashed \subseteq Texts \ {""} /\ WithFile \subseteq Texts \ {""}

NULL    == "NULL"
Unnamed == "unnamed"   \* argument->name == NULL

\* A requirement, and a test: what make_ast_requirement and make_ast_test hold.
Arguments    == [name : {Unnamed, "type", "filename", "path", "program", "args",
                         "stream", "name", "other"},
                 value : Texts]
Requirements == [name : {"given", "whenRun", "expectOutput", "shouldBeSkipped", "other"},
                 arguments : Seq(Arguments), content : Texts \cup {NULL}]
AstTests     == [arguments : Seq(Arguments), requirements : Seq(Requirements)]

ASSUME ParsedAssumption == ParsedTests \subseteq AstTests

VARIABLES
  ast,   \* ast_test
  at,    \* the requirement to compile next
  test,  \* the program_runner_test
  pc     \* "arguments", "requirements", then "compiled" or "fatal"

vars == <<ast, at, test, pc>>

GarbageType == "garbage"   \* mutant: the memory of the test is not zeroed

\* Zeroed memory is a test with TEST_PROGRAM_RUNNER_GIVEN_TYPE_NONE.
ZeroType == "none"

EmptyTest ==
  [name |-> NULL, givenType |-> ZeroType, givenFilename |-> NULL,
   givenContent |-> NULL, givenPath |-> NULL, program |-> NULL, args |-> NULL,
   stdout |-> NULL, stderr |-> NULL, flags |-> {}]

Init ==
  /\ ast \in ParsedTests
  /\ at = 1
  /\ test = EmptyTest
  /\ pc = "arguments"

Fatal == pc' = "fatal" /\ UNCHANGED <<ast, at, test>>

\* The value of the last argument with one of these names.
Value(arguments, names) ==
  LET I == {i \in DOMAIN arguments : arguments[i].name \in names}
  IN IF I = {} THEN NULL
     ELSE arguments[CHOOSE i \in I : \A k \in I : k <= i].value

\* An argument that may be unnamed cannot be named once it is there (but may
\* be unnamed once it is named).
NamedTwice(arguments, name) ==
  \E i, k \in DOMAIN arguments :
    k < i /\ arguments[i].name = name /\ arguments[k].name \in {Unnamed, name}

Repeated(arguments, name) ==
  \E i, k \in DOMAIN arguments : k < i /\ arguments[i].name = name /\ arguments[k].name = name

OnlyNames(arguments, names) == \A i \in DOMAIN arguments : arguments[i].name \in names
-----------------------------------------------------------------------------
(* test_arguments_compiler, once there is a compiler for the test.         *)

HasCompiler == \E i \in DOMAIN ast.requirements : ast.requirements[i].name = "whenRun"

Name == Value(ast.arguments, {Unnamed, "name"})

NameRejected ==
  \/ NamedTwice(ast.arguments, "name")
  \/ ~OnlyNames(ast.arguments, {Unnamed, "name"})
  \/ Name \in {NULL, ""}

CompileArguments ==
  /\ pc = "arguments"
  /\ HasCompiler /\ ~NameRejected
  /\ test' = [test EXCEPT !.name = Name]
  /\ pc' = "requirements"
  /\ UNCHANGED <<ast, at>>

RejectArguments ==
  /\ pc = "arguments"
  /\ ~HasCompiler \/ NameRejected
  /\ Fatal
-----------------------------------------------------------------------------
(* Requirements.                                                           *)

At(name) ==
  /\ pc = "requirements" /\ at <= Len(ast.requirements)
  /\ ast.requirements[at].name = name

Requirement == ast.requirements[at]
Arg(names)  == Value(Requirement.arguments, names)

\* The requirement is compiled: the record is now t.
Compiled(t) == test' = t /\ at' = at + 1 /\ UNCHANGED <<ast, pc>>

GivenType == Arg({Unnamed, "type"})

GivenRejected ==
  \/ NamedTwice(Requirement.arguments, "type")
  \/ Repeated(Requirement.arguments, "filename")
  \/ Repeated(Requirement.arguments, "path")
  \/ ~OnlyNames(Requirement.arguments, {Unnamed, "type", "filename", "path"})
  \/ GivenType \notin {"none", "reference", "stdin", "file"}
  \/ GivenType \in {"none", "reference"} /\ Requirement.content # NULL
  \/ GivenType # "file" /\ Arg({"filename"}) # NULL
  \/ GivenType # "reference" /\ Arg({"path"}) # NULL
  \/ GivenType = "reference" /\ Arg({"path"}) \in {NULL, ""}
  \/ GivenType = "file" /\ (Arg({"filename"}) = "" \/ Arg({"filename"}) \in Slashed)

\* Only the fields of the type are set; the others keep what they have.
GivenNone(t) == [t EXCEPT !.givenType = "none"]
GivenReference(t) == [t EXCEPT !.givenType = "reference", !.givenPath = Arg({"path"})]
GivenStdin(t) == [t EXCEPT !.givenType = "stdin", !.givenContent = Requirement.content]

FilenameKept(t) ==   \* mutant: a missing filename does not clear the field
  [t EXCEPT !.givenType = "file", !.givenContent = Requirement.content,
            !.givenFilename = IF Arg({"filename"}) = NULL THEN @ ELSE Arg({"filename"})]

GivenFile(t) ==
  [t EXCEPT !.givenType = "file", !.givenContent = Requirement.content,
            !.givenFilename = Arg({"filename"})]

CompileGiven ==
  /\ At("given") /\ ~GivenRejected
  /\ LET t == [test EXCEPT !.flags = @ \cup {"HAS_GIVEN"}]
     IN \/ GivenType = "none" /\ Compiled(GivenNone(t))
        \/ GivenType = "reference" /\ Compiled(GivenReference(t))
        \/ GivenType = "stdin" /\ Compiled(GivenStdin(t))
        \/ GivenType = "file" /\ Compiled(GivenFile(t))

Program == Arg({Unnamed, "program"})

WhenRunRejected ==
  \/ Requirement.content # NULL
  \/ NamedTwice(Requirement.arguments, "program")
  \/ ~OnlyNames(Requirement.arguments, {Unnamed, "program", "args"})
  \/ Program \in {NULL, ""}
  \/ Arg({"args"}) = ""

CompileWhenRun ==
  /\ At("whenRun") /\ ~WhenRunRejected
  /\ Compiled([test EXCEPT !.program = Program, !.args = Arg({"args"}),
                           !.flags = @ \cup {"HAS_WHEN"}])

\* Only the first argument is looked at.
StreamRejected ==
  ~\E i \in DOMAIN Requirement.arguments :
     /\ i = 1
     /\ Requirement.arguments[i].name \in {Unnamed, "stream"}
     /\ Requirement.arguments[i].value \in {"stdout", "stderr"}

Stream == Requirement.arguments[1].value

\* A second expectation is ignored, with a warning, if the first has a content.
Duplicate(stream) == test[stream] # NULL

CompileExpectOutput ==
  /\ At("expectOutput") /\ ~StreamRejected
  /\ IF Duplicate(Stream) THEN Compiled(test)
     ELSE Compiled([test EXCEPT ![Stream] = Requirement.content,
                                !.flags = @ \cup {"HAS_THEN"}])

CompileShouldBeSkipped ==
  /\ At("shouldBeSkipped")
  /\ Compiled([test EXCEPT !.flags = @ \cup {"SKIPPED"}])

RejectRequirement ==
  /\ \/ At("given") /\ GivenRejected
     \/ At("whenRun") /\ WhenRunRejected
     \/ At("expectOutput") /\ StreamRejected
     \/ At("other")
  /\ Fatal
-----------------------------------------------------------------------------
(* The whole test.                                                         *)

NeverRejected == FALSE   \* mutant

FilePlaceholderRejected ==
  test.args \in WithFile /\ test.givenType \in {"none", "stdin"}

CompleteMask == {"HAS_GIVEN", "HAS_WHEN", "HAS_THEN"}

Finish ==
  /\ pc = "requirements" /\ at > Len(ast.requirements)
  /\ ~FilePlaceholderRejected
  /\ pc' = "compiled"
  /\ test' = IF CompleteMask \subseteq test.flags THEN test
             ELSE [test EXCEPT !.flags = @ \cup {"INCOMPLETE"}]
  /\ UNCHANGED <<ast, at>>

RejectTest ==
  /\ pc = "requirements" /\ at > Len(ast.requirements)
  /\ FilePlaceholderRejected
  /\ Fatal

Next ==
  \/ CompileArguments \/ RejectArguments
  \/ CompileGiven \/ CompileWhenRun \/ CompileExpectOutput \/ CompileShouldBeSkipped
  \/ RejectRequirement \/ Finish \/ RejectTest

Spec == Init /\ [][Next]_vars
-----------------------------------------------------------------------------
OrNull(S) == S \cup {NULL}
Flags     == CompleteMask \cup {"INCOMPLETE", "SKIPPED"}

\* Every variable keeps its type.
TypeOK ==
  /\ ast \in ParsedTests
  /\ at \in 1..(Len(ast.requirements) + 1)
  /\ test \in [name : OrNull(Texts), givenType : {"none", "file", "reference", "stdin"},
               givenFilename : OrNull(Texts), givenContent : OrNull(Texts),
               givenPath : OrNull(Texts), program : OrNull(Texts), args : OrNull(Texts),
               stdout : OrNull(Texts), stderr : OrNull(Texts), flags : SUBSET Flags]
  /\ pc \in {"arguments", "requirements", "compiled", "fatal"}

\* What the runner takes for granted of a compiled test (runner.c dereferences
\* or concatenates it unchecked): there is a program, a file to put in the place
\* of {{file}}, a path that is not empty, and a filename that stays in /tmp.
RunnerCanRun ==
  pc = "compiled" =>
    /\ test.name \notin {NULL, ""} /\ test.program \notin {NULL, ""}
    /\ test.args # ""
    /\ test.args \in WithFile => test.givenType \in {"file", "reference"}
    /\ test.givenType = "reference" => test.givenPath \notin {NULL, ""}
    /\ test.givenType = "file" => test.givenFilename \notin {""} \cup Slashed

\* The requirements with this name; the expectations for this stream.
Of(name) == {i \in DOMAIN ast.requirements : ast.requirements[i].name = name}
OfStream(s) == {i \in Of("expectOutput") : ast.requirements[i].arguments[1].value = s}

First(I) == ast.requirements[CHOOSE i \in I : \A k \in I : i <= k]
Last(I)  == ast.requirements[CHOOSE i \in I : \A k \in I : k <= i]

\* What the runner reads of the input of a test.
InputUsed(t) ==
  [type |-> t.givenType,
   filename |-> IF t.givenType = "file" THEN t.givenFilename ELSE NULL,
   content |-> IF t.givenType \in {"file", "stdin"} THEN t.givenContent ELSE NULL,
   path |-> IF t.givenType = "reference" THEN t.givenPath ELSE NULL]

InputMeant ==
  IF Of("given") = {}
  THEN [type |-> "none", filename |-> NULL, content |-> NULL, path |-> NULL]
  ELSE LET g == Last(Of("given"))
       IN [type |-> Value(g.arguments, {Unnamed, "type"}),
           filename |-> Value(g.arguments, {"filename"}),
           content |-> g.content,
           path |-> Value(g.arguments, {"path"})]

\* What a test means does not depend on the order of its requirements of
\* different kinds: its input is that of the last @given, however many went
\* before and whatever their types, its program that of the last @whenRun, what
\* it expects of a stream the first content given for it, and it is incomplete
\* when it has no @given or no @expectOutput.
CompiledAsMeant ==
  pc = "compiled" =>
    /\ InputUsed(test) = InputMeant
    /\ test.program = Value(Last(Of("whenRun")).arguments, {Unnamed, "program"})
    /\ test.args = Value(Last(Of("whenRun")).arguments, {"args"})
    /\ \A s \in {"stdout", "stderr"} :
         LET texts == {i \in OfStream(s) : ast.requirements[i].content # NULL}
         IN IF texts = {} THEN test[s] = NULL
            ELSE test[s] = First(texts).content
    /\ "SKIPPED" \in test.flags <=> Of("shouldBeSkipped") # {}
    /\ "INCOMPLETE" \in test.flags <=> Of("given") = {} \/ Of("expectOutput") = {}
=============================================================================
