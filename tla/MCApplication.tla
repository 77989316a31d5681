---------------------------- MODULE MCApplication ----------------------------
(* Up to two paths with options between them, over three small file trees. *)
EXTENDS Application

TestsDir == <<"tests">>
Nested  == <<"tests", "sub">>
A       == <<"tests", "a.test">>
Note    == <<"tests", "note">>
B       == <<"tests", "sub", "b.test">>
C       == <<"lib", "c.test">>
D       == <<"tests", "more", "d.test">>

\* ./tests with a directory, a link and a file that is no test; a library without
\* tests of its own; a locked directory; a bare disk.
Tree(files, dirs, others) ==
  [p \in files \cup dirs \cup DOMAIN others \cup {<<>>} |->
     IF p \in files THEN "file" ELSE IF p \in DOMAIN others THEN others[p] ELSE "directory"]

Lib == <<"lib">>
Odd == [p \in {Nested, <<"tests", "x.test">>} |->
          IF p = Nested THEN "locked directory" ELSE "link"]

McDisks ==
  {Tree({A, B, C, D, Note}, {TestsDir, Nested, <<"tests", "more">>, Lib}, <<>>),
   Tree({A, <<"lib", "x.test">>}, {TestsDir, Lib, <<"lib", "more">>}, <<>>),
   Tree({C, Note}, {Lib, TestsDir}, Odd),
   Tree({C, TestsDir}, {Lib}, <<>>)}

McTarget(a) ==
  CASE a = "./tests" -> TestsDir
    [] a = "lib" -> <<"lib">>
    [] a = "tests/a.test" -> A
    [] a = "link to a" -> A
    [] a = "tests/note" -> Note

McTestNames == {"a.test", "b.test", "c.test", "d.test", "x.test"}

Run(error, expects, wrong, exit, noisy) ==
  [flag |-> "run", error |-> error, expects |-> expects, wrong |-> wrong,
   exit |-> exit, noisy |-> noisy]

Pass    == Run("NONE", {"out", "err"}, {}, 1, TRUE)
Differ  == Run("NONE", {"out"}, {"out"}, 0, FALSE)
Both    == Run("NONE", {"out", "err"}, {"out", "err"}, 0, TRUE)
Noisy   == Run("NONE", {"out"}, {}, 1, TRUE)
Cannot  == Run("file not found", {"out"}, {}, 0, FALSE)
Not(s)  == [Pass EXCEPT !.flag = s]

McContent(p) ==
  CASE p = A -> <<Pass, Differ>>
    [] p = B -> <<Cannot, Both, Not("SKIPPED")>>
    [] p = C -> <<Noisy, Not("INCOMPLETE")>>
    [] p = D -> <<Pass>>
    [] OTHER -> <<>>

McFleeting == {A}

McBroken == {<<"lib", "x.test">>}

McOptions ==
  {"--run-mode=detail", "--run-mode=passthrough", "--run-mode=loud", "--no-cache",
   "--clear-cache", "--no-summary", "--helper", "--version", "--shout"}

McMeans(o) ==
  CASE o = "--helper" -> "--help"
    [] o \in {"--run-mode=loud", "--shout"} -> "unknown"
    [] OTHER -> o

Paths == {"./tests", "lib", "tests/a.test", "link to a", "tests/note"}

AtMostOne(S) == {<<>>} \cup {<<x>> : x \in S}

SomeOptions ==
  AtMostOne(McOptions) \cup
  {<<"--clear-cache", "--helper">>, <<"--clear-cache", "--no-cache">>,
   <<"--run-mode=detail", "--no-summary">>, <<"--run-mode=detail", "--run-mode=passthrough">>}

McInvocations ==
  {p \o o \o q : p \in AtMostOne(Paths), o \in SomeOptions, q \in AtMostOne(Paths)}
=============================================================================
