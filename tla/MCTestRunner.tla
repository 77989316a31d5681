---------------------------- MODULE MCTestRunner ----------------------------
(* Runs of jcunit with one or two tests each, for TLC.                     *)
EXTENDS TestRunner

T(given, filename, content, program, out, err) ==
  [skip |-> FALSE, given |-> given, filename |-> filename, content |-> content,
   program |-> program, fits |-> TRUE, expect |-> [out |-> out, err |-> err]]

\* The program copies a file of its own, named or not, to stdout.
Copies(name) == T("file", name, "alpha", "cat", "alpha", "absent")
Beta(name)   == T("file", name, "beta", "cat", "beta", "absent")
Differs      == T("file", NoName, "alpha", "cat", "beta", "absent")
Piped        == T("stdin", NoName, "alpha", "cat", "alpha", "absent")
NoReference  == T("reference", NoName, Absent, "cat", "any", "absent")
Complains    == T("none", NoName, Absent, "complain", "absent", "oops")
Unexpected   == T("file", NoName, "alpha", "complain", "any", "absent")
Quits        == T("none", NoName, Absent, "quit", "", "absent")
Roars        == T("none", NoName, Absent, "roar", "any", "absent")
Rants        == T("none", NoName, Absent, "rant", "any", "absent")
RantExpected == T("none", NoName, Absent, "rant", "absent", "oops")
Missing      == T("file", "own", "alpha", "missing", "any", "absent")
Locked       == T("file", NoName, "alpha", "not executable", "any", "absent")
Blank        == T("none", NoName, Absent, "cat", "blank", "no file")
NoGiven      == T("missing", NoName, Absent, "silent", "any", "absent")
NoExpect     == T("none", NoName, Absent, "silent", "absent", "absent")
Skip         == [Copies("own") EXCEPT !.skip = TRUE]
TooLong      == [Copies(NoName) EXCEPT !.fits = FALSE]

MCNameLen(n) == CASE n = "short" -> 5 [] n = "long" -> 300 [] OTHER -> 12

MCTempNames == {"temp1", "temp2"}
MCJobs      == {"outer", "inner"}

Lists(first, second) == {<<t, u>> : t \in first, u \in second}

\* Runs that share no filename.
ApartWorkload ==
  [outer |-> Lists({Copies("own"), Copies(NoName), Piped, Unexpected, Missing, Skip},
                   {Beta("own"), Differs, Complains, Roars, NoReference, TooLong, NoGiven})
             \cup {<<>>},
   inner |-> Lists({Beta(NoName), Copies("long"), Quits, RantExpected, NoExpect},
                   {Copies("short"), Locked, Blank, Beta("inner")})]

ASSUME ApartAssumption ==
  Jobs = MCJobs => NamesApart /\ \A t \in Tests : JudgedAsMeant(t)

\* One run of one test: a program that fails with a very long stderr.
OneJob       == {"only"}
RantWorkload == [only |-> {<<Rants>>}]
=============================================================================
