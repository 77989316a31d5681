---------------------------- MODULE MCSuiteCache ----------------------------
(* Two places to run jcunit in one directory of one to three test files.   *)
EXTENDS SuiteCache, TLC

OneSource    == <<"a.test">>
ThreeSources == <<"a.test", "b.test", "c.test">>
SameSize(c)  == 7
Symmetry     == Permutations(Jobs) \cup Permutations(Contents)
=============================================================================
