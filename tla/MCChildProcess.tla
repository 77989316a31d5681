--------------------------- MODULE MCChildProcess ---------------------------
(* Small programs for TLC: a few bytes per stream, a pipe of a few bytes.  *)
EXTENDS ChildProcess

OneExitCode  == {1}
TwoExitCodes == {0, 1}
=============================================================================
