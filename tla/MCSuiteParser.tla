--------------------------- MODULE MCSuiteParser ---------------------------
(* Every text of at most MaxText pieces, for TLC.                          *)
EXTENDS SuiteParser
=============================================================================
