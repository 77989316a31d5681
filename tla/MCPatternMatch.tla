--------------------------- MODULE MCPatternMatch ---------------------------
(* Every pattern and every output of at most a few characters.             *)
EXTENDS PatternMatch
=============================================================================
