------------------------------- MODULE MCDiff -------------------------------
(* Texts of a few lines of at most one character, the last of which may    *)
(* have no newline; the expected ones may hold {{any}} for a character.    *)
EXTENDS Diff

AnyLines(chars) == {<<>>} \cup {<<c>> : c \in chars}

Text(s, ended) ==
  IF ended \/ s = <<>> THEN Joined(s) ELSE SubSeq(Joined(s), 1, Len(Joined(s)) - 1)

Texts(chars, n) ==
  {Text(s, ended) : s \in UNION {[1..k -> AnyLines(chars)] : k \in 0..n}, ended \in BOOLEAN}

McChars == {"a", "b", "any", "newline"}
ExpectedSample == Texts({"a", "any"}, 3)
ActualSample == Texts({"a", "b"}, 3)

McMatch(e, a) == e = <<"any">> \/ e = a
=============================================================================
