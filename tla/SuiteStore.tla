----------------------------- MODULE SuiteStore -----------------------------
(***************************************************************************)
(* The form in which the cache keeps a compiled suite (cache.c):           *)
(* serialize_test_suite writes it out, deserialize_test_suite reads it     *)
(* back from the data of a cache entry.                                    *)
(*                                                                         *)
(* The data is a sequence of cells: a number is one, and so are the        *)
(* characters of a text.  The length of a text that has any is one value.  *)
(* A text of no characters is a length of "0" alone, and no text at all is *)
(* the length 0xFFFFFFFF, here "NULL".                                     *)
(*                                                                         *)
(* Of a text that was cut short there are cells of four characters, which  *)
(* read as a number make one larger than any length, kind or type.         *)
(***************************************************************************)
EXTENDS SuiteCompiler

CONSTANTS
  Length,  \* the length of a text that has characters
  Chars    \* four characters of a text

Kind == "program runner"   \* TEST_KIND_PROGRAM_RUNNER

\* These two are told from each other and from every other cell.
ASSUME StoreAssumption ==
  /\ Length # Chars
  /\ {Length, Chars} \cap (Texts \cup {"0", NULL, Kind, "name"}) = {}
  /\ \A flags \in SUBSET Flags : flags \notin {Length, Chars}
  /\ Length \notin Nat

TextFields ==
  <<"givenFilename", "givenContent", "givenPath", "program", "args", "stdout", "stderr">>

-----------------------------------------------------------------------------
(* serialize_test_suite                                                    *)

NullAsEmpty(s) == IF s \in {NULL, ""} THEN <<"0">> ELSE <<Length, s>>   \* mutant

\* write_string_field
StringField(s) ==
  IF s = NULL THEN <<"NULL">> ELSE IF s = "" THEN <<"0">> ELSE <<Length, s>>

Joined(parts) ==
  LET all[k \in 0..Len(parts)] == IF k = 0 THEN <<>> ELSE all[k - 1] \o parts[k]
  IN all[Len(parts)]

SerializedTest(t) ==
  <<Kind, t.flags>> \o StringField(t.name) \o <<t.givenType>>
    \o Joined([k \in 1..Len(TextFields) |-> StringField(t[TextFields[k]])])

\* The suite has the name of its file.
Serialized(name, suite) ==
  <<Length, name, Len(suite)>> \o Joined([k \in 1..Len(suite) |-> SerializedTest(suite[k])])
-----------------------------------------------------------------------------
(* deserialize_test_suite.  What is left of the data is passed along; it   *)
(* is checked before every read.                                           *)

Rest(data, n) == SubSeq(data, n + 1, Len(data))

\* buf_read_string_field: a text that the data is too short for is none, and what
\* there is of it is left to be read.
ReadString(data) ==
  CASE data = <<>> -> [text |-> NULL, rest |-> data]
    [] data # <<>> /\ data[1] = "NULL" -> [text |-> NULL, rest |-> Rest(data, 1)]
    [] data # <<>> /\ data[1] = "0" -> [text |-> "", rest |-> Rest(data, 1)]
    [] data # <<>> /\ data[1] = Length ->
         IF Len(data) < 2 \/ data[2] = Chars THEN [text |-> NULL, rest |-> Rest(data, 1)]
         ELSE [text |-> data[2], rest |-> Rest(data, 2)]
    [] data # <<>> /\ data[1] = Chars -> [text |-> NULL, rest |-> Rest(data, 1)]

Miss(data) == [miss |-> TRUE, tests |-> <<>>, rest |-> data]

TypeTakenAsNone(data) == FALSE   \* mutant: a missing given_type is not noticed

TypeIsMissing(data) == data = <<>>

ReadText(before, field) ==
  LET s == ReadString(before.rest)
  IN [test |-> [before.test EXCEPT ![field] = s.text], rest |-> s.rest]

ReadTexts(numbers) ==
  LET f[k \in 0..Len(TextFields)] ==
        IF k = 0 THEN numbers ELSE ReadText(f[k - 1], TextFields[k])
  IN f[Len(TextFields)]

\* A test is added to those that were read, if there are numbers for it
\* and it is of the only kind there is.
ReadTest(read) ==
  IF read.miss \/ Len(read.rest) < 2 \/ read.rest[1] # Kind THEN Miss(read.rest)
  ELSE LET named == ReadString(Rest(read.rest, 2))
       IN IF TypeIsMissing(named.rest) THEN Miss(named.rest)
          ELSE LET numbers == [EmptyTest EXCEPT
                                 !.flags = read.rest[2], !.name = named.text,
                                 !.givenType = IF named.rest = <<>> THEN ZeroType
                                               ELSE named.rest[1]]
                   whole == ReadTexts([test |-> numbers, rest |-> Rest(named.rest, 1)])
               IN [miss |-> FALSE, tests |-> Append(read.tests, whole.test), rest |-> whole.rest]

Deserialized(data) ==
  IF Len(data) < 3 \/ data[2] = Chars THEN Miss(data)
  ELSE LET f[k \in 0..data[3]] ==
             IF k = 0 THEN [miss |-> FALSE, tests |-> <<>>, rest |-> Rest(data, 3)]
             ELSE ReadTest(f[k - 1])
       IN f[data[3]]
-----------------------------------------------------------------------------
\* What a write may leave of the data: some cells, and n times four characters of
\* a text.
Cut(data, cells, n) == SubSeq(data, 1, cells) \o [k \in 1..n |-> Chars]

\* The test without its last texts, from the k-th on.
LacksTexts(t, k) ==
  [field \in DOMAIN t |->
     IF \E l \in k..Len(TextFields) : TextFields[l] = field THEN NULL ELSE t[field]]

\* All of its texts are lost, its name too, and its type is made of characters.
LacksName(t) ==
  [EmptyTest EXCEPT !.flags = t.flags, !.name = NULL, !.givenType = Chars]

\* What may be read of a test that was cut short.
Suffered(t) == {LacksTexts(t, k) : k \in DOMAIN TextFields} \cup {LacksName(t)}

LastSuffers(suite, tests) ==
  \E i \in DOMAIN suite : i = Len(suite) /\ \E t \in Suffered(suite[i]) :
    tests = [suite EXCEPT ![i] = t]

RestoredAsCompiled(suite) ==
  Deserialized(Serialized("name", suite)) = [miss |-> FALSE, tests |-> suite, rest |-> <<>>]

CutIsMissOrLacksTexts(suite) ==
  LET data == Serialized("name", suite)
  IN \A cells \in 0..(Len(data) - 1), n \in {0, 1, Len(TextFields) + 2} :
       (n > 0 => cells > 0 /\ data[cells] = Length) =>
         LET r == Deserialized(Cut(data, cells, n))
         IN r.miss \/ LastSuffers(suite, r.tests)

\* What the cache gives back, of two such tests in one file, is the suite that was
\* compiled, to the last field: no text remains no text and an empty one empty,
\* which the runner tells apart.
\* Data that was cut short (serialize_test_suite gives up at a failed write, and
\* what it wrote is recorded) is a miss, or only the last test has suffered: it
\* lacks its last texts, or, when the cut is in its name, all but its flags.  No
\* other test is changed, and none is lost or made up.
StoreIsFaithful ==
  pc = "compiled" =>
    RestoredAsCompiled(<<test, test>>) /\ CutIsMissOrLacksTexts(<<test, test>>)
=============================================================================
