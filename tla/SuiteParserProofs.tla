------------------------- MODULE SuiteParserProofs -------------------------
(***************************************************************************)
(* The parser never reads past what it looked at, what it accepts is what  *)
(* is written, and it accepts the texts that are tests, for texts of any   *)
(* length, any directives and any limits.                                  *)
(*                                                                         *)
(* The argument for the first: a buffer holds one element at most, and     *)
(* only one of the two holds any.  The mode follows from where the parser  *)
(* is and what it parses a directive for, so that it changes only when no  *)
(* token waits, or a directive, which is the same token in both modes.     *)
(*                                                                         *)
(* For the second, the lines that are known at a point, those of the tests *)
(* parsed and of the test that is open, are compared with the text up to   *)
(* where the parser is: the k-th line is what is written from the k-th     *)
(* directive to the next.  Of a directive that is being parsed the text    *)
(* has the line, or the line and the content, so far.  A step takes one    *)
(* piece of the text, or none.                                             *)
(*                                                                         *)
(* For the third, these lines follow the grammar: which kind may come      *)
(* behind which, by what name, and how many requirements a test has.  Who  *)
(* accepts has such lines for all of the text; who refuses has them up to  *)
(* a place where one of a few things is wrong with what comes next.  The   *)
(* reference, read by the positions of the directives, holds of the first  *)
(* text and fails of the second.                                           *)
(***************************************************************************)
EXTENDS SuiteParser, FiniteSetTheorems, SequenceTheorems, TLAPS

\* In parse_directive, after the name.
Inside == {"named", "open", "arguments", "argument", "equals", "value", "separator", "line end"}

\* In parse_requirement_list or what it calls.
InTest == {"requirements", "content", "text"}

\* The mode that a directive is parsed in.
ModeFor(purpose) == IF purpose = "requirement" THEN "text" ELSE "none"

\* One element of lookahead.
BuffersInv ==
  /\ text \in Seq(Pieces) /\ ended \in BOOLEAN
  /\ chars \in Seq(Pieces) /\ Len(chars) <= 1
  /\ tokens \in Seq(AnyToken) /\ Len(tokens) <= 1
  /\ chars = <<>> \/ tokens = <<>>

\* The token that waits is what would be read now.
TokensInv ==
  /\ pc # "fatal" => \A i \in DOMAIN tokens : tokens[i] = Token(tokens[i].piece, mode)
  /\ pc \in Inside \cup {"content"} => tokens = <<>>

ModeInv ==
  /\ mode \in {"none", "text"} /\ oldmode \in {"none", "text"}
  /\ pc \in Points /\ for \in {"none", "test", "requirement", "end of test"}
  /\ pc \in {"suite", "newlines"} => mode = "none"
  /\ pc = "directive" => for # "none" /\ mode = ModeFor(for)
  /\ pc \in Inside => for # "none" /\ mode = "none" /\ oldmode = ModeFor(for)
  /\ pc \in InTest => mode = "text"
  /\ pc = "text" => oldmode = "text"

\* There is room for the requirement that is parsed, and there is a directive
\* for it.
TestInv ==
  /\ test \in Tests /\ Len(test.requirements) <= MaxRequirements
  /\ suite \in Seq(Tests)
  /\ current \in [name : Directives \cup {"none"}, arguments : Arguments]
  /\ pc \in Inside \cup {"content", "text"} => current.name \in Directives
  /\ pc \in {"directive"} \cup Inside /\ for = "requirement" =>
       Len(test.requirements) < MaxRequirements
  /\ pc \in {"content", "text"} => Len(test.requirements) < MaxRequirements

\* A content begins with a character: what was seen is none of a directive.
ContentInv ==
  /\ content \in Seq(Others) /\ Len(content) <= MaxContent
  /\ pc = "text" /\ content = <<>> =>
       \/ tokens # <<>> /\ Last(tokens).kind # "directive"
       \/ ended /\ chars = <<>> /\ tokens = <<>>

ParserInv == BuffersInv /\ TokensInv /\ ModeInv /\ TestInv /\ ContentInv
-----------------------------------------------------------------------------
(* Sequences and tokens.                                                   *)

LEMMA FrontOfOne ==
  ASSUME NEW S, NEW s \in Seq(S), s # <<>>, Len(s) <= 1
  PROVE  Front(s) = <<>> /\ Last(s) \in S /\ s = <<Last(s)>> /\ Len(s) = 1
<1>1. Len(s) \in Nat /\ Len(s) # 0
  BY EmptySeq, LenProperties
<1>2. Len(s) = 1
  BY <1>1
<1> QED
  BY <1>2 DEF Front, Last

LEMMA OneElement ==
  ASSUME NEW S, NEW s, s = <<>> \/ \E x \in S : s = <<x>>
  PROVE  s \in Seq(S) /\ Len(s) <= 1
<1>1. CASE s = <<>>
  BY <1>1
<1>2. CASE \E x \in S : s = <<x>>
  <2>1. PICK x \in S : s = <<x>>
    BY <1>2
  <2> QED
    BY <2>1
<1> QED
  BY <1>1, <1>2

LEMMA FrontType ==
  ASSUME NEW S, NEW s \in Seq(S), s # <<>>
  PROVE  Front(s) \in Seq(S) /\ Len(Front(s)) = Len(s) - 1
<1>1. Len(s) \in Nat \ {0}
  BY EmptySeq, LenProperties
<1>2. Len(s) - 1 \in Nat /\ Len(s) - 1 <= Len(s)
  BY <1>1
<1>3. Front(s) = [i \in 1..(Len(s) - 1) |-> s[i]]
  BY <1>1, <1>2 DEF Front
<1>4. \A i \in 1..(Len(s) - 1) : s[i] \in S
  BY <1>1
<1> QED
  BY <1>2, <1>3, <1>4

\* A token tells what its piece is, and a directive is one in both modes.
LEMMA TokenFacts ==
  ASSUME NEW t \in AnyToken
  PROVE  /\ t.piece \in Pieces \cup {"EOF"}
         /\ t.kind = "directive" <=> t.piece \in Directives
         /\ t.kind = "EOF" <=> t.piece = "EOF"
         /\ t.kind \notin {"EOF", "directive"} => t.piece \in Others
         /\ t.kind = "directive" => \A m : t = Token(t.piece, m)
<1>1. PICK p \in Pieces \cup {"EOF"}, m \in {"none", "text"} : t = Token(p, m)
  BY DEF AnyToken
<1>2. t.piece = p
  BY <1>1 DEF Token
<1>3. /\ p \in Directives => t.kind = "directive"
      /\ p = "EOF" => t.kind = "EOF"
      /\ p \notin Directives \cup {"EOF"} => t.kind \notin {"EOF", "directive"}
  BY <1>1, ParserAssumption DEF Token, Marks
<1>4. p # "EOF" \/ p \notin Directives
  BY ParserAssumption
<1>5. ASSUME p \in Directives, NEW n PROVE Token(p, n) = [piece |-> p, kind |-> "directive"]
  BY <1>5 DEF Token
<1> QED
  BY <1>1, <1>2, <1>3, <1>4, <1>5 DEF Pieces
-----------------------------------------------------------------------------
(* The tokenizer: what one element of lookahead becomes.                   *)

LEMMA FromFileKeeps ==
  ASSUME text \in Seq(Pieces), ended \in BOOLEAN,
         NEW p \in Pieces \cup {"EOF"}, FromFile(p)
  PROVE  /\ text' \in Seq(Pieces) /\ ended' \in BOOLEAN
         /\ p = "EOF" => ended' = TRUE
<1>1. CASE p = "EOF"
  BY <1>1 DEF FromFile
<1>2. CASE p # "EOF"
  BY <1>2 DEF FromFile
<1> QED
  BY <1>1, <1>2

LEMMA GetCharKeeps ==
  ASSUME BuffersInv, NEW p \in Pieces \cup {"EOF"}, GetChar(p)
  PROVE  /\ text' \in Seq(Pieces) /\ ended' \in BOOLEAN
         /\ chars' = <<>>
         /\ p = "EOF" => ended'
<1>1. CASE chars # <<>>
  <2>1. p = Last(chars) /\ chars' = Front(chars) /\ text' = text /\ ended' = ended
    BY <1>1 DEF GetChar
  <2>2. Front(chars) = <<>> /\ Last(chars) \in Pieces
    BY <1>1, FrontOfOne DEF BuffersInv
  <2>3. "EOF" \notin Pieces
    BY ParserAssumption DEF Pieces, Marks
  <2> QED
    BY <2>1, <2>2, <2>3 DEF BuffersInv
<1>2. CASE chars = <<>>
  <2>1. FromFile(p) /\ chars' = chars
    BY <1>2 DEF GetChar
  <2>2. /\ text' \in Seq(Pieces) /\ ended' \in BOOLEAN
        /\ p = "EOF" => ended' = TRUE
    BY <2>1, FromFileKeeps DEF BuffersInv
  <2> QED
    BY <1>2, <2>1, <2>2
<1> QED
  BY <1>1, <1>2

LEMMA PeekCharKeeps ==
  ASSUME BuffersInv, tokens = <<>>, NEW p \in Pieces \cup {"EOF"}, PeekChar(p)
  PROVE  /\ text' \in Seq(Pieces) /\ ended' \in BOOLEAN
         /\ chars' \in Seq(Pieces) /\ Len(chars') <= 1
<1>1. CASE chars # <<>>
  BY <1>1 DEF PeekChar, BuffersInv
<1>2. CASE chars = <<>>
  <2>1. FromFile(p) /\ chars' = IF p = "EOF" THEN chars ELSE Append(chars, p)
    BY <1>2 DEF PeekChar
  <2>2. text' \in Seq(Pieces) /\ ended' \in BOOLEAN
    BY <2>1, FromFileKeeps DEF BuffersInv
  <2>3. chars' = <<>> \/ (p \in Pieces /\ chars' = <<p>>)
    BY <1>2, <2>1
  <2>4. chars' \in Seq(Pieces) /\ Len(chars') <= 1
    BY <2>3, OneElement
  <2> QED
    BY <2>2, <2>4
<1> QED
  BY <1>1, <1>2

\* A token that is taken leaves none, and is one of the current mode.
LEMMA GetKeeps ==
  ASSUME BuffersInv, TokensInv, pc # "fatal", NEW t \in AnyToken, Get(t)
  PROVE  BuffersInv' /\ tokens' = <<>> /\ t = Token(t.piece, mode)
<1>1. CASE tokens # <<>>
  <2>1. /\ t = Last(tokens) /\ tokens' = Front(tokens)
        /\ text' = text /\ ended' = ended /\ chars' = chars
    BY <1>1 DEF Get
  <2>2. Front(tokens) = <<>> /\ tokens = <<Last(tokens)>>
    BY <1>1, FrontOfOne DEF BuffersInv
  <2>3. BuffersInv'
    BY <2>1, <2>2 DEF BuffersInv
  <2>4. t = Token(t.piece, mode)
    <3>1. 1 \in DOMAIN tokens /\ tokens[1] = t
      BY <2>1, <2>2
    <3> QED
      BY <3>1 DEF TokensInv
  <2> QED
    BY <2>1, <2>2, <2>3, <2>4
<1>2. CASE tokens = <<>>
  <2>1. GetChar(t.piece) /\ t = Token(t.piece, mode) /\ tokens' = tokens
    BY <1>2 DEF Get
  <2>2. t.piece \in Pieces \cup {"EOF"}
    BY TokenFacts
  <2>3. text' \in Seq(Pieces) /\ ended' \in BOOLEAN /\ chars' = <<>>
    BY <2>1, <2>2, GetCharKeeps
  <2> QED
    BY <1>2, <2>1, <2>3 DEF BuffersInv
<1> QED
  BY <1>1, <1>2

\* A token that is looked at waits, unless it is the end of the file.
LEMMA PeekKeeps ==
  ASSUME BuffersInv, TokensInv, pc # "fatal", NEW t \in AnyToken, Peek(t)
  PROVE  /\ BuffersInv'
         /\ t = Token(t.piece, mode)
         /\ \/ tokens' = <<t>>
            \/ t.kind = "EOF" /\ tokens' = <<>> /\ chars' = <<>> /\ ended'
         /\ \A i \in DOMAIN tokens' : tokens'[i] = t
<1>0. SUFFICES /\ BuffersInv' /\ t = Token(t.piece, mode)
               /\ \/ tokens' = <<t>>
                  \/ t.kind = "EOF" /\ tokens' = <<>> /\ chars' = <<>> /\ ended'
  <2>1. tokens' = <<t>> \/ tokens' = <<>> => \A i \in DOMAIN tokens' : tokens'[i] = t
    OBVIOUS
  <2> QED
    BY <2>1
<1>1. CASE tokens # <<>>
  <2>1. t = Last(tokens) /\ UNCHANGED <<text, ended, chars, tokens>>
    BY <1>1 DEF Peek
  <2>2. tokens = <<Last(tokens)>>
    BY <1>1, FrontOfOne DEF BuffersInv
  <2>3. BuffersInv'
    BY <2>1 DEF BuffersInv
  <2>4. t = Token(t.piece, mode)
    <3>1. 1 \in DOMAIN tokens /\ tokens[1] = t
      BY <2>1, <2>2
    <3> QED
      BY <3>1 DEF TokensInv
  <2> QED
    BY <2>1, <2>2, <2>3, <2>4
<1>2. CASE tokens = <<>>
  <2>1. /\ GetChar(t.piece) /\ t = Token(t.piece, mode)
        /\ tokens' = IF t.kind = "EOF" THEN tokens ELSE Append(tokens, t)
    BY <1>2 DEF Peek
  <2>2. t.piece \in Pieces \cup {"EOF"} /\ (t.kind = "EOF" <=> t.piece = "EOF")
    BY TokenFacts
  <2>3. /\ text' \in Seq(Pieces) /\ ended' \in BOOLEAN /\ chars' = <<>>
        /\ t.piece = "EOF" => ended'
    BY <2>1, <2>2, GetCharKeeps
  <2>4. tokens' = <<t>> \/ (t.kind = "EOF" /\ tokens' = <<>>)
    BY <1>2, <2>1
  <2>5. tokens' \in Seq(AnyToken) /\ Len(tokens') <= 1
    BY <2>4, OneElement
  <2>6. BuffersInv'
    BY <2>3, <2>5 DEF BuffersInv
  <2> QED
    BY <2>1, <2>2, <2>3, <2>4, <2>6
<1> QED
  BY <1>1, <1>2
-----------------------------------------------------------------------------
(* parse_test_suite.                                                       *)

\* A fatal error ends the parser where it is.
LEMMA FatalKeeps ==
  ASSUME ParserInv, BuffersInv', pc' = "fatal",
         mode' \in {"none", "text"}, oldmode' = oldmode,
         for' = for, current' = current, test' = test, content' = content, suite' = suite
  PROVE  ParserInv'
<1>1. TokensInv'
  BY DEF TokensInv, Inside
<1>2. ModeInv'
  BY DEF ParserInv, ModeInv, Inside, InTest, Points
<1>3. TestInv'
  BY DEF ParserInv, TestInv, Inside
<1>4. ContentInv'
  BY DEF ParserInv, ContentInv
<1> QED
  BY <1>1, <1>2, <1>3, <1>4 DEF ParserInv

LEMMA SuiteKeeps ==
  ASSUME ParserInv, Suite
  PROVE  ParserInv'
<1>1. PICK t \in AnyToken :
        /\ Peek(t)
        /\ \/ t.kind = "EOF" /\ pc' = "done" /\ for' = for
           \/ t.kind = "newline" /\ pc' = "newlines" /\ for' = for
           \/ t.kind \notin {"EOF", "newline"} /\ pc' = "directive" /\ for' = "test"
  BY Zenon DEF Suite, Directive
<1>2. /\ pc = "suite" /\ mode' = mode /\ oldmode' = oldmode
      /\ current' = current /\ test' = test /\ content' = content /\ suite' = suite
  BY DEF Suite
<1>3. BuffersInv' /\ \A i \in DOMAIN tokens' : tokens'[i] = Token(tokens'[i].piece, mode)
  BY <1>1, <1>2, PeekKeeps DEF ParserInv
<1>4. TokensInv'
  BY <1>1, <1>2, <1>3 DEF TokensInv, Inside
<1>5. ModeInv'
  BY <1>1, <1>2 DEF ParserInv, ModeInv, ModeFor, Inside, InTest, Points
<1>6. TestInv'
  BY <1>1, <1>2 DEF ParserInv, TestInv, Inside
<1>7. ContentInv'
  BY <1>1, <1>2 DEF ParserInv, ContentInv
<1> QED
  BY <1>3, <1>4, <1>5, <1>6, <1>7 DEF ParserInv

LEMMA SkipNewlineKeeps ==
  ASSUME ParserInv, SkipNewline
  PROVE  ParserInv'
<1>1. PICK t \in AnyToken : Get(t)
  BY DEF SkipNewline, Skip
<1>2. /\ pc = "newlines" /\ mode' = mode /\ oldmode' = oldmode /\ pc' = pc /\ for' = for
      /\ current' = current /\ test' = test /\ content' = content /\ suite' = suite
  BY DEF SkipNewline, parserVars
<1>3. BuffersInv' /\ tokens' = <<>>
  BY <1>1, <1>2, GetKeeps DEF ParserInv
<1>4. TokensInv'
  BY <1>3 DEF TokensInv
<1>5. ModeInv'
  BY <1>2 DEF ParserInv, ModeInv
<1>6. TestInv'
  BY <1>2 DEF ParserInv, TestInv
<1>7. ContentInv'
  BY <1>2 DEF ParserInv, ContentInv
<1> QED
  BY <1>3, <1>4, <1>5, <1>6, <1>7 DEF ParserInv

LEMMA EndNewlinesKeeps ==
  ASSUME ParserInv, EndNewlines
  PROVE  ParserInv'
<1>1. PICK t \in AnyToken : Peek(t)
  BY DEF EndNewlines
<1>2. /\ pc = "newlines" /\ pc' = "suite" /\ mode' = mode /\ oldmode' = oldmode /\ for' = for
      /\ current' = current /\ test' = test /\ content' = content /\ suite' = suite
  BY DEF EndNewlines
<1>3. BuffersInv' /\ \A i \in DOMAIN tokens' : tokens'[i] = Token(tokens'[i].piece, mode)
  BY <1>1, <1>2, PeekKeeps DEF ParserInv
<1>4. TokensInv'
  BY <1>2, <1>3 DEF TokensInv, Inside
<1>5. ModeInv'
  BY <1>2 DEF ParserInv, ModeInv, Inside, InTest, Points
<1>6. TestInv'
  BY <1>2 DEF ParserInv, TestInv, Inside
<1>7. ContentInv'
  BY <1>2 DEF ParserInv, ContentInv
<1> QED
  BY <1>3, <1>4, <1>5, <1>6, <1>7 DEF ParserInv
-----------------------------------------------------------------------------
(* parse_directive.                                                        *)

LEMMA DirectiveNameKeeps ==
  ASSUME ParserInv, DirectiveName
  PROVE  ParserInv'
<1>1. PICK t \in AnyToken :
        /\ Get(t)
        /\ IF t.kind = "directive"
           THEN /\ current' = [name |-> t.piece, arguments |-> <<>>]
                /\ pc' = "named" /\ oldmode' = mode /\ mode' = "none"
                /\ UNCHANGED <<for, test, content, suite>>
           ELSE Fatal /\ UNCHANGED <<mode, oldmode>>
  BY DEF DirectiveName
<1>2. pc = "directive"
  BY DEF DirectiveName
<1>3. BuffersInv' /\ tokens' = <<>>
  BY <1>1, <1>2, GetKeeps DEF ParserInv
<1>4. CASE t.kind = "directive"
  <2>1. /\ current' = [name |-> t.piece, arguments |-> <<>>]
        /\ pc' = "named" /\ oldmode' = mode /\ mode' = "none"
        /\ for' = for /\ test' = test /\ content' = content /\ suite' = suite
    BY <1>1, <1>4
  <2>2. t.piece \in Directives
    BY <1>4, TokenFacts
  <2>3. TokensInv'
    BY <1>3 DEF TokensInv
  <2>4. ModeInv'
    BY <1>2, <2>1 DEF ParserInv, ModeInv, ModeFor, Inside, InTest, Points
  <2>5. TestInv'
    <3>1. <<>> \in Arguments
      BY DEF Arguments
    <3>2. /\ current' \in [name : Directives \cup {"none"}, arguments : Arguments]
          /\ current'.name \in Directives
      BY <2>1, <2>2, <3>1
    <3> QED
      BY <1>2, <2>1, <3>2 DEF ParserInv, TestInv, Inside
  <2>6. ContentInv'
    BY <2>1 DEF ParserInv, ContentInv
  <2> QED
    BY <1>3, <2>3, <2>4, <2>5, <2>6 DEF ParserInv
<1>5. CASE t.kind # "directive"
  <2>1. mode' = mode /\ mode \in {"none", "text"}
    BY <1>1, <1>5 DEF ParserInv, ModeInv
  <2> QED
    BY <1>1, <1>3, <1>5, <2>1, FatalKeeps DEF Fatal
<1> QED
  BY <1>4, <1>5

\* The parser goes on in the arguments, or to the end of their line.
LEMMA InsideKeeps ==
  ASSUME ParserInv, pc \in Inside, pc' \in Inside, BuffersInv', tokens' = <<>>,
         current' \in [name : Directives \cup {"none"}, arguments : Arguments],
         current'.name = current.name,
         mode' = mode, oldmode' = oldmode, for' = for,
         test' = test, content' = content, suite' = suite
  PROVE  ParserInv'
<1>1. TokensInv'
  BY DEF TokensInv
<1>2. ModeInv'
  BY DEF ParserInv, ModeInv, Inside, InTest, Points
<1>3. TestInv'
  BY DEF ParserInv, TestInv, Inside
<1>4. ContentInv'
  BY DEF ParserInv, ContentInv, Inside
<1> QED
  BY <1>1, <1>2, <1>3, <1>4 DEF ParserInv

LEMMA DirectiveNamedKeeps ==
  ASSUME ParserInv, DirectiveNamed
  PROVE  ParserInv'
<1>1. PICK p \in Pieces \cup {"EOF"} : PeekChar(p) /\ pc' = IF p = "(" THEN "open" ELSE "line end"
  BY DEF DirectiveNamed
<1>2. /\ pc = "named" /\ tokens' = tokens /\ mode' = mode /\ oldmode' = oldmode
      /\ for' = for /\ current' = current /\ test' = test
      /\ content' = content /\ suite' = suite
  BY DEF DirectiveNamed
<1>3. tokens = <<>> /\ tokens \in Seq(AnyToken) /\ Len(tokens) <= 1
  BY <1>2 DEF ParserInv, TokensInv, BuffersInv, Inside
<1>4. BuffersInv'
  <2>1. /\ text' \in Seq(Pieces) /\ ended' \in BOOLEAN
        /\ chars' \in Seq(Pieces) /\ Len(chars') <= 1
    BY <1>1, <1>3, PeekCharKeeps DEF ParserInv
  <2> QED
    BY <1>2, <1>3, <2>1 DEF BuffersInv
<1>5. pc \in Inside /\ pc' \in Inside
  BY <1>1, <1>2 DEF Inside
<1>6. current \in [name : Directives \cup {"none"}, arguments : Arguments]
  BY DEF ParserInv, TestInv
<1> QED
  BY <1>2, <1>3, <1>4, <1>5, <1>6, InsideKeeps

LEMMA OpenArgumentsKeeps ==
  ASSUME ParserInv, OpenArguments
  PROVE  ParserInv'
<1>1. PICK t \in AnyToken : Get(t)
  BY DEF OpenArguments
<1>2. /\ pc = "open" /\ pc' = "arguments" /\ mode' = mode /\ oldmode' = oldmode
      /\ for' = for /\ current' = current /\ test' = test
      /\ content' = content /\ suite' = suite
  BY DEF OpenArguments
<1>3. BuffersInv' /\ tokens' = <<>>
  BY <1>1, <1>2, GetKeeps DEF ParserInv
<1>4. pc \in Inside /\ pc' \in Inside
  BY <1>2 DEF Inside
<1>5. current \in [name : Directives \cup {"none"}, arguments : Arguments]
  BY DEF ParserInv, TestInv
<1> QED
  BY <1>2, <1>3, <1>4, <1>5, InsideKeeps

LEMMA SkipSpaceKeeps ==
  ASSUME ParserInv, SkipSpace
  PROVE  ParserInv'
<1>1. /\ pc = "arguments" /\ tokens' = tokens /\ mode' = mode /\ oldmode' = oldmode
      /\ pc' = pc /\ for' = for /\ current' = current /\ test' = test
      /\ content' = content /\ suite' = suite
  BY DEF SkipSpace, parserVars
<1>2. tokens = <<>> /\ tokens \in Seq(AnyToken) /\ Len(tokens) <= 1
  BY <1>1 DEF ParserInv, TokensInv, BuffersInv, Inside
<1>3. PICK p \in Pieces : GetChar(p)
  BY DEF SkipSpace
<1>4. BuffersInv'
  <2>1. text' \in Seq(Pieces) /\ ended' \in BOOLEAN /\ chars' = <<>>
    BY <1>1, <1>3, GetCharKeeps DEF ParserInv
  <2> QED
    BY <1>1, <1>2, <2>1 DEF BuffersInv
<1>5. pc \in Inside /\ pc' \in Inside
  BY <1>1 DEF Inside
<1>6. current \in [name : Directives \cup {"none"}, arguments : Arguments]
  BY DEF ParserInv, TestInv
<1> QED
  BY <1>1, <1>2, <1>4, <1>5, <1>6, InsideKeeps

LEMMA EndSpacesKeeps ==
  ASSUME ParserInv, EndSpaces
  PROVE  ParserInv'
<1>1. PICK p \in Pieces \cup {"EOF"} : PeekChar(p)
  BY DEF EndSpaces
<1>2. /\ pc = "arguments" /\ pc' = "argument" /\ tokens' = tokens
      /\ mode' = mode /\ oldmode' = oldmode
      /\ for' = for /\ current' = current /\ test' = test
      /\ content' = content /\ suite' = suite
  BY DEF EndSpaces
<1>3. tokens = <<>> /\ tokens \in Seq(AnyToken) /\ Len(tokens) <= 1
  BY <1>2 DEF ParserInv, TokensInv, BuffersInv, Inside
<1>4. BuffersInv'
  <2>1. /\ text' \in Seq(Pieces) /\ ended' \in BOOLEAN
        /\ chars' \in Seq(Pieces) /\ Len(chars') <= 1
    BY <1>1, <1>3, PeekCharKeeps DEF ParserInv
  <2> QED
    BY <1>2, <1>3, <2>1 DEF BuffersInv
<1>5. pc \in Inside /\ pc' \in Inside
  BY <1>2 DEF Inside
<1>6. current \in [name : Directives \cup {"none"}, arguments : Arguments]
  BY DEF ParserInv, TestInv
<1> QED
  BY <1>2, <1>3, <1>4, <1>5, <1>6, InsideKeeps

\* A token of the arguments was taken: the parser goes on, with or without an
\* argument, or it does not.
LEMMA ArgumentTokenKeeps ==
  ASSUME ParserInv, pc \in Inside, NEW t \in AnyToken, Get(t),
         mode' = mode, oldmode' = oldmode,
         \/ \E l \in Inside : To(l)
         \/ \E kind \in {"named", "unnamed"} : AddArgument(kind)
         \/ Fatal
  PROVE  ParserInv'
<1>1. pc # "fatal" /\ mode \in {"none", "text"}
  BY DEF Inside, ParserInv, ModeInv
<1>2. BuffersInv' /\ tokens' = <<>>
  BY <1>1, GetKeeps DEF ParserInv
<1>3. current \in [name : Directives \cup {"none"}, arguments : Arguments]
  BY DEF ParserInv, TestInv
<1>4. CASE \E l \in Inside : To(l)
  <2>1. /\ pc' \in Inside /\ for' = for /\ current' = current /\ test' = test
        /\ content' = content /\ suite' = suite
    BY <1>4 DEF To
  <2> QED
    BY <1>2, <1>3, <2>1, InsideKeeps
<1>5. CASE \E kind \in {"named", "unnamed"} : AddArgument(kind)
  <2>1. PICK kind \in {"named", "unnamed"} : AddArgument(kind)
    BY <1>5
  <2>2. /\ current' = [current EXCEPT !.arguments = Append(@, kind)]
        /\ pc' = "separator" /\ for' = for /\ test' = test
        /\ content' = content /\ suite' = suite
    BY <2>1 DEF AddArgument
  <2>3. Append(current.arguments, kind) \in Arguments
    BY <1>3 DEF Arguments
  <2>4. /\ current' \in [name : Directives \cup {"none"}, arguments : Arguments]
        /\ current'.name = current.name
    BY <1>3, <2>2, <2>3
  <2>5. pc' \in Inside
    BY <2>2 DEF Inside
  <2> QED
    BY <1>2, <2>2, <2>4, <2>5, InsideKeeps
<1>6. CASE Fatal
  BY <1>1, <1>2, <1>6, FatalKeeps DEF Fatal
<1> QED
  BY <1>4, <1>5, <1>6

LEMMA ArgumentKeeps ==
  ASSUME ParserInv, Argument
  PROVE  ParserInv'
<1>1. PICK t \in AnyToken :
        /\ Get(t)
        /\ \/ To("line end") \/ AddArgument("unnamed") \/ To("equals") \/ Fatal
  BY DEF Argument
<1>2. pc \in Inside /\ mode' = mode /\ oldmode' = oldmode
  BY DEF Argument, Inside
<1>3. "line end" \in Inside /\ "equals" \in Inside
  BY DEF Inside
<1> QED
  BY <1>1, <1>2, <1>3, ArgumentTokenKeeps

LEMMA EqualsKeeps ==
  ASSUME ParserInv, Equals
  PROVE  ParserInv'
<1>1. PICK t \in AnyToken : Get(t) /\ (To("value") \/ Fatal)
  BY DEF Equals
<1>2. pc \in Inside /\ mode' = mode /\ oldmode' = oldmode
  BY DEF Equals, Inside
<1>3. "value" \in Inside
  BY DEF Inside
<1> QED
  BY <1>1, <1>2, <1>3, ArgumentTokenKeeps

LEMMA ArgumentValueKeeps ==
  ASSUME ParserInv, ArgumentValue
  PROVE  ParserInv'
<1>1. PICK t \in AnyToken : Get(t) /\ (AddArgument("named") \/ Fatal)
  BY DEF ArgumentValue
<1>2. pc \in Inside /\ mode' = mode /\ oldmode' = oldmode
  BY DEF ArgumentValue, Inside
<1> QED
  BY <1>1, <1>2, ArgumentTokenKeeps

LEMMA SeparatorKeeps ==
  ASSUME ParserInv, Separator
  PROVE  ParserInv'
<1>1. PICK t \in AnyToken : Get(t) /\ (To("arguments") \/ To("line end") \/ Fatal)
  BY DEF Separator
<1>2. pc \in Inside /\ mode' = mode /\ oldmode' = oldmode
  BY DEF Separator, Inside
<1>3. "arguments" \in Inside /\ "line end" \in Inside
  BY DEF Inside
<1> QED
  BY <1>1, <1>2, <1>3, ArgumentTokenKeeps

LEMMA NewTestType ==
  NewTest \in Tests /\ Len(NewTest.requirements) <= MaxRequirements
<1>1. NewTest.arguments = <<>> /\ NewTest.requirements = <<>>
  BY DEF NewTest
<1>2. NewTest \in Tests
  BY DEF NewTest, Tests, Arguments
<1>3. Len(<<>>) = 0
  OBVIOUS
<1> QED
  BY <1>1, <1>2, <1>3, ParserAssumption

LEMMA LineEndKeeps ==
  ASSUME ParserInv, LineEnd
  PROVE  ParserInv'
<1>1. PICK t \in AnyToken :
        /\ Get(t)
        /\ StartTest \/ StartContent \/ EndTest \/ (Fatal /\ mode' = mode)
  BY DEF LineEnd
<1>2. pc = "line end" /\ oldmode' = oldmode
  BY DEF LineEnd
<1>3. BuffersInv' /\ tokens' = <<>>
  BY <1>1, <1>2, GetKeeps DEF ParserInv
<1>4. /\ mode \in {"none", "text"} /\ oldmode \in {"none", "text"}
      /\ oldmode = ModeFor(for) /\ current.name \in Directives
      /\ current \in [name : Directives \cup {"none"}, arguments : Arguments]
      /\ test \in Tests /\ Len(test.requirements) <= MaxRequirements
      /\ for = "requirement" => Len(test.requirements) < MaxRequirements
      /\ suite \in Seq(Tests)
  BY <1>2 DEF ParserInv, ModeInv, TestInv, Inside
<1>5. TokensInv'
  BY <1>3 DEF TokensInv
<1>6. CASE Fatal
  <2>1. mode' \in {"none", "text"}
    BY <1>1, <1>4 DEF StartTest, StartContent, EndTest, ModeOfTest
  <2> QED
    BY <1>2, <1>3, <1>6, <2>1, FatalKeeps DEF Fatal
<1>7. CASE ~Fatal /\ StartTest
  <2>1. /\ test' = [test EXCEPT !.arguments = current.arguments]
        /\ pc' = "requirements" /\ for' = for /\ current' = current
        /\ content' = content /\ suite' = suite /\ mode' = "text"
    BY <1>7 DEF StartTest, ModeOfTest
  <2>2. test' \in Tests /\ test'.requirements = test.requirements
    BY <1>4, <2>1 DEF Tests
  <2>3. ModeInv'
    BY <1>2, <1>4, <2>1 DEF ParserInv, ModeInv, Inside, InTest, Points
  <2>4. TestInv'
    BY <1>4, <2>1, <2>2 DEF TestInv, Inside
  <2>5. ContentInv'
    BY <2>1 DEF ParserInv, ContentInv
  <2> QED
    BY <1>3, <1>5, <2>3, <2>4, <2>5 DEF ParserInv
<1>8. CASE StartContent
  <2>1. /\ for = "requirement" /\ mode' = oldmode
        /\ pc' = "content" /\ for' = for /\ current' = current /\ test' = test
        /\ content' = content /\ suite' = suite
    BY <1>8 DEF StartContent, To
  <2>2. ModeInv'
    BY <1>2, <1>4, <2>1 DEF ParserInv, ModeInv, ModeFor, Inside, InTest, Points
  <2>3. TestInv'
    BY <1>4, <2>1 DEF TestInv, Inside
  <2>4. ContentInv'
    BY <2>1 DEF ParserInv, ContentInv
  <2> QED
    BY <1>3, <1>5, <2>2, <2>3, <2>4 DEF ParserInv
<1>9. CASE ~Fatal /\ EndTest
  <2>1. /\ for = "end of test" /\ mode' = oldmode
        /\ suite' = Append(suite, test) /\ test' = NewTest /\ pc' = "suite"
        /\ for' = for /\ current' = current /\ content' = content
    BY <1>9 DEF EndTest
  <2>2. ModeInv'
    BY <1>2, <1>4, <2>1 DEF ParserInv, ModeInv, ModeFor, Inside, InTest, Points
  <2>3. suite' \in Seq(Tests)
    BY <1>4, <2>1, AppendProperties
  <2>4. test' \in Tests /\ Len(test'.requirements) <= MaxRequirements
    BY <2>1, NewTestType
  <2>5. TestInv'
    BY <1>4, <2>1, <2>3, <2>4 DEF TestInv, Inside
  <2>6. ContentInv'
    BY <2>1 DEF ParserInv, ContentInv
  <2> QED
    BY <1>3, <1>5, <2>2, <2>5, <2>6 DEF ParserInv
<1> QED
  BY <1>1, <1>6, <1>7, <1>8, <1>9
-----------------------------------------------------------------------------
(* parse_requirement_list, parse_requirement.                              *)

LEMMA RequirementListKeeps ==
  ASSUME ParserInv, RequirementList
  PROVE  ParserInv'
<1>1. PICK t \in AnyToken :
        /\ Peek(t)
        /\ \/ /\ IsEnd(t)
              /\ pc' = "directive" /\ for' = "end of test" /\ mode' = "none"
           \/ ~Full /\ pc' = "directive" /\ for' = "requirement" /\ mode' = mode
           \/ pc' = "fatal" /\ for' = for /\ mode' = mode
  BY DEF RequirementList, Directive, ModeAfterRequirements
<1>2. /\ pc = "requirements" /\ oldmode' = oldmode /\ current' = current /\ test' = test
      /\ content' = content /\ suite' = suite
  BY DEF RequirementList
<1>3. BuffersInv' /\ t = Token(t.piece, mode) /\ \A i \in DOMAIN tokens' : tokens'[i] = t
  BY <1>1, <1>2, PeekKeeps DEF ParserInv
<1>4. mode = "text" /\ oldmode \in {"none", "text"}
  BY <1>2 DEF ParserInv, ModeInv, InTest
<1>5. TokensInv'
  <2>1. CASE IsEnd(t)
    <3>1. t = Token(t.piece, mode')
      BY <2>1, TokenFacts DEF IsEnd
    <3> QED
      BY <1>1, <1>3, <3>1 DEF TokensInv, Inside
  <2>2. CASE ~IsEnd(t)
    BY <1>1, <1>3, <2>2 DEF TokensInv, Inside
  <2> QED
    BY <2>1, <2>2
<1>6. ModeInv'
  BY <1>1, <1>2, <1>4 DEF ParserInv, ModeInv, ModeFor, Inside, InTest, Points
<1>7. TestInv'
  <2>1. /\ test \in Tests /\ Len(test.requirements) <= MaxRequirements
        /\ suite \in Seq(Tests)
        /\ current \in [name : Directives \cup {"none"}, arguments : Arguments]
    BY DEF ParserInv, TestInv
  <2>2. ~Full => Len(test.requirements) < MaxRequirements
    <3>1. Len(test.requirements) \in Nat
      BY <2>1 DEF Tests
    <3> QED
      BY <3>1, ParserAssumption DEF Full
  <2> QED
    BY <1>1, <1>2, <2>1, <2>2 DEF TestInv, Inside
<1>8. ContentInv'
  BY <1>1, <1>2 DEF ParserInv, ContentInv
<1> QED
  BY <1>3, <1>5, <1>6, <1>7, <1>8 DEF ParserInv

\* A requirement is added to the test, and the list goes on.
LEMMA AddRequirementKeeps ==
  ASSUME ParserInv, BuffersInv', pc \in {"content", "text"},
         NEW c \in Seq(Pieces) \cup {NoContent}, AddRequirement(c),
         mode' = "text", oldmode' = oldmode,
         \A i \in DOMAIN tokens' : tokens'[i] = Token(tokens'[i].piece, "text")
  PROVE  ParserInv'
<1> DEFINE r == [name |-> current.name, arguments |-> current.arguments, content |-> c]
<1>1. /\ test' = [test EXCEPT !.requirements = Append(@, r)]
      /\ pc' = "requirements" /\ content' = <<>>
      /\ for' = for /\ current' = current /\ suite' = suite
  BY DEF AddRequirement
<1>2. /\ test \in Tests /\ Len(test.requirements) < MaxRequirements
      /\ suite \in Seq(Tests)
      /\ current \in [name : Directives \cup {"none"}, arguments : Arguments]
      /\ current.name \in Directives
  BY DEF ParserInv, TestInv, Inside
<1> DEFINE Requirement == [name : Directives, arguments : Arguments,
                           content : Seq(Pieces) \cup {NoContent}]
<1>3. r \in Requirement
  BY <1>2
<1>4. test' \in Tests /\ Len(test'.requirements) <= MaxRequirements
  <2>1. test.requirements \in Seq(Requirement)
    BY <1>2 DEF Tests
  <2> DEFINE more == Append(test.requirements, r)
  <2>2. more \in Seq(Requirement) /\ Len(more) = Len(test.requirements) + 1
    <3> HIDE DEF r, Requirement
    <3> QED
      BY <1>3, <2>1, AppendProperties
  <2>3. Len(test.requirements) \in Nat /\ MaxRequirements \in Nat
    BY <2>1, ParserAssumption
  <2>4. Len(more) <= MaxRequirements
    <3> HIDE DEF more
    <3> QED
      BY <1>2, <2>2, <2>3
  <2>5. test' = [test EXCEPT !.requirements = more]
    BY <1>1
  <2>6. test' \in Tests /\ test'.requirements = more
    <3> HIDE DEF more
    <3> QED
      BY <1>2, <2>2, <2>5 DEF Tests
  <2> QED
    BY <2>4, <2>6
<1>5. TokensInv'
  BY <1>1 DEF TokensInv, Inside
<1>6. ModeInv'
  BY <1>1 DEF ParserInv, ModeInv, Inside, InTest, Points
<1>7. TestInv'
  BY <1>1, <1>2, <1>4 DEF TestInv, Inside
<1>8. ContentInv'
  BY <1>1, ParserAssumption DEF ContentInv
<1> QED
  BY <1>5, <1>6, <1>7, <1>8 DEF ParserInv

LEMMA ContentKeeps ==
  ASSUME ParserInv, Content
  PROVE  ParserInv'
<1>1. PICK t \in AnyToken :
        /\ Peek(t)
        /\ IF t.kind = "directive"
           THEN AddRequirement(NoContent) /\ UNCHANGED <<mode, oldmode>>
           ELSE To("text") /\ oldmode' = mode /\ mode' = "text"
  BY DEF Content
<1>2. pc = "content" /\ mode = "text"
  BY DEF Content, ParserInv, ModeInv, InTest
<1>3. /\ BuffersInv' /\ t = Token(t.piece, mode)
      /\ \/ tokens' = <<t>>
         \/ t.kind = "EOF" /\ tokens' = <<>> /\ chars' = <<>> /\ ended'
      /\ \A i \in DOMAIN tokens' : tokens'[i] = t
  BY <1>1, <1>2, PeekKeeps DEF ParserInv
<1>4. CASE t.kind = "directive"
  <2>1. AddRequirement(NoContent) /\ mode' = "text" /\ oldmode' = oldmode
    BY <1>1, <1>2, <1>4
  <2>2. \A i \in DOMAIN tokens' : tokens'[i] = Token(tokens'[i].piece, "text")
    BY <1>2, <1>3
  <2> QED
    BY <1>2, <1>3, <2>1, <2>2, AddRequirementKeeps
<1>5. CASE t.kind # "directive"
  <2>1. /\ pc' = "text" /\ for' = for /\ current' = current /\ test' = test
        /\ content' = content /\ suite' = suite /\ oldmode' = "text" /\ mode' = "text"
    BY <1>1, <1>2, <1>5 DEF To
  <2>2. TokensInv'
    BY <1>2, <1>3, <2>1 DEF TokensInv, Inside
  <2>3. ModeInv'
    BY <2>1 DEF ParserInv, ModeInv, Inside, InTest, Points
  <2>4. TestInv'
    BY <1>2, <2>1 DEF ParserInv, TestInv, Inside
  <2>5. ContentInv'
    <3>1. \/ tokens' # <<>> /\ Last(tokens').kind # "directive"
          \/ ended' /\ chars' = <<>> /\ tokens' = <<>>
      <4>1. tokens' = <<t>> => tokens' # <<>> /\ Last(tokens') = t
        BY DEF Last
      <4> QED
        BY <1>3, <1>5, <4>1
    <3> QED
      BY <2>1, <3>1 DEF ParserInv, ContentInv
  <2> QED
    BY <1>3, <2>2, <2>3, <2>4, <2>5 DEF ParserInv
<1> QED
  BY <1>4, <1>5

\* The content of a requirement, without the newline before the next directive.
LEMMA TrimmedType ==
  ASSUME NEW c \in Seq(Others), c # <<>>
  PROVE  Trimmed(c) \in Seq(Pieces)
<1>1. Front(c) \in Seq(Others)
  BY FrontType
<1>2. Seq(Others) \subseteq Seq(Pieces)
  BY DEF Pieces
<1> QED
  BY <1>1, <1>2 DEF Trimmed

LEMMA TextKeeps ==
  ASSUME ParserInv, Text
  PROVE  ParserInv'
<1>1. PICK t \in AnyToken :
        \/ /\ Get(t) /\ t.kind \notin {"EOF", "directive"}
           /\ content' = Append(content, t.piece)
           /\ UNCHANGED <<pc, for, current, test, suite, mode>>
        \/ /\ Peek(t) /\ t.kind = "directive"
           /\ AddRequirement(Trimmed(content)) /\ mode' = oldmode
        \/ /\ Get(t) /\ t.kind = "EOF"
           /\ Fatal /\ mode' = mode
  BY DEF Text
<1>2. /\ pc = "text" /\ mode = "text" /\ oldmode = "text" /\ oldmode' = oldmode
      /\ Len(content) < MaxContent /\ content \in Seq(Others)
  BY DEF Text, ParserInv, ModeInv, ContentInv, InTest
<1>3. CASE /\ Get(t) /\ t.kind \notin {"EOF", "directive"}
           /\ content' = Append(content, t.piece)
           /\ UNCHANGED <<pc, for, current, test, suite, mode>>
  <2>1. /\ pc' = pc /\ for' = for /\ current' = current /\ test' = test /\ suite' = suite
        /\ mode' = mode /\ content' = Append(content, t.piece)
    BY <1>3
  <2>2. BuffersInv' /\ tokens' = <<>>
    BY <1>2, <1>3, GetKeeps DEF ParserInv
  <2>3. t.piece \in Others
    BY <1>3, TokenFacts
  <2>4. content' \in Seq(Others) /\ Len(content') = Len(content) + 1 /\ content' # <<>>
    BY <1>2, <2>1, <2>3, AppendProperties
  <2>5. Len(content') <= MaxContent
    <3>1. Len(content) \in Nat /\ MaxContent \in Nat
      BY <1>2, ParserAssumption
    <3> QED
      BY <1>2, <2>4, <3>1
  <2>6. TokensInv'
    BY <2>2 DEF TokensInv
  <2>7. ModeInv'
    BY <1>2, <2>1 DEF ParserInv, ModeInv
  <2>8. TestInv'
    BY <2>1 DEF ParserInv, TestInv
  <2>9. ContentInv'
    BY <2>4, <2>5 DEF ContentInv
  <2> QED
    BY <2>2, <2>6, <2>7, <2>8, <2>9 DEF ParserInv
<1>4. CASE /\ Peek(t) /\ t.kind = "directive"
           /\ AddRequirement(Trimmed(content)) /\ mode' = oldmode
  <2>1. /\ BuffersInv' /\ t = Token(t.piece, mode)
        /\ \A i \in DOMAIN tokens' : tokens'[i] = t
    BY <1>2, <1>4, PeekKeeps DEF ParserInv
  <2>2. content # <<>>
    \* the first token of the content was seen: it is no directive
    <3>1. SUFFICES ASSUME content = <<>> PROVE FALSE
      OBVIOUS
    <3>2. CASE tokens # <<>> /\ Last(tokens).kind # "directive"
      <4>1. t = Last(tokens)
        BY <1>4, <3>2 DEF Peek
      <4> QED
        BY <1>4, <3>2, <4>1
    <3>3. CASE ended /\ chars = <<>> /\ tokens = <<>>
      <4>1. FromFile(t.piece)
        BY <1>4, <3>3 DEF Peek, GetChar
      <4>2. t.piece = "EOF"
        BY <3>3, <4>1 DEF FromFile
      <4>3. t.piece \in Directives
        BY <1>4, TokenFacts
      <4> QED
        BY <4>2, <4>3, ParserAssumption
    <3> QED
      BY <1>2, <3>1, <3>2, <3>3 DEF ParserInv, ContentInv
  <2>3. Trimmed(content) \in Seq(Pieces)
    BY <1>2, <2>2, TrimmedType
  <2>4. \A i \in DOMAIN tokens' : tokens'[i] = Token(tokens'[i].piece, "text")
    BY <1>2, <2>1
  <2> QED
    BY <1>2, <1>4, <2>1, <2>3, <2>4, AddRequirementKeeps
<1>5. CASE Get(t) /\ t.kind = "EOF" /\ Fatal /\ mode' = mode
  <2>1. BuffersInv'
    BY <1>2, <1>5, GetKeeps DEF ParserInv
  <2> QED
    BY <1>2, <1>5, <2>1, FatalKeeps DEF Fatal
<1> QED
  BY <1>1, <1>3, <1>4, <1>5

LEMMA TextTooLongKeeps ==
  ASSUME ParserInv, TextTooLong
  PROVE  ParserInv'
<1>1. BuffersInv'
  BY DEF TextTooLong, ParserInv, BuffersInv
<1>2. mode' \in {"none", "text"} /\ oldmode' = oldmode
  BY DEF TextTooLong, ParserInv, ModeInv
<1> QED
  BY <1>1, <1>2, FatalKeeps DEF TextTooLong, Fatal
-----------------------------------------------------------------------------
(* The theorems.                                                           *)

LEMMA InitParserInv == Init => ParserInv
<1> SUFFICES ASSUME Init PROVE ParserInv
  OBVIOUS
<1>1. BuffersInv
  <2>1. /\ text = <<>> /\ ended = FALSE /\ chars = <<>> /\ tokens = <<>>
    BY DEF Init
  <2>2. <<>> \in Seq(Pieces) /\ <<>> \in Seq(AnyToken) /\ Len(<<>>) <= 1
    OBVIOUS
  <2>3. text \in Seq(Pieces) /\ ended \in BOOLEAN
    BY <2>1, <2>2
  <2>4. chars \in Seq(Pieces) /\ Len(chars) <= 1
    BY <2>1, <2>2
  <2>5. tokens \in Seq(AnyToken) /\ Len(tokens) <= 1
    BY <2>1, <2>2
  <2> QED
    BY <2>1, <2>3, <2>4, <2>5 DEF BuffersInv
<1>2. TokensInv
  BY DEF Init, TokensInv
<1>3. ModeInv
  BY DEF Init, ModeInv, Inside, InTest, Points
<1>4. TestInv
  <2>1. NoDirective \in [name : Directives \cup {"none"}, arguments : Arguments]
    BY DEF NoDirective, Arguments
  <2> QED
    BY <2>1, NewTestType DEF Init, TestInv, Inside
<1>5. ContentInv
  BY ParserAssumption DEF Init, ContentInv
<1> QED
  BY <1>1, <1>2, <1>3, <1>4, <1>5 DEF ParserInv

LEMMA ParserInvariant == Spec => []ParserInv
<1>1. ParserInv /\ [Next]_vars => ParserInv'
  <2> SUFFICES ASSUME ParserInv, [Next]_vars PROVE ParserInv'
    OBVIOUS
  <2>1. CASE Next
    BY <2>1, SuiteKeeps, SkipNewlineKeeps, EndNewlinesKeeps, DirectiveNameKeeps,
       DirectiveNamedKeeps, OpenArgumentsKeeps, SkipSpaceKeeps, EndSpacesKeeps,
       ArgumentKeeps, EqualsKeeps, ArgumentValueKeeps, SeparatorKeeps, LineEndKeeps,
       RequirementListKeeps, ContentKeeps, TextKeeps, TextTooLongKeeps DEF Next
  <2>2. CASE UNCHANGED vars
    <3>1. /\ text' = text /\ ended' = ended /\ chars' = chars /\ tokens' = tokens
          /\ mode' = mode /\ oldmode' = oldmode /\ pc' = pc /\ for' = for
          /\ current' = current /\ test' = test /\ content' = content /\ suite' = suite
      BY <2>2 DEF vars, parserVars
    <3>2. BuffersInv' /\ TokensInv'
      BY <3>1 DEF ParserInv, BuffersInv, TokensInv
    <3>3. ModeInv' /\ TestInv'
      BY <3>1 DEF ParserInv, ModeInv, TestInv
    <3>4. ContentInv'
      BY <3>1 DEF ParserInv, ContentInv
    <3> QED
      BY <3>2, <3>3, <3>4 DEF ParserInv
  <2> QED
    BY <2>1, <2>2
<1> QED
  BY InitParserInv, <1>1, PTL DEF Spec

\* Neither buffer ever overflows, no test gets more requirements than it may and
\* no content more characters, whatever the text and the limits are.
THEOREM TypeCorrect == Spec => []TypeOK
<1>1. ParserInv => TypeOK
  <2> SUFFICES ASSUME ParserInv PROVE TypeOK
    OBVIOUS
  <2>1. Len(chars) <= BufferSize /\ Len(tokens) <= BufferSize
    <3>1. Len(chars) \in Nat /\ Len(tokens) \in Nat
      BY DEF ParserInv, BuffersInv
    <3> QED
      BY <3>1 DEF ParserInv, BuffersInv, BufferSize
  <2>2. current.name \in Directives \cup {"none"}
    BY DEF ParserInv, TestInv
  <2> QED
    BY <2>1, <2>2 DEF ParserInv, BuffersInv, ModeInv, TestInv, ContentInv, TypeOK
<1> QED
  BY <1>1, ParserInvariant, PTL

\* What waits in the buffers was read in the mode that the parser is in now, and
\* what reads characters never passes over a token that waits.
THEOREM Lookahead == Spec => []LookaheadIsCurrent
<1>1. ParserInv => LookaheadIsCurrent
  BY DEF ParserInv, BuffersInv, TokensInv, Inside, LookaheadIsCurrent
<1> QED
  BY <1>1, ParserInvariant, PTL
-----------------------------------------------------------------------------
(* The lines that were parsed, one after the other.                        *)

IsLast(i, S) == i \in S /\ \A k \in S : k <= i

LEMMA LastExists ==
  ASSUME NEW n \in Nat, NEW S \in SUBSET (1..n), S # {}
  PROVE  \E i \in S : IsLast(i, S)
<1> DEFINE Above(i) == {k \in S : k > i}
           T == {Above(i) : i \in S}
<1>1. IsFiniteSet(S)
  <2>1. IsFiniteSet(1..n)
    BY FS_Interval
  <2> QED
    BY <2>1, FS_Subset
<1>2. T \subseteq FiniteSubsetsOf(S) /\ T # {}
  <2>1. \A i \in S : Above(i) \in SUBSET S /\ IsFiniteSet(Above(i))
    BY <1>1, FS_Subset
  <2> QED
    BY <2>1 DEF FiniteSubsetsOf
<1>3. IsWellFoundedOn(StrictSubsetOrdering(S), FiniteSubsetsOf(S))
  BY FS_StrictSubsetOrderingWellFounded
<1>4. PICK t \in T : \A u \in T : <<u, t>> \notin StrictSubsetOrdering(S)
  <2> HIDE DEF T
  <2> QED
    BY <1>2, <1>3, WFMin, Zenon
<1>5. PICK i \in S : t = Above(i)
  BY <1>4
<1>6. \A k \in S : k <= i
  <2> SUFFICES ASSUME NEW k \in S, k > i PROVE FALSE
    OBVIOUS
  <2>0. \A j \in S : j \in Int
    OBVIOUS
  <2>1. k \in Above(i) /\ k \notin Above(k)
    BY <2>0
  <2>2. Above(k) \subseteq Above(i)
    <3>1. \A x \in S : x > k => x > i
      BY <2>0
    <3> QED
      BY <3>1
  <2>3. <<Above(k), t>> \in StrictSubsetOrdering(S)
    BY <1>5, <2>1, <2>2 DEF StrictSubsetOrdering
  <2> QED
    BY <2>3, <1>4
<1> QED
  BY <1>6 DEF IsLast

\* What holds at 0 and goes on holding is reached.
LEMMA Reached ==
  ASSUME NEW n \in Nat, NEW S, 0 \in S, \A k \in 0..n : k \in S /\ k # n => k + 1 \in S
  PROVE  n \in S
<1> DEFINE T == {k \in 1..(n + 1) : k - 1 \in S}
<1> SUFFICES ASSUME n \notin S PROVE FALSE
  OBVIOUS
<1> DEFINE m == n + 1
<1>1. T \in SUBSET (1..m) /\ T # {} /\ m \in Nat
  <2>1. 1 \in T
    OBVIOUS
  <2> QED
    BY <2>1
<1>2. PICK i \in T : IsLast(i, T)
  <2> HIDE DEF T, m
  <2> QED
    BY <1>1, LastExists
<1>3. i \in 1..(n + 1) /\ i - 1 \in S
  OBVIOUS
<1>4. i # n + 1
  BY <1>3
<1>5. i - 1 \in 0..n /\ i - 1 # n /\ (i - 1) + 1 = i
  BY <1>3, <1>4
<1>6. i \in S
  BY <1>3, <1>5
<1>7. i + 1 \in T
  BY <1>3, <1>4, <1>6
<1>8. i + 1 <= i
  <2> HIDE DEF T
  <2> QED
    BY <1>2, <1>7 DEF IsLast
<1> QED
  BY <1>3, <1>8

\* The sequences, up to each of them, as one.
Flattens(f, ss, n) == f = [i \in 1..n |-> IF i = 1 THEN ss[i] ELSE f[i - 1] \o ss[i]]

LEMMA FlattenExists ==
  ASSUME NEW N \in Nat, NEW ss
  PROVE  \E f : Flattens(f, ss, N)
<1> DEFINE S == {n \in 0..N : \E f : Flattens(f, ss, n)}
<1>1. 0 \in S
  <2> DEFINE g == [i \in 1..0 |-> <<>>]
  <2>1. Flattens(g, ss, 0)
    BY DEF Flattens
  <2> HIDE DEF g
  <2> QED
    BY <2>1
<1>2. ASSUME NEW n \in 0..N, n \in S, n # N
      PROVE  n + 1 \in S
  <2>1. PICK f : Flattens(f, ss, n)
    BY <1>2
  <2> DEFINE m == n + 1
             g == [i \in 1..m |-> IF i = m THEN IF m = 1 THEN ss[m] ELSE f[n] \o ss[m] ELSE f[i]]
  <2>2. m \in 0..N /\ m - 1 = n /\ m # 0
    BY <1>2
  <2>3. \A i \in 1..m : g[i] = IF i = 1 THEN ss[i] ELSE g[i - 1] \o ss[i]
    <3> SUFFICES ASSUME NEW i \in 1..m
                 PROVE  g[i] = IF i = 1 THEN ss[i] ELSE g[i - 1] \o ss[i]
      OBVIOUS
    <3>1. CASE i = m
      <4>1. m \in 1..m /\ i - 1 = n /\ n # m /\ (i # 1 => n \in 1..m)
        BY <3>1
      <4>2. /\ g[m] = IF m = 1 THEN ss[m] ELSE f[n] \o ss[m]
            /\ i # 1 => g[n] = f[n]
        BY <4>1
      <4> HIDE DEF g
      <4> QED
        BY <3>1, <4>1, <4>2
    <3>2. CASE i # m
      <4>1. i \in 1..n /\ (i # 1 => i - 1 \in 1..m /\ i - 1 # m)
        BY <3>2
      <4>2. f[i] = IF i = 1 THEN ss[i] ELSE f[i - 1] \o ss[i]
        BY <2>1, <4>1 DEF Flattens
      <4>3. g[i] = f[i] /\ (i # 1 => g[i - 1] = f[i - 1])
        BY <3>2, <4>1
      <4> HIDE DEF g
      <4> QED
        BY <4>2, <4>3
    <3> QED
      BY <3>1, <3>2
  <2>4. Flattens(g, ss, m)
    <3>1. g = [i \in 1..m |-> g[i]]
      OBVIOUS
    <3> HIDE DEF g
    <3> QED
      BY <2>3, <3>1 DEF Flattens
  <2> HIDE DEF g
  <2> QED
    BY <2>2, <2>4
<1>3. N \in S
  <2> HIDE DEF S
  <2> QED
    BY <1>1, <1>2, Reached
<1> QED
  BY <1>3

\* The first sequences give the same, whatever follows them.
LEMMA FlattenAgrees ==
  ASSUME NEW ss, NEW tt, NEW N \in Nat, NEW M \in Nat, NEW f, NEW g,
         N # 0, N <= M, \A i \in 1..N : ss[i] = tt[i],
         Flattens(f, ss, N), Flattens(g, tt, M)
  PROVE  f[N] = g[N]
<1> DEFINE S == {k \in 0..N : k = 0 \/ f[k] = g[k]}
<1>1. 0 \in S
  OBVIOUS
<1>2. ASSUME NEW n \in 0..N, n \in S, n # N
      PROVE  n + 1 \in S
  <2> DEFINE m == n + 1
  <2>1. m \in 1..N /\ m \in 1..M /\ m - 1 = n /\ m \in 0..N /\ (m = 1 <=> n = 0)
    BY <1>2
  <2>2. f[m] = IF m = 1 THEN ss[m] ELSE f[m - 1] \o ss[m]
    BY <2>1 DEF Flattens
  <2>3. g[m] = IF m = 1 THEN tt[m] ELSE g[m - 1] \o tt[m]
    BY <2>1 DEF Flattens
  <2>4. ss[m] = tt[m] /\ (n # 0 => f[n] = g[n])
    BY <1>2, <2>1
  <2> HIDE DEF m
  <2>5. f[m] = g[m]
    BY <2>1, <2>2, <2>3, <2>4
  <2>6. m \in S
    BY <2>1, <2>5
  <2> QED
    BY <2>6 DEF m
<1>3. N \in S
  <2> HIDE DEF S
  <2> QED
    BY <1>1, <1>2, Reached
<1> QED
  BY <1>3

LEMMA FlattenIs ==
  ASSUME NEW X, NEW ss \in Seq(X), ss # <<>>
  PROVE  \E f : Flattens(f, ss, Len(ss)) /\ FlattenSeq(ss) = f[Len(ss)]
<1> DEFINE Is(f) == f = [i \in 1..Len(ss) |-> IF i = 1 THEN ss[i] ELSE f[i - 1] \o ss[i]]
           h == CHOOSE f : Is(f)
<1>1. Len(ss) \in Nat /\ Len(ss) # 0
  BY EmptySeq, LenProperties
<1>2. \E f : Is(f)
  BY <1>1, FlattenExists DEF Flattens
<1>3. Is(h)
  <2> HIDE DEF Is
  <2> QED
    BY <1>2
<1>4. FlattenSeq(ss) = h[Len(ss)]
  BY <1>1 DEF FlattenSeq
<1>5. Flattens(h, ss, Len(ss))
  BY <1>3 DEF Flattens
<1> HIDE DEF h
<1> QED
  BY <1>4, <1>5

\* One more sequence comes behind the others.
LEMMA FlattenAppend ==
  ASSUME NEW X, NEW ss \in Seq(Seq(X)), NEW s \in Seq(X)
  PROVE  FlattenSeq(Append(ss, s)) = FlattenSeq(ss) \o s
<1> DEFINE tt == Append(ss, s)
           n == Len(ss)
           m == Len(tt)
<1>1. /\ tt \in Seq(Seq(X)) /\ tt # <<>> /\ m = n + 1 /\ n \in Nat /\ m \in Nat \ {0} /\ m - 1 = n
      /\ (\A i \in 1..n : tt[i] = ss[i]) /\ tt[m] = s
  BY AppendProperties, LenProperties
<1>2. PICK g : Flattens(g, tt, m) /\ FlattenSeq(tt) = g[m]
  BY <1>1, FlattenIs
<1>3. CASE ss = <<>>
  <2>1. n = 0 /\ FlattenSeq(ss) = <<>>
    BY <1>3 DEF FlattenSeq
  <2>2. g[m] = s
    <3> HIDE DEF tt, n, m
    <3>1. m \in 1..m /\ m = 1
      BY <1>1, <2>1
    <3> QED
      BY <1>1, <1>2, <3>1 DEF Flattens
  <2>3. <<>> \o s = s
    BY ConcatEmptySeq
  <2> QED
    BY <1>2, <2>1, <2>2, <2>3
<1>4. CASE ss # <<>>
  <2>1. PICK f : Flattens(f, ss, n) /\ FlattenSeq(ss) = f[n]
    BY <1>4, FlattenIs
  <2>2. n # 0
    BY <1>4, EmptySeq
  <2> HIDE DEF tt, n, m
  <2>3. n \in Nat /\ n # 0 /\ n <= m /\ m \in 1..m /\ m # 1
    BY <1>1, <2>2
  <2>4. f[n] = g[n]
    <3>1. \A i \in 1..n : ss[i] = tt[i]
      BY <1>1
    <3>2. Flattens(f, ss, n) /\ Flattens(g, tt, m) /\ m \in Nat
      BY <1>1, <1>2, <2>1
    <3> QED
      BY <2>3, <3>1, <3>2, FlattenAgrees
  <2>5. g[m] = g[m - 1] \o tt[m]
    BY <1>2, <2>3 DEF Flattens
  <2>6. FlattenSeq(tt) = FlattenSeq(ss) \o s
    BY <1>1, <1>2, <2>1, <2>4, <2>5
  <2> QED
    BY <2>6 DEF tt
<1> QED
  BY <1>3, <1>4
-----------------------------------------------------------------------------
(* What was taken of the text.                                             *)

\* How much of the text the parser has taken: what waits to be read again is its end.
Past == Len(text) - Len(chars) - Len(tokens)

WaitingInv ==
  /\ chars # <<>> => Len(text) > 0 /\ Last(chars) = text[Len(text)]
  /\ tokens # <<>> => Len(text) > 0 /\ Last(tokens).piece = text[Len(text)]

\* A text that was read on.
Grown(s, u) == Len(s) <= Len(u) /\ \A i \in 1..Len(s) : u[i] = s[i]

LEMMA NoneOrOne ==
  ASSUME NEW S, NEW s \in Seq(S), Len(s) <= 1
  PROVE  /\ s = <<>> => Len(s) = 0
         /\ s # <<>> => Len(s) = 1 /\ s = <<Last(s)>> /\ Last(s) \in S
<1>1. CASE s = <<>>
  BY <1>1
<1>2. CASE s # <<>>
  BY <1>2, FrontOfOne
<1> QED
  BY <1>1, <1>2

LEMMA PastFacts ==
  ASSUME BuffersInv
  PROVE  /\ Len(text) \in Nat
         /\ chars = <<>> /\ tokens = <<>> => Past = Len(text)
         /\ chars # <<>> => Past = Len(text) - 1 /\ tokens = <<>> /\ chars = <<Last(chars)>>
                            /\ Last(chars) \in Pieces
         /\ tokens # <<>> => Past = Len(text) - 1 /\ chars = <<>> /\ tokens = <<Last(tokens)>>
                             /\ Last(tokens) \in AnyToken
<1>1. /\ chars = <<>> => Len(chars) = 0
      /\ chars # <<>> => Len(chars) = 1 /\ chars = <<Last(chars)>> /\ Last(chars) \in Pieces
  BY NoneOrOne DEF BuffersInv
<1>2. /\ tokens = <<>> => Len(tokens) = 0
      /\ tokens # <<>> => Len(tokens) = 1 /\ tokens = <<Last(tokens)>> /\ Last(tokens) \in AnyToken
  BY NoneOrOne DEF BuffersInv
<1>3. Len(text) \in Nat /\ (chars = <<>> \/ tokens = <<>>)
  BY LenProperties DEF BuffersInv
<1> DEFINE l == Len(text)
           c == Len(chars)
           t == Len(tokens)
<1>4. Past = l - c - t
  BY DEF Past
<1>5. /\ l \in Nat
      /\ chars = <<>> => c = 0
      /\ chars # <<>> => c = 1
      /\ tokens = <<>> => t = 0
      /\ tokens # <<>> => t = 1
  BY <1>1, <1>2, <1>3
<1> HIDE DEF l, c, t
<1>6. /\ chars = <<>> /\ tokens = <<>> => Past = l
      /\ chars # <<>> => Past = l - 1
      /\ tokens # <<>> => Past = l - 1
  BY <1>3, <1>4, <1>5
<1> QED
  BY <1>1, <1>2, <1>3, <1>6 DEF l

LEMMA PastType ==
  ASSUME BuffersInv, WaitingInv
  PROVE  Past \in Nat /\ Past <= Len(text) /\ Len(text) \in Nat
<1>1. Past = Len(text) \/ (Past = Len(text) - 1 /\ Len(text) > 0)
  BY PastFacts DEF WaitingInv
<1> QED
  BY <1>1, PastFacts

\* The end of the file is not read again: what waits is a piece.
LEMMA WaitingIsPiece ==
  ASSUME BuffersInv, WaitingInv
  PROVE  /\ chars # <<>> => Last(chars) # "EOF"
         /\ tokens # <<>> => Last(tokens).piece # "EOF" /\ Last(tokens).kind # "EOF"
<1>1. "EOF" \notin Pieces
  BY ParserAssumption DEF Pieces, Marks
<1>2. \A i \in 1..Len(text) : text[i] \in Pieces
  BY ElementOfSeq DEF BuffersInv
<1>3. Len(text) > 0 => text[Len(text)] # "EOF"
  <2>1. Len(text) > 0 => Len(text) \in 1..Len(text)
    BY PastFacts
  <2> QED
    BY <1>1, <1>2, <2>1
<1>4. tokens # <<>> => Last(tokens).piece # "EOF" /\ Last(tokens) \in AnyToken
  BY <1>3, PastFacts DEF WaitingInv
<1>5. tokens # <<>> => Last(tokens).kind # "EOF"
  BY <1>4, TokenFacts
<1> QED
  BY <1>3, <1>4, <1>5 DEF WaitingInv

LEMMA FromFileTakes ==
  ASSUME BuffersInv, NEW p \in Pieces \cup {"EOF"}, FromFile(p)
  PROVE  /\ Grown(text, text')
         /\ p = "EOF" => text' = text /\ ended'
         /\ p # "EOF" => Len(text') = Len(text) + 1 /\ text'[Len(text) + 1] = p
<1>1. text \in Seq(Pieces) /\ Len(text) \in Nat
  BY LenProperties DEF BuffersInv
<1>2. CASE p = "EOF"
  <2>1. text' = text /\ ended' = TRUE
    BY <1>2 DEF FromFile
  <2> QED
    BY <1>1, <1>2, <2>1 DEF Grown
<1>3. CASE p # "EOF"
  <2>1. text' = Append(text, p) /\ p \in Pieces
    BY <1>3 DEF FromFile
  <2>2. /\ Len(text') = Len(text) + 1 /\ text'[Len(text) + 1] = p
        /\ \A i \in 1..Len(text) : text'[i] = text[i]
    BY <1>1, <2>1, AppendProperties
  <2> QED
    BY <1>1, <1>3, <2>2 DEF Grown
<1> QED
  BY <1>2, <1>3

\* A character is taken.
LEMMA GetCharTakes ==
  ASSUME BuffersInv, WaitingInv, tokens = <<>>, NEW p \in Pieces \cup {"EOF"}, GetChar(p)
  PROVE  /\ Grown(text, text') /\ chars' = <<>>
         /\ p = "EOF" => Len(text') = Past /\ ended'
         /\ p # "EOF" => Len(text') = Past + 1 /\ text'[Past + 1] = p
<1>1. CASE chars # <<>>
  <2>1. p = Last(chars) /\ chars' = Front(chars) /\ text' = text
    BY <1>1 DEF GetChar
  <2>2. Front(chars) = <<>>
    BY <1>1, FrontOfOne DEF BuffersInv
  <2>3. /\ Past = Len(text) - 1 /\ Len(text) \in Nat
        /\ Last(chars) = text[Len(text)] /\ p # "EOF"
    BY <1>1, <2>1, PastFacts, WaitingIsPiece DEF WaitingInv
  <2>4. Grown(text, text')
    BY <2>1, <2>3 DEF Grown
  <2>5. Past + 1 = Len(text)
    BY <2>3
  <2> QED
    BY <2>1, <2>2, <2>3, <2>4, <2>5
<1>2. CASE chars = <<>>
  <2>1. FromFile(p) /\ chars' = chars
    BY <1>2 DEF GetChar
  <2>2. Past = Len(text)
    BY <1>2, PastFacts
  <2> QED
    BY <1>2, <2>1, <2>2, FromFileTakes
<1> QED
  BY <1>1, <1>2

\* A character is looked at.
LEMMA PeekCharTakes ==
  ASSUME BuffersInv, WaitingInv, tokens = <<>>, tokens' = <<>>,
         NEW p \in Pieces \cup {"EOF"}, PeekChar(p)
  PROVE  /\ Grown(text, text') /\ WaitingInv' /\ Past' = Past
         /\ p # "EOF" => chars' = <<p>>
<1>1. CASE chars # <<>>
  <2>1. p = Last(chars) /\ chars' = chars /\ text' = text
    BY <1>1 DEF PeekChar
  <2>2. chars = <<Last(chars)>> /\ Len(text) \in Nat
    BY <1>1, PastFacts
  <2>3. Past' = Past /\ WaitingInv'
    BY <2>1 DEF Past, WaitingInv
  <2>4. Grown(text, text')
    BY <2>1, <2>2 DEF Grown
  <2> QED
    BY <2>1, <2>2, <2>3, <2>4
<1>2. CASE chars = <<>>
  <2>1. FromFile(p) /\ chars' = IF p = "EOF" THEN chars ELSE Append(chars, p)
    BY <1>2 DEF PeekChar
  <2>2. Past = Len(text) /\ Len(text) \in Nat
    BY <1>2, PastFacts
  <2>3. /\ Grown(text, text')
        /\ p = "EOF" => text' = text
        /\ p # "EOF" => Len(text') = Len(text) + 1 /\ text'[Len(text) + 1] = p
    BY <2>1, FromFileTakes
  <2>4. CASE p = "EOF"
    <3>1. chars' = <<>> /\ text' = text
      BY <1>2, <2>1, <2>3, <2>4
    <3>2. Past' = Past /\ WaitingInv'
      BY <1>2, <3>1 DEF Past, WaitingInv
    <3> QED
      BY <2>3, <2>4, <3>2
  <2>5. CASE p # "EOF"
    <3>1. chars' = <<p>>
      BY <1>2, <2>1, <2>5
    <3>2. Len(chars') = 1 /\ Last(chars') = p /\ Len(tokens') = 0
      BY <3>1 DEF Last
    <3>3. Past' = Past
      BY <2>2, <2>3, <2>5, <3>2 DEF Past
    <3>4. WaitingInv'
      BY <2>2, <2>3, <2>5, <3>2 DEF WaitingInv
    <3> QED
      BY <2>3, <3>1, <3>3, <3>4
  <2> QED
    BY <2>4, <2>5
<1> QED
  BY <1>1, <1>2

\* A token is taken.
LEMMA GetTakes ==
  ASSUME BuffersInv, TokensInv, WaitingInv, pc # "fatal", NEW t \in AnyToken, Get(t)
  PROVE  /\ Grown(text, text') /\ WaitingInv'
         /\ chars' = <<>> /\ tokens' = <<>> /\ Past' = Len(text')
         /\ t.kind = "EOF" => Past' = Past
         /\ t.kind # "EOF" => Past' = Past + 1 /\ text'[Past + 1] = t.piece
<1>1. tokens' = <<>> /\ BuffersInv'
  BY GetKeeps
<1>2. SUFFICES /\ Grown(text, text') /\ chars' = <<>>
               /\ t.kind = "EOF" => Len(text') = Past
               /\ t.kind # "EOF" => Len(text') = Past + 1 /\ text'[Past + 1] = t.piece
  <2>1. chars' = <<>> => Past' = Len(text') /\ WaitingInv'
    <3> SUFFICES ASSUME chars' = <<>> PROVE Past' = Len(text') /\ WaitingInv'
      OBVIOUS
    <3>1. WaitingInv'
      BY <1>1 DEF WaitingInv
    <3>2. text' \in Seq(Pieces) /\ Len(text') \in Nat
      BY <1>1, LenProperties DEF BuffersInv
    <3>3. Len(chars') = 0 /\ Len(tokens') = 0
      BY <1>1
    <3> QED
      BY <3>1, <3>2, <3>3 DEF Past
  <2> QED
    BY <1>1, <2>1
<1>3. CASE tokens # <<>>
  <2>1. t = Last(tokens) /\ text' = text /\ chars' = chars
    BY <1>3 DEF Get
  <2>2. /\ Past = Len(text) - 1 /\ Len(text) \in Nat /\ chars = <<>>
        /\ t.piece = text[Len(text)] /\ t.kind # "EOF"
    BY <1>3, <2>1, PastFacts, WaitingIsPiece DEF WaitingInv
  <2>3. Grown(text, text') /\ Past + 1 = Len(text)
    BY <2>1, <2>2 DEF Grown
  <2> QED
    BY <2>1, <2>2, <2>3
<1>4. CASE tokens = <<>>
  <2>1. GetChar(t.piece)
    BY <1>4 DEF Get
  <2>2. t.piece \in Pieces \cup {"EOF"} /\ (t.kind = "EOF" <=> t.piece = "EOF")
    BY TokenFacts
  <2> QED
    BY <1>4, <2>1, <2>2, GetCharTakes
<1> QED
  BY <1>3, <1>4

\* A token is looked at.
LEMMA PeekTakes ==
  ASSUME BuffersInv, TokensInv, WaitingInv, pc # "fatal", NEW t \in AnyToken, Peek(t)
  PROVE  /\ Grown(text, text') /\ WaitingInv' /\ Past' = Past /\ chars' = <<>>
         /\ t.kind = "EOF" => tokens' = <<>> /\ ended'
         /\ t.kind # "EOF" => tokens' = <<t>>
<1>1. CASE tokens # <<>>
  <2>1. t = Last(tokens) /\ text' = text /\ chars' = chars /\ tokens' = tokens
    BY <1>1 DEF Peek
  <2>2. chars = <<>> /\ tokens = <<t>> /\ Len(text) \in Nat /\ t.kind # "EOF"
    BY <1>1, <2>1, PastFacts, WaitingIsPiece
  <2>3. Past' = Past /\ WaitingInv'
    BY <2>1 DEF Past, WaitingInv
  <2>4. Grown(text, text')
    BY <2>1, <2>2 DEF Grown
  <2> QED
    BY <2>1, <2>2, <2>3, <2>4
<1>2. CASE tokens = <<>>
  <2>1. GetChar(t.piece) /\ tokens' = IF t.kind = "EOF" THEN tokens ELSE Append(tokens, t)
    BY <1>2 DEF Peek
  <2>2. t.piece \in Pieces \cup {"EOF"} /\ (t.kind = "EOF" <=> t.piece = "EOF")
    BY TokenFacts
  <2>3. /\ Grown(text, text') /\ chars' = <<>>
        /\ t.kind = "EOF" => Len(text') = Past /\ ended'
        /\ t.kind # "EOF" => Len(text') = Past + 1 /\ text'[Past + 1] = t.piece
    BY <1>2, <2>1, <2>2, GetCharTakes
  <2>4. Past \in Nat /\ Len(chars') = 0
    BY <2>3, PastType
  <2>5. CASE t.kind = "EOF"
    <3>1. tokens' = <<>> /\ Len(tokens') = 0
      BY <1>2, <2>1, <2>5
    <3>2. Past' = Past
      BY <2>3, <2>4, <2>5, <3>1 DEF Past
    <3>3. WaitingInv'
      BY <2>3, <3>1 DEF WaitingInv
    <3> QED
      BY <2>3, <2>5, <3>1, <3>2, <3>3
  <2>6. CASE t.kind # "EOF"
    <3>1. tokens' = <<t>>
      BY <1>2, <2>1, <2>6
    <3>2. Len(tokens') = 1 /\ Last(tokens') = t
      BY <3>1 DEF Last
    <3>3. Past' = Past
      BY <2>3, <2>4, <2>6, <3>2 DEF Past
    <3>4. WaitingInv'
      BY <2>3, <2>4, <2>6, <3>2 DEF WaitingInv
    <3> QED
      BY <2>3, <2>6, <3>1, <3>3, <3>4
  <2> QED
    BY <2>5, <2>6
<1> QED
  BY <1>1, <1>2
-----------------------------------------------------------------------------
(* What a line that was parsed has to do with the text.                    *)

Strings(s, q, e) == {i \in q..e : s[i] = "string"}

\* What the rest of a line is not.
NotInLine == {"newline", "char"}

\* Directive d is written from q on, and l is the end of its line.
IsWritten(s, d, q, l) ==
  /\ s[q] = d.name
  /\ s[l] = "newline" /\ \A j \in q..(l - 1) : s[j] \notin NotInLine
  /\ Cardinality(Strings(s, q, l)) = Len(d.arguments)

\* c is what stands behind l, up to e.
IsSlice(s, c, l, e) == Len(c) = e - l /\ \A i \in 1..(e - l) : c[i] = s[l + i]

IsBody(s, c, l, e) ==
  IF e = l THEN c = NoContent ELSE IsSlice(s, c, l, IF s[e] = "newline" THEN e - 1 ELSE e)

\* A line is what is written from q to e.
IsRight(s, line, q, e) ==
  \E l \in q..e :
    /\ IsWritten(s, line.directive, q, l)
    /\ line.kind = "test" => e = l
    /\ line.kind = "end" => \A j \in (l + 1)..e : s[j] = "newline"
    /\ line.kind = "requirement" => IsBody(s, line.directive.content, l, e) /\ e - l < MaxContent

\* The directives of the text, up to n, are at these positions.
Marked(s, at, n) ==
  /\ at \in Seq(Nat)
  /\ \A k \in 1..Len(at) : at[k] \in 1..n /\ s[at[k]] \in Directives
  /\ \A k, l \in 1..Len(at) : k < l => at[k] < at[l]
  /\ \A i \in 1..n : s[i] \in Directives => \E k \in 1..Len(at) : at[k] = i

\* Where what belongs to the k-th directive ends.
EndOf(at, k, n) == IF k < Len(at) THEN at[k + 1] - 1 ELSE n

\* The line of directive d is not over.
LineBegun(s, d, q, n) ==
  /\ s[q] = d.name
  /\ \A j \in q..n : s[j] \notin NotInLine
  /\ Cardinality(Strings(s, q, n)) = Len(d.arguments)

\* The line of directive d is over, and what follows it is c.
BodyBegun(s, d, c, q, n) == \E l \in q..n : IsWritten(s, d, q, l) /\ IsSlice(s, c, l, n)

SameTo(s, u, n) == \A i \in 1..n : u[i] = s[i]

LEMMA StringsFacts ==
  ASSUME NEW s, NEW q \in Nat, NEW e \in Nat
  PROVE  IsFiniteSet(Strings(s, q, e)) /\ Cardinality(Strings(s, q, e)) \in Nat
<1>1. IsFiniteSet(q..e)
  BY FS_Interval
<1>2. Strings(s, q, e) \in SUBSET (q..e)
  BY DEF Strings
<1> QED
  BY <1>1, <1>2, FS_Subset, FS_CardinalityType

LEMMA WrittenSame ==
  ASSUME NEW s, NEW u, NEW n \in Nat, NEW d, NEW q \in 1..n, NEW l \in q..n,
         SameTo(s, u, n), IsWritten(s, d, q, l)
  PROVE  IsWritten(u, d, q, l)
<1>1. \A i \in q..l : u[i] = s[i]
  BY DEF SameTo
<1>2. Strings(u, q, l) = Strings(s, q, l)
  BY <1>1 DEF Strings
<1>3. /\ u[q] = d.name /\ u[l] = "newline"
      /\ \A j \in q..(l - 1) : u[j] \notin NotInLine
  BY <1>1 DEF IsWritten
<1> QED
  BY <1>2, <1>3 DEF IsWritten

LEMMA SliceSame ==
  ASSUME NEW s, NEW u, NEW n \in Nat, NEW c, NEW l \in 1..n, NEW e \in l..n,
         SameTo(s, u, n), IsSlice(s, c, l, e)
  PROVE  IsSlice(u, c, l, e)
<1>1. \A i \in 1..(e - l) : u[l + i] = s[l + i]
  BY DEF SameTo
<1> QED
  BY <1>1 DEF IsSlice

LEMMA BodySame ==
  ASSUME NEW s, NEW u, NEW n \in Nat, NEW c, NEW l \in 1..n, NEW e \in l..n,
         SameTo(s, u, n), IsBody(s, c, l, e)
  PROVE  IsBody(u, c, l, e)
<1>1. u[e] = s[e]
  BY DEF SameTo
<1>2. CASE e = l
  BY <1>2 DEF IsBody
<1>3. CASE e # l
  <2> DEFINE m == IF s[e] = "newline" THEN e - 1 ELSE e
  <2>1. m \in l..n
    BY <1>3
  <2>2. IsSlice(s, c, l, m)
    BY <1>3 DEF IsBody
  <2> HIDE DEF m
  <2>3. IsSlice(u, c, l, m)
    BY <2>1, <2>2, SliceSame
  <2> QED
    BY <1>1, <1>3, <2>3 DEF IsBody, m
<1> QED
  BY <1>2, <1>3

LEMMA RightSame ==
  ASSUME NEW s, NEW u, NEW n \in Nat, NEW line, NEW q \in 1..n, NEW e \in Nat, e <= n,
         SameTo(s, u, n), IsRight(s, line, q, e)
  PROVE  IsRight(u, line, q, e)
<1>1. PICK l \in q..e :
        /\ IsWritten(s, line.directive, q, l)
        /\ line.kind = "test" => e = l
        /\ line.kind = "end" => \A j \in (l + 1)..e : s[j] = "newline"
        /\ line.kind = "requirement" => IsBody(s, line.directive.content, l, e) /\ e - l < MaxContent
  BY DEF IsRight
<1>2. l \in q..n /\ l \in 1..n /\ e \in l..n
  OBVIOUS
<1>3. IsWritten(u, line.directive, q, l)
  BY <1>1, <1>2, WrittenSame
<1>4. line.kind = "end" => \A j \in (l + 1)..e : u[j] = "newline"
  BY <1>1, <1>2 DEF SameTo
<1>5. line.kind = "requirement" => IsBody(u, line.directive.content, l, e) /\ e - l < MaxContent
  BY <1>1, <1>2, BodySame
<1> QED
  BY <1>1, <1>3, <1>4, <1>5 DEF IsRight

LEMMA LineSame ==
  ASSUME NEW s, NEW u, NEW n \in Nat, NEW d, NEW q \in 1..n,
         SameTo(s, u, n), LineBegun(s, d, q, n)
  PROVE  LineBegun(u, d, q, n)
<1>1. \A i \in q..n : u[i] = s[i]
  BY DEF SameTo
<1>2. Strings(u, q, n) = Strings(s, q, n)
  BY <1>1 DEF Strings
<1>3. u[q] = d.name /\ \A j \in q..n : u[j] \notin NotInLine
  BY <1>1 DEF LineBegun
<1> QED
  BY <1>2, <1>3 DEF LineBegun

LEMMA BodyBegunSame ==
  ASSUME NEW s, NEW u, NEW n \in Nat, NEW d, NEW c, NEW q \in 1..n,
         SameTo(s, u, n), BodyBegun(s, d, c, q, n)
  PROVE  BodyBegun(u, d, c, q, n)
<1>1. PICK l \in q..n : IsWritten(s, d, q, l) /\ IsSlice(s, c, l, n)
  BY DEF BodyBegun
<1>2. l \in 1..n /\ n \in l..n
  OBVIOUS
<1>3. IsWritten(u, d, q, l) /\ IsSlice(u, c, l, n)
  BY <1>1, <1>2, WrittenSame, SliceSame
<1> QED
  BY <1>3 DEF BodyBegun

LEMMA MarkedSame ==
  ASSUME NEW s, NEW u, NEW n \in Nat, NEW at, SameTo(s, u, n), Marked(s, at, n)
  PROVE  Marked(u, at, n)
<1>1. \A i \in 1..n : u[i] = s[i]
  BY DEF SameTo
<1>2. \A k \in 1..Len(at) : at[k] \in 1..n /\ u[at[k]] \in Directives
  BY <1>1 DEF Marked
<1>3. \A i \in 1..n : u[i] \in Directives => \E k \in 1..Len(at) : at[k] = i
  BY <1>1 DEF Marked
<1> QED
  BY <1>2, <1>3 DEF Marked
-----------------------------------------------------------------------------
(* One more piece.                                                         *)

LEMMA NotMarked ==
  ASSUME NEW s, NEW n \in Nat, NEW at, Marked(s, at, n), s[n + 1] \notin Directives
  PROVE  Marked(s, at, n + 1)
<1>1. \A k \in 1..Len(at) : at[k] \in 1..(n + 1) /\ s[at[k]] \in Directives
  BY DEF Marked
<1>2. \A i \in 1..(n + 1) : s[i] \in Directives => \E k \in 1..Len(at) : at[k] = i
  <2> SUFFICES ASSUME NEW i \in 1..(n + 1), s[i] \in Directives
               PROVE  \E k \in 1..Len(at) : at[k] = i
    OBVIOUS
  <2>1. i \in 1..n
    OBVIOUS
  <2> QED
    BY <2>1 DEF Marked
<1> QED
  BY <1>1, <1>2 DEF Marked

LEMMA OneMarked ==
  ASSUME NEW s, NEW n \in Nat, NEW at, Marked(s, at, n), s[n + 1] \in Directives
  PROVE  Marked(s, Append(at, n + 1), n + 1)
<1> DEFINE m == Len(at)
           z == Append(at, n + 1)
<1>1. /\ at \in Seq(Nat) /\ m \in Nat
      /\ \A k \in 1..m : at[k] \in 1..n /\ s[at[k]] \in Directives
      /\ \A k, l \in 1..m : k < l => at[k] < at[l]
      /\ \A i \in 1..n : s[i] \in Directives => \E k \in 1..m : at[k] = i
  BY LenProperties DEF Marked
<1>2. z \in Seq(Nat) /\ Len(z) = m + 1 /\ (\A k \in 1..m : z[k] = at[k]) /\ z[m + 1] = n + 1
  BY <1>1, AppendProperties
<1> HIDE DEF m, z
<1>3. ASSUME NEW k \in 1..(m + 1)
      PROVE  z[k] \in 1..(n + 1) /\ s[z[k]] \in Directives
  <2>1. CASE k = m + 1
    BY <1>2, <2>1
  <2>2. CASE k # m + 1
    <3>1. k \in 1..m
      BY <1>1, <2>2
    <3>2. z[k] = at[k] /\ at[k] \in 1..n /\ s[at[k]] \in Directives
      BY <1>1, <1>2, <3>1
    <3> QED
      BY <3>2
  <2> QED
    BY <2>1, <2>2
<1>4. ASSUME NEW k \in 1..(m + 1), NEW l \in 1..(m + 1), k < l
      PROVE  z[k] < z[l]
  <2>1. k \in 1..m
    BY <1>1, <1>4
  <2>2. z[k] = at[k] /\ at[k] \in 1..n
    BY <1>1, <1>2, <2>1
  <2>3. CASE l = m + 1
    BY <1>2, <2>2, <2>3
  <2>4. CASE l # m + 1
    <3>1. l \in 1..m
      BY <1>1, <2>4
    <3>2. z[l] = at[l] /\ at[k] < at[l]
      BY <1>1, <1>2, <1>4, <2>1, <3>1
    <3> QED
      BY <2>2, <3>2
  <2> QED
    BY <2>3, <2>4
<1>5. ASSUME NEW i \in 1..(n + 1), s[i] \in Directives
      PROVE  \E k \in 1..(m + 1) : z[k] = i
  <2>1. CASE i = n + 1
    <3>1. m + 1 \in 1..(m + 1)
      BY <1>1
    <3> QED
      BY <1>2, <2>1, <3>1
  <2>2. CASE i # n + 1
    <3>1. i \in 1..n
      BY <2>2
    <3>2. PICK k \in 1..m : at[k] = i
      BY <1>1, <1>5, <3>1
    <3>3. z[k] = i /\ k \in 1..(m + 1)
      BY <1>1, <1>2, <3>2
    <3> QED
      BY <3>3
  <2> QED
    BY <2>1, <2>2
<1>6. Marked(s, z, n + 1)
  BY <1>2, <1>3, <1>4, <1>5 DEF Marked
<1> QED
  BY <1>6 DEF z

LEMMA LineBegins ==
  ASSUME NEW s, NEW q \in Nat, NEW d, s[q] = d.name, d.name \in Directives, d.arguments = <<>>
  PROVE  LineBegun(s, d, q, q)
<1>1. s[q] \notin NotInLine /\ s[q] # "string"
  BY ParserAssumption DEF Marks, NotInLine
<1>2. \A j \in q..q : j = q
  OBVIOUS
<1>3. Strings(s, q, q) = {}
  BY <1>1, <1>2 DEF Strings
<1>4. Cardinality(Strings(s, q, q)) = 0
  BY <1>3, FS_EmptySet
<1>5. Len(d.arguments) = 0
  OBVIOUS
<1> QED
  BY <1>1, <1>2, <1>4, <1>5 DEF LineBegun

\* The strings up to one more piece.
LEMMA OneMoreString ==
  ASSUME NEW s, NEW n \in Nat, NEW q \in 1..n
  PROVE  Cardinality(Strings(s, q, n + 1)) =
           IF s[n + 1] = "string" THEN Cardinality(Strings(s, q, n)) + 1
           ELSE Cardinality(Strings(s, q, n))
<1>1. \A i \in q..(n + 1) : i \in q..n \/ i = n + 1
  OBVIOUS
<1>2. n + 1 \in q..(n + 1) /\ n + 1 \notin q..n /\ \A i \in q..n : i \in q..(n + 1)
  OBVIOUS
<1>3. CASE s[n + 1] = "string"
  <2>1. Strings(s, q, n + 1) = Strings(s, q, n) \cup {n + 1}
    BY <1>1, <1>2, <1>3 DEF Strings
  <2>2. n + 1 \notin Strings(s, q, n)
    BY <1>2 DEF Strings
  <2>3. IsFiniteSet(Strings(s, q, n))
    BY StringsFacts
  <2> QED
    BY <1>3, <2>1, <2>2, <2>3, FS_AddElement
<1>4. CASE s[n + 1] # "string"
  <2>1. Strings(s, q, n + 1) = Strings(s, q, n)
    BY <1>1, <1>2, <1>4 DEF Strings
  <2> QED
    BY <1>4, <2>1
<1> QED
  BY <1>3, <1>4

LEMMA LineGoesOn ==
  ASSUME NEW s, NEW n \in Nat, NEW q \in 1..n, NEW d, NEW e, LineBegun(s, d, q, n),
         s[n + 1] \notin NotInLine, e.name = d.name,
         Len(e.arguments) = IF s[n + 1] = "string" THEN Len(d.arguments) + 1
                            ELSE Len(d.arguments)
  PROVE  LineBegun(s, e, q, n + 1)
<1>1. Cardinality(Strings(s, q, n + 1)) = Len(e.arguments)
  BY OneMoreString DEF LineBegun
<1>2. ASSUME NEW j \in q..(n + 1) PROVE s[j] \notin NotInLine
  <2>1. j \in q..n \/ j = n + 1
    OBVIOUS
  <2> QED
    BY <2>1 DEF LineBegun
<1> QED
  BY <1>1, <1>2 DEF LineBegun

LEMMA LineEnds ==
  ASSUME NEW s, NEW n \in Nat, NEW q \in 1..n, NEW d, NEW e, LineBegun(s, d, q, n),
         s[n + 1] = "newline", e.name = d.name, Len(e.arguments) = Len(d.arguments)
  PROVE  IsWritten(s, e, q, n + 1)
<1>1. Cardinality(Strings(s, q, n + 1)) = Len(e.arguments)
  BY OneMoreString DEF LineBegun
<1>2. (n + 1) - 1 = n
  OBVIOUS
<1> QED
  BY <1>1, <1>2 DEF LineBegun, IsWritten

\* A newline behind the end of a test changes nothing.
LEMMA EndGoesOn ==
  ASSUME NEW s, NEW n \in Nat, NEW q \in 1..n, NEW line, line.kind = "end",
         IsRight(s, line, q, n), s[n + 1] = "newline"
  PROVE  IsRight(s, line, q, n + 1)
<1>1. PICK l \in q..n :
        /\ IsWritten(s, line.directive, q, l)
        /\ \A j \in (l + 1)..n : s[j] = "newline"
  BY DEF IsRight
<1>2. l \in q..(n + 1)
  OBVIOUS
<1>3. \A j \in (l + 1)..(n + 1) : s[j] = "newline"
  <2> SUFFICES ASSUME NEW j \in (l + 1)..(n + 1) PROVE s[j] = "newline"
    OBVIOUS
  <2>1. j \in (l + 1)..n \/ j = n + 1
    OBVIOUS
  <2> QED
    BY <1>1, <2>1
<1> QED
  BY <1>1, <1>2, <1>3 DEF IsRight

LEMMA BodyGoesOn ==
  ASSUME NEW s, NEW n \in Nat, NEW q \in 1..n, NEW d, NEW S, NEW c \in Seq(S), NEW p \in S,
         BodyBegun(s, d, c, q, n), s[n + 1] = p
  PROVE  BodyBegun(s, d, Append(c, p), q, n + 1)
<1>1. PICK l \in q..n : IsWritten(s, d, q, l) /\ IsSlice(s, c, l, n)
  BY DEF BodyBegun
<1> DEFINE z == Append(c, p)
           m == Len(c)
<1>2. Len(z) = m + 1 /\ (\A i \in 1..m : z[i] = c[i]) /\ z[m + 1] = p /\ m \in Nat
  BY AppendProperties, LenProperties
<1>3. m = n - l /\ \A i \in 1..m : c[i] = s[l + i]
  BY <1>1 DEF IsSlice
<1> HIDE DEF m, z
<1>4. l \in Int /\ (n + 1) - l = m + 1 /\ l + (m + 1) = n + 1 /\ l \in q..(n + 1)
  BY <1>3
<1>5. \A i \in 1..(m + 1) : z[i] = s[l + i]
  <2> SUFFICES ASSUME NEW i \in 1..(m + 1) PROVE z[i] = s[l + i]
    OBVIOUS
  <2>1. CASE i = m + 1
    BY <1>2, <1>4, <2>1
  <2>2. CASE i # m + 1
    <3>1. i \in 1..m
      BY <1>2, <2>2
    <3> QED
      BY <1>2, <1>3, <3>1
  <2> QED
    BY <2>1, <2>2
<1>6. IsSlice(s, z, l, n + 1)
  BY <1>2, <1>4, <1>5 DEF IsSlice
<1>7. BodyBegun(s, d, z, q, n + 1)
  BY <1>1, <1>4, <1>6 DEF BodyBegun
<1> QED
  BY <1>7 DEF z
-----------------------------------------------------------------------------
(* Many lines.                                                             *)

\* The lines K are what is written at the first positions of at, up to n.
Rights(s, K, at, n) == \A k \in 1..Len(K) : IsRight(s, K[k], at[k], EndOf(at, k, n))

LEMMA MarkedFacts ==
  ASSUME NEW s, NEW n \in Nat, NEW at, Marked(s, at, n)
  PROVE  /\ at \in Seq(Nat) /\ Len(at) \in Nat
         /\ \A k \in 1..Len(at) : at[k] \in 1..n /\ EndOf(at, k, n) \in Nat /\ EndOf(at, k, n) <= n
         /\ Len(at) > 0 => at[Len(at)] \in 1..n
<1>1. at \in Seq(Nat) /\ Len(at) \in Nat /\ \A k \in 1..Len(at) : at[k] \in 1..n
  BY LenProperties DEF Marked
<1>2. ASSUME NEW k \in 1..Len(at)
      PROVE  EndOf(at, k, n) \in Nat /\ EndOf(at, k, n) <= n
  <2>1. CASE k < Len(at)
    <3>1. k + 1 \in 1..Len(at)
      BY <1>1, <2>1
    <3>2. at[k + 1] \in 1..n
      BY <1>1, <3>1
    <3>3. EndOf(at, k, n) = at[k + 1] - 1
      BY <2>1 DEF EndOf
    <3> QED
      BY <3>2, <3>3
  <2>2. CASE ~(k < Len(at))
    BY <2>2 DEF EndOf
  <2> QED
    BY <2>1, <2>2
<1>3. Len(at) > 0 => Len(at) \in 1..Len(at)
  BY <1>1
<1> QED
  BY <1>1, <1>2, <1>3

LEMMA RightsSame ==
  ASSUME NEW s, NEW u, NEW n \in Nat, NEW at, NEW X, NEW K \in Seq(X),
         Marked(s, at, n), Len(K) <= Len(at), SameTo(s, u, n), Rights(s, K, at, n)
  PROVE  Rights(u, K, at, n)
<1> SUFFICES ASSUME NEW k \in 1..Len(K) PROVE IsRight(u, K[k], at[k], EndOf(at, k, n))
  BY DEF Rights
<1>1. k \in 1..Len(at)
  BY MarkedFacts, LenProperties
<1>2. at[k] \in 1..n /\ EndOf(at, k, n) \in Nat /\ EndOf(at, k, n) <= n
  BY <1>1, MarkedFacts
<1>3. IsRight(s, K[k], at[k], EndOf(at, k, n))
  BY DEF Rights
<1> QED
  BY <1>2, <1>3, RightSame

\* What belongs to a line that was followed by another does not grow.
LEMMA RightsStay ==
  ASSUME NEW s, NEW n, NEW m, NEW at, NEW X, NEW K \in Seq(X),
         Len(at) \in Nat, Len(K) < Len(at), Rights(s, K, at, n)
  PROVE  Rights(s, K, at, m)
<1> SUFFICES ASSUME NEW k \in 1..Len(K) PROVE IsRight(s, K[k], at[k], EndOf(at, k, m))
  BY DEF Rights
<1>1. k < Len(at)
  BY LenProperties
<1>2. EndOf(at, k, m) = EndOf(at, k, n)
  BY <1>1 DEF EndOf
<1>3. IsRight(s, K[k], at[k], EndOf(at, k, n))
  BY DEF Rights
<1> QED
  BY <1>2, <1>3

LEMMA RightsFollowed ==
  ASSUME NEW s, NEW n \in Nat, NEW m, NEW at \in Seq(Nat), NEW X, NEW K \in Seq(X),
         Len(K) = Len(at), Rights(s, K, at, n)
  PROVE  Rights(s, K, Append(at, n + 1), m)
<1> DEFINE z == Append(at, n + 1)
           l == Len(at)
<1>1. /\ Len(z) = l + 1 /\ (\A k \in 1..l : z[k] = at[k]) /\ z[l + 1] = n + 1 /\ l \in Nat
  BY AppendProperties, LenProperties
<1>2. Rights(s, K, z, m)
  <2> SUFFICES ASSUME NEW k \in 1..Len(K) PROVE IsRight(s, K[k], z[k], EndOf(z, k, m))
    BY DEF Rights
  <2> HIDE DEF z
  <2>1. k \in 1..l /\ k < Len(z) /\ z[k] = at[k]
    BY <1>1
  <2>2. EndOf(z, k, m) = z[k + 1] - 1
    BY <2>1 DEF EndOf
  <2>3. EndOf(at, k, n) = IF k < l THEN at[k + 1] - 1 ELSE n
    BY DEF EndOf
  <2> HIDE DEF l
  <2>4. EndOf(z, k, m) = EndOf(at, k, n)
    <3>1. CASE k = l
      BY <1>1, <2>1, <2>2, <2>3, <3>1
    <3>2. CASE k # l
      <4>1. k < l /\ k + 1 \in 1..l
        BY <1>1, <2>1, <3>2
      <4> QED
        BY <1>1, <2>2, <2>3, <4>1
    <3> QED
      BY <3>1, <3>2
  <2>5. IsRight(s, K[k], at[k], EndOf(at, k, n))
    BY DEF Rights
  <2> QED
    BY <2>1, <2>4, <2>5
<1> QED
  BY <1>2 DEF z

LEMMA RightsAdded ==
  ASSUME NEW s, NEW n, NEW at, NEW X, NEW K \in Seq(X), NEW line \in X,
         Len(at) = Len(K) + 1, Rights(s, K, at, n), IsRight(s, line, at[Len(at)], n)
  PROVE  Rights(s, Append(K, line), at, n)
<1> DEFINE Z == Append(K, line)
           m == Len(K)
<1>1. /\ Len(Z) = m + 1 /\ (\A k \in 1..m : Z[k] = K[k]) /\ Z[m + 1] = line /\ m \in Nat
  BY AppendProperties, LenProperties
<1>2. Rights(s, Z, at, n)
  <2> HIDE DEF Z, m
  <2> SUFFICES ASSUME NEW k \in 1..(m + 1) PROVE IsRight(s, Z[k], at[k], EndOf(at, k, n))
    BY <1>1 DEF Rights
  <2>1. CASE k = m + 1
    <3>1. ~(k < Len(at)) /\ k = Len(at)
      BY <1>1, <2>1 DEF m
    <3>2. EndOf(at, k, n) = n
      BY <3>1 DEF EndOf
    <3> QED
      BY <1>1, <2>1, <3>1, <3>2
  <2>2. CASE k # m + 1
    <3>1. k \in 1..m
      BY <1>1, <2>2
    <3>2. IsRight(s, K[k], at[k], EndOf(at, k, n))
      BY <3>1 DEF Rights, m
    <3> QED
      BY <1>1, <3>1, <3>2
  <2> QED
    BY <2>1, <2>2
<1> QED
  BY <1>2 DEF Z

LEMMA RightsBlank ==
  ASSUME NEW s, NEW n \in Nat, NEW at, NEW X, NEW K \in Seq(X), Marked(s, at, n),
         Len(K) = Len(at), Rights(s, K, at, n), s[n + 1] = "newline",
         K = <<>> \/ K[Len(K)].kind = "end"
  PROVE  Rights(s, K, at, n + 1)
<1> SUFFICES ASSUME NEW k \in 1..Len(K) PROVE IsRight(s, K[k], at[k], EndOf(at, k, n + 1))
  BY DEF Rights
<1>1. IsRight(s, K[k], at[k], EndOf(at, k, n))
  BY DEF Rights
<1>2. CASE k < Len(at)
  BY <1>1, <1>2 DEF EndOf
<1>3. CASE ~(k < Len(at))
  <2>1. k = Len(K) /\ Len(K) \in Nat
    BY <1>3, LenProperties
  <2>2. K # <<>>
    BY <2>1
  <2>3. K[k].kind = "end" /\ at[k] \in 1..n
    BY <2>1, <2>2, MarkedFacts
  <2>4. EndOf(at, k, n) = n /\ EndOf(at, k, n + 1) = n + 1
    BY <1>3 DEF EndOf
  <2>5. IsRight(s, K[k], at[k], n + 1)
    BY <1>1, <2>3, <2>4, EndGoesOn
  <2> QED
    BY <2>4, <2>5
<1> QED
  BY <1>2, <1>3
-----------------------------------------------------------------------------
(* The lines so far.                                                       *)

AnyLine ==
  [kind : {"test", "requirement", "end"},
   directive : [name : Directives, arguments : Arguments, content : Seq(Pieces) \cup {NoContent}]]

\* In a test, from its line to that of its end.
OfTest == pc \in InTest \/ (pc \in {"directive"} \cup Inside /\ for # "test")

\* A directive was taken that is not in a line yet.
Begun == Inside \cup {"content", "text"}

OpenLines(t) ==
  <<Line("test", Bare("test", t.arguments))>>
    \o [i \in DOMAIN t.requirements |-> Line("requirement", t.requirements[i])]

Known == Parsed \o (IF OfTest THEN OpenLines(test) ELSE <<>>)

Agrees(at) ==
  /\ Marked(text, at, Past)
  /\ Len(at) = IF pc \in Begun THEN Len(Known) + 1 ELSE Len(Known)
  /\ Rights(text, Known, at, Past)
  /\ pc \in Inside => LineBegun(text, current, at[Len(at)], Past)
  /\ pc \in {"content", "text"} => BodyBegun(text, current, content, at[Len(at)], Past)

HeldInv ==
  /\ pc = "open" => chars = <<"(">>
  /\ pc = "directive" /\ for = "end of test" => tokens # <<>> /\ Last(tokens).piece = "endtest"
  /\ pc \in Inside /\ for = "end of test" => current.name = "endtest"
  /\ pc # "text" => content = <<>>
  /\ ~OfTest => test = NewTest
  /\ pc \in {"suite", "newlines"} => Known = <<>> \/ Known[Len(Known)].kind = "end"
  /\ Parsed \in Seq(AnyLine)
  /\ pc = "done" => ended /\ chars = <<>> /\ tokens = <<>>

WrittenInv == WaitingInv /\ HeldInv /\ \E at : Agrees(at)

LEMMA LineTypes ==
  /\ \A args \in Arguments : /\ Line("test", Bare("test", args)) \in AnyLine
                             /\ Line("end", Bare("endtest", args)) \in AnyLine
  /\ \A d \in [name : Directives, arguments : Arguments, content : Seq(Pieces) \cup {NoContent}] :
       Line("requirement", d) \in AnyLine
<1> DEFINE D == [name : Directives, arguments : Arguments, content : Seq(Pieces) \cup {NoContent}]
<1>1. \A args \in Arguments : Bare("test", args) \in D /\ Bare("endtest", args) \in D
  BY ParserAssumption DEF Bare
<1> HIDE DEF D
<1>2. \A d \in D, k \in {"test", "requirement", "end"} : Line(k, d) \in AnyLine
  BY DEF Line, AnyLine, D
<1> QED
  BY <1>1, <1>2 DEF D

LEMMA OpenLinesType ==
  ASSUME NEW t \in Tests
  PROVE  OpenLines(t) \in Seq(AnyLine)
<1> DEFINE D == [name : Directives, arguments : Arguments, content : Seq(Pieces) \cup {NoContent}]
           r == t.requirements
           L == [i \in DOMAIN r |-> Line("requirement", r[i])]
           h == Line("test", Bare("test", t.arguments))
<1>1. r \in Seq(D) /\ t.arguments \in Arguments
  BY DEF Tests
<1> HIDE DEF D, r
<1>2. DOMAIN r = 1..Len(r) /\ Len(r) \in Nat /\ \A i \in 1..Len(r) : r[i] \in D
  BY <1>1, LenProperties, ElementOfSeq
<1>3. \A i \in 1..Len(r) : Line("requirement", r[i]) \in AnyLine
  BY <1>2, LineTypes DEF D
<1>4. L \in Seq(AnyLine)
  <2>1. L \in [1..Len(r) -> AnyLine]
    BY <1>2, <1>3
  <2> HIDE DEF L
  <2> QED
    BY <1>2, <2>1, SeqDef
<1>5. h \in AnyLine
  BY <1>1, LineTypes
<1> HIDE DEF h, L
<1>6. <<h>> \in Seq(AnyLine)
  BY <1>5
<1>7. <<h>> \o L \in Seq(AnyLine)
  BY <1>4, <1>6, ConcatProperties
<1> QED
  BY <1>7 DEF OpenLines, h, L, r

LEMMA KnownType ==
  ASSUME test \in Tests, Parsed \in Seq(AnyLine)
  PROVE  Known \in Seq(AnyLine) /\ Len(Known) \in Nat /\ (~OfTest => Known = Parsed)
<1>1. CASE OfTest
  <2>1. OpenLines(test) \in Seq(AnyLine)
    BY OpenLinesType
  <2>2. Known = Parsed \o OpenLines(test)
    BY <1>1 DEF Known
  <2>3. Known \in Seq(AnyLine)
    BY <2>1, <2>2, ConcatProperties
  <2> QED
    BY <1>1, <2>3, LenProperties
<1>2. CASE ~OfTest
  <2>1. Known = Parsed \o <<>>
    BY <1>2 DEF Known
  <2>2. Known = Parsed
    BY <2>1, ConcatEmptySeq
  <2> QED
    BY <2>2, LenProperties
<1> QED
  BY <1>1, <1>2

LEMMA KnownStays ==
  ASSUME suite' = suite, test' = test, OfTest' <=> OfTest
  PROVE  Known' = Known /\ Parsed' = Parsed
<1>1. Parsed' = Parsed
  BY DEF Parsed
<1> QED
  BY <1>1 DEF Known
-----------------------------------------------------------------------------
(* A step of the parser and the lines so far.                              *)

LEMMA StillAgrees ==
  ASSUME NEW at, BuffersInv, WaitingInv, Agrees(at), Known \in Seq(AnyLine), Grown(text, text')
  PROVE  /\ Past \in Nat /\ Len(at) \in Nat /\ Len(Known) \in Nat
         /\ Marked(text', at, Past) /\ Rights(text', Known, at, Past)
         /\ pc \in Begun => at[Len(at)] \in 1..Past /\ Len(at) = Len(Known) + 1
         /\ pc \notin Begun => Len(at) = Len(Known)
         /\ pc \in Inside => LineBegun(text', current, at[Len(at)], Past)
         /\ pc \in {"content", "text"} =>
              BodyBegun(text', current, content, at[Len(at)], Past)
<1>1. Past \in Nat /\ Past <= Len(text) /\ Len(text) \in Nat
  BY PastType
<1>2. SameTo(text, text', Past)
  BY <1>1 DEF SameTo, Grown
<1>3. Marked(text, at, Past) /\ Rights(text, Known, at, Past)
  BY DEF Agrees
<1>4. Len(at) \in Nat /\ Len(Known) \in Nat /\ (Len(at) > 0 => at[Len(at)] \in 1..Past)
  BY <1>1, <1>3, MarkedFacts, LenProperties
<1>5. /\ pc \in Begun => Len(at) = Len(Known) + 1
      /\ pc \notin Begun => Len(at) = Len(Known)
  BY DEF Agrees
<1>6. Marked(text', at, Past)
  BY <1>1, <1>2, <1>3, MarkedSame
<1>7. Rights(text', Known, at, Past)
  <2>1. Len(Known) <= Len(at)
    BY <1>4, <1>5
  <2> QED
    BY <1>1, <1>2, <1>3, <2>1, RightsSame
<1>8. pc \in Begun => at[Len(at)] \in 1..Past
  BY <1>4, <1>5
<1>9. pc \in Inside => LineBegun(text', current, at[Len(at)], Past)
  <2> SUFFICES ASSUME pc \in Inside PROVE LineBegun(text', current, at[Len(at)], Past)
    OBVIOUS
  <2>1. LineBegun(text, current, at[Len(at)], Past)
    BY DEF Agrees
  <2>2. at[Len(at)] \in 1..Past
    BY <1>8 DEF Begun
  <2> QED
    BY <1>1, <1>2, <2>1, <2>2, LineSame
<1>10. pc \in {"content", "text"} => BodyBegun(text', current, content, at[Len(at)], Past)
  <2> SUFFICES ASSUME pc \in {"content", "text"}
               PROVE  BodyBegun(text', current, content, at[Len(at)], Past)
    OBVIOUS
  <2>1. BodyBegun(text, current, content, at[Len(at)], Past)
    BY DEF Agrees
  <2>2. at[Len(at)] \in 1..Past
    BY <1>8 DEF Begun
  <2> QED
    BY <1>1, <1>2, <2>1, <2>2, BodyBegunSame
<1> QED
  BY <1>1, <1>4, <1>5, <1>6, <1>7, <1>8, <1>9, <1>10

\* Nothing was taken.
LEMMA NothingTaken ==
  ASSUME NEW at, BuffersInv, WaitingInv, Agrees(at), Known \in Seq(AnyLine), Grown(text, text'),
         Past' = Past, Known' = Known, pc' \in Begun <=> pc \in Begun,
         pc' \in Inside => pc \in Inside /\ current' = current,
         pc' \in {"content", "text"} =>
           pc \in {"content", "text"} /\ current' = current /\ content' = content
  PROVE  Agrees(at)'
<1>1. /\ Marked(text', at, Past) /\ Rights(text', Known, at, Past)
      /\ pc \in Begun => Len(at) = Len(Known) + 1
      /\ pc \notin Begun => Len(at) = Len(Known)
      /\ pc \in Inside => LineBegun(text', current, at[Len(at)], Past)
      /\ pc \in {"content", "text"} =>
           BodyBegun(text', current, content, at[Len(at)], Past)
  BY StillAgrees
<1> QED
  BY <1>1 DEF Agrees

\* A newline was taken between two tests.
LEMMA NewlineTaken ==
  ASSUME NEW at, BuffersInv, WaitingInv, Agrees(at), Known \in Seq(AnyLine), Grown(text, text'),
         pc \notin Begun, pc' \notin Begun, Known' = Known,
         Past' = Past + 1, text'[Past + 1] = "newline",
         Known = <<>> \/ Known[Len(Known)].kind = "end"
  PROVE  Agrees(at)'
<1>1. /\ Past \in Nat /\ Marked(text', at, Past) /\ Rights(text', Known, at, Past)
      /\ Len(at) = Len(Known)
  BY StillAgrees
<1>2. "newline" \notin Directives
  BY ParserAssumption DEF Marks
<1>3. Marked(text', at, Past + 1)
  BY <1>1, <1>2, NotMarked
<1>4. Rights(text', Known, at, Past + 1)
  BY <1>1, RightsBlank
<1>5. pc' \notin Inside /\ pc' \notin {"content", "text"}
  BY DEF Begun
<1> QED
  BY <1>1, <1>3, <1>4, <1>5 DEF Agrees

\* A directive was taken: what belongs to the one before it is complete.
LEMMA DirectiveTaken ==
  ASSUME NEW at, NEW z, BuffersInv, WaitingInv, Agrees(at), Known \in Seq(AnyLine), Grown(text, text'),
         pc \notin Begun, pc' \in Inside, Known' = Known,
         Past' = Past + 1, text'[Past + 1] = current'.name,
         current'.name \in Directives, current'.arguments = <<>>,
         z = Append(at, Past + 1)
  PROVE  Agrees(z)'
<1> DEFINE n == Past + 1
<1>1. /\ Past \in Nat /\ Marked(text', at, Past) /\ Rights(text', Known, at, Past)
      /\ Len(at) = Len(Known) /\ Len(at) \in Nat
  BY StillAgrees
<1>2. at \in Seq(Nat) /\ n \in Nat
  BY <1>1 DEF Marked
<1>3. Marked(text', z, n)
  BY <1>1, OneMarked
<1>4. Rights(text', Known, z, n)
  BY <1>1, <1>2, RightsFollowed
<1>5. Len(z) = Len(at) + 1 /\ z[Len(at) + 1] = n
  BY <1>1, <1>2, AppendProperties
<1>6. LineBegun(text', current', n, n)
  BY <1>1, LineBegins
<1>7. pc' \in Begun /\ pc' \notin {"content", "text"}
  BY DEF Begun, Inside
<1> HIDE DEF n
<1>8. z[Len(z)] = n /\ Len(z) = Len(Known) + 1
  BY <1>1, <1>5
<1>9. /\ Marked(text', z, Past') /\ Rights(text', Known', z, Past')
      /\ Len(z) = Len(Known') + 1 /\ LineBegun(text', current', z[Len(z)], Past')
  BY <1>3, <1>4, <1>6, <1>8 DEF n
<1> QED
  BY <1>7, <1>9 DEF Agrees

\* A piece was taken on the line of a directive.
LEMMA PieceTaken ==
  ASSUME NEW at, BuffersInv, WaitingInv, Agrees(at), Known \in Seq(AnyLine), Grown(text, text'),
         pc \in Inside, pc' \in Inside, Known' = Known,
         Past' = Past + 1, text'[Past + 1] \notin Directives \cup NotInLine,
         current'.name = current.name,
         Len(current'.arguments) = IF text'[Past + 1] = "string" THEN Len(current.arguments) + 1
                                   ELSE Len(current.arguments)
  PROVE  Agrees(at)'
<1>0. pc \in Begun /\ pc' \in Begun /\ pc' \notin {"content", "text"}
  BY DEF Begun, Inside
<1>1. /\ Past \in Nat /\ Marked(text', at, Past) /\ Rights(text', Known, at, Past)
      /\ Len(at) = Len(Known) + 1 /\ Len(at) \in Nat /\ Len(Known) \in Nat
      /\ at[Len(at)] \in 1..Past
      /\ LineBegun(text', current, at[Len(at)], Past)
  BY <1>0, StillAgrees
<1>2. Marked(text', at, Past + 1)
  BY <1>1, NotMarked
<1>3. Rights(text', Known, at, Past + 1)
  <2>1. Len(Known) < Len(at)
    BY <1>1
  <2> QED
    BY <1>1, <2>1, RightsStay
<1>4. LineBegun(text', current', at[Len(at)], Past + 1)
  BY <1>1, LineGoesOn
<1> QED
  BY <1>0, <1>1, <1>2, <1>3, <1>4 DEF Agrees

\* The newline of a line was taken.
LEMMA LineTaken ==
  ASSUME NEW at, BuffersInv, WaitingInv, Agrees(at), Known \in Seq(AnyLine), Grown(text, text'),
         pc \in Inside, text'[Past + 1] = "newline"
  PROVE  /\ Past \in Nat /\ Len(at) = Len(Known) + 1
         /\ Marked(text', at, Past + 1) /\ Rights(text', Known, at, Past + 1)
         /\ at[Len(at)] \in 1..Past
         /\ \A e : e.name = current.name /\ Len(e.arguments) = Len(current.arguments) =>
                     IsWritten(text', e, at[Len(at)], Past + 1)
<1>0. pc \in Begun
  BY DEF Begun
<1>1. /\ Past \in Nat /\ Marked(text', at, Past) /\ Rights(text', Known, at, Past)
      /\ Len(at) = Len(Known) + 1 /\ Len(at) \in Nat /\ Len(Known) \in Nat
      /\ at[Len(at)] \in 1..Past
      /\ LineBegun(text', current, at[Len(at)], Past)
  BY <1>0, StillAgrees
<1>2. "newline" \notin Directives
  BY ParserAssumption DEF Marks
<1>3. Marked(text', at, Past + 1)
  BY <1>1, <1>2, NotMarked
<1>4. Rights(text', Known, at, Past + 1)
  <2>1. Len(Known) < Len(at)
    BY <1>1
  <2> QED
    BY <1>1, <2>1, RightsStay
<1>5. ASSUME NEW e, e.name = current.name, Len(e.arguments) = Len(current.arguments)
      PROVE  IsWritten(text', e, at[Len(at)], Past + 1)
  BY <1>1, <1>5, LineEnds
<1> QED
  BY <1>1, <1>3, <1>4, <1>5

LEMMA ContentBegins ==
  ASSUME NEW at, BuffersInv, WaitingInv, Agrees(at), Known \in Seq(AnyLine), Grown(text, text'),
         pc \in Inside, pc' = "content", Known' = Known,
         Past' = Past + 1, text'[Past + 1] = "newline", current' = current, content' = <<>>
  PROVE  Agrees(at)'
<1>1. /\ Past \in Nat /\ Len(at) = Len(Known) + 1
      /\ Marked(text', at, Past + 1) /\ Rights(text', Known, at, Past + 1)
      /\ at[Len(at)] \in 1..Past
      /\ IsWritten(text', current, at[Len(at)], Past + 1)
  BY LineTaken
<1>2. pc' \in Begun /\ pc' \notin Inside
  BY DEF Begun, Inside
<1>3. IsSlice(text', <<>>, Past + 1, Past + 1)
  BY <1>1 DEF IsSlice
<1>4. BodyBegun(text', current, <<>>, at[Len(at)], Past + 1)
  <2>1. Past + 1 \in at[Len(at)]..(Past + 1)
    BY <1>1
  <2> QED
    BY <1>1, <1>3, <2>1 DEF BodyBegun
<1> QED
  BY <1>1, <1>2, <1>4 DEF Agrees

\* The line of a test, or of its end, was taken.
LEMMA LineAdded ==
  ASSUME NEW at, NEW line \in AnyLine,
         BuffersInv, WaitingInv, Agrees(at), Known \in Seq(AnyLine), Grown(text, text'),
         pc \in Inside, pc' \notin Begun, Known' = Append(Known, line),
         Past' = Past + 1, text'[Past + 1] = "newline", line.kind \in {"test", "end"},
         line.directive.name = current.name,
         Len(line.directive.arguments) = Len(current.arguments)
  PROVE  Agrees(at)'
<1>1. /\ Past \in Nat /\ Len(at) = Len(Known) + 1
      /\ Marked(text', at, Past + 1) /\ Rights(text', Known, at, Past + 1)
      /\ at[Len(at)] \in 1..Past
      /\ IsWritten(text', line.directive, at[Len(at)], Past + 1)
  BY LineTaken
<1>2. pc' \notin Inside /\ pc' \notin {"content", "text"}
  BY DEF Begun
<1>3. IsRight(text', line, at[Len(at)], Past + 1)
  <2>1. Past + 1 \in at[Len(at)]..(Past + 1) /\ \A j \in (Past + 1 + 1)..(Past + 1) : FALSE
    BY <1>1
  <2>2. line.kind # "requirement"
    OBVIOUS
  <2> QED
    BY <1>1, <2>1, <2>2 DEF IsRight
<1>4. Rights(text', Append(Known, line), at, Past + 1)
  BY <1>1, <1>3, RightsAdded
<1>5. Len(Known') = Len(Known) + 1
  BY AppendProperties
<1> QED
  BY <1>1, <1>2, <1>4, <1>5 DEF Agrees

\* The next directive ends a content.
LEMMA RequirementAdded ==
  ASSUME NEW at, NEW line \in AnyLine,
         BuffersInv, WaitingInv, Agrees(at), Known \in Seq(AnyLine), Grown(text, text'),
         pc \in {"content", "text"}, pc' \notin Begun, Known' = Append(Known, line),
         Past' = Past, line.kind = "requirement", content \in Seq(Others), Len(content) < MaxContent,
         line.directive.name = current.name, line.directive.arguments = current.arguments,
         line.directive.content = IF content = <<>> THEN NoContent ELSE Trimmed(content)
  PROVE  Agrees(at)'
<1> DEFINE q == at[Len(at)]
           c == line.directive.content
<1>0. pc \in Begun
  BY DEF Begun
<1>1. /\ Past \in Nat /\ Marked(text', at, Past) /\ Rights(text', Known, at, Past)
      /\ Len(at) = Len(Known) + 1 /\ q \in 1..Past
      /\ BodyBegun(text', current, content, q, Past)
  BY <1>0, StillAgrees
<1>2. PICK l \in q..Past : IsWritten(text', current, q, l) /\ IsSlice(text', content, l, Past)
  BY <1>1 DEF BodyBegun
<1>3. Len(content) = Past - l /\ (\A i \in 1..(Past - l) : content[i] = text'[l + i]) /\ l \in Nat
  BY <1>1, <1>2 DEF IsSlice
<1>4. IsBody(text', c, l, Past)
  <2>1. CASE Past = l
    <3>1. Len(content) = 0
      BY <1>3, <2>1
    <3>2. content = <<>>
      BY <3>1, EmptySeq
    <3> QED
      BY <2>1, <3>2 DEF IsBody
  <2>2. CASE Past # l
    <3>1. content # <<>>
      <4>1. Len(content) # 0
        BY <1>1, <1>3, <2>2
      <4> QED
        BY <4>1
    <3>2. c = Trimmed(content)
      BY <3>1
    <3>3. Past - l \in 1..(Past - l) /\ l + (Past - l) = Past
      BY <1>1, <1>2, <1>3, <2>2
    <3>4. Last(content) = text'[Past]
      <4>1. Last(content) = content[Past - l]
        BY <1>3 DEF Last
      <4>2. content[Past - l] = text'[l + (Past - l)]
        BY <1>3, <3>3
      <4> QED
        BY <3>3, <4>1, <4>2
    <3>5. CASE text'[Past] = "newline"
      <4>1. c = Front(content)
        BY <3>2, <3>4, <3>5 DEF Trimmed
      <4>2. Len(Front(content)) = Len(content) - 1
        BY <3>1, FrontType
      <4>3. \A i \in 1..(Len(content) - 1) : Front(content)[i] = content[i]
        BY <1>1, <1>3, <2>2 DEF Front
      <4>4. (Past - 1) - l = (Past - l) - 1 /\ 1..((Past - l) - 1) \subseteq 1..(Past - l)
        BY <1>1, <1>3
      <4>5. IsSlice(text', Front(content), l, Past - 1)
        BY <1>3, <4>2, <4>3, <4>4 DEF IsSlice
      <4> QED
        BY <2>2, <3>5, <4>1, <4>5 DEF IsBody
    <3>6. CASE text'[Past] # "newline"
      <4>1. c = content
        BY <3>2, <3>4, <3>6 DEF Trimmed
      <4> QED
        BY <1>2, <2>2, <3>6, <4>1 DEF IsBody
    <3> QED
      BY <3>5, <3>6
  <2> QED
    BY <2>1, <2>2
<1>5. IsWritten(text', line.directive, q, l)
  BY <1>2 DEF IsWritten
<1>6. IsRight(text', line, q, Past)
  BY <1>3, <1>4, <1>5 DEF IsRight
<1>7. Rights(text', Append(Known, line), at, Past)
  BY <1>1, <1>6, RightsAdded
<1>8. Len(Known') = Len(Known) + 1
  BY AppendProperties
<1>9. pc' \notin Inside /\ pc' \notin {"content", "text"}
  BY DEF Begun
<1> QED
  BY <1>1, <1>7, <1>8, <1>9 DEF Agrees

LEMMA TextTaken ==
  ASSUME NEW at, NEW p \in Others,
         BuffersInv, WaitingInv, Agrees(at), Known \in Seq(AnyLine), Grown(text, text'),
         pc = "text", pc' = "text", Known' = Known, Past' = Past + 1, text'[Past + 1] = p,
         current' = current, content \in Seq(Others), content' = Append(content, p)
  PROVE  Agrees(at)'
<1>0. pc \in Begun /\ pc' \in Begun /\ pc' \notin Inside
  BY DEF Begun, Inside
<1>1. /\ Past \in Nat /\ Marked(text', at, Past) /\ Rights(text', Known, at, Past)
      /\ Len(at) = Len(Known) + 1 /\ Len(at) \in Nat /\ Len(Known) \in Nat
      /\ at[Len(at)] \in 1..Past
      /\ BodyBegun(text', current, content, at[Len(at)], Past)
  BY <1>0, StillAgrees
<1>2. p \notin Directives
  BY ParserAssumption
<1>3. Marked(text', at, Past + 1)
  BY <1>1, <1>2, NotMarked
<1>4. Rights(text', Known, at, Past + 1)
  <2>1. Len(Known) < Len(at)
    BY <1>1
  <2> QED
    BY <1>1, <2>1, RightsStay
<1>5. BodyBegun(text', current, Append(content, p), at[Len(at)], Past + 1)
  BY <1>1, BodyGoesOn
<1> QED
  BY <1>0, <1>1, <1>3, <1>4, <1>5 DEF Agrees
-----------------------------------------------------------------------------
(* What a test adds to the lines.                                          *)

Directed == [name : Directives, arguments : Arguments, content : Seq(Pieces) \cup {NoContent}]

TestLine(t) == Line("test", Bare("test", t.arguments))
EndLine == Line("end", Bare("endtest", <<>>))
RequirementLines(r) == [i \in DOMAIN r |-> Line("requirement", r[i])]

LEMMA OpenLinesAre ==
  ASSUME NEW t
  PROVE  /\ OpenLines(t) = <<TestLine(t)>> \o RequirementLines(t.requirements)
         /\ Lines(t) = OpenLines(t) \o <<EndLine>>
BY DEF OpenLines, Lines, TestLine, EndLine, RequirementLines

LEMMA TestsHave ==
  ASSUME NEW t \in Tests
  PROVE  t.requirements \in Seq(Directed) /\ t.arguments \in Arguments
BY DEF Tests, Directed

LEMMA RequirementLinesType ==
  ASSUME NEW r \in Seq(Directed)
  PROVE  RequirementLines(r) \in Seq(AnyLine) /\ Len(RequirementLines(r)) = Len(r)
<1>1. DOMAIN r = 1..Len(r) /\ Len(r) \in Nat /\ \A i \in 1..Len(r) : r[i] \in Directed
  BY LenProperties, ElementOfSeq
<1>2. \A i \in 1..Len(r) : Line("requirement", r[i]) \in AnyLine
  BY <1>1, LineTypes DEF Directed
<1>3. RequirementLines(r) \in [1..Len(r) -> AnyLine]
  BY <1>1, <1>2 DEF RequirementLines
<1>4. RequirementLines(r) \in Seq(AnyLine)
  BY <1>1, <1>3, SeqDef
<1>5. DOMAIN RequirementLines(r) = 1..Len(r)
  BY <1>3
<1> QED
  BY <1>1, <1>4, <1>5, LenProperties

LEMMA OneMoreRequirementLine ==
  ASSUME NEW r \in Seq(Directed), NEW x \in Directed
  PROVE  RequirementLines(Append(r, x)) = Append(RequirementLines(r), Line("requirement", x))
<1> DEFINE L == RequirementLines(r)
           z == Append(r, x)
           A == RequirementLines(z)
           B == Append(L, Line("requirement", x))
           m == Len(r)
<1>1. Line("requirement", x) \in AnyLine
  BY LineTypes DEF Directed
<1>2. L \in Seq(AnyLine) /\ Len(L) = m /\ m \in Nat
  BY RequirementLinesType, LenProperties
<1>3. z \in Seq(Directed) /\ Len(z) = m + 1 /\ (\A i \in 1..m : z[i] = r[i]) /\ z[m + 1] = x
  BY AppendProperties
<1>4. A \in Seq(AnyLine) /\ Len(A) = m + 1
  BY <1>3, RequirementLinesType
<1>5. /\ B \in Seq(AnyLine) /\ Len(B) = m + 1
      /\ (\A i \in 1..m : B[i] = L[i]) /\ B[m + 1] = Line("requirement", x)
  BY <1>1, <1>2, AppendProperties
<1>6. (\A i \in 1..m : L[i] = Line("requirement", r[i])) /\ DOMAIN z = 1..(m + 1)
  <2>1. DOMAIN r = 1..m
    BY LenProperties
  <2>2. DOMAIN z = 1..(m + 1)
    BY <1>3, LenProperties
  <2> HIDE DEF m, z
  <2> QED
    BY <2>1, <2>2 DEF RequirementLines
<1>7. \A i \in 1..(m + 1) : A[i] = Line("requirement", z[i])
  <2> HIDE DEF m, z
  <2> QED
    BY <1>6 DEF RequirementLines
<1> HIDE DEF A, B, L, z, m
<1>8. ASSUME NEW i \in 1..(m + 1) PROVE A[i] = B[i]
  <2>1. CASE i = m + 1
    BY <1>2, <1>3, <1>5, <1>7, <2>1
  <2>2. CASE i # m + 1
    <3>1. i \in 1..m
      BY <1>2, <2>2
    <3> QED
      BY <1>3, <1>5, <1>6, <1>7, <3>1
  <2> QED
    BY <2>1, <2>2
<1>9. A = B
  BY <1>4, <1>5, <1>8, SeqEqual
<1> QED
  BY <1>9 DEF A, B, L, z

LEMMA OpenLinesGrow ==
  ASSUME NEW t \in Tests, NEW u, NEW x \in Directed,
         u.arguments = t.arguments, u.requirements = Append(t.requirements, x)
  PROVE  OpenLines(u) = Append(OpenLines(t), Line("requirement", x))
<1> DEFINE L == RequirementLines(t.requirements)
           y == Line("requirement", x)
           h == TestLine(t)
<1>1. t.requirements \in Seq(Directed) /\ t.arguments \in Arguments
  BY TestsHave
<1>2. y \in AnyLine /\ h \in AnyLine /\ L \in Seq(AnyLine)
  BY <1>1, LineTypes, RequirementLinesType DEF Directed, TestLine
<1>3. RequirementLines(u.requirements) = Append(L, y)
  BY <1>1, OneMoreRequirementLine
<1>4. TestLine(u) = h
  BY DEF TestLine
<1>5. OpenLines(u) = <<h>> \o Append(L, y) /\ OpenLines(t) = <<h>> \o L
  BY <1>3, <1>4, OpenLinesAre
<1> HIDE DEF L, y, h
<1>6. <<h>> \in Seq(AnyLine) /\ <<y>> \in Seq(AnyLine)
  BY <1>2
<1>7. <<h>> \o L \in Seq(AnyLine)
  BY <1>2, <1>6, ConcatProperties
<1>8. Append(L, y) = L \o <<y>> /\ Append(<<h>> \o L, y) = (<<h>> \o L) \o <<y>>
  BY <1>2, <1>7, AppendIsConcat
<1>9. <<h>> \o (L \o <<y>>) = (<<h>> \o L) \o <<y>>
  BY <1>2, <1>6, ConcatAssociative
<1>10. OpenLines(u) = Append(OpenLines(t), y)
  BY <1>5, <1>8, <1>9
<1> QED
  BY <1>10 DEF y

\* Parsed, and then a line more.
LEMMA OneMoreBehind ==
  ASSUME NEW P \in Seq(AnyLine), NEW O \in Seq(AnyLine), NEW y \in AnyLine
  PROVE  P \o Append(O, y) = Append(P \o O, y)
<1>1. <<y>> \in Seq(AnyLine) /\ P \o O \in Seq(AnyLine)
  BY ConcatProperties
<1>2. Append(O, y) = O \o <<y>> /\ Append(P \o O, y) = (P \o O) \o <<y>>
  BY <1>1, AppendIsConcat
<1> QED
  BY <1>1, <1>2, ConcatAssociative

LEMMA TestOpens ==
  ASSUME ~OfTest, OfTest', test = NewTest, suite' = suite, Parsed \in Seq(AnyLine),
         test'.arguments \in Arguments, test'.requirements = <<>>
  PROVE  /\ Parsed' = Parsed /\ TestLine(test') \in AnyLine
         /\ Known' = Append(Known, TestLine(test'))
<1>1. Parsed' = Parsed
  BY DEF Parsed
<1>2. TestLine(test') \in AnyLine
  BY LineTypes DEF TestLine
<1>3. RequirementLines(<<>>) = <<>>
  BY DEF RequirementLines
<1>4. OpenLines(test') = <<TestLine(test')>> \o <<>>
  BY <1>3, OpenLinesAre
<1> DEFINE y == TestLine(test')
<1>5. OpenLines(test') = <<y>>
  <2> HIDE DEF y
  <2>1. <<y>> \o <<>> = <<y>>
    OBVIOUS
  <2> QED
    BY <1>4, <2>1 DEF y
<1>6. Known' = Parsed' \o OpenLines(test') /\ Known = Parsed \o <<>>
  BY DEF Known
<1>7. Parsed \o <<>> = Parsed /\ Append(Parsed, y) = Parsed \o <<y>>
  <2> HIDE DEF y
  <2> QED
    BY <1>2, ConcatEmptySeq, AppendIsConcat DEF y
<1> QED
  BY <1>1, <1>2, <1>5, <1>6, <1>7

LEMMA RequirementJoins ==
  ASSUME NEW x \in Directed,
         OfTest, OfTest', test \in Tests, suite' = suite, Parsed \in Seq(AnyLine),
         test'.arguments = test.arguments,
         test'.requirements = Append(test.requirements, x)
  PROVE  /\ Parsed' = Parsed /\ Line("requirement", x) \in AnyLine
         /\ Known' = Append(Known, Line("requirement", x))
<1>1. Parsed' = Parsed
  BY DEF Parsed
<1>2. Line("requirement", x) \in AnyLine
  BY LineTypes DEF Directed
<1>3. OpenLines(test') = Append(OpenLines(test), Line("requirement", x))
  BY OpenLinesGrow
<1>4. Known' = Parsed' \o OpenLines(test') /\ Known = Parsed \o OpenLines(test)
  BY DEF Known
<1>5. OpenLines(test) \in Seq(AnyLine)
  BY OpenLinesType
<1> QED
  BY <1>1, <1>2, <1>3, <1>4, <1>5, OneMoreBehind

\* The tests, and one more.
LEMMA ParsedGrows ==
  ASSUME suite \in Seq(Tests), test \in Tests, suite' = Append(suite, test)
  PROVE  Parsed' = Parsed \o Lines(test)
<1> DEFINE L == [i \in DOMAIN suite |-> Lines(suite[i])]
           z == Append(suite, test)
           A == [i \in DOMAIN z |-> Lines(z[i])]
           m == Len(suite)
           B == Append(L, Lines(test))
<1>1. ASSUME NEW t \in Tests PROVE Lines(t) \in Seq(AnyLine)
  <2>1. OpenLines(t) \in Seq(AnyLine)
    BY OpenLinesType
  <2>2. <<>> \in Arguments
    BY DEF Arguments
  <2>3. EndLine \in AnyLine
    BY <2>2, LineTypes DEF EndLine
  <2>4. <<EndLine>> \in Seq(AnyLine)
    BY <2>3
  <2> QED
    BY <2>1, <2>4, OpenLinesAre, ConcatProperties
<1>2. DOMAIN suite = 1..m /\ m \in Nat /\ \A i \in 1..m : suite[i] \in Tests
  BY LenProperties, ElementOfSeq
<1>3. /\ z \in Seq(Tests) /\ Len(z) = m + 1 /\ (\A i \in 1..m : z[i] = suite[i]) /\ z[m + 1] = test
      /\ DOMAIN z = 1..(m + 1)
  BY AppendProperties, LenProperties
<1>4. Lines(test) \in Seq(AnyLine)
  BY <1>1
<1> HIDE DEF m, z
<1>5. L \in [1..m -> Seq(AnyLine)]
  BY <1>1, <1>2
<1>6. L \in Seq(Seq(AnyLine)) /\ Len(L) = m
  <2>1. DOMAIN L = 1..m
    BY <1>5
  <2> HIDE DEF L
  <2>2. L \in Seq(Seq(AnyLine))
    BY <1>2, <1>5, SeqDef
  <2>3. Len(L) \in Nat /\ DOMAIN L = 1..Len(L)
    BY <2>2, LenProperties
  <2>4. \A p, q \in Nat : 1..p = 1..q => p = q
    OBVIOUS
  <2> QED
    BY <1>2, <2>1, <2>2, <2>3, <2>4
<1>7. \A i \in 1..m : L[i] = Lines(suite[i])
  BY <1>2
<1>8. \A i \in 1..(m + 1) : A[i] = Lines(z[i])
  BY <1>3
<1>9. ASSUME NEW i \in 1..(m + 1) PROVE z[i] \in Tests
  BY <1>9, <1>3, ElementOfSeq
<1>10. A \in [1..(m + 1) -> Seq(AnyLine)]
  BY <1>1, <1>3, <1>9
<1>11. A \in Seq(Seq(AnyLine)) /\ Len(A) = m + 1
  <2>1. DOMAIN A = 1..(m + 1)
    BY <1>10
  <2>2. m + 1 \in Nat
    BY <1>2
  <2> HIDE DEF A
  <2>3. A \in Seq(Seq(AnyLine))
    BY <1>10, <2>2, SeqDef
  <2>4. Len(A) \in Nat /\ DOMAIN A = 1..Len(A)
    BY <2>3, LenProperties
  <2>5. \A p, q \in Nat : 1..p = 1..q => p = q
    OBVIOUS
  <2> QED
    BY <2>1, <2>2, <2>3, <2>4, <2>5
<1> HIDE DEF A, L
<1>12. /\ B \in Seq(Seq(AnyLine)) /\ Len(B) = m + 1
       /\ (\A i \in 1..m : B[i] = L[i]) /\ B[m + 1] = Lines(test)
  BY <1>4, <1>6, AppendProperties
<1> HIDE DEF B
<1>13. ASSUME NEW i \in 1..(m + 1) PROVE A[i] = B[i]
  <2>1. CASE i = m + 1
    BY <1>2, <1>3, <1>8, <1>12, <2>1
  <2>2. CASE i # m + 1
    <3>1. i \in 1..m
      BY <1>2, <2>2
    <3> QED
      BY <1>3, <1>7, <1>8, <1>12, <3>1
  <2> QED
    BY <2>1, <2>2
<1>14. A = B
  BY <1>11, <1>12, <1>13, SeqEqual
<1>15. FlattenSeq(B) = FlattenSeq(L) \o Lines(test)
  BY <1>4, <1>6, FlattenAppend DEF B
<1>16. Parsed = FlattenSeq(L) /\ Parsed' = FlattenSeq(A)
  BY DEF Parsed, L, A, z
<1> QED
  BY <1>14, <1>15, <1>16

LEMMA TestCloses ==
  ASSUME OfTest, ~OfTest', suite \in Seq(Tests), test \in Tests, Parsed \in Seq(AnyLine),
         suite' = Append(suite, test)
  PROVE  /\ Parsed' \in Seq(AnyLine) /\ EndLine \in AnyLine
         /\ Known' = Append(Known, EndLine)
<1>1. OpenLines(test) \in Seq(AnyLine)
  BY OpenLinesType
<1>2. EndLine \in AnyLine
  <2>1. <<>> \in Arguments
    BY DEF Arguments
  <2> QED
    BY <2>1, LineTypes DEF EndLine
<1>3. Lines(test) = Append(OpenLines(test), EndLine)
  BY <1>1, <1>2, OpenLinesAre, AppendIsConcat
<1>4. Parsed' = Append(Parsed \o OpenLines(test), EndLine)
  BY <1>1, <1>2, <1>3, ParsedGrows, OneMoreBehind
<1>5. Known = Parsed \o OpenLines(test) /\ Known' = Parsed' \o <<>>
  BY DEF Known
<1>6. Parsed \o OpenLines(test) \in Seq(AnyLine)
  BY <1>1, ConcatProperties
<1>7. Parsed' \in Seq(AnyLine)
  BY <1>2, <1>4, <1>6, AppendProperties
<1>8. Parsed' \o <<>> = Parsed'
  BY <1>7, ConcatEmptySeq
<1> QED
  BY <1>2, <1>4, <1>5, <1>7, <1>8
-----------------------------------------------------------------------------
(* The steps of the parser.                                                *)

\* What a token is, where the arguments of a directive are read.
LEMMA PlainToken ==
  ASSUME NEW t \in AnyToken, t = Token(t.piece, "none")
  PROVE  /\ t.kind \in {"newline", "string", "name"} => t.piece = t.kind
         /\ t.kind = "punctuator" =>
              t.piece \notin Directives \cup {"newline", "char", "string", "name"}
         /\ t.kind \in {"string", "name"} => t.piece \notin Directives
<1>1. t.kind = IF t.piece \in Directives THEN "directive"
               ELSE IF t.piece = "EOF" THEN "EOF"
               ELSE IF t.piece \in {"space", "char"} THEN "character"
               ELSE IF t.piece \in {"newline", "string", "name"} THEN t.piece
               ELSE "punctuator"
  <2>1. t.kind = Token(t.piece, "none").kind
    OBVIOUS
  <2> QED
    BY <2>1 DEF Token
<1> QED
  BY <1>1, Zenon

LEMMA TypesHold ==
  ASSUME ParserInv, HeldInv
  PROVE  /\ BuffersInv /\ TokensInv /\ ModeInv /\ TestInv /\ ContentInv
         /\ test \in Tests /\ suite \in Seq(Tests) /\ Parsed \in Seq(AnyLine)
         /\ Known \in Seq(AnyLine) /\ (~OfTest => Known = Parsed)
         /\ content \in Seq(Others) /\ current.arguments \in Arguments
         /\ pc \in Begun => current.name \in Directives
<1>1. /\ BuffersInv /\ TokensInv /\ ModeInv /\ TestInv /\ ContentInv
  BY DEF ParserInv
<1>2. test \in Tests /\ suite \in Seq(Tests) /\ content \in Seq(Others)
  BY <1>1 DEF TestInv, ContentInv
<1>3. Parsed \in Seq(AnyLine)
  BY DEF HeldInv
<1>4. current.arguments \in Arguments /\ (pc \in Begun => current.name \in Directives)
  BY <1>1 DEF TestInv, Begun
<1> QED
  BY <1>1, <1>2, <1>3, <1>4, KnownType

\* A test is opened by its line, and closed by that of its end.
LEMMA OfTestWhere ==
  /\ pc \in {"suite", "newlines", "done"} => ~OfTest
  /\ pc \in InTest => OfTest
  /\ pc \in {"directive"} \cup Inside => (OfTest <=> for # "test")
BY DEF OfTest, InTest, Inside

\* Nothing of the test changes, and nothing is taken.
LEMMA LooksKept ==
  ASSUME ParserInv, WrittenInv, Grown(text, text'), WaitingInv', Past' = Past,
         OfTest' <=> OfTest, suite' = suite, test' = test, current' = current,
         content' = content, pc # "text",
         pc' \in Begun <=> pc \in Begun, pc' \in Inside => pc \in Inside /\ for' = for,
         pc' \in {"content", "text"} => pc \in {"content", "text"},
         pc' = "open" => chars' = <<"(">>,
         pc' = "directive" /\ for' = "end of test" =>
           tokens' # <<>> /\ Last(tokens').piece = "endtest",
         pc' \in {"suite", "newlines"} => pc \in {"suite", "newlines"},
         pc' = "done" => ended' /\ chars' = <<>> /\ tokens' = <<>>
  PROVE  WrittenInv'
<1>1. WaitingInv /\ HeldInv
  BY DEF WrittenInv
<1>2. PICK at : Agrees(at)
  BY DEF WrittenInv
<1>3. Known' = Known /\ Parsed' = Parsed
  BY KnownStays
<1>4. BuffersInv /\ Known \in Seq(AnyLine)
  BY <1>1, TypesHold
<1>5. Agrees(at)'
  BY <1>1, <1>2, <1>3, <1>4, NothingTaken
<1>6. HeldInv'
  BY <1>1, <1>3 DEF HeldInv
<1> QED
  BY <1>5, <1>6 DEF WrittenInv

\* A piece is taken in the arguments of a directive.
LEMMA TakesInside ==
  ASSUME ParserInv, WrittenInv, Grown(text, text'), WaitingInv', Past' = Past + 1,
         pc \in Inside, pc' \in Inside, pc' # "open", for' = for,
         suite' = suite, test' = test, content' = content,
         text'[Past + 1] \notin Directives \cup NotInLine,
         current'.name = current.name,
         Len(current'.arguments) = IF text'[Past + 1] = "string" THEN Len(current.arguments) + 1
                                   ELSE Len(current.arguments)
  PROVE  WrittenInv'
<1>0. pc \notin {"text", "content"} /\ pc' \notin {"suite", "newlines", "done", "directive"}
  BY DEF Inside
<1>1. WaitingInv /\ HeldInv
  BY DEF WrittenInv
<1>2. PICK at : Agrees(at)
  BY DEF WrittenInv
<1>3. OfTest' <=> OfTest
  BY DEF OfTest, Inside, InTest
<1>4. Known' = Known /\ Parsed' = Parsed
  BY <1>3, KnownStays
<1>5. BuffersInv /\ Known \in Seq(AnyLine)
  BY <1>1, TypesHold
<1>6. Agrees(at)'
  BY <1>1, <1>2, <1>4, <1>5, PieceTaken
<1>7. HeldInv'
  BY <1>0, <1>1, <1>3, <1>4 DEF HeldInv
<1> QED
  BY <1>6, <1>7 DEF WrittenInv

LEMMA SuiteWrites ==
  ASSUME ParserInv, WrittenInv, Suite
  PROVE  WrittenInv'
<1>1. PICK t \in AnyToken :
        /\ Peek(t)
        /\ \/ t.kind = "EOF" /\ pc' = "done" /\ for' = for
           \/ t.kind = "newline" /\ pc' = "newlines" /\ for' = for
           \/ t.kind \notin {"EOF", "newline"} /\ pc' = "directive" /\ for' = "test"
  BY Zenon DEF Suite, Directive
<1>2. /\ pc = "suite"
      /\ current' = current /\ test' = test /\ content' = content /\ suite' = suite
  BY DEF Suite
<1>3. /\ Grown(text, text') /\ WaitingInv' /\ Past' = Past /\ chars' = <<>>
      /\ t.kind = "EOF" => tokens' = <<>> /\ ended'
  BY <1>1, <1>2, PeekTakes DEF ParserInv, WrittenInv
<1>4. OfTest' <=> OfTest
  BY <1>1, <1>2 DEF OfTest, InTest, Inside
<1>5. /\ pc' \notin Begun /\ pc \notin Begun /\ pc' \notin Inside
      /\ pc' \notin {"content", "text", "open"} /\ ~(pc' = "directive" /\ for' = "end of test")
      /\ pc' = "done" => t.kind = "EOF"
  BY <1>1, <1>2 DEF Begun, Inside
<1> QED
  BY <1>2, <1>3, <1>4, <1>5, LooksKept

LEMMA SkipNewlineWrites ==
  ASSUME ParserInv, WrittenInv, SkipNewline
  PROVE  WrittenInv'
<1>1. PICK t \in AnyToken : Get(t) /\ t.kind = "newline"
  BY DEF SkipNewline, Skip
<1>2. /\ pc = "newlines" /\ pc' = pc /\ for' = for
      /\ current' = current /\ test' = test /\ content' = content /\ suite' = suite
  BY DEF SkipNewline, parserVars
<1>3. WaitingInv /\ HeldInv /\ BuffersInv /\ TokensInv /\ Known \in Seq(AnyLine)
  BY TypesHold DEF WrittenInv
<1>4. mode = "none"
  BY <1>2 DEF ParserInv, ModeInv
<1>5. t.piece = "newline"
  BY <1>1, <1>2, <1>3, <1>4, GetKeeps, PlainToken
<1>6. Grown(text, text') /\ WaitingInv' /\ Past' = Past + 1 /\ text'[Past + 1] = "newline"
  BY <1>1, <1>2, <1>3, <1>5, GetTakes
<1>7. OfTest' <=> OfTest
  BY <1>2 DEF OfTest
<1>8. Known' = Known /\ Parsed' = Parsed
  BY <1>2, <1>7, KnownStays
<1>9. PICK at : Agrees(at)
  BY DEF WrittenInv
<1>10. Agrees(at)'
  <2>1. pc \notin Begun /\ pc' \notin Begun
    BY <1>2 DEF Begun, Inside
  <2>2. Known = <<>> \/ Known[Len(Known)].kind = "end"
    BY <1>2, <1>3 DEF HeldInv
  <2> QED
    BY <1>3, <1>6, <1>8, <1>9, <2>1, <2>2, NewlineTaken
<1>11. HeldInv'
  BY <1>2, <1>3, <1>7, <1>8 DEF HeldInv, Inside
<1> QED
  BY <1>6, <1>10, <1>11 DEF WrittenInv

LEMMA EndNewlinesWrites ==
  ASSUME ParserInv, WrittenInv, EndNewlines
  PROVE  WrittenInv'
<1>1. PICK t \in AnyToken : Peek(t)
  BY DEF EndNewlines
<1>2. /\ pc = "newlines" /\ pc' = "suite" /\ for' = for
      /\ current' = current /\ test' = test /\ content' = content /\ suite' = suite
  BY DEF EndNewlines
<1>3. Grown(text, text') /\ WaitingInv' /\ Past' = Past
  BY <1>1, <1>2, PeekTakes DEF ParserInv, WrittenInv
<1>4. OfTest' <=> OfTest
  BY <1>2 DEF OfTest, InTest, Inside
<1>5. /\ pc' \notin Begun /\ pc \notin Begun /\ pc' \notin Inside
      /\ pc' \notin {"content", "text", "open", "directive", "done"}
  BY <1>2 DEF Begun, Inside
<1> QED
  BY <1>2, <1>3, <1>4, <1>5, LooksKept

LEMMA DirectiveNameWrites ==
  ASSUME ParserInv, WrittenInv, DirectiveName, pc' # "fatal"
  PROVE  WrittenInv'
<1>1. PICK t \in AnyToken :
        /\ Get(t) /\ t.kind = "directive"
        /\ current' = [name |-> t.piece, arguments |-> <<>>]
        /\ pc' = "named"
        /\ UNCHANGED <<for, test, content, suite>>
  BY DEF DirectiveName, Fatal
<1>2. pc = "directive" /\ for' = for /\ test' = test /\ content' = content /\ suite' = suite
  BY <1>1 DEF DirectiveName
<1>3. WaitingInv /\ HeldInv /\ BuffersInv /\ TokensInv /\ Known \in Seq(AnyLine)
  BY TypesHold DEF WrittenInv
<1>4. Grown(text, text') /\ WaitingInv' /\ Past' = Past + 1 /\ text'[Past + 1] = t.piece
  BY <1>1, <1>2, <1>3, GetTakes
<1>5. t.piece \in Directives
  BY <1>1, TokenFacts
<1>6. OfTest' <=> OfTest
  BY <1>1, <1>2 DEF OfTest, InTest, Inside
<1>7. Known' = Known /\ Parsed' = Parsed
  BY <1>2, <1>6, KnownStays
<1>8. PICK at : Agrees(at)
  BY DEF WrittenInv
<1>9. pc \notin Begun /\ pc' \in Inside
  BY <1>1, <1>2 DEF Begun, Inside
<1>10. current'.name = t.piece /\ current'.arguments = <<>>
  BY <1>1
<1> DEFINE z == Append(at, Past + 1)
<1>11. PICK y : y = z
  OBVIOUS
<1>12. Agrees(y)'
  BY <1>3, <1>4, <1>5, <1>7, <1>8, <1>9, <1>10, <1>11, DirectiveTaken
<1>13. for = "end of test" => t.piece = "endtest"
  <2>1. for = "end of test" => tokens # <<>> /\ Last(tokens).piece = "endtest"
    BY <1>2, <1>3 DEF HeldInv
  <2>2. tokens # <<>> => t = Last(tokens)
    BY <1>1 DEF Get
  <2> QED
    BY <2>1, <2>2
<1>14. HeldInv'
  BY <1>1, <1>2, <1>3, <1>6, <1>7, <1>10, <1>13 DEF HeldInv
<1> QED
  BY <1>4, <1>12, <1>14 DEF WrittenInv

\* A character is looked at in the arguments.
LEMMA PeekInside ==
  ASSUME ParserInv, WrittenInv, pc \in Inside, pc' \in Inside,
         NEW p \in Pieces \cup {"EOF"}, PeekChar(p), tokens' = tokens,
         UNCHANGED <<for, current, test, content, suite>>, pc' = "open" => p = "("
  PROVE  WrittenInv'
<1>1. for' = for /\ current' = current /\ test' = test /\ content' = content /\ suite' = suite
  OBVIOUS
<1>2. tokens = <<>> /\ tokens' = <<>> /\ BuffersInv /\ WaitingInv
  BY DEF ParserInv, TokensInv, WrittenInv
<1>3. /\ Grown(text, text') /\ WaitingInv' /\ Past' = Past
      /\ p # "EOF" => chars' = <<p>>
  BY <1>2, PeekCharTakes
<1>4. OfTest' <=> OfTest
  BY <1>1 DEF OfTest, InTest, Inside
<1>5. pc' = "open" => chars' = <<"(">>
  BY <1>3
<1>6. /\ pc \in Begun /\ pc' \in Begun /\ pc # "text"
      /\ pc' \notin {"content", "text", "directive", "suite", "newlines", "done"}
  BY DEF Begun, Inside
<1> QED
  BY <1>1, <1>3, <1>4, <1>5, <1>6, LooksKept

LEMMA DirectiveNamedWrites ==
  ASSUME ParserInv, WrittenInv, DirectiveNamed
  PROVE  WrittenInv'
<1>1. PICK p \in Pieces \cup {"EOF"} : PeekChar(p) /\ pc' = IF p = "(" THEN "open" ELSE "line end"
  BY DEF DirectiveNamed
<1>2. pc = "named" /\ tokens' = tokens /\ UNCHANGED <<for, current, test, content, suite>>
  BY DEF DirectiveNamed
<1>3. pc \in Inside /\ pc' \in Inside /\ (pc' = "open" => p = "(")
  BY <1>1, <1>2 DEF Inside
<1> QED
  BY <1>1, <1>2, <1>3, PeekInside

LEMMA EndSpacesWrites ==
  ASSUME ParserInv, WrittenInv, EndSpaces
  PROVE  WrittenInv'
<1>1. PICK p \in Pieces \cup {"EOF"} : PeekChar(p)
  BY DEF EndSpaces
<1>2. /\ pc = "arguments" /\ pc' = "argument" /\ tokens' = tokens
      /\ UNCHANGED <<for, current, test, content, suite>>
  BY DEF EndSpaces
<1>3. pc \in Inside /\ pc' \in Inside /\ pc' # "open"
  BY <1>2 DEF Inside
<1> QED
  BY <1>1, <1>2, <1>3, PeekInside

LEMMA SkipSpaceWrites ==
  ASSUME ParserInv, WrittenInv, SkipSpace
  PROVE  WrittenInv'
<1>1. PICK p \in Pieces : GetChar(p) /\ p = "space"
  BY DEF SkipSpace
<1>2. /\ pc = "arguments" /\ pc' = pc /\ tokens' = tokens
      /\ for' = for /\ current' = current /\ test' = test /\ content' = content /\ suite' = suite
  BY DEF SkipSpace, parserVars
<1>3. pc \in Inside /\ pc' \in Inside /\ pc' # "open"
  BY <1>2 DEF Inside
<1>4. tokens = <<>> /\ tokens' = <<>> /\ BuffersInv /\ WaitingInv
  BY <1>2, <1>3 DEF ParserInv, TokensInv, WrittenInv
<1>5. Grown(text, text') /\ chars' = <<>> /\ Len(text') = Past + 1 /\ text'[Past + 1] = "space"
  BY <1>1, <1>4, GetCharTakes
<1>6. WaitingInv'
  BY <1>4, <1>5 DEF WaitingInv
<1>7. Past' = Past + 1
  <2>1. Past \in Nat /\ Len(chars') = 0 /\ Len(tokens') = 0
    BY <1>4, <1>5, PastType
  <2> QED
    BY <1>5, <2>1 DEF Past
<1>8. "space" \notin Directives \cup NotInLine \cup {"string"}
  BY ParserAssumption DEF Marks, NotInLine
<1> QED
  BY <1>2, <1>3, <1>5, <1>6, <1>7, <1>8, TakesInside

\* A token is taken in the arguments.
LEMMA GetInside ==
  ASSUME ParserInv, WrittenInv, pc \in Inside, pc' \in Inside, pc' # "open",
         NEW t \in AnyToken, Get(t), t.piece \notin Directives \cup NotInLine,
         t.kind # "EOF", UNCHANGED <<for, test, content, suite>>,
         current'.name = current.name,
         Len(current'.arguments) = IF t.piece = "string" THEN Len(current.arguments) + 1
                                   ELSE Len(current.arguments)
  PROVE  WrittenInv'
<1>1. for' = for /\ test' = test /\ content' = content /\ suite' = suite
  OBVIOUS
<1>2. BuffersInv /\ TokensInv /\ WaitingInv /\ pc # "fatal"
  BY DEF ParserInv, WrittenInv, Inside
<1>3. Grown(text, text') /\ WaitingInv' /\ Past' = Past + 1 /\ text'[Past + 1] = t.piece
  BY <1>2, GetTakes
<1> QED
  BY <1>1, <1>3, TakesInside

LEMMA OpenArgumentsWrites ==
  ASSUME ParserInv, WrittenInv, OpenArguments
  PROVE  WrittenInv'
<1>1. PICK t \in AnyToken : Get(t)
  BY DEF OpenArguments
<1>2. /\ pc = "open" /\ pc' = "arguments" /\ current' = current
      /\ UNCHANGED <<for, test, content, suite>>
  BY DEF OpenArguments
<1>3. pc \in Inside /\ pc' \in Inside /\ pc' # "open"
  BY <1>2 DEF Inside
<1>4. tokens = <<>> /\ chars = <<"(">>
  BY <1>2, <1>3 DEF ParserInv, TokensInv, WrittenInv, HeldInv
<1>5. t.piece = "("
  <2>1. GetChar(t.piece)
    BY <1>1, <1>4 DEF Get
  <2>2. chars # <<>> /\ Last(chars) = "("
    BY <1>4 DEF Last
  <2> QED
    BY <2>1, <2>2 DEF GetChar
<1>6. "(" \notin Directives \cup NotInLine \cup {"string", "EOF"}
  BY ParserAssumption DEF Marks, NotInLine
<1>7. t.kind # "EOF"
  BY <1>5, <1>6, TokenFacts
<1> QED
  BY <1>1, <1>2, <1>3, <1>5, <1>6, <1>7, GetInside

\* Where arguments are read, tokens are those of the plain mode.
LEMMA PlainInside ==
  ASSUME ParserInv, pc \in Inside, NEW t \in AnyToken, Get(t)
  PROVE  t = Token(t.piece, "none")
<1>1. BuffersInv /\ TokensInv /\ pc # "fatal" /\ mode = "none"
  BY DEF ParserInv, ModeInv, Inside
<1> QED
  BY <1>1, GetKeeps

LEMMA OneMoreArgument ==
  ASSUME ParserInv, NEW kind \in {"named", "unnamed"}, AddArgument(kind)
  PROVE  /\ pc' = "separator" /\ UNCHANGED <<for, test, content, suite>>
         /\ current'.name = current.name
         /\ Len(current'.arguments) = Len(current.arguments) + 1
<1>1. current \in [name : Directives \cup {"none"}, arguments : Arguments]
  BY DEF ParserInv, TestInv
<1>2. /\ pc' = "separator" /\ UNCHANGED <<for, test, content, suite>>
      /\ current' = [current EXCEPT !.arguments = Append(@, kind)]
  BY DEF AddArgument
<1>3. current'.name = current.name /\ current'.arguments = Append(current.arguments, kind)
  BY <1>1, <1>2
<1>4. current.arguments \in Seq({"named", "unnamed"})
  BY <1>1 DEF Arguments
<1>5. Len(Append(current.arguments, kind)) = Len(current.arguments) + 1
  BY <1>4, AppendProperties
<1> QED
  BY <1>2, <1>3, <1>5

LEMMA ArgumentWrites ==
  ASSUME ParserInv, WrittenInv, Argument, pc' # "fatal"
  PROVE  WrittenInv'
<1>1. PICK t \in AnyToken :
        /\ Get(t)
        /\ \/ t.kind = "punctuator" /\ t.piece = ")" /\ To("line end")
           \/ t.kind = "string" /\ AddArgument("unnamed")
           \/ t.kind = "name" /\ To("equals")
  BY DEF Argument, Fatal
<1>2. pc = "argument"
  BY DEF Argument
<1>3. pc \in Inside
  BY <1>2 DEF Inside
<1>4. t = Token(t.piece, "none")
  BY <1>1, <1>3, PlainInside
<1>5. CASE t.kind = "punctuator" /\ To("line end")
  <2>1. pc' = "line end" /\ current' = current /\ UNCHANGED <<for, test, content, suite>>
    BY <1>5 DEF To
  <2>2. t.piece \notin Directives \cup NotInLine \cup {"string"} /\ t.kind # "EOF"
    BY <1>4, <1>5, PlainToken DEF NotInLine
  <2>3. pc' \in Inside /\ pc' # "open"
    BY <2>1 DEF Inside
  <2> QED
    BY <1>1, <1>3, <2>1, <2>2, <2>3, GetInside
<1>6. CASE t.kind = "string" /\ AddArgument("unnamed")
  <2>1. /\ pc' = "separator" /\ UNCHANGED <<for, test, content, suite>>
        /\ current'.name = current.name
        /\ Len(current'.arguments) = Len(current.arguments) + 1
    BY <1>6, OneMoreArgument
  <2>2. t.piece = "string" /\ t.piece \notin Directives \cup NotInLine /\ t.kind # "EOF"
    BY <1>4, <1>6, PlainToken DEF NotInLine
  <2>3. pc' \in Inside /\ pc' # "open"
    BY <2>1 DEF Inside
  <2> QED
    BY <1>1, <1>3, <2>1, <2>2, <2>3, GetInside
<1>7. CASE t.kind = "name" /\ To("equals")
  <2>1. pc' = "equals" /\ current' = current /\ UNCHANGED <<for, test, content, suite>>
    BY <1>7 DEF To
  <2>2. t.piece = "name" /\ t.piece \notin Directives \cup NotInLine \cup {"string"} /\ t.kind # "EOF"
    BY <1>4, <1>7, PlainToken DEF NotInLine
  <2>3. pc' \in Inside /\ pc' # "open"
    BY <2>1 DEF Inside
  <2> QED
    BY <1>1, <1>3, <2>1, <2>2, <2>3, GetInside
<1> QED
  BY <1>1, <1>5, <1>6, <1>7

LEMMA EqualsWrites ==
  ASSUME ParserInv, WrittenInv, Equals, pc' # "fatal"
  PROVE  WrittenInv'
<1>1. PICK t \in AnyToken : Get(t) /\ t.kind = "punctuator" /\ To("value")
  BY DEF Equals, Fatal
<1>2. pc = "equals" /\ pc' = "value" /\ current' = current /\ UNCHANGED <<for, test, content, suite>>
  BY <1>1 DEF Equals, To
<1>3. pc \in Inside /\ pc' \in Inside /\ pc' # "open"
  BY <1>2 DEF Inside
<1>4. t = Token(t.piece, "none")
  BY <1>1, <1>3, PlainInside
<1>5. t.piece \notin Directives \cup NotInLine \cup {"string"} /\ t.kind # "EOF"
  BY <1>1, <1>4, PlainToken DEF NotInLine
<1> QED
  BY <1>1, <1>2, <1>3, <1>5, GetInside

LEMMA ArgumentValueWrites ==
  ASSUME ParserInv, WrittenInv, ArgumentValue, pc' # "fatal"
  PROVE  WrittenInv'
<1>1. PICK t \in AnyToken : Get(t) /\ t.kind = "string" /\ AddArgument("named")
  BY DEF ArgumentValue, Fatal
<1>2. /\ pc' = "separator" /\ UNCHANGED <<for, test, content, suite>>
      /\ current'.name = current.name
      /\ Len(current'.arguments) = Len(current.arguments) + 1
  BY <1>1, OneMoreArgument
<1>3. pc \in Inside /\ pc' \in Inside /\ pc' # "open"
  BY <1>2 DEF Inside, ArgumentValue
<1>4. t = Token(t.piece, "none")
  BY <1>1, <1>3, PlainInside
<1>5. t.piece = "string" /\ t.piece \notin Directives \cup NotInLine /\ t.kind # "EOF"
  BY <1>1, <1>4, PlainToken DEF NotInLine
<1> QED
  BY <1>1, <1>2, <1>3, <1>5, GetInside

LEMMA SeparatorWrites ==
  ASSUME ParserInv, WrittenInv, Separator, pc' # "fatal"
  PROVE  WrittenInv'
<1>1. PICK t \in AnyToken :
        Get(t) /\ t.kind = "punctuator" /\ (To("arguments") \/ To("line end"))
  BY DEF Separator, Fatal
<1>2. /\ pc = "separator" /\ pc' \in {"arguments", "line end"} /\ current' = current
      /\ UNCHANGED <<for, test, content, suite>>
  BY <1>1 DEF Separator, To
<1>3. pc \in Inside /\ pc' \in Inside /\ pc' # "open"
  BY <1>2 DEF Inside
<1>4. t = Token(t.piece, "none")
  BY <1>1, <1>3, PlainInside
<1>5. t.piece \notin Directives \cup NotInLine \cup {"string"} /\ t.kind # "EOF"
  BY <1>1, <1>4, PlainToken DEF NotInLine
<1> QED
  BY <1>1, <1>2, <1>3, <1>5, GetInside

\* The newline that ends the line of a directive.
LEMMA LineEndTakes ==
  ASSUME ParserInv, WrittenInv, LineEnd, pc' # "fatal"
  PROVE  /\ pc = "line end" /\ pc \in Inside /\ WaitingInv'
         /\ Grown(text, text') /\ Past' = Past + 1 /\ text'[Past + 1] = "newline"
         /\ StartTest \/ StartContent \/ EndTest
<1>1. PICK t \in AnyToken :
        Get(t) /\ t.kind = "newline" /\ (StartTest \/ StartContent \/ EndTest)
  BY DEF LineEnd, Fatal
<1>2. pc = "line end" /\ pc \in Inside
  BY DEF LineEnd, Inside
<1>3. WaitingInv /\ HeldInv /\ BuffersInv /\ TokensInv /\ pc # "fatal"
  BY <1>2, TypesHold DEF WrittenInv
<1>4. t.piece = "newline"
  BY <1>1, <1>2, PlainInside, PlainToken
<1> QED
  BY <1>1, <1>2, <1>3, <1>4, GetTakes

LEMMA StartTestAdds ==
  ASSUME ParserInv, WrittenInv, LineEnd, StartTest, pc' # "fatal"
  PROVE  /\ for = "test" /\ current.name = "test" /\ pc' = "requirements"
         /\ content' = content /\ suite' = suite /\ Parsed' = Parsed
         /\ test'.requirements = <<>> /\ ~OfTest /\ OfTest'
         /\ \E line \in AnyLine :
              /\ Known' = Append(Known, line)
              /\ line.kind = "test" /\ line.directive.name = current.name
              /\ line.directive.arguments = current.arguments
<1>1. pc = "line end" /\ pc \in Inside
  BY LineEndTakes
<1>2. /\ for = "test" /\ current.name = "test"
      /\ test' = [test EXCEPT !.arguments = current.arguments] /\ pc' = "requirements"
      /\ content' = content /\ suite' = suite
  BY DEF StartTest, Fatal
<1>3. /\ HeldInv /\ Known \in Seq(AnyLine) /\ Parsed \in Seq(AnyLine)
      /\ current.arguments \in Arguments
  BY TypesHold DEF WrittenInv
<1>4. ~OfTest /\ OfTest'
  BY <1>1, <1>2 DEF OfTest, InTest, Inside
<1>5. test = NewTest
  BY <1>3, <1>4 DEF HeldInv
<1>6. test'.arguments = current.arguments /\ test'.requirements = <<>>
  BY <1>2, <1>5 DEF NewTest
<1>7. PICK line : line = TestLine(test')
  OBVIOUS
<1>8. Parsed' = Parsed /\ line \in AnyLine /\ Known' = Append(Known, line)
  BY <1>2, <1>3, <1>4, <1>5, <1>6, <1>7, TestOpens
<1>9. /\ line.kind = "test" /\ line.directive.name = "test"
      /\ line.directive.arguments = current.arguments
  BY <1>6, <1>7 DEF TestLine, Line, Bare
<1> QED
  BY <1>2, <1>4, <1>6, <1>8, <1>9

LEMMA StartTestWrites ==
  ASSUME ParserInv, WrittenInv, LineEnd, StartTest, pc' # "fatal"
  PROVE  WrittenInv'
<1>1. /\ pc = "line end" /\ pc \in Inside /\ WaitingInv'
      /\ Grown(text, text') /\ Past' = Past + 1 /\ text'[Past + 1] = "newline"
  BY LineEndTakes
<1>2. /\ pc' = "requirements" /\ content' = content /\ Parsed' = Parsed /\ OfTest'
  BY StartTestAdds
<1>3. PICK line \in AnyLine :
        /\ Known' = Append(Known, line)
        /\ line.kind = "test" /\ line.directive.name = current.name
        /\ line.directive.arguments = current.arguments
  BY StartTestAdds
<1>4. WaitingInv /\ HeldInv /\ BuffersInv /\ Known \in Seq(AnyLine)
  BY TypesHold DEF WrittenInv
<1>5. PICK at : Agrees(at)
  BY DEF WrittenInv
<1>6. Agrees(at)'
  <2>1. pc' \notin Begun
    BY <1>2 DEF Begun, Inside
  <2> QED
    BY <1>1, <1>3, <1>4, <1>5, <2>1, LineAdded
<1>7. HeldInv'
  <2>1. pc' \notin Inside /\ content = <<>>
    BY <1>1, <1>2, <1>4 DEF HeldInv, Inside
  <2> QED
    BY <1>2, <1>4, <2>1 DEF HeldInv
<1> QED
  BY <1>1, <1>6, <1>7 DEF WrittenInv

LEMMA StartContentWrites ==
  ASSUME ParserInv, WrittenInv, LineEnd, StartContent, pc' # "fatal"
  PROVE  WrittenInv'
<1>1. /\ pc = "line end" /\ pc \in Inside /\ WaitingInv'
      /\ Grown(text, text') /\ Past' = Past + 1 /\ text'[Past + 1] = "newline"
  BY LineEndTakes
<1>2. /\ for = "requirement" /\ pc' = "content"
      /\ for' = for /\ current' = current /\ test' = test /\ content' = content /\ suite' = suite
  BY DEF StartContent, To
<1>3. WaitingInv /\ HeldInv /\ BuffersInv /\ Known \in Seq(AnyLine)
  BY TypesHold DEF WrittenInv
<1>4. OfTest' <=> OfTest
  BY <1>1, <1>2 DEF OfTest, InTest, Inside
<1>5. Known' = Known /\ Parsed' = Parsed
  BY <1>2, <1>4, KnownStays
<1>6. content = <<>>
  BY <1>1, <1>3 DEF HeldInv
<1>7. PICK at : Agrees(at)
  BY DEF WrittenInv
<1>8. Agrees(at)'
  BY <1>1, <1>2, <1>3, <1>5, <1>6, <1>7, ContentBegins
<1>9. HeldInv'
  BY <1>2, <1>3, <1>4, <1>5, <1>6 DEF HeldInv, Inside
<1> QED
  BY <1>1, <1>8, <1>9 DEF WrittenInv

LEMMA EndTestAdds ==
  ASSUME ParserInv, WrittenInv, LineEnd, EndTest, pc' # "fatal"
  PROVE  /\ for = "end of test" /\ current.arguments = <<>> /\ current.name = "endtest"
         /\ pc' = "suite" /\ content' = content /\ test' = NewTest /\ OfTest /\ ~OfTest'
         /\ Parsed' \in Seq(AnyLine) /\ EndLine \in AnyLine /\ Known' = Append(Known, EndLine)
         /\ EndLine.kind = "end" /\ EndLine.directive.name = "endtest"
         /\ EndLine.directive.arguments = <<>>
<1>1. pc = "line end" /\ pc \in Inside
  BY LineEndTakes
<1>2. /\ for = "end of test" /\ current.arguments = <<>>
      /\ suite' = Append(suite, test) /\ test' = NewTest /\ pc' = "suite"
      /\ for' = for /\ current' = current /\ content' = content
  BY DEF EndTest, Fatal
<1>3. HeldInv /\ Parsed \in Seq(AnyLine) /\ test \in Tests /\ suite \in Seq(Tests)
  BY TypesHold DEF WrittenInv
<1>4. OfTest /\ ~OfTest'
  BY <1>1, <1>2 DEF OfTest, InTest, Inside
<1>5. Parsed' \in Seq(AnyLine) /\ EndLine \in AnyLine /\ Known' = Append(Known, EndLine)
  BY <1>2, <1>3, <1>4, TestCloses
<1>6. current.name = "endtest"
  BY <1>1, <1>2, <1>3 DEF HeldInv
<1>7. /\ EndLine.kind = "end" /\ EndLine.directive.name = "endtest"
      /\ EndLine.directive.arguments = <<>>
  BY DEF EndLine, Line, Bare
<1> QED
  BY <1>2, <1>4, <1>5, <1>6, <1>7

LEMMA EndTestWrites ==
  ASSUME ParserInv, WrittenInv, LineEnd, EndTest, pc' # "fatal"
  PROVE  WrittenInv'
<1>1. /\ pc = "line end" /\ pc \in Inside /\ WaitingInv'
      /\ Grown(text, text') /\ Past' = Past + 1 /\ text'[Past + 1] = "newline"
  BY LineEndTakes
<1>2. /\ current.arguments = <<>> /\ current.name = "endtest" /\ pc' = "suite"
      /\ content' = content /\ test' = NewTest /\ ~OfTest' /\ Parsed' \in Seq(AnyLine)
      /\ EndLine \in AnyLine /\ Known' = Append(Known, EndLine)
      /\ EndLine.kind = "end" /\ EndLine.directive.name = "endtest"
      /\ EndLine.directive.arguments = <<>>
  BY EndTestAdds
<1>3. WaitingInv /\ HeldInv /\ BuffersInv /\ Known \in Seq(AnyLine)
  BY TypesHold DEF WrittenInv
<1>4. PICK at : Agrees(at)
  BY DEF WrittenInv
<1>5. Agrees(at)'
  <2>1. pc' \notin Begun
    BY <1>2 DEF Begun, Inside
  <2>2. EndLine.directive.name = current.name
        /\ Len(EndLine.directive.arguments) = Len(current.arguments)
    BY <1>2
  <2> QED
    BY <1>1, <1>2, <1>3, <1>4, <2>1, <2>2, LineAdded
<1>6. Known' # <<>> /\ Known'[Len(Known')].kind = "end"
  BY <1>2, <1>3, AppendProperties
<1>7. HeldInv'
  <2>1. pc' \notin Inside /\ content = <<>>
    BY <1>1, <1>2, <1>3 DEF Inside, HeldInv
  <2> QED
    BY <1>2, <1>6, <2>1 DEF HeldInv
<1> QED
  BY <1>1, <1>5, <1>7 DEF WrittenInv

LEMMA LineEndWrites ==
  ASSUME ParserInv, WrittenInv, LineEnd, pc' # "fatal"
  PROVE  WrittenInv'
BY LineEndTakes, StartTestWrites, StartContentWrites, EndTestWrites

LEMMA RequirementListWrites ==
  ASSUME ParserInv, WrittenInv, RequirementList, pc' # "fatal"
  PROVE  WrittenInv'
<1>1. PICK t \in AnyToken :
        /\ Peek(t) /\ pc' = "directive"
        /\ \/ IsEnd(t) /\ for' = "end of test"
           \/ for' = "requirement"
  BY DEF RequirementList, Directive
<1>2. /\ pc = "requirements"
      /\ current' = current /\ test' = test /\ content' = content /\ suite' = suite
  BY DEF RequirementList
<1>3. /\ Grown(text, text') /\ WaitingInv' /\ Past' = Past
      /\ t.kind # "EOF" => tokens' = <<t>>
  BY <1>1, <1>2, PeekTakes DEF ParserInv, WrittenInv
<1>4. OfTest' <=> OfTest
  BY <1>1, <1>2 DEF OfTest, InTest, Inside
<1>5. for' = "end of test" => tokens' # <<>> /\ Last(tokens').piece = "endtest"
  <2> SUFFICES ASSUME for' = "end of test"
               PROVE  tokens' # <<>> /\ Last(tokens').piece = "endtest"
    OBVIOUS
  <2>1. t.kind = "directive" /\ t.piece = "endtest"
    BY <1>1 DEF IsEnd
  <2>2. tokens' = <<t>>
    BY <1>3, <2>1
  <2> QED
    BY <2>1, <2>2 DEF Last
<1>6. /\ pc' \notin Begun /\ pc \notin Begun /\ pc' \notin Inside /\ pc # "text"
      /\ pc' \notin {"content", "text", "open", "suite", "newlines", "done"}
  BY <1>1, <1>2 DEF Begun, Inside
<1> QED
  BY <1>2, <1>3, <1>4, <1>5, <1>6, LooksKept

\* What was read of a requirement becomes a line.
LEMMA RequirementAdds ==
  ASSUME NEW c, ParserInv, WrittenInv, pc \in {"content", "text"}, AddRequirement(c),
         c = IF content = <<>> THEN NoContent ELSE Trimmed(content)
  PROVE  /\ pc' = "requirements" /\ content' = <<>> /\ suite' = suite /\ Parsed' = Parsed
         /\ OfTest /\ OfTest' /\ Len(test'.requirements) = Len(test.requirements) + 1
         /\ \E line \in AnyLine :
              /\ Known' = Append(Known, line)
              /\ line.kind = "requirement" /\ line.directive.name = current.name
              /\ line.directive.arguments = current.arguments /\ line.directive.content = c
<1> DEFINE x == [name |-> current.name, arguments |-> current.arguments, content |-> c]
<1>1. /\ test' = [test EXCEPT !.requirements = Append(@, x)] /\ pc' = "requirements"
      /\ content' = <<>> /\ suite' = suite
  BY DEF AddRequirement
<1>2. /\ HeldInv /\ Known \in Seq(AnyLine) /\ Parsed \in Seq(AnyLine)
      /\ test \in Tests /\ content \in Seq(Others) /\ current.arguments \in Arguments
      /\ current.name \in Directives
  BY TypesHold DEF WrittenInv, Begun
<1>3. c \in Seq(Pieces) \cup {NoContent}
  <2>1. CASE content = <<>>
    BY <2>1
  <2>2. CASE content # <<>>
    <3>1. Front(content) \in Seq(Others)
      BY <1>2, <2>2, FrontType
    <3>2. c \in Seq(Others)
      BY <1>2, <2>2, <3>1 DEF Trimmed
    <3>3. Seq(Others) \subseteq Seq(Pieces)
      BY DEF Pieces
    <3> QED
      BY <3>2, <3>3
  <2> QED
    BY <2>1, <2>2
<1>4. x \in Directed
  BY <1>2, <1>3 DEF Directed
<1>5. test'.arguments = test.arguments /\ test'.requirements = Append(test.requirements, x)
  BY <1>1, <1>2 DEF Tests
<1>6. OfTest /\ OfTest'
  BY <1>1 DEF OfTest, InTest
<1>7. PICK line : line = Line("requirement", x)
  OBVIOUS
<1>8. Parsed' = Parsed /\ line \in AnyLine /\ Known' = Append(Known, line)
  <2> HIDE DEF x
  <2> QED
    BY <1>1, <1>2, <1>4, <1>5, <1>6, <1>7, RequirementJoins
<1>9. /\ line.kind = "requirement" /\ line.directive.name = current.name
      /\ line.directive.arguments = current.arguments /\ line.directive.content = c
  BY <1>7 DEF Line
<1>10. Len(test'.requirements) = Len(test.requirements) + 1
  <2>1. test.requirements \in Seq(Directed)
    BY <1>2, TestsHave
  <2> HIDE DEF x
  <2> QED
    BY <1>4, <1>5, <2>1, AppendProperties
<1> HIDE DEF x
<1> QED
  BY <1>1, <1>6, <1>8, <1>9, <1>10

LEMMA AddRequirementWrites ==
  ASSUME NEW c, ParserInv, WrittenInv, pc \in {"content", "text"}, AddRequirement(c),
         Grown(text, text'), WaitingInv', Past' = Past, Len(content) < MaxContent,
         c = IF content = <<>> THEN NoContent ELSE Trimmed(content)
  PROVE  WrittenInv'
<1>1. pc' = "requirements" /\ content' = <<>> /\ Parsed' = Parsed /\ OfTest'
  BY RequirementAdds
<1>2. PICK line \in AnyLine :
        /\ Known' = Append(Known, line)
        /\ line.kind = "requirement" /\ line.directive.name = current.name
        /\ line.directive.arguments = current.arguments /\ line.directive.content = c
  BY RequirementAdds
<1>3. /\ WaitingInv /\ HeldInv /\ BuffersInv /\ Known \in Seq(AnyLine)
      /\ content \in Seq(Others)
  BY TypesHold DEF WrittenInv
<1>4. PICK at : Agrees(at)
  BY DEF WrittenInv
<1>5. pc' \notin Begun /\ pc' \notin Inside
  BY <1>1 DEF Begun, Inside
<1>6. Agrees(at)'
  BY <1>2, <1>3, <1>4, <1>5, RequirementAdded
<1>7. HeldInv'
  BY <1>1, <1>3, <1>5 DEF HeldInv
<1> QED
  BY <1>6, <1>7 DEF WrittenInv

LEMMA ContentWrites ==
  ASSUME ParserInv, WrittenInv, Content
  PROVE  WrittenInv'
<1>1. PICK t \in AnyToken : Peek(t) /\ (AddRequirement(NoContent) \/ To("text"))
  BY DEF Content
<1>2. pc = "content"
  BY DEF Content
<1>3. Grown(text, text') /\ WaitingInv' /\ Past' = Past
  BY <1>1, <1>2, PeekTakes DEF ParserInv, WrittenInv
<1>4. CASE AddRequirement(NoContent)
  <2>1. content = <<>>
    BY <1>2 DEF WrittenInv, HeldInv
  <2>2. Len(content) < MaxContent
    BY <2>1, ParserAssumption
  <2> QED
    BY <1>2, <1>3, <1>4, <2>1, <2>2, AddRequirementWrites
<1>5. CASE To("text")
  <2>1. /\ pc' = "text" /\ for' = for
        /\ current' = current /\ test' = test /\ content' = content /\ suite' = suite
    BY <1>5 DEF To
  <2>2. OfTest' <=> OfTest
    BY <1>2, <2>1 DEF OfTest, InTest
  <2>3. /\ pc \in Begun /\ pc' \in Begun /\ pc' \notin Inside
        /\ pc' \notin {"open", "directive", "suite", "newlines", "done"}
    BY <1>2, <2>1 DEF Begun, Inside
  <2> QED
    BY <1>2, <1>3, <2>1, <2>2, <2>3, LooksKept
<1> QED
  BY <1>1, <1>4, <1>5

\* A directive does not end a content that has not begun.
LEMMA TextHasBegun ==
  ASSUME ParserInv, pc = "text", NEW t \in AnyToken, Peek(t), t.kind = "directive"
  PROVE  content # <<>>
<1> SUFFICES ASSUME content = <<>> PROVE FALSE
  OBVIOUS
<1>1. CASE tokens # <<>> /\ Last(tokens).kind # "directive"
  BY <1>1 DEF Peek
<1>2. CASE ended /\ chars = <<>> /\ tokens = <<>>
  <2>1. FromFile(t.piece)
    BY <1>2 DEF Peek, GetChar
  <2>2. t.piece = "EOF"
    BY <1>2, <2>1 DEF FromFile
  <2> QED
    BY <2>2, TokenFacts
<1> QED
  BY <1>1, <1>2 DEF ParserInv, ContentInv

LEMMA TextWrites ==
  ASSUME ParserInv, WrittenInv, Text, pc' # "fatal"
  PROVE  WrittenInv'
<1>1. pc = "text" /\ Len(content) < MaxContent
  BY DEF Text
<1>2. PICK t \in AnyToken :
        \/ /\ Get(t) /\ t.kind \notin {"EOF", "directive"}
           /\ content' = Append(content, t.piece)
           /\ UNCHANGED <<pc, for, current, test, suite>>
        \/ /\ Peek(t) /\ t.kind = "directive"
           /\ AddRequirement(Trimmed(content))
  BY DEF Text, Fatal
<1>3. /\ WaitingInv /\ HeldInv /\ BuffersInv /\ TokensInv /\ Known \in Seq(AnyLine)
      /\ content \in Seq(Others) /\ pc # "fatal"
  BY <1>1, TypesHold DEF WrittenInv
<1>4. CASE /\ Get(t) /\ t.kind \notin {"EOF", "directive"}
           /\ content' = Append(content, t.piece)
           /\ UNCHANGED <<pc, for, current, test, suite>>
  <2>1. /\ pc' = pc /\ for' = for /\ current' = current /\ test' = test /\ suite' = suite
        /\ content' = Append(content, t.piece)
    BY <1>4
  <2>2. t.piece \in Others
    BY <1>4, TokenFacts
  <2>3. Grown(text, text') /\ WaitingInv' /\ Past' = Past + 1 /\ text'[Past + 1] = t.piece
    BY <1>3, <1>4, GetTakes
  <2>4. OfTest' <=> OfTest
    BY <2>1 DEF OfTest
  <2>5. Known' = Known /\ Parsed' = Parsed
    BY <2>1, <2>4, KnownStays
  <2>6. PICK at : Agrees(at)
    BY DEF WrittenInv
  <2>7. Agrees(at)'
    BY <1>1, <1>3, <2>1, <2>2, <2>3, <2>5, <2>6, TextTaken
  <2>8. HeldInv'
    BY <1>1, <1>3, <2>1, <2>4, <2>5 DEF HeldInv, Inside
  <2> QED
    BY <2>3, <2>7, <2>8 DEF WrittenInv
<1>5. CASE Peek(t) /\ t.kind = "directive" /\ AddRequirement(Trimmed(content))
  <2>1. Grown(text, text') /\ WaitingInv' /\ Past' = Past
    BY <1>3, <1>5, PeekTakes
  <2>2. content # <<>>
    BY <1>1, <1>5, TextHasBegun
  <2> QED
    BY <1>1, <1>5, <2>1, <2>2, AddRequirementWrites
<1> QED
  BY <1>2, <1>4, <1>5

\* No step leaves "done" or "fatal", and every other one keeps the lines.
LEMMA NextWrites ==
  ASSUME ParserInv, pc # "fatal" => WrittenInv, Next
  PROVE  pc' # "fatal" => WrittenInv'
<1> SUFFICES ASSUME pc' # "fatal" PROVE WrittenInv'
  OBVIOUS
<1>1. pc # "fatal"
  BY DEF Next, Suite, SkipNewline, EndNewlines, DirectiveName, DirectiveNamed, OpenArguments,
         SkipSpace, EndSpaces, Argument, Equals, ArgumentValue, Separator, LineEnd,
         RequirementList, Content, Text, TextTooLong
<1>2. WrittenInv
  BY <1>1
<1>3. CASE Suite
  BY <1>2, <1>3, SuiteWrites
<1>4. CASE SkipNewline
  BY <1>2, <1>4, SkipNewlineWrites
<1>5. CASE EndNewlines
  BY <1>2, <1>5, EndNewlinesWrites
<1>6. CASE DirectiveName
  BY <1>2, <1>6, DirectiveNameWrites
<1>7. CASE DirectiveNamed
  BY <1>2, <1>7, DirectiveNamedWrites
<1>8. CASE OpenArguments
  BY <1>2, <1>8, OpenArgumentsWrites
<1>9. CASE SkipSpace
  BY <1>2, <1>9, SkipSpaceWrites
<1>10. CASE EndSpaces
  BY <1>2, <1>10, EndSpacesWrites
<1>11. CASE Argument
  BY <1>2, <1>11, ArgumentWrites
<1>12. CASE Equals
  BY <1>2, <1>12, EqualsWrites
<1>13. CASE ArgumentValue
  BY <1>2, <1>13, ArgumentValueWrites
<1>14. CASE Separator
  BY <1>2, <1>14, SeparatorWrites
<1>15. CASE LineEnd
  BY <1>2, <1>15, LineEndWrites
<1>16. CASE RequirementList
  BY <1>2, <1>16, RequirementListWrites
<1>17. CASE Content
  BY <1>2, <1>17, ContentWrites
<1>18. CASE Text
  BY <1>2, <1>18, TextWrites
<1>19. CASE TextTooLong
  BY <1>19 DEF TextTooLong, Fatal
<1> QED
  BY <1>3, <1>4, <1>5, <1>6, <1>7, <1>8, <1>9, <1>10, <1>11, <1>12, <1>13, <1>14, <1>15,
     <1>16, <1>17, <1>18, <1>19 DEF Next

LEMMA NothingWrites ==
  ASSUME WrittenInv, UNCHANGED vars
  PROVE  WrittenInv'
<1>1. /\ text' = text /\ ended' = ended /\ chars' = chars /\ tokens' = tokens
      /\ pc' = pc /\ for' = for /\ current' = current /\ test' = test /\ content' = content
      /\ suite' = suite
  BY DEF vars, parserVars
<1>2. WaitingInv'
  BY <1>1 DEF WrittenInv, WaitingInv
<1>3. OfTest' <=> OfTest
  BY <1>1 DEF OfTest
<1>4. Known' = Known /\ Parsed' = Parsed
  BY <1>1, <1>3, KnownStays
<1>5. HeldInv'
  BY <1>1, <1>3, <1>4 DEF WrittenInv, HeldInv
<1>6. PICK at : Agrees(at)
  BY DEF WrittenInv
<1>7. Past' = Past
  BY <1>1 DEF Past
<1>8. Agrees(at)'
  BY <1>1, <1>4, <1>6, <1>7 DEF Agrees
<1> QED
  BY <1>2, <1>5, <1>8 DEF WrittenInv

LEMMA InitWrites ==
  ASSUME Init
  PROVE  WrittenInv
<1>1. /\ text = <<>> /\ chars = <<>> /\ tokens = <<>> /\ pc = "suite" /\ for = "none"
      /\ test = NewTest /\ content = <<>> /\ suite = <<>>
  BY DEF Init
<1>2. Past = 0
  <2>1. Len(text) = 0 /\ Len(chars) = 0 /\ Len(tokens) = 0
    BY <1>1
  <2> QED
    BY <2>1 DEF Past
<1>3. ~OfTest
  BY <1>1 DEF OfTest, InTest, Inside
<1>4. Parsed = <<>>
  <2>1. [i \in DOMAIN suite |-> Lines(suite[i])] = <<>>
    BY <1>1
  <2> QED
    BY <2>1 DEF Parsed, FlattenSeq
<1>5. Known = <<>>
  BY <1>3, <1>4 DEF Known
<1>6. Marked(text, <<>>, 0)
  BY DEF Marked
<1>7. Rights(text, <<>>, <<>>, 0)
  BY DEF Rights
<1>8. pc \notin Begun /\ pc \notin Inside
  BY <1>1 DEF Begun, Inside
<1>9. Agrees(<<>>)
  BY <1>1, <1>2, <1>5, <1>6, <1>7, <1>8 DEF Agrees
<1>10. HeldInv
  BY <1>1, <1>4, <1>5, <1>8 DEF HeldInv
<1>11. WaitingInv
  BY <1>1 DEF WaitingInv
<1> QED
  BY <1>9, <1>10, <1>11 DEF WrittenInv
-----------------------------------------------------------------------------
(* The reference: what is written behind the k-th directive.               *)

\* What the first positions of at are: k of the directives.
LEMMA FirstMarks ==
  ASSUME NEW s, NEW n \in Nat, NEW at, Marked(s, at, n), NEW k \in 0..Len(at)
  PROVE  Cardinality({at[i] : i \in 1..k}) = k
<1> DEFINE T == {at[i] : i \in 1..k}
           f == [i \in 1..k |-> at[i]]
<1>0. Len(at) \in Nat /\ \A i \in 1..k : i \in 1..Len(at) /\ at[i] \in 1..n
  <2>1. Len(at) \in Nat /\ \A i \in 1..Len(at) : at[i] \in 1..n
    BY MarkedFacts
  <2>2. \A i \in 1..k : i \in 1..Len(at)
    BY <2>1
  <2> QED
    BY <2>1, <2>2
<1>1. f \in [1..k -> T]
  OBVIOUS
<1>2. \A i, j \in 1..k : f[i] = f[j] => i = j
  <2> SUFFICES ASSUME NEW i \in 1..k, NEW j \in 1..k, at[i] = at[j] PROVE i = j
    OBVIOUS
  <2>1. i < j => at[i] < at[j]
    BY <1>0 DEF Marked
  <2>2. j < i => at[j] < at[i]
    BY <1>0 DEF Marked
  <2>3. at[i] \in Nat
    BY <1>0
  <2> QED
    BY <2>1, <2>2, <2>3
<1>3. \A t \in T : \E i \in 1..k : f[i] = t
  OBVIOUS
<1>4. DOMAIN f = 1..k
  OBVIOUS
<1> HIDE DEF f, T
<1>5. f \in Bijection(1..k, T)
  BY <1>1, <1>2, <1>3, <1>4 DEF Bijection, Injection, Surjection, IsInjective
<1>6. ExistsBijection(1..k, T)
  BY <1>5 DEF ExistsBijection
<1>7. Cardinality(T) = k
  BY <1>6, FS_CountingElements
<1> QED
  BY <1>7 DEF T

LEMMA PositionIs ==
  ASSUME text \in Seq(Pieces), NEW at, Marked(text, at, Len(text))
  PROVE  /\ Cardinality(DirectivesAt) = Len(at)
         /\ \A k \in 1..Len(at) : Position(k) = at[k]
<1> DEFINE n == Len(text)
           m == Len(at)
<1>1. n \in Nat /\ m \in Nat /\ DOMAIN text = 1..n
  BY MarkedFacts, LenProperties
<1>2. DirectivesAt = {at[i] : i \in 1..m}
  <2>1. DirectivesAt = {i \in 1..n : text[i] \in Directives}
    BY <1>1 DEF DirectivesAt
  <2> QED
    BY <2>1 DEF Marked
<1>3. Cardinality(DirectivesAt) = m
  <2>1. m \in 0..m
    BY <1>1
  <2> QED
    BY <1>1, <1>2, <2>1, FirstMarks
<1>4. ASSUME NEW k \in 1..m
      PROVE  at[k] \in DirectivesAt /\ Cardinality({j \in DirectivesAt : j <= at[k]}) = k
  <2>1. {j \in DirectivesAt : j <= at[k]} = {at[i] : i \in 1..k}
    <3>1. ASSUME NEW i \in 1..m PROVE at[i] <= at[k] <=> i <= k
      <4>1. /\ i < k => at[i] < at[k]
            /\ k < i => at[k] < at[i]
        BY DEF Marked
      <4>2. at[i] \in Nat /\ at[k] \in Nat
        BY DEF Marked
      <4> QED
        BY <4>1, <4>2
    <3>2. 1..k \subseteq 1..m /\ \A i \in 1..m : i <= k => i \in 1..k
      BY <1>1
    <3> HIDE DEF m
    <3>3. \A i \in 1..k : i <= k
      OBVIOUS
    <3> QED
      BY <1>2, <3>1, <3>2, <3>3
  <2>2. k \in 0..m
    OBVIOUS
  <2> QED
    BY <1>1, <1>2, <2>1, <2>2, FirstMarks
<1>5. ASSUME NEW k \in 1..m PROVE Position(k) = at[k]
  <2>1. \E i \in DirectivesAt : Cardinality({j \in DirectivesAt : j <= i}) = k
    BY <1>4
  <2>2. \A i \in DirectivesAt : Cardinality({j \in DirectivesAt : j <= i}) = k => i = at[k]
    BY <1>2, <1>4
  <2> QED
    BY <2>1, <2>2 DEF Position
<1> QED
  BY <1>3, <1>5

LEMMA WrittenIs ==
  ASSUME text \in Seq(Pieces), NEW at, Marked(text, at, Len(text)), NEW k \in 1..Len(at),
         NEW l \in at[k]..EndOf(at, k, Len(text)), text[l] = "newline",
         \A j \in at[k]..(l - 1) : text[j] # "newline"
  PROVE  /\ Written(k).name = text[at[k]]
         /\ Written(k).strings = Cardinality(Strings(text, at[k], l))
         /\ Written(k).body = SubSeq(text, l + 1, EndOf(at, k, Len(text)))
<1> DEFINE first == Position(k)
           last  == IF k = Cardinality(DirectivesAt) THEN Len(text) ELSE Position(k + 1) - 1
           line  == CHOOSE i \in first..last :
                      /\ text[i] = "newline"
                      /\ \A j \in first..(i - 1) : text[j] # "newline"
<1>1. /\ Written(k).name = text[first]
      /\ Written(k).strings = Cardinality({i \in first..line : text[i] = "string"})
      /\ Written(k).body = SubSeq(text, line + 1, last)
  BY DEF Written
<1>2. first = at[k] /\ Cardinality(DirectivesAt) = Len(at) /\ Len(at) \in Nat
  BY PositionIs, MarkedFacts, LenProperties
<1>3. last = EndOf(at, k, Len(text))
  <2>1. CASE k = Len(at)
    BY <1>2, <2>1 DEF EndOf
  <2>2. CASE k # Len(at)
    <3>1. k + 1 \in 1..Len(at) /\ k < Len(at)
      BY <1>2, <2>2
    <3>2. Position(k + 1) = at[k + 1]
      BY <3>1, PositionIs
    <3> QED
      BY <1>2, <2>2, <3>1, <3>2 DEF EndOf
  <2> QED
    BY <2>1, <2>2
<1>4. at[k] \in Nat /\ EndOf(at, k, Len(text)) \in Nat
  BY MarkedFacts, LenProperties
<1>5. line = l
  <2> DEFINE Ends(i) == text[i] = "newline" /\ \A j \in first..(i - 1) : text[j] # "newline"
  <2>1. line = CHOOSE i \in first..last : Ends(i)
    OBVIOUS
  <2>2. l \in first..last /\ Ends(l)
    BY <1>2, <1>3
  <2>3. \A i \in first..last : Ends(i) => i = l
    <3> SUFFICES ASSUME NEW i \in first..last, Ends(i) PROVE i = l
      OBVIOUS
    <3> HIDE DEF first, last
    <3>1. first \in Nat /\ l \in Nat /\ i \in Int /\ i >= first /\ l >= first
      BY <1>2, <1>3, <1>4, <2>2
    <3>2. ~(i < l)
      <4>1. i < l => i \in first..(l - 1)
        BY <3>1
      <4> QED
        BY <2>2, <4>1
    <3>3. ~(l < i)
      <4>1. l < i => l \in first..(i - 1)
        BY <3>1
      <4> QED
        BY <2>2, <4>1
    <3> QED
      BY <3>1, <3>2, <3>3
  <2> HIDE DEF Ends, first, last, line
  <2> QED
    BY <2>1, <2>2, <2>3
<1> HIDE DEF first, last, line
<1> QED
  BY <1>1, <1>2, <1>3, <1>5 DEF Strings
-----------------------------------------------------------------------------
(* A line that is right is the one that is written.                        *)

\* The pieces behind l, up to e.
LEMMA BodyIs ==
  ASSUME text \in Seq(Pieces), NEW l \in 0..Len(text), NEW e \in l..Len(text)
  PROVE  /\ SubSeq(text, l + 1, e) \in Seq(Pieces) /\ Len(SubSeq(text, l + 1, e)) = e - l
         /\ \A i \in 1..(e - l) : SubSeq(text, l + 1, e)[i] = text[l + i]
<1> DEFINE b == SubSeq(text, l + 1, e)
<1>1. Len(text) \in Nat
  BY LenProperties
<1>2. \A i \in (l + 1)..e : text[i] \in Pieces
  <2>1. \A i \in (l + 1)..e : i \in 1..Len(text)
    BY <1>1
  <2> QED
    BY <2>1, ElementOfSeq
<1>3. l + 1 \in Int /\ e \in Int /\ l \in Int /\ l <= e
  BY <1>1
<1>4. /\ b \in Seq(Pieces) /\ Len(b) = IF l + 1 <= e THEN e - (l + 1) + 1 ELSE 0
      /\ \A i \in 1..(e - (l + 1) + 1) : b[i] = text[(l + 1) + i - 1]
  BY <1>2, <1>3, SubSeqProperties
<1> HIDE DEF b
<1>5. Len(b) = e - l /\ e - (l + 1) + 1 = e - l
  BY <1>3, <1>4
<1>6. \A i \in 1..(e - l) : (l + 1) + i - 1 = l + i
  BY <1>3
<1>7. b \in Seq(Pieces) /\ Len(b) = e - l /\ \A i \in 1..(e - l) : b[i] = text[l + i]
  BY <1>4, <1>5, <1>6
<1> QED
  BY <1>7 DEF b

\* A body is a content and the newline before the next directive.
Matches(b, c) ==
  IF b = <<>> THEN c = NoContent
  ELSE b = IF Last(b) = "newline" THEN Append(c, "newline") ELSE c

\* A content and the text behind the line of its requirement.
LEMMA ContentIs ==
  ASSUME text \in Seq(Pieces), NEW l \in 1..Len(text), NEW e \in l..Len(text),
         NEW c \in Seq(Pieces) \cup {NoContent}, NEW b,
         IsBody(text, c, l, e), b = SubSeq(text, l + 1, e)
  PROVE  Matches(b, c)
<1> USE DEF Matches
<1> DEFINE X == Pieces \cup {"NULL"}
<1>1. b \in Seq(Pieces) /\ Len(b) = e - l /\ \A i \in 1..(e - l) : b[i] = text[l + i]
  BY BodyIs
<1>2. l \in Nat /\ e \in Nat /\ l <= e
  BY LenProperties
<1>3. CASE e = l
  <2>1. Len(b) = 0
    BY <1>1, <1>2, <1>3
  <2>2. b = <<>>
    BY <1>1, <2>1, EmptySeq
  <2> QED
    BY <1>3, <2>2 DEF IsBody
<1>4. CASE e # l
  <2> DEFINE m == e - l
  <2>1. m \in Nat /\ m # 0 /\ m \in 1..m /\ l + m = e
    BY <1>2, <1>4
  <2>2. b # <<>> /\ Last(b) = text[e]
    <3>1. Len(b) = m /\ b[m] = text[e]
      BY <1>1, <2>1
    <3> HIDE DEF m
    <3>2. b # <<>>
      BY <2>1, <3>1
    <3> QED
      BY <3>1, <3>2 DEF Last
  <2>3. Seq(Pieces) \subseteq Seq(X) /\ NoContent \in Seq(X)
    BY DEF NoContent
  <2>4. b \in Seq(X) /\ c \in Seq(X) /\ "newline" \in X
    BY <1>1, <2>3, ParserAssumption DEF Pieces
  <2> HIDE DEF X
  <2>5. CASE text[e] = "newline"
    <3> DEFINE z == Append(c, "newline")
    <3>1. IsSlice(text, c, l, e - 1)
      BY <1>4, <2>5 DEF IsBody
    <3>2. (e - 1) - l = m - 1
      BY <1>2
    <3>3. Len(c) = m - 1 /\ \A i \in 1..(m - 1) : c[i] = text[l + i]
      BY <3>1, <3>2 DEF IsSlice
    <3>4. /\ z \in Seq(X) /\ Len(z) = Len(c) + 1
          /\ (\A i \in 1..Len(c) : z[i] = c[i]) /\ z[Len(c) + 1] = "newline"
      BY <2>4, AppendProperties
    <3> HIDE DEF z, m
    <3>5. Len(z) = m /\ (\A i \in 1..(m - 1) : z[i] = c[i]) /\ z[m] = "newline"
      <4>1. (m - 1) + 1 = m
        BY <2>1
      <4> QED
        BY <3>3, <3>4, <4>1
    <3>6. ASSUME NEW i \in 1..m PROVE z[i] = b[i]
      <4>1. b[i] = text[l + i]
        BY <1>1 DEF m
      <4>2. CASE i = m
        BY <2>1, <2>5, <3>5, <4>1, <4>2
      <4>3. CASE i # m
        <5>1. i \in 1..(m - 1)
          BY <2>1, <4>3
        <5> QED
          BY <3>3, <3>5, <4>1, <5>1
      <4> QED
        BY <4>2, <4>3
    <3>7. Len(b) = m
      BY <1>1 DEF m
    <3>8. z = b
      BY <2>4, <3>4, <3>5, <3>6, <3>7, SeqEqual
    <3> QED
      BY <2>2, <2>5, <3>8 DEF z
  <2>6. CASE text[e] # "newline"
    <3>1. IsSlice(text, c, l, e)
      BY <1>4, <2>6 DEF IsBody
    <3>2. Len(c) = m /\ \A i \in 1..m : c[i] = text[l + i]
      BY <3>1 DEF IsSlice
    <3>3. Len(b) = m /\ \A i \in 1..m : b[i] = c[i]
      BY <1>1, <3>2
    <3> HIDE DEF m
    <3>4. b = c
      BY <2>4, <3>2, <3>3, SeqEqual
    <3> QED
      BY <2>2, <2>6, <3>4
  <2> QED
    BY <2>5, <2>6
<1> QED
  BY <1>3, <1>4

\* A line that was parsed, and the reference.
LEMMA LineIs ==
  ASSUME text \in Seq(Pieces), NEW at, Marked(text, at, Len(text)), NEW k \in 1..Len(at),
         NEW line \in AnyLine, IsRight(text, line, at[k], EndOf(at, k, Len(text)))
  PROVE  LET w == Written(k)
             d == line.directive
         IN /\ d.name = w.name /\ Len(d.arguments) = w.strings
            /\ line.kind = "test" => w.body = <<>>
            /\ line.kind = "end" => ToSet(w.body) \subseteq {"newline"}
            /\ line.kind = "requirement" =>
                 IF w.body = <<>> THEN d.content = NoContent
                 ELSE w.body = IF Last(w.body) = "newline"
                               THEN Append(d.content, "newline") ELSE d.content
<1> DEFINE e == EndOf(at, k, Len(text))
           w == Written(k)
<1>1. Len(text) \in Nat
  BY LenProperties
<1>2. at[k] \in 1..Len(text) /\ e \in Nat /\ e <= Len(text)
  BY <1>1, MarkedFacts
<1>3. PICK l \in at[k]..e :
        /\ IsWritten(text, line.directive, at[k], l)
        /\ line.kind = "test" => e = l
        /\ line.kind = "end" => \A j \in (l + 1)..e : text[j] = "newline"
        /\ line.kind = "requirement" => IsBody(text, line.directive.content, l, e)
  BY DEF IsRight
<1>4. text[l] = "newline" /\ \A j \in at[k]..(l - 1) : text[j] # "newline"
  BY <1>3 DEF IsWritten, NotInLine
<1>5. /\ w.name = text[at[k]] /\ w.strings = Cardinality(Strings(text, at[k], l))
      /\ w.body = SubSeq(text, l + 1, e)
  BY <1>4, WrittenIs
<1> HIDE DEF e, w
<1>6. line.directive.name = w.name /\ Len(line.directive.arguments) = w.strings
  BY <1>3, <1>5 DEF IsWritten
<1>7. l \in 1..Len(text) /\ e \in l..Len(text)
  BY <1>1, <1>2
<1>8. /\ w.body \in Seq(Pieces) /\ Len(w.body) = e - l
      /\ \A i \in 1..(e - l) : w.body[i] = text[l + i]
  BY <1>5, <1>7, BodyIs
<1>9. line.kind = "test" => w.body = <<>>
  <2> SUFFICES ASSUME e = l PROVE w.body = <<>>
    BY <1>3
  <2>1. Len(w.body) = 0
    BY <1>7, <1>8
  <2> QED
    BY <1>8, <2>1, EmptySeq
<1>10. line.kind = "end" => ToSet(w.body) \subseteq {"newline"}
  <2> SUFFICES ASSUME \A j \in (l + 1)..e : text[j] = "newline", NEW x \in ToSet(w.body)
               PROVE  x = "newline"
    BY <1>3
  <2>1. DOMAIN w.body = 1..(e - l)
    BY <1>8, LenProperties
  <2>2. PICK i \in 1..(e - l) : w.body[i] = x
    BY <2>1 DEF ToSet
  <2>3. l + i \in (l + 1)..e
    BY <1>7
  <2> QED
    BY <1>8, <2>2, <2>3
<1>11. line.directive.content \in Seq(Pieces) \cup {NoContent}
  BY DEF AnyLine
<1>12. line.kind = "requirement" =>
         IF w.body = <<>> THEN line.directive.content = NoContent
         ELSE w.body = IF Last(w.body) = "newline"
                       THEN Append(line.directive.content, "newline")
                       ELSE line.directive.content
  <2> SUFFICES ASSUME IsBody(text, line.directive.content, l, e)
               PROVE  IF w.body = <<>> THEN line.directive.content = NoContent
                      ELSE w.body = IF Last(w.body) = "newline"
                                    THEN Append(line.directive.content, "newline")
                                    ELSE line.directive.content
    BY <1>3
  <2>1. PICK b : b = w.body
    OBVIOUS
  <2>2. PICK c : c = line.directive.content
    OBVIOUS
  <2>3. c \in Seq(Pieces) \cup {NoContent} /\ IsBody(text, c, l, e) /\ b = SubSeq(text, l + 1, e)
    BY <1>5, <1>11, <2>1, <2>2
  <2>4. Matches(b, c)
    BY <1>7, <2>3, ContentIs
  <2> QED
    BY <2>1, <2>2, <2>4 DEF Matches
<1> QED
  BY <1>6, <1>9, <1>10, <1>12 DEF w

LEMMA ParsedIsWritten ==
  ASSUME ParserInv, pc # "fatal" => WrittenInv
  PROVE  ParsedAsWritten
<1> SUFFICES ASSUME pc = "done"
             PROVE  /\ ended /\ tokens = <<>> /\ chars = <<>>
                    /\ Len(Parsed) = Cardinality(DirectivesAt)
                    /\ \A k \in DOMAIN Parsed :
                         LET w == Written(k)
                             d == Parsed[k].directive
                         IN /\ d.name = w.name /\ Len(d.arguments) = w.strings
                            /\ Parsed[k].kind = "test" => w.body = <<>>
                            /\ Parsed[k].kind = "end" => ToSet(w.body) \subseteq {"newline"}
                            /\ Parsed[k].kind = "requirement" =>
                                 IF w.body = <<>> THEN d.content = NoContent
                                 ELSE w.body = IF Last(w.body) = "newline"
                                               THEN Append(d.content, "newline") ELSE d.content
  BY DEF ParsedAsWritten
<1>1. WrittenInv
  OBVIOUS
<1>2. ended /\ tokens = <<>> /\ chars = <<>>
  BY <1>1 DEF WrittenInv, HeldInv
<1>3. BuffersInv /\ text \in Seq(Pieces) /\ Parsed \in Seq(AnyLine) /\ ~OfTest /\ Known = Parsed
  <2>1. ~OfTest
    BY OfTestWhere
  <2>2. BuffersInv /\ Parsed \in Seq(AnyLine) /\ Known = Parsed
    BY <1>1, <2>1, TypesHold DEF WrittenInv
  <2> QED
    BY <2>1, <2>2 DEF BuffersInv
<1>4. Past = Len(text)
  BY <1>2, <1>3, PastFacts
<1>5. PICK at : Agrees(at)
  BY <1>1 DEF WrittenInv
<1>6. /\ Marked(text, at, Len(text)) /\ Len(at) = Len(Parsed)
      /\ Rights(text, Parsed, at, Len(text))
  <2>1. pc \notin Begun
    BY DEF Begun, Inside
  <2> QED
    BY <1>3, <1>4, <1>5, <2>1 DEF Agrees
<1>7. Len(Parsed) = Cardinality(DirectivesAt)
  BY <1>3, <1>6, PositionIs
<1>8. DOMAIN Parsed = 1..Len(Parsed) /\ \A k \in 1..Len(Parsed) : Parsed[k] \in AnyLine
  BY <1>3, LenProperties, ElementOfSeq
<1>9. \A k \in 1..Len(Parsed) : IsRight(text, Parsed[k], at[k], EndOf(at, k, Len(text)))
  BY <1>6 DEF Rights
<1>10. ASSUME NEW k \in DOMAIN Parsed
       PROVE  LET w == Written(k)
                  d == Parsed[k].directive
              IN /\ d.name = w.name /\ Len(d.arguments) = w.strings
                 /\ Parsed[k].kind = "test" => w.body = <<>>
                 /\ Parsed[k].kind = "end" => ToSet(w.body) \subseteq {"newline"}
                 /\ Parsed[k].kind = "requirement" =>
                      IF w.body = <<>> THEN d.content = NoContent
                      ELSE w.body = IF Last(w.body) = "newline"
                                    THEN Append(d.content, "newline") ELSE d.content
  <2>1. /\ k \in 1..Len(at) /\ Parsed[k] \in AnyLine
        /\ IsRight(text, Parsed[k], at[k], EndOf(at, k, Len(text)))
    BY <1>6, <1>8, <1>9
  <2>2. text \in Seq(Pieces) /\ Marked(text, at, Len(text))
    BY <1>3, <1>6
  <2> QED
    BY <2>1, <2>2, LineIs
<1> QED
  BY <1>2, <1>7, <1>10

\* A suite that is accepted is the text, whatever it is: every directive, its
\* arguments and the content of every requirement to its last character.
THEOREM AsWritten == Spec => []ParsedAsWritten
<1> DEFINE Inv == ParserInv /\ (pc # "fatal" => WrittenInv)
<1>1. Init => Inv
  BY InitParserInv, InitWrites
<1>2. ParserInv /\ ParserInv' /\ (pc # "fatal" => WrittenInv) /\ [Next]_vars
        => (pc # "fatal" => WrittenInv)'
  <2> SUFFICES ASSUME ParserInv, pc # "fatal" => WrittenInv, [Next]_vars, pc' # "fatal"
               PROVE  WrittenInv'
    OBVIOUS
  <2>1. CASE Next
    BY <2>1, NextWrites
  <2>2. CASE UNCHANGED vars
    BY <2>2, NothingWrites DEF vars, parserVars
  <2> QED
    BY <2>1, <2>2
<1>3. Inv => ParsedAsWritten
  BY ParsedIsWritten
<1> QED
  BY <1>1, <1>2, <1>3, ParserInvariant, PTL DEF Spec
-----------------------------------------------------------------------------
(* The grammar: what the lines so far are.                                 *)

Closed(K) == K = <<>> \/ K[Len(K)].kind = "end"

Kinds(K) ==
  \A k \in 1..Len(K) :
    /\ K[k].kind = "test" <=> k = 1 \/ K[k - 1].kind = "end"
    /\ K[k].kind = "test" => K[k].directive.name = "test"
    /\ K[k].kind = "requirement" => K[k].directive.name # "endtest"
    /\ K[k].kind = "end" => K[k].directive.name = "endtest"

\* r counts the requirements of each test.
Counts(K, r) ==
  /\ r \in Seq(Nat) /\ Len(r) = Len(K)
  /\ \A k \in 1..Len(K) :
       /\ r[k] = IF K[k].kind = "requirement" THEN r[k - 1] + 1 ELSE 0
       /\ r[k] <= MaxRequirements
       /\ K[k].kind = "end" => r[k - 1] > 0

Grammar(r) ==
  /\ Kinds(Known) /\ Counts(Known, r)
  /\ IF OfTest THEN ~Closed(Known) /\ r[Len(Known)] = Len(test.requirements) ELSE Closed(Known)

\* Before the first directive there are newlines.
Led(s, n) == \A i \in 1..n : s[i] = "newline" \/ \E j \in 1..i : s[j] \in Directives

\* What was looked at before a directive is parsed, and what was not.
AheadInv ==
  /\ pc \in Inside \ {"named", "line end"} => ~IsPlain(text)
  /\ (pc \in Inside /\ for = "requirement") \/ pc \in {"content", "text"} =>
       current.name # "endtest"
  /\ pc = "directive" /\ for = "test" => tokens # <<>> /\ Last(tokens).piece # "newline"
  /\ pc = "directive" /\ for = "requirement" =>
       IF tokens = <<>> THEN ended /\ chars = <<>> ELSE Last(tokens).piece # "endtest"
  /\ pc \in {"directive"} \cup Inside /\ for = "end of test" => test.requirements # <<>>
  /\ pc = "requirements" \/ (pc = "directive" /\ for = "requirement") =>
       Known[Len(Known)].kind # "requirement"
         \/ (tokens # <<>> /\ Last(tokens).piece \in Directives)

GrammarInv == Led(text, Past) /\ AheadInv /\ \E r : Grammar(r)

LEMMA KindsGrow ==
  ASSUME NEW K \in Seq(AnyLine), NEW line \in AnyLine, Kinds(K),
         line.kind = "test" <=> Closed(K),
         line.kind = "test" => line.directive.name = "test",
         line.kind = "requirement" => line.directive.name # "endtest",
         line.kind = "end" => line.directive.name = "endtest"
  PROVE  Kinds(Append(K, line))
<1> DEFINE Z == Append(K, line)
           m == Len(K)
<1>1. /\ Len(Z) = m + 1 /\ (\A k \in 1..m : Z[k] = K[k]) /\ Z[m + 1] = line /\ m \in Nat
  BY AppendProperties, LenProperties
<1>2. Closed(K) <=> m = 0 \/ K[m].kind = "end"
  BY EmptySeq DEF Closed
<1>3. Kinds(Z)
  <2> HIDE DEF Z, m
  <2> SUFFICES ASSUME NEW k \in 1..(m + 1)
               PROVE  /\ Z[k].kind = "test" <=> k = 1 \/ Z[k - 1].kind = "end"
                      /\ Z[k].kind = "test" => Z[k].directive.name = "test"
                      /\ Z[k].kind = "requirement" => Z[k].directive.name # "endtest"
                      /\ Z[k].kind = "end" => Z[k].directive.name = "endtest"
    BY <1>1 DEF Kinds
  <2>1. CASE k = m + 1
    <3>1. Z[k] = line /\ k - 1 = m /\ (k = 1 <=> m = 0)
      BY <1>1, <2>1
    <3>2. m # 0 => Z[m] = K[m]
      BY <1>1
    <3> QED
      BY <1>2, <3>1, <3>2
  <2>2. CASE k # m + 1
    <3>1. k \in 1..m /\ (k # 1 => k - 1 \in 1..m)
      BY <1>1, <2>2
    <3>2. Z[k] = K[k] /\ (k # 1 => Z[k - 1] = K[k - 1])
      BY <1>1, <3>1
    <3>3. /\ K[k].kind = "test" <=> k = 1 \/ K[k - 1].kind = "end"
          /\ K[k].kind = "test" => K[k].directive.name = "test"
          /\ K[k].kind = "requirement" => K[k].directive.name # "endtest"
          /\ K[k].kind = "end" => K[k].directive.name = "endtest"
      BY <3>1 DEF Kinds, m
    <3> QED
      BY <3>2, <3>3
  <2> QED
    BY <2>1, <2>2
<1> QED
  BY <1>3 DEF Z

\* With a line more, there are c requirements.
NextCount(K, r, line, c) ==
  /\ c = IF line.kind = "requirement" THEN r[Len(K)] + 1 ELSE 0
  /\ c <= MaxRequirements
  /\ line.kind = "end" => r[Len(K)] > 0
  /\ line.kind # "test" => K # <<>>

CountsTo(K, r, c) == Counts(K, r) /\ r[Len(K)] = c

LEMMA CountsGrow ==
  ASSUME NEW K \in Seq(AnyLine), NEW line \in AnyLine, NEW r, NEW c \in Nat,
         Kinds(K), Counts(K, r), NextCount(K, r, line, c)
  PROVE  CountsTo(Append(K, line), Append(r, c), c)
<1> USE DEF NextCount, CountsTo
<1> DEFINE Z == Append(K, line)
           z == Append(r, c)
           m == Len(K)
<1>1. /\ Len(Z) = m + 1 /\ (\A k \in 1..m : Z[k] = K[k]) /\ Z[m + 1] = line /\ m \in Nat
  BY AppendProperties, LenProperties
<1>2. r \in Seq(Nat) /\ Len(r) = m
  BY DEF Counts
<1>3. z \in Seq(Nat) /\ Len(z) = m + 1 /\ (\A k \in 1..m : z[k] = r[k]) /\ z[m + 1] = c
  BY <1>2, AppendProperties
<1>4. line.kind # "test" => m # 0
  BY EmptySeq
<1>5. ASSUME NEW k \in 1..m
      PROVE  /\ r[k] = IF K[k].kind = "requirement" THEN r[k - 1] + 1 ELSE 0
             /\ r[k] <= MaxRequirements
             /\ K[k].kind = "end" => r[k - 1] > 0
             /\ k = 1 => K[k].kind = "test"
  BY DEF Counts, Kinds
<1>6. r[m] = IF m = 0 THEN r[m] ELSE z[m]
  BY <1>1, <1>3
<1> HIDE DEF Z, z, m
<1>7. ASSUME NEW k \in 1..(m + 1)
      PROVE  /\ z[k] = IF Z[k].kind = "requirement" THEN z[k - 1] + 1 ELSE 0
             /\ z[k] <= MaxRequirements
             /\ Z[k].kind = "end" => z[k - 1] > 0
  <2>1. CASE k = m + 1
    <3>1. z[k] = c /\ Z[k] = line /\ k - 1 = m
      BY <1>1, <1>3, <2>1
    <3>2. line.kind # "test" => r[m] = z[m]
      BY <1>4, <1>6
    <3>3. c = (IF line.kind = "requirement" THEN r[m] + 1 ELSE 0) /\ (line.kind = "end" => r[m] > 0)
      BY DEF m
    <3> QED
      BY <3>1, <3>2, <3>3
  <2>2. CASE k # m + 1
    <3>1. k \in 1..m /\ (k # 1 => k - 1 \in 1..m)
      BY <1>1, <2>2
    <3>2. Z[k] = K[k] /\ z[k] = r[k] /\ (k # 1 => z[k - 1] = r[k - 1])
      BY <1>1, <1>3, <3>1
    <3>3. /\ r[k] = IF K[k].kind = "requirement" THEN r[k - 1] + 1 ELSE 0
          /\ r[k] <= MaxRequirements
          /\ K[k].kind = "end" => r[k - 1] > 0
          /\ k = 1 => K[k].kind = "test"
      BY <1>5, <3>1
    <3>4. CASE k = 1
      <4>1. K[k].kind = "test" /\ Z[k].kind = "test"
        BY <3>2, <3>3, <3>4
      <4> QED
        BY <3>2, <3>3, <4>1
    <3>5. CASE k # 1
      BY <3>2, <3>3, <3>5
    <3> QED
      BY <3>4, <3>5
  <2> QED
    BY <2>1, <2>2
<1>8. Counts(Z, z) /\ z[Len(Z)] = c
  BY <1>1, <1>3, <1>7 DEF Counts
<1> QED
  BY <1>8 DEF Z, z
-----------------------------------------------------------------------------
(* A step and the grammar.                                                 *)

LEMMA GrammarStays ==
  ASSUME NEW r, Grammar(r), Known' = Known, OfTest' <=> OfTest, test' = test
  PROVE  Grammar(r)'
BY DEF Grammar

\* Where a directive is being parsed, one was taken.
LEMMA BegunByDirective ==
  ASSUME ParserInv, WrittenInv, pc \in Begun
  PROVE  \E j \in 1..Past : text[j] \in Directives
<1>1. PICK at : Agrees(at)
  BY DEF WrittenInv
<1>2. BuffersInv /\ WaitingInv /\ Known \in Seq(AnyLine)
  BY TypesHold DEF WrittenInv
<1>3. Past \in Nat /\ Len(Known) \in Nat
  BY <1>2, PastType, LenProperties
<1>4. Marked(text, at, Past) /\ Len(at) = Len(Known) + 1
  BY <1>1 DEF Agrees
<1>5. Len(at) \in 1..Len(at)
  BY <1>3, <1>4
<1> QED
  BY <1>4, <1>5 DEF Marked

\* Nothing is taken, or a piece that may be.
LEMMA LedGrows ==
  ASSUME ParserInv, WrittenInv, Led(text, Past), Grown(text, text'),
         \/ Past' = Past
         \/ /\ Past' = Past + 1
            /\ text'[Past + 1] \in Directives \cup {"newline"} \/ pc \in Begun
  PROVE  Led(text', Past')
<1>1. Past \in Nat /\ Past <= Len(text) /\ Len(text) \in Nat
  BY TypesHold, PastType DEF WrittenInv
<1>2. \A i \in 1..Past : text'[i] = text[i]
  BY <1>1 DEF Grown
<1>3. ASSUME NEW i \in 1..Past
      PROVE  text'[i] = "newline" \/ \E j \in 1..i : text'[j] \in Directives
  <2>1. text[i] = "newline" \/ \E j \in 1..i : text[j] \in Directives
    BY DEF Led
  <2>2. \A j \in 1..i : j \in 1..Past
    BY <1>1
  <2> QED
    BY <1>2, <2>1, <2>2
<1>4. CASE Past' = Past
  BY <1>3, <1>4 DEF Led
<1>5. CASE Past' = Past + 1 /\ (text'[Past + 1] \in Directives \cup {"newline"} \/ pc \in Begun)
  <2> SUFFICES ASSUME NEW i \in 1..(Past + 1)
               PROVE  text'[i] = "newline" \/ \E j \in 1..i : text'[j] \in Directives
    BY <1>5 DEF Led
  <2>1. CASE i \in 1..Past
    BY <1>3, <2>1
  <2>2. CASE i \notin 1..Past
    <3>1. i = Past + 1 /\ i \in 1..i
      BY <1>1, <2>2
    <3>2. CASE pc \in Begun
      <4>1. PICK j \in 1..Past : text[j] \in Directives
        BY <3>2, BegunByDirective
      <4>2. j \in 1..i
        BY <1>1, <3>1
      <4> QED
        BY <1>2, <4>1, <4>2
    <3> QED
      BY <1>5, <3>1, <3>2
  <2> QED
    BY <2>1, <2>2
<1> QED
  BY <1>4, <1>5

\* The lines stay.
LEMMA SameLines ==
  ASSUME ParserInv, WrittenInv, GrammarInv, Grown(text, text'),
         \/ Past' = Past
         \/ /\ Past' = Past + 1
            /\ text'[Past + 1] \in Directives \cup {"newline"} \/ pc \in Begun,
         suite' = suite, test' = test, OfTest' <=> OfTest, AheadInv'
  PROVE  GrammarInv'
<1>1. Led(text', Past')
  BY LedGrows DEF GrammarInv
<1>2. Known' = Known
  BY KnownStays
<1>3. PICK r : Grammar(r)
  BY DEF GrammarInv
<1>4. Grammar(r)'
  BY <1>2, <1>3, GrammarStays
<1> QED
  BY <1>1, <1>4 DEF GrammarInv

\* There is one more line.
LEMMA MoreLines ==
  ASSUME NEW line \in AnyLine,
         ParserInv, WrittenInv, GrammarInv, Grown(text, text'),
         \/ Past' = Past
         \/ /\ Past' = Past + 1
            /\ text'[Past + 1] \in Directives \cup {"newline"} \/ pc \in Begun,
         Known' = Append(Known, line), AheadInv',
         line.kind = "test" <=> ~OfTest,
         line.kind = "test" => line.directive.name = "test",
         line.kind = "requirement" =>
           line.directive.name # "endtest" /\ Len(test.requirements) < MaxRequirements,
         line.kind = "end" => line.directive.name = "endtest" /\ test.requirements # <<>>,
         OfTest' <=> line.kind # "end",
         line.kind = "test" => test'.requirements = <<>>,
         line.kind = "requirement" => Len(test'.requirements) = Len(test.requirements) + 1
  PROVE  GrammarInv'
<1>1. Led(text', Past')
  BY LedGrows DEF GrammarInv
<1>2. PICK r : Grammar(r)
  BY DEF GrammarInv
<1>3. Known \in Seq(AnyLine) /\ test \in Tests /\ MaxRequirements \in Nat
  BY TypesHold, ParserAssumption DEF WrittenInv
<1>4. /\ Kinds(Known) /\ Counts(Known, r)
      /\ OfTest <=> ~Closed(Known)
      /\ OfTest => r[Len(Known)] = Len(test.requirements)
  BY <1>2 DEF Grammar
<1> DEFINE n == Len(test.requirements)
           c == IF line.kind = "requirement" THEN n + 1 ELSE 0
<1>5. n \in Nat /\ c \in Nat /\ (test.requirements # <<>> => n > 0)
  <2>1. test.requirements \in Seq(Directed)
    BY <1>3, TestsHave
  <2>2. n \in Nat
    BY <2>1, LenProperties
  <2>3. test.requirements # <<>> => n # 0
    BY <2>1, EmptySeq
  <2> HIDE DEF n
  <2> QED
    BY <2>2, <2>3
<1>6. Kinds(Append(Known, line))
  BY <1>3, <1>4, KindsGrow
<1>7. line.kind \in {"test", "requirement", "end"}
  BY DEF AnyLine
<1>8. /\ c = IF line.kind = "requirement" THEN r[Len(Known)] + 1 ELSE 0
      /\ c <= MaxRequirements
      /\ line.kind = "end" => r[Len(Known)] > 0
      /\ line.kind # "test" => Known # <<>>
  <2>1. line.kind # "test" => r[Len(Known)] = n
    BY <1>4
  <2>2. line.kind = "requirement" => n < MaxRequirements
    OBVIOUS
  <2>3. line.kind = "end" => n > 0
    BY <1>5
  <2>4. line.kind # "test" => Known # <<>>
    BY <1>4 DEF Closed
  <2> HIDE DEF n
  <2> QED
    BY <1>3, <1>5, <2>1, <2>2, <2>3, <2>4
<1>9. PICK z : z = Append(r, c)
  OBVIOUS
<1>10. Counts(Known', z) /\ z[Len(Known')] = c
  <2> HIDE DEF c
  <2>1. PICK K : K = Known
    OBVIOUS
  <2>2. PICK d : d = c
    OBVIOUS
  <2>3. K \in Seq(AnyLine) /\ d \in Nat /\ Kinds(K) /\ Counts(K, r)
    BY <1>3, <1>4, <1>5, <2>1, <2>2
  <2>4. NextCount(K, r, line, d)
    BY <1>8, <2>1, <2>2 DEF NextCount
  <2>5. Counts(Append(K, line), Append(r, d)) /\ Append(r, d)[Len(Append(K, line))] = d
    <3>1. CountsTo(Append(K, line), Append(r, d), d)
      BY <2>3, <2>4, CountsGrow
    <3> QED
      BY <3>1 DEF CountsTo
  <2> QED
    BY <1>9, <2>1, <2>2, <2>5
<1>11. /\ OfTest' => ~Closed(Known') /\ c = Len(test'.requirements)
       /\ ~OfTest' => Closed(Known')
  <2>1. Known'[Len(Known')] = line /\ Known' # <<>>
    BY <1>3, AppendProperties
  <2>2. Closed(Known') <=> line.kind = "end"
    BY <2>1 DEF Closed
  <2>3. line.kind = "test" => Len(test'.requirements) = 0
    OBVIOUS
  <2> QED
    BY <1>7, <2>2, <2>3
<1>12. Grammar(z)'
  BY <1>6, <1>10, <1>11 DEF Grammar
<1> QED
  BY <1>1, <1>12 DEF GrammarInv
-----------------------------------------------------------------------------
(* The steps of the parser and the grammar.                                *)

LEMMA GrownSeq ==
  ASSUME NEW s \in Seq(Pieces), NEW u \in Seq(Pieces), Grown(s, u), IsPlain(u)
  PROVE  IsPlain(s)
<1>1. \A i \in DOMAIN s : i \in DOMAIN u /\ u[i] = s[i]
  BY LenProperties DEF Grown
<1>2. \A i \in DOMAIN u : u[i] \in Directives \cup {"newline", "char"}
  BY DEF IsPlain, ToSet
<1> QED
  BY <1>1, <1>2 DEF IsPlain, ToSet

\* A text that is plain has been.
LEMMA PlainBefore ==
  ASSUME ParserInv, ParserInv', Grown(text, text'), ~IsPlain(text)
  PROVE  ~IsPlain(text')
<1>1. text \in Seq(Pieces) /\ text' \in Seq(Pieces)
  BY DEF ParserInv, BuffersInv
<1> QED
  BY <1>1, GrownSeq

LEMMA SuiteParses ==
  ASSUME ParserInv, WrittenInv, GrammarInv, Suite
  PROVE  GrammarInv'
<1>1. PICK t \in AnyToken :
        /\ Peek(t)
        /\ \/ t.kind = "EOF" /\ pc' = "done" /\ for' = for
           \/ t.kind = "newline" /\ pc' = "newlines" /\ for' = for
           \/ t.kind \notin {"EOF", "newline"} /\ pc' = "directive" /\ for' = "test"
  BY Zenon DEF Suite, Directive
<1>2. pc = "suite" /\ test' = test /\ suite' = suite
  BY DEF Suite
<1>3. /\ BuffersInv /\ TokensInv /\ WaitingInv /\ mode = "none"
  BY <1>2 DEF ParserInv, ModeInv, WrittenInv
<1>4. /\ Grown(text, text') /\ Past' = Past
      /\ t.kind # "EOF" => tokens' = <<t>>
  BY <1>1, <1>2, <1>3, PeekTakes
<1>5. OfTest' <=> OfTest
  BY <1>1, <1>2 DEF OfTest, InTest, Inside
<1>6. t.kind # "newline" => t.piece # "newline"
  <2>1. t = Token(t.piece, "none")
    BY <1>1, <1>2, <1>3, PeekKeeps
  <2>2. Token("newline", "none").kind = "newline"
    BY ParserAssumption DEF Token, Marks
  <2> QED
    BY <2>1, <2>2
<1>7. AheadInv'
  <2>1. CASE pc' = "directive" /\ for' = "test" /\ t.kind \notin {"EOF", "newline"}
    <3>1. tokens' # <<>> /\ Last(tokens').piece # "newline"
      BY <1>4, <1>6, <2>1 DEF Last
    <3> QED
      BY <2>1, <3>1 DEF AheadInv, Inside
  <2>2. CASE pc' \in {"done", "newlines"}
    BY <2>2 DEF AheadInv, Inside
  <2> QED
    BY <1>1, <2>1, <2>2
<1> QED
  BY <1>2, <1>4, <1>5, <1>7, SameLines

LEMMA SkipNewlineParses ==
  ASSUME ParserInv, WrittenInv, GrammarInv, SkipNewline
  PROVE  GrammarInv'
<1>1. PICK t \in AnyToken : Get(t) /\ t.kind = "newline"
  BY DEF SkipNewline, Skip
<1>2. pc = "newlines" /\ pc' = pc /\ for' = for /\ test' = test /\ suite' = suite
  BY DEF SkipNewline, parserVars
<1>3. BuffersInv /\ TokensInv /\ WaitingInv /\ mode = "none"
  BY <1>2 DEF ParserInv, ModeInv, WrittenInv
<1>4. t.piece = "newline"
  BY <1>1, <1>2, <1>3, GetKeeps, PlainToken
<1>5. Grown(text, text') /\ Past' = Past + 1 /\ text'[Past + 1] = "newline"
  BY <1>1, <1>2, <1>3, <1>4, GetTakes
<1>6. OfTest' <=> OfTest
  BY <1>2 DEF OfTest
<1>7. AheadInv'
  BY <1>2 DEF AheadInv, Inside
<1> QED
  BY <1>2, <1>5, <1>6, <1>7, SameLines

LEMMA EndNewlinesParses ==
  ASSUME ParserInv, WrittenInv, GrammarInv, EndNewlines
  PROVE  GrammarInv'
<1>1. PICK t \in AnyToken : Peek(t)
  BY DEF EndNewlines
<1>2. pc = "newlines" /\ pc' = "suite" /\ test' = test /\ suite' = suite
  BY DEF EndNewlines
<1>3. Grown(text, text') /\ Past' = Past
  BY <1>1, <1>2, PeekTakes DEF ParserInv, WrittenInv
<1>4. OfTest' <=> OfTest
  BY <1>2 DEF OfTest, InTest, Inside
<1>5. AheadInv'
  BY <1>2 DEF AheadInv, Inside
<1> QED
  BY <1>2, <1>3, <1>4, <1>5, SameLines

LEMMA DirectiveNameParses ==
  ASSUME ParserInv, WrittenInv, GrammarInv, DirectiveName, pc' # "fatal"
  PROVE  GrammarInv'
<1>1. PICK t \in AnyToken :
        /\ Get(t) /\ t.kind = "directive"
        /\ current' = [name |-> t.piece, arguments |-> <<>>]
        /\ pc' = "named" /\ for' = for /\ test' = test /\ suite' = suite
  BY DEF DirectiveName, Fatal
<1>2. pc = "directive"
  BY DEF DirectiveName
<1>3. BuffersInv /\ TokensInv /\ WaitingInv /\ AheadInv
  BY DEF ParserInv, WrittenInv, GrammarInv
<1>4. t.piece \in Directives
  BY <1>1, TokenFacts
<1>5. Grown(text, text') /\ Past' = Past + 1 /\ text'[Past + 1] \in Directives
  BY <1>1, <1>2, <1>3, <1>4, GetTakes
<1>6. OfTest' <=> OfTest
  BY <1>1, <1>2 DEF OfTest, InTest, Inside
<1>7. for = "requirement" => t.piece # "endtest"
  <2>1. CASE tokens = <<>>
    <3> SUFFICES ASSUME ended, chars = <<>> PROVE FALSE
      BY <1>2, <1>3, <2>1 DEF AheadInv
    <3>1. FromFile(t.piece)
      BY <1>1, <2>1 DEF Get, GetChar
    <3>2. t.piece = "EOF"
      BY <3>1 DEF FromFile
    <3> QED
      BY <1>1, <3>2, TokenFacts
  <2>2. CASE tokens # <<>>
    <3>1. t = Last(tokens)
      BY <1>1, <2>2 DEF Get
    <3> QED
      BY <1>2, <1>3, <2>2, <3>1 DEF AheadInv
  <2> QED
    BY <2>1, <2>2
<1>8. AheadInv'
  <2>1. current'.name = t.piece
    BY <1>1
  <2>2. for = "end of test" => test.requirements # <<>>
    BY <1>2, <1>3 DEF AheadInv
  <2> QED
    BY <1>1, <1>7, <2>1, <2>2 DEF AheadInv, Inside
<1> QED
  BY <1>1, <1>5, <1>6, <1>8, SameLines

InsideStep ==
  \/ DirectiveNamed \/ OpenArguments \/ SkipSpace \/ EndSpaces
  \/ Argument \/ Equals \/ ArgumentValue \/ Separator

\* What the steps between the name of a directive and the end of its line do.
LEMMA InsideStepTakes ==
  ASSUME ParserInv, WrittenInv, InsideStep, pc' # "fatal"
  PROVE  /\ Grown(text, text') /\ WaitingInv'
         /\ Past' = Past \/ Past' = Past + 1
         /\ pc \in Inside /\ pc' \in Inside /\ pc # "line end" /\ pc' # "named"
         /\ for' = for /\ test' = test /\ suite' = suite /\ current'.name = current.name
         /\ pc = "named" /\ pc' # "line end" => chars' = <<"(">>
<1>1. BuffersInv /\ TokensInv /\ WaitingInv
  BY DEF ParserInv, WrittenInv
<1>2. ASSUME NEW t \in AnyToken, Get(t), pc \in Inside
      PROVE  Grown(text, text') /\ WaitingInv' /\ (Past' = Past \/ Past' = Past + 1)
  <2>1. pc # "fatal"
    BY <1>2 DEF Inside
  <2> QED
    BY <1>1, <1>2, <2>1, GetTakes
<1>3. ASSUME NEW kind \in {"named", "unnamed"}, AddArgument(kind)
      PROVE  /\ pc' = "separator" /\ for' = for /\ test' = test /\ suite' = suite
             /\ current'.name = current.name
  BY <1>3, OneMoreArgument
<1>4. CASE DirectiveNamed
  <2>1. PICK p \in Pieces \cup {"EOF"} : PeekChar(p) /\ pc' = IF p = "(" THEN "open" ELSE "line end"
    BY <1>4 DEF DirectiveNamed
  <2>2. /\ pc = "named" /\ tokens' = tokens
        /\ for' = for /\ current' = current /\ test' = test /\ suite' = suite
    BY <1>4 DEF DirectiveNamed
  <2>3. tokens = <<>> /\ pc \in Inside /\ pc' \in Inside /\ pc' # "named"
    BY <1>1, <2>1, <2>2 DEF TokensInv, Inside
  <2>4. Grown(text, text') /\ WaitingInv' /\ Past' = Past /\ (p # "EOF" => chars' = <<p>>)
    BY <1>1, <2>1, <2>2, <2>3, PeekCharTakes
  <2>5. "(" # "EOF"
    OBVIOUS
  <2> QED
    BY <2>1, <2>2, <2>3, <2>4, <2>5
<1>5. CASE OpenArguments
  <2>1. /\ (\E t \in AnyToken : Get(t)) /\ pc = "open" /\ pc' = "arguments"
        /\ for' = for /\ current' = current /\ test' = test /\ suite' = suite
    BY <1>5 DEF OpenArguments
  <2> QED
    BY <1>2, <2>1 DEF Inside
<1>6. CASE SkipSpace
  <2>1. PICK p \in Pieces : GetChar(p) /\ p = "space"
    BY <1>6 DEF SkipSpace
  <2>2. /\ pc = "arguments" /\ pc' = pc /\ tokens' = tokens
        /\ for' = for /\ current' = current /\ test' = test /\ suite' = suite
    BY <1>6 DEF SkipSpace, parserVars
  <2>3. tokens = <<>> /\ tokens' = <<>> /\ pc \in Inside
    BY <1>1, <2>2 DEF TokensInv, Inside
  <2>4. Grown(text, text') /\ chars' = <<>> /\ Len(text') = Past + 1
    BY <1>1, <2>1, <2>3, GetCharTakes
  <2>5. WaitingInv'
    BY <2>3, <2>4 DEF WaitingInv
  <2>6. Past' = Past + 1
    <3>1. Past \in Nat /\ Len(chars') = 0 /\ Len(tokens') = 0
      BY <1>1, <2>3, <2>4, PastType
    <3> QED
      BY <2>4, <3>1 DEF Past
  <2> QED
    BY <2>2, <2>3, <2>4, <2>5, <2>6
<1>7. CASE EndSpaces
  <2>1. PICK p \in Pieces \cup {"EOF"} : PeekChar(p)
    BY <1>7 DEF EndSpaces
  <2>2. /\ pc = "arguments" /\ pc' = "argument" /\ tokens' = tokens
        /\ for' = for /\ current' = current /\ test' = test /\ suite' = suite
    BY <1>7 DEF EndSpaces
  <2>3. tokens = <<>> /\ pc \in Inside /\ pc' \in Inside
    BY <1>1, <2>2 DEF TokensInv, Inside
  <2>4. Grown(text, text') /\ WaitingInv' /\ Past' = Past
    BY <1>1, <2>1, <2>2, <2>3, PeekCharTakes
  <2> QED
    BY <2>2, <2>3, <2>4
<1>8. CASE Argument
  <2>1. pc = "argument" /\ pc \in Inside /\ \E t \in AnyToken : Get(t)
    BY <1>8 DEF Argument, Inside
  <2>2. To("line end") \/ To("equals") \/ AddArgument("unnamed")
    BY <1>8 DEF Argument, Fatal
  <2>3. To("line end") \/ To("equals") =>
          /\ pc' \in Inside /\ pc' # "named"
          /\ for' = for /\ test' = test /\ suite' = suite /\ current'.name = current.name
    BY DEF To, Inside
  <2> QED
    BY <1>2, <1>3, <2>1, <2>2, <2>3 DEF Inside
<1>9. CASE Equals
  <2>1. /\ pc = "equals" /\ pc' = "value" /\ (\E t \in AnyToken : Get(t))
        /\ for' = for /\ test' = test /\ suite' = suite /\ current' = current
    BY <1>9 DEF Equals, To, Fatal
  <2> QED
    BY <1>2, <2>1 DEF Inside
<1>10. CASE ArgumentValue
  <2>1. pc = "value" /\ (\E t \in AnyToken : Get(t)) /\ AddArgument("named")
    BY <1>10 DEF ArgumentValue, Fatal
  <2> QED
    BY <1>2, <1>3, <2>1 DEF Inside
<1>11. CASE Separator
  <2>1. /\ pc = "separator" /\ pc' \in {"arguments", "line end"} /\ (\E t \in AnyToken : Get(t))
        /\ for' = for /\ test' = test /\ suite' = suite /\ current' = current
    BY <1>11 DEF Separator, To, Fatal
  <2> QED
    BY <1>2, <2>1 DEF Inside
<1> QED
  BY <1>4, <1>5, <1>6, <1>7, <1>8, <1>9, <1>10, <1>11 DEF InsideStep

LEMMA InsideStepParses ==
  ASSUME ParserInv, ParserInv', WrittenInv, GrammarInv, InsideStep, pc' # "fatal"
  PROVE  GrammarInv'
<1>1. /\ Grown(text, text') /\ WaitingInv'
      /\ Past' = Past \/ Past' = Past + 1
      /\ pc \in Inside /\ pc' \in Inside /\ pc # "line end" /\ pc' # "named"
      /\ for' = for /\ test' = test /\ suite' = suite /\ current'.name = current.name
      /\ pc = "named" /\ pc' # "line end" => chars' = <<"(">>
  BY InsideStepTakes
<1>2. AheadInv
  BY DEF GrammarInv
<1>3. pc \in Begun /\ (OfTest' <=> OfTest)
  BY <1>1 DEF Begun, OfTest, InTest, Inside
<1>4. pc' # "line end" => ~IsPlain(text')
  <2>1. CASE pc = "named" /\ pc' # "line end"
    <3>1. chars' = <<"(">>
      BY <1>1, <2>1
    <3>2. text'[Len(text')] = "(" /\ Len(text') > 0
      BY <1>1, <3>1 DEF WaitingInv, Last
    <3>3. Len(text') \in DOMAIN text'
      <4>1. text' \in Seq(Pieces)
        BY DEF ParserInv, BuffersInv
      <4> QED
        BY <3>2, <4>1, LenProperties
    <3>4. "(" \notin Directives \cup {"newline", "char"}
      BY ParserAssumption DEF Marks
    <3> QED
      BY <3>2, <3>3, <3>4 DEF IsPlain, ToSet
  <2>2. CASE pc # "named"
    <3>1. ~IsPlain(text)
      BY <1>1, <1>2, <2>2 DEF AheadInv
    <3> QED
      BY <1>1, <3>1, PlainBefore
  <2> QED
    BY <2>1, <2>2
<1>5. AheadInv'
  <2>1. pc' \notin {"directive", "requirements", "content", "text"}
    BY <1>1 DEF Inside
  <2>2. for = "requirement" => current.name # "endtest"
    BY <1>1, <1>2 DEF AheadInv
  <2>3. for = "end of test" => test.requirements # <<>>
    BY <1>1, <1>2 DEF AheadInv
  <2> QED
    BY <1>1, <1>4, <2>1, <2>2, <2>3 DEF AheadInv
<1> QED
  BY <1>1, <1>3, <1>5, SameLines

LEMMA StartTestParses ==
  ASSUME ParserInv, WrittenInv, GrammarInv, LineEnd, StartTest, pc' # "fatal"
  PROVE  GrammarInv'
<1>1. /\ pc \in Inside /\ Grown(text, text') /\ Past' = Past + 1
      /\ text'[Past + 1] = "newline"
  BY LineEndTakes
<1>2. /\ current.name = "test" /\ pc' = "requirements"
      /\ test'.requirements = <<>> /\ ~OfTest /\ OfTest'
  BY StartTestAdds
<1>3. PICK line \in AnyLine :
        /\ Known' = Append(Known, line)
        /\ line.kind = "test" /\ line.directive.name = current.name
  BY StartTestAdds
<1>4. Known'[Len(Known')] = line
  <2>1. Known \in Seq(AnyLine)
    BY TypesHold DEF WrittenInv
  <2> QED
    BY <1>3, <2>1, AppendProperties
<1>5. AheadInv'
  BY <1>2, <1>3, <1>4 DEF AheadInv, Inside
<1>6. pc \in Begun
  BY <1>1 DEF Begun
<1>7. line.kind \notin {"requirement", "end"}
  BY <1>3
<1> QED
  BY <1>1, <1>2, <1>3, <1>5, <1>6, <1>7, MoreLines

LEMMA StartContentParses ==
  ASSUME ParserInv, WrittenInv, GrammarInv, LineEnd, StartContent, pc' # "fatal"
  PROVE  GrammarInv'
<1>1. /\ pc \in Inside /\ Grown(text, text') /\ Past' = Past + 1
      /\ text'[Past + 1] = "newline"
  BY LineEndTakes
<1>2. /\ for = "requirement" /\ pc' = "content"
      /\ current' = current /\ test' = test /\ suite' = suite
  BY DEF StartContent, To
<1>3. (OfTest' <=> OfTest) /\ pc \in Begun
  BY <1>1, <1>2 DEF OfTest, InTest, Inside, Begun
<1>4. AheadInv'
  <2>1. current.name # "endtest"
    BY <1>1, <1>2 DEF GrammarInv, AheadInv
  <2> QED
    BY <1>2, <2>1 DEF AheadInv, Inside
<1> QED
  BY <1>1, <1>2, <1>3, <1>4, SameLines

LEMMA EndTestParses ==
  ASSUME ParserInv, WrittenInv, GrammarInv, LineEnd, EndTest, pc' # "fatal"
  PROVE  GrammarInv'
<1>1. /\ pc \in Inside /\ Grown(text, text') /\ Past' = Past + 1
      /\ text'[Past + 1] = "newline"
  BY LineEndTakes
<1>2. /\ for = "end of test" /\ pc' = "suite" /\ OfTest /\ ~OfTest'
      /\ EndLine \in AnyLine /\ Known' = Append(Known, EndLine)
      /\ EndLine.kind = "end" /\ EndLine.directive.name = "endtest"
  BY EndTestAdds
<1>3. PICK line : line = EndLine
  OBVIOUS
<1>4. /\ line \in AnyLine /\ Known' = Append(Known, line)
      /\ line.kind = "end" /\ line.directive.name = "endtest"
      /\ line.kind \notin {"test", "requirement"}
  BY <1>2, <1>3
<1>5. AheadInv'
  BY <1>2 DEF AheadInv, Inside
<1>6. pc \in Begun /\ test.requirements # <<>>
  BY <1>1, <1>2 DEF Begun, GrammarInv, AheadInv
<1> QED
  BY <1>1, <1>2, <1>4, <1>5, <1>6, MoreLines

LEMMA LineEndParses ==
  ASSUME ParserInv, WrittenInv, GrammarInv, LineEnd, pc' # "fatal"
  PROVE  GrammarInv'
BY LineEndTakes, StartTestParses, StartContentParses, EndTestParses

LEMMA RequirementListParses ==
  ASSUME ParserInv, WrittenInv, GrammarInv, RequirementList, pc' # "fatal"
  PROVE  GrammarInv'
<1>1. PICK t \in AnyToken :
        /\ Peek(t) /\ pc' = "directive"
        /\ \/ IsEnd(t) /\ test.requirements # <<>> /\ for' = "end of test"
           \/ ~IsEnd(t) /\ for' = "requirement"
  BY DEF RequirementList, Directive
<1>2. pc = "requirements" /\ test' = test /\ suite' = suite
  BY DEF RequirementList
<1>3. BuffersInv /\ TokensInv /\ WaitingInv /\ AheadInv
  BY DEF ParserInv, WrittenInv, GrammarInv
<1>4. /\ Grown(text, text') /\ Past' = Past /\ chars' = <<>>
      /\ t.kind = "EOF" => tokens' = <<>> /\ ended'
      /\ t.kind # "EOF" => tokens' = <<t>>
  BY <1>1, <1>2, <1>3, PeekTakes
<1>5. OfTest' <=> OfTest
  BY <1>1, <1>2 DEF OfTest, InTest, Inside
<1>6. Known' = Known
  BY <1>2, <1>5, KnownStays
<1>7. /\ Known[Len(Known)].kind # "requirement"
           \/ (tokens # <<>> /\ Last(tokens).piece \in Directives)
  BY <1>2, <1>3 DEF AheadInv
<1>8. tokens # <<>> => tokens' # <<>> /\ Last(tokens') = Last(tokens)
  BY <1>1 DEF Peek
<1>9. for' = "requirement" =>
        IF tokens' = <<>> THEN ended' /\ chars' = <<>> ELSE Last(tokens').piece # "endtest"
  <2> SUFFICES ASSUME for' = "requirement"
               PROVE  IF tokens' = <<>> THEN ended' /\ chars' = <<>>
                      ELSE Last(tokens').piece # "endtest"
    OBVIOUS
  <2>1. ~IsEnd(t)
    BY <1>1
  <2>2. t.piece # "endtest"
    BY <2>1, TokenFacts, ParserAssumption DEF IsEnd
  <2>3. CASE t.kind = "EOF"
    BY <1>4, <2>3
  <2>4. CASE t.kind # "EOF"
    <3>1. tokens' # <<>> /\ Last(tokens') = t
      BY <1>4, <2>4 DEF Last
    <3> QED
      BY <2>2, <3>1
  <2> QED
    BY <2>3, <2>4
<1>10. AheadInv'
  <2>1. /\ Known'[Len(Known')].kind # "requirement"
             \/ (tokens' # <<>> /\ Last(tokens').piece \in Directives)
    BY <1>6, <1>7, <1>8
  <2>2. for' = "end of test" => test'.requirements # <<>>
    BY <1>1, <1>2
  <2>3. pc' \notin Inside \cup {"content", "text"} /\ for' # "test"
    BY <1>1 DEF Inside
  <2> QED
    BY <1>1, <1>9, <2>1, <2>2, <2>3 DEF AheadInv
<1> QED
  BY <1>2, <1>4, <1>5, <1>10, SameLines

\* A requirement is a line more, and the directive that ends it waits.
LEMMA RequirementParses ==
  ASSUME NEW c, ParserInv, WrittenInv, GrammarInv, pc \in {"content", "text"}, AddRequirement(c),
         Grown(text, text'), Past' = Past, tokens' # <<>>, Last(tokens').piece \in Directives,
         c = IF content = <<>> THEN NoContent ELSE Trimmed(content)
  PROVE  GrammarInv'
<1>1. /\ pc' = "requirements" /\ OfTest /\ OfTest'
      /\ Len(test'.requirements) = Len(test.requirements) + 1
  BY RequirementAdds
<1>2. PICK line \in AnyLine :
        /\ Known' = Append(Known, line)
        /\ line.kind = "requirement" /\ line.directive.name = current.name
  BY RequirementAdds
<1>3. current.name # "endtest" /\ Len(test.requirements) < MaxRequirements
  BY DEF GrammarInv, AheadInv, ParserInv, TestInv
<1>4. AheadInv'
  BY <1>1 DEF AheadInv, Inside
<1>5. line.kind \notin {"test", "end"}
  BY <1>2
<1> QED
  BY <1>1, <1>2, <1>3, <1>4, <1>5, MoreLines

LEMMA ContentParses ==
  ASSUME ParserInv, WrittenInv, GrammarInv, Content
  PROVE  GrammarInv'
<1>1. PICK t \in AnyToken :
        Peek(t) /\ IF t.kind = "directive" THEN AddRequirement(NoContent) ELSE To("text")
  BY DEF Content
<1>2. pc = "content"
  BY DEF Content
<1>3. Grown(text, text') /\ Past' = Past /\ (t.kind # "EOF" => tokens' = <<t>>)
  BY <1>1, <1>2, PeekTakes DEF ParserInv, WrittenInv
<1>4. CASE t.kind = "directive"
  <2>1. content = <<>>
    BY <1>2 DEF WrittenInv, HeldInv
  <2>2. tokens' # <<>> /\ Last(tokens').piece \in Directives
    BY <1>3, <1>4, TokenFacts DEF Last
  <2> QED
    BY <1>1, <1>2, <1>3, <1>4, <2>1, <2>2, RequirementParses
<1>5. CASE t.kind # "directive"
  <2>1. pc' = "text" /\ current' = current /\ test' = test /\ suite' = suite
    BY <1>1, <1>5 DEF To
  <2>2. OfTest' <=> OfTest
    BY <1>2, <2>1 DEF OfTest, InTest
  <2>3. AheadInv'
    <3>1. current.name # "endtest"
      BY <1>2 DEF GrammarInv, AheadInv
    <3> QED
      BY <2>1, <3>1 DEF AheadInv, Inside
  <2> QED
    BY <1>3, <2>1, <2>2, <2>3, SameLines
<1> QED
  BY <1>4, <1>5

LEMMA TextParses ==
  ASSUME ParserInv, WrittenInv, GrammarInv, Text, pc' # "fatal"
  PROVE  GrammarInv'
<1>1. pc = "text" /\ pc \in Begun /\ pc # "fatal"
  BY DEF Text, Begun
<1>2. PICK t \in AnyToken :
        \/ /\ Get(t) /\ t.kind # "EOF" /\ pc' = pc
           /\ UNCHANGED <<current, test, suite>>
        \/ Peek(t) /\ t.kind = "directive" /\ AddRequirement(Trimmed(content))
  BY DEF Text, Fatal
<1>3. BuffersInv /\ TokensInv /\ WaitingInv
  BY DEF ParserInv, WrittenInv
<1>4. CASE Get(t) /\ t.kind # "EOF" /\ pc' = pc /\ UNCHANGED <<current, test, suite>>
  <2>1. Grown(text, text') /\ Past' = Past + 1
    BY <1>1, <1>3, <1>4, GetTakes
  <2>2. OfTest' <=> OfTest
    BY <1>1, <1>4 DEF OfTest, InTest
  <2>3. AheadInv'
    <3>1. current.name # "endtest"
      BY <1>1 DEF GrammarInv, AheadInv
    <3> QED
      BY <1>1, <1>4, <3>1 DEF AheadInv, Inside
  <2>4. test' = test /\ suite' = suite
    BY <1>4
  <2> QED
    BY <1>1, <2>1, <2>2, <2>3, <2>4, SameLines
<1>5. CASE Peek(t) /\ t.kind = "directive" /\ AddRequirement(Trimmed(content))
  <2>1. Grown(text, text') /\ Past' = Past /\ tokens' = <<t>>
    BY <1>1, <1>3, <1>5, PeekTakes
  <2>2. content # <<>>
    BY <1>1, <1>5, TextHasBegun
  <2>3. tokens' # <<>> /\ Last(tokens').piece \in Directives
    BY <1>5, <2>1, TokenFacts DEF Last
  <2> QED
    BY <1>1, <1>5, <2>1, <2>2, <2>3, RequirementParses
<1> QED
  BY <1>2, <1>4, <1>5

LEMMA NextParses ==
  ASSUME ParserInv, ParserInv', pc # "fatal" => WrittenInv /\ GrammarInv, Next
  PROVE  pc' # "fatal" => GrammarInv'
<1> SUFFICES ASSUME pc' # "fatal" PROVE GrammarInv'
  OBVIOUS
<1>1. pc # "fatal"
  BY DEF Next, Suite, SkipNewline, EndNewlines, DirectiveName, DirectiveNamed, OpenArguments,
         SkipSpace, EndSpaces, Argument, Equals, ArgumentValue, Separator, LineEnd,
         RequirementList, Content, Text, TextTooLong
<1>2. WrittenInv /\ GrammarInv
  BY <1>1
<1>3. ~TextTooLong
  BY DEF TextTooLong, Fatal
<1>4. CASE InsideStep
  BY <1>2, <1>4, InsideStepParses
<1>5. CASE Suite
  BY <1>2, <1>5, SuiteParses
<1>6. CASE SkipNewline
  BY <1>2, <1>6, SkipNewlineParses
<1>7. CASE EndNewlines
  BY <1>2, <1>7, EndNewlinesParses
<1>8. CASE DirectiveName
  BY <1>2, <1>8, DirectiveNameParses
<1>9. CASE LineEnd
  BY <1>2, <1>9, LineEndParses
<1>10. CASE RequirementList
  BY <1>2, <1>10, RequirementListParses
<1>11. CASE Content
  BY <1>2, <1>11, ContentParses
<1>12. CASE Text
  BY <1>2, <1>12, TextParses
<1> QED
  BY <1>3, <1>4, <1>5, <1>6, <1>7, <1>8, <1>9, <1>10, <1>11, <1>12 DEF Next, InsideStep

LEMMA NothingParses ==
  ASSUME GrammarInv, UNCHANGED vars
  PROVE  GrammarInv'
<1>1. /\ text' = text /\ ended' = ended /\ chars' = chars /\ tokens' = tokens
      /\ pc' = pc /\ for' = for /\ current' = current /\ test' = test /\ suite' = suite
  BY DEF vars, parserVars
<1>2. OfTest' <=> OfTest
  BY <1>1 DEF OfTest
<1>3. Known' = Known
  BY <1>1, <1>2, KnownStays
<1>4. PICK r : Grammar(r)
  BY DEF GrammarInv
<1>5. Grammar(r)'
  BY <1>1, <1>2, <1>3, <1>4, GrammarStays
<1>6. AheadInv'
  BY <1>1, <1>3 DEF GrammarInv, AheadInv
<1>7. Past' = Past
  BY <1>1 DEF Past
<1>8. Led(text', Past')
  BY <1>1, <1>7 DEF GrammarInv
<1> QED
  BY <1>5, <1>6, <1>8 DEF GrammarInv

LEMMA InitParses ==
  ASSUME Init
  PROVE  GrammarInv
<1>1. /\ text = <<>> /\ chars = <<>> /\ tokens = <<>> /\ pc = "suite" /\ for = "none"
      /\ suite = <<>>
  BY DEF Init
<1>2. Past = 0
  <2>1. Len(text) = 0 /\ Len(chars) = 0 /\ Len(tokens) = 0
    BY <1>1
  <2> QED
    BY <2>1 DEF Past
<1>3. ~OfTest
  BY <1>1 DEF OfTest, InTest, Inside
<1>4. Parsed = <<>>
  <2>1. [i \in DOMAIN suite |-> Lines(suite[i])] = <<>>
    BY <1>1
  <2> QED
    BY <2>1 DEF Parsed, FlattenSeq
<1>5. Known = <<>>
  BY <1>3, <1>4 DEF Known
<1>6. Kinds(Known) /\ Counts(Known, <<>>) /\ Closed(Known)
  BY <1>5 DEF Kinds, Counts, Closed
<1>7. Grammar(<<>>)
  BY <1>3, <1>6 DEF Grammar
<1>8. AheadInv
  BY <1>1 DEF AheadInv, Inside
<1>9. Led(text, Past)
  BY <1>2 DEF Led
<1> QED
  BY <1>7, <1>8, <1>9 DEF GrammarInv
-----------------------------------------------------------------------------
(* Why a text is refused.                                                  *)

\* The lines K are those of the first directives of the text, and r the
\* requirements after each.
Standing(at, K, r) ==
  /\ Marked(text, at, Len(text))
  /\ K \in Seq(AnyLine) /\ Len(K) <= Len(at)
  /\ \A k \in 1..Len(K) : text[at[k]] = K[k].directive.name
  /\ Kinds(K) /\ Counts(K, r)

\* The text ends too early.
EndsEarly(at, K) ==
  /\ ended
  /\ \/ Len(at) = Len(K) /\ ~Closed(K)
     \/ /\ Len(at) = Len(K) + 1
        /\ at[Len(at)] = Len(text) \/ (~Closed(K) /\ text[at[Len(at)]] # "endtest")

\* Something stands where a directive should.
Misplaced(at, K) ==
  /\ Len(at) = Len(K)
  /\ \/ Closed(K) /\ Len(text) > 0 /\ text[Len(text)] \notin Directives \cup {"newline"}
     \/ K # <<>> /\ K[Len(K)].kind = "test" /\ Len(text) > at[Len(at)] + 1

\* The next directive is not one that may follow, or not alone on its line.
WrongNext(at, K, r) ==
  LET k == Len(K) + 1
      q == at[k]
      e == EndOf(at, k, Len(text))
  IN /\ k <= Len(at)
     /\ \/ q < Len(text) /\ text[q + 1] # "newline"
        \/ Closed(K) /\ text[q] # "test"
        \/ ~Closed(K) /\ text[q] = "endtest" /\ r[Len(K)] = 0
        \/ ~Closed(K) /\ text[q] # "endtest" /\ (r[Len(K)] = MaxRequirements \/ e - q > MaxContent)

Refused(at, K, r) == EndsEarly(at, K) \/ Misplaced(at, K) \/ WrongNext(at, K, r)

FatalInv == pc = "fatal" /\ IsPlain(text) => \E at, K, r : Standing(at, K, r) /\ Refused(at, K, r)

\* What is marked of the text goes on being so, with one directive more or none.
LEMMA StandsThen ==
  ASSUME NEW K, NEW n, ParserInv, ParserInv', WrittenInv, GrammarInv, Grown(text, text'),
         K = Known, n = Past, Len(text') \in {n, n + 1}
  PROVE  \E at, z, r :
           /\ Agrees(at) /\ Grammar(r) /\ Standing(z, K, r)'
           /\ \A k \in 1..Len(at) : z[k] = at[k]
           /\ Len(z) = IF Len(text') = n + 1 /\ text'[n + 1] \in Directives
                       THEN Len(at) + 1 ELSE Len(at)
           /\ Len(z) = Len(at) + 1 => z[Len(z)] = n + 1
<1>1. /\ BuffersInv /\ WaitingInv /\ Known \in Seq(AnyLine) /\ HeldInv
  BY TypesHold DEF WrittenInv
<1>2. PICK at : Agrees(at)
  BY DEF WrittenInv
<1>3. PICK r : Grammar(r)
  BY DEF GrammarInv
<1>4. /\ n \in Nat /\ Len(at) \in Nat /\ Len(K) \in Nat
      /\ Marked(text', at, n) /\ Rights(text', K, at, n) /\ Len(K) <= Len(at)
  BY <1>1, <1>2, StillAgrees
<1>5. at \in Seq(Nat) /\ \A k \in 1..Len(at) : at[k] \in 1..n
  BY <1>4, MarkedFacts
<1>6. ASSUME NEW k \in 1..Len(K)
      PROVE  text'[at[k]] = K[k].directive.name
  <2>1. IsRight(text', K[k], at[k], EndOf(at, k, n))
    BY <1>4 DEF Rights
  <2> QED
    BY <2>1 DEF IsRight, IsWritten
<1>7. K \in Seq(AnyLine) /\ Kinds(K) /\ Counts(K, r)
  BY <1>1, <1>3 DEF Grammar
<1>8. CASE Len(text') = n + 1 /\ text'[n + 1] \in Directives
  <2>1. PICK z : z = Append(at, n + 1)
    OBVIOUS
  <2>2. Marked(text', z, n + 1)
    BY <1>4, <1>8, <2>1, OneMarked
  <2>3. /\ Len(z) = Len(at) + 1 /\ z[Len(z)] = n + 1
        /\ \A k \in 1..Len(at) : z[k] = at[k]
    BY <1>4, <1>5, <2>1, AppendProperties
  <2>4. \A k \in 1..Len(K) : text'[z[k]] = K[k].directive.name
    <3>1. \A k \in 1..Len(K) : k \in 1..Len(at)
      BY <1>4
    <3> QED
      BY <1>6, <2>3, <3>1
  <2>5. Len(K) <= Len(z)
    BY <1>4, <2>3
  <2>6. Marked(text', z, Len(text'))
    BY <1>8, <2>2
  <2>7. Standing(z, K, r)'
    BY <1>7, <2>4, <2>5, <2>6 DEF Standing
  <2> QED
    BY <1>2, <1>3, <1>8, <2>3, <2>7
<1>9. CASE ~(Len(text') = n + 1 /\ text'[n + 1] \in Directives)
  <2>1. Marked(text', at, Len(text'))
    <3>1. CASE Len(text') = n
      BY <1>4, <3>1
    <3>2. CASE Len(text') = n + 1
      BY <1>4, <1>9, <3>2, NotMarked
    <3> QED
      BY <3>1, <3>2
  <2>2. Standing(at, K, r)'
    BY <1>4, <1>6, <1>7, <2>1 DEF Standing
  <2>3. Len(at) # Len(at) + 1
    BY <1>4
  <2> QED
    BY <1>2, <1>3, <1>9, <2>2, <2>3
<1> QED
  BY <1>8, <1>9

\* The line of a test ends where the parser is, below its directive.
LEMMA TestLineEnds ==
  ASSUME NEW at, ParserInv, WrittenInv, Agrees(at), pc \notin Begun,
         Known # <<>>, Known[Len(Known)].kind = "test"
  PROVE  /\ Len(at) = Len(Known) /\ Len(at) \in 1..Len(at)
         /\ at[Len(at)] \in Nat /\ Past \in Nat /\ at[Len(at)] < Past
<1>1. BuffersInv /\ WaitingInv /\ Known \in Seq(AnyLine)
  BY TypesHold DEF WrittenInv
<1>2. Past \in Nat /\ Len(Known) \in Nat /\ Len(Known) # 0
  BY <1>1, PastType, EmptySeq, LenProperties
<1>3. Len(at) = Len(Known) /\ Marked(text, at, Past) /\ Rights(text, Known, at, Past)
  BY DEF Agrees
<1>4. Len(at) \in 1..Len(at) /\ EndOf(at, Len(at), Past) = Past
  BY <1>2, <1>3 DEF EndOf
<1>5. at[Len(at)] \in 1..Past /\ text[at[Len(at)]] \in Directives
  BY <1>3, <1>4 DEF Marked
<1>6. IsRight(text, Known[Len(Known)], at[Len(at)], Past)
  BY <1>3, <1>4 DEF Rights
<1>7. text[Past] = "newline"
  BY <1>6 DEF IsRight, IsWritten
<1>8. "newline" \notin Directives
  BY ParserAssumption DEF Marks
<1>9. at[Len(at)] # Past
  BY <1>5, <1>7, <1>8
<1> QED
  BY <1>2, <1>3, <1>4, <1>5, <1>9

\* Behind it is something that is no directive.
LEMMA TestRefused ==
  ASSUME NEW at, NEW z, NEW K, NEW n, ParserInv, WrittenInv, Agrees(at), pc \notin Begun,
         K = Known, ~Closed(K), K[Len(K)].kind # "requirement",
         n = Past, Len(text') = n + 1, Len(z) = Len(at), \A k \in 1..Len(at) : z[k] = at[k]
  PROVE  Misplaced(z, K)'
<1>1. K # <<>> /\ K[Len(K)].kind # "end"
  BY DEF Closed
<1>2. K \in Seq(AnyLine)
  BY TypesHold DEF WrittenInv
<1>3. Len(K) \in 1..Len(K)
  BY <1>1, <1>2, EmptySeq, LenProperties
<1>4. K[Len(K)] \in AnyLine
  BY <1>2, <1>3, ElementOfSeq
<1>5. K[Len(K)].kind = "test"
  BY <1>1, <1>4 DEF AnyLine
<1>6. /\ Len(at) = Len(K) /\ Len(at) \in 1..Len(at)
      /\ at[Len(at)] \in Nat /\ n \in Nat /\ at[Len(at)] < n
  BY <1>1, <1>5, TestLineEnds
<1>7. z[Len(z)] = at[Len(at)]
  BY <1>6
<1>8. Len(text') > z[Len(z)] + 1
  BY <1>6, <1>7
<1>9. Len(z) = Len(K)
  BY <1>6
<1> QED
  BY <1>1, <1>5, <1>8, <1>9 DEF Misplaced

\* The next token is none of a directive.
LEMMA NameRefused ==
  ASSUME ParserInv, ParserInv', WrittenInv, GrammarInv, DirectiveName, pc' = "fatal"
  PROVE  FatalInv'
<1>1. PICK t \in AnyToken : Get(t) /\ t.kind # "directive"
  BY DEF DirectiveName
<1>2. pc = "directive" /\ pc \notin Begun
  BY DEF DirectiveName, Begun, Inside
<1>3. /\ BuffersInv /\ TokensInv /\ WaitingInv /\ HeldInv /\ AheadInv /\ ModeInv
      /\ Known \in Seq(AnyLine)
  BY TypesHold DEF WrittenInv, GrammarInv
<1>4. PICK n : n = Past
  OBVIOUS
<1>5. PICK K : K = Known
  OBVIOUS
<1>6. /\ Grown(text, text') /\ Past' = Len(text')
      /\ t.kind = "EOF" => Past' = n
      /\ t.kind # "EOF" => Past' = n + 1 /\ text'[n + 1] = t.piece
  BY <1>1, <1>2, <1>3, <1>4, GetTakes
<1>7. t.piece \notin Directives
  BY <1>1, TokenFacts
<1>8. PICK at, z, r :
        /\ Agrees(at) /\ Grammar(r) /\ Standing(z, K, r)'
        /\ \A k \in 1..Len(at) : z[k] = at[k]
        /\ Len(z) = IF Len(text') = n + 1 /\ text'[n + 1] \in Directives
                    THEN Len(at) + 1 ELSE Len(at)
  BY <1>3, <1>4, <1>5, <1>6, StandsThen
<1>9. n \in Nat /\ Len(at) = Len(K)
  BY <1>2, <1>3, <1>4, <1>5, <1>8, PastType DEF Agrees
<1>10. Len(z) = Len(K)
  BY <1>6, <1>7, <1>8, <1>9
<1>11. SUFFICES Refused(z, K, r)'
  BY <1>8 DEF FatalInv
<1>12. OfTest <=> for # "test"
  BY <1>2 DEF OfTest, InTest, Inside
<1>13. for \in {"test", "requirement", "end of test"}
  BY <1>2, <1>3 DEF ModeInv
<1>14. tokens # <<>> => t = Last(tokens) /\ t.kind # "EOF"
  BY <1>1, <1>3, WaitingIsPiece DEF Get
<1>15. CASE for = "test"
  <2>1. tokens # <<>> /\ Last(tokens).piece # "newline"
    BY <1>2, <1>3, <1>15 DEF AheadInv
  <2>2. Len(text') = n + 1 /\ text'[Len(text')] = t.piece /\ t.piece # "newline"
    BY <1>6, <1>14, <2>1
  <2>3. Closed(K)
    BY <1>5, <1>8, <1>12, <1>15 DEF Grammar
  <2>4. Misplaced(z, K)'
    BY <1>7, <1>9, <1>10, <2>2, <2>3 DEF Misplaced
  <2> QED
    BY <2>4 DEF Refused
<1>16. CASE for = "requirement"
  <2>1. ~Closed(K)
    BY <1>5, <1>8, <1>12, <1>16 DEF Grammar
  <2>2. CASE tokens = <<>>
    <3>1. ended /\ chars = <<>>
      BY <1>2, <1>3, <1>16, <2>2 DEF AheadInv
    <3>2. FromFile(t.piece)
      BY <1>1, <2>2, <3>1 DEF Get, GetChar
    <3>3. ended'
      BY <3>1, <3>2 DEF FromFile
    <3>4. EndsEarly(z, K)'
      BY <1>10, <2>1, <3>3 DEF EndsEarly
    <3> QED
      BY <3>4 DEF Refused
  <2>3. CASE tokens # <<>>
    <3>1. K[Len(K)].kind # "requirement"
      BY <1>2, <1>3, <1>5, <1>7, <1>14, <1>16, <2>3 DEF AheadInv
    <3>2. Len(text') = n + 1 /\ Len(z) = Len(at)
      BY <1>6, <1>9, <1>10, <1>14, <2>3
    <3>3. Misplaced(z, K)'
      BY <1>2, <1>4, <1>5, <1>8, <2>1, <3>1, <3>2, TestRefused
    <3> QED
      BY <3>3 DEF Refused
  <2> QED
    BY <2>2, <2>3
<1>17. CASE for = "end of test"
  <2>1. tokens # <<>> /\ Last(tokens).piece = "endtest"
    BY <1>2, <1>3, <1>17 DEF HeldInv
  <2>2. FALSE
    BY <1>7, <1>14, <2>1, ParserAssumption
  <2> QED
    BY <2>2
<1> QED
  BY <1>13, <1>15, <1>16, <1>17

\* Of a plain text, the line of a directive is the directive.
LEMMA PlainLine ==
  ASSUME NEW at, ParserInv, WrittenInv, Agrees(at), pc \in Inside, IsPlain(text)
  PROVE  /\ Len(at) = Len(Known) + 1 /\ Len(at) \in 1..Len(at) /\ at[Len(at)] = Past
         /\ text[at[Len(at)]] = current.name /\ current.arguments = <<>>
<1>1. /\ BuffersInv /\ WaitingInv /\ Known \in Seq(AnyLine) /\ current.arguments \in Arguments
  BY TypesHold DEF WrittenInv
<1>2. /\ Past \in Nat /\ Past <= Len(text) /\ Len(Known) \in Nat /\ text \in Seq(Pieces)
  BY <1>1, PastType, LenProperties DEF BuffersInv
<1>3. pc \in Begun
  BY DEF Begun
<1> DEFINE q == at[Len(at)]
<1>4. /\ Marked(text, at, Past) /\ Len(at) = Len(Known) + 1
      /\ LineBegun(text, current, q, Past)
  BY <1>3 DEF Agrees
<1>5. Len(at) \in 1..Len(at) /\ q \in 1..Past
  BY <1>2, <1>4 DEF Marked
<1>6. ASSUME NEW j \in q..Past PROVE text[j] \in Directives
  <2>1. j \in DOMAIN text
    BY <1>2, <1>5, LenProperties
  <2>2. text[j] \in Directives \cup {"newline", "char"}
    BY <2>1 DEF IsPlain, ToSet
  <2>3. text[j] \notin {"newline", "char"}
    BY <1>4 DEF LineBegun, NotInLine
  <2> QED
    BY <2>2, <2>3
<1>7. ASSUME q # Past PROVE FALSE
  <2>1. text[Past] \in Directives /\ Past \in 1..Past
    BY <1>2, <1>5, <1>6
  <2>2. PICK k \in 1..Len(at) : at[k] = Past
    BY <1>4, <2>1 DEF Marked
  <2>3. k < Len(at) \/ k = Len(at)
    BY <1>2, <1>4
  <2>4. k < Len(at) => at[k] < q
    BY <1>4, <1>5 DEF Marked
  <2> QED
    BY <1>2, <1>5, <1>7, <2>2, <2>3, <2>4
<1>8. current.arguments = <<>>
  <2>1. \A j \in q..Past : text[j] # "string"
    BY <1>6, ParserAssumption DEF Marks
  <2>2. Strings(text, q, Past) = {}
    BY <2>1 DEF Strings
  <2>3. Len(current.arguments) = 0
    BY <1>4, <2>2, FS_EmptySet DEF LineBegun
  <2> QED
    BY <1>1, <2>3, EmptySeq DEF Arguments
<1>9. text[q] = current.name
  BY <1>4 DEF LineBegun
<1> QED
  BY <1>4, <1>5, <1>7, <1>8, <1>9

\* The line of a directive does not end where it should, or is no test's.
LEMMA LineRefused ==
  ASSUME ParserInv, ParserInv', WrittenInv, GrammarInv, LineEnd, pc' = "fatal"
  PROVE  FatalInv'
<1> SUFFICES ASSUME IsPlain(text') PROVE FatalInv'
  BY DEF FatalInv
<1>1. PICK t \in AnyToken :
        /\ Get(t)
        /\ IF t.kind = "newline" THEN StartTest \/ StartContent \/ EndTest ELSE TRUE
  BY DEF LineEnd
<1>2. pc = "line end" /\ pc \in Inside /\ pc \in Begun /\ pc # "fatal"
  BY DEF LineEnd, Inside, Begun
<1>3. /\ BuffersInv /\ TokensInv /\ WaitingInv /\ HeldInv /\ Known \in Seq(AnyLine)
      /\ text \in Seq(Pieces) /\ text' \in Seq(Pieces)
  BY TypesHold DEF WrittenInv, ParserInv, BuffersInv
<1>4. PICK n : n = Past
  OBVIOUS
<1>5. PICK K : K = Known
  OBVIOUS
<1>6. /\ Grown(text, text') /\ Past' = Len(text')
      /\ t.kind = "EOF" => Past' = n
      /\ t.kind # "EOF" => Past' = n + 1 /\ text'[n + 1] = t.piece
  BY <1>1, <1>2, <1>3, <1>4, GetTakes
<1>7. PICK at, z, r :
        /\ Agrees(at) /\ Grammar(r) /\ Standing(z, K, r)'
        /\ \A k \in 1..Len(at) : z[k] = at[k]
        /\ Len(z) = IF Len(text') = n + 1 /\ text'[n + 1] \in Directives
                    THEN Len(at) + 1 ELSE Len(at)
  BY <1>3, <1>4, <1>5, <1>6, StandsThen
<1>8. SUFFICES Refused(z, K, r)'
  BY <1>7 DEF FatalInv
<1>9. /\ Len(at) = Len(K) + 1 /\ Len(at) \in 1..Len(at) /\ at[Len(at)] = n
      /\ text[n] = current.name /\ current.arguments = <<>>
  BY <1>2, <1>3, <1>4, <1>5, <1>6, <1>7, GrownSeq, PlainLine
<1>10. /\ n \in Nat /\ n <= Len(text) /\ n \in 1..Len(text) /\ Len(K) \in Nat
  <2>1. Past \in Nat /\ Past <= Len(text) /\ Len(text) \in Nat
    BY <1>3, PastType
  <2>2. Marked(text, at, Past)
    BY <1>7 DEF Agrees
  <2>3. at[Len(at)] \in 1..Past
    BY <1>9, <2>2 DEF Marked
  <2> QED
    BY <1>3, <1>4, <1>5, <1>9, <2>1, <2>3, LenProperties
<1>11. z[Len(K) + 1] = n /\ Len(K) + 1 <= Len(z) /\ text'[n] = current.name
  <2>1. text'[n] = text[n]
    BY <1>6, <1>10 DEF Grown
  <2> QED
    BY <1>7, <1>9, <1>10, <2>1
<1>12. CASE t.kind = "EOF"
  <2>1. Len(text') = n
    BY <1>6, <1>12
  <2>2. Len(z) = Len(K) + 1
    BY <1>7, <1>9, <1>10, <2>1
  <2>3. ended'
    <3>1. t.piece = "EOF" /\ (tokens # <<>> => Last(tokens).piece # "EOF")
      BY <1>3, <1>12, TokenFacts, WaitingIsPiece
    <3>2. tokens = <<>> /\ GetChar(t.piece)
      BY <1>1, <3>1 DEF Get
    <3> QED
      BY <1>3, <3>1, <3>2, GetCharTakes
  <2>4. EndsEarly(z, K)'
    BY <1>11, <2>1, <2>2, <2>3 DEF EndsEarly
  <2> QED
    BY <2>4 DEF Refused
<1>13. CASE t.kind \notin {"EOF", "newline"}
  <2>1. t.piece # "newline"
    <3>1. mode = "none"
      BY <1>2 DEF ParserInv, ModeInv
    <3>2. t = Token(t.piece, "none")
      BY <1>1, <1>2, <1>3, <3>1, GetKeeps
    <3>3. Token("newline", "none").kind = "newline"
      BY ParserAssumption DEF Token, Marks
    <3> QED
      BY <1>13, <3>2, <3>3
  <2>2. n < Len(text') /\ text'[n + 1] # "newline"
    BY <1>6, <1>10, <1>13, <2>1
  <2>3. WrongNext(z, K, r)'
    BY <1>11, <2>2 DEF WrongNext
  <2> QED
    BY <2>3 DEF Refused
<1>14. CASE t.kind = "newline"
  <2>1. for = "test" /\ current.name # "test"
    BY <1>1, <1>9, <1>14 DEF StartTest, StartContent, EndTest, To
  <2>2. ~OfTest
    BY <1>2, <2>1 DEF OfTest, InTest
  <2>3. Closed(K)
    BY <1>5, <1>7, <2>2 DEF Grammar
  <2>4. WrongNext(z, K, r)'
    BY <1>11, <2>1, <2>3 DEF WrongNext
  <2> QED
    BY <2>4 DEF Refused
<1> QED
  BY <1>12, <1>13, <1>14

\* There is a requirement too many, or none.
LEMMA ListRefused ==
  ASSUME ParserInv, ParserInv', WrittenInv, GrammarInv, RequirementList, pc' = "fatal"
  PROVE  FatalInv'
<1>1. PICK t \in AnyToken :
        Peek(t) /\ IF IsEnd(t) THEN test.requirements = <<>> ELSE Full
  BY DEF RequirementList, Directive
<1>2. pc = "requirements" /\ pc \notin Begun /\ pc # "fatal" /\ OfTest
  BY DEF RequirementList, Begun, Inside, OfTest, InTest
<1>3. /\ BuffersInv /\ TokensInv /\ WaitingInv /\ AheadInv /\ TestInv
      /\ Known \in Seq(AnyLine) /\ test \in Tests
  BY TypesHold DEF WrittenInv, GrammarInv
<1>4. PICK n : n = Past
  OBVIOUS
<1>5. PICK K : K = Known
  OBVIOUS
<1>6. /\ Grown(text, text') /\ WaitingInv' /\ Past' = n /\ BuffersInv'
      /\ t.kind = "EOF" => tokens' = <<>> /\ chars' = <<>> /\ ended'
      /\ t.kind # "EOF" => tokens' = <<t>>
  BY <1>1, <1>2, <1>3, <1>4, PeekTakes DEF ParserInv
<1>7. n \in Nat /\ Len(text') \in Nat
  BY <1>3, <1>4, <1>6, PastType, LenProperties DEF BuffersInv
<1>8. t.kind = "EOF" => Len(text') = n
  <2>1. Len(<<>>) = 0
    OBVIOUS
  <2> QED
    BY <1>6, <1>7, <2>1 DEF Past
<1>9. t.kind # "EOF" => Len(text') = n + 1 /\ text'[n + 1] = t.piece
  <2> SUFFICES ASSUME t.kind # "EOF" PROVE Len(text') = n + 1 /\ text'[n + 1] = t.piece
    OBVIOUS
  <2>1. tokens' # <<>> /\ Last(tokens') = t /\ Len(tokens') = 1
    BY <1>6 DEF Last
  <2>2. chars' = <<>> /\ Len(<<>>) = 0
    BY <1>6, <2>1 DEF BuffersInv
  <2>3. Len(text') = n + 1
    BY <1>6, <1>7, <2>1, <2>2 DEF Past
  <2>4. t.piece = text'[Len(text')]
    BY <1>6, <2>1 DEF WaitingInv
  <2> QED
    BY <2>3, <2>4
<1>10. PICK at, z, r :
        /\ Agrees(at) /\ Grammar(r) /\ Standing(z, K, r)'
        /\ \A k \in 1..Len(at) : z[k] = at[k]
        /\ Len(z) = IF Len(text') = n + 1 /\ text'[n + 1] \in Directives
                    THEN Len(at) + 1 ELSE Len(at)
        /\ Len(z) = Len(at) + 1 => z[Len(z)] = n + 1
  BY <1>3, <1>4, <1>5, <1>6, <1>8, <1>9, StandsThen
<1>11. SUFFICES Refused(z, K, r)'
  BY <1>10 DEF FatalInv
<1>12. /\ Len(at) = Len(K) /\ Len(K) \in Nat
       /\ ~Closed(K) /\ r[Len(K)] = Len(test.requirements)
  BY <1>2, <1>3, <1>5, <1>10, LenProperties DEF Agrees, Grammar
<1>13. n # n + 1
  BY <1>7
<1>14. CASE t.kind = "EOF"
  <2>1. Len(z) = Len(K) /\ ended'
    BY <1>6, <1>8, <1>10, <1>12, <1>13, <1>14
  <2>2. EndsEarly(z, K)'
    BY <1>12, <2>1 DEF EndsEarly
  <2> QED
    BY <2>2 DEF Refused
<1>15. CASE t.kind = "directive"
  <2>1. t.piece \in Directives /\ t.kind # "EOF"
    BY <1>15, TokenFacts
  <2>2. Len(text') = n + 1 /\ text'[n + 1] = t.piece
    BY <1>9, <2>1
  <2>3. Len(z) = Len(K) + 1 /\ z[Len(K) + 1] = n + 1 /\ Len(K) + 1 <= Len(z)
    BY <1>10, <1>12, <2>1, <2>2
  <2>4. text'[z[Len(K) + 1]] = t.piece
    BY <2>2, <2>3
  <2>5. CASE t.piece = "endtest"
    <3>1. test.requirements = <<>>
      BY <1>1, <1>15, <2>5 DEF IsEnd
    <3>2. r[Len(K)] = 0
      BY <1>12, <3>1
    <3>3. WrongNext(z, K, r)'
      BY <1>12, <2>3, <2>4, <2>5, <3>2 DEF WrongNext
    <3> QED
      BY <3>3 DEF Refused
  <2>6. CASE t.piece # "endtest"
    <3>1. Full
      BY <1>1, <2>6 DEF IsEnd
    <3>2. r[Len(K)] = MaxRequirements
      <4>1. Len(test.requirements) <= MaxRequirements /\ Len(test.requirements) >= MaxRequirements
        BY <1>3, <3>1 DEF TestInv, Full
      <4>2. Len(test.requirements) \in Nat /\ MaxRequirements \in Nat
        <5>1. test.requirements \in Seq(Directed)
          BY <1>3, TestsHave
        <5> QED
          BY <5>1, LenProperties, ParserAssumption
      <4> QED
        BY <1>12, <4>1, <4>2
    <3>3. WrongNext(z, K, r)'
      BY <1>12, <2>3, <2>4, <2>6, <3>2 DEF WrongNext
    <3> QED
      BY <3>3 DEF Refused
  <2> QED
    BY <2>5, <2>6
<1>16. CASE t.kind \notin {"EOF", "directive"}
  <2>1. Len(text') = n + 1 /\ text'[n + 1] \notin Directives
    BY <1>9, <1>16, TokenFacts
  <2>2. Len(z) = Len(at)
    BY <1>10, <2>1
  <2>3. K[Len(K)].kind # "requirement"
    <3>1. tokens # <<>> => Last(tokens) = t
      BY <1>1 DEF Peek
    <3>2. t.piece \notin Directives
      BY <1>16, TokenFacts
    <3> QED
      BY <1>2, <1>3, <1>5, <3>1, <3>2 DEF AheadInv
  <2>4. Misplaced(z, K)'
    BY <1>2, <1>4, <1>5, <1>10, <1>12, <2>1, <2>2, <2>3, TestRefused
  <2> QED
    BY <2>4 DEF Refused
<1> QED
  BY <1>14, <1>15, <1>16

\* A requirement that has begun is that of an open test, and not its end.
LEMMA TextFacts ==
  ASSUME NEW at, NEW r, ParserInv, WrittenInv, GrammarInv, Agrees(at), Grammar(r), pc = "text"
  PROVE  /\ ~Closed(Known) /\ Len(at) = Len(Known) + 1 /\ Len(at) \in 1..Len(at)
         /\ at[Len(at)] \in 1..Past /\ Past \in Nat
         /\ text[at[Len(at)]] # "endtest" /\ Len(content) < Past - at[Len(at)]
<1>1. BuffersInv /\ WaitingInv /\ Known \in Seq(AnyLine)
  BY TypesHold DEF WrittenInv
<1>2. Past \in Nat /\ Len(Known) \in Nat
  BY <1>1, PastType, LenProperties
<1>3. pc \in Begun /\ OfTest /\ current.name # "endtest"
  BY DEF Begun, OfTest, InTest, GrammarInv, AheadInv
<1>4. /\ Marked(text, at, Past) /\ Len(at) = Len(Known) + 1
      /\ BodyBegun(text, current, content, at[Len(at)], Past)
  BY <1>3 DEF Agrees
<1>5. Len(at) \in 1..Len(at) /\ at[Len(at)] \in 1..Past /\ text[at[Len(at)]] \in Directives
  <2>1. Len(at) \in 1..Len(at)
    BY <1>2, <1>4
  <2> QED
    BY <1>4, <2>1 DEF Marked
<1>6. PICK l \in at[Len(at)]..Past :
        IsWritten(text, current, at[Len(at)], l) /\ IsSlice(text, content, l, Past)
  BY <1>4 DEF BodyBegun
<1>7. text[at[Len(at)]] = current.name /\ text[l] = "newline" /\ Len(content) = Past - l
  BY <1>6 DEF IsWritten, IsSlice
<1>8. l # at[Len(at)]
  BY <1>5, <1>7, ParserAssumption DEF Marks
<1>9. Len(content) < Past - at[Len(at)]
  BY <1>2, <1>5, <1>6, <1>7, <1>8
<1>10. ~Closed(Known)
  BY <1>3 DEF Grammar
<1> QED
  BY <1>2, <1>3, <1>4, <1>5, <1>7, <1>9, <1>10

\* The text ends in a content.
LEMMA TextRefused ==
  ASSUME ParserInv, ParserInv', WrittenInv, GrammarInv, Text, pc' = "fatal"
  PROVE  FatalInv'
<1>1. pc = "text" /\ pc # "fatal"
  BY DEF Text
<1>2. PICK t \in AnyToken : Get(t) /\ t.kind = "EOF"
  BY <1>1 DEF Text, AddRequirement
<1>3. BuffersInv /\ TokensInv /\ WaitingInv
  BY DEF WrittenInv, ParserInv
<1>4. PICK n : n = Past
  OBVIOUS
<1>5. PICK K : K = Known
  OBVIOUS
<1>6. Grown(text, text') /\ Len(text') = n
  BY <1>1, <1>2, <1>3, <1>4, GetTakes
<1>7. PICK at, z, r :
        /\ Agrees(at) /\ Grammar(r) /\ Standing(z, K, r)'
        /\ \A k \in 1..Len(at) : z[k] = at[k]
        /\ Len(z) = IF Len(text') = n + 1 /\ text'[n + 1] \in Directives
                    THEN Len(at) + 1 ELSE Len(at)
  BY <1>4, <1>5, <1>6, StandsThen
<1>8. /\ ~Closed(K) /\ Len(at) = Len(K) + 1 /\ Len(at) \in 1..Len(at)
      /\ at[Len(at)] \in 1..n /\ n \in Nat /\ text[at[Len(at)]] # "endtest"
  BY <1>1, <1>4, <1>5, <1>7, TextFacts
<1>9. ended'
  <2>1. t.piece = "EOF" /\ (tokens # <<>> => Last(tokens).piece # "EOF")
    BY <1>2, <1>3, TokenFacts, WaitingIsPiece
  <2>2. tokens = <<>> /\ GetChar(t.piece)
    BY <1>2, <2>1 DEF Get
  <2> QED
    BY <1>3, <2>1, <2>2, GetCharTakes
<1>10. n # n + 1
  BY <1>8
<1>11. Len(z) = Len(at) /\ z[Len(z)] = at[Len(at)]
  BY <1>6, <1>7, <1>8, <1>10
<1>12. text'[at[Len(at)]] = text[at[Len(at)]]
  <2>1. n <= Len(text) /\ Len(text) \in Nat
    BY <1>3, <1>4, PastType
  <2> QED
    BY <1>6, <1>8, <2>1 DEF Grown
<1>13. EndsEarly(z, K)'
  BY <1>8, <1>9, <1>11, <1>12 DEF EndsEarly
<1> QED
  BY <1>7, <1>13 DEF FatalInv, Refused

\* A content is too long.
LEMMA LengthRefused ==
  ASSUME ParserInv, ParserInv', WrittenInv, GrammarInv, TextTooLong
  PROVE  FatalInv'
<1>1. pc = "text" /\ text' = text /\ Len(content) = MaxContent
  BY DEF TextTooLong
<1>2. BuffersInv /\ WaitingInv
  BY DEF WrittenInv, ParserInv
<1>3. PICK n : n = Past
  OBVIOUS
<1>4. PICK K : K = Known
  OBVIOUS
<1>5. n \in Nat /\ Len(text) \in {n, n + 1} /\ Grown(text, text') /\ MaxContent \in Nat
  BY <1>1, <1>2, <1>3, PastFacts, PastType, ParserAssumption DEF Grown
<1>6. PICK at, z, r :
        /\ Agrees(at) /\ Grammar(r) /\ Standing(z, K, r)'
        /\ \A k \in 1..Len(at) : z[k] = at[k]
        /\ Len(z) = IF Len(text') = n + 1 /\ text'[n + 1] \in Directives
                    THEN Len(at) + 1 ELSE Len(at)
        /\ Len(z) = Len(at) + 1 => z[Len(z)] = n + 1
  BY <1>1, <1>3, <1>4, <1>5, StandsThen
<1>7. /\ ~Closed(K) /\ Len(at) = Len(K) + 1 /\ Len(at) \in 1..Len(at)
      /\ at[Len(at)] \in 1..n /\ text[at[Len(at)]] # "endtest" /\ MaxContent < n - at[Len(at)]
  BY <1>1, <1>3, <1>4, <1>6, TextFacts
<1>8. Len(K) + 1 <= Len(z) /\ z[Len(K) + 1] = at[Len(at)]
  BY <1>6, <1>7
<1>9. EndOf(z, Len(K) + 1, Len(text)) \in {n, n + 1}
  <2>1. CASE Len(z) = Len(at) + 1
    <3>1. Len(K) + 1 < Len(z) /\ z[(Len(K) + 1) + 1] = n + 1
      BY <1>6, <1>7, <2>1
    <3> QED
      BY <1>5, <3>1 DEF EndOf
  <2>2. CASE Len(z) = Len(at)
    <3>1. ~(Len(K) + 1 < Len(z))
      BY <1>7, <2>2
    <3> QED
      BY <1>5, <3>1 DEF EndOf
  <2> QED
    BY <1>6, <2>1, <2>2
<1>10. EndOf(z, Len(K) + 1, Len(text)) - z[Len(K) + 1] > MaxContent
  <2>1. PICK e : e = EndOf(z, Len(K) + 1, Len(text))
    OBVIOUS
  <2>2. PICK q : q = at[Len(at)]
    OBVIOUS
  <2>3. e \in {n, n + 1} /\ q \in 1..n /\ MaxContent < n - q
    BY <1>7, <1>9, <2>1, <2>2
  <2>4. e - q > MaxContent
    BY <1>5, <2>3
  <2> QED
    BY <1>8, <2>1, <2>2, <2>4
<1>11. WrongNext(z, K, r)'
  BY <1>1, <1>7, <1>8, <1>10 DEF WrongNext
<1> QED
  BY <1>6, <1>11 DEF FatalInv, Refused

LEMMA NextRefuses ==
  ASSUME ParserInv, ParserInv', pc # "fatal" => WrittenInv /\ GrammarInv, Next
  PROVE  FatalInv'
<1> SUFFICES ASSUME pc' = "fatal" PROVE FatalInv'
  BY DEF FatalInv
<1>1. pc # "fatal"
  BY DEF Next, Suite, SkipNewline, EndNewlines, DirectiveName, DirectiveNamed, OpenArguments,
         SkipSpace, EndSpaces, Argument, Equals, ArgumentValue, Separator, LineEnd,
         RequirementList, Content, Text, TextTooLong
<1>2. WrittenInv /\ GrammarInv
  BY <1>1
<1>3. CASE DirectiveName
  BY <1>2, <1>3, NameRefused
<1>4. CASE LineEnd
  BY <1>2, <1>4, LineRefused
<1>5. CASE RequirementList
  BY <1>2, <1>5, ListRefused
<1>6. CASE Text
  BY <1>2, <1>6, TextRefused
<1>7. CASE TextTooLong
  BY <1>2, <1>7, LengthRefused
<1>8. CASE Argument \/ Equals \/ ArgumentValue \/ Separator
  <2>1. ~IsPlain(text)
    BY <1>2, <1>8 DEF GrammarInv, AheadInv, Inside, Argument, Equals, ArgumentValue, Separator
  <2>2. \E t \in AnyToken : Get(t)
    BY <1>8 DEF Argument, Equals, ArgumentValue, Separator
  <2>3. BuffersInv /\ TokensInv /\ WaitingInv
    BY <1>2 DEF ParserInv, WrittenInv
  <2>4. Grown(text, text')
    BY <1>1, <2>2, <2>3, GetTakes
  <2>5. ~IsPlain(text')
    BY <2>1, <2>4, PlainBefore
  <2> QED
    BY <2>5 DEF FatalInv
<1>9. CASE Suite \/ SkipNewline \/ EndNewlines \/ DirectiveNamed \/ OpenArguments \/ SkipSpace
             \/ EndSpaces \/ Content
  BY <1>9 DEF Suite, SkipNewline, EndNewlines, DirectiveNamed, OpenArguments, SkipSpace,
              EndSpaces, Content, parserVars, Directive, AddRequirement, To
<1> QED
  BY <1>3, <1>4, <1>5, <1>6, <1>7, <1>8, <1>9 DEF Next

LEMMA NothingRefuses ==
  ASSUME FatalInv, UNCHANGED vars
  PROVE  FatalInv'
BY DEF FatalInv, Standing, Refused, EndsEarly, Misplaced, WrongNext, vars, parserVars
-----------------------------------------------------------------------------
(* The reference: which directives are in a test.                          *)

\* A function that is defined from what it is one before.
Steps(f, n, x, G) == f = [k \in 0..n |-> IF k = 0 THEN x ELSE G[k][f[k - 1]]]

LEMMA StepsExist ==
  ASSUME NEW n \in Nat, NEW X, NEW x \in X, NEW G \in [1..n -> [X -> X]]
  PROVE  \E f \in [0..n -> X] : Steps(f, n, x, G)
<1> DEFINE S == {m \in 0..n : \E f \in [0..m -> X] : Steps(f, m, x, G)}
<1>1. 0 \in S
  <2> DEFINE f == [k \in 0..0 |-> x]
  <2>1. f \in [0..0 -> X] /\ Steps(f, 0, x, G)
    BY DEF Steps
  <2> QED
    BY <2>1
<1>2. ASSUME NEW m \in 0..n, m \in S, m # n PROVE m + 1 \in S
  <2>1. PICK f \in [0..m -> X] : Steps(f, m, x, G)
    BY <1>2
  <2> DEFINE g == [k \in 0..(m + 1) |-> IF k = m + 1 THEN G[m + 1][f[m]] ELSE f[k]]
  <2>2. m + 1 \in 1..n /\ m \in 0..m
    BY <1>2
  <2>3. G[m + 1][f[m]] \in X
    BY <2>1, <2>2
  <2>4. g \in [0..(m + 1) -> X]
    BY <2>1, <2>3
  <2>5. \A k \in 0..m : g[k] = f[k]
    OBVIOUS
  <2>6. g[m + 1] = G[m + 1][f[m]]
    BY <2>2
  <2>7. DOMAIN g = 0..(m + 1)
    OBVIOUS
  <2>8. ASSUME NEW k \in 0..(m + 1)
        PROVE  g[k] = IF k = 0 THEN x ELSE G[k][g[k - 1]]
    <3> HIDE DEF g
    <3>1. CASE k = m + 1
      <4>1. k - 1 = m /\ k # 0 /\ m \in 0..m
        BY <2>2, <3>1
      <4>2. g[m] = f[m]
        BY <2>5, <4>1
      <4> QED
        BY <2>6, <3>1, <4>1, <4>2
    <3>2. CASE k # m + 1
      <4>1. k \in 0..m /\ (k # 0 => k - 1 \in 0..m)
        BY <3>2
      <4>2. g[k] = f[k] /\ (k # 0 => g[k - 1] = f[k - 1])
        BY <2>5, <4>1
      <4>3. f[k] = IF k = 0 THEN x ELSE G[k][f[k - 1]]
        BY <2>1, <4>1 DEF Steps
      <4> QED
        BY <4>2, <4>3
    <3> QED
      BY <3>1, <3>2
  <2>9. Steps(g, m + 1, x, G)
    <3> HIDE DEF g
    <3> QED
      BY <2>4, <2>7, <2>8 DEF Steps
  <2> HIDE DEF g
  <2> QED
    BY <2>2, <2>4, <2>9
<1>3. n \in S
  <2> HIDE DEF S
  <2>1. \A k \in 0..n : k \in S /\ k # n => k + 1 \in S
    BY <1>2
  <2> QED
    BY <1>1, <2>1, Reached
<1> QED
  BY <1>3

LEMMA OpenSteps ==
  ASSUME Cardinality(DirectivesAt) \in Nat
  PROVE  LET n == Cardinality(DirectivesAt)
         IN Open = [k \in 0..n |-> k > 0 /\ (Open[k - 1] => text[Position(k)] # "endtest")]
<1> DEFINE n == Cardinality(DirectivesAt)
           G == [k \in 1..n |-> [b \in BOOLEAN |-> (b => text[Position(k)] # "endtest")]]
           Is(o) == o = [k \in 0..n |-> k > 0 /\ (o[k - 1] => text[Position(k)] # "endtest")]
<1>1. G \in [1..n -> [BOOLEAN -> BOOLEAN]]
  OBVIOUS
<1>2. \A k \in 1..n, b \in BOOLEAN : G[k][b] = (b => text[Position(k)] # "endtest")
  OBVIOUS
<1> HIDE DEF G
<1>3. PICK f \in [0..n -> BOOLEAN] : Steps(f, n, FALSE, G)
  BY <1>1, StepsExist
<1>4. ASSUME NEW k \in 0..n
      PROVE  f[k] = (k > 0 /\ (f[k - 1] => text[Position(k)] # "endtest"))
  <2>1. f[k] = IF k = 0 THEN FALSE ELSE G[k][f[k - 1]]
    BY <1>3 DEF Steps
  <2>2. CASE k = 0
    <3>1. f[k] = FALSE /\ ~(k > 0)
      BY <2>1, <2>2
    <3> QED
      BY <3>1
  <2>3. CASE k # 0
    <3>1. k \in 1..n /\ k - 1 \in 0..n /\ k > 0
      BY <2>3
    <3>2. f[k - 1] \in BOOLEAN
      BY <3>1
    <3>3. f[k] = G[k][f[k - 1]]
      BY <2>1, <2>3
    <3>4. f[k] = (f[k - 1] => text[Position(k)] # "endtest")
      BY <1>2, <3>1, <3>2, <3>3
    <3> QED
      BY <3>1, <3>4
  <2> QED
    BY <2>2, <2>3
<1>5. Is(f)
  BY <1>4, Zenon
<1>6. Open = CHOOSE o : Is(o)
  BY DEF Open
<1>7. Is(Open)
  <2> HIDE DEF Is
  <2> QED
    BY <1>5, <1>6
<1> QED
  BY <1>7

LEMMA RequirementsSteps ==
  ASSUME Cardinality(DirectivesAt) \in Nat
  PROVE  LET n == Cardinality(DirectivesAt)
         IN Requirements = [k \in 0..n |-> IF k > 0 /\ Open[k] /\ Open[k - 1]
                                           THEN Requirements[k - 1] + 1 ELSE 0]
<1> DEFINE n == Cardinality(DirectivesAt)
           G == [k \in 1..n |-> [x \in Nat |-> IF Open[k] /\ Open[k - 1] THEN x + 1 ELSE 0]]
           Is(o) == o = [k \in 0..n |-> IF k > 0 /\ Open[k] /\ Open[k - 1] THEN o[k - 1] + 1 ELSE 0]
<1>1. G \in [1..n -> [Nat -> Nat]]
  OBVIOUS
<1>2. \A k \in 1..n, x \in Nat : G[k][x] = IF Open[k] /\ Open[k - 1] THEN x + 1 ELSE 0
  OBVIOUS
<1> HIDE DEF G
<1>3. PICK f \in [0..n -> Nat] : Steps(f, n, 0, G)
  BY <1>1, StepsExist
<1>4. ASSUME NEW k \in 0..n
      PROVE  f[k] = IF k > 0 /\ Open[k] /\ Open[k - 1] THEN f[k - 1] + 1 ELSE 0
  <2>1. f[k] = IF k = 0 THEN 0 ELSE G[k][f[k - 1]]
    BY <1>3 DEF Steps
  <2>2. CASE k = 0
    <3>1. f[k] = 0 /\ ~(k > 0)
      BY <2>1, <2>2
    <3> QED
      BY <3>1
  <2>3. CASE k # 0
    <3>1. k \in 1..n /\ k - 1 \in 0..n /\ k > 0
      BY <2>3
    <3>2. f[k - 1] \in Nat
      BY <3>1
    <3>3. f[k] = G[k][f[k - 1]]
      BY <2>1, <2>3
    <3>4. f[k] = IF Open[k] /\ Open[k - 1] THEN f[k - 1] + 1 ELSE 0
      BY <1>2, <3>1, <3>2, <3>3
    <3> QED
      BY <3>1, <3>4
  <2> QED
    BY <2>2, <2>3
<1>5. Is(f)
  BY <1>4, Zenon
<1>6. Requirements = CHOOSE o : Is(o)
  BY DEF Requirements
<1>7. Is(Requirements)
  <2> HIDE DEF Is
  <2> QED
    BY <1>5, <1>6
<1> QED
  BY <1>7

\* Open and Requirements, from one directive to the next.
LEMMA OpenIs ==
  ASSUME NEW at, text \in Seq(Pieces), Marked(text, at, Len(text))
  PROVE  /\ Open[0] = FALSE
         /\ \A k \in 1..Len(at) :
              /\ Open[k] = (Open[k - 1] => text[at[k]] # "endtest")
              /\ Requirements[k] = IF Open[k] /\ Open[k - 1] THEN Requirements[k - 1] + 1 ELSE 0
<1> DEFINE n == Cardinality(DirectivesAt)
<1>1. n = Len(at) /\ n \in Nat /\ \A k \in 1..Len(at) : Position(k) = at[k]
  BY PositionIs DEF Marked
<1>2. Open = [k \in 0..n |-> k > 0 /\ (Open[k - 1] => text[Position(k)] # "endtest")]
  BY <1>1, OpenSteps
<1>3. Requirements = [k \in 0..n |-> IF k > 0 /\ Open[k] /\ Open[k - 1]
                                     THEN Requirements[k - 1] + 1 ELSE 0]
  BY <1>1, RequirementsSteps
<1> HIDE DEF n
<1>4. 0 \in 0..n /\ ~(0 > 0) /\ \A k \in 1..n : k \in 0..n /\ k > 0
  BY <1>1
<1>5. Open[0] = FALSE
  BY <1>2, <1>4
<1>6. ASSUME NEW k \in 1..n
      PROVE  /\ Open[k] = (Open[k - 1] => text[at[k]] # "endtest")
             /\ Requirements[k] = IF Open[k] /\ Open[k - 1] THEN Requirements[k - 1] + 1 ELSE 0
  <2>1. k \in 0..n /\ k > 0 /\ Position(k) = at[k]
    BY <1>1, <1>4
  <2>2. Open[k] = (k > 0 /\ (Open[k - 1] => text[Position(k)] # "endtest"))
    BY <1>2, <2>1
  <2>3. Requirements[k] = IF k > 0 /\ Open[k] /\ Open[k - 1] THEN Requirements[k - 1] + 1 ELSE 0
    BY <1>3, <2>1
  <2> QED
    BY <2>1, <2>2, <2>3
<1> QED
  BY <1>1, <1>5, <1>6

\* They are what the lines of the directives say.
LEMMA StandingIs ==
  ASSUME NEW at, NEW K, NEW r, text \in Seq(Pieces), Standing(at, K, r)
  PROVE  /\ \A k \in 1..Len(K) : (Open[k] <=> K[k].kind # "end") /\ Requirements[k] = r[k]
         /\ Open[Len(K)] <=> ~Closed(K)
<1> DEFINE n == Len(K)
           S == {k \in 0..n : k = 0 \/ ((Open[k] <=> K[k].kind # "end") /\ Requirements[k] = r[k])}
<1>1. /\ K \in Seq(AnyLine) /\ n \in Nat /\ Len(at) \in Nat /\ n <= Len(at)
      /\ Kinds(K) /\ Counts(K, r) /\ Marked(text, at, Len(text))
      /\ \A k \in 1..n : text[at[k]] = K[k].directive.name
  BY LenProperties DEF Standing, Marked
<1>2. 0 \in S
  BY <1>1
<1>3. ASSUME NEW k \in 0..n, k \in S, k # n PROVE k + 1 \in S
  <2>1. PICK j : j = k + 1
    OBVIOUS
  <2>2. j \in 1..n /\ j \in 1..Len(at) /\ j - 1 = k /\ (j = 1 <=> k = 0) /\ j \in 0..n
    BY <1>1, <1>3, <2>1
  <2>3. /\ K[j].kind = "test" <=> j = 1 \/ K[j - 1].kind = "end"
        /\ K[j].kind = "requirement" => K[j].directive.name # "endtest"
        /\ K[j].kind = "end" => K[j].directive.name = "endtest"
    BY <1>1, <2>2 DEF Kinds
  <2>4. r[j] = IF K[j].kind = "requirement" THEN r[j - 1] + 1 ELSE 0
    BY <1>1, <2>2 DEF Counts
  <2>5. /\ Open[j] = (Open[k] => text[at[j]] # "endtest")
        /\ Requirements[j] = IF Open[j] /\ Open[k] THEN Requirements[k] + 1 ELSE 0
        /\ Open[0] = FALSE
    <3>1. /\ Open[j] = (Open[j - 1] => text[at[j]] # "endtest")
          /\ Requirements[j] = IF Open[j] /\ Open[j - 1] THEN Requirements[j - 1] + 1 ELSE 0
          /\ Open[0] = FALSE
      BY <1>1, <2>2, OpenIs
    <3> QED
      BY <2>2, <3>1
  <2>6. K[j].kind \in {"test", "requirement", "end"} /\ text[at[j]] = K[j].directive.name
    <3>1. K[j] \in AnyLine
      BY <1>1, <2>2, ElementOfSeq
    <3> QED
      BY <1>1, <2>2, <3>1 DEF AnyLine
  <2>7. k # 0 => (Open[k] <=> K[k].kind # "end") /\ Requirements[k] = r[k]
    BY <1>3
  <2>8. (Open[j] <=> K[j].kind # "end") /\ Requirements[j] = r[j]
    <3>1. CASE K[j].kind = "test"
      <4>1. Open[k] = FALSE \/ ~Open[k]
        BY <2>2, <2>3, <2>5, <2>7, <3>1
      <4> QED
        BY <2>4, <2>5, <3>1, <4>1
    <3>2. CASE K[j].kind # "test"
      <4>1. Open[k] /\ Requirements[k] = r[k]
        BY <2>2, <2>3, <2>7, <3>2
      <4> QED
        BY <2>2, <2>3, <2>4, <2>5, <2>6, <3>2, <4>1
    <3> QED
      BY <3>1, <3>2
  <2> QED
    BY <2>1, <2>2, <2>8
<1>4. \A k \in 0..n : k \in S
  <2> SUFFICES ASSUME NEW m \in 0..n PROVE m \in S
    OBVIOUS
  <2>1. \A k \in 0..m : k \in S /\ k # m => k + 1 \in S
    <3>1. \A k \in 0..m : k # m => k \in 0..n /\ k # n
      BY <1>1
    <3> HIDE DEF S
    <3> QED
      BY <1>3, <3>1
  <2>2. m \in Nat
    BY <1>1
  <2> HIDE DEF S
  <2> QED
    BY <1>2, <2>1, <2>2, Reached
<1>5. \A k \in 1..n : (Open[k] <=> K[k].kind # "end") /\ Requirements[k] = r[k]
  <2>1. \A k \in 1..n : k \in 0..n /\ k # 0
    BY <1>1
  <2> QED
    BY <1>4, <2>1
<1>6. Open[n] <=> ~Closed(K)
  <2>1. CASE n = 0
    <3>1. K = <<>>
      BY <1>1, <2>1, EmptySeq
    <3>2. Open[0] = FALSE
      BY <1>1, OpenIs
    <3> QED
      BY <2>1, <3>1, <3>2 DEF Closed
  <2>2. CASE n # 0
    <3>1. n \in 1..n /\ K # <<>>
      BY <1>1, <2>2
    <3> QED
      BY <1>5, <3>1 DEF Closed
  <2> QED
    BY <2>1, <2>2
<1> QED
  BY <1>5, <1>6
-----------------------------------------------------------------------------
(* The reference, by the positions of the directives.                      *)

Newlines(l, e) == \A i \in (l + 1)..e : text[i] = "newline"

LEMMA BlankIs ==
  ASSUME text \in Seq(Pieces), NEW l \in 0..Len(text), NEW e \in l..Len(text)
  PROVE  Blank(SubSeq(text, l + 1, e)) <=> Newlines(l, e)
<1> DEFINE b == SubSeq(text, l + 1, e)
<1>1. b \in Seq(Pieces) /\ Len(b) = e - l /\ \A i \in 1..(e - l) : b[i] = text[l + i]
  BY BodyIs
<1>2. DOMAIN b = 1..(e - l)
  BY <1>1, LenProperties
<1>3. l \in Nat /\ e \in Nat
  BY LenProperties
<1> HIDE DEF b
<1>4. Blank(b) <=> \A i \in 1..(e - l) : text[l + i] = "newline"
  BY <1>1, <1>2 DEF Blank, ToSet
<1>5. (\A i \in 1..(e - l) : text[l + i] = "newline") <=> Newlines(l, e)
  <2>1. ASSUME NEW i \in (l + 1)..e, \A j \in 1..(e - l) : text[l + j] = "newline"
        PROVE  text[i] = "newline"
    <3>1. i - l \in 1..(e - l) /\ l + (i - l) = i
      BY <1>3
    <3> QED
      BY <2>1, <3>1
  <2>2. ASSUME NEW i \in 1..(e - l), Newlines(l, e)
        PROVE  text[l + i] = "newline"
    <3>1. l + i \in (l + 1)..e
      BY <1>3
    <3> QED
      BY <2>2, <3>1 DEF Newlines
  <2> QED
    BY <2>1, <2>2 DEF Newlines
<1> QED
  BY <1>4, <1>5 DEF b

\* Where the k-th directive is, and where what belongs to it ends.
LEMMA EndIs ==
  ASSUME NEW at, text \in Seq(Pieces), Marked(text, at, Len(text)), NEW k \in 1..Len(at)
  PROVE  /\ Len(text) \in Nat /\ Len(at) \in Nat
         /\ at[k] \in 1..Len(text) /\ EndOf(at, k, Len(text)) \in at[k]..Len(text)
         /\ \A i \in (at[k] + 1)..EndOf(at, k, Len(text)) : text[i] \notin Directives
<1>1. Len(text) \in Nat /\ Len(at) \in Nat
  BY LenProperties DEF Marked
<1>2. at[k] \in 1..Len(text) /\ EndOf(at, k, Len(text)) \in Nat /\ EndOf(at, k, Len(text)) <= Len(text)
  BY <1>1, MarkedFacts
<1>3. k < Len(at) => k + 1 \in 1..Len(at) /\ k < k + 1
  BY <1>1
<1>4. k < Len(at) => at[k] < at[k + 1] /\ at[k + 1] \in 1..Len(text)
  BY <1>3 DEF Marked
<1>5. EndOf(at, k, Len(text)) >= at[k]
  <2>1. CASE k < Len(at)
    <3>1. EndOf(at, k, Len(text)) = at[k + 1] - 1
      BY <2>1 DEF EndOf
    <3> QED
      BY <1>2, <1>4, <2>1, <3>1
  <2>2. CASE ~(k < Len(at))
    <3>1. EndOf(at, k, Len(text)) = Len(text)
      BY <2>2 DEF EndOf
    <3> QED
      BY <1>1, <1>2, <3>1
  <2> QED
    BY <2>1, <2>2
<1>6. ASSUME NEW i \in (at[k] + 1)..EndOf(at, k, Len(text)), text[i] \in Directives
      PROVE  FALSE
  <2>1. i \in 1..Len(text) /\ i > at[k]
    BY <1>1, <1>2
  <2>2. PICK j \in 1..Len(at) : at[j] = i
    BY <1>6, <2>1 DEF Marked
  <2>3. j < k => at[j] < at[k]
    BY DEF Marked
  <2>4. j > k
    <3>1. j # k
      BY <1>2, <2>1, <2>2
    <3>2. ~(j < k)
      BY <1>2, <2>1, <2>2, <2>3
    <3> QED
      BY <1>1, <3>1, <3>2
  <2>5. k < Len(at)
    BY <1>1, <2>4
  <2>6. EndOf(at, k, Len(text)) = at[k + 1] - 1
    BY <2>5 DEF EndOf
  <2>7. at[k + 1] <= at[j]
    <3>1. k + 1 \in 1..Len(at) /\ (k + 1 < j => at[k + 1] < at[j])
      BY <1>3, <2>5 DEF Marked
    <3>2. CASE k + 1 = j
      <4>1. at[k + 1] = at[j] /\ at[j] \in Nat
        BY <2>1, <2>2, <3>2
      <4> QED
        BY <4>1
    <3>3. CASE k + 1 # j
      <4>1. k + 1 < j
        BY <1>1, <2>4, <3>3
      <4> QED
        BY <1>4, <2>1, <2>2, <2>5, <3>1, <4>1
    <3> QED
      BY <3>2, <3>3
  <2> QED
    BY <1>4, <2>1, <2>2, <2>5, <2>6, <2>7
<1> QED
  BY <1>1, <1>2, <1>5, <1>6

Placed(at, k) ==
  LET q == at[k]
      e == EndOf(at, k, Len(text))
  IN /\ IF e = q THEN k = Len(at) ELSE text[q + 1] = "newline"
     /\ ~Open[k - 1] => text[q] = "test" /\ e - q <= 1
     /\ Open[k - 1] /\ Open[k] => Requirements[k] <= MaxRequirements /\ e - q <= MaxContent
     /\ Open[k - 1] /\ ~Open[k] => Requirements[k - 1] > 0 /\ Newlines(q, e)

LEMMA AfterIs ==
  ASSUME NEW at, text \in Seq(Pieces), Marked(text, at, Len(text)), NEW k \in 1..Len(at)
  PROVE  /\ Len(After(k)) = EndOf(at, k, Len(text)) - at[k]
         /\ After(k) = <<>> <=> EndOf(at, k, Len(text)) = at[k]
         /\ After(k) # <<>> => Head(After(k)) = text[at[k] + 1]
         /\ Blank(After(k)) <=> Newlines(at[k], EndOf(at, k, Len(text)))
<1>1. /\ Cardinality(DirectivesAt) = Len(at) /\ \A j \in 1..Len(at) : Position(j) = at[j]
  BY PositionIs
<1>2. PICK q, e : q = at[k] /\ e = EndOf(at, k, Len(text))
  OBVIOUS
<1>3. /\ Len(text) \in Nat /\ Len(at) \in Nat /\ q \in 1..Len(text) /\ e \in q..Len(text)
  BY <1>2, EndIs
<1>4. After(k) = SubSeq(text, q + 1, e)
  <2>1. k # Len(at) => k < Len(at) /\ k + 1 \in 1..Len(at)
    BY <1>3
  <2>2. (IF k = Cardinality(DirectivesAt) THEN Len(text) ELSE Position(k + 1) - 1) = e
    BY <1>1, <1>2, <1>3, <2>1 DEF EndOf
  <2> QED
    BY <1>1, <1>2, <2>2 DEF After
<1>5. PICK b : b = After(k)
  OBVIOUS
<1>6. q \in 0..Len(text)
  BY <1>3
<1>7. b \in Seq(Pieces) /\ Len(b) = e - q /\ \A i \in 1..(e - q) : b[i] = text[q + i]
  BY <1>3, <1>4, <1>5, <1>6, BodyIs
<1>8. Blank(b) <=> Newlines(q, e)
  BY <1>3, <1>4, <1>5, <1>6, BlankIs
<1>9. b = <<>> <=> e = q
  <2>1. b = <<>> <=> Len(b) = 0
    BY <1>7, EmptySeq
  <2> QED
    BY <1>3, <1>7, <2>1
<1>10. b # <<>> => Head(b) = text[q + 1]
  <2>1. b # <<>> => 1 \in 1..(e - q)
    BY <1>3, <1>9
  <2>2. b # <<>> => Head(b) = b[1]
    BY <1>7
  <2> QED
    BY <1>7, <2>1, <2>2
<1> QED
  BY <1>2, <1>5, <1>7, <1>8, <1>9, <1>10

LEMMA PlacedIs ==
  ASSUME NEW at, text \in Seq(Pieces), Marked(text, at, Len(text)), NEW k \in 1..Len(at)
  PROVE  WellPlaced(k) <=> Placed(at, k)
<1>1. /\ Cardinality(DirectivesAt) = Len(at) /\ Position(k) = at[k]
  BY PositionIs
<1>2. PICK q, e, b : q = at[k] /\ e = EndOf(at, k, Len(text)) /\ b = After(k)
  OBVIOUS
<1>3. /\ Len(b) = e - q /\ (b = <<>> <=> e = q) /\ (b # <<>> => Head(b) = text[q + 1])
      /\ Blank(b) <=> Newlines(q, e)
  BY <1>2, AfterIs
<1>4. WellPlaced(k) <=>
        /\ IF b = <<>> THEN k = Len(at) ELSE Head(b) = "newline"
        /\ ~Open[k - 1] => text[q] = "test" /\ Len(b) <= 1
        /\ Open[k - 1] /\ Open[k] => Requirements[k] <= MaxRequirements /\ Len(b) <= MaxContent
        /\ Open[k - 1] /\ ~Open[k] => Requirements[k - 1] > 0 /\ Blank(b)
  BY <1>1, <1>2 DEF WellPlaced
<1>5. Placed(at, k) <=>
        /\ IF e = q THEN k = Len(at) ELSE text[q + 1] = "newline"
        /\ ~Open[k - 1] => text[q] = "test" /\ e - q <= 1
        /\ Open[k - 1] /\ Open[k] => Requirements[k] <= MaxRequirements /\ e - q <= MaxContent
        /\ Open[k - 1] /\ ~Open[k] => Requirements[k - 1] > 0 /\ Newlines(q, e)
  BY <1>2 DEF Placed
<1> QED
  BY <1>3, <1>4, <1>5, Zenon

\* Where the text before the first directive ends.
Lead(at) == IF Len(at) = 0 THEN Len(text) ELSE at[1] - 1

Formed(at) ==
  /\ \A k \in 1..Len(at) : Placed(at, k)
  /\ Newlines(0, Lead(at))
  /\ ended => ~Open[Len(at)] /\ (Len(at) > 0 => EndOf(at, Len(at), Len(text)) # at[Len(at)])

LEMMA FormedIs ==
  ASSUME NEW at, text \in Seq(Pieces), Marked(text, at, Len(text))
  PROVE  WellFormed <=> Formed(at)
<1>1. /\ Cardinality(DirectivesAt) = Len(at) /\ \A k \in 1..Len(at) : Position(k) = at[k]
  BY PositionIs
<1>2. Len(text) \in Nat /\ Len(at) \in Nat /\ (Len(at) # 0 => 1 \in 1..Len(at) /\ Len(at) \in 1..Len(at))
  BY LenProperties DEF Marked
<1>3. \A k \in 1..Len(at) : WellPlaced(k) <=> Placed(at, k)
  BY PlacedIs
<1>4. PICK m : m = Lead(at)
  OBVIOUS
<1>5. m = (IF Len(at) = 0 THEN Len(text) ELSE Position(1) - 1) /\ m \in 0..Len(text)
  <2>1. Len(at) # 0 => Position(1) = at[1] /\ at[1] \in 1..Len(text)
    BY <1>1, <1>2 DEF Marked
  <2> QED
    BY <1>2, <1>4, <2>1 DEF Lead
<1>6. Blank(SubSeq(text, 1, m)) <=> Newlines(0, m)
  <2>1. 0 \in 0..Len(text) /\ 0 + 1 = 1
    BY <1>2
  <2>2. Blank(SubSeq(text, 0 + 1, m)) <=> Newlines(0, m)
    BY <1>5, <2>1, BlankIs
  <2> QED
    BY <2>1, <2>2
<1>7. Len(at) > 0 => (After(Len(at)) # <<>> <=> EndOf(at, Len(at), Len(text)) # at[Len(at)])
  BY <1>2, AfterIs
<1>8. WellFormed <=>
        /\ \A k \in 1..Len(at) : WellPlaced(k)
        /\ Blank(SubSeq(text, 1, m))
        /\ ended => ~Open[Len(at)] /\ (Len(at) > 0 => After(Len(at)) # <<>>)
  BY <1>1, <1>5 DEF WellFormed
<1>9. Formed(at) <=>
        /\ \A k \in 1..Len(at) : Placed(at, k)
        /\ Newlines(0, m)
        /\ ended => ~Open[Len(at)] /\ (Len(at) > 0 => EndOf(at, Len(at), Len(text)) # at[Len(at)])
  BY <1>4 DEF Formed
<1> QED
  BY <1>3, <1>6, <1>7, <1>8, <1>9
-----------------------------------------------------------------------------
(* A text that is accepted is well formed.                                 *)

\* A line that is right, in a text without arguments.
LEMMA OneLine ==
  ASSUME NEW at, NEW k \in 1..Len(at), NEW line \in AnyLine, NEW q, NEW e,
         text \in Seq(Pieces), IsPlain(text), Marked(text, at, Len(text)),
         q = at[k], e = EndOf(at, k, Len(text)), IsRight(text, line, q, e)
  PROVE  /\ q \in Nat /\ e \in Nat /\ q < e
         /\ text[q] = line.directive.name /\ text[q + 1] = "newline"
         /\ line.kind = "test" => e = q + 1
         /\ line.kind = "end" => Newlines(q, e)
         /\ line.kind = "requirement" => e - q <= MaxContent
<1>1. /\ Len(text) \in Nat /\ q \in 1..Len(text) /\ e \in q..Len(text)
      /\ \A i \in (q + 1)..e : text[i] \notin Directives
  BY EndIs
<1>2. PICK l \in q..e :
        /\ IsWritten(text, line.directive, q, l)
        /\ line.kind = "test" => e = l
        /\ line.kind = "end" => \A j \in (l + 1)..e : text[j] = "newline"
        /\ line.kind = "requirement" => IsBody(text, line.directive.content, l, e) /\ e - l < MaxContent
  BY DEF IsRight
<1>3. /\ text[q] = line.directive.name /\ text[l] = "newline"
      /\ \A j \in q..(l - 1) : text[j] \notin {"newline", "char"}
  BY <1>2 DEF IsWritten, NotInLine
<1>4. text[q] \in Directives /\ "newline" \notin Directives
  BY ParserAssumption DEF Marked, Marks
<1>5. l # q
  BY <1>3, <1>4
<1>6. l = q + 1
  <2> SUFFICES ASSUME l # q + 1 PROVE FALSE
    OBVIOUS
  <2>1. q + 1 \in q..(l - 1) /\ q + 1 \in (q + 1)..e /\ q + 1 \in 1..Len(text)
    BY <1>1, <1>5
  <2>2. text[q + 1] \in ToSet(text)
    <3>1. DOMAIN text = 1..Len(text)
      BY LenProperties
    <3> QED
      BY <2>1, <3>1 DEF ToSet
  <2>3. text[q + 1] \in Directives \cup {"newline", "char"}
    BY <2>2 DEF IsPlain
  <2> QED
    BY <1>1, <1>3, <2>1, <2>3
<1>7. line.kind = "end" => Newlines(q, e)
  <2>1. \A i \in (q + 1)..e : i = l \/ i \in (l + 1)..e
    BY <1>1, <1>6
  <2> QED
    BY <1>2, <1>3, <2>1 DEF Newlines
<1>8. q \in Nat /\ e \in Nat /\ q < e /\ text[q + 1] = "newline" /\ l \in Nat
  BY <1>1, <1>3, <1>6
<1>9. line.kind = "requirement" => e - q <= MaxContent
  <2>1. MaxContent \in Nat
    BY ParserAssumption
  <2> QED
    BY <1>2, <1>6, <1>8, <2>1
<1> QED
  BY <1>2, <1>3, <1>6, <1>7, <1>8, <1>9

\* Every line that was parsed is in its place.
LEMMA LinesArePlaced ==
  ASSUME NEW at, NEW K, NEW r, NEW k \in 1..Len(K),
         text \in Seq(Pieces), IsPlain(text), Standing(at, K, r),
         Rights(text, K, at, Len(text))
  PROVE  Placed(at, k) /\ EndOf(at, k, Len(text)) # at[k]
<1>1. PICK q, e : q = at[k] /\ e = EndOf(at, k, Len(text))
  OBVIOUS
<1>2. /\ K \in Seq(AnyLine) /\ Len(K) \in Nat /\ Len(at) \in Nat /\ k \in 1..Len(at)
      /\ Kinds(K) /\ Counts(K, r) /\ Marked(text, at, Len(text))
  BY LenProperties DEF Standing, Marked
<1>3. PICK line : line = K[k]
  OBVIOUS
<1>4. line \in AnyLine /\ IsRight(text, line, q, e)
  BY <1>1, <1>2, <1>3, ElementOfSeq DEF Rights
<1>5. /\ q \in Nat /\ e \in Nat /\ q < e
      /\ text[q] = line.directive.name /\ text[q + 1] = "newline"
      /\ line.kind = "test" => e = q + 1
      /\ line.kind = "end" => Newlines(q, e)
      /\ line.kind = "requirement" => e - q <= MaxContent
  BY <1>1, <1>2, <1>4, OneLine
<1>6. line.kind \in {"test", "requirement", "end"}
  BY <1>4 DEF AnyLine
<1>7. /\ line.kind = "test" <=> k = 1 \/ K[k - 1].kind = "end"
      /\ line.kind = "test" => line.directive.name = "test"
  BY <1>2, <1>3 DEF Kinds
<1>8. r[k] <= MaxRequirements /\ (line.kind = "end" => r[k - 1] > 0)
  BY <1>2, <1>3 DEF Counts
<1>9. (Open[k] <=> line.kind # "end") /\ Requirements[k] = r[k]
  BY <1>3, StandingIs
<1>10. /\ k = 1 => ~Open[k - 1]
       /\ k # 1 => (Open[k - 1] <=> K[k - 1].kind # "end") /\ Requirements[k - 1] = r[k - 1]
  <2>1. k = 1 => k - 1 = 0 /\ Open[0] = FALSE
    <3>1. Open[0] = FALSE
      BY <1>2, OpenIs
    <3>2. k = 1 => k - 1 = 0
      OBVIOUS
    <3> QED
      BY <3>1, <3>2
  <2>2. k # 1 => k - 1 \in 1..Len(K)
    BY <1>2
  <2> QED
    BY <2>1, <2>2, StandingIs
<1>11. Open[k - 1] <=> line.kind # "test"
  BY <1>7, <1>10
<1>12. ~Open[k - 1] => text[q] = "test" /\ e - q <= 1
  BY <1>5, <1>7, <1>11
<1>13. Open[k - 1] /\ Open[k] => Requirements[k] <= MaxRequirements /\ e - q <= MaxContent
  BY <1>5, <1>6, <1>8, <1>9, <1>11
<1>14. Open[k - 1] /\ ~Open[k] => Requirements[k - 1] > 0 /\ Newlines(q, e)
  BY <1>5, <1>8, <1>9, <1>10
<1>15. e # q
  BY <1>5
<1> QED
  BY <1>1, <1>5, <1>12, <1>13, <1>14, <1>15 DEF Placed

\* What is before the first directive.
LEMMA LeadIs ==
  ASSUME NEW at, text \in Seq(Pieces), Marked(text, at, Len(text)), Led(text, Len(text))
  PROVE  Newlines(0, Lead(at))
<1>1. Len(text) \in Nat /\ Len(at) \in Nat /\ (Len(at) # 0 => 1 \in 1..Len(at))
  BY LenProperties DEF Marked
<1>2. \A k \in 1..Len(at) : at[k] \in 1..Len(text) /\ at[1] \in 1..Len(text) /\ at[1] <= at[k]
  <2> SUFFICES ASSUME NEW k \in 1..Len(at)
               PROVE  at[k] \in 1..Len(text) /\ at[1] \in 1..Len(text) /\ at[1] <= at[k]
    OBVIOUS
  <2>1. 1 \in 1..Len(at) /\ (k = 1 \/ 1 < k)
    BY <1>1
  <2>2. at[k] \in 1..Len(text) /\ at[1] \in 1..Len(text) /\ (1 < k => at[1] < at[k])
    BY <2>1 DEF Marked
  <2> QED
    BY <1>1, <2>1, <2>2
<1>3. ASSUME NEW i \in (0 + 1)..Lead(at)
      PROVE  text[i] = "newline"
  <2>1. i \in 1..Len(text) /\ (Len(at) # 0 => i < at[1])
    <3>1. CASE Len(at) = 0
      <4>1. Lead(at) = Len(text)
        BY <3>1 DEF Lead
      <4> QED
        BY <1>1, <3>1, <4>1
    <3>2. CASE Len(at) # 0
      <4>1. Lead(at) = at[1] - 1 /\ at[1] \in 1..Len(text)
        BY <1>1, <1>2, <3>2 DEF Lead
      <4> QED
        BY <1>1, <4>1
    <3> QED
      BY <3>1, <3>2
  <2>2. ASSUME NEW j \in 1..i, text[j] \in Directives PROVE FALSE
    <3>1. j \in 1..Len(text)
      BY <1>1, <2>1
    <3>2. PICK k \in 1..Len(at) : at[k] = j
      BY <2>2, <3>1 DEF Marked
    <3>3. Len(at) # 0 /\ at[1] <= j
      BY <1>1, <1>2, <3>2
    <3> QED
      BY <1>2, <2>1, <3>1, <3>2, <3>3
  <2> QED
    BY <2>1, <2>2 DEF Led
<1> QED
  BY <1>3 DEF Newlines

LEMMA DoneIsFormed ==
  ASSUME ParserInv, WrittenInv, GrammarInv, pc = "done", IsPlain(text)
  PROVE  WellFormed
<1>1. ended /\ tokens = <<>> /\ chars = <<>>
  BY DEF WrittenInv, HeldInv
<1>2. BuffersInv /\ text \in Seq(Pieces) /\ Known \in Seq(AnyLine) /\ ~OfTest
  <2>1. BuffersInv /\ Known \in Seq(AnyLine)
    BY TypesHold DEF WrittenInv
  <2> QED
    BY <2>1, OfTestWhere DEF BuffersInv
<1>3. Past = Len(text)
  BY <1>1, <1>2, PastFacts
<1>4. PICK at : Agrees(at)
  BY DEF WrittenInv
<1>5. PICK r : Grammar(r)
  BY DEF GrammarInv
<1>6. PICK K : K = Known
  OBVIOUS
<1>7. /\ Marked(text, at, Len(text)) /\ Len(at) = Len(K) /\ Rights(text, K, at, Len(text))
  <2>1. pc \notin Begun
    BY DEF Begun, Inside
  <2> QED
    BY <1>3, <1>4, <1>6, <2>1 DEF Agrees
<1>8. K \in Seq(AnyLine) /\ Kinds(K) /\ Counts(K, r) /\ Closed(K) /\ Len(K) \in Nat
  BY <1>2, <1>5, <1>6, LenProperties DEF Grammar
<1>9. Standing(at, K, r)
  <2>1. \A k \in 1..Len(K) : text[at[k]] = K[k].directive.name
    BY <1>7 DEF Rights, IsRight, IsWritten
  <2>2. Len(K) <= Len(at)
    BY <1>7, <1>8
  <2> QED
    BY <1>7, <1>8, <2>1, <2>2 DEF Standing
<1>10. \A k \in 1..Len(at) : Placed(at, k) /\ EndOf(at, k, Len(text)) # at[k]
  BY <1>2, <1>7, <1>9, LinesArePlaced
<1>11. ~Open[Len(at)]
  BY <1>2, <1>7, <1>8, <1>9, StandingIs
<1>12. Newlines(0, Lead(at))
  <2>1. Led(text, Len(text))
    BY <1>3 DEF GrammarInv
  <2> QED
    BY <1>2, <1>7, <2>1, LeadIs
<1>13. Len(at) > 0 => Len(at) \in 1..Len(at)
  BY <1>7, <1>8
<1>14. Formed(at)
  BY <1>10, <1>11, <1>12, <1>13 DEF Formed
<1> QED
  BY <1>2, <1>7, <1>14, FormedIs
-----------------------------------------------------------------------------
(* A text that is refused is not.                                          *)

LEMMA LastOpen ==
  ASSUME NEW at, NEW K, NEW r, text \in Seq(Pieces), Standing(at, K, r)
  PROVE  /\ Len(K) \in Nat /\ Len(at) \in Nat /\ Len(text) \in Nat /\ Len(K) <= Len(at)
         /\ Marked(text, at, Len(text))
         /\ Open[Len(K)] <=> ~Closed(K)
         /\ ~Closed(K) => Len(K) # 0 /\ Requirements[Len(K)] = r[Len(K)] /\ r[Len(K)] \in Nat
<1>1. /\ K \in Seq(AnyLine) /\ Len(K) \in Nat /\ Len(at) \in Nat /\ Len(text) \in Nat
      /\ Len(K) <= Len(at) /\ Marked(text, at, Len(text)) /\ r \in Seq(Nat) /\ Len(r) = Len(K)
  BY LenProperties DEF Standing, Marked, Counts
<1>2. Open[Len(K)] <=> ~Closed(K)
  BY StandingIs
<1>3. ~Closed(K) => Len(K) # 0
  BY <1>1, EmptySeq DEF Closed
<1>4. Len(K) # 0 => Len(K) \in 1..Len(K)
  BY <1>1
<1>5. Len(K) # 0 => Requirements[Len(K)] = r[Len(K)] /\ r[Len(K)] \in Nat
  <2>1. Len(K) # 0 => Requirements[Len(K)] = r[Len(K)]
    BY <1>4, StandingIs
  <2>2. Len(K) # 0 => r[Len(K)] \in Nat
    BY <1>1, <1>4, ElementOfSeq
  <2> QED
    BY <2>1, <2>2
<1> QED
  BY <1>1, <1>2, <1>3, <1>5

LEMMA EarlyIsNotFormed ==
  ASSUME NEW at, NEW K, NEW r, text \in Seq(Pieces), Standing(at, K, r), EndsEarly(at, K)
  PROVE  ~Formed(at)
<1> SUFFICES ASSUME Formed(at) PROVE FALSE
  OBVIOUS
<1>1. PICK n, m : n = Len(K) /\ m = Len(at)
  OBVIOUS
<1>2. /\ n \in Nat /\ m \in Nat /\ n <= m /\ Marked(text, at, Len(text))
      /\ Open[n] <=> ~Closed(K)
  BY <1>1, LastOpen
<1>3. ~Open[m] /\ (m > 0 => EndOf(at, m, Len(text)) # at[m])
  BY <1>1 DEF EndsEarly, Formed
<1>4. CASE m = n /\ ~Closed(K)
  BY <1>2, <1>3, <1>4
<1>5. CASE m = n + 1 /\ at[m] = Len(text)
  <2>1. EndOf(at, m, Len(text)) = Len(text)
    BY <1>1, <1>2 DEF EndOf
  <2>2. m > 0
    BY <1>2, <1>5
  <2> QED
    BY <1>3, <1>5, <2>1, <2>2
<1>6. CASE m = n + 1 /\ ~Closed(K) /\ text[at[m]] # "endtest"
  <2>1. m \in 1..Len(at) /\ m - 1 = n
    BY <1>1, <1>2, <1>6
  <2>2. Open[m] = (Open[n] => text[at[m]] # "endtest")
    BY <1>2, <2>1, OpenIs
  <2> QED
    BY <1>3, <1>6, <2>2
<1> QED
  BY <1>1, <1>4, <1>5, <1>6 DEF EndsEarly

LEMMA MisplacedIsNotFormed ==
  ASSUME NEW at, NEW K, NEW r, text \in Seq(Pieces), Standing(at, K, r), Misplaced(at, K)
  PROVE  ~Formed(at)
<1> SUFFICES ASSUME Formed(at) PROVE FALSE
  OBVIOUS
<1>1. PICK n : n = Len(K)
  OBVIOUS
<1>2. /\ n \in Nat /\ Len(text) \in Nat /\ Marked(text, at, Len(text))
      /\ Open[n] <=> ~Closed(K)
      /\ Len(at) = n
  BY <1>1, LastOpen DEF Misplaced
<1>3. PICK q, e : q = at[n] /\ e = EndOf(at, n, Len(text))
  OBVIOUS
<1>4. e = Len(text)
  BY <1>2, <1>3 DEF EndOf
<1>5. n # 0 => n \in 1..Len(at) /\ n \in 1..Len(K) /\ Placed(at, n)
  BY <1>1, <1>2 DEF Formed
<1>6. n # 0 => q \in 1..Len(text) /\ text[q] \in Directives
  BY <1>2, <1>3, <1>5 DEF Marked
<1>7. n # 0 =>
        /\ ~Open[n - 1] => e - q <= 1
        /\ Open[n - 1] /\ ~Open[n] => Newlines(q, e)
  BY <1>3, <1>5 DEF Placed
<1>8. n # 0 => Open[n] = (Open[n - 1] => text[q] # "endtest")
  BY <1>2, <1>3, <1>5, OpenIs
<1>9. CASE Closed(K) /\ Len(text) > 0 /\ text[Len(text)] \notin Directives \cup {"newline"}
  <2>1. CASE n = 0
    <3>1. Newlines(0, Len(text))
      BY <1>2, <2>1 DEF Formed, Lead
    <3>2. Len(text) \in (0 + 1)..Len(text)
      BY <1>2, <1>9
    <3> QED
      BY <1>9, <3>1, <3>2 DEF Newlines
  <2>2. CASE n # 0
    <3>1. ~Open[n] /\ Open[n - 1]
      BY <1>2, <1>8, <1>9, <2>2
    <3>2. Newlines(q, e)
      BY <1>7, <2>2, <3>1
    <3>3. q # Len(text)
      BY <1>6, <1>9, <2>2
    <3>4. e \in (q + 1)..e
      BY <1>2, <1>4, <1>6, <2>2, <3>3
    <3> QED
      BY <1>4, <1>9, <3>2, <3>4 DEF Newlines
  <2> QED
    BY <2>1, <2>2
<1>10. CASE K # <<>> /\ K[n].kind = "test" /\ Len(text) > at[n] + 1
  <2>1. n # 0
    <3>1. K \in Seq(AnyLine)
      BY DEF Standing
    <3> QED
      BY <1>1, <1>10, <3>1, EmptySeq
  <2>2. n = 1 \/ K[n - 1].kind = "end"
    BY <1>5, <1>10, <2>1 DEF Standing, Kinds
  <2>3. ~Open[n - 1]
    <3>1. CASE n = 1
      <4>1. n - 1 = 0 /\ ~Open[0]
        <5>1. ~Open[0]
          BY <1>2, OpenIs
        <5> QED
          BY <3>1, <5>1
      <4> QED
        BY <4>1
    <3>2. CASE n # 1
      <4>1. n - 1 \in 1..Len(K)
        BY <1>1, <1>2, <2>1, <3>2
      <4> QED
        BY <2>2, <3>2, <4>1, StandingIs
    <3> QED
      BY <3>1, <3>2
  <2>4. e - q <= 1
    BY <1>7, <2>1, <2>3
  <2> QED
    BY <1>2, <1>3, <1>4, <1>6, <1>10, <2>1, <2>4
<1> QED
  BY <1>1, <1>2, <1>9, <1>10 DEF Misplaced

LEMMA WrongIsNotFormed ==
  ASSUME NEW at, NEW K, NEW r, text \in Seq(Pieces), Standing(at, K, r), WrongNext(at, K, r)
  PROVE  ~Formed(at)
<1> SUFFICES ASSUME Formed(at) PROVE FALSE
  OBVIOUS
<1>1. PICK n, k, q, e : n = Len(K) /\ k = n + 1 /\ q = at[k] /\ e = EndOf(at, k, Len(text))
  OBVIOUS
<1>2. /\ n \in Nat /\ Len(at) \in Nat /\ Len(text) \in Nat /\ Marked(text, at, Len(text))
      /\ Open[n] <=> ~Closed(K)
      /\ ~Closed(K) => Requirements[n] = r[n] /\ r[n] \in Nat
  BY <1>1, LastOpen
<1>3. /\ k <= Len(at)
      /\ \/ q < Len(text) /\ text[q + 1] # "newline"
         \/ Closed(K) /\ text[q] # "test"
         \/ ~Closed(K) /\ text[q] = "endtest" /\ r[n] = 0
         \/ ~Closed(K) /\ text[q] # "endtest" /\ (r[n] = MaxRequirements \/ e - q > MaxContent)
  BY <1>1 DEF WrongNext
<1>4. k \in 1..Len(at) /\ k - 1 = n
  BY <1>1, <1>2, <1>3
<1>5. q \in 1..Len(text) /\ e \in q..Len(text)
  BY <1>1, <1>2, <1>4, EndIs
<1>6. Placed(at, k)
  BY <1>4 DEF Formed
<1>7. /\ IF e = q THEN k = Len(at) ELSE text[q + 1] = "newline"
      /\ ~Open[n] => text[q] = "test" /\ e - q <= 1
      /\ Open[n] /\ Open[k] => Requirements[k] <= MaxRequirements /\ e - q <= MaxContent
      /\ Open[n] /\ ~Open[k] => Requirements[n] > 0 /\ Newlines(q, e)
  BY <1>1, <1>4, <1>6 DEF Placed
<1>8. /\ Open[k] = (Open[n] => text[q] # "endtest")
      /\ Requirements[k] = IF Open[k] /\ Open[n] THEN Requirements[n] + 1 ELSE 0
  <2>1. /\ Open[k] = (Open[k - 1] => text[at[k]] # "endtest")
        /\ Requirements[k] = IF Open[k] /\ Open[k - 1] THEN Requirements[k - 1] + 1 ELSE 0
    BY <1>2, <1>4, OpenIs
  <2> QED
    BY <1>1, <1>4, <2>1
<1>9. CASE q < Len(text) /\ text[q + 1] # "newline"
  <2>1. e = q /\ k = Len(at)
    BY <1>7, <1>9
  <2>2. e = Len(text)
    BY <1>1, <1>2, <2>1 DEF EndOf
  <2> QED
    BY <1>5, <1>9, <2>1, <2>2
<1>10. CASE Closed(K) /\ text[q] # "test"
  BY <1>2, <1>7, <1>10
<1>11. CASE ~Closed(K) /\ text[q] = "endtest" /\ r[n] = 0
  <2>1. Open[n] /\ ~Open[k]
    BY <1>2, <1>8, <1>11
  <2>2. Requirements[n] > 0 /\ Requirements[n] = 0
    BY <1>2, <1>7, <1>11, <2>1
  <2> QED
    BY <2>2
<1>12. CASE ~Closed(K) /\ text[q] # "endtest" /\ (r[n] = MaxRequirements \/ e - q > MaxContent)
  <2>1. Open[n] /\ Open[k]
    BY <1>2, <1>8, <1>12
  <2>2. Requirements[k] <= MaxRequirements /\ e - q <= MaxContent
    BY <1>7, <2>1
  <2>3. Requirements[k] = r[n] + 1 /\ r[n] \in Nat
    BY <1>2, <1>8, <1>12, <2>1
  <2>4. MaxRequirements \in Nat /\ MaxContent \in Nat
    BY ParserAssumption
  <2> QED
    BY <1>5, <1>12, <2>2, <2>3, <2>4
<1> QED
  BY <1>3, <1>9, <1>10, <1>11, <1>12

LEMMA RefusedIsNotFormed ==
  ASSUME ParserInv, FatalInv, pc = "fatal", IsPlain(text)
  PROVE  ~WellFormed
<1>1. text \in Seq(Pieces)
  BY DEF ParserInv, BuffersInv
<1>2. PICK at, K, r : Standing(at, K, r) /\ Refused(at, K, r)
  BY DEF FatalInv
<1>3. ~Formed(at)
  BY <1>1, <1>2, EarlyIsNotFormed, MisplacedIsNotFormed, WrongIsNotFormed DEF Refused
<1>4. Marked(text, at, Len(text))
  BY <1>2 DEF Standing
<1> QED
  BY <1>1, <1>3, <1>4, FormedIs

\* A text without arguments is accepted exactly when it is tests line by line,
\* blank lines between them: parse_test_suite takes no other, and refuses none.
THEOREM Accepts == Spec => []AcceptsTests
<1> DEFINE Ends == /\ pc # "fatal" => WrittenInv /\ GrammarInv
                   /\ FatalInv
           Inv == ParserInv /\ Ends
<1>1. Init => Inv
  <2>1. Init => FatalInv
    BY DEF Init, FatalInv
  <2> QED
    BY <2>1, InitParserInv, InitWrites, InitParses
<1>2. ParserInv /\ ParserInv' /\ Ends /\ [Next]_vars => Ends'
  <2> SUFFICES ASSUME ParserInv, ParserInv', Ends, [Next]_vars
               PROVE  Ends'
    OBVIOUS
  <2>1. CASE Next
    <3>1. pc # "fatal"
      BY <2>1 DEF Next, Suite, SkipNewline, EndNewlines, DirectiveName, DirectiveNamed,
                  OpenArguments, SkipSpace, EndSpaces, Argument, Equals, ArgumentValue,
                  Separator, LineEnd, RequirementList, Content, Text, TextTooLong
    <3>2. WrittenInv /\ GrammarInv
      BY <3>1
    <3>3. pc' # "fatal" => WrittenInv'
      BY <2>1, <3>1, <3>2, NextWrites
    <3>4. pc' # "fatal" => GrammarInv'
      BY <2>1, <3>1, <3>2, NextParses
    <3>5. FatalInv'
      BY <2>1, <3>1, <3>2, NextRefuses
    <3> QED
      BY <3>3, <3>4, <3>5
  <2>2. CASE UNCHANGED vars
    <3>1. pc' = pc
      BY <2>2 DEF vars, parserVars
    <3>2. pc' # "fatal" => WrittenInv'
      BY <2>2, <3>1, NothingWrites
    <3>3. pc' # "fatal" => GrammarInv'
      BY <2>2, <3>1, NothingParses
    <3>4. FatalInv'
      BY <2>2, NothingRefuses
    <3> QED
      BY <3>2, <3>3, <3>4
  <2> QED
    BY <2>1, <2>2
<1>3. Inv => AcceptsTests
  <2> SUFFICES ASSUME Inv, IsPlain(text)
               PROVE  /\ pc = "done" => WellFormed
                      /\ pc = "fatal" => ~WellFormed
    BY DEF AcceptsTests
  <2>1. ASSUME pc = "done" PROVE WellFormed
    <3>1. pc # "fatal"
      BY <2>1
    <3> QED
      BY <2>1, <3>1, DoneIsFormed
  <2>2. ASSUME pc = "fatal" PROVE ~WellFormed
    BY <2>2, RefusedIsNotFormed
  <2> QED
    BY <2>1, <2>2
<1> HIDE DEF Ends
<1> QED
  BY <1>1, <1>2, <1>3, ParserInvariant, PTL DEF Spec
=============================================================================
