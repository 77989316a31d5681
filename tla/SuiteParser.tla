---------------------------- MODULE SuiteParser ----------------------------
(***************************************************************************)
(* The tokenizer and the parser (tokenizer.c, parse.c): the text of a test *)
(* file becomes a list of tests.                                           *)
(*                                                                         *)
(* The same text is read in two ways.  In the arguments of a directive it  *)
(* is punctuation, names and strings; in the content of a requirement it   *)
(* is characters, and only a directive stands out.  The parser switches    *)
(* the tokenizer's mode, while tokens and characters that were looked at   *)
(* too early wait in two buffers to be read again.                         *)
(*                                                                         *)
(* The text is a sequence of pieces: a directive (its name), a newline, a  *)
(* string, a name, whitespace, another character, or the punctuation.  A   *)
(* piece read as text stands for its characters, in which no directive     *)
(* stands.  The text is not fixed beforehand: whatever the parser reads    *)
(* next is chosen when it reads it.                                        *)
(***************************************************************************)
EXTENDS Integers, Sequences, FiniteSets, SequencesExt

CONSTANTS
  Directives,  \* names of directives, "test" and "endtest" among them
  Others,      \* the pieces that are not directives
  MaxText,     \* bound: pieces in a text
  MaxPlain,    \* bound: the same for a text without arguments or spaces
  MaxContent,  \* MAX_REQUIREMENT_CONTENT_SIZE, in pieces
  MaxRequirements   \* MAX_REQUIREMENT_COUNT

Marks == {"newline", "(", ")", ",", "=", "string", "name", "space", "char"}

ASSUME ParserAssumption ==
  /\ {"test", "endtest"} \subseteq Directives
  /\ "newline" \in Others /\ Others \subseteq Marks
  /\ Directives \cap Marks = {} /\ "EOF" \notin Directives
  /\ MaxText \in Nat /\ MaxPlain \in Nat /\ MaxContent \in Nat \ {0} /\ MaxRequirements \in Nat

BufferSize == 4   \* MAX_TOKEN_BUFFER_SIZE, MAX_CHAR_BUFFER_SIZE

VARIABLES
  text,     \* history: the text that was read from the file
  ended,    \* the end of the file was read
  chars,    \* char_buffer
  tokens,   \* token_buffer
  mode,     \* "none" or "text" (TOKENIZER_MODE_DIRECTIVE_AND_TEXT)
  oldmode,  \* the mode that parse_directive or parse_requirement will restore
  pc,       \* where the parser is
  for,      \* what the directive is parsed for: a test, its end, a requirement
  current,  \* the directive being parsed: name and arguments
  test,     \* the test being parsed: its arguments and its requirements
  content,  \* the content of the requirement being parsed
  suite     \* the tests parsed

parserVars == <<pc, for, current, test, content, suite>>
vars == <<text, ended, chars, tokens, mode, oldmode, parserVars>>

Pieces == Directives \cup Others
NoDirective == [name |-> "none", arguments |-> <<>>]
NewTest == [arguments |-> <<>>, requirements |-> <<>>]

Init ==
  /\ text = <<>> /\ ended = FALSE
  /\ chars = <<>> /\ tokens = <<>>
  /\ mode = "none" /\ oldmode = "none"
  /\ pc = "suite" /\ for = "none"
  /\ current = NoDirective
  /\ test = NewTest /\ content = <<>> /\ suite = <<>>
-----------------------------------------------------------------------------
(* The tokenizer.                                                          *)

\* A name that follows a name or a directive would be the rest of it.
Continues(p) == p = "name" /\ text # <<>> /\ Last(text) \in Directives \cup {"name"}

\* A text of directives and requirement contents, and nothing else.
IsPlain(s) == ToSet(s) \subseteq Directives \cup {"newline", "char"}

Bound(s) == IF IsPlain(s) THEN MaxPlain ELSE MaxText

\* fgetc, the end of the file included.
FromFile(p) ==
  \/ p = "EOF" /\ text' = text /\ ended' = TRUE
  \/ /\ p # "EOF" /\ ~ended /\ ~Continues(p)
     /\ text' = Append(text, p) /\ Len(text') <= Bound(text') /\ ended' = ended

\* get_one_char: piece p is read, from the buffer or from the file.
GetChar(p) ==
  IF chars # <<>>
  THEN p = Last(chars) /\ chars' = Front(chars) /\ UNCHANGED <<text, ended>>
  ELSE FromFile(p) /\ chars' = chars

\* peek_one_char: p is put back, unless it is EOF.
PeekChar(p) ==
  IF chars # <<>>
  THEN p = Last(chars) /\ UNCHANGED <<text, ended, chars>>
  ELSE FromFile(p) /\ chars' = IF p = "EOF" THEN chars ELSE Append(chars, p)

\* The token that piece p is in mode m.
Token(p, m) ==
  [piece |-> p,
   kind  |-> IF p \in Directives THEN "directive"
             ELSE IF p = "EOF" THEN "EOF"
             ELSE IF m = "text" \/ p \in {"space", "char"} THEN "character"
             ELSE IF p \in {"newline", "string", "name"} THEN p
             ELSE "punctuator"]

\* get_one_token
Get(t) ==
  IF tokens # <<>>
  THEN t = Last(tokens) /\ tokens' = Front(tokens) /\ UNCHANGED <<text, ended, chars>>
  ELSE GetChar(t.piece) /\ t = Token(t.piece, mode) /\ tokens' = tokens

\* peek_one_token: EOF is not put back.
Peek(t) ==
  IF tokens # <<>> THEN t = Last(tokens) /\ UNCHANGED <<text, ended, chars, tokens>>
  ELSE /\ GetChar(t.piece) /\ t = Token(t.piece, mode)
       /\ tokens' = IF t.kind = "EOF" THEN tokens ELSE Append(tokens, t)

AnyToken == {Token(p, m) : p \in Pieces \cup {"EOF"}, m \in {"none", "text"}}

Fatal == pc' = "fatal" /\ UNCHANGED <<for, current, test, content, suite>>
-----------------------------------------------------------------------------
(* parse_test_suite                                                        *)

\* A directive is to be parsed next.
Directive(purpose) == pc' = "directive" /\ for' = purpose

Suite ==
  /\ pc = "suite"
  /\ \E t \in AnyToken :
       /\ Peek(t)
       /\ \/ t.kind = "EOF" /\ pc' = "done" /\ for' = for
          \/ t.kind = "newline" /\ pc' = "newlines" /\ for' = for
          \/ t.kind \notin {"EOF", "newline"} /\ Directive("test")
  /\ UNCHANGED <<mode, oldmode, current, test, content, suite>>

LookOnly(t) == Peek(t)   \* mutant: a newline is looked at and not taken

\* Newlines between tests are skipped; what follows is put back.
Skip(t) == Get(t)

SkipNewline ==
  /\ pc = "newlines"
  /\ \E t \in AnyToken : Skip(t) /\ t.kind = "newline"
  /\ UNCHANGED <<mode, oldmode, parserVars>>

EndNewlines ==
  /\ pc = "newlines"
  /\ \E t \in AnyToken : Peek(t) /\ t.kind # "newline"
  /\ pc' = "suite"
  /\ UNCHANGED <<mode, oldmode, for, current, test, content, suite>>
-----------------------------------------------------------------------------
(* parse_directive                                                         *)

DirectiveName ==
  /\ pc = "directive"
  /\ \E t \in AnyToken :
       /\ Get(t)
       /\ IF t.kind = "directive"
          THEN /\ current' = [name |-> t.piece, arguments |-> <<>>]
               /\ pc' = "named"
               /\ oldmode' = mode /\ mode' = "none"
               /\ UNCHANGED <<for, test, content, suite>>
          ELSE Fatal /\ UNCHANGED <<mode, oldmode>>

\* peek_one_char: a parenthesis starts the arguments.
DirectiveNamed ==
  /\ pc = "named"
  /\ \E p \in Pieces \cup {"EOF"} :
       PeekChar(p) /\ pc' = IF p = "(" THEN "open" ELSE "line end"
  /\ UNCHANGED <<tokens, mode, oldmode, for, current, test, content, suite>>

OpenArguments ==
  /\ pc = "open"
  /\ \E t \in AnyToken : Get(t)
  /\ pc' = "arguments"
  /\ UNCHANGED <<mode, oldmode, for, current, test, content, suite>>

\* skip_whitespaces
SkipSpace ==
  /\ pc = "arguments"
  /\ \E p \in Pieces : GetChar(p) /\ p = "space"
  /\ UNCHANGED <<tokens, mode, oldmode, parserVars>>

EndSpaces ==
  /\ pc = "arguments"
  /\ \E p \in Pieces \cup {"EOF"} : p # "space" /\ PeekChar(p)
  /\ pc' = "argument"
  /\ UNCHANGED <<tokens, mode, oldmode, for, current, test, content, suite>>

HasUnnamed == \E i \in DOMAIN current.arguments : current.arguments[i] = "unnamed"

AddArgument(kind) ==
  /\ current' = [current EXCEPT !.arguments = Append(@, kind)]
  /\ pc' = "separator"
  /\ UNCHANGED <<for, test, content, suite>>

To(l) == pc' = l /\ UNCHANGED <<for, current, test, content, suite>>

Argument ==
  /\ pc = "argument"
  /\ \E t \in AnyToken :
       /\ Get(t)
       /\ \/ t.kind = "punctuator" /\ t.piece = ")" /\ To("line end")
          \/ t.kind = "string" /\ ~HasUnnamed /\ AddArgument("unnamed")
          \/ t.kind = "name" /\ To("equals")
          \/ /\ ~(t.kind = "punctuator" /\ t.piece = ")") /\ t.kind # "name"
             /\ t.kind = "string" => HasUnnamed
             /\ Fatal
  /\ UNCHANGED <<mode, oldmode>>

\* parse_named_directive_argument
Equals ==
  /\ pc = "equals"
  /\ \E t \in AnyToken :
       /\ Get(t)
       /\ IF t.kind = "punctuator" /\ t.piece = "=" THEN To("value") ELSE Fatal
  /\ UNCHANGED <<mode, oldmode>>

ArgumentValue ==
  /\ pc = "value"
  /\ \E t \in AnyToken :
       /\ Get(t)
       /\ IF t.kind = "string" THEN AddArgument("named") ELSE Fatal
  /\ UNCHANGED <<mode, oldmode>>

Separator ==
  /\ pc = "separator"
  /\ \E t \in AnyToken :
       /\ Get(t)
       /\ IF t.kind = "punctuator" /\ t.piece = "," THEN To("arguments")
          ELSE IF t.kind = "punctuator" /\ t.piece = ")" THEN To("line end")
          ELSE Fatal
  /\ UNCHANGED <<mode, oldmode>>

ModeKept == mode   \* mutant: parse_test does not switch the mode

ModeOfTest == "text"

StartTest ==
  /\ for = "test"
  /\ IF current.name = "test"
     THEN /\ test' = [test EXCEPT !.arguments = current.arguments]
          /\ pc' = "requirements"
          /\ UNCHANGED <<for, current, content, suite>>
     ELSE Fatal
  /\ mode' = ModeOfTest

StartContent ==
  /\ for = "requirement"
  /\ To("content")
  /\ mode' = oldmode

EndTest ==
  /\ for = "end of test"
  /\ IF current.arguments = <<>>
     THEN /\ suite' = Append(suite, test)
          /\ test' = NewTest
          /\ pc' = "suite"
          /\ UNCHANGED <<for, current, content>>
     ELSE Fatal
  /\ mode' = oldmode

\* A newline ends the directive; its mode is left for that of its caller.
LineEnd ==
  /\ pc = "line end"
  /\ \E t \in AnyToken :
       /\ Get(t)
       /\ IF t.kind = "newline" THEN StartTest \/ StartContent \/ EndTest
          ELSE Fatal /\ mode' = mode
  /\ UNCHANGED oldmode
-----------------------------------------------------------------------------
(* parse_requirement_list, parse_requirement                               *)

IsEnd(t) == t.kind = "directive" /\ t.piece = "endtest"

OneTooMany == Len(test.requirements) > MaxRequirements   \* mutant: > for >=

\* loop_control >= MAX_REQUIREMENT_COUNT
Full == Len(test.requirements) >= MaxRequirements

ModeLeft == mode   \* mutant: parse_test does not reset the mode

ModeAfterRequirements == "none"

\* A test has at least one requirement, and at most MaxRequirements.
RequirementList ==
  /\ pc = "requirements"
  /\ \E t \in AnyToken :
       /\ Peek(t)
       /\ \/ /\ IsEnd(t) /\ test.requirements # <<>>
             /\ Directive("end of test") /\ mode' = ModeAfterRequirements
          \/ ~IsEnd(t) /\ ~Full /\ Directive("requirement") /\ mode' = mode
          \/ /\ IF IsEnd(t) THEN test.requirements = <<>> ELSE Full
             /\ pc' = "fatal" /\ for' = for /\ mode' = mode
  /\ UNCHANGED <<oldmode, current, test, content, suite>>

AddRequirement(c) ==
  /\ test' = [test EXCEPT !.requirements = Append(@,
                [name |-> current.name, arguments |-> current.arguments, content |-> c])]
  /\ pc' = "requirements"
  /\ content' = <<>>
  /\ UNCHANGED <<for, current, suite>>

NoContent == <<"NULL">>

\* Another directive follows at once: there is no content.
Content ==
  /\ pc = "content"
  /\ \E t \in AnyToken :
       /\ Peek(t)
       /\ IF t.kind = "directive"
          THEN AddRequirement(NoContent) /\ UNCHANGED <<mode, oldmode>>
          ELSE To("text") /\ oldmode' = mode /\ mode' = "text"

AlwaysDropped(c) == Front(c)   \* mutant: the last character is dropped unseen

\* The newline before the next directive is not part of the content.
Trimmed(c) == IF Last(c) = "newline" THEN Front(c) ELSE c

\* Characters up to the next directive, which is put back.
Text ==
  /\ pc = "text"
  /\ Len(content) < MaxContent
  /\ \E t \in AnyToken :
       \/ /\ Get(t) /\ t.kind \notin {"EOF", "directive"}
          /\ content' = Append(content, t.piece)
          /\ UNCHANGED <<pc, for, current, test, suite, mode>>
       \/ /\ Peek(t) /\ t.kind = "directive"
          /\ AddRequirement(Trimmed(content)) /\ mode' = oldmode
       \/ /\ Get(t) /\ t.kind = "EOF"
          /\ Fatal /\ mode' = mode
  /\ UNCHANGED oldmode

TextTooLong ==
  /\ pc = "text"
  /\ Len(content) = MaxContent
  /\ Fatal
  /\ UNCHANGED <<text, ended, chars, tokens, mode, oldmode>>

Next ==
  \/ Suite \/ SkipNewline \/ EndNewlines
  \/ DirectiveName \/ DirectiveNamed \/ OpenArguments \/ SkipSpace \/ EndSpaces
  \/ Argument \/ Equals \/ ArgumentValue \/ Separator \/ LineEnd
  \/ RequirementList \/ Content \/ Text \/ TextTooLong

Spec == Init /\ [][Next]_vars

\* A loop of a running program goes on.
FairSpec == Spec /\ WF_vars(Next)
-----------------------------------------------------------------------------
Points == {"suite", "newlines", "directive", "named", "open", "arguments", "argument",
           "equals", "value", "separator", "line end", "requirements", "content",
           "text", "done", "fatal"}

Arguments == Seq({"named", "unnamed"})

Tests ==
  [arguments : Arguments,
   requirements : Seq([name : Directives, arguments : Arguments,
                       content : Seq(Pieces) \cup {NoContent}])]

\* Every variable keeps its type.  The two buffers never overflow, and a test
\* never has more requirements than it may.
TypeOK ==
  /\ text \in Seq(Pieces) /\ ended \in BOOLEAN
  /\ chars \in Seq(Pieces) /\ Len(chars) <= BufferSize
  /\ tokens \in Seq(AnyToken) /\ Len(tokens) <= BufferSize
  /\ mode \in {"none", "text"} /\ oldmode \in {"none", "text"}
  /\ pc \in Points /\ for \in {"none", "test", "requirement", "end of test"}
  /\ current.name \in Directives \cup {"none"}
  /\ test \in Tests /\ Len(test.requirements) <= MaxRequirements
  /\ content \in Seq(Others) /\ Len(content) <= MaxContent
  /\ suite \in Seq(Tests)

\* What waits in the buffers is what would be read now: no token outlives the
\* mode it was read in, and peek_one_char and skip_whitespaces, which do not see
\* the tokens, never read past one.
LookaheadIsCurrent ==
  pc # "fatal" =>
    /\ \A i \in DOMAIN tokens : tokens[i] = Token(tokens[i].piece, mode)
    /\ pc \in {"named", "open", "arguments"} => tokens = <<>>
    /\ chars = <<>> \/ tokens = <<>>

\* The reference: the k-th directive of the text, with the strings on its line
\* and the text between its line and the next directive.
DirectivesAt == {i \in DOMAIN text : text[i] \in Directives}

Position(k) == CHOOSE i \in DirectivesAt : Cardinality({j \in DirectivesAt : j <= i}) = k

Written(k) ==
  LET first == Position(k)
      last  == IF k = Cardinality(DirectivesAt) THEN Len(text) ELSE Position(k + 1) - 1
      line  == CHOOSE i \in first..last :
                 /\ text[i] = "newline"
                 /\ \A j \in first..(i - 1) : text[j] # "newline"
  IN [name    |-> text[first],
      strings |-> Cardinality({i \in first..line : text[i] = "string"}),
      body    |-> SubSeq(text, line + 1, last)]

\* The directives of a suite, as they were parsed.
Line(kind, d) == [kind |-> kind, directive |-> d]
Bare(name, args) == [name |-> name, arguments |-> args, content |-> NoContent]

Lines(t) ==
  <<Line("test", Bare("test", t.arguments))>>
    \o [i \in DOMAIN t.requirements |-> Line("requirement", t.requirements[i])]
    \o <<Line("end", Bare("endtest", <<>>))>>

Parsed == FlattenSeq([i \in DOMAIN suite |-> Lines(suite[i])])

\* A suite that is accepted is the text, all of it: every directive is there,
\* in its place, with its arguments, and the content of a requirement is what
\* stands between its line and the next directive, to the last character but
\* the newline before that directive.
ParsedAsWritten ==
  pc = "done" =>
    /\ ended /\ tokens = <<>> /\ chars = <<>>
    /\ Len(Parsed) = Cardinality(DirectivesAt)
    /\ \A k \in DOMAIN Parsed :
         LET w == Written(k)
             d == Parsed[k].directive
         IN /\ d.name = w.name /\ Len(d.arguments) = w.strings
            /\ Parsed[k].kind = "test" => w.body = <<>>
            /\ Parsed[k].kind = "end" => ToSet(w.body) \subseteq {"newline"}
            /\ Parsed[k].kind = "requirement" =>
                 IF w.body = <<>> THEN d.content = NoContent
                 ELSE w.body = IF Last(w.body) = "newline"
                               THEN Append(d.content, "newline") ELSE d.content

\* After the k-th directive, a test is open; it has so many requirements.
Open == LET o[k \in 0..Cardinality(DirectivesAt)] ==
              k > 0 /\ (o[k - 1] => text[Position(k)] # "endtest")
        IN o

Requirements == LET n[k \in 0..Cardinality(DirectivesAt)] ==
                      IF k > 0 /\ Open[k] /\ Open[k - 1] THEN n[k - 1] + 1 ELSE 0
                IN n

After(k) ==
  SubSeq(text, Position(k) + 1,
         IF k = Cardinality(DirectivesAt) THEN Len(text) ELSE Position(k + 1) - 1)

Blank(s) == ToSet(s) \subseteq {"newline"}

\* The k-th directive stands where it may, on its own line, and what follows it
\* up to the next is what may.
WellPlaced(k) ==
  /\ IF After(k) = <<>> THEN k = Cardinality(DirectivesAt) ELSE Head(After(k)) = "newline"
  /\ ~Open[k - 1] => text[Position(k)] = "test" /\ Len(After(k)) <= 1
  /\ Open[k - 1] /\ Open[k] => Requirements[k] <= MaxRequirements /\ Len(After(k)) <= MaxContent
  /\ Open[k - 1] /\ ~Open[k] => Requirements[k - 1] > 0 /\ Blank(After(k))

WellFormed ==
  LET n == Cardinality(DirectivesAt)
  IN /\ \A k \in 1..n : WellPlaced(k)
     /\ Blank(SubSeq(text, 1, IF n = 0 THEN Len(text) ELSE Position(1) - 1))
     /\ ended => ~Open[n] /\ (n > 0 => After(n) # <<>>)

\* The parser accepts the language: of texts without arguments, the ones that
\* are tests line by line, blank lines between them, and no other.
AcceptsTests ==
  pc \in {"done", "fatal"} /\ IsPlain(text) => (pc = "done" <=> WellFormed)

\* Whatever the text, the parser comes to its end or to a fatal error.
Terminates == <>(pc \in {"done", "fatal"})
=============================================================================
