-------------------------- MODULE MCSuiteCompiler --------------------------
(* Tests of up to four requirements (MAX_REQUIREMENT_COUNT), for TLC.      *)
EXTENDS SuiteStore

MCTexts == {"", "none", "file", "reference", "stdin", "stdout", "stderr",
            "prog", "name", "a/b", "{{file}}", "text", "other text"}
MCSlashed  == {"a/b"}
MCWithFile == {"{{file}}"}

A(name, value) == [name |-> name, value |-> value]
R(name, arguments, content) == [name |-> name, arguments |-> arguments, content |-> content]

Givens ==
  {R("given", <<A(Unnamed, "none")>>, NULL),
   R("given", <<A(Unnamed, "file")>>, "text"),
   R("given", <<A("filename", "name"), A("type", "file")>>, NULL),
   R("given", <<A(Unnamed, "file"), A("filename", "a/b")>>, "text"),
   R("given", <<A(Unnamed, "stdin")>>, "other text"),
   R("given", <<A(Unnamed, "stdin"), A("type", "file")>>, "text"),
   R("given", <<A("type", "reference"), A("path", "a/b")>>, NULL),
   R("given", <<A(Unnamed, "reference"), A("path", "")>>, NULL)}

WhenRuns ==
  {R("whenRun", <<A(Unnamed, "prog")>>, NULL),
   R("whenRun", <<A("program", "prog"), A("args", "{{file}}")>>, NULL),
   R("whenRun", <<A("args", "text"), A(Unnamed, "prog")>>, NULL),
   R("whenRun", <<A(Unnamed, ""), A("args", "text")>>, NULL)}

Expects ==
  {R("expectOutput", <<A(Unnamed, "stdout")>>, "text"),
   R("expectOutput", <<A(Unnamed, "stdout")>>, NULL),
   R("expectOutput", <<A("stream", "stdout")>>, "other text"),
   R("expectOutput", <<A(Unnamed, "stderr")>>, "text"),
   R("expectOutput", <<>>, "text")}

Others == {R("shouldBeSkipped", <<>>, NULL), R("other", <<>>, NULL)}

Named == {<<A(Unnamed, "name")>>, <<A("name", "name")>>}
Misnamed == {<<>>, <<A(Unnamed, "name"), A("name", "name")>>, <<A("other", "name")>>}

Lists == UNION {[1..n -> Givens \cup WhenRuns \cup Expects \cup Others] : n \in 1..4}

MCParsedTests ==
  [arguments : {<<A(Unnamed, "name")>>}, requirements : Lists]
  \cup [arguments : Named \cup Misnamed,
        requirements : {<<g, w, e>> : g \in Givens, w \in WhenRuns, e \in Expects}]
=============================================================================
