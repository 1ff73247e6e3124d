------------------------------ MODULE MCReading ------------------------------
(***************************************************************************)
(* Small instances of the parts of es that read: an input source, the      *)
(* chain of them with the parser, here documents, and texts and strings    *)
(* that are read back. They share nothing here: a behaviour is one of one  *)
(* of them.                                                                *)
(***************************************************************************)
EXTENDS InputView, Parser

CONSTANTS
  NameChars, OtherChars, Markers, MaxLines,
  Letters, Alphabets, StringAlphabets

VARIABLES
  part,
  lines,
  alphabet, text

textvars == <<alphabet, text>>

H == INSTANCE HereDoc WITH text <- lines, MaxText <- MaxLines
T == INSTANCE TextView

MCMarkers == {<<"a">>, <<"a", "b">>}

\* Texts: what commands may be made of; an expression of arithmetic; bindings;
\* and commands joined by operators. Of strings there is one alphabet.
Set(cs) == {<<c>> : c \in cs}
MCAlphabets ==
  {[start |-> <<" ", "a">>, max |-> 4, fragments |->
      Set({"a", "$", "'", "^", "=", "(", ")", "{", "}", "bq", "!", "|", "@", "~"})
        \cup {<<" ">>, <<"$", "a">>, <<" ", "<", "=">>, <<" ", ">">>, <<" ", "<", "<", "<">>,
              <<"'", "a", "'">>, <<"=", ">">>, <<"bq", "bq">>, <<"&", "&">>}],
   [start |-> <<"let", " ", "(">>, max |-> 5, fragments |->
      Set({" ", "a", "=", ";", ")", "{", "}", "fn"})],
   [start |-> <<" ", "a">>, max |-> 4, fragments |->
      {<<" ">> \o j : j \in Set({"a", ";", "&", "|", "!"}) \cup {<<"&", "&">>, <<"|", "|">>}}]}
  \cup
  {[start |-> <<"bq", "(">> \o s, max |-> 5, fragments |->
      Set({"1", "-", "+", "*", "/", "%", "<", ")"}) \cup {<<"(", "1">>, <<"1", ")">>}] :
     s \in Set({"1", "(", "-"})}

MCStrings ==
  {[start |-> << >>, max |-> 3, fragments |->
      {"a", "fn", "'", "nl", " ", "=", "@", "*", "\\", "x01", "1", "$"}]}

parts == {"input", "parser", "heredoc", "text", "string"}

MCInit ==
  /\ part \in parts
  /\ Init /\ ParserInit /\ H!HereInit
  /\ part # "input" => fill = "stringfill" /\ data = << >> /\ ~verbose
  /\ IF part = "text" THEN T!TextInit ELSE T!StringInit

MCNext ==
  /\ UNCHANGED part
  /\ \/ part = "input" /\ Next /\ UNCHANGED <<parservars, lines, textvars>>
     \/ part = "parser" /\ ParserNext /\ UNCHANGED <<vars, lines, textvars>>
     \/ part = "heredoc" /\ H!HereNext /\ UNCHANGED <<vars, parservars, textvars>>
     \/ part = "text" /\ T!TextNext /\ UNCHANGED <<vars, parservars, lines>>
     \/ part = "string" /\ T!StringNext /\ UNCHANGED <<vars, parservars, lines>>

MCSpec == MCInit /\ [][MCNext]_<<part, vars, parservars, lines, textvars>>

-----------------------------------------------------------------------------
(* The properties, each of its part's states, and those of InputView and   *)
(* Parser, which hold of any.                                              *)

\* A here document is the lines before its marker (HereDoc).
HereDocsRead == part = "heredoc" => H!HereDocsRead

\* What is printed from a tree is read as it (TextView).
PrintsBack == part = "text" => T!PrintsBack

\* Operators group commands by their precedence (TextView).
OperatorsGroup == part = "text" => T!OperatorsGroup

\* What is printed from a string or a closure is read as it (TextView).
ValuesReadBack == part = "string" => T!ValuesReadBack
=============================================================================
