------------------------------- MODULE Parser -------------------------------
(***************************************************************************)
(* The chain of input sources and the state that parse() keeps between     *)
(* calls (input.c, history.c): commands run other inputs and parse strings *)
(* as they are needed, and exceptions leave any of it, out of the loops    *)
(* that read commands and out of the middle of the parser.                 *)
(***************************************************************************)
EXTENDS Naturals, Sequences

CONSTANTS
  None,        \* no input
  MaxFrames    \* bound: loops, strings being parsed and catchers on the stack

ASSUME ParserAssumption == MaxFrames \in Nat

VARIABLES
  frames,      \* what the stack holds, from the outside in
  input, prev, \* the innermost input, and the one each was run from
  opened,      \* the inputs whose descriptor or text is not given back yet
  cleaned,     \* how many times each was
  ateof,       \* the inputs whose fill routine is eoffill
  pc,          \* "eval", "yyparse", "get", "throw" or "aborted"
  exception,
  error,       \* a message for the parse that goes on
  erred,       \* yyerror was called in this parse
  history,     \* what this parse has read is kept for the history
  hereq,       \* here documents are queued
  gcblocked,
  spoiled      \* history: a read failed, or a signal without effect came, in
               \* the middle of a parse

parservars == <<frames, input, prev, opened, cleaned, ateof, pc, exception, error,
          erred, history, hereq, gcblocked, spoiled>>
chain == <<frames, input, prev, opened, cleaned>>
parser == <<error, erred, history, hereq, gcblocked, spoiled>>

Ids == 1 .. MaxFrames
Exception == {"error", "signal", "eof", "exit"}

\* A frame is a loop that reads commands (runinput), a string that is parsed
\* (parseinput) or a catcher; an input is numbered by its frame.
Top == frames[Len(frames)]

ParserInit ==
  /\ frames = << >> /\ input = None
  /\ prev = [i \in Ids |-> None] /\ cleaned = [i \in Ids |-> 0]
  /\ opened = {} /\ ateof = {}
  /\ pc = "eval" /\ exception = None
  /\ error = FALSE /\ erred = FALSE /\ history = FALSE /\ hereq = FALSE
  /\ gcblocked = FALSE /\ spoiled = FALSE

\* throw() asserts that the collector is enabled.
throw(e, blocked) ==
  /\ exception' = e
  /\ pc' = IF blocked THEN "aborted" ELSE "throw"
  /\ gcblocked' = blocked

-----------------------------------------------------------------------------
(* Inputs.                                                                 *)

\* The stack part of runfd, runstring and parsestring.
PushInput(f) ==
  LET i == Len(frames) + 1
  IN /\ frames' = Append(frames, f)
     /\ prev' = [prev EXCEPT ![i] = input]
     /\ input' = i
     /\ opened' = opened \cup {i}
     /\ cleaned' = [cleaned EXCEPT ![i] = 0]
     /\ ateof' = ateof \ {i}

\* Mutant: the frame is gone, and its input is still the one that is read.
PopInputStays(i) ==
  /\ opened' = opened \ {i}
  /\ cleaned' = [cleaned EXCEPT ![i] = @ + 1]
  /\ frames' = SubSeq(frames, 1, Len(frames) - 1)
  /\ UNCHANGED <<input, prev>>

\* (*in->cleanup)(in), input = in->prev, and the frame is gone.
PopInput(i) ==
  /\ opened' = opened \ {i}
  /\ cleaned' = [cleaned EXCEPT ![i] = @ + 1]
  /\ input' = prev[i]
  /\ frames' = SubSeq(frames, 1, Len(frames) - 1)
  /\ UNCHANGED prev

CanPush == pc = "eval" /\ Len(frames) < MaxFrames

runinput ==
  /\ CanPush
  /\ \E k \in {"interactive", "batch"}, fd \in BOOLEAN :
       PushInput([kind |-> k, fd |-> fd])
  /\ UNCHANGED <<pc, exception, parser>>

\* A command installs a catcher, and leaves it again.
Catch ==
  /\ CanPush /\ frames # << >>
  /\ frames' = Append(frames, [kind |-> "catch", fd |-> FALSE])
  /\ UNCHANGED <<input, prev, opened, cleaned, ateof, pc, exception, parser>>

Uncatch ==
  /\ pc = "eval" /\ frames # << >> /\ Top.kind = "catch"
  /\ frames' = SubSeq(frames, 1, Len(frames) - 1)
  /\ UNCHANGED <<input, prev, opened, cleaned, ateof, pc, exception, parser>>

\* A command throws, or a signal's exception leaves it.
Fail ==
  /\ pc = "eval" /\ frames # << >>
  /\ \E e \in Exception : throw(e, FALSE)
  /\ UNCHANGED <<chain, ateof, error, erred, history, hereq, spoiled>>

\* The innermost frame catches the exception, ends or is left.
Keeps(k) ==
  \/ k = "catch"
  \/ k = "interactive" /\ exception \in {"error", "signal"}

Handle ==
  /\ pc = "throw" /\ frames # << >> /\ Keeps(Top.kind)
  /\ frames' = IF Top.kind = "catch" THEN SubSeq(frames, 1, Len(frames) - 1)
               ELSE frames
  /\ pc' = "eval" /\ exception' = None
  /\ UNCHANGED <<input, prev, opened, cleaned, ateof, parser>>

\* A loop ends at the end of its input, and runinput returns.
Ends(k) == k \in {"interactive", "batch"} /\ exception = "eof"

runinputEnds ==
  /\ pc = "throw" /\ frames # << >> /\ Ends(Top.kind)
  /\ PopInput(Len(frames))
  /\ pc' = "eval" /\ exception' = None
  /\ UNCHANGED <<ateof, parser>>

\* The handlers of runinput and parseinput take the input from the variable.
Unwind ==
  /\ pc = "throw" /\ frames # << >> /\ ~Keeps(Top.kind) /\ ~Ends(Top.kind)
  /\ PopInput(input)
  /\ UNCHANGED <<ateof, pc, exception, parser>>

\* main catches what is left.
Exit ==
  /\ pc = "throw" /\ frames = << >>
  /\ pc' = "eval" /\ exception' = None
  /\ UNCHANGED <<chain, ateof, parser>>

-----------------------------------------------------------------------------
(* parse().                                                                *)

\* What is kept of the lines read is given away as a whole.
addhistory == history' = TRUE
gethistory == history' = FALSE

\* From its first assertions to yyparse(). i is the input it reads.
Begin(i, i_ateof) ==
  /\ erred' = FALSE /\ hereq' = FALSE
  /\ UNCHANGED <<error, history, spoiled>>
  /\ \/ (error \/ history) /\ pc' = "aborted" /\ UNCHANGED <<exception, gcblocked>>
     \/ ~error /\ ~history /\ i_ateof /\ throw("eof", gcblocked)
     \/ ~error /\ ~history /\ ~i_ateof
        /\ pc' = "yyparse" /\ gcblocked' = TRUE /\ UNCHANGED exception

\* $&parse, from a loop or from another command.
parse ==
  /\ pc = "eval" /\ frames # << >>
  /\ Begin(input, input \in ateof)
  /\ UNCHANGED <<chain, ateof>>

\* parsestring, whose input is not at its end yet.
parseinput ==
  /\ CanPush /\ frames # << >>
  /\ PushInput([kind |-> "term", fd |-> FALSE])
  /\ Begin(Len(frames) + 1, FALSE)

\* The lexer fills the buffer, with a line or with the end of the file. Only
\* an interactive input's lines are kept for the history.
Interactive(i) == frames[i].kind = "interactive" /\ i \notin ateof

FillLine ==
  /\ pc = "yyparse" /\ frames[input].fd /\ input \notin ateof
  /\ IF Interactive(input) THEN addhistory ELSE UNCHANGED history
  /\ UNCHANGED <<chain, ateof, pc, exception, error, erred, hereq, gcblocked, spoiled>>

filleof ==
  /\ pc = "yyparse" /\ input \notin ateof
  /\ ateof' = ateof \cup {input}
  /\ UNCHANGED <<chain, pc, exception, parser>>

\* A read that fails: fail() leaves the parser, and only the collector is set
\* right.
FillFails ==
  /\ pc = "yyparse" /\ frames[input].fd /\ input \notin ateof
  /\ ateof' = ateof \cup {input}
  /\ throw("error", FALSE)
  /\ spoiled' = TRUE
  /\ UNCHANGED <<chain, error, erred, history, hereq>>

yyerror ==
  /\ pc = "yyparse"
  /\ error' = TRUE /\ erred' = TRUE
  /\ UNCHANGED <<chain, ateof, pc, exception, history, hereq, gcblocked, spoiled>>

queueheredoc ==
  /\ pc = "yyparse"
  /\ hereq' = TRUE
  /\ UNCHANGED <<chain, ateof, pc, exception, error, erred, history, gcblocked, spoiled>>

\* Mutant: only the history is thrown away.
resetparserHistory == gethistory /\ UNCHANGED error

\* sigchk() after a read: the parser is reset whatever the signal's effect is.
resetparser == error' = FALSE /\ gethistory

sigchk ==
  /\ pc = "yyparse" /\ frames[input].fd /\ input \notin ateof
  /\ resetparser
  /\ \/ throw("signal", FALSE) /\ UNCHANGED spoiled
     \/ spoiled' = TRUE /\ UNCHANGED <<pc, exception, gcblocked>>
  /\ UNCHANGED <<chain, ateof, erred, hereq>>

\* yyparse() returns, and parse() with it: an error takes what was read with
\* it, and $&parse takes it otherwise. parseinput looks for the end first.
ParseFails ==
  /\ pc = "yyparse"
  /\ erred
  /\ IF error THEN throw("error", FALSE)
     ELSE pc' = "aborted" /\ UNCHANGED <<exception, gcblocked>>
  /\ gethistory
  /\ error' = FALSE /\ erred' = FALSE
  /\ UNCHANGED <<chain, ateof, hereq, spoiled>>

ParseEnds ==
  /\ pc = "yyparse" /\ ~error
  /\ gcblocked' = FALSE
  /\ IF Top.kind = "term"
     THEN pc' = "get" /\ UNCHANGED history
     ELSE pc' = "eval" /\ gethistory
  /\ hereq' = FALSE /\ erred' = FALSE
  /\ UNCHANGED <<chain, ateof, exception, error, spoiled>>

parseinputEnds ==
  /\ pc = "get"
  /\ \/ PopInput(Len(frames)) /\ pc' = "eval" /\ UNCHANGED <<exception, gcblocked>>
     \/ throw("error", FALSE) /\ UNCHANGED chain
  /\ UNCHANGED <<ateof, error, erred, history, hereq, spoiled>>

ParserNext ==
  \/ runinput \/ Catch \/ Uncatch \/ Fail \/ Handle \/ runinputEnds \/ Unwind \/ Exit
  \/ parse \/ parseinput \/ FillLine \/ filleof \/ FillFails \/ yyerror
  \/ queueheredoc \/ sigchk \/ ParseFails \/ ParseEnds \/ parseinputEnds

ParserSpec == ParserInit /\ [][ParserNext]_parservars

-----------------------------------------------------------------------------
(* What must hold.                                                         *)

\* The assertions of parse() and throw(): no message and no history is left
\* from an earlier parse, a parse that fails has a message, and no exception
\* is thrown while the collector is disabled (input.c:338, 339 and 362,
\* except.c:32), whatever left the parser before; but for a read that fails,
\* which leaves what the parse had, and a signal without effect, which takes it.
ParserAssertions == spoiled \/ pc # "aborted"

\* The inputs on the stack, from the inside out.
InputAt(i) == i \in DOMAIN frames /\ frames[i].kind # "catch"
Outer(i) == {j \in 1 .. i - 1 : InputAt(j)}
Innermost(S) == IF S = {} THEN None ELSE CHOOSE i \in S : \A j \in S : j <= i

\* input is the innermost one on the stack and prev the one around it, so that
\* none is used after its frame is gone; each one's descriptor or text is
\* given back once, when its frame is left, by whatever way (runinput,
\* parseinput and their handlers).
ChainIsSound ==
  LET live == {i \in Ids : InputAt(i)}
  IN /\ input = Innermost(live)
     /\ \A i \in live : prev[i] = Innermost(Outer(i)) /\ cleaned[i] = 0
     /\ opened = live
     /\ \A i \in Ids : cleaned[i] <= 1
=============================================================================
