----------------------------- MODULE Exceptions -----------------------------
(***************************************************************************)
(* The stacks an evaluation keeps and an exception unwinds (except.c,      *)
(* eval.c, the catch primitive, varpush and varpop of var.c): activations  *)
(* of the C functions, the chain of handlers, the list of dynamic bindings *)
(* (pushlist), evaldepth and the count of blocksignals.                    *)
(*                                                                         *)
(* There is one dynamic variable, which may have a settor; $0, which has   *)
(* none, is also pushed.  The program is any sequence of the commands that *)
(* touch these stacks.                                                     *)
(***************************************************************************)
EXTENDS Naturals, Sequences, FiniteSets

CONSTANTS
  Value,         \* values of the variable
  Settors,       \* what its settor may be
  maxevaldepth,  \* limit on nested evals
  MaxStack,      \* bounds the activations, for each settor
  MaxBlocked     \* bounds blocked

ASSUME ExceptionsAssumption ==
  /\ Settors \subseteq {"none", "returns", "throws"}
  /\ maxevaldepth \in Nat \ {0, 1}
  /\ MaxStack \in [Settors -> Nat] /\ MaxBlocked \in Nat \ {0}

VARIABLES
  stack,       \* activations, the innermost last
  tophandler,  \* the innermost handler's activation, 0 for NULL
  pushlist,    \* dynamic bindings to be undone, the innermost last
  var,         \* the variable's value
  settor,      \* its settor: "none", one that "returns" its argument, or one
               \* that runs commands and "throws" as well
  evaldepth,
  blocked,     \* depth of blocksignals()
  shell        \* "running", "exited", or "aborted" by assert(handler != NULL)

vars == <<stack, tophandler, pushlist, var, settor, evaldepth, blocked,
          shell>>

Exn == {"error", "return", "break", "continue", "retry"}
Handlers == {"root", "lambda", "for", "input", "catch", "catcher"}

\* up, pushes and depth are what a Handler saves: tophandler, the length of
\* pushlist and evaldepth.
Frame(kind) == [kind |-> kind, up |-> tophandler, pushes |-> Len(pushlist),
                depth |-> evaldepth]
\* A settor runs for an assignment, a varpush or a varpop.
SettorFrame(use, arg) == [kind |-> "settor", use |-> use, arg |-> arg]

Zero == [name |-> "0"]
Push(value) == [name |-> "x", defn |-> value]

Top == stack[Len(stack)]
Drop(s) == SubSeq(s, 1, Len(s) - 1)

Init ==
  /\ stack = <<[kind |-> "root", up |-> 0, pushes |-> 0, depth |-> 0]>>
  /\ tophandler = 1
  /\ pushlist = <<>>
  /\ var \in Value
  /\ settor \in Settors
  /\ evaldepth = 0
  /\ blocked = 0
  /\ shell = "running"

-----------------------------------------------------------------------------
\* longjmp(handler->label): what the handler's CatchException does, given its
\* activation f.  It rethrows what it does not handle.  A catch evaluates its
\* body, and again for a retry; $&noreturn walks the catcher's without an eval.
Outcome(f, e) ==
  CASE f.kind = "root"                                       -> "exit"
    [] f.kind = "lambda" /\ e = "return"                     -> "done"
    [] f.kind = "for" /\ e = "break"                         -> "done"
    [] f.kind = "for" /\ e = "continue"                      -> "for"
    [] f.kind = "catch"                                      -> "catcher"
    [] f.kind = "catcher" /\ e = "retry"                     -> "catch"
    [] OTHER                                                 -> "rethrow"

Catch ==
  LET h == Top.target
      f == stack[h]
      below == SubSeq(stack, 1, h - 1)
      out == Outcome(f, Top.exn)
  IN /\ stack' = CASE out = "exit" -> <<>>
                   [] out = "done" -> below
                   [] out = "rethrow" -> Append(below, [kind |-> "rethrow", from |-> f.kind,
                                                              exn |-> Top.exn])
                   [] OTHER -> Append(below, [f EXCEPT !.kind = out])
     /\ tophandler' = IF out \in Handlers THEN h ELSE f.up
     /\ evaldepth' = CASE out = "catch" -> f.depth + 1
                       [] out = "done" /\ f.kind = "lambda" -> f.depth - 1
                       [] OTHER -> f.depth
     /\ blocked' = CASE f.kind = "catch" -> blocked + 1
                     [] f.kind = "catcher" -> blocked - 1
                     [] OTHER -> blocked
     /\ shell' = IF out = "exit" THEN "exited" ELSE shell
     /\ UNCHANGED <<pushlist, var>>

\* callsettor(): $0 is pushed and the settor evaluated.
CallSettor(use, arg) ==
  /\ stack' = Append(stack, SettorFrame(use, arg))
  /\ pushlist' = Append(pushlist, Zero)
  /\ evaldepth' = evaldepth + 1
  /\ UNCHANGED <<var, tophandler, blocked, shell>>

\* throw(): the handler is taken off its chain first.
throw(e) ==
  IF tophandler = 0
  THEN /\ shell' = "aborted"
       /\ UNCHANGED <<stack, tophandler, pushlist, var, evaldepth, blocked>>
  ELSE /\ stack' = Append(stack, [kind |-> "throw", exn |-> e, target |-> tophandler])
       /\ tophandler' = stack[tophandler].up
       /\ UNCHANGED <<pushlist, var, evaldepth, blocked, shell>>

\* Mutant: bindings are dropped and not undone.
UnwindForgets ==
  /\ shell = "running"
  /\ Top.kind = "throw"
  /\ IF Len(pushlist) = stack[Top.target].pushes THEN Catch
     ELSE /\ pushlist' = Drop(pushlist)
          /\ UNCHANGED <<stack, tophandler, var, evaldepth, blocked, shell>>

\* One turn of the loop of throw(), varpop(pushlist), or its end.
Unwind ==
  /\ shell = "running"
  /\ Top.kind = "throw"
  /\ LET last == pushlist[Len(pushlist)]
     IN IF Len(pushlist) = stack[Top.target].pushes THEN Catch
        ELSE IF last # Zero /\ settor # "none" THEN CallSettor("pop", last.defn)
        ELSE /\ pushlist' = Drop(pushlist)
             /\ var' = IF last = Zero THEN var ELSE last.defn
             /\ UNCHANGED <<stack, tophandler, evaldepth, blocked, shell>>

Rethrow ==
  /\ shell = "running"
  /\ Top.kind = "rethrow"
  /\ throw(Top.exn)

-----------------------------------------------------------------------------
(* Commands of the program, by the code of the innermost activation.       *)

InCode == shell = "running" /\ Top.kind \notin {"throw", "rethrow"}

Runs == InCode /\ evaldepth < maxevaldepth

\* A settor that only returns runs no other command.
RunsCommands == Runs /\ ~ (settor = "returns" /\ Top.kind = "settor")

Enter(frame) ==
  /\ RunsCommands
  /\ Len(stack) < MaxStack[settor]
  /\ stack' = Append(stack, frame)
  /\ UNCHANGED <<var, blocked, shell>>

\* eval() fails when it is entered at the limit, under its caller's handler.
TooDeep ==
  /\ InCode
  /\ evaldepth >= maxevaldepth
  /\ throw("error")

\* Mutant: $0 is pushed before the handler is set up.
CallPushesFirst ==
  /\ evaldepth' = evaldepth + 1
  /\ IF evaldepth' < maxevaldepth
     THEN /\ Enter([Frame("lambda") EXCEPT !.depth = evaldepth', !.pushes = Len(pushlist) + 1])
          /\ tophandler' = Len(stack')
          /\ pushlist' = Append(pushlist, Zero)
     ELSE /\ Enter([kind |-> "eval"])
          /\ UNCHANGED <<tophandler, pushlist>>

\* eval() of a function: the handler is set up after ++evaldepth, and the
\* push of $0 is made under it.
Call ==
  /\ evaldepth' = evaldepth + 1
  /\ IF evaldepth' < maxevaldepth
     THEN /\ Enter([Frame("lambda") EXCEPT !.depth = evaldepth'])
          /\ tophandler' = Len(stack')
          /\ pushlist' = Append(pushlist, Zero)
     ELSE /\ Enter([kind |-> "eval"])
          /\ UNCHANGED <<tophandler, pushlist>>

\* Mutant: the handler is not put on the chain.
GuardNoHandler(kind) ==
  /\ kind = "catch" => blocked < MaxBlocked
  /\ Enter(Frame(kind))
  /\ evaldepth' = IF kind = "for" THEN evaldepth ELSE evaldepth + 1
  /\ UNCHANGED <<tophandler, pushlist>>

\* $&catch and runinput() set up a handler and evaluate under it; for sets up
\* one and walks its body.
Guard(kind) ==
  /\ kind = "catch" => blocked < MaxBlocked
  /\ Enter(Frame(kind))
  /\ tophandler' = Len(stack')
  /\ evaldepth' = IF kind = "for" THEN evaldepth ELSE evaldepth + 1
  /\ UNCHANGED pushlist

\* varpush() of a local binding.
Local(value) ==
  /\ RunsCommands
  /\ Len(stack) < MaxStack[settor]
  /\ IF settor = "none"
     THEN /\ stack' = Append(stack, Frame("local"))
          /\ pushlist' = Append(pushlist, Push(var))
          /\ var' = value
          /\ UNCHANGED <<tophandler, evaldepth, blocked, shell>>
     ELSE CallSettor("push", value)

\* vardef() of an assignment.
Assign(value) ==
  /\ RunsCommands
  /\ IF settor = "none"
     THEN /\ var' = value
          /\ UNCHANGED <<stack, tophandler, pushlist, evaldepth, blocked, shell>>
     ELSE /\ Len(stack) < MaxStack[settor]
          /\ CallSettor("def", value)

Throw(e) == RunsCommands /\ throw(e)

\* Mutant: evaldepth is not restored.
EndHandlerDeep ==
  /\ RunsCommands
  /\ Top.kind \in Handlers
  /\ stack' = Drop(stack)
  /\ tophandler' = Top.up
  /\ pushlist' = IF Top.kind = "lambda" THEN Drop(pushlist) ELSE pushlist
  /\ blocked' = IF Top.kind = "catcher" THEN blocked - 1 ELSE blocked
  /\ shell' = IF Top.kind = "root" THEN "exited" ELSE shell
  /\ UNCHANGED <<var, evaldepth>>

\* The code under a handler ends: pophandler().
EndHandler ==
  /\ RunsCommands
  /\ Top.kind \in Handlers
  /\ stack' = Drop(stack)
  /\ tophandler' = Top.up
  /\ pushlist' = IF Top.kind = "lambda" THEN Drop(pushlist) ELSE pushlist
  /\ evaldepth' = IF Top.kind = "lambda" THEN Top.depth - 1 ELSE Top.depth
  /\ blocked' = IF Top.kind = "catcher" THEN blocked - 1 ELSE blocked
  /\ shell' = IF Top.kind = "root" THEN "exited" ELSE shell
  /\ UNCHANGED var

\* The body of a local binding ends: varpop().
EndLocal ==
  /\ RunsCommands
  /\ Top.kind = "local"
  /\ LET defn == pushlist[Len(pushlist)].defn
     IN IF settor = "none"
        THEN /\ stack' = Drop(stack)
             /\ pushlist' = Drop(pushlist)
             /\ var' = defn
             /\ UNCHANGED <<tophandler, evaldepth, blocked, shell>>
        ELSE CallSettor("pop", defn)

\* The settor returns a value, and its caller goes on with it: vardef,
\* varpush, or varpop at the end of a local binding or in throw.
EndSettor(value) ==
  /\ Runs
  /\ Top.kind = "settor"
  /\ settor = "returns" => value = Top.arg
  /\ LET below == Drop(stack)
         pushes == Drop(pushlist)
         local == [kind |-> "local", up |-> tophandler, pushes |-> Len(pushes),
                   depth |-> evaldepth - 1]
     IN /\ stack' = CASE Top.use = "push" -> Append(below, local)
                      [] Top.use = "pop" /\ below[Len(below)].kind = "local" -> Drop(below)
                      [] OTHER -> below
        /\ pushlist' = CASE Top.use = "push" -> Append(pushes, Push(var))
                         [] Top.use = "pop" -> Drop(pushes)
                         [] OTHER -> pushes
  /\ var' = value
  /\ evaldepth' = evaldepth - 1
  /\ UNCHANGED <<tophandler, blocked, shell>>

-----------------------------------------------------------------------------
Step ==
  \/ Call \/ EndHandler \/ EndLocal \/ Unwind \/ Rethrow \/ TooDeep
  \/ \E kind \in {"catch", "input", "for"} : Guard(kind)
  \/ \E value \in Value : Local(value) \/ Assign(value) \/ EndSettor(value)
  \/ \E e \in Exn : Throw(e)

\* What the settor is does not change.
Next == Step /\ UNCHANGED settor

Spec == Init /\ [][Next]_vars
=============================================================================
