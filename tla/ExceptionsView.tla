--------------------------- MODULE ExceptionsView ---------------------------
(***************************************************************************)
(* The properties of the stacks of an evaluation.                          *)
(***************************************************************************)
EXTENDS Exceptions

HandlerFrame == [kind : Handlers \cup {"local"}, up : Nat, pushes : Nat, depth : Nat]
Activation ==
  HandlerFrame
    \cup [kind : {"settor"}, use : {"def", "push", "pop"}, arg : Value]
    \cup [kind : {"throw"}, exn : Exn, target : Nat]
    \cup [kind : {"rethrow"}, from : Handlers, exn : Exn]
    \cup {[kind |-> "eval"]}

TypeOK ==
  /\ stack \in Seq(Activation)
  /\ tophandler \in 0 .. Len(stack)
  /\ pushlist \in Seq({Zero} \cup [name : {"x"}, defn : Value])
  /\ var \in Value
  /\ settor \in Settors
  /\ evaldepth \in 0 .. maxevaldepth + Len(stack)
  /\ blocked \in Nat
  /\ shell \in {"running", "exited", "aborted"}

\* Whatever exception was thrown before, from under how many bindings, the
\* innermost activation finds the stacks as it left them: its handler is the
\* top one and pushlist is as long as it was, so that no assertion of
\* pophandler() or varpop() fails; and the handlers on the chain, which an
\* exception may still reach, are activations that have not returned, and
\* pushlist can be unwound to the first and from each to the next. There is a
\* handler, if unwinding runs no settor. (except.c: throw; var.c;
\* es.h: ExceptionHandler)
StackDiscipline ==
  /\ TypeOK
  /\ shell = "running" /\ InCode /\ Top.kind \in Handlers \cup {"local"} =>
       /\ Top.kind \in Handlers => tophandler = Len(stack)
       /\ Len(pushlist) = Top.pushes + (IF Top.kind \in {"lambda", "local"} THEN 1 ELSE 0)
  /\ tophandler # 0 =>
       stack[tophandler].kind \in Handlers /\ stack[tophandler].pushes <= Len(pushlist)
  /\ \A i \in DOMAIN stack :
       stack[i].kind \in Handlers /\ stack[i].up # 0 =>
         /\ stack[i].up < i /\ stack[stack[i].up].kind \in Handlers
         /\ stack[stack[i].up].pushes <= stack[i].pushes
  /\ settor = "none" => shell # "aborted"

\* The activations of eval(), and of primitives that call it at once.
IsEval(f) ==
  \/ f.kind \in {"lambda", "catch", "input", "settor", "eval"}
  \/ f.kind = "rethrow" /\ f.from = "lambda"

\* evaldepth is the number of evals there are, whichever way others were
\* left: no depth is lost to exceptions; and signals are blocked exactly while a
\* catcher runs, if unwinding runs no settor. (except.c: throw; eval.c: eval;
\* prim-ctl.c: catch; signal.c: "unblocksignals -- turn on delivery of signals
\* as exceptions")
CountsKept ==
  shell = "running" =>
    /\ evaldepth = Cardinality({i \in DOMAIN stack : IsEval(stack[i])})
    /\ settor = "none" =>
         blocked = Cardinality({i \in DOMAIN stack : stack[i].kind = "catcher"})

\* An exception always finds a handler. (except.c: assert(handler != NULL))
AlwaysHandled == shell # "aborted"

\* A binding hidden by a local one is not touched until it is uncovered, and
\* it is uncovered with the value it had, unless the settor had another one
\* put there. (var.c: varpush, varpop; except.c: throw)
HiddenKept ==
  [][\A i \in DOMAIN pushlist :
       pushlist[i] # Zero =>
         IF i <= Len(pushlist') THEN pushlist'[i] = pushlist[i]
         ELSE \/ var' = pushlist[i].defn
              \/ \E j \in Len(pushlist') + 1 .. i - 1 : pushlist[j] # Zero
              \/ settor = "throws"]_vars

\* An exception raised in the body of a catch reaches its catcher, with the
\* bindings made in the body undone: no handler is passed over,
\* if unwinding runs no settor.
\* (es.1: catch; except.c: throw)
InnermostCatches ==
  [][\A h \in DOMAIN stack :
       settor = "none" /\ stack[h].kind = "catch" /\ h > Len(stack') /\ shell' = "running" =>
         Top.kind = "catch" \/ h = Top.target]_vars
=============================================================================
