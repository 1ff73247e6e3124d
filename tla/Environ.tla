------------------------------ MODULE Environ -------------------------------
(***************************************************************************)
(* Variables and the environment handed to commands (var.c).  mkenv keeps  *)
(* the vector it built last, and each variable the string it put there;    *)
(* isdirty and rebound say when the one or the other must be made again.   *)
(*                                                                         *)
(* A variable with a settor is assigned in two steps, for the settor may   *)
(* run any other command in between.  $0, which settors are passed, is     *)
(* never exported and is left out.  Exceptions are in module Exceptions.   *)
(***************************************************************************)
EXTENDS Naturals, Sequences

CONSTANTS
  Name,        \* names of variables
  Value,       \* their values
  Closures,    \* the values that are closures over the lexical binding
  Lexical,     \* values of that binding
  Settors,     \* names that have a settor
  Locals,      \* names that are bound by local
  Noexports,   \* values of the noexport variable
  None,        \* the null list, or a null pointer
  MaxStack     \* bounds the nesting of local bindings and settors

ASSUME EnvironAssumption ==
  /\ Closures \subseteq Value
  /\ None \notin Value
  /\ Settors \subseteq Name /\ Locals \subseteq Name
  /\ Noexports \subseteq SUBSET Name /\ Noexports # {}
  /\ MaxStack \in Nat

VARIABLES
  vars,      \* the dictionary: each name's Var structure, None without one
  binding,   \* the value of the lexical binding
  noexport,  \* names not exported
  isdirty,   \* the vector must be built anew
  rebound,   \* strings that depend on the lexical binding must be made anew
  env,       \* the vector mkenv returned last: the string of each name in it
  stack      \* local bindings and settors that are under way

state == <<vars, binding, noexport, isdirty, rebound, env, stack>>

\* The string a value is written as in the environment.
Encode(v) == IF v \in Closures THEN <<v, binding>> ELSE <<v, None>>
Encoding == Value \X (Lexical \cup {None})

Defn == Value \cup {None}
Var == [defn : Defn, env : Encoding \cup {None}, hasbindings : BOOLEAN, isinternal : BOOLEAN]
mkvar(v) == [defn |-> v, env |-> None, hasbindings |-> v \in Closures, isinternal |-> FALSE]

ASSUME NoneIsNoVar == None \notin Var

isexported(n) == n \notin noexport

Init ==
  /\ vars \in [Name -> {None} \cup {[mkvar(v) EXCEPT !.isinternal = TRUE] : v \in Value \ Closures}]
  /\ binding \in Lexical
  /\ noexport \in Noexports
  /\ isdirty = TRUE
  /\ rebound = TRUE
  /\ env = <<>>
  /\ stack = <<>>

Top == stack[Len(stack)]
Drop == SubSeq(stack, 1, Len(stack) - 1)
CallSettor(use, n, v) ==
  stack' = Append(stack, [kind |-> "settor", use |-> use, name |-> n, arg |-> v])

-----------------------------------------------------------------------------
\* Mutant: an assignment does not make the vector dirty.
DefineClean(n, v) ==
  /\ vars' = [vars EXCEPT ![n] = IF v = None THEN None ELSE mkvar(v)]
  /\ UNCHANGED isdirty

\* vardef() of a dynamic variable, before and after callsettor().
Define(n, v) ==
  /\ vars' = [vars EXCEPT ![n] = IF v = None THEN None ELSE mkvar(v)]
  /\ isdirty' = (isdirty \/ isexported(n))

vardef(n, v) ==
  /\ IF n \in Settors
     THEN /\ Len(stack) < MaxStack
          /\ CallSettor("def", n, v)
          /\ UNCHANGED <<vars, isdirty>>
     ELSE Define(n, v) /\ UNCHANGED stack
  /\ UNCHANGED <<binding, noexport, rebound, env>>

\* Mutant: rebound is not set.
RebindUnnoticed(b) ==
  /\ binding' = b
  /\ UNCHANGED <<vars, noexport, isdirty, rebound, env, stack>>

\* vardef() of a lexically bound one.
Rebind(b) ==
  /\ binding' = b
  /\ rebound' = TRUE
  /\ UNCHANGED <<vars, noexport, isdirty, env, stack>>

\* varpush(): the old definition and flags are kept in the Push structure.
Pushed(n) ==
  LET v == vars[n]
  IN IF v = None
     THEN [kind |-> "local", name |-> n, defn |-> None, hasbindings |-> FALSE, isinternal |-> FALSE]
     ELSE [kind |-> "local", name |-> n, defn |-> v.defn,
           hasbindings |-> v.hasbindings, isinternal |-> v.isinternal]

varpush(n, v) ==
  /\ Len(stack) < MaxStack
  /\ isdirty' = (isdirty \/ isexported(n))
  /\ IF n \in Settors
     THEN CallSettor("push", n, v) /\ UNCHANGED vars
     ELSE /\ stack' = Append(stack, Pushed(n))
          /\ vars' = [vars EXCEPT ![n] = mkvar(v)]
  /\ UNCHANGED <<binding, noexport, rebound, env>>

\* varpop(): the definition comes back by way of the settor, the flags as
\* they were.
Restored(push, v) ==
  IF v = None THEN None
  ELSE [defn |-> v, env |-> None,
        hasbindings |-> push.hasbindings, isinternal |-> push.isinternal]

varpop ==
  /\ stack # <<>> /\ Top.kind = "local"
  /\ isdirty' = (isdirty \/ isexported(Top.name))
  /\ IF Top.name \in Settors
     THEN CallSettor("pop", Top.name, Top.defn) /\ UNCHANGED vars
     ELSE /\ vars' = [vars EXCEPT ![Top.name] = Restored(Top, Top.defn)]
          /\ stack' = Drop
  /\ UNCHANGED <<binding, noexport, rebound, env>>

\* The settor returns v to vardef, varpush or varpop.
Return(v) ==
  /\ stack # <<>> /\ Top.kind = "settor"
  /\ LET n == Top.name
         below == Drop
         push == below[Len(below)]
     IN \/ /\ Top.use = "def"
           /\ Define(n, v)
           /\ stack' = below
        \/ /\ Top.use = "push"
           /\ vars' = [vars EXCEPT ![n] = mkvar(v)]
           /\ stack' = Append(below, Pushed(n))
           /\ UNCHANGED isdirty
        \/ /\ Top.use = "pop"
           /\ vars' = [vars EXCEPT ![n] = Restored(push, v)]
           /\ stack' = SubSeq(below, 1, Len(below) - 1)
           /\ UNCHANGED isdirty
  /\ UNCHANGED <<binding, noexport, rebound, env>>

setnoexport(S) ==
  /\ isdirty' = TRUE
  /\ noexport' = S
  /\ UNCHANGED <<vars, binding, rebound, env, stack>>

-----------------------------------------------------------------------------
Exports == {n \in Name : /\ vars[n] # None
                         /\ vars[n].defn # None
                         /\ ~ vars[n].isinternal
                         /\ isexported(n)}

\* Mutant: the value is kept instead of its string.
mkenv0Raw(n) ==
  LET v == vars[n]
  IN IF n \in Exports /\ (v.env = None \/ (rebound /\ v.hasbindings))
     THEN [v EXCEPT !.env = v.defn] ELSE v

\* mkenv0() makes the string of an exported variable, if need be.
mkenv0(n) ==
  LET v == vars[n]
  IN IF n \in Exports /\ (v.env = None \/ (rebound /\ v.hasbindings))
     THEN [v EXCEPT !.env = Encode(v.defn)] ELSE v

\* mkenv(): a command is run.
mkenv ==
  /\ IF isdirty \/ rebound
     THEN /\ vars' = [n \in Name |-> mkenv0(n)]
          /\ env' = [n \in Exports |-> mkenv0(n).env]
          /\ isdirty' = FALSE
          /\ rebound' = FALSE
     ELSE UNCHANGED <<vars, env, isdirty, rebound>>
  /\ UNCHANGED <<binding, noexport, stack>>

\* The garbage collector drops strings that must be made anew anyway.
VarScan ==
  /\ vars' = [n \in Name |->
                IF vars[n] # None /\ vars[n].hasbindings /\ rebound
                THEN [vars[n] EXCEPT !.env = None] ELSE vars[n]]
  /\ UNCHANGED <<binding, noexport, isdirty, rebound, env, stack>>

-----------------------------------------------------------------------------
Next ==
  \/ \E n \in Name, v \in Defn : vardef(n, v)
  \/ \E n \in Locals, v \in Defn : varpush(n, v)
  \/ \E b \in Lexical : Rebind(b)
  \/ \E v \in Defn : Return(v)
  \/ \E S \in Noexports : setnoexport(S)
  \/ varpop
  \/ mkenv
  \/ VarScan

Spec == Init /\ [][Next]_state
=============================================================================
