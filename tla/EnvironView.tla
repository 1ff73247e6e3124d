---------------------------- MODULE EnvironView -----------------------------
(***************************************************************************)
(* The properties of the cached environment.                               *)
(***************************************************************************)
EXTENDS Environ

Saved == [kind : {"local"}, name : Name, defn : Defn, hasbindings : BOOLEAN,
          isinternal : BOOLEAN]
Pending == [kind : {"settor"}, use : {"def", "push", "pop"}, name : Name, arg : Defn]

TypeOK ==
  /\ vars \in [Name -> Var \cup {None}]
  /\ binding \in Lexical
  /\ noexport \in Noexports
  /\ isdirty \in BOOLEAN /\ rebound \in BOOLEAN
  /\ DOMAIN env \subseteq Name /\ \A n \in DOMAIN env : env[n] \in Encoding
  /\ stack \in Seq(Saved \cup Pending)

\* The environment as the variables are now.
Current == [n \in Exports |-> Encode(vars[n].defn)]

\* A command that is run without building the vector anew gets every exported
\* variable, and no other, with its present value: whatever assignments,
\* local bindings, settors, collections and commands came before.
\* (es.1: "All variables except for the ones on this list and lexically bound
\* variables are exported"; var.c: mkenv, isdirty, rebound)
EnvCurrent == ~ isdirty /\ ~ rebound => env = Current

\* A string that mkenv0 would use again is what it would make.
\* (var.c: mkenv0, VarScan, var_hasbindings)
StringsCurrent ==
  \A n \in Exports :
    vars[n].env # None /\ ~ (rebound /\ vars[n].hasbindings) =>
      vars[n].env = Encode(vars[n].defn)
=============================================================================
