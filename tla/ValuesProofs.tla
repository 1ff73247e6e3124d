---------------------------- MODULE ValuesProofs ----------------------------
(***************************************************************************)
(* Proofs about values and where they are kept: that commands get the      *)
(* environment they should (Environ), for any variables, values and        *)
(* nesting, in programs that do none of the two things for which they do   *)
(* not; that arithmetic is exact where it is checked (Arith), whatever the *)
(* width of integers; that subscripts select what they name (Subscripts);  *)
(* and that dictionaries find what was put (Dict), whatever the hash       *)
(* function, the names and the order in which they come and go.            *)
(***************************************************************************)
EXTENDS EnvironView, Arith, Subscripts, Dict, SequenceTheorems, Induction

(***************************************************************************)
(* The environment.  A program is not to bind a variable that has a settor *)
(* by local, nor to take a variable off noexport when closures are about.  *)
(***************************************************************************)

\* The programs the theorems are about.
Tame ==
  /\ Settors \cap Locals = {}
  /\ Closures = {} \/ \A S, T \in Noexports : S = T

\* A definition and its flag agree.
Flagged(v) == v.hasbindings <=> v.defn \in Closures

\* No settor runs for varpush or varpop.
Frames ==
  {f \in Saved : f.name \notin Settors /\ Flagged(f)} \cup {f \in Pending : f.use = "def"}

\* A variable that is hidden or whose string no one would use has none, or one
\* that is right as long as the binding is not changed.
Sound(n) ==
  vars[n] # None =>
    /\ Flagged(vars[n])
    /\ vars[n].isinternal => vars[n].env = None
    /\ (isexported(n) \/ Closures = {}) =>
         \/ vars[n].env = None
         \/ rebound /\ vars[n].hasbindings
         \/ vars[n].env = Encode(vars[n].defn)

Typed ==
  /\ vars \in [Name -> Var \cup {None}]
  /\ binding \in Lexical
  /\ noexport \in Noexports
  /\ isdirty \in BOOLEAN /\ rebound \in BOOLEAN
  /\ DOMAIN env \subseteq Name /\ \A n \in DOMAIN env : env[n] \in Encoding
  /\ stack \in Seq(Frames)

IInv ==
  /\ Typed
  /\ \A n \in Name : Sound(n)
  /\ EnvCurrent

-----------------------------------------------------------------------------
\* Pushing a frame, and what is left when one is popped.
LEMMA StackFacts ==
  ASSUME stack \in Seq(Frames)
  PROVE  /\ \A f \in Frames : Append(stack, f) \in Seq(Frames)
         /\ stack # <<>> => Top \in Frames /\ Drop \in Seq(Frames)
<1>1. \A f \in Frames : Append(stack, f) \in Seq(Frames)
  BY AppendProperties
<1>2. ASSUME stack # <<>> PROVE Top \in Frames /\ Drop \in Seq(Frames)
  <2>1. Len(stack) \in Nat \ {0}
    BY <1>2, EmptySeq
  <2>2. \A i \in 1 .. Len(stack) : stack[i] \in Frames
    BY ElementOfSeq
  <2>3. Drop \in Seq(Frames)
    <3>1. \A i \in 1 .. Len(stack) - 1 : stack[i] \in Frames
      BY <2>1, <2>2
    <3> QED
      BY <2>1, <3>1, SubSeqProperties DEF Drop
  <2> QED
    BY <2>1, <2>2, <2>3 DEF Top
<1> QED
  BY <1>1, <1>2

\* What is written for a value is a string of the environment.
LEMMA EncodeType ==
  ASSUME Typed, NEW v \in Value
  PROVE  Encode(v) \in Encoding
BY DEF Encode, Encoding, Typed

\* A variable that is defined anew has no string.
LEMMA MkvarFacts ==
  ASSUME NEW v \in Defn
  PROVE  mkvar(v) \in Var /\ Flagged(mkvar(v)) /\ mkvar(v).env = None /\ mkvar(v).defn = v
<1>1. (v \in Closures) \in BOOLEAN
  OBVIOUS
<1>2. mkvar(v) \in Var
  BY <1>1 DEF mkvar, Var, Defn
<1>3. Flagged(mkvar(v)) /\ mkvar(v).env = None /\ mkvar(v).defn = v
  BY DEF mkvar, Flagged
<1> QED
  BY <1>2, <1>3

\* One variable gets a definition without a string, and the vector is known
\* to be out of date if the variable is exported.
LEMMA OneVariable ==
  ASSUME IInv, NEW n \in Name, NEW w \in Var \cup {None},
         w # None => Flagged(w) /\ w.env = None,
         vars' = [vars EXCEPT ![n] = w],
         isdirty' = (isdirty \/ isexported(n)),
         UNCHANGED <<binding, noexport, rebound, env>>
  PROVE  /\ vars' \in [Name -> Var \cup {None}]
         /\ isdirty' \in BOOLEAN
         /\ \A m \in Name : Sound(m)'
         /\ EnvCurrent'
<1>1. vars' \in [Name -> Var \cup {None}] /\ isdirty' \in BOOLEAN
  BY DEF IInv, Typed
<1>2. \A m \in Name : m # n => vars'[m] = vars[m]
  BY DEF IInv, Typed
<1>3. vars'[n] = w
  BY DEF IInv, Typed
<1>4. \A m \in Name : Sound(m)'
  <2> SUFFICES ASSUME NEW m \in Name PROVE Sound(m)'
    OBVIOUS
  <2>1. CASE m = n
    BY <1>3, <2>1 DEF Sound, Flagged
  <2>2. CASE m # n
    BY <1>2, <2>2 DEF IInv, Sound, Flagged, isexported, Encode
  <2> QED
    BY <2>1, <2>2
<1>5. EnvCurrent'
  <2> SUFFICES ASSUME ~ isdirty', ~ rebound' PROVE env' = Current'
    BY DEF EnvCurrent
  <2>1. ~ isexported(n) /\ ~ isdirty /\ ~ rebound
    OBVIOUS
  <2>2. Exports' = Exports
    <3>1. n \notin Exports /\ n \notin Exports'
      BY <2>1 DEF Exports, isexported
    <3>2. \A m \in Name : m # n => (m \in Exports' <=> m \in Exports)
      BY <1>2 DEF Exports, isexported
    <3> QED
      BY <3>1, <3>2 DEF Exports
  <2>3. \A m \in Exports : vars'[m] = vars[m]
    BY <1>2, <2>1 DEF Exports
  <2>4. Current' = Current
    BY <2>2, <2>3 DEF Current, Encode
  <2> QED
    BY <2>1, <2>4 DEF IInv, EnvCurrent
<1> QED
  BY <1>1, <1>4, <1>5

-----------------------------------------------------------------------------
LEMMA InitInv == ASSUME Init PROVE IInv
<1>1. \A n \in Name :
        vars[n] # None => vars[n] \in Var /\ Flagged(vars[n]) /\ vars[n].env = None
  <2> SUFFICES ASSUME NEW n \in Name, vars[n] # None
               PROVE vars[n] \in Var /\ Flagged(vars[n]) /\ vars[n].env = None
    OBVIOUS
  <2>1. PICK v \in Value \ Closures : vars[n] = [mkvar(v) EXCEPT !.isinternal = TRUE]
    BY DEF Init
  <2>2. mkvar(v) \in Var /\ Flagged(mkvar(v)) /\ mkvar(v).env = None /\ mkvar(v).defn = v
    BY MkvarFacts DEF Defn
  <2> QED
    BY <2>1, <2>2 DEF Var, Flagged
<1>2. vars \in [Name -> Var \cup {None}]
  BY <1>1 DEF Init
<1>3. stack \in Seq(Frames)
  BY EmptySeq DEF Init
<1>4. DOMAIN env \subseteq Name /\ \A n \in DOMAIN env : env[n] \in Encoding
  BY DEF Init
<1> QED
  BY <1>1, <1>2, <1>3, <1>4 DEF Init, IInv, Typed, Sound, EnvCurrent

LEMMA DefineInv ==
  ASSUME IInv, NEW n \in Name, NEW v \in Defn, Define(n, v),
         stack' \in Seq(Frames), UNCHANGED <<binding, noexport, rebound, env>>
  PROVE  IInv'
<1> DEFINE w == IF v = None THEN None ELSE mkvar(v)
<1>1. w \in Var \cup {None} /\ (w # None => Flagged(w) /\ w.env = None)
  BY MkvarFacts
<1>2. vars' = [vars EXCEPT ![n] = w] /\ isdirty' = (isdirty \/ isexported(n))
  BY DEF Define
<1> HIDE DEF w
<1>3. /\ vars' \in [Name -> Var \cup {None}]
      /\ isdirty' \in BOOLEAN
      /\ \A m \in Name : Sound(m)'
      /\ EnvCurrent'
  BY <1>1, <1>2, OneVariable
<1> QED
  BY <1>3 DEF IInv, Typed

LEMMA VardefInv ==
  ASSUME IInv, NEW n \in Name, NEW v \in Defn, vardef(n, v)
  PROVE  IInv'
<1>1. CASE n \in Settors
  <2> DEFINE f == [kind |-> "settor", use |-> "def", name |-> n, arg |-> v]
  <2>1. f \in Frames
    BY DEF Frames, Pending
  <2>2. stack' \in Seq(Frames)
    BY <1>1, <2>1, StackFacts DEF vardef, CallSettor, IInv, Typed
  <2> QED
    BY <1>1, <2>2
    DEF vardef, IInv, Typed, Sound, Flagged, isexported, Encode, EnvCurrent, Current, Exports
<1>2. CASE n \notin Settors
  BY <1>2, DefineInv DEF vardef, IInv, Typed
<1> QED
  BY <1>1, <1>2

LEMMA VarpushInv ==
  ASSUME Tame, IInv, NEW n \in Locals, NEW v \in Defn, varpush(n, v)
  PROVE  IInv'
<1>1. n \in Name /\ n \notin Settors
  BY EnvironAssumption DEF Tame
<1>2. Pushed(n) \in Frames
  <2>1. CASE vars[n] = None
    BY <1>1, <2>1, EnvironAssumption DEF Pushed, Frames, Saved, Flagged, Defn
  <2>2. CASE vars[n] # None
    <3>1. vars[n] \in Var /\ Flagged(vars[n])
      BY <1>1, <2>2 DEF IInv, Typed, Sound
    <3> QED
      BY <1>1, <2>2, <3>1 DEF Pushed, Frames, Saved, Flagged, Var
  <2> QED
    BY <2>1, <2>2
<1>3. stack' \in Seq(Frames)
  BY <1>1, <1>2, StackFacts DEF varpush, IInv, Typed
<1>4. mkvar(v) \in Var \cup {None} /\ Flagged(mkvar(v)) /\ mkvar(v).env = None
  BY MkvarFacts
<1>5. /\ vars' = [vars EXCEPT ![n] = mkvar(v)]
      /\ isdirty' = (isdirty \/ isexported(n))
      /\ UNCHANGED <<binding, noexport, rebound, env>>
  BY <1>1 DEF varpush
<1>6. /\ vars' \in [Name -> Var \cup {None}]
      /\ isdirty' \in BOOLEAN
      /\ \A m \in Name : Sound(m)'
      /\ EnvCurrent'
  BY <1>1, <1>4, <1>5, OneVariable
<1> QED
  BY <1>3, <1>5, <1>6 DEF IInv, Typed

LEMMA VarpopInv ==
  ASSUME IInv, varpop
  PROVE  IInv'
<1>1. Top \in Frames /\ Drop \in Seq(Frames)
  BY StackFacts DEF varpop, IInv, Typed
<1>2. Top \in Saved /\ Top.name \notin Settors /\ Flagged(Top)
  BY <1>1 DEF varpop, Frames, Pending
<1> DEFINE n == Top.name
           w == Restored(Top, Top.defn)
<1>3. n \in Name
  BY <1>2 DEF Saved
<1>4. w \in Var \cup {None} /\ (w # None => Flagged(w) /\ w.env = None)
  BY <1>2 DEF Saved, Restored, Var, Flagged
<1>5. /\ vars' = [vars EXCEPT ![n] = w]
      /\ isdirty' = (isdirty \/ isexported(n))
      /\ stack' = Drop
      /\ UNCHANGED <<binding, noexport, rebound, env>>
  BY <1>2 DEF varpop
<1> HIDE DEF n, w
<1>6. /\ vars' \in [Name -> Var \cup {None}]
      /\ isdirty' \in BOOLEAN
      /\ \A m \in Name : Sound(m)'
      /\ EnvCurrent'
  BY <1>3, <1>4, <1>5, OneVariable
<1> QED
  BY <1>1, <1>5, <1>6 DEF IInv, Typed

LEMMA ReturnInv ==
  ASSUME IInv, NEW v \in Defn, Return(v)
  PROVE  IInv'
<1>1. Top \in Frames /\ Drop \in Seq(Frames)
  BY StackFacts DEF Return, IInv, Typed
<1>2. Top \in Pending /\ Top.use = "def"
  BY <1>1 DEF Return, Frames, Saved
<1>3. Top.name \in Name
  BY <1>2 DEF Pending
<1>4. /\ Define(Top.name, v)
      /\ stack' = Drop
      /\ UNCHANGED <<binding, noexport, rebound, env>>
  BY <1>2 DEF Return
<1> QED
  BY <1>1, <1>3, <1>4, DefineInv

LEMMA RebindInv ==
  ASSUME IInv, NEW b \in Lexical, Rebind(b)
  PROVE  IInv'
<1>1. \A n \in Name : Sound(n)'
  BY DEF IInv, Rebind, Sound, Flagged, isexported, Encode
<1>2. EnvCurrent'
  BY DEF Rebind, EnvCurrent
<1> QED
  BY <1>1, <1>2 DEF IInv, Typed, Rebind

LEMMA NoexportInv ==
  ASSUME Tame, IInv, NEW S \in Noexports, setnoexport(S)
  PROVE  IInv'
<1>1. Closures = {} \/ noexport' = noexport
  BY DEF Tame, setnoexport, IInv, Typed
<1>2. \A n \in Name : Sound(n)'
  BY <1>1 DEF IInv, setnoexport, Sound, Flagged, isexported, Encode
<1>3. EnvCurrent'
  BY DEF setnoexport, EnvCurrent
<1> QED
  BY <1>2, <1>3 DEF IInv, Typed, setnoexport

\* mkenv0() keeps all of a variable but its string, which comes out right.
LEMMA MkenvFacts ==
  ASSUME IInv, NEW n \in Name
  PROVE  /\ vars[n] = None => n \notin Exports /\ mkenv0(n) = None
         /\ vars[n] # None =>
              /\ mkenv0(n) \in Var
              /\ mkenv0(n).defn = vars[n].defn
              /\ mkenv0(n).hasbindings = vars[n].hasbindings
              /\ mkenv0(n).isinternal = vars[n].isinternal
              /\ n \in Exports => mkenv0(n).env = Encode(vars[n].defn)
              /\ n \notin Exports => mkenv0(n) = vars[n]
<1>1. CASE vars[n] = None
  BY <1>1 DEF mkenv0, Exports
<1>2. CASE vars[n] # None
  <2>1. vars[n] \in Var /\ Sound(n)
    BY <1>2 DEF IInv, Typed
  <2>2. CASE n \notin Exports
    BY <1>2, <2>1, <2>2 DEF mkenv0
  <2>3. CASE n \in Exports
    <3>1. vars[n].defn \in Value /\ isexported(n)
      BY <1>2, <2>1, <2>3 DEF Exports, Var, Defn
    <3>2. Encode(vars[n].defn) \in Encoding
      BY <3>1, EncodeType DEF IInv
    <3>3. CASE vars[n].env = None \/ (rebound /\ vars[n].hasbindings)
      BY <1>2, <2>1, <2>3, <3>2, <3>3 DEF mkenv0, Var
    <3>4. CASE ~ (vars[n].env = None \/ (rebound /\ vars[n].hasbindings))
      BY <1>2, <2>1, <2>3, <3>1, <3>4 DEF mkenv0, Sound
    <3> QED
      BY <3>3, <3>4
  <2> QED
    BY <2>2, <2>3
<1> QED
  BY <1>1, <1>2

LEMMA MkenvInv ==
  ASSUME IInv, mkenv
  PROVE  IInv'
<1>1. CASE isdirty \/ rebound
  <2>1. /\ vars' = [n \in Name |-> mkenv0(n)]
        /\ env' = [n \in Exports |-> mkenv0(n).env]
        /\ ~ isdirty' /\ ~ rebound' /\ isdirty' \in BOOLEAN /\ rebound' \in BOOLEAN
        /\ UNCHANGED <<binding, noexport, stack>>
    BY <1>1 DEF mkenv
  <2>2. vars' \in [Name -> Var \cup {None}]
    BY <2>1, MkenvFacts
  <2>3. \A n \in Name : vars'[n] = mkenv0(n)
    BY <2>1
  <2>4. \A n \in Name : vars'[n] = None \/ vars[n] # None
    BY <2>3, MkenvFacts
  <2>5. \A n \in Name : Sound(n)'
    <3> SUFFICES ASSUME NEW n \in Name, vars'[n] # None PROVE Sound(n)'
      BY DEF Sound
    <3>1. vars[n] # None /\ Sound(n)
      BY <2>4 DEF IInv
    <3>2. CASE n \in Exports
      <4>1. ~ vars[n].isinternal
        BY <3>2 DEF Exports
      <4> QED
        BY <2>1, <2>3, <3>1, <3>2, <4>1, MkenvFacts DEF Sound, Flagged, Encode
    <3>3. CASE n \notin Exports
      <4>1. vars'[n] = vars[n]
        BY <2>3, <3>1, <3>3, MkenvFacts
      <4>2. (isexported(n) \/ Closures = {}) =>
              vars[n].env = None \/ vars[n].env = Encode(vars[n].defn)
        <5>1. CASE Closures = {}
          BY <3>1, <5>1 DEF Sound, Flagged
        <5>2. CASE isexported(n)
          <6>1. vars[n].isinternal \/ vars[n].defn = None
            BY <3>1, <3>3, <5>2 DEF Exports
          <6> QED
            BY <3>1, <5>2, <6>1, EnvironAssumption DEF Sound, Flagged
        <5> QED
          BY <5>1, <5>2
      <4> QED
        BY <2>1, <3>1, <4>1, <4>2 DEF Sound, Flagged, isexported, Encode
    <3> QED
      BY <3>2, <3>3
  <2>6. Exports' = Exports /\ \A n \in Exports : vars'[n].defn = vars[n].defn
    <3>1. \A n \in Name : vars'[n] = None <=> vars[n] = None
      BY <2>3, MkenvFacts, NoneIsNoVar
    <3>2. \A n \in Name : vars[n] # None =>
            /\ vars'[n].defn = vars[n].defn
            /\ vars'[n].isinternal = vars[n].isinternal
      BY <2>3, MkenvFacts
    <3>3. Exports' = Exports
      BY <2>1, <3>1, <3>2 DEF Exports, isexported
    <3> QED
      BY <3>2, <3>3 DEF Exports
  <2>7. env' = Current'
    <3>1. \A n \in Exports : mkenv0(n).env = Encode(vars[n].defn)
      BY MkenvFacts DEF Exports
    <3>2. env' = [n \in Exports |-> Encode(vars[n].defn)]
      BY <2>1, <3>1
    <3> QED
      BY <2>1, <2>6, <3>2 DEF Current, Encode
  <2>8. DOMAIN env' \subseteq Name /\ \A n \in DOMAIN env' : env'[n] \in Encoding
    <3>1. \A n \in Exports : vars[n].defn \in Value
      BY DEF Exports, IInv, Typed, Var, Defn
    <3>2. \A n \in Exports : mkenv0(n).env \in Encoding
      BY <3>1, MkenvFacts, EncodeType DEF Exports, IInv
    <3> QED
      BY <2>1, <3>2 DEF Exports
  <2> QED
    BY <2>1, <2>2, <2>5, <2>7, <2>8 DEF IInv, Typed, EnvCurrent
<1>2. CASE ~ (isdirty \/ rebound)
  <2>1. UNCHANGED state
    BY <1>2 DEF mkenv, state
  <2> QED
    BY <2>1
    DEF state, IInv, Typed, Sound, Flagged, isexported, Encode, EnvCurrent, Current, Exports
<1> QED
  BY <1>1, <1>2

LEMMA VarScanInv ==
  ASSUME IInv, VarScan
  PROVE  IInv'
<1>1. \A n \in Name : (vars'[n] = None /\ vars[n] # None) \/ vars'[n] = vars[n] \/
        /\ vars[n] # None /\ rebound /\ vars[n].hasbindings
        /\ vars'[n] = [vars[n] EXCEPT !.env = None]
  BY DEF VarScan, IInv, Typed
<1>2. vars' \in [Name -> Var \cup {None}]
  BY DEF VarScan, IInv, Typed, Var
<1>3. \A n \in Name : Sound(n)'
  <2> SUFFICES ASSUME NEW n \in Name, vars'[n] # None PROVE Sound(n)'
    BY DEF Sound
  <2>1. Sound(n) /\ vars[n] \in Var \cup {None}
    BY DEF IInv, Typed
  <2>2. CASE vars'[n] = vars[n]
    BY <2>1, <2>2 DEF VarScan, Sound, Flagged, isexported, Encode
  <2>3. CASE vars[n] # None /\ vars'[n] = [vars[n] EXCEPT !.env = None]
    <3>1. vars[n] \in Var
      BY <2>1, <2>3
    <3>2. vars'[n].env = None /\ vars'[n].defn = vars[n].defn
          /\ vars'[n].hasbindings = vars[n].hasbindings
      BY <2>3, <3>1 DEF Var
    <3> QED
      BY <2>1, <2>3, <3>2 DEF Sound, Flagged
  <2> QED
    BY <1>1, <2>2, <2>3
<1>4. EnvCurrent'
  <2> SUFFICES ASSUME ~ isdirty', ~ rebound' PROVE env' = Current'
    BY DEF EnvCurrent
  <2>1. ~ isdirty /\ ~ rebound
    BY DEF VarScan
  <2>2. vars' = vars
    BY <2>1 DEF VarScan, IInv, Typed
  <2> QED
    BY <2>1, <2>2 DEF VarScan, IInv, EnvCurrent, Current, Exports, isexported, Encode
<1> QED
  BY <1>2, <1>3, <1>4 DEF VarScan, IInv, Typed

-----------------------------------------------------------------------------
LEMMA StepInv == ASSUME Tame, IInv, [Next]_state PROVE IInv'
<1>1. ASSUME NEW n \in Name, NEW v \in Defn, vardef(n, v) PROVE IInv'
  BY <1>1, VardefInv
<1>2. ASSUME NEW n \in Locals, NEW v \in Defn, varpush(n, v) PROVE IInv'
  BY <1>2, VarpushInv
<1>3. ASSUME NEW b \in Lexical, Rebind(b) PROVE IInv'
  BY <1>3, RebindInv
<1>4. ASSUME NEW v \in Defn, Return(v) PROVE IInv'
  BY <1>4, ReturnInv
<1>5. ASSUME NEW S \in Noexports, setnoexport(S) PROVE IInv'
  BY <1>5, NoexportInv
<1>6. CASE varpop
  BY <1>6, VarpopInv
<1>7. CASE mkenv
  BY <1>7, MkenvInv
<1>8. CASE VarScan
  BY <1>8, VarScanInv
<1>9. CASE UNCHANGED state
  BY <1>9
  DEF state, IInv, Typed, Sound, Flagged, isexported, Encode, EnvCurrent, Current, Exports
<1> QED
  BY <1>1, <1>2, <1>3, <1>4, <1>5, <1>6, <1>7, <1>8, <1>9 DEF Next

\* The invariant behind the theorems.
LEMMA Invariance == ASSUME Tame PROVE Spec => []IInv
<1>1. Init => IInv
  BY InitInv
<1>2. IInv /\ [Next]_state => IInv'
  BY StepInv
<1> QED
  BY <1>1, <1>2, PTL DEF Spec

\* The stacks, flags and strings of var.c stay of their types.
THEOREM TypeCorrect == ASSUME Tame PROVE Spec => []TypeOK
<1>1. Frames \subseteq Saved \cup Pending
  BY DEF Frames
<1>2. Seq(Frames) \subseteq Seq(Saved \cup Pending)
  BY <1>1
<1>3. IInv => TypeOK
  BY <1>2 DEF IInv, Typed, TypeOK
<1> QED
  BY <1>3, Invariance, PTL

\* A command that gets the vector mkenv() built before gets every exported
\* variable with its present value. (var.c: mkenv, mkenv0, isdirty, rebound)
THEOREM EnvironmentIsCurrent == ASSUME Tame PROVE Spec => []EnvCurrent
<1>1. IInv => EnvCurrent
  BY DEF IInv
<1> QED
  BY <1>1, Invariance, PTL

\* A string kept with a variable is used again only if it is right.
\* (var.c: mkenv0, VarScan)
THEOREM StringsAreCurrent == ASSUME Tame PROVE Spec => []StringsCurrent
<1>1. IInv => StringsCurrent
  BY DEF IInv, Sound, StringsCurrent, Exports
<1> QED
  BY <1>1, Invariance, PTL

-----------------------------------------------------------------------------
(***************************************************************************)
(* Arithmetic: the checks before an operation refuse what is no integer.   *)
(***************************************************************************)

LEMMA Divided ==
  ASSUME NEW n \in Nat, NEW k \in Nat \ {0}
  PROVE  /\ n \div k \in Nat
         /\ (n \div k) * k <= n
         /\ n < (n \div k) * k + k
<1>1. n \div k \in Nat
  OBVIOUS
<1>2. n % k \in 0 .. k - 1
  OBVIOUS
<1>3. n = k * (n \div k) + (n % k)
  OBVIOUS
<1> QED
  BY <1>1, <1>2, <1>3

LEMMA Monotone ==
  ASSUME NEW a \in Int, NEW b \in Int, NEW k \in Nat, a <= b
  PROVE  a * k <= b * k
OBVIOUS

LEMMA Exceeds ==
  ASSUME NEW n \in Nat, NEW k \in Nat \ {0}, NEW a \in Int
  PROVE  /\ a > n \div k <=> a * k > n
         /\ a < -(n \div k) <=> a * k < -n
<1>1. PICK q \in Nat : q = n \div k /\ q * k <= n /\ n < q * k + k
  BY Divided
<1>2. ASSUME a > q PROVE a * k > n
  <2>1. (q + 1) * k <= a * k
    BY <1>2, Monotone
  <2>2. (q + 1) * k = q * k + k
    OBVIOUS
  <2> QED
    BY <2>1, <2>2, <1>1
<1>3. ASSUME a <= q PROVE a * k <= n
  <2>1. a * k <= q * k
    BY <1>3, Monotone
  <2> QED
    BY <2>1, <1>1
<1>4. ASSUME a < -q PROVE a * k < -n
  <2>1. a * k <= (-q - 1) * k
    BY <1>4, Monotone
  <2>2. (-q - 1) * k = -(q * k) - k
    OBVIOUS
  <2> QED
    BY <2>1, <2>2, <1>1
<1>5. ASSUME a >= -q PROVE a * k >= -n
  <2>1. (-q) * k <= a * k
    BY <1>5, Monotone
  <2>2. (-q) * k = -(q * k)
    OBVIOUS
  <2> QED
    BY <2>1, <2>2, <1>1
<1>6. a * k \in Int /\ q * k \in Int
  OBVIOUS
<1> QED
  BY <1>1, <1>2, <1>3, <1>4, <1>5, <1>6

\* The quotient is towards zero, by the signs.
LEMMA Quotients ==
  ASSUME NEW n \in Nat, NEW k \in Nat \ {0}, NEW q, q = n \div k
  PROVE  /\ Quotient(n, k) = q /\ Quotient(-n, -k) = q
         /\ Quotient(n, -k) = -q /\ Quotient(-n, k) = -q
<1>1. Abs(k) = k /\ Abs(-k) = k /\ Abs(n) = n /\ Abs(-n) = n
  BY DEF Abs
<1>2. q \in Nat
  BY Divided
<1>3. CASE n = 0
  <2>1. q = 0
    <3>1. q * k <= 0
      BY <1>3, Divided
    <3> SUFFICES ASSUME q >= 1 PROVE FALSE
      BY <1>2
    <3>2. 1 * k <= q * k
      BY <1>2, Monotone
    <3> QED
      BY <3>1, <3>2
  <2> QED
    BY <2>1, <1>1, <1>3 DEF Quotient
<1>4. CASE n # 0
  BY <1>1, <1>2, <1>4 DEF Quotient
<1> QED
  BY <1>3, <1>4

\* The remainder has the sign of the dividend, and is no further from zero.
LEMMA Remains ==
  ASSUME NEW a \in Int, NEW b \in Int \ {0}
  PROVE  /\ Quotient(a, b) \in Int /\ Remainder(a, b) \in Int
         /\ a >= 0 => 0 <= Remainder(a, b) /\ Remainder(a, b) <= a
         /\ a < 0 => a <= Remainder(a, b) /\ Remainder(a, b) <= 0
<1>1. PICK n \in Nat, k \in Nat \ {0} :
        /\ n = Abs(a) /\ (a = n \/ a = -n) /\ (a < 0 <=> a = -n /\ n # 0)
        /\ k = Abs(b) /\ (b = k \/ b = -k)
  BY DEF Abs
<1>2. PICK q \in Nat : q = n \div k /\ q * k <= n /\ n < q * k + k
  BY Divided
<1>3. /\ a >= 0 => a = n
      /\ a < 0 => a = -n
  BY <1>1
<1>4. PICK x \in Int : x = Quotient(a, b) /\ (a >= 0 => b * x = q * k) /\ (a < 0 => b * x = -(q * k))
  <2>1. CASE b = k
    <3>1. /\ a >= 0 => Quotient(a, b) = q
          /\ a < 0 => Quotient(a, b) = -q
      <4>1. Quotient(n, k) = q /\ Quotient(-n, k) = -q
        BY <1>2, Quotients
      <4> QED
        BY <4>1, <1>3, <2>1
    <3> QED
      BY <3>1, <2>1
  <2>2. CASE b = -k
    <3>1. /\ a >= 0 => Quotient(a, b) = -q
          /\ a < 0 => Quotient(a, b) = q
      <4>1. Quotient(n, -k) = -q /\ Quotient(-n, -k) = q
        BY <1>2, Quotients
      <4> QED
        BY <4>1, <1>3, <2>2
    <3> QED
      BY <3>1, <2>2
  <2> QED
    BY <1>1, <2>1, <2>2
<1>5. q * k \in Nat
  OBVIOUS
<1>6. Remainder(a, b) = a - b * x
  BY <1>4 DEF Remainder
<1> QED
  BY <1>2, <1>3, <1>4, <1>5, <1>6

LEMMA Ints ==
  /\ ES_INT_MAX \in Nat /\ ES_INT_MIN \in Int /\ ES_INT_MIN = -ES_INT_MAX - 1
  /\ \A n : n \in es_int_t <=> n \in Int /\ ES_INT_MIN <= n /\ n <= ES_INT_MAX
BY ArithAssumption DEF es_int_t, ES_INT_MIN

\* A product is refused if it is no integer, and the least one may be
\* multiplied with -1.
LEMMA Products ==
  ASSUME NEW a \in es_int_t, NEW b \in es_int_t, ~ Traps("*", a, b)
  PROVE  Overflows("*", a, b) <=> a * b \notin es_int_t
<1>1. PICK M \in Nat : M = ES_INT_MAX /\ ES_INT_MIN = -M - 1
  BY Ints
<1>2. /\ a \in Int /\ b \in Int /\ a * b \in Int
      /\ -M - 1 <= a /\ a <= M /\ -M - 1 <= b /\ b <= M
  BY <1>1, Ints
<1>3. a * b \in es_int_t <=> -M - 1 <= a * b /\ a * b <= M
  BY <1>1, <1>2, Ints
<1>4. CASE b = 0
  BY <1>1, <1>2, <1>3, <1>4 DEF Overflows
<1>5. CASE b > 0
  <2>1. Quotient(M, b) = M \div b /\ Quotient(-M - 1, b) = -((M + 1) \div b)
    <3>1. b \in Nat \ {0} /\ M + 1 \in Nat /\ -M - 1 = -(M + 1)
      BY <1>2, <1>5
    <3>2. Quotient(M, b) = M \div b /\ Quotient(-(M + 1), b) = -((M + 1) \div b)
      BY <3>1, Quotients
    <3> QED
      BY <3>1, <3>2
  <2>2. /\ a > M \div b <=> a * b > M
        /\ a < -((M + 1) \div b) <=> a * b < -(M + 1)
    BY <1>2, <1>5, Exceeds
  <2>3. Overflows("*", a, b) <=> a > Quotient(M, b) \/ a < Quotient(-M - 1, b)
    BY <1>1, <1>2, <1>5 DEF Overflows
  <2> QED
    BY <2>1, <2>2, <2>3, <1>2, <1>3
<1>6. CASE b < 0
  <2>1. PICK k \in Nat \ {0} : b = -k
    BY <1>2, <1>6
  <2>2. Quotient(M, b) = -(M \div k) /\ Quotient(-M - 1, b) = (M + 1) \div k
    <3>1. M + 1 \in Nat /\ -M - 1 = -(M + 1)
      OBVIOUS
    <3>2. Quotient(M, -k) = -(M \div k) /\ Quotient(-(M + 1), -k) = (M + 1) \div k
      BY <3>1, Quotients
    <3> QED
      BY <2>1, <3>1, <3>2
  <2>3. /\ a < -(M \div k) <=> a * k < -M
        /\ a > (M + 1) \div k <=> a * k > M + 1
    BY <1>2, Exceeds
  <2>4. Overflows("*", a, b) <=> a < Quotient(M, b) \/ a > Quotient(-M - 1, b)
    BY <1>1, <1>2, <1>6 DEF Overflows
  <2>5. a * b = -(a * k) /\ a * k \in Int
    BY <1>2, <2>1
  <2> QED
    BY <2>2, <2>3, <2>4, <2>5, <1>2, <1>3
<1> QED
  BY <1>2, <1>4, <1>5, <1>6

LEMMA Quotes ==
  ASSUME NEW a \in es_int_t, NEW b \in es_int_t, b # 0
  PROVE  Overflows("/", a, b) <=> Quotient(a, b) \notin es_int_t
<1>1. PICK M \in Nat : M = ES_INT_MAX /\ ES_INT_MIN = -M - 1
  BY Ints
<1>2. /\ a \in Int /\ b \in Int
      /\ -M - 1 <= a /\ a <= M /\ -M - 1 <= b /\ b <= M
  BY <1>1, Ints
<1>3. PICK n \in Nat, k \in Nat \ {0} :
        /\ (a >= 0 /\ n = a) \/ (a < 0 /\ n = -a)
        /\ b = k \/ b = -k
  BY <1>2
<1>4. PICK q \in Nat : q = n \div k /\ q * k <= n /\ n < q * k + k
  BY Divided
<1>5. Quotient(a, b) = q \/ Quotient(a, b) = -q
  <2>1. /\ Quotient(n, k) = q /\ Quotient(-n, -k) = q
        /\ Quotient(n, -k) = -q /\ Quotient(-n, k) = -q
    BY ZenonT(40), <1>4, Quotients
  <2>2. a = n \/ a = -n
    BY <1>2, <1>3
  <2> QED
    BY <1>3, <2>1, <2>2
<1>6. Overflows("/", a, b) <=> a = -M - 1 /\ b = -1
  BY <1>1 DEF Overflows
<1>7. CASE k = 1
  <2>1. q = n
    BY <1>4, <1>7
  <2>2. /\ Quotient(n, k) = q /\ Quotient(-n, -k) = q
        /\ Quotient(n, -k) = -q /\ Quotient(-n, k) = -q
    BY ZenonT(40), <1>4, Quotients
  <2>3. /\ a >= 0 => Quotient(a, 1) = n /\ Quotient(a, -1) = -n
        /\ a < 0 => Quotient(a, 1) = -n /\ Quotient(a, -1) = n
    <3>1. (a >= 0 => a = n) /\ (a < 0 => a = -n)
      BY <1>2, <1>3
    <3> QED
      BY <1>7, <2>1, <2>2, <3>1
  <2> QED
    BY <2>3, <1>1, <1>2, <1>3, <1>6, <1>7, Ints
<1>8. CASE k >= 2
  <2>1. q <= M
    <3>1. 2 * q <= k * q
      BY <1>8
    <3>2. k * q = q * k /\ k * q \in Nat
      OBVIOUS
    <3>3. n <= M + 1
      BY <1>2, <1>3
    <3> QED
      BY <3>1, <3>2, <3>3, <1>4
  <2>2. Quotient(a, b) \in es_int_t
    BY <2>1, <1>1, <1>5, Ints
  <2> QED
    BY <2>2, <1>3, <1>6, <1>8
<1> QED
  BY <1>7, <1>8

\* The checks refuse what is no integer, but for a difference that is one more
\* than the largest.
LEMMA ChecksAreExact ==
  ASSUME NEW op \in Operator, NEW a \in es_int_t, NEW b \in es_int_t,
         op \in {"/", "%"} => b # 0,
         ~ Traps(op, a, b),
         ~ (op = "-" /\ a - b = ES_INT_MAX + 1)
  PROVE  /\ Computed(op, a, b) \in Int
         /\ Overflows(op, a, b) <=> Computed(op, a, b) \notin es_int_t
<1>1. PICK M \in Nat : M = ES_INT_MAX /\ ES_INT_MIN = -M - 1
  BY Ints
<1>2. /\ a \in Int /\ b \in Int
      /\ -M - 1 <= a /\ a <= M /\ -M - 1 <= b /\ b <= M
  BY <1>1, Ints
<1>3. CASE op = "+"
  BY <1>1, <1>2, <1>3, Ints DEF Computed, Overflows
<1>4. CASE op = "-"
  BY <1>1, <1>2, <1>4, Ints DEF Computed, Overflows
<1>5. CASE op = "*"
  <2>1. Computed(op, a, b) = a * b /\ a * b \in Int
    BY <1>2, <1>5 DEF Computed
  <2> QED
    BY <2>1, <1>5, Products
<1>6. CASE op = "/"
  <2>1. Computed(op, a, b) = Quotient(a, b)
    BY <1>6 DEF Computed
  <2>2. Quotient(a, b) \in Int
    <3>1. b \in Int \ {0}
      BY <1>2, <1>6
    <3> QED
      BY <3>1, <1>2, Remains
  <2> QED
    BY <2>1, <2>2, <1>6, Quotes
<1>7. CASE op = "%"
  <2>1. Computed(op, a, b) = Remainder(a, b) /\ ~ Overflows(op, a, b)
    BY <1>7 DEF Computed, Overflows
  <2>2. b \in Int \ {0}
    BY <1>2, <1>7
  <2>3. /\ Remainder(a, b) \in Int
        /\ a >= 0 => 0 <= Remainder(a, b) /\ Remainder(a, b) <= a
        /\ a < 0 => a <= Remainder(a, b) /\ Remainder(a, b) <= 0
    BY <1>2, <2>2, Remains
  <2> QED
    BY <2>1, <2>3, <1>1, <1>2, Ints
<1> QED
  BY <1>3, <1>4, <1>5, <1>6, <1>7 DEF Operator

LEMMA WrappedIsInt ==
  ASSUME NEW n \in Int
  PROVE  Wrapped(n) \in es_int_t
<1>1. PICK M \in Nat : M = ES_INT_MAX /\ ES_INT_MIN = -M - 1
  BY Ints
<1>2. PICK w \in Nat \ {0} : w = 2 * M + 2 /\ w = ES_INT_MAX - ES_INT_MIN + 1
  BY <1>1
<1>3. PICK r : r = (n - ES_INT_MIN) % w
  OBVIOUS
<1>4. r \in 0 .. w - 1
  <2>1. n - ES_INT_MIN \in Int
    BY <1>1
  <2> QED
    BY <2>1, <1>3
<1>5. Wrapped(n) = r + ES_INT_MIN
  BY <1>2, <1>3 DEF Wrapped
<1> QED
  BY <1>1, <1>2, <1>4, <1>5, Ints

LEMMA WrappedInts ==
  ASSUME NEW n \in es_int_t
  PROVE  Wrapped(n) = n
<1>1. PICK M \in Nat : M = ES_INT_MAX /\ ES_INT_MIN = -M - 1
  BY Ints
<1>2. PICK w \in Nat \ {0}, x \in Nat : w = 2 * M + 2 /\ x = n + M + 1 /\ x < w
  <2>1. n \in Int /\ -M - 1 <= n /\ n <= M
    BY <1>1, Ints
  <2>2. 2 * M + 2 \in Nat \ {0} /\ n + M + 1 \in Nat /\ n + M + 1 < 2 * M + 2
    BY <2>1
  <2> QED
    BY <2>2
<1>3. x % w = x
  BY <1>2
<1>4. /\ ES_INT_MAX - ES_INT_MIN + 1 = w
      /\ n - ES_INT_MIN = x /\ x + ES_INT_MIN = n /\ n \in Int
  BY <1>1, <1>2, Ints
<1> QED
  BY <1>3, <1>4 DEF Wrapped

\* What the operands so far come to: a number of its type, or no number.
AccumTyped ==
  /\ accum.t = "nInt" => accum.v \in es_int_t
  /\ accum = Num(accum.t, accum.v)
ArithInv == AccumTyped /\ ArithmeticAsChecked

LEMMA Conversions ==
  ASSUME NEW o \in Operand
  PROVE  \E t, v : /\ Converted(o) = Num(t, v)
                   /\ t = "nInt" => v \in es_int_t
                   /\ t = "nFloat" => v \in Int
<1>1. 0 \in es_int_t
  BY Ints
<1>2. CASE o \in Numeral
  <2>1. Converted(o) = o
    <3>1. o.t \in {"nInt", "nFloat"}
      BY <1>2 DEF Numeral
    <3>2. o.t # "digits" /\ o.t # "decimal" /\ o.t # "empty"
      BY <3>1
    <3> QED
      BY <1>2, <3>2 DEF Converted
  <2>2. /\ o = Num(o.t, o.v)
        /\ o.t = "nInt" => o.v \in es_int_t
        /\ o.t = "nFloat" => o.v \in es_float_t
    BY <1>2 DEF Numeral, Num
  <2>3. \A v \in es_float_t : v \in Int
    BY ArithAssumption DEF es_float_t
  <2> QED
    BY <2>1, <2>2, <2>3
<1>3. CASE o \notin Numeral
  <2>1. \/ Converted(o) = Num("nInt", o.v) /\ o.v \in es_int_t
        \/ Converted(o) = Num("nFloat", o.v) /\ o.v \in es_int_t
        \/ Converted(o) = Num("nInt", 0)
        \/ Converted(o) = Num("fail", 0)
    BY <1>3 DEF Converted, Failure
  <2> QED
    BY <2>1, <1>1, Ints
<1> QED
  BY <1>2, <1>3

LEMMA ArithStart ==
  ASSUME NEW o \in Operand, Start(o)
  PROVE  ArithInv'
<1>1. PICK t, v : /\ Converted(o) = Num(t, v)
                  /\ t = "nInt" => v \in es_int_t
  BY Conversions
<1>2. AccumTyped'
  BY <1>1 DEF Start, AccumTyped, Num
<1>3. CASE o.t # "decimal"
  BY <1>2, <1>3 DEF ArithInv, Start, ArithmeticAsChecked, ArithmeticIsExact
<1>4. CASE o.t = "decimal" /\ o.v \in es_int_t
  <2>1. o \notin Numeral
    BY <1>4 DEF Numeral
  <2>2. Converted(o) = Num("nFloat", o.v)
    BY <2>1, <1>4 DEF Converted
  <2> QED
    BY <1>2, <1>4, <2>2 DEF Start, ArithInv, ArithmeticAsChecked, ArithmeticIsExact
<1>5. CASE o.t = "decimal" /\ o.v \notin es_int_t
  BY <1>2, <1>5 DEF ArithInv, Start, ArithmeticAsChecked
<1> QED
  BY <1>2, <1>3, <1>4, <1>5 DEF ArithInv

LEMMA ArithOperate ==
  ASSUME ArithInv, NEW o \in Operand, NEW op \in Operator, Operate(op, o)
  PROVE  ArithInv'
<1>1. PICK s, b : /\ Converted(o) = Num(s, b)
                  /\ s = "nInt" => b \in es_int_t
  BY Conversions
<1>2. PICK t, a, r : t = coerce_operands(accum, Converted(o)) /\ a = accum.v /\ r = accum.t
  OBVIOUS
<1>3. /\ accum = exact /\ ~ chance /\ r \in {"nInt", "nFloat"} /\ s \in {"nInt", "nFloat"}
      /\ Converted(o).v = b /\ Converted(o).t = s
  BY <1>1, <1>2 DEF ArithInv, ArithmeticAsChecked, ArithmeticIsExact, Operate, Goes,
     IsNumber, Num
<1>4. /\ accum' = do_op(op, t, a, b) /\ exact' = Exactly(op, t, a, b)
      /\ chance' = \/ t = "nInt" /\ Traps(op, a, b)
                   \/ t = "nInt" /\ op = "-" /\ a - b = ES_INT_MAX + 1
  BY <1>2, <1>3 DEF Operate
<1>5. \/ t = "nFloat"
      \/ t = "nInt" /\ a \in es_int_t /\ b \in es_int_t
  BY <1>1, <1>2, <1>3 DEF coerce_operands, ArithInv, AccumTyped
<1>6. CASE op \in {"/", "%"} /\ b = 0
  BY <1>4, <1>6 DEF do_op, Exactly, ArithInv, AccumTyped, ArithmeticAsChecked,
     ArithmeticIsExact, Failure, Num
<1>7. CASE ~ (op \in {"/", "%"} /\ b = 0) /\ t = "nFloat"
  BY <1>4, <1>7 DEF do_op, Exactly, ArithInv, AccumTyped, ArithmeticAsChecked,
     ArithmeticIsExact, Num
<1>8. CASE ~ (op \in {"/", "%"} /\ b = 0) /\ t = "nInt"
  <2>1. CASE Traps(op, a, b)
    BY <2>1, <1>4, <1>8 DEF do_op, ArithInv, AccumTyped, ArithmeticAsChecked, Trap, Num
  <2>2. CASE ~ Traps(op, a, b) /\ op = "-" /\ a - b = ES_INT_MAX + 1
    <3>1. chance'
      BY <2>2, <1>4, <1>8
    <3>2. accum' = Failure \/ accum' = Num("nInt", Wrapped(Computed(op, a, b)))
      BY <2>2, <1>4, <1>8 DEF do_op
    <3>3. Wrapped(Computed(op, a, b)) \in es_int_t
      <4>1. Computed(op, a, b) = ES_INT_MAX + 1 /\ ES_INT_MAX + 1 \in Int
        BY <2>2, Ints DEF Computed
      <4> QED
        BY <4>1, WrappedIsInt
    <3> QED
      BY <3>1, <3>2, <3>3 DEF ArithInv, AccumTyped, ArithmeticAsChecked, Failure, Num
  <2>3. CASE ~ Traps(op, a, b) /\ ~ (op = "-" /\ a - b = ES_INT_MAX + 1)
    <3>1. PICK n : n = Computed(op, a, b)
      OBVIOUS
    <3>2. Overflows(op, a, b) <=> n \notin es_int_t
      BY <3>1, <2>3, <1>5, <1>8, ChecksAreExact
    <3>3. n \in es_int_t => Wrapped(n) = n
      BY WrappedInts
    <3>4. /\ accum' = IF n \notin es_int_t THEN Failure ELSE Num(t, n)
          /\ exact' = IF n \notin es_int_t THEN Failure ELSE Num(t, n)
      BY <3>1, <3>2, <3>3, <2>3, <1>4, <1>8 DEF do_op, Exactly
    <3> QED
      BY <3>4, <1>8 DEF ArithInv, AccumTyped, ArithmeticAsChecked, ArithmeticIsExact,
         Failure, Num
  <2> QED
    BY <2>1, <2>2, <2>3
<1> QED
  BY <1>5, <1>6, <1>7, <1>8

LEMMA ArithCompare ==
  ASSUME ArithInv, NEW o \in Operand, NEW cmp \in Comparison, Compare(cmp, o)
  PROVE  ArithInv'
<1>1. accum = exact
  BY DEF ArithInv, ArithmeticAsChecked, ArithmeticIsExact, Compare, Goes
<1>2. PICK t, b : t = coerce_operands(accum, Converted(o)) /\ b = Converted(o).v
  OBVIOUS
<1>3. /\ accum' = Num("nCmp", Truth(Compared(cmp, t, accum.v, b)))
      /\ exact' = Num("nCmp", Truth(Holds(cmp, accum.v, b)))
      /\ chance' = ByBits(cmp, t)
  BY <1>1, <1>2 DEF Compare
<1>4. ~ ByBits(cmp, t) => Compared(cmp, t, accum.v, b) = Holds(cmp, accum.v, b)
  BY DEF Compared
<1>5. AccumTyped'
  BY <1>3 DEF AccumTyped, Num
<1> QED
  BY <1>3, <1>4, <1>5 DEF ArithInv, ArithmeticAsChecked, ArithmeticIsExact

\* Whatever the width of integers, an expression has its value, or an error
\* where there is no integer for it, unless it takes one of the steps that are
\* not checked. (glom.c: do_op, arithmefy)
THEOREM ArithmeticIsChecked == ArithSpec => []ArithmeticAsChecked
<1>1. ArithInit => ArithInv
  BY DEF ArithInit, ArithInv, AccumTyped, Nothing, Num, ArithmeticAsChecked,
     ArithmeticIsExact
<1>2. ArithInv /\ [ArithNext]_arithvars => ArithInv'
  <2>1. CASE UNCHANGED arithvars
    BY <2>1 DEF arithvars, ArithInv, AccumTyped, ArithmeticAsChecked, ArithmeticIsExact
  <2> QED
    BY <2>1, ArithStart, ArithOperate, ArithCompare DEF ArithNext
<1> QED
  BY <1>1, <1>2, PTL DEF ArithSpec, ArithInv

-----------------------------------------------------------------------------
(***************************************************************************)
(* Subscripts: the place the loop keeps is never past where it goes on.    *)
(***************************************************************************)

SubscriptsInv ==
  /\ len \in Nat /\ counter \in Nat /\ rev \in BOOLEAN
  /\ SubscriptsAsDescribed

LEMMA Spans ==
  ASSUME NEW lo \in Nat, NEW hi \in Nat
  PROVE  Span(lo, hi) \in Seq(Nat) /\ Len(Span(lo, hi)) \in Nat
<1>1. PICK n \in Nat : n = IF lo <= hi THEN hi - lo + 1 ELSE 0
  <2>1. lo <= hi => hi - lo + 1 \in Nat
    OBVIOUS
  <2> QED
    BY <2>1
<1>2. \A i \in 1 .. n : lo + i - 1 \in Nat
  OBVIOUS
<1>3. [i \in 1 .. n |-> lo + i - 1] \in [1 .. n -> Nat]
  BY <1>2
<1>4. [i \in 1 .. n |-> lo + i - 1] \in Seq(Nat)
  BY <1>3
<1> QED
  BY <1>1, <1>4 DEF Span

LEMMA SubscriptTakes ==
  ASSUME SubscriptsInv, NEW lo \in Sub, NEW hi \in Sub \cup {NoRange}, subscript(lo, hi)
  PROVE  SubscriptsInv'
<1>1. /\ lo \in Nat /\ len \in Nat /\ counter \in Nat /\ rev \in BOOLEAN
      /\ hi = NoRange \/ hi \in Nat
  BY SubscriptsAssumption DEF SubscriptsInv, Sub
<1>2. PICK end : end = IF hi = NoRange THEN lo ELSE IF hi > len THEN len ELSE hi
  OBVIOUS
<1>3. end \in Nat
  BY <1>1, <1>2
<1>4. CASE badsub' \/ lo > len
  BY <1>4 DEF subscript, SubscriptsInv, SubscriptsAsDescribed
<1>5. CASE ~ (badsub' \/ lo > len)
  <2>1. PICK l, h, first : /\ l = IF lo > end THEN end ELSE lo
                           /\ h = IF lo > end THEN lo ELSE end
                           /\ first = IF Restart(lo) < l THEN l ELSE Restart(lo)
    OBVIOUS
  <2>2. Restart(lo) \in Nat /\ Restart(lo) <= lo
    <3>1. lo # 0
      BY <1>5 DEF subscript
    <3> QED
      BY <1>1, <3>1 DEF Restart
  <2>3. l \in Nat /\ h \in Nat /\ first \in Nat
    BY <1>1, <1>3, <2>1, <2>2
  <2>4. /\ rev' = (rev \/ lo > end)
        /\ subscripted' = subscripted \o
             (IF rev' THEN Reverse(Span(first, h)) ELSE Span(first, h))
        /\ counter' = first + Len(Span(first, h))
        /\ described' = described \o
             (IF lo <= end THEN Span(lo, end) ELSE Reverse(Span(end, lo)))
        /\ len' = len
    BY <1>2, <1>5, <2>1 DEF subscript, Take
  <2>5. counter' \in Nat
    BY <2>3, <2>4, Spans
  <2>6. ASSUME ~ rev' PROVE subscripted' = described'
    <3>1. ~ rev /\ lo <= end
      <4>1. ~ rev /\ ~ (lo > end)
        BY <2>4, <2>6
      <4> QED
        BY <4>1, <1>1, <1>3
    <3>2. subscripted = described
      BY <3>1 DEF SubscriptsInv, SubscriptsAsDescribed
    <3>3. first = lo /\ h = end
      <4>1. ~ (lo > end)
        BY <1>1, <1>3, <3>1
      <4>2. l = lo /\ h = end
        BY <2>1, <4>1
      <4>3. Restart(lo) < lo \/ Restart(lo) = lo
        BY <1>1, <2>2
      <4> QED
        BY <2>1, <4>2, <4>3
    <3> QED
      BY <2>4, <2>6, <3>1, <3>2, <3>3
  <2> QED
    BY <1>1, <2>4, <2>5, <2>6 DEF SubscriptsInv, SubscriptsAsDescribed
<1> QED
  BY <1>4, <1>5

\* Whatever the list and the subscripts, they select what they name, in their
\* order, until a range is in reverse: the place the loop has kept is never
\* past the one it goes on to. (glom.c: subscript)
THEOREM SubscriptsSelect == SubscriptsSpec => []SubscriptsAsDescribed
<1>1. ASSUME SubscriptsInit PROVE SubscriptsInv
  <2>1. len \in Nat /\ counter \in Nat
    BY <1>1, SubscriptsAssumption DEF SubscriptsInit
  <2>2. rev \in BOOLEAN
    BY <1>1 DEF SubscriptsInit
  <2>3. subscripted = described
    BY <1>1 DEF SubscriptsInit
  <2> QED
    BY <2>1, <2>2, <2>3 DEF SubscriptsInv, SubscriptsAsDescribed
<1>2. SubscriptsInv /\ [SubscriptsNext]_subvars => SubscriptsInv'
  <2>1. CASE UNCHANGED subvars
    BY <2>1 DEF subvars, SubscriptsInv, SubscriptsAsDescribed
  <2> QED
    BY <2>1, SubscriptTakes DEF SubscriptsNext
<1> QED
  BY <1>1, <1>2, PTL DEF SubscriptsSpec, SubscriptsInv

-----------------------------------------------------------------------------
(***************************************************************************)
(* Dictionaries: what is on the way to a name is never empty.              *)
(***************************************************************************)

\* Division with remainder.
LEMMA RemainderIs ==
  ASSUME NEW z \in Nat \ {0}, NEW q \in Int, NEW r \in 0 .. z - 1, NEW x \in Int,
         x = z * q + r
  PROVE  x % z = r
<1>1. PICK p \in Int, s \in 0 .. z - 1 : p = x \div z /\ s = x % z /\ x = z * p + s
  OBVIOUS
<1>a. z * p \in Int /\ z * q \in Int /\ (z * p) + s = (z * q) + r
  BY <1>1
<1>2. ASSUME p < q PROVE FALSE
  <2>1. z * (q - p) >= z * 1
    BY <1>2
  <2>2. z * (q - p) = z * q - z * p
    OBVIOUS
  <2>3. z * q - z * p = s - r
    BY <1>a
  <2> QED
    BY <1>a, <2>1, <2>2, <2>3
<1>3. ASSUME q < p PROVE FALSE
  <2>1. z * (p - q) >= z * 1
    BY <1>3
  <2>2. z * (p - q) = z * p - z * q
    OBVIOUS
  <2>3. z * p - z * q = r - s
    BY <1>a
  <2> QED
    BY <1>a, <2>1, <2>2, <2>3
<1> QED
  BY <1>1, <1>2, <1>3

LEMMA RemainderOf ==
  ASSUME NEW z \in Nat \ {0}, NEW x \in Int, NEW y \in Int
  PROVE  ((x % z) + y) % z = (x + y) % z
<1>1. PICK p \in Int, s \in 0 .. z - 1 : p = x \div z /\ s = x % z /\ x = z * p + s
  OBVIOUS
<1>2. PICK q \in Int, r \in 0 .. z - 1 :
        q = (s + y) \div z /\ r = (s + y) % z /\ s + y = z * q + r
  <2>1. s + y \in Int
    OBVIOUS
  <2> QED
    BY <2>1
<1>3. PICK c \in Int, e \in Int, u \in Int, w \in Int :
        c = p + q /\ e = x + y /\ u = z * p /\ w = z * q
  OBVIOUS
<1>4. z * c = u + w
  BY <1>3
<1>5. x = u + s /\ s + y = w + r
  BY <1>1, <1>2, <1>3
<1>6. e = u + w + r
  BY <1>3, <1>5
<1>7. e % z = r
  <2>1. e = z * c + r /\ c \in Int /\ r \in 0 .. z - 1 /\ e \in Int
    BY <1>4, <1>6
  <2> HIDE <1>1, <1>2
  <2> QED
    BY <2>1, RemainderIs
<1> QED
  BY <1>1, <1>2, <1>3, <1>7

LEMMA RemainderSmall ==
  ASSUME NEW z \in Nat \ {0}, NEW x \in 0 .. z - 1
  PROVE  x % z = x /\ (x + z) % z = x
<1>1. x = z * 0 + x /\ x + z = z * 1 + x
  OBVIOUS
<1> QED
  BY <1>1, RemainderIs

-----------------------------------------------------------------------------
\* The slots of a name, in a table of the size z with the hash function f.
At(f, z, n, k) == (f[n] + k) % z

LEMMA AtSlot ==
  ASSUME NEW z \in Nat \ {0}, NEW f \in [Key -> Nat], NEW n \in Key
  PROVE  /\ \A k \in Nat : At(f, z, n, k) \in 0 .. z - 1
         /\ \A i \in 0 .. z - 1 : \E k \in 0 .. z - 1 : At(f, z, n, k) = i
<1>1. PICK h \in Nat : h = f[n]
  OBVIOUS
<1>2. \A k \in Nat : (h + k) % z \in 0 .. z - 1
  OBVIOUS
<1>3. ASSUME NEW i \in 0 .. z - 1 PROVE \E k \in 0 .. z - 1 : (h + k) % z = i
  <2>1. PICK r \in 0 .. z - 1 : r = h % z
    OBVIOUS
  <2>2. \A k \in Int : (h + k) % z = (r + k) % z
    <3> SUFFICES ASSUME NEW k \in Int PROVE (h + k) % z = (r + k) % z
      OBVIOUS
    <3>1. h \in Int
      OBVIOUS
    <3> QED
      BY <3>1, <2>1, RemainderOf
  <2>3. CASE r <= i
    <3>1. PICK k \in 0 .. z - 1 : r + k = i
      <4>1. i - r \in 0 .. z - 1 /\ r + (i - r) = i
        BY <2>3
      <4> QED
        BY <4>1
    <3>2. (h + k) % z = i % z
      <4>1. k \in Int
        OBVIOUS
      <4>2. (h + k) % z = (r + k) % z
        BY <2>2, <4>1
      <4> QED
        BY <3>1, <4>2
    <3> QED
      BY <3>2, RemainderSmall
  <2>4. CASE r > i
    <3>1. PICK k \in 0 .. z - 1 : r + k = i + z
      <4>1. i - r + z \in 0 .. z - 1 /\ r + (i - r + z) = i + z
        BY <2>4
      <4> QED
        BY <4>1
    <3>2. (h + k) % z = (i + z) % z
      BY SMTT(30), <2>2, <3>1
    <3> QED
      BY <3>2, RemainderSmall
  <2> QED
    BY <2>3, <2>4
<1> QED
  BY <1>1, <1>2, <1>3 DEF At

\* A name in the table is found before the search for it ends, and only once;
\* an empty slot has no value.
Probed(f, z, t) ==
  \A i \in 0 .. z - 1 : t[i].name \in Key =>
    \E k \in 0 .. z - 1 :
      /\ At(f, z, t[i].name, k) = i
      /\ \A j \in 0 .. k - 1 : t[At(f, z, t[i].name, j)].name # NULL
Once(z, t) ==
  \A i, j \in 0 .. z - 1 : t[i].name \in Key /\ t[i].name = t[j].name => i = j
Hashed(f, z, t) ==
  /\ t \in [0 .. z - 1 -> Assoc]
  /\ Probed(f, z, t) /\ Once(z, t)
  /\ \A i \in 0 .. z - 1 : t[i].name = NULL => t[i].value = NULL

LEMMA Names == DEAD \notin Key /\ NULL \notin Key /\ DEAD # NULL /\ NULL \notin Datum
BY DictAssumption

LEMMA Entries ==
  /\ Empty \in Assoc /\ Empty.name = NULL /\ Empty.value = NULL
  /\ NoEntry \in Assoc /\ NoEntry.name = DEAD /\ NoEntry.value = NULL
  /\ \A n \in Key \cup {NULL, DEAD}, v \in Datum \cup {NULL} :
       /\ [name |-> n, value |-> v] \in Assoc
       /\ [name |-> n, value |-> v].name = n /\ [name |-> n, value |-> v].value = v
BY DEF Empty, NoEntry, Assoc

LEMMA FirstIs ==
  ASSUME size \in Nat \ {0}, hash \in [Key -> Nat], NEW n \in Key, NEW names,
         NEW i \in 0 .. size - 1, table[i].name \in names
  PROVE  \E k \in 0 .. size - 1 :
           /\ FirstSlot(n, names) = At(hash, size, n, k)
           /\ table[At(hash, size, n, k)].name \in names
           /\ \A j \in 0 .. k - 1 : table[At(hash, size, n, j)].name \notin names
<1>1. PICK z \in Nat \ {0} : z = size
  OBVIOUS
<1> DEFINE S == {k \in 0 .. z - 1 : table[Slot(n, k)].name \in names}
<1>2. \A k : Slot(n, k) = At(hash, size, n, k)
  BY DEF Slot, At
<1>3. \E k \in 0 .. z - 1 : At(hash, size, n, k) = i
  BY <1>1, AtSlot
<1>4. S # {} /\ S \in SUBSET Nat
  BY <1>1, <1>2, <1>3
<1>5. PICK m \in S : \A k \in S : m <= k
  <2> HIDE DEF S
  <2> QED
    BY <1>4, LeastNumber
<1>6. /\ m \in 0 .. z - 1 /\ table[Slot(n, m)].name \in names
      /\ \A j \in 0 .. m - 1 : table[Slot(n, j)].name \notin names
  BY <1>5
<1> DEFINE P(k) == /\ table[Slot(n, k)].name \in names
                   /\ \A j \in 0 .. k - 1 : table[Slot(n, j)].name \notin names
<1>7. PICK c : c = CHOOSE k \in 0 .. z - 1 : P(k)
  OBVIOUS
<1>8. c \in 0 .. z - 1 /\ P(c)
  <2>1. \E k \in 0 .. z - 1 : P(k)
    BY <1>6
  <2> HIDE DEF P
  <2> QED
    BY <1>7, <2>1
<1>9. FirstSlot(n, names) = Slot(n, c)
  BY <1>1, <1>7 DEF FirstSlot, Slots
<1> QED
  BY <1>1, <1>2, <1>8, <1>9

\* Names that stay in slots that stay in use are found as before.
LEMMA ProbedKept ==
  ASSUME NEW f \in [Key -> Nat], NEW z \in Nat \ {0}, NEW t, NEW t2, Probed(f, z, t),
         \A i \in 0 .. z - 1 : t2[i].name \in Key => t[i].name = t2[i].name,
         \A i \in 0 .. z - 1 : t[i].name # NULL => t2[i].name # NULL
  PROVE  Probed(f, z, t2)
<1> SUFFICES ASSUME NEW i \in 0 .. z - 1, t2[i].name \in Key
             PROVE  \E k \in 0 .. z - 1 :
                      /\ At(f, z, t2[i].name, k) = i
                      /\ \A j \in 0 .. k - 1 : t2[At(f, z, t2[i].name, j)].name # NULL
  BY DEF Probed
<1>1. PICK k \in 0 .. z - 1 :
        /\ At(f, z, t[i].name, k) = i
        /\ \A j \in 0 .. k - 1 : t[At(f, z, t[i].name, j)].name # NULL
  BY DEF Probed
<1>2. ASSUME NEW j \in 0 .. k - 1 PROVE t2[At(f, z, t2[i].name, j)].name # NULL
  <2>1. PICK m \in Key : m = t[i].name /\ m = t2[i].name
    OBVIOUS
  <2>2. At(f, z, m, j) \in 0 .. z - 1
    BY AtSlot
  <2> QED
    BY <2>1, <2>2, <1>1
<1> QED
  BY <1>1, <1>2

\* The entry goes to the first slot on its way that is dead or empty.
LEMMA PutHashed ==
  ASSUME NEW f \in [Key -> Nat], NEW z \in Nat \ {0}, NEW t, NEW t2, Hashed(f, z, t),
         NEW n \in Key, NEW k \in 0 .. z - 1, NEW s, s = At(f, z, n, k),
         t[s].name \in {NULL, DEAD},
         \A j \in 0 .. k - 1 : t[At(f, z, n, j)].name # NULL,
         \A i \in 0 .. z - 1 : t[i].name # n,
         t2 \in [0 .. z - 1 -> Assoc], t2[s].name = n,
         \A i \in 0 .. z - 1 : i # s => t2[i] = t[i]
  PROVE  Hashed(f, z, t2)
<1>1. s \in 0 .. z - 1 /\ t \in [0 .. z - 1 -> Assoc]
  BY AtSlot DEF Hashed
<1>2. PICK e : e = t2[s] /\ e.name = n
  OBVIOUS
<1>3. /\ t2 \in [0 .. z - 1 -> Assoc]
      /\ t2[s] = e /\ \A i \in 0 .. z - 1 : i # s => t2[i] = t[i]
  BY <1>1, <1>2
<1>4. ASSUME NEW i \in 0 .. z - 1, NEW j \in 0 .. z - 1,
             t2[i].name \in Key, t2[i].name = t2[j].name
      PROVE  i = j
  BY <1>2, <1>3, <1>4 DEF Hashed, Once
<1>5. ASSUME NEW i \in 0 .. z - 1, t2[i].name = NULL PROVE t2[i].value = NULL
  BY <1>2, <1>3, <1>5, Names DEF Hashed
<1>6. ASSUME NEW i \in 0 .. z - 1, NEW m, m = t2[i].name, m \in Key
      PROVE  \E l \in 0 .. z - 1 :
               /\ At(f, z, m, l) = i
               /\ \A j \in 0 .. l - 1 : t2[At(f, z, m, j)].name # NULL
  <2>0. \A c \in 0 .. z - 1 : t[c].name # NULL => t2[c].name # NULL
    BY <1>2, <1>3, Names
  <2>a. \A j \in Nat : At(f, z, m, j) \in 0 .. z - 1
    BY <1>6, AtSlot
  <2>1. CASE i = s
    <3>1. m = n
      BY <2>1, <1>2, <1>3, <1>6
    <3>2. ASSUME NEW j \in 0 .. k - 1 PROVE t2[At(f, z, m, j)].name # NULL
      <4>0. j \in Nat
        OBVIOUS
      <4>1. At(f, z, m, j) \in 0 .. z - 1
        BY <2>a, <4>0
      <4> QED
        BY <4>1, <3>1, <2>0
    <3> QED
      BY <3>1, <3>2, <2>1
  <2>2. CASE i # s
    <3>1. m = t[i].name
      BY <2>2, <1>3, <1>6
    <3>2. PICK l \in 0 .. z - 1 :
            /\ At(f, z, m, l) = i
            /\ \A j \in 0 .. l - 1 : t[At(f, z, m, j)].name # NULL
      <4>1. t[i].name \in Key /\ Probed(f, z, t)
        BY <3>1, <1>6 DEF Hashed
      <4>2. \E l \in 0 .. z - 1 :
              /\ At(f, z, t[i].name, l) = i
              /\ \A j \in 0 .. l - 1 : t[At(f, z, t[i].name, j)].name # NULL
        BY <4>1 DEF Probed
      <4> QED
        BY <4>2, <3>1
    <3>3. ASSUME NEW j \in 0 .. l - 1 PROVE t2[At(f, z, m, j)].name # NULL
      <4>0. j \in Nat
        OBVIOUS
      <4>1. At(f, z, m, j) \in 0 .. z - 1
        BY <2>a, <4>0
      <4> QED
        BY <4>1, <3>2, <2>0
    <3> QED
      BY <3>2, <3>3
  <2> QED
    BY <2>1, <2>2
<1>7. Probed(f, z, t2)
  BY SMTT(30), <1>6 DEF Probed
<1>8. Once(z, t2)
  BY <1>4 DEF Once
<1> QED
  BY <1>1, <1>2, <1>3, <1>5, <1>7, <1>8 DEF Hashed

\* Slots that only lead to the empty slot a through dead ones.
Before(z, a, d) == (a + z - d) % z
LeadsNowhere(z, t, a) ==
  {Before(z, a, d) : d \in {i \in 1 .. z :
                              \A j \in 1 .. i : t[Before(z, a, j)].name = DEAD}}

LEMMA LeadsBack ==
  ASSUME NEW z \in Nat \ {0}, NEW a \in 0 .. z - 1
  PROVE  /\ \A d \in 0 .. z : Before(z, a, d) \in 0 .. z - 1
         /\ Before(z, a, 0) = a
         /\ \A d \in 0 .. z : \A e \in 0 .. d :
              (Before(z, a, d) + e) % z = Before(z, a, d - e)
<1>1. ASSUME NEW d \in 0 .. z PROVE Before(z, a, d) \in 0 .. z - 1
  <2>1. a + z - d \in Nat
    OBVIOUS
  <2> QED
    BY <2>1 DEF Before
<1>2. Before(z, a, 0) = a
  <2>1. a + z - 0 = a + z
    OBVIOUS
  <2> QED
    BY <2>1, RemainderSmall DEF Before
<1>3. ASSUME NEW d \in 0 .. z, NEW e \in 0 .. d
      PROVE  (Before(z, a, d) + e) % z = Before(z, a, d - e)
  <2>1. PICK x \in Int : x = a + z - d /\ x + e = a + z - (d - e)
    OBVIOUS
  <2>2. e \in Int
    OBVIOUS
  <2>3. ((x % z) + e) % z = (x + e) % z
    BY <2>2, RemainderOf
  <2> QED
    BY <2>1, <2>3 DEF Before
<1> QED
  BY <1>1, <1>2, <1>3

\* They are emptied, and no name that is left was found by way of them.
LEMMA EmptiedHashed ==
  ASSUME NEW f \in [Key -> Nat], NEW z \in Nat \ {0}, NEW t, NEW t2, Hashed(f, z, t),
         NEW a \in 0 .. z - 1, t[a].name = NULL,
         NEW E, E = LeadsNowhere(z, t, a), t2 \in [0 .. z - 1 -> Assoc],
         \A i \in 0 .. z - 1 : t2[i] = IF i \in E THEN Empty ELSE t[i]
  PROVE  /\ Hashed(f, z, t2)
         /\ E \subseteq 0 .. z - 1 /\ \A i \in E : t[i].name = DEAD
<1>1. ASSUME NEW i \in E
      PROVE  \E d \in 1 .. z : /\ i = Before(z, a, d)
                               /\ \A j \in 1 .. d : t[Before(z, a, j)].name = DEAD
  BY DEF LeadsNowhere
<1>2. ASSUME NEW i \in E PROVE i \in 0 .. z - 1 /\ t[i].name = DEAD
  <2>1. PICK d \in 1 .. z : /\ i = Before(z, a, d)
                            /\ \A j \in 1 .. d : t[Before(z, a, j)].name = DEAD
    BY <1>1
  <2>2. d \in 0 .. z /\ d \in 1 .. d
    OBVIOUS
  <2> QED
    BY <2>1, <2>2, LeadsBack
<1>3. \A i \in 0 .. z - 1 : t2[i] = IF i \in E THEN Empty ELSE t[i]
  OBVIOUS
<1>4. t2 \in [0 .. z - 1 -> Assoc]
  OBVIOUS
<1>5. \A i \in 0 .. z - 1 : t2[i].name \in Key => i \notin E /\ t2[i] = t[i]
  BY <1>3, Entries, Names
<1>6. Once(z, t2)
  <2> SUFFICES ASSUME NEW i \in 0 .. z - 1, NEW j \in 0 .. z - 1,
                      t2[i].name \in Key, t2[i].name = t2[j].name
               PROVE  i = j
    BY DEF Once
  <2>1. t2[i] = t[i] /\ t2[j] = t[j]
    BY <1>5
  <2> QED
    BY <2>1 DEF Hashed, Once
<1>7. \A i \in 0 .. z - 1 : t2[i].name = NULL => t2[i].value = NULL
  BY <1>3, Entries DEF Hashed
<1>8. ASSUME NEW i \in 0 .. z - 1, NEW m \in Key, m = t2[i].name
      PROVE  \E k \in 0 .. z - 1 :
               /\ At(f, z, m, k) = i
               /\ \A j \in 0 .. k - 1 : t2[At(f, z, m, j)].name # NULL
  <2>1. m = t[i].name
    BY <1>5, <1>8
  <2>2. PICK k \in 0 .. z - 1 :
          /\ At(f, z, m, k) = i
          /\ \A j \in 0 .. k - 1 : t[At(f, z, m, j)].name # NULL
    BY <2>1 DEF Hashed, Probed
  <2>3. ASSUME NEW j \in 0 .. k - 1, t2[At(f, z, m, j)].name = NULL PROVE FALSE
    <3>1. PICK c \in 0 .. z - 1 : c = At(f, z, m, j)
      <4>1. j \in Nat
        OBVIOUS
      <4> QED
        BY <4>1, AtSlot
    <3>2. c \in E
      BY <3>1, <2>2, <2>3, <1>3
    <3>3. PICK d \in 1 .. z : /\ c = Before(z, a, d)
                              /\ \A l \in 1 .. d : t[Before(z, a, l)].name = DEAD
      BY <3>2, <1>1
    <3>4. ASSUME NEW e \in 0 .. d PROVE At(f, z, m, j + e) = Before(z, a, d - e)
      <4>1. PICK x \in Int : x = f[m] + j /\ f[m] + (j + e) = x + e
        OBVIOUS
      <4>2. e \in Int /\ d \in 0 .. z
        OBVIOUS
      <4>3. ((x % z) + e) % z = (x + e) % z
        BY <4>2, RemainderOf
      <4>4. x % z = c
        BY <3>1, <4>1 DEF At
      <4>5. (c + e) % z = Before(z, a, d - e)
        BY <3>3, <4>2, LeadsBack
      <4> QED
        BY <4>1, <4>3, <4>4, <4>5 DEF At
    <3>5. CASE j + d < k
      <4>1. j + d \in 0 .. k - 1 /\ d \in 0 .. d /\ d - d = 0
        BY <3>5
      <4>2. At(f, z, m, j + d) = a
        BY <4>1, <3>4, LeadsBack
      <4> QED
        BY <4>1, <4>2, <2>2
    <3>6. CASE k <= j + d
      <4>1. PICK e \in 0 .. d : j + e = k /\ d - e \in 0 .. d
        <5>1. k - j \in 0 .. d /\ j + (k - j) = k /\ d - (k - j) \in 0 .. d
          BY <3>6
        <5> QED
          BY <5>1
      <4>2. i = Before(z, a, d - e)
        BY <4>1, <3>4, <2>2
      <4>3. CASE d - e = 0
        <5>1. i = a
          BY <4>2, <4>3, LeadsBack
        <5> QED
          BY <5>1, <2>1, Names
      <4>4. CASE d - e # 0
        <5>1. d - e \in 1 .. d
          BY <4>1, <4>4
        <5>2. t[i].name = DEAD
          BY <5>1, <4>2, <3>3
        <5> QED
          BY <5>2, <2>1, Names
      <4> QED
        BY <4>3, <4>4
    <3> QED
      BY <3>5, <3>6
  <2> QED
    BY <2>2, <2>3
<1>9. Probed(f, z, t2)
  BY <1>8 DEF Probed
<1> QED
  BY <1>2, <1>3, <1>4, <1>6, <1>7, <1>9 DEF Hashed

\* An entry is marked dead.
LEMMA MarkedHashed ==
  ASSUME NEW f \in [Key -> Nat], NEW z \in Nat \ {0}, NEW t, NEW t2, Hashed(f, z, t),
         NEW s \in 0 .. z - 1, t2 \in [0 .. z - 1 -> Assoc], t2[s].name = DEAD,
         \A i \in 0 .. z - 1 : i # s => t2[i] = t[i]
  PROVE  Hashed(f, z, t2)
<1>1. PICK e : e = t2[s] /\ e.name = DEAD
  OBVIOUS
<1>2. /\ t2 \in [0 .. z - 1 -> Assoc]
      /\ t2[s] = e /\ \A i \in 0 .. z - 1 : i # s => t2[i] = t[i]
  BY <1>1
<1>3. \A i \in 0 .. z - 1 : t2[i].name \in Key => t[i] = t2[i]
  BY <1>1, <1>2, Names
<1>4. \A i \in 0 .. z - 1 : t[i].name # NULL => t2[i].name # NULL
  BY <1>1, <1>2, Names
<1>5. Probed(f, z, t2)
  BY <1>3, <1>4, ProbedKept DEF Hashed
<1>6. Once(z, t2)
  <2> SUFFICES ASSUME NEW i \in 0 .. z - 1, NEW j \in 0 .. z - 1,
                      t2[i].name \in Key, t2[i].name = t2[j].name
               PROVE  i = j
    BY DEF Once
  <2>1. t2[i] = t[i] /\ t2[j] = t[j]
    BY <1>3
  <2> QED
    BY <2>1 DEF Hashed, Once
<1>7. \A i \in 0 .. z - 1 : t2[i].name = NULL => t2[i].value = NULL
  BY <1>1, <1>2, Names DEF Hashed
<1> QED
  BY <1>1, <1>2, <1>5, <1>6, <1>7 DEF Hashed

\* What a table says of a name.
Kept(z, t, n, v) == \E i \in 0 .. z - 1 : t[i].name = n /\ t[i].value = v
Absent(z, t, n) == \A i \in 0 .. z - 1 : t[i].name # n
Says(z, t, n, v) == IF v = NULL THEN Absent(z, t, n) ELSE Kept(z, t, n, v)

Filled(z, t) == {i \in 0 .. z - 1 : t[i].name # NULL}
Named(t, k) == {i \in 0 .. k - 1 : t[i].name \in Key}

\* The table may be used, and remain says what may still be filled.
Usable ==
  /\ hash \in [Key -> HashValue] /\ hash \in [Key -> Nat]
  /\ size \in Nat /\ size >= 2 /\ remain \in Nat
  /\ Hashed(hash, size, table)
  /\ remain + Cardinality(Filled(size, table)) = REMAIN(size)

LEMMA Remains1 ==
  ASSUME NEW n \in Nat, n >= 2
  PROVE  /\ REMAIN(n) \in Nat /\ REMAIN(n) < n
         /\ REMAIN(2 * n) \in Nat /\ REMAIN(2 * n) >= REMAIN(n) + 1
<1>1. PICK q \in Nat : q = (n * 2) \div 3 /\ q * 3 <= n * 2 /\ n * 2 < q * 3 + 3
  BY Divided
<1>2. PICK p \in Nat : p = ((2 * n) * 2) \div 3 /\ p * 3 <= (2 * n) * 2
                       /\ (2 * n) * 2 < p * 3 + 3
  BY Divided
<1>3. q < n /\ p >= q + 1
  BY <1>1, <1>2
<1> QED
  BY <1>1, <1>2, <1>3 DEF REMAIN

LEMMA FilledFinite ==
  ASSUME NEW z \in Nat, NEW t
  PROVE  /\ IsFiniteSet(Filled(z, t)) /\ Cardinality(Filled(z, t)) \in Nat
         /\ Cardinality(Filled(z, t)) <= z
         /\ \A k \in 0 .. z : IsFiniteSet(Named(t, k)) /\ Cardinality(Named(t, k)) \in Nat
<1>1. IsFiniteSet(0 .. z - 1) /\ Cardinality(0 .. z - 1) = z
  BY FS_Interval
<1>2. Filled(z, t) \subseteq 0 .. z - 1
  BY DEF Filled
<1>3. ASSUME NEW k \in 0 .. z PROVE Named(t, k) \subseteq 0 .. z - 1
  BY DEF Named
<1> QED
  BY <1>1, <1>2, <1>3, FS_Subset, FS_CardinalityType

LEMMA SomeVacant ==
  ASSUME Usable
  PROVE  \E i \in 0 .. size - 1 : table[i].name = NULL
<1> SUFFICES ASSUME \A i \in 0 .. size - 1 : table[i].name # NULL PROVE FALSE
  OBVIOUS
<1>1. PICK z \in Nat : z = size /\ z >= 2
  BY DEF Usable
<1>2. Filled(size, table) = 0 .. z - 1
  BY <1>1 DEF Filled
<1>3. Cardinality(0 .. z - 1) = z
  BY <1>1, FS_Interval
<1>4. remain + z = REMAIN(z) /\ remain \in Nat
  BY <1>1, <1>2, <1>3 DEF Usable
<1> QED
  BY <1>1, <1>4, Remains1

LEMMA Searched ==
  ASSUME Usable, NEW n \in Key
  PROVE  /\ get(n) \in 0 .. size - 1
         /\ Has(n) => table[get(n)].name = n
         /\ ~ Has(n) => /\ Absent(size, table, n)
                        /\ table[get(n)].name = NULL /\ table[get(n)].value = NULL
<1>1. PICK i \in 0 .. size - 1 : table[i].name \in {n, NULL}
  BY SomeVacant
<1>2. PICK z \in Nat \ {0} : z = size
  BY DEF Usable
<1>3. PICK k \in 0 .. z - 1 :
        /\ get(n) = At(hash, z, n, k)
        /\ table[At(hash, z, n, k)].name \in {n, NULL}
        /\ \A j \in 0 .. k - 1 : table[At(hash, z, n, j)].name \notin {n, NULL}
  BY <1>1, <1>2, FirstIs DEF get, Usable
<1>4. get(n) \in 0 .. z - 1
  <2>1. k \in Nat
    OBVIOUS
  <2> QED
    BY <1>3, <2>1, AtSlot DEF Usable
<1>5. Has(n) <=> table[get(n)].name = n
  BY DEF Has
<1>6. ASSUME ~ Has(n)
      PROVE  /\ Absent(size, table, n)
             /\ table[get(n)].name = NULL /\ table[get(n)].value = NULL
  <2>1. table[get(n)].name = NULL
    BY <1>3, <1>5, <1>6
  <2>2. table[get(n)].value = NULL
    BY <2>1, <1>2, <1>4 DEF Usable, Hashed
  <2>3. ASSUME NEW x \in 0 .. z - 1, table[x].name = n PROVE FALSE
    <3>1. PICK l \in 0 .. z - 1 :
            /\ At(hash, z, n, l) = x
            /\ \A j \in 0 .. l - 1 : table[At(hash, z, n, j)].name # NULL
      BY <2>3, <1>2 DEF Usable, Hashed, Probed
    <3>2. CASE k < l
      <4>1. k \in 0 .. l - 1
        BY <3>2
      <4> QED
        BY <4>1, <3>1, <2>1, <1>3
    <3>3. CASE k = l
      BY <3>3, <3>1, <2>3, <2>1, <1>3, Names
    <3>4. CASE k > l
      <4>1. l \in 0 .. k - 1
        BY <3>4
      <4> QED
        BY <4>1, <3>1, <2>3, <1>3
    <3> QED
      BY <3>2, <3>3, <3>4
  <2> QED
    BY <2>1, <2>2, <2>3, <1>2 DEF Absent
<1> QED
  BY <1>2, <1>4, <1>5, <1>6

LEMMA PutUsable ==
  ASSUME Usable, NEW n \in Key, NEW v \in Datum, Absent(size, table, n), remain >= 1,
         Put(n, v), hash' = hash, size' = size
  PROVE  /\ Usable'
         /\ \E s \in 0 .. size - 1 :
              /\ table[s].name \in {NULL, DEAD}
              /\ table'[s].name = n /\ table'[s].value = v
              /\ \A i \in 0 .. size - 1 : i # s => table'[i] = table[i]
              /\ table[s].name = NULL =>
                   Cardinality(Filled(size, table')) = Cardinality(Filled(size, table)) + 1
<1>1. PICK z \in Nat \ {0} : z = size
  BY DEF Usable
<1>2. PICK x \in 0 .. z - 1 : table[x].name \in {NULL, DEAD}
  BY <1>1, SomeVacant
<1>3. PICK k \in 0 .. z - 1 :
        /\ FirstSlot(n, {NULL, DEAD}) = At(hash, z, n, k)
        /\ table[At(hash, z, n, k)].name \in {NULL, DEAD}
        /\ \A j \in 0 .. k - 1 : table[At(hash, z, n, j)].name \notin {NULL, DEAD}
  BY <1>1, <1>2, FirstIs DEF Usable
<1>4. PICK s : s = FirstSlot(n, {NULL, DEAD}) /\ s = At(hash, z, n, k)
  BY <1>3
<1>5. /\ table' = [table EXCEPT ![s] = [name |-> n, value |-> v]]
      /\ remain' = IF table[s].name = NULL THEN remain - 1 ELSE remain
  BY <1>4 DEF Put
<1>6. /\ Hashed(hash, z, table') /\ s \in 0 .. z - 1
      /\ table'[s].name = n /\ table'[s].value = v
      /\ \A i \in 0 .. z - 1 : i # s => table'[i] = table[i]
  <2>1. /\ hash \in [Key -> Nat] /\ Hashed(hash, z, table)
        /\ \A i \in 0 .. z - 1 : table[i].name # n
        /\ table[s].name \in {NULL, DEAD}
        /\ \A j \in 0 .. k - 1 : table[At(hash, z, n, j)].name # NULL
    BY <1>1, <1>3, <1>4 DEF Usable, Absent
  <2>2. PICK t2 : t2 = table'
    OBVIOUS
  <2>3. t2 = [table EXCEPT ![s] = [name |-> n, value |-> v]]
    BY <2>2, <1>5
  <2>4. /\ Hashed(hash, z, t2) /\ s \in 0 .. z - 1
        /\ t2[s].name = n /\ t2[s].value = v
        /\ \A i \in 0 .. z - 1 : i # s => t2[i] = table[i]
    <3>1. PICK f \in [Key -> Nat], t \in {table} : f = hash /\ t = table
      BY <2>1
    <3>2. /\ Hashed(f, z, t) /\ s = At(f, z, n, k) /\ t[s].name \in {NULL, DEAD}
          /\ \A i \in 0 .. z - 1 : t[i].name # n
          /\ \A j \in 0 .. k - 1 : t[At(f, z, n, j)].name # NULL
      BY <3>1, <2>1, <2>3, <1>4
    <3>a. s \in 0 .. z - 1 /\ t \in [0 .. z - 1 -> Assoc]
      BY <3>2, AtSlot DEF Hashed
    <3>b. PICK e \in Assoc : e = [name |-> n, value |-> v] /\ e.name = n /\ e.value = v
      BY Entries
    <3>c. /\ t2 \in [0 .. z - 1 -> Assoc] /\ t2[s] = e
          /\ \A i \in 0 .. z - 1 : i # s => t2[i] = t[i]
      BY <3>1, <3>a, <3>b, <2>3
    <3>d. t2[s].name = n
      BY <3>b, <3>c
    <3>3. Hashed(f, z, t2)
      <4> HIDE <1>1, <1>2
      <4> QED
        BY <3>2, <3>c, <3>d, PutHashed
    <3> QED
      BY <3>1, <3>3, <3>a, <3>b, <3>c
  <2> QED
    BY <2>2, <2>4
<1>7. Filled(z, table') = Filled(z, table) \cup {s}
  BY <1>6, Names DEF Filled
<1>8. /\ IsFiniteSet(Filled(z, table)) /\ Cardinality(Filled(z, table)) \in Nat
  BY FilledFinite
<1>9. CASE table[s].name = NULL
  <2>1. s \notin Filled(z, table)
    BY <1>9 DEF Filled
  <2>2. Cardinality(Filled(z, table')) = Cardinality(Filled(z, table)) + 1
    BY <2>1, <1>7, <1>8, FS_AddElement
  <2>3. remain' \in Nat /\ remain' + Cardinality(Filled(z, table')) = REMAIN(z)
    BY <2>2, <1>1, <1>5, <1>8, <1>9 DEF Usable
  <2>4. Usable'
    BY <2>3, <1>1, <1>6 DEF Usable
  <2> QED
    BY <2>2, <2>4, <1>1, <1>3, <1>4, <1>6
<1>10. CASE table[s].name # NULL
  <2>1. Filled(z, table') = Filled(z, table)
    BY <1>6, <1>7, <1>10 DEF Filled
  <2>2. Usable'
    BY <2>1, <1>1, <1>5, <1>6, <1>10 DEF Usable
  <2> QED
    BY <2>2, <1>1, <1>3, <1>4, <1>6, <1>10
<1> QED
  BY <1>9, <1>10

LEMMA AfterDeadIn ==
  ASSUME NEW t, size \in Nat \ {0}, NEW s \in 0 .. size - 1, NEW x \in 0 .. size - 1,
         x # s, t[x].name # DEAD
  PROVE  AfterDead(t, s) \in 0 .. size - 1
<1>1. PICK z \in Nat \ {0} : z = size
  OBVIOUS
<1> DEFINE S == {k \in 1 .. z : t[(s + k) % z].name # DEAD}
<1> DEFINE P(k) == /\ t[(s + k) % z].name # DEAD
                   /\ \A j \in 1 .. k - 1 : t[(s + j) % z].name = DEAD
<1>2. S # {} /\ S \in SUBSET Nat
  <2>1. PICK k \in 1 .. z : (s + k) % z = x
    <3>1. CASE x > s
      <4>1. x - s \in 1 .. z /\ s + (x - s) = x /\ x % z = x
        BY <3>1, <1>1, RemainderSmall
      <4> QED
        BY <4>1
    <3>2. CASE x < s
      <4>1. x - s + z \in 1 .. z /\ s + (x - s + z) = x + z /\ (x + z) % z = x
        BY <3>2, <1>1, RemainderSmall
      <4> QED
        BY <4>1
    <3> QED
      BY <1>1, <3>1, <3>2
  <2>2. k \in S
    BY <2>1
  <2>3. S \in SUBSET Nat
    OBVIOUS
  <2> QED
    BY <2>2, <2>3
<1>3. PICK m \in S : \A k \in S : m <= k
  <2> HIDE DEF S
  <2> QED
    BY <1>2, LeastNumber
<1>4. m \in 1 .. z /\ P(m)
  <2>1. ASSUME NEW j \in 1 .. m - 1 PROVE t[(s + j) % z].name = DEAD
    <3>1. j \in 1 .. z /\ ~ (m <= j)
      BY <1>3
    <3> QED
      BY <3>1, <1>3
  <2> QED
    BY <2>1, <1>3
<1>5. PICK c : c = CHOOSE k \in 1 .. z : P(k)
  OBVIOUS
<1>6. c \in 1 .. z
  <2> HIDE DEF P
  <2> QED
    BY <1>4, <1>5
<1>7. AfterDead(t, s) = (s + c) % z
  BY <1>1, <1>5 DEF AfterDead
<1>8. s + c \in Nat
  BY <1>1, <1>6
<1> QED
  BY <1>1, <1>7, <1>8

LEMMA RemovedUsable ==
  ASSUME Usable, NEW s \in 0 .. size - 1, table[s].name \in Key,
         removed(s), hash' = hash, size' = size
  PROVE  /\ Usable'
         /\ \A i \in 0 .. size - 1 :
              /\ table[i].name \in Key /\ i # s => table'[i] = table[i]
              /\ table'[i].name \in Key => i # s /\ table'[i] = table[i]
<1>1. PICK z \in Nat \ {0} : z = size
  BY DEF Usable
<1>2. PICK marked : marked = [table EXCEPT ![s] = [name |-> DEAD, value |-> NULL]]
  OBVIOUS
<1>3. /\ Hashed(hash, z, marked) /\ marked[s].name = DEAD
      /\ \A i \in 0 .. z - 1 : i # s => marked[i] = table[i]
  <2>1. PICK f \in [Key -> Nat], t \in {table} : f = hash /\ t = table
    BY DEF Usable
  <2>2. Hashed(f, z, t) /\ s \in 0 .. z - 1
    BY <2>1, <1>1 DEF Usable
  <2>3. marked = [t EXCEPT ![s] = [name |-> DEAD, value |-> NULL]]
    BY <2>1, <1>2
  <2>4. PICK e \in Assoc : e = [name |-> DEAD, value |-> NULL] /\ e.name = DEAD
    BY ZenonT(40), Entries
  <2>5. /\ marked \in [0 .. z - 1 -> Assoc] /\ marked[s].name = DEAD
        /\ \A i \in 0 .. z - 1 : i # s => marked[i] = t[i]
    BY <2>2, <2>3, <2>4 DEF Hashed
  <2>6. Hashed(f, z, marked)
    BY <2>2, <2>5, MarkedHashed
  <2> QED
    BY <2>1, <2>5, <2>6
<1>4. PICK x \in 0 .. z - 1 : table[x].name = NULL /\ x # s /\ marked[x].name # DEAD
  BY <1>1, <1>3, SomeVacant, Names
<1>5. PICK a, E : a = AfterDead(marked, s) /\ E = DeadRun(marked, a)
  OBVIOUS
<1>6. a \in 0 .. z - 1
  BY <1>1, <1>4, <1>5, AfterDeadIn
<1>7. Filled(z, marked) = Filled(z, table)
  BY <1>1, <1>3, Names DEF Filled
<1>8. IF marked[a].name # NULL
      THEN table' = marked /\ remain' = remain
      ELSE /\ table' = [i \in 0 .. z - 1 |-> IF i \in E THEN Empty ELSE marked[i]]
           /\ remain' = remain + Cardinality(E)
  BY <1>1, <1>2, <1>5 DEF removed, Slots
<1>9. \A i \in 0 .. z - 1 :
        /\ table[i].name \in Key /\ i # s => marked[i] = table[i]
        /\ marked[i].name \in Key => i # s /\ marked[i] = table[i]
  BY <1>3, Names
<1>10. CASE marked[a].name # NULL
  <2>1. Usable'
    BY <1>1, <1>3, <1>7, <1>8, <1>10 DEF Usable
  <2> QED
    BY <2>1, <1>1, <1>8, <1>9, <1>10
<1>11. CASE marked[a].name = NULL
  <2>1. E = LeadsNowhere(z, marked, a)
    BY <1>1, <1>5 DEF DeadRun, LeadsNowhere, Before
  <2>2. PICK t2 : t2 = table'
    OBVIOUS
  <2>3. /\ t2 = [i \in 0 .. z - 1 |-> IF i \in E THEN Empty ELSE marked[i]]
        /\ remain' = remain + Cardinality(E)
    BY <2>2, <1>8, <1>11
  <2>4. /\ Hashed(hash, z, t2)
        /\ \A i \in 0 .. z - 1 : t2[i] = IF i \in E THEN Empty ELSE marked[i]
        /\ E \subseteq 0 .. z - 1 /\ \A i \in E : marked[i].name = DEAD
    <3>1. PICK f \in [Key -> Nat] : f = hash
      BY DEF Usable
    <3>2. Hashed(f, z, marked)
      BY <3>1, <1>3
    <3>3. /\ \A i \in 0 .. z - 1 : t2[i] = IF i \in E THEN Empty ELSE marked[i]
          /\ t2 \in [0 .. z - 1 -> Assoc]
      BY <2>3, <3>2, Entries DEF Hashed
    <3>4. /\ Hashed(f, z, t2)
          /\ E \subseteq 0 .. z - 1 /\ \A i \in E : marked[i].name = DEAD
      BY <3>2, <3>3, <2>1, <1>6, <1>11, EmptiedHashed
    <3> QED
      BY <3>1, <3>3, <3>4
  <2>5. /\ Filled(z, t2) = Filled(z, marked) \ E
        /\ E \subseteq Filled(z, marked)
    BY <2>4, Entries, Names DEF Filled
  <2>6. IsFiniteSet(Filled(z, marked)) /\ Cardinality(Filled(z, marked)) \in Nat
    BY FilledFinite
  <2>7. Cardinality(Filled(z, t2)) + Cardinality(E) = Cardinality(Filled(z, marked))
    <3>1. IsFiniteSet(E) /\ Cardinality(E) \in Nat
      BY <2>5, <2>6, FS_Subset, FS_CardinalityType
    <3>2. /\ Filled(z, marked) \cap E = E
          /\ Cardinality(Filled(z, marked) \ E) =
               Cardinality(Filled(z, marked)) - Cardinality(Filled(z, marked) \cap E)
      BY <2>5, <2>6, FS_Difference
    <3> QED
      BY <3>1, <3>2, <2>5, <2>6
  <2>8. remain' \in Nat /\ remain' + Cardinality(Filled(z, t2)) = REMAIN(z)
    <3>1. /\ Cardinality(Filled(z, t2)) \in Nat /\ remain \in Nat
          /\ IsFiniteSet(E) /\ Cardinality(E) \in Nat
      BY <2>5, <2>6, FilledFinite, FS_Subset, FS_CardinalityType DEF Usable
    <3>2. remain + Cardinality(Filled(z, marked)) = REMAIN(z)
      BY <1>1, <1>7 DEF Usable
    <3> QED
      BY <3>1, <3>2, <2>3, <2>7
  <2>9. Usable'
    BY <2>2, <2>4, <2>8, <1>1 DEF Usable
  <2>10. \A i \in 0 .. z - 1 :
           /\ table[i].name \in Key /\ i # s => t2[i] = table[i]
           /\ t2[i].name \in Key => i # s /\ t2[i] = table[i]
    BY <2>4, <1>9, Entries, Names
  <2> QED
    BY <2>2, <2>9, <2>10, <1>1
<1> QED
  BY <1>10, <1>11

\* While the entries of a table of the size o are moved: those before next are
\* in the new one, and nothing else is.
GrowingFrom(o) ==
  /\ o >= 2 /\ size = 2 * o
  /\ old \in [0 .. o - 1 -> Assoc] /\ next \in 0 .. o /\ Once(o, old)
  /\ \A i \in 0 .. o - 1 :
       old[i].name \in Key => old[i].value \in Datum /\ old[i].name # pending.name
  /\ pending.name \in Key /\ pending.value \in Datum
  /\ contents[pending.name] = pending.value
  /\ \A n \in Key : n # pending.name => Says(o, old, n, contents[n])
  /\ \A i \in 0 .. next - 1 :
       old[i].name \in Key => Kept(size, table, old[i].name, old[i].value)
  /\ \A s \in 0 .. size - 1 :
       /\ table[s].name # DEAD
       /\ table[s].name \in Key => \E i \in 0 .. next - 1 : old[i].name = table[s].name
  /\ Cardinality(Filled(size, table)) = Cardinality(Named(old, next))
  /\ Cardinality(Named(old, o)) <= REMAIN(o)

DictInv ==
  /\ Usable
  /\ pending \in Assoc /\ next \in Nat /\ contents \in [Key -> Datum \cup {NULL}]
  /\ IF Idle THEN \A n \in Key : Says(size, table, n, contents[n])
     ELSE \E o \in Nat : GrowingFrom(o)

LEMMA EmptyTable ==
  ASSUME NEW f, NEW z \in Nat, NEW t, t = mkdict0(z)
  PROVE  /\ Hashed(f, z, t) /\ Cardinality(Filled(z, t)) = 0
         /\ \A i \in 0 .. z - 1 : t[i].name = NULL
<1>1. t \in [0 .. z - 1 -> Assoc] /\ \A i \in 0 .. z - 1 : t[i] = Empty
  BY Entries DEF mkdict0
<1>2. \A i \in 0 .. z - 1 : t[i].name = NULL /\ t[i].value = NULL
  BY <1>1, Entries
<1>3. Filled(z, t) = {}
  BY <1>2 DEF Filled
<1> QED
  BY <1>1, <1>2, <1>3, Names, FS_EmptySet DEF Hashed, Probed, Once

LEMMA DictStarts == DictInit => DictInv
<1> SUFFICES ASSUME DictInit PROVE DictInv
  OBVIOUS
<1>1. /\ Hashed(hash, 2, table) /\ Cardinality(Filled(2, table)) = 0
      /\ \A i \in 0 .. 2 - 1 : table[i].name = NULL
  BY EmptyTable DEF DictInit, INIT_DICT_SIZE
<1>2. hash \in [Key -> HashValue] /\ hash \in [Key -> Nat]
  BY DictAssumption DEF DictInit
<1>3. size = 2 /\ remain = REMAIN(2) /\ REMAIN(2) \in Nat
  BY Remains1 DEF DictInit, INIT_DICT_SIZE
<1>4. Usable
  BY <1>1, <1>2, <1>3 DEF Usable
<1>5. /\ pending \in Assoc /\ next \in Nat /\ contents \in [Key -> Datum \cup {NULL}]
      /\ Idle /\ \A n \in Key : contents[n] = NULL
  BY Entries DEF DictInit, Idle
<1>6. \A n \in Key : Absent(size, table, n)
  BY <1>1, <1>3, Names DEF Absent
<1> QED
  BY <1>4, <1>5, <1>6 DEF DictInv, Says

LEMMA IdleValues ==
  ASSUME DictInv, Idle, NEW i \in 0 .. size - 1, table[i].name \in Key
  PROVE  table[i].value = contents[table[i].name] /\ table[i].value \in Datum
<1>1. PICK n \in Key : n = table[i].name
  OBVIOUS
<1>2. Says(size, table, n, contents[n]) /\ contents[n] \in Datum \cup {NULL}
  BY DEF DictInv
<1>3. ~ Absent(size, table, n)
  BY <1>1 DEF Absent
<1>4. contents[n] # NULL /\ Kept(size, table, n, contents[n])
  BY <1>2, <1>3 DEF Says
<1>5. PICK j \in 0 .. size - 1 : table[j].name = n /\ table[j].value = contents[n]
  BY <1>4 DEF Kept
<1>6. i = j
  BY <1>1, <1>5 DEF DictInv, Usable, Hashed, Once
<1> QED
  BY <1>1, <1>2, <1>4, <1>5, <1>6

LEMMA Remembers ==
  ASSUME DictInv, NEW n \in Key, NEW v \in Datum \cup {NULL}, Remember(n, v)
  PROVE  /\ contents' \in [Key -> Datum \cup {NULL}] /\ contents'[n] = v
         /\ \A m \in Key : m # n => contents'[m] = contents[m]
BY DEF DictInv, Remember

LEMMA OverwriteInv ==
  ASSUME DictInv, NEW n \in Key, NEW v \in Datum, Overwrite(n, v)
  PROVE  DictInv'
<1>1. PICK z \in Nat \ {0}, f \in [Key -> Nat], t \in {table}, t2 \in {table'}, s \in {get(n)} :
        z = size /\ f = hash /\ t = table /\ t2 = table' /\ s = get(n)
  BY DEF DictInv, Usable
<1>2. s \in 0 .. z - 1 /\ t[s].name = n /\ Hashed(f, z, t) /\ t[s] \in Assoc
  BY <1>1, Searched DEF DictInv, Overwrite, Usable, Hashed
<1>3. t2 = [t EXCEPT ![s].value = v]
  BY <1>1 DEF Overwrite
<1>4. [t[s] EXCEPT !.value = v] \in Assoc
  BY <1>2 DEF Assoc
<1>5. /\ t2 \in [0 .. z - 1 -> Assoc] /\ t2[s].name = n /\ t2[s].value = v
      /\ \A i \in 0 .. z - 1 : i # s => t2[i] = t[i]
  BY <1>2, <1>3, <1>4 DEF Hashed, Assoc
<1>6. \A i \in 0 .. z - 1 : t2[i].name = t[i].name
  BY <1>2, <1>5
<1>7. Hashed(f, z, t2)
  <2>1. Probed(f, z, t2)
    BY <1>2, <1>6, ProbedKept DEF Hashed
  <2>2. Once(z, t2)
    BY <1>2, <1>6 DEF Hashed, Once
  <2>3. \A i \in 0 .. z - 1 : t2[i].name = NULL => t2[i].value = NULL
    BY <1>2, <1>5, Names DEF Hashed
  <2> QED
    BY <1>5, <2>1, <2>2, <2>3 DEF Hashed
<1>8. Filled(z, t2) = Filled(z, t)
  BY <1>6 DEF Filled
<1>9. /\ hash' = hash /\ size' = size /\ remain' = remain /\ pending' = pending
      /\ next' = next /\ Idle /\ Idle' /\ Remember(n, v)
  BY DEF Overwrite, Idle
<1>10. Usable'
  BY <1>1, <1>7, <1>8, <1>9 DEF DictInv, Usable
<1>11. ASSUME NEW m \in Key PROVE Says(z, t2, m, contents'[m])
  <2>1. CASE m = n
    <3>1. contents'[m] = v /\ v # NULL
      BY <2>1, <1>9, Remembers, Names
    <3>2. Kept(z, t2, m, v)
      BY <2>1, <1>2, <1>5 DEF Kept
    <3> QED
      BY <3>1, <3>2 DEF Says
  <2>2. CASE m # n
    <3>1. contents'[m] = contents[m]
      BY <2>2, <1>9, Remembers
    <3>2. Says(z, t, m, contents[m])
      BY <1>1, <1>9 DEF DictInv
    <3>3. Absent(z, t, m) => Absent(z, t2, m)
      BY <1>6 DEF Absent
    <3>4. Kept(z, t, m, contents[m]) => Kept(z, t2, m, contents[m])
      BY <2>2, <1>2, <1>5 DEF Kept
    <3> QED
      BY <3>1, <3>2, <3>3, <3>4 DEF Says
  <2> QED
    BY <2>1, <2>2
<1>12. contents' \in [Key -> Datum \cup {NULL}]
  BY <1>9, Remembers
<1> QED
  BY <1>1, <1>9, <1>10, <1>11, <1>12 DEF DictInv

LEMMA InsertInv ==
  ASSUME DictInv, NEW n \in Key, NEW v \in Datum, Insert(n, v)
  PROVE  DictInv'
<1>1. PICK z \in Nat \ {0}, t \in {table}, t2 \in {table'} : z = size /\ t = table /\ t2 = table'
  BY DEF DictInv, Usable
<1>2. /\ hash' = hash /\ size' = size /\ pending' = pending /\ next' = next
      /\ Idle /\ Idle' /\ Remember(n, v) /\ Put(n, v) /\ ~ Has(n) /\ remain > 1
  BY DEF Insert, Idle
<1>3. Usable /\ Absent(size, table, n) /\ remain >= 1
  BY <1>2, Searched DEF DictInv, Usable
<1>4. /\ Usable'
      /\ \E s \in 0 .. size - 1 :
           /\ table[s].name \in {NULL, DEAD}
           /\ table'[s].name = n /\ table'[s].value = v
           /\ \A i \in 0 .. size - 1 : i # s => table'[i] = table[i]
  BY <1>2, <1>3, PutUsable
<1>5. PICK s \in 0 .. z - 1 : /\ t[s].name \in {NULL, DEAD}
                              /\ t2[s].name = n /\ t2[s].value = v
                              /\ \A i \in 0 .. z - 1 : i # s => t2[i] = t[i]
  BY <1>1, <1>4
<1>6. ASSUME NEW m \in Key PROVE Says(z, t2, m, contents'[m])
  <2>1. CASE m = n
    <3>1. contents'[m] = v /\ v # NULL
      BY <2>1, <1>2, Remembers, Names
    <3>2. Kept(z, t2, m, v)
      BY <2>1, <1>5 DEF Kept
    <3> QED
      BY <3>1, <3>2 DEF Says
  <2>2. CASE m # n
    <3>1. contents'[m] = contents[m]
      BY <2>2, <1>2, Remembers
    <3>2. Says(z, t, m, contents[m])
      BY <1>1, <1>2 DEF DictInv
    <3>3. Absent(z, t, m) => Absent(z, t2, m)
      BY <2>2, <1>5 DEF Absent
    <3>4. Kept(z, t, m, contents[m]) => Kept(z, t2, m, contents[m])
      BY <1>5, Names DEF Kept
    <3> QED
      BY <3>1, <3>2, <3>3, <3>4 DEF Says
  <2> QED
    BY <2>1, <2>2
<1>7. contents' \in [Key -> Datum \cup {NULL}]
  BY <1>2, Remembers
<1> QED
  BY <1>1, <1>2, <1>4, <1>6, <1>7 DEF DictInv

LEMMA RmInv ==
  ASSUME DictInv, NEW n \in Key, rm(n)
  PROVE  DictInv'
<1>1. PICK z \in Nat \ {0}, t \in {table}, t2 \in {table'}, s \in {get(n)} :
        z = size /\ t = table /\ t2 = table' /\ s = get(n)
  BY DEF DictInv, Usable
<1>2. /\ hash' = hash /\ size' = size /\ pending' = pending /\ next' = next
      /\ Idle /\ Idle' /\ Remember(n, NULL) /\ Has(n) /\ removed(s)
  BY <1>1 DEF rm, Idle
<1>3. s \in 0 .. z - 1 /\ t[s].name = n /\ Usable
  BY <1>1, <1>2, Searched DEF DictInv
<1>4. /\ Usable'
      /\ \A i \in 0 .. size - 1 :
           /\ table[i].name \in Key /\ i # s => table'[i] = table[i]
           /\ table'[i].name \in Key => i # s /\ table'[i] = table[i]
  BY <1>1, <1>2, <1>3, RemovedUsable
<1>5. \A i \in 0 .. z - 1 :
        /\ t[i].name \in Key /\ i # s => t2[i] = t[i]
        /\ t2[i].name \in Key => i # s /\ t2[i] = t[i]
  BY <1>1, <1>4
<1>6. ASSUME NEW m \in Key PROVE Says(z, t2, m, contents'[m])
  <2>1. CASE m = n
    <3>1. contents'[m] = NULL
      BY <2>1, <1>2, Remembers
    <3>2. Absent(z, t2, m)
      <4> SUFFICES ASSUME NEW i \in 0 .. z - 1, t2[i].name = m PROVE FALSE
        BY DEF Absent
      <4>1. i # s /\ t[i].name = n
        BY <2>1, <1>5
      <4> QED
        BY <4>1, <1>1, <1>3 DEF Usable, Hashed, Once
    <3> QED
      BY <3>1, <3>2 DEF Says
  <2>2. CASE m # n
    <3>1. contents'[m] = contents[m]
      BY <2>2, <1>2, Remembers
    <3>2. Says(z, t, m, contents[m])
      BY <1>1, <1>2 DEF DictInv
    <3>3. Absent(z, t, m) => Absent(z, t2, m)
      BY <1>5 DEF Absent
    <3>4. Kept(z, t, m, contents[m]) => Kept(z, t2, m, contents[m])
      <4> SUFFICES ASSUME NEW i \in 0 .. z - 1, t[i].name = m, t[i].value = contents[m]
                   PROVE  Kept(z, t2, m, contents[m])
        BY DEF Kept
      <4>1. t2[i] = t[i]
        BY <2>2, <1>3, <1>5
      <4> QED
        BY <4>1 DEF Kept
    <3> QED
      BY <3>1, <3>2, <3>3, <3>4 DEF Says
  <2> QED
    BY <2>1, <2>2
<1>7. contents' \in [Key -> Datum \cup {NULL}]
  BY <1>2, Remembers
<1> QED
  BY <1>1, <1>2, <1>4, <1>6, <1>7 DEF DictInv

LEMMA GrowInv ==
  ASSUME DictInv, NEW n \in Key, NEW v \in Datum, Grow(n, v)
  PROVE  DictInv'
<1>1. PICK o \in Nat, t \in {table}, t2 \in {table'} :
        o = size /\ t = table /\ t2 = table' /\ o >= 2 /\ 2 * o \in Nat
  BY DEF DictInv, Usable
<1>2. /\ hash' = hash /\ size' = 2 * o /\ t2 = mkdict0(2 * o)
      /\ remain' = REMAIN(2 * o) /\ pending' = [name |-> n, value |-> v]
      /\ old' = t /\ next' = 0 /\ Idle /\ Remember(n, v) /\ ~ Has(n)
  BY <1>1 DEF Grow, GROW
<1>3. /\ Usable /\ Absent(o, t, n) /\ Hashed(hash, o, t)
      /\ hash \in [Key -> HashValue] /\ hash \in [Key -> Nat]
  BY <1>1, <1>2, Searched DEF DictInv, Usable
<1>4. /\ pending'.name = n /\ pending'.value = v /\ pending' \in Assoc
      /\ ~ Idle'
  <2>1. pending' # NoEntry
    BY <1>2, Entries, Names
  <2> QED
    BY <1>2, <2>1, Entries DEF Idle
<1>5. /\ Hashed(hash, 2 * o, t2) /\ Cardinality(Filled(2 * o, t2)) = 0
      /\ \A i \in 0 .. 2 * o - 1 : t2[i].name = NULL
  BY <1>1, <1>2, EmptyTable
<1>6. REMAIN(2 * o) \in Nat /\ REMAIN(o) \in Nat
  BY <1>1, Remains1
<1>7. Usable'
  BY <1>1, <1>2, <1>3, <1>5, <1>6 DEF Usable
<1>8. /\ contents' \in [Key -> Datum \cup {NULL}] /\ contents'[n] = v
      /\ \A m \in Key : m # n => contents'[m] = contents[m]
  BY <1>2, Remembers
<1>9. \A m \in Key : m # n => Says(o, t, m, contents'[m])
  BY <1>1, <1>2, <1>8 DEF DictInv
<1>10. \A i \in 0 .. o - 1 : t[i].name \in Key => t[i].value \in Datum /\ t[i].name # n
  BY <1>1, <1>2, <1>3, IdleValues DEF Absent
<1>11. Named(t, 0) = {} /\ Cardinality(Named(t, 0)) = 0
  <2>1. Named(t, 0) = {}
    BY DEF Named
  <2> QED
    BY <2>1, FS_EmptySet
<1>12. Cardinality(Named(t, o)) <= REMAIN(o)
  <2>1. Named(t, o) \subseteq Filled(o, t)
    BY Names DEF Named, Filled
  <2>2. /\ IsFiniteSet(Filled(o, t)) /\ Cardinality(Filled(o, t)) \in Nat
        /\ Cardinality(Named(t, o)) \in Nat
    BY <1>1, FilledFinite
  <2>3. Cardinality(Named(t, o)) <= Cardinality(Filled(o, t))
    BY <2>1, <2>2, FS_Subset
  <2>4. remain \in Nat /\ remain + Cardinality(Filled(o, t)) = REMAIN(o)
    BY <1>1, <1>3 DEF Usable
  <2> QED
    BY <2>2, <2>3, <2>4, <1>6
<1>13. t \in [0 .. o - 1 -> Assoc] /\ Once(o, t)
  BY <1>3 DEF Hashed
<1>14. \A s \in 0 .. 2 * o - 1 : t2[s].name # DEAD /\ t2[s].name \notin Key
  BY <1>5, Names
<1>15. 0 \in 0 .. o /\ \A i \in 0 .. 0 - 1 : FALSE
  BY <1>1
<1>16. GrowingFrom(o)'
  BY <1>1, <1>2, <1>4, <1>5, <1>8, <1>9, <1>10, <1>11, <1>12, <1>13, <1>14, <1>15
     DEF GrowingFrom
<1> QED
  BY <1>1, <1>2, <1>4, <1>7, <1>8, <1>16 DEF DictInv

\* What has been moved, and what is left to move.
LEMMA MovedSoFar ==
  ASSUME NEW o \in Nat, GrowingFrom(o), Usable, next \in 0 .. o - 1
  PROVE  /\ old[next].name \notin Key =>
              Named(old, next + 1) = Named(old, next)
         /\ old[next].name \in Key =>
              /\ Cardinality(Named(old, next + 1)) = Cardinality(Named(old, next)) + 1
              /\ remain > 1
<1>1. PICK x \in Nat, t \in {old} : x = next /\ t = old /\ x \in 0 .. o - 1 /\ x + 1 \in 0 .. o
  OBVIOUS
<1>2. /\ IsFiniteSet(Named(t, x)) /\ Cardinality(Named(t, x)) \in Nat
      /\ IsFiniteSet(Named(t, o)) /\ Cardinality(Named(t, o)) \in Nat
      /\ Cardinality(Named(t, x + 1)) \in Nat
  <2>1. x \in 0 .. o /\ o \in 0 .. o
    BY <1>1
  <2> QED
    BY <2>1, <1>1, FilledFinite
<1>3. ASSUME t[x].name \notin Key PROVE Named(t, x + 1) = Named(t, x)
  BY <1>1, <1>3 DEF Named
<1>4. ASSUME t[x].name \in Key
      PROVE  Cardinality(Named(t, x + 1)) = Cardinality(Named(t, x)) + 1 /\ remain > 1
  <2>1. Named(t, x + 1) = Named(t, x) \cup {x} /\ x \notin Named(t, x)
    BY <1>1, <1>4 DEF Named
  <2>2. Cardinality(Named(t, x + 1)) = Cardinality(Named(t, x)) + 1
    BY <2>1, <1>2, FS_AddElement
  <2>3. Named(t, x + 1) \subseteq Named(t, o)
    BY <1>1 DEF Named
  <2>4. Cardinality(Named(t, x + 1)) <= Cardinality(Named(t, o))
    BY <2>3, <1>2, FS_Subset
  <2>5. Cardinality(Named(t, o)) <= REMAIN(o) /\ size = 2 * o /\ o >= 2
    BY <1>1 DEF GrowingFrom
  <2>6. remain + Cardinality(Named(t, x)) = REMAIN(2 * o) /\ remain \in Nat
    BY <1>1, <2>5 DEF GrowingFrom, Usable
  <2>7. REMAIN(o) \in Nat /\ REMAIN(2 * o) \in Nat /\ REMAIN(2 * o) >= REMAIN(o) + 1
    BY <2>5, Remains1
  <2> QED
    BY <2>2, <2>4, <2>5, <2>6, <2>7, <1>2
<1> QED
  BY <1>1, <1>3, <1>4

LEMMA MoveInv ==
  ASSUME DictInv, Move
  PROVE  DictInv'
<1>1. PICK o \in Nat : GrowingFrom(o)
  BY DEF DictInv, Move
<1>2. PICK x \in Nat, t \in {old} : x = next /\ t = old /\ x \in 0 .. o - 1
  <2>1. DOMAIN old = 0 .. o - 1
    BY <1>1 DEF GrowingFrom
  <2> QED
    BY <2>1 DEF Move, DictInv
<1>3. /\ hash' = hash /\ size' = size /\ pending' = pending /\ old' = t
      /\ contents' = contents /\ next' = x + 1 /\ ~ Idle /\ ~ Idle'
      /\ IF t[x].name \in Key THEN Put(t[x].name, t[x].value)
         ELSE table' = table /\ remain' = remain
  BY <1>2 DEF Move, Idle
<1>4. /\ Usable /\ next \in 0 .. o - 1 /\ x + 1 \in 0 .. o /\ x + 1 \in Nat
      /\ pending \in Assoc /\ contents \in [Key -> Datum \cup {NULL}]
  BY <1>2 DEF DictInv
<1>5. PICK z \in Nat : z = size /\ z = 2 * o /\ o >= 2
  BY <1>1 DEF GrowingFrom
<1>6. CASE t[x].name \notin Key
  <2>1. Named(t, x + 1) = Named(t, x)
    BY <1>1, <1>2, <1>4, <1>6, MovedSoFar
  <2>2. Usable'
    BY <1>3, <1>4, <1>6 DEF Usable
  <2>3. \A i \in 0 .. x : t[i].name \in Key => i \in 0 .. x - 1
    BY <1>2, <1>6
  <2>4. (x + 1) - 1 = x
    OBVIOUS
  <2>5. /\ \A i \in 0 .. (x + 1) - 1 :
             t[i].name \in Key => Kept(z, table, t[i].name, t[i].value)
        /\ \A s \in 0 .. z - 1 :
             table[s].name \in Key => \E i \in 0 .. (x + 1) - 1 : t[i].name = table[s].name
    BY <1>1, <1>2, <1>5, <2>3, <2>4 DEF GrowingFrom
  <2>6. GrowingFrom(o)'
    BY <1>1, <1>2, <1>3, <1>4, <1>5, <1>6, <2>1, <2>5 DEF GrowingFrom
  <2> QED
    BY <1>3, <1>4, <2>2, <2>6 DEF DictInv
<1>7. CASE t[x].name \in Key
  <2>1. PICK n \in Key, v \in Datum : n = t[x].name /\ v = t[x].value
    BY <1>1, <1>2, <1>7 DEF GrowingFrom
  <2>2. /\ Cardinality(Named(t, x + 1)) = Cardinality(Named(t, x)) + 1
        /\ remain > 1
    BY <1>1, <1>2, <1>4, <1>7, MovedSoFar
  <2>3. Absent(z, table, n)
    <3> SUFFICES ASSUME NEW s \in 0 .. z - 1, table[s].name = n PROVE FALSE
      BY DEF Absent
    <3>1. PICK i \in 0 .. x - 1 : t[i].name = n
      BY <1>1, <1>2, <1>5 DEF GrowingFrom
    <3>2. i = x
      BY <3>1, <2>1, <1>1, <1>2 DEF GrowingFrom, Once
    <3> QED
      BY <3>1, <3>2
  <2>4. Put(n, v) /\ remain >= 1
    BY <1>3, <1>4, <1>7, <2>1, <2>2 DEF Usable
  <2>5. /\ Usable'
        /\ \E s \in 0 .. size - 1 :
             /\ table[s].name \in {NULL, DEAD}
             /\ table'[s].name = n /\ table'[s].value = v
             /\ \A i \in 0 .. size - 1 : i # s => table'[i] = table[i]
             /\ table[s].name = NULL =>
                  Cardinality(Filled(size, table')) = Cardinality(Filled(size, table)) + 1
    BY <1>3, <1>4, <1>5, <2>3, <2>4, PutUsable
  <2>6. PICK s \in 0 .. z - 1, t2 \in {table'} :
          /\ t2 = table' /\ table[s].name \in {NULL, DEAD}
          /\ t2[s].name = n /\ t2[s].value = v
          /\ \A i \in 0 .. z - 1 : i # s => t2[i] = table[i]
          /\ table[s].name = NULL =>
               Cardinality(Filled(z, t2)) = Cardinality(Filled(z, table)) + 1
    BY <1>5, <2>5
  <2>7. table[s].name = NULL
    BY <1>1, <1>5, <2>6 DEF GrowingFrom
  <2>8. Cardinality(Filled(z, t2)) = Cardinality(Named(t, x + 1))
    BY <1>1, <1>2, <1>5, <2>2, <2>6, <2>7 DEF GrowingFrom
  <2>9. ASSUME NEW i \in 0 .. (x + 1) - 1, t[i].name \in Key
        PROVE  Kept(z, t2, t[i].name, t[i].value)
    <3>1. CASE i = x
      BY <3>1, <2>1, <2>6 DEF Kept
    <3>2. CASE i # x
      <4>1. i \in 0 .. x - 1
        BY <3>2
      <4>2. PICK c \in 0 .. z - 1 : table[c].name = t[i].name /\ table[c].value = t[i].value
        BY <4>1, <2>9, <1>1, <1>2, <1>5 DEF GrowingFrom, Kept
      <4>3. c # s
        BY <4>2, <2>7, <2>9, Names
      <4> QED
        BY <4>2, <4>3, <2>6 DEF Kept
    <3> QED
      BY <3>1, <3>2
  <2>10. ASSUME NEW c \in 0 .. z - 1
         PROVE  /\ t2[c].name # DEAD
                /\ t2[c].name \in Key => \E i \in 0 .. (x + 1) - 1 : t[i].name = t2[c].name
    <3>1. CASE c = s
      <4>1. x \in 0 .. (x + 1) - 1
        OBVIOUS
      <4> QED
        BY <4>1, <3>1, <2>1, <2>6, Names
    <3>2. CASE c # s
      <4>1. t2[c] = table[c]
        BY <3>2, <2>6
      <4>2. 0 .. x - 1 \subseteq 0 .. (x + 1) - 1
        OBVIOUS
      <4> QED
        BY <4>1, <4>2, <1>1, <1>2, <1>5 DEF GrowingFrom
    <3> QED
      BY <3>1, <3>2
  <2>11. GrowingFrom(o)'
    BY <1>1, <1>2, <1>3, <1>4, <1>5, <2>6, <2>8, <2>9, <2>10 DEF GrowingFrom
  <2> QED
    BY <1>3, <1>4, <2>5, <2>11 DEF DictInv
<1> QED
  BY <1>6, <1>7

LEMMA FinishInv ==
  ASSUME DictInv, Finish
  PROVE  DictInv'
<1>1. PICK o \in Nat : GrowingFrom(o)
  BY DEF DictInv, Finish
<1>2. next = o
  <2>1. DOMAIN old = 0 .. o - 1 /\ next \in 0 .. o
    BY <1>1 DEF GrowingFrom
  <2> QED
    BY <2>1 DEF Finish
<1>3. PICK z \in Nat, t \in {old}, n \in Key, v \in Datum :
        /\ z = size /\ t = old /\ z = 2 * o /\ o >= 2
        /\ n = pending.name /\ v = pending.value
  <2>1. /\ size = 2 * o /\ o >= 2 /\ 2 * o \in Nat
        /\ pending.name \in Key /\ pending.value \in Datum
    BY <1>1 DEF GrowingFrom
  <2> QED
    BY <2>1
<1>4. /\ hash' = hash /\ size' = size /\ contents' = contents /\ next' = 0
      /\ pending' = NoEntry /\ Idle' /\ Put(n, v) /\ Usable
      /\ contents \in [Key -> Datum \cup {NULL}]
  BY <1>3 DEF Finish, Idle, DictInv
<1>5. Absent(z, table, n)
  <2> SUFFICES ASSUME NEW s \in 0 .. z - 1, table[s].name = n PROVE FALSE
    BY DEF Absent
  <2>1. PICK i \in 0 .. o - 1 : t[i].name = n
    BY <1>1, <1>2, <1>3 DEF GrowingFrom
  <2> QED
    BY <2>1, <1>1, <1>3 DEF GrowingFrom
<1>6. remain >= 1
  <2>1. Cardinality(Named(t, o)) <= REMAIN(o) /\ Cardinality(Named(t, o)) \in Nat
    <3>1. o \in 0 .. o
      BY <1>3
    <3> QED
      BY <3>1, <1>1, <1>3, FilledFinite DEF GrowingFrom
  <2>2. remain + Cardinality(Named(t, o)) = REMAIN(2 * o) /\ remain \in Nat
    BY <1>1, <1>2, <1>3, <1>4 DEF GrowingFrom, Usable
  <2>3. REMAIN(o) \in Nat /\ REMAIN(2 * o) \in Nat /\ REMAIN(2 * o) >= REMAIN(o) + 1
    BY <1>3, Remains1
  <2> QED
    BY <2>1, <2>2, <2>3
<1>7. /\ Usable'
      /\ \E s \in 0 .. size - 1 :
           /\ table[s].name \in {NULL, DEAD}
           /\ table'[s].name = n /\ table'[s].value = v
           /\ \A i \in 0 .. size - 1 : i # s => table'[i] = table[i]
  <2>1. /\ Usable /\ Absent(size, table, n) /\ Put(n, v)
        /\ hash' = hash /\ size' = size
    BY <1>3, <1>4, <1>5
  <2> QED
    BY <2>1, <1>6, PutUsable
<1>8. PICK s \in 0 .. z - 1, t2 \in {table'} :
        /\ t2 = table' /\ table[s].name \in {NULL, DEAD}
        /\ t2[s].name = n /\ t2[s].value = v
        /\ \A i \in 0 .. z - 1 : i # s => t2[i] = table[i]
  BY <1>3, <1>7
<1>9. ASSUME NEW m \in Key PROVE Says(z, t2, m, contents[m])
  <2>1. CASE m = n
    <3>1. contents[m] = v /\ v # NULL
      BY <2>1, <1>1, <1>3, Names DEF GrowingFrom
    <3>2. Kept(z, t2, m, v)
      BY <2>1, <1>8 DEF Kept
    <3> QED
      BY <3>1, <3>2 DEF Says
  <2>2. CASE m # n
    <3>1. Says(o, t, m, contents[m])
      BY <2>2, <1>1, <1>3 DEF GrowingFrom
    <3>2. ASSUME Absent(o, t, m) PROVE Absent(z, t2, m)
      <4> SUFFICES ASSUME NEW c \in 0 .. z - 1, t2[c].name = m PROVE FALSE
        BY DEF Absent
      <4>1. c # s /\ table[c].name = m
        BY <2>2, <1>8
      <4>2. \E i \in 0 .. o - 1 : t[i].name = m
        BY <4>1, <1>1, <1>2, <1>3 DEF GrowingFrom
      <4> QED
        BY <4>2, <3>2 DEF Absent
    <3>3. ASSUME Kept(o, t, m, contents[m]) PROVE Kept(z, t2, m, contents[m])
      <4>1. PICK i \in 0 .. o - 1 : t[i].name = m /\ t[i].value = contents[m]
        BY <3>3 DEF Kept
      <4>2. PICK c \in 0 .. z - 1 : table[c].name = m /\ table[c].value = contents[m]
        BY <4>1, <1>1, <1>2, <1>3 DEF GrowingFrom, Kept
      <4>3. c # s
        BY <4>2, <1>8, Names
      <4> QED
        BY <4>2, <4>3, <1>8 DEF Kept
    <3> QED
      BY <3>1, <3>2, <3>3 DEF Says
  <2> QED
    BY <2>1, <2>2
<1> QED
  BY <1>3, <1>4, <1>7, <1>8, <1>9, Entries DEF DictInv

\* What was put is found until it is removed and nothing else is, every search
\* comes to an end, and a table that grows has room for what it is to hold,
\* whatever the names hash to. (dict.c: get, put, rm, dictget, dictput)
THEOREM DictionariesAlwaysAgree == DictSpec => []DictionariesAgree
<1>1. DictInv /\ [DictNext]_dictvars => DictInv'
  <2> SUFFICES ASSUME DictInv, [DictNext]_dictvars PROVE DictInv'
    OBVIOUS
  <2>1. CASE UNCHANGED dictvars
    <3>1. Usable'
      BY <2>1 DEF DictInv, Usable, dictvars
    <3>2. Idle' = Idle /\ \A o \in Nat : GrowingFrom(o) => GrowingFrom(o)'
      BY <2>1 DEF Idle, GrowingFrom, dictvars
    <3> QED
      BY <2>1, <3>1, <3>2 DEF DictInv, dictvars
  <2> QED
    BY <2>1, OverwriteInv, InsertInv, GrowInv, MoveInv, FinishInv, RmInv DEF DictNext
<1>2. DictInv => DictionariesAgree
  <2> SUFFICES ASSUME DictInv PROVE DictionariesAgree
    OBVIOUS
  <2>1. PICK z \in Nat \ {0} : z = size /\ Usable
    BY DEF DictInv, Usable
  <2>2. DictTypeOK
    BY <2>1 DEF DictTypeOK, DictInv, Usable, Hashed, Slots
  <2>3. SearchesEnd
    <3>1. Vacant # {}
      BY SomeVacant, <2>1 DEF Vacant, Slots
    <3>2. Slots \ Vacant = Filled(size, table)
      BY DEF Vacant, Slots, Filled
    <3> QED
      BY <3>1, <3>2, <2>1 DEF SearchesEnd, Usable
  <2>4. GrowthFits
    <3> SUFFICES ASSUME ~ Idle, next \in DOMAIN old, old[next].name \in Key
                 PROVE  remain > 1
      BY DEF GrowthFits
    <3>1. PICK o \in Nat : GrowingFrom(o)
      BY DEF DictInv
    <3>2. next \in 0 .. o - 1
      BY <3>1 DEF GrowingFrom
    <3> QED
      BY <3>1, <3>2, <2>1, MovedSoFar
  <2>5. ASSUME Idle, NEW n \in Key PROVE dictget(n) = contents[n]
    <3>1. Says(size, table, n, contents[n]) /\ get(n) \in 0 .. size - 1
      BY <2>1, <2>5, Searched DEF DictInv
    <3>2. CASE Has(n)
      BY <3>1, <3>2, <2>1, <2>5, Searched, IdleValues DEF dictget
    <3>3. CASE ~ Has(n)
      <4>1. Absent(size, table, n) /\ table[get(n)].value = NULL
        BY <3>3, <2>1, Searched
      <4>2. contents[n] = NULL
        BY <4>1, <3>1 DEF Says, Kept, Absent
      <4> QED
        BY <4>1, <4>2 DEF dictget
    <3> QED
      BY <3>2, <3>3
  <2> QED
    BY <2>2, <2>3, <2>4, <2>5 DEF DictionariesAgree, LookupsAgree
<1> QED
  BY DictStarts, <1>1, <1>2, PTL DEF DictSpec
=============================================================================
