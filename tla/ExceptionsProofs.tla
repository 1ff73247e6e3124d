-------------------------- MODULE ExceptionsProofs --------------------------
(***************************************************************************)
(* Proof that every activation, normal or not, finds the stacks as it left *)
(* them, whatever was thrown over it and however deep activations nest,    *)
(* and that a binding is undone to what it hid (except.c, eval.c, var.c).  *)
(*                                                                         *)
(* The invariant says what tophandler and pushlist were when each level of *)
(* the stack was the innermost: t and L, functions of the level.  A throw  *)
(* returns to the level below its target, so a level's values are needed   *)
(* long after they were hidden.                                            *)
(***************************************************************************)
EXTENDS ExceptionsView, SequenceTheorems, FiniteSetTheorems, TLAPS

Pushed == {Zero} \cup [name : {"x"}, defn : Value]

Begins(p, q) == Len(p) <= Len(q) /\ \A i \in 1 .. Len(p) : p[i] = q[i]

Evals(s, n) == Cardinality({i \in 1 .. n : IsEval(s[i])})
Catchers(s, n) == Cardinality({i \in 1 .. n : s[i].kind = "catcher"})

\* The innermost entry of q hides the value v.
Binds(q, v) == q # << >> /\ q[Len(q)] = Push(v)

\* What an activation f saves when it is made on the first m of s, and what it
\* makes of the two stacks, x and q.
Saves(s, t, L, m, f) ==
  /\ f.kind = "root" <=> m = 0
  /\ f.kind \in Handlers \cup {"local"} =>
       /\ f.up = t[m] /\ f.pushes = Len(L[m])
       /\ f.depth = Evals(s, m) + (IF f.kind = "lambda" THEN 1 ELSE 0)
  /\ f.kind = "throw" => f.target = t[m] /\ t[m] \in 1 .. m
  /\ f.kind = "settor" /\ f.use = "pop" =>
       /\ m # 0 /\ Binds(L[m], f.arg)
       /\ \/ s[m].kind = "local"
          \/ /\ s[m].kind = "throw" /\ s[m].target \in 1 .. m
             /\ Len(L[m]) > s[s[m].target].pushes

Makes(s, t, L, m, f, x, q) ==
  /\ f.kind \in Handlers => x = m + 1
  /\ f.kind = "throw" =>
       /\ x = s[t[m]].up
       /\ Begins(q, L[m]) /\ Len(q) >= s[t[m]].pushes
  /\ f.kind \notin Handlers \cup {"throw"} => x = t[m]
  /\ f.kind \in {"lambda", "settor"} => q = Append(L[m], Zero)
  /\ f.kind = "local" => \E v \in Value : q = Append(L[m], Push(v))
  /\ f.kind \notin {"throw", "lambda", "settor", "local"} => q = L[m]

\* The handler on top at level i has not returned, and pushlist can be unwound
\* to it; it is the innermost one unless something was thrown.
Reach(s, t, L, i) ==
  /\ t[i] # 0 => t[i] \in 1 .. i /\ s[t[i]].kind \in Handlers /\ Begins(L[t[i] - 1], L[i])
  /\ (\A j \in 1 .. i : s[j].kind # "throw") =>
       t[i] # 0 /\ \A j \in t[i] + 1 .. i : s[j].kind \notin Handlers

Levels(s, t, L) ==
  /\ t \in [Nat -> Nat] /\ L \in [Nat -> Seq(Pushed)]
  /\ t[0] = 0 /\ L[0] = << >>
  /\ \A i \in 1 .. Len(s) :
       /\ Saves(s, t, L, i - 1, s[i]) /\ Makes(s, t, L, i - 1, s[i], t[i], L[i])
       /\ Reach(s, t, L, i)

Stacked(s, x, q) ==
  \E t \in [Nat -> Nat], L \in [Nat -> Seq(Pushed)] :
    Levels(s, t, L) /\ x = t[Len(s)] /\ q = L[Len(s)]

Typed ==
  /\ stack \in Seq(Activation) /\ var \in Value /\ settor \in Settors /\ blocked \in Nat
  /\ shell \in {"running", "exited", "aborted"} /\ (shell = "running" => stack # << >>)

\* Where unwinding runs no settor, a throw is the innermost activation.
Plain ==
  /\ blocked = Catchers(stack, Len(stack)) /\ shell # "aborted"
  /\ \A i \in 1 .. Len(stack) :
       stack[i].kind # "settor" /\ (stack[i].kind = "throw" => i = Len(stack))

IInv ==
  /\ Typed
  /\ Stacked(stack, tophandler, pushlist)
  /\ evaldepth = Evals(stack, Len(stack)) /\ blocked >= Catchers(stack, Len(stack))
  /\ settor = "none" => Plain

-----------------------------------------------------------------------------
(* Sequences and counts.                                                   *)

LEMMA Shapes ==
  ASSUME NEW f \in Activation
  PROVE  /\ f.kind \in Handlers \cup {"local", "settor", "throw", "rethrow", "eval"}
         /\ f.kind \in Handlers \cup {"local"} => f \in HandlerFrame
         /\ f.kind = "settor" =>
              f \in [kind : {"settor"}, use : {"def", "push", "pop"}, arg : Value]
         /\ f.kind = "throw" => f \in [kind : {"throw"}, exn : Exn, target : Nat]
         /\ f.kind = "rethrow" => f \in [kind : {"rethrow"}, from : Handlers, exn : Exn]
BY DEF Activation, HandlerFrame, Handlers

LEMMA BeginsEqual ==
  ASSUME NEW p \in Seq(Pushed), NEW q \in Seq(Pushed), Begins(p, q), Len(p) = Len(q)
  PROVE  p = q
BY SeqEqual DEF Begins

LEMMA BeginsThrough ==
  ASSUME NEW p \in Seq(Pushed), NEW q \in Seq(Pushed), NEW r \in Seq(Pushed),
         Begins(p, q), Begins(q, r)
  PROVE  Begins(p, r)
<1>1. Len(p) \in Nat /\ Len(q) \in Nat /\ Len(r) \in Nat
  BY LenProperties
<1> QED
  BY <1>1 DEF Begins

LEMMA BeginsSelf ==
  ASSUME NEW p \in Seq(Pushed)
  PROVE  Begins(p, p)
BY LenProperties DEF Begins

\* The first m elements.
LEMMA FirstFacts ==
  ASSUME NEW S, NEW p \in Seq(S), NEW m \in 0 .. Len(p)
  PROVE  /\ SubSeq(p, 1, m) \in Seq(S) /\ Len(SubSeq(p, 1, m)) = m
         /\ \A i \in 1 .. m : SubSeq(p, 1, m)[i] = p[i]
<1>1. Len(p) \in Nat /\ m \in Nat /\ \A i \in 1 .. m : p[i] \in S
  BY LenProperties, ElementOfSeq
<1>2. /\ SubSeq(p, 1, m) \in Seq(S)
      /\ Len(SubSeq(p, 1, m)) = IF 1 <= m THEN m - 1 + 1 ELSE 0
      /\ \A i \in 1 .. m - 1 + 1 : SubSeq(p, 1, m)[i] = p[1 + i - 1]
  BY <1>1, SubSeqProperties
<1>3. Len(SubSeq(p, 1, m)) = m
  BY <1>1, <1>2
<1>4. ASSUME NEW i \in 1 .. m PROVE SubSeq(p, 1, m)[i] = p[i]
  <2>1. i \in 1 .. m - 1 + 1 /\ 1 + i - 1 = i
    BY <1>1
  <2> QED
    BY <1>2, <2>1
<1> QED
  BY <1>2, <1>3, <1>4

\* Dropping the last element.
LEMMA DropFacts ==
  ASSUME NEW S, NEW p \in Seq(S), p # << >>
  PROVE  /\ Drop(p) \in Seq(S) /\ Len(p) \in Nat \ {0} /\ Len(Drop(p)) = Len(p) - 1
         /\ p[Len(p)] \in S /\ \A i \in 1 .. Len(p) - 1 : Drop(p)[i] = p[i]
<1>1. Len(p) \in Nat \ {0} /\ Len(p) - 1 \in 0 .. Len(p)
  BY EmptySeq, LenProperties
<1>2. p[Len(p)] \in S
  BY <1>1, ElementOfSeq
<1> QED
  BY <1>1, <1>2, FirstFacts DEF Drop

\* Appending.
LEMMA AppendFacts ==
  ASSUME NEW S, NEW p \in Seq(S), NEW f \in S
  PROVE  /\ Append(p, f) \in Seq(S) /\ Len(Append(p, f)) = Len(p) + 1
         /\ Append(p, f)[Len(p) + 1] = f
         /\ \A i \in 1 .. Len(p) : Append(p, f)[i] = p[i]
BY AppendProperties

LEMMA BeginsAppend ==
  ASSUME NEW p \in Seq(Pushed), NEW v \in Pushed
  PROVE  Begins(p, Append(p, v)) /\ Append(p, v) \in Seq(Pushed) /\ Drop(Append(p, v)) = p
         /\ Len(Append(p, v)) = Len(p) + 1 /\ Append(p, v) # << >>
<1>1. /\ Append(p, v) \in Seq(Pushed) /\ Len(Append(p, v)) = Len(p) + 1 /\ Len(p) \in Nat
      /\ \A i \in 1 .. Len(p) : Append(p, v)[i] = p[i]
  BY AppendFacts, LenProperties
<1>2. Append(p, v) # << >>
  BY <1>1
<1>3. /\ Drop(Append(p, v)) \in Seq(Pushed) /\ Len(Drop(Append(p, v))) = Len(p)
      /\ \A i \in 1 .. Len(p) : Drop(Append(p, v))[i] = p[i]
  <2>1. PICK r \in Seq(Pushed) : r = Append(p, v)
    BY <1>1
  <2>2. /\ Drop(r) \in Seq(Pushed) /\ Len(Drop(r)) = Len(r) - 1
        /\ \A i \in 1 .. Len(r) - 1 : Drop(r)[i] = r[i]
    BY <1>2, <2>1, DropFacts
  <2>3. Len(r) - 1 = Len(p)
    BY <1>1, <2>1
  <2> QED
    BY <1>1, <2>1, <2>2, <2>3
<1>4. Drop(Append(p, v)) = p
  BY <1>3, SeqEqual
<1> QED
  BY <1>1, <1>2, <1>4 DEF Begins

LEMMA CountSame ==
  ASSUME NEW s, NEW u, NEW m \in Nat, \A i \in 1 .. m : u[i] = s[i]
  PROVE  Evals(u, m) = Evals(s, m) /\ Catchers(u, m) = Catchers(s, m)
<1>1. {i \in 1 .. m : IsEval(u[i])} = {i \in 1 .. m : IsEval(s[i])}
  OBVIOUS
<1>2. {i \in 1 .. m : u[i].kind = "catcher"} = {i \in 1 .. m : s[i].kind = "catcher"}
  OBVIOUS
<1> QED
  BY <1>1, <1>2 DEF Evals, Catchers

LEMMA CountNext ==
  ASSUME NEW s, NEW m \in Nat
  PROVE  /\ Evals(s, m) \in 0 .. m /\ Catchers(s, m) \in 0 .. m
         /\ Evals(s, m + 1) = Evals(s, m) + (IF IsEval(s[m + 1]) THEN 1 ELSE 0)
         /\ Catchers(s, m + 1) =
              Catchers(s, m) + (IF s[m + 1].kind = "catcher" THEN 1 ELSE 0)
<1> DEFINE E(n) == {i \in 1 .. n : IsEval(s[i])}
           C(n) == {i \in 1 .. n : s[i].kind = "catcher"}
<1>1. IsFiniteSet(1 .. m) /\ Cardinality(1 .. m) = m
  BY FS_Interval
<1>2. E(m) \subseteq 1 .. m /\ C(m) \subseteq 1 .. m
  OBVIOUS
<1>3. /\ IsFiniteSet(E(m)) /\ Cardinality(E(m)) <= m
      /\ IsFiniteSet(C(m)) /\ Cardinality(C(m)) <= m
  BY <1>1, <1>2, FS_Subset
<1>4. Cardinality(E(m)) \in Nat /\ Cardinality(C(m)) \in Nat
  BY <1>3, FS_CardinalityType
<1>5. m + 1 \notin E(m) /\ m + 1 \notin C(m)
  OBVIOUS
<1>6. E(m + 1) = IF IsEval(s[m + 1]) THEN E(m) \cup {m + 1} ELSE E(m)
  <2>1. 1 .. m + 1 = (1 .. m) \cup {m + 1}
    OBVIOUS
  <2> QED
    BY <2>1
<1>7. C(m + 1) = IF s[m + 1].kind = "catcher" THEN C(m) \cup {m + 1} ELSE C(m)
  <2>1. 1 .. m + 1 = (1 .. m) \cup {m + 1}
    OBVIOUS
  <2> QED
    BY <2>1
<1>8. /\ Cardinality(E(m) \cup {m + 1}) = Cardinality(E(m)) + 1
      /\ Cardinality(C(m) \cup {m + 1}) = Cardinality(C(m)) + 1
  BY <1>3, <1>5, FS_AddElement
<1>9. /\ Cardinality(E(m + 1)) = Cardinality(E(m)) + (IF IsEval(s[m + 1]) THEN 1 ELSE 0)
      /\ Cardinality(C(m + 1)) =
           Cardinality(C(m)) + (IF s[m + 1].kind = "catcher" THEN 1 ELSE 0)
  <2> HIDE DEF E, C
  <2> QED
    BY <1>4, <1>6, <1>7, <1>8
<1>10. Cardinality(E(m)) \in 0 .. m /\ Cardinality(C(m)) \in 0 .. m
  <2> HIDE DEF E, C
  <2> QED
    BY <1>3, <1>4
<1> QED
  BY <1>9, <1>10 DEF Evals, Catchers

\* Fewer levels have no more catchers; as many, if there is none in the rest.
LEMMA CountBelow ==
  ASSUME NEW s, NEW m \in Nat, NEW n \in Nat, m <= n
  PROVE  /\ Catchers(s, m) <= Catchers(s, n)
         /\ (\A j \in m + 1 .. n : s[j].kind # "catcher") => Catchers(s, m) = Catchers(s, n)
<1> DEFINE C(k) == {i \in 1 .. k : s[i].kind = "catcher"}
<1>1. IsFiniteSet(1 .. n)
  BY FS_Interval
<1>2. C(n) \subseteq 1 .. n /\ C(m) \subseteq C(n)
  OBVIOUS
<1>3. Cardinality(C(m)) <= Cardinality(C(n))
  BY <1>1, <1>2, FS_Subset
<1>4. ASSUME \A j \in m + 1 .. n : s[j].kind # "catcher" PROVE C(m) = C(n)
  BY <1>4
<1> QED
  BY <1>3, <1>4 DEF Catchers

-----------------------------------------------------------------------------
(* Levels depend on what is below them only.                               *)

Keeps(u, s, m) == \A i \in 1 .. m : u[i] = s[i]

Same(s, t, L, u, v, M, m) ==
  /\ Keeps(u, s, m)
  /\ \A i \in 0 .. m : v[i] = t[i] /\ M[i] = L[i]

LEMMA SavesSame ==
  ASSUME NEW s, NEW t, NEW L, NEW u, NEW v, NEW M, NEW m \in Nat, NEW f,
         Same(s, t, L, u, v, M, m), Saves(s, t, L, m, f)
  PROVE  Saves(u, v, M, m, f)
<1>1. v[m] = t[m] /\ M[m] = L[m] /\ (m # 0 => u[m] = s[m]) /\ Evals(u, m) = Evals(s, m)
  BY CountSame DEF Same, Keeps
<1>2. \A i \in 1 .. m : u[i] = s[i]
  BY DEF Same, Keeps
<1> QED
  BY <1>1, <1>2 DEF Saves

LEMMA MakesSame ==
  ASSUME NEW s, NEW t, NEW L, NEW u, NEW v, NEW M, NEW m \in Nat, NEW f, NEW x, NEW q,
         Same(s, t, L, u, v, M, m), Saves(s, t, L, m, f), Makes(s, t, L, m, f, x, q)
  PROVE  Makes(u, v, M, m, f, x, q)
<1>1. v[m] = t[m] /\ M[m] = L[m] /\ (f.kind = "throw" => u[t[m]] = s[t[m]])
  BY DEF Same, Keeps, Saves
<1> QED
  BY <1>1 DEF Makes

LEMMA ReachSame ==
  ASSUME NEW s, NEW t, NEW L, NEW u, NEW v, NEW M, NEW m \in Nat, NEW i \in 1 .. m,
         t \in [Nat -> Nat], Same(s, t, L, u, v, M, m), Reach(s, t, L, i)
  PROVE  Reach(u, v, M, i)
<1>1. v[i] = t[i] /\ M[i] = L[i] /\ t[i] \in Nat /\ \A j \in 1 .. i : u[j] = s[j]
  BY DEF Same, Keeps
<1>2. ASSUME v[i] # 0
      PROVE  v[i] \in 1 .. i /\ u[v[i]].kind \in Handlers /\ Begins(M[v[i] - 1], M[i])
  <2>1. t[i] \in 1 .. i /\ s[t[i]].kind \in Handlers /\ Begins(L[t[i] - 1], L[i])
    BY <1>1, <1>2 DEF Reach
  <2>2. t[i] - 1 \in 0 .. m
    BY <2>1
  <2> QED
    BY <1>1, <2>1, <2>2 DEF Same, Keeps
<1>3. ASSUME \A j \in 1 .. i : u[j].kind # "throw"
      PROVE  v[i] # 0 /\ \A j \in v[i] + 1 .. i : u[j].kind \notin Handlers
  <2>1. t[i] # 0 /\ \A j \in t[i] + 1 .. i : s[j].kind \notin Handlers
    BY <1>1, <1>3 DEF Reach
  <2>2. \A j \in t[i] + 1 .. i : j \in 1 .. i
    BY <1>1
  <2> QED
    BY <1>1, <2>1, <2>2
<1> QED
  BY <1>2, <1>3 DEF Reach

-----------------------------------------------------------------------------
(* The stack grows and shrinks.                                            *)

LEMMA LevelsTyped ==
  ASSUME NEW s, NEW t, NEW L, Levels(s, t, L)
  PROVE  t \in [Nat -> Nat] /\ L \in [Nat -> Seq(Pushed)] /\ t[0] = 0 /\ L[0] = << >>
BY DEF Levels

LEMMA LevelAt ==
  ASSUME NEW s, NEW t, NEW L, Levels(s, t, L), NEW i \in 1 .. Len(s)
  PROVE  /\ Saves(s, t, L, i - 1, s[i]) /\ Makes(s, t, L, i - 1, s[i], t[i], L[i])
         /\ Reach(s, t, L, i)
BY DEF Levels

\* What was saved by the handler h that is on top at level i.
Saved(s, t, L, i, h) ==
  /\ h \in 1 .. i /\ h - 1 \in Nat /\ s[h].kind \in Handlers
  /\ s[h].up = t[h - 1] /\ s[h].pushes = Len(L[h - 1])
  /\ s[h].depth = Evals(s, h - 1) + (IF s[h].kind = "lambda" THEN 1 ELSE 0)
  /\ Begins(L[h - 1], L[i])

LEMMA OnTop ==
  ASSUME NEW s, NEW t, NEW L, Levels(s, t, L), NEW i \in 1 .. Len(s), Len(s) \in Nat,
         NEW h, h = t[i], h # 0
  PROVE  Saved(s, t, L, i, h)
<1>1. Reach(s, t, L, i)
  BY LevelAt
<1>2. h \in 1 .. i /\ s[h].kind \in Handlers /\ Begins(L[h - 1], L[i])
  BY <1>1 DEF Reach
<1>3. h \in 1 .. Len(s) /\ h - 1 \in Nat
  BY <1>2
<1>4. Saves(s, t, L, h - 1, s[h])
  BY <1>3, LevelAt
<1> QED
  BY <1>2, <1>3, <1>4 DEF Saved, Saves

\* The top level is made on the first m, which stay.
LEMMA Grows ==
  ASSUME NEW s, NEW t, NEW L, Levels(s, t, L), Len(s) \in Nat,
         NEW u, NEW m \in Nat, m <= Len(s), Len(u) = m + 1, Keeps(u, s, m),
         NEW x \in Nat, NEW q \in Seq(Pushed),
         Saves(s, t, L, m, u[m + 1]), Makes(s, t, L, m, u[m + 1], x, q)
  PROVE  /\ Stacked(u, x, q)
         /\ Evals(u, m + 1) = Evals(s, m) + (IF IsEval(u[m + 1]) THEN 1 ELSE 0)
         /\ Catchers(u, m + 1) =
              Catchers(s, m) + (IF u[m + 1].kind = "catcher" THEN 1 ELSE 0)
<1>1. PICK f : f = u[m + 1]
  OBVIOUS
<1>2. PICK v : v = [t EXCEPT ![m + 1] = x]
  OBVIOUS
<1>3. PICK M : M = [L EXCEPT ![m + 1] = q]
  OBVIOUS
<1>4. t \in [Nat -> Nat] /\ L \in [Nat -> Seq(Pushed)] /\ t[0] = 0 /\ L[0] = << >>
  BY LevelsTyped
<1>5. /\ v \in [Nat -> Nat] /\ v[m + 1] = x /\ v[0] = 0
      /\ \A i \in 0 .. m : v[i] = t[i]
  <2>1. v \in [Nat -> Nat]
    BY <1>2, <1>4
  <2>2. v[m + 1] = x /\ v[0] = 0
    BY <1>2, <1>4
  <2>3. \A i \in 0 .. m : v[i] = t[i]
    BY <1>2, <1>4
  <2> QED
    BY <2>1, <2>2, <2>3
<1>6. /\ M \in [Nat -> Seq(Pushed)] /\ M[m + 1] = q /\ M[0] = << >>
      /\ \A i \in 0 .. m : M[i] = L[i]
  <2>1. M \in [Nat -> Seq(Pushed)]
    BY <1>3, <1>4
  <2>2. M[m + 1] = q /\ M[0] = << >>
    BY <1>3, <1>4
  <2>3. \A i \in 0 .. m : M[i] = L[i]
    BY <1>3, <1>4
  <2> QED
    BY <2>1, <2>2, <2>3
<1>7. Same(s, t, L, u, v, M, m)
  BY <1>5, <1>6 DEF Same
<1>8. ASSUME NEW i \in 1 .. m
      PROVE  /\ Saves(u, v, M, i - 1, u[i]) /\ Makes(u, v, M, i - 1, u[i], v[i], M[i])
             /\ Reach(u, v, M, i)
  <2>1. /\ Saves(s, t, L, i - 1, s[i]) /\ Makes(s, t, L, i - 1, s[i], t[i], L[i])
        /\ Reach(s, t, L, i)
    BY LevelAt
  <2>2. Same(s, t, L, u, v, M, i - 1) /\ i - 1 \in Nat
    BY <1>7 DEF Same, Keeps
  <2>3. u[i] = s[i] /\ v[i] = t[i] /\ M[i] = L[i]
    BY <1>7 DEF Same, Keeps
  <2>4. Saves(u, v, M, i - 1, s[i])
    BY <2>1, <2>2, SavesSame
  <2>5. Makes(u, v, M, i - 1, s[i], t[i], L[i])
    BY <2>1, <2>2, MakesSame
  <2>6. Reach(u, v, M, i)
    BY <1>4, <1>7, <2>1, ReachSame
  <2> QED
    BY <2>3, <2>4, <2>5, <2>6
<1>9. Saves(u, v, M, m, f) /\ Makes(u, v, M, m, f, x, q)
  BY <1>1, <1>4, <1>7, SavesSame, MakesSame
<1>10. ASSUME f.kind \in Handlers PROVE Reach(u, v, M, m + 1)
  <2>1. x = m + 1 /\ q \in {L[m], Append(L[m], Zero)}
    BY <1>1, <1>10 DEF Makes, Handlers
  <2>2. Begins(L[m], q)
    BY <1>4, <2>1, BeginsSelf, BeginsAppend DEF Pushed
  <2>3. v[m + 1] - 1 = m /\ v[m + 1] \in 1 .. m + 1
    BY <1>4, <1>5, <2>1
  <2>4. M[m] = L[m]
    BY <1>4, <1>6
  <2>5. v[m + 1] + 1 .. m + 1 = {}
    BY <1>5, <2>1
  <2>6. /\ v[m + 1] # 0 /\ u[v[m + 1]].kind \in Handlers
        /\ Begins(M[v[m + 1] - 1], M[m + 1])
    <3>1. v[m + 1] # 0 /\ u[v[m + 1]] = f
      BY <1>1, <1>5, <2>1
    <3>2. M[v[m + 1] - 1] = L[m] /\ M[m + 1] = q
      BY <1>6, <2>3, <2>4
    <3> QED
      BY <1>10, <2>2, <3>1, <3>2
  <2>7. Reach(u, v, M, m + 1)
    BY <2>3, <2>5, <2>6 DEF Reach
  <2> QED
    BY <2>7
<1>11. ASSUME f.kind = "throw" PROVE Reach(u, v, M, m + 1)
  <2>1. PICK h : h = t[m]
    OBVIOUS
  <2>2. h \in 1 .. m /\ m \in 1 .. Len(s) /\ h # 0
    BY <1>1, <1>4, <1>11, <2>1 DEF Saves
  <2>3. s[h].up = t[h - 1] /\ s[h].pushes = Len(L[h - 1]) /\ Begins(L[h - 1], L[m])
    <3>1. Saved(s, t, L, m, h)
      BY <2>1, <2>2, OnTop
    <3> QED
      BY <3>1 DEF Saved
  <2>4. x = t[h - 1] /\ Begins(q, L[m]) /\ Len(q) >= Len(L[h - 1])
    BY <1>1, <1>11, <2>1, <2>3 DEF Makes
  <2>5. L[h - 1] \in Seq(Pushed) /\ L[m] \in Seq(Pushed)
    BY <1>4, <2>2
  <2>6. Begins(L[h - 1], q)
    <3>1. Len(q) \in Nat /\ Len(L[h - 1]) \in Nat
      BY <2>5, LenProperties
    <3> QED
      BY <2>3, <2>4, <3>1 DEF Begins
  <2>7. ASSUME x # 0
        PROVE  x \in 1 .. m /\ u[x].kind \in Handlers /\ Begins(M[x - 1], q)
    <3>1. h - 1 \in 1 .. Len(s) /\ h - 1 \in 1 .. m
      <4>1. h - 1 # 0
        BY <1>4, <2>4, <2>7
      <4>2. h - 1 \in 1 .. m
        BY <2>2, <4>1
      <4> QED
        BY <4>2
    <3>2. x \in 1 .. h - 1 /\ s[x].kind \in Handlers /\ Begins(L[x - 1], L[h - 1])
      BY <2>4, <2>7, <3>1, OnTop DEF Saved
    <3>3. x \in 1 .. m /\ x - 1 \in 0 .. m /\ x - 1 \in Nat
      BY <3>1, <3>2
    <3>4. L[x - 1] \in Seq(Pushed)
      BY <1>4, <3>3
    <3>5. Begins(L[x - 1], q)
      BY <2>5, <2>6, <3>2, <3>4, BeginsThrough
    <3>6. M[x - 1] = L[x - 1]
      BY <1>6, <3>3
    <3>7. u[x] = s[x]
      BY <3>3 DEF Keeps
    <3> QED
      BY <3>2, <3>3, <3>5, <3>6, <3>7
  <2>8. u[m + 1].kind = "throw" /\ m + 1 \in 1 .. m + 1
    BY <1>1, <1>4, <1>11
  <2>9. x # 0 => x \in 1 .. m + 1
    BY <1>4, <2>7
  <2>10. Reach(u, v, M, m + 1)
    <3>1. v[m + 1] # 0 => /\ v[m + 1] \in 1 .. m + 1 /\ u[v[m + 1]].kind \in Handlers
                          /\ Begins(M[v[m + 1] - 1], M[m + 1])
      BY <1>5, <1>6, <2>7, <2>9
    <3> QED
      BY <2>8, <3>1 DEF Reach
  <2> QED
    BY <2>10
<1>12. ASSUME f.kind \notin Handlers \cup {"throw"} PROVE Reach(u, v, M, m + 1)
  <2>1. m # 0 /\ m \in 1 .. Len(s)
    <3>1. f.kind # "root"
      BY <1>12 DEF Handlers
    <3>2. m # 0
      BY <1>1, <3>1 DEF Saves
    <3> QED
      BY <3>2
  <2>2. x = t[m]
    BY <1>1, <1>12 DEF Makes
  <2>3. Begins(L[m], q)
    <3>1. L[m] \in Seq(Pushed)
      BY <1>4
    <3>2. CASE q = L[m]
      BY <3>1, <3>2, BeginsSelf
    <3>3. ASSUME NEW w \in Pushed, q = Append(L[m], w) PROVE Begins(L[m], q)
      BY <3>1, <3>3, BeginsAppend
    <3>4. Zero \in Pushed /\ \A w \in Value : Push(w) \in Pushed
      BY DEF Pushed, Push
    <3> QED
      BY <1>1, <1>12, <3>2, <3>3, <3>4 DEF Makes
  <2>4. Reach(s, t, L, m) /\ Reach(u, v, M, m)
    BY <1>8, <2>1, LevelAt
  <2>5. v[m] = t[m] /\ M[m] = L[m] /\ u[m + 1] = f
    BY <1>1, <1>4, <1>5, <1>6
  <2>6. ASSUME x # 0
        PROVE  x \in 1 .. m + 1 /\ u[x].kind \in Handlers /\ Begins(M[x - 1], q)
    <3>1. x \in 1 .. m /\ u[x].kind \in Handlers /\ Begins(M[x - 1], L[m])
      BY <2>2, <2>4, <2>5, <2>6 DEF Reach
    <3>2. M[x - 1] \in Seq(Pushed) /\ L[m] \in Seq(Pushed)
      BY <1>4, <1>6, <3>1
    <3>3. Begins(M[x - 1], q)
      BY <2>3, <3>1, <3>2, BeginsThrough
    <3> QED
      BY <3>1, <3>3
  <2>7. ASSUME \A j \in 1 .. m + 1 : u[j].kind # "throw"
        PROVE  x # 0 /\ \A j \in x + 1 .. m + 1 : u[j].kind \notin Handlers
    <3>1. \A j \in 1 .. m : u[j].kind # "throw"
      BY <1>4, <2>7
    <3>2. x # 0 /\ \A j \in x + 1 .. m : u[j].kind \notin Handlers
      BY <2>2, <2>4, <2>5, <3>1 DEF Reach
    <3>3. \A j \in x + 1 .. m + 1 : j \in x + 1 .. m \/ j = m + 1
      BY <1>4
    <3> QED
      BY <1>12, <2>5, <3>2, <3>3
  <2>8. Reach(u, v, M, m + 1)
    <3>1. v[m + 1] # 0 => /\ v[m + 1] \in 1 .. m + 1 /\ u[v[m + 1]].kind \in Handlers
                          /\ Begins(M[v[m + 1] - 1], M[m + 1])
      BY <1>5, <1>6, <2>6
    <3>2. (\A j \in 1 .. m + 1 : u[j].kind # "throw") =>
            /\ v[m + 1] # 0
            /\ \A j \in v[m + 1] + 1 .. m + 1 : u[j].kind \notin Handlers
      BY <1>5, <2>7
    <3> QED
      BY <3>1, <3>2 DEF Reach
  <2> QED
    BY <2>8
<1>13. Reach(u, v, M, m + 1)
  BY <1>10, <1>11, <1>12
<1>14. Levels(u, v, M)
  <2>1. ASSUME NEW i \in 1 .. m + 1
        PROVE  /\ Saves(u, v, M, i - 1, u[i]) /\ Makes(u, v, M, i - 1, u[i], v[i], M[i])
               /\ Reach(u, v, M, i)
    <3>1. CASE i = m + 1
      <4>1. i - 1 = m
        BY <1>4, <3>1
      <4> QED
        BY <1>1, <1>5, <1>6, <1>9, <1>13, <3>1, <4>1
    <3>2. CASE i # m + 1
      <4>1. i \in 1 .. m
        BY <1>4, <3>2
      <4> QED
        BY <1>8, <4>1
    <3> QED
      BY <3>1, <3>2
  <2> QED
    BY <1>5, <1>6, <2>1 DEF Levels
<1>15. Stacked(u, x, q)
  BY <1>5, <1>6, <1>14 DEF Stacked
<1> QED
  BY ZenonT(40), <1>4, <1>15, CountSame, CountNext DEF Keeps

\* The first m levels stay.
LEMMA Shrinks ==
  ASSUME NEW s, NEW t, NEW L, Levels(s, t, L), Len(s) \in Nat,
         NEW u, NEW m \in Nat, m <= Len(s), Len(u) = m, Keeps(u, s, m)
  PROVE  /\ Stacked(u, t[m], L[m])
         /\ Evals(u, m) = Evals(s, m) /\ Catchers(u, m) = Catchers(s, m)
<1>1. t \in [Nat -> Nat] /\ L \in [Nat -> Seq(Pushed)]
  BY LevelsTyped
<1>2. Same(s, t, L, u, t, L, m)
  BY DEF Same, Keeps
<1>3. ASSUME NEW i \in 1 .. m
      PROVE  /\ Saves(u, t, L, i - 1, u[i]) /\ Makes(u, t, L, i - 1, u[i], t[i], L[i])
             /\ Reach(u, t, L, i)
  <2>1. /\ Saves(s, t, L, i - 1, s[i]) /\ Makes(s, t, L, i - 1, s[i], t[i], L[i])
        /\ Reach(s, t, L, i)
    BY LevelAt
  <2>2. Same(s, t, L, u, t, L, i - 1) /\ i - 1 \in Nat
    BY <1>2 DEF Same, Keeps
  <2>3. Saves(u, t, L, i - 1, s[i]) /\ Makes(u, t, L, i - 1, s[i], t[i], L[i])
    BY <2>1, <2>2, SavesSame, MakesSame
  <2>4. Reach(u, t, L, i)
    BY <1>1, <1>2, <2>1, ReachSame
  <2>5. u[i] = s[i]
    BY DEF Keeps
  <2> QED
    BY <2>3, <2>4, <2>5
<1>4. Levels(u, t, L)
  BY <1>1, <1>3, LevelsTyped DEF Levels
<1> QED
  BY <1>1, <1>4, CountSame DEF Stacked, Keeps

-----------------------------------------------------------------------------
(* Steps.                                                                  *)

Clean(m) == \A i \in 1 .. m : stack[i].kind \notin {"settor", "throw"}

LEMMA Here ==
  ASSUME IInv, shell = "running"
  PROVE  /\ \E t \in [Nat -> Nat], L \in [Nat -> Seq(Pushed)] :
              /\ Levels(stack, t, L)
              /\ tophandler = t[Len(stack)] /\ pushlist = L[Len(stack)]
         /\ Len(stack) \in Nat \ {0} /\ Top = stack[Len(stack)] /\ Top \in Activation
         /\ tophandler \in Nat /\ pushlist \in Seq(Pushed)
<1>1. stack \in Seq(Activation) /\ stack # << >>
  BY DEF IInv, Typed
<1>2. Len(stack) \in Nat \ {0} /\ stack[Len(stack)] \in Activation
  BY <1>1, LenProperties, EmptySeq, ElementOfSeq
<1>3. PICK t \in [Nat -> Nat], L \in [Nat -> Seq(Pushed)] :
        /\ Levels(stack, t, L)
        /\ tophandler = t[Len(stack)] /\ pushlist = L[Len(stack)]
  BY DEF IInv, Stacked
<1> QED
  BY <1>2, <1>3 DEF Top

\* The values saved by the top activation.
LEMMA TopLevel ==
  ASSUME NEW t, NEW L, Levels(stack, t, L), NEW n \in Nat \ {0}, n = Len(stack)
  PROVE  /\ Saves(stack, t, L, n - 1, stack[n])
         /\ Makes(stack, t, L, n - 1, stack[n], t[n], L[n])
         /\ Reach(stack, t, L, n)
         /\ n - 1 \in Nat /\ n - 1 <= Len(stack) /\ n - 1 < n /\ n - 1 + 1 = n
         /\ t[n] \in Nat /\ L[n] \in Seq(Pushed)
         /\ t[n - 1] \in Nat /\ L[n - 1] \in Seq(Pushed)
         /\ 1 .. n - 1 \subseteq 1 .. n
<1>1. n \in 1 .. Len(stack)
  OBVIOUS
<1>2. n \in Nat /\ n - 1 \in Nat
  OBVIOUS
<1>3. t \in [Nat -> Nat] /\ L \in [Nat -> Seq(Pushed)]
  BY LevelsTyped
<1>4. /\ t[n] \in Nat /\ L[n] \in Seq(Pushed)
      /\ t[n - 1] \in Nat /\ L[n - 1] \in Seq(Pushed)
  BY <1>2, <1>3
<1>5. n - 1 <= Len(stack) /\ n - 1 < n /\ n - 1 + 1 = n /\ 1 .. n - 1 \subseteq 1 .. n
  OBVIOUS
<1> QED
  BY <1>1, <1>2, <1>4, <1>5, LevelAt

LEMMA CleanBelow ==
  ASSUME IInv, settor = "none", NEW m \in Nat, NEW n, n = Len(stack), m <= n,
         m = n => Top.kind # "throw"
  PROVE  Clean(m)
<1>1. n \in Nat
  BY LenProperties DEF IInv, Typed
<1> SUFFICES ASSUME NEW i \in 1 .. m PROVE stack[i].kind \notin {"settor", "throw"}
  BY DEF Clean
<1>2. i \in 1 .. n
  BY <1>1
<1>3. stack[i].kind # "settor" /\ (stack[i].kind = "throw" => i = n)
  BY <1>2 DEF IInv, Plain
<1> QED
  BY <1>1, <1>3 DEF Top

\* A step that keeps the first m activations and makes one on them.
LEMMA Grown ==
  ASSUME IInv, settor' = settor, NEW t, NEW L, Levels(stack, t, L),
         NEW m \in Nat, m <= Len(stack), stack' \in Seq(Activation),
         Len(stack') = m + 1, Keeps(stack', stack, m),
         tophandler' \in Nat, pushlist' \in Seq(Pushed),
         Saves(stack, t, L, m, stack'[m + 1]),
         Makes(stack, t, L, m, stack'[m + 1], tophandler', pushlist'),
         evaldepth' = Evals(stack, m) + (IF IsEval(stack'[m + 1]) THEN 1 ELSE 0),
         var' \in Value, blocked' \in Nat, shell' = "running",
         blocked' >= Catchers(stack, m) + (IF stack'[m + 1].kind = "catcher" THEN 1 ELSE 0),
         settor = "none" =>
           /\ blocked' = Catchers(stack, m) + (IF stack'[m + 1].kind = "catcher" THEN 1 ELSE 0)
           /\ stack'[m + 1].kind # "settor" /\ Clean(m)
  PROVE  IInv'
<1>1. Len(stack) \in Nat
  BY LenProperties DEF IInv, Typed
<1>2. /\ Stacked(stack', tophandler', pushlist')
      /\ Evals(stack', m + 1) = Evals(stack, m) + (IF IsEval(stack'[m + 1]) THEN 1 ELSE 0)
      /\ Catchers(stack', m + 1) =
           Catchers(stack, m) + (IF stack'[m + 1].kind = "catcher" THEN 1 ELSE 0)
  BY <1>1, Grows
<1>3. Typed'
  <2>1. stack' # << >>
    BY EmptySeq
  <2> QED
    BY <2>1 DEF IInv, Typed
<1>4. evaldepth' = Evals(stack', Len(stack')) /\ blocked' >= Catchers(stack', Len(stack'))
  BY <1>2
<1>5. ASSUME settor = "none" PROVE Plain'
  <2>1. blocked' = Catchers(stack', Len(stack')) /\ shell' # "aborted"
    BY <1>2, <1>5
  <2>2. ASSUME NEW i \in 1 .. Len(stack')
        PROVE  stack'[i].kind # "settor" /\ (stack'[i].kind = "throw" => i = Len(stack'))
    <3>1. CASE i = m + 1
      BY <1>5, <3>1
    <3>2. CASE i # m + 1
      <4>1. i \in 1 .. m
        BY <3>2
      <4>2. stack'[i] = stack[i]
        BY <4>1 DEF Keeps
      <4> QED
        BY <1>5, <4>1, <4>2 DEF Clean
    <3> QED
      BY <3>1, <3>2
  <2> QED
    BY <2>1, <2>2 DEF Plain
<1> QED
  BY <1>2, <1>3, <1>4, <1>5 DEF IInv

\* A step that keeps the first m activations.
LEMMA Shrunk ==
  ASSUME IInv, settor' = settor, NEW t, NEW L, Levels(stack, t, L),
         NEW m \in Nat, m <= Len(stack), stack' \in Seq(Activation),
         Len(stack') = m, Keeps(stack', stack, m),
         tophandler' = t[m], pushlist' = L[m], evaldepth' = Evals(stack, m),
         var' \in Value, blocked' \in Nat, shell' \in {"running", "exited"},
         shell' = "running" => m # 0,
         blocked' >= Catchers(stack, m),
         settor = "none" => blocked' = Catchers(stack, m) /\ Clean(m)
  PROVE  IInv'
<1>1. Len(stack) \in Nat
  BY LenProperties DEF IInv, Typed
<1>2. /\ Stacked(stack', tophandler', pushlist')
      /\ Evals(stack', m) = Evals(stack, m) /\ Catchers(stack', m) = Catchers(stack, m)
  BY <1>1, Shrinks
<1>3. Typed'
  <2>1. shell' = "running" => stack' # << >>
    BY EmptySeq
  <2> QED
    BY <2>1 DEF IInv, Typed
<1>4. evaldepth' = Evals(stack', Len(stack')) /\ blocked' >= Catchers(stack', Len(stack'))
  BY <1>2
<1>5. ASSUME settor = "none" PROVE Plain'
  <2>1. blocked' = Catchers(stack', Len(stack')) /\ shell' # "aborted"
    BY <1>2, <1>5
  <2>2. ASSUME NEW i \in 1 .. Len(stack')
        PROVE  stack'[i].kind # "settor" /\ (stack'[i].kind = "throw" => i = Len(stack'))
    <3>1. stack'[i] = stack[i] /\ i \in 1 .. m
      BY DEF Keeps
    <3> QED
      BY <1>5, <3>1 DEF Clean
  <2> QED
    BY <2>1, <2>2 DEF Plain
<1> QED
  BY <1>2, <1>3, <1>4, <1>5 DEF IInv

\* The facts a step that adds an activation needs: it is made on the whole
\* stack, where a throw that is on top goes on.
LEMMA Entered ==
  ASSUME IInv, shell = "running", settor' = settor, NEW t, NEW L, Levels(stack, t, L),
         NEW f \in Activation, stack' = Append(stack, f),
         tophandler' \in Nat, pushlist' \in Seq(Pushed),
         Saves(stack, t, L, Len(stack), f),
         Makes(stack, t, L, Len(stack), f, tophandler', pushlist'),
         evaldepth' = evaldepth + (IF IsEval(f) THEN 1 ELSE 0),
         var' \in Value, blocked' = blocked, shell' = shell, f.kind # "catcher",
         settor = "none" => f.kind # "settor" /\ Top.kind # "throw"
  PROVE  IInv'
<1>1. PICK n : n = Len(stack)
  OBVIOUS
<1>2. n \in Nat \ {0} /\ Top = stack[n]
  BY <1>1, Here
<1>3. stack \in Seq(Activation) /\ blocked \in Nat /\ blocked >= Catchers(stack, n)
  BY <1>1 DEF IInv, Typed
<1>4. /\ stack' \in Seq(Activation) /\ Len(stack') = n + 1 /\ stack'[n + 1] = f
      /\ \A i \in 1 .. n : stack'[i] = stack[i]
  BY <1>1, <1>3, AppendFacts
<1>5. Keeps(stack', stack, n)
  BY <1>4 DEF Keeps
<1>6. evaldepth' = Evals(stack, n) + (IF IsEval(f) THEN 1 ELSE 0)
  BY <1>1 DEF IInv
<1>7. Catchers(stack, n) \in Nat
  BY <1>2, CountNext
<1>8. settor = "none" => blocked = Catchers(stack, n) /\ Clean(n)
  BY <1>1, <1>2, CleanBelow DEF IInv, Plain
<1>9. Saves(stack, t, L, n, f) /\ Makes(stack, t, L, n, f, tophandler', pushlist')
  BY <1>1
<1>10. n <= Len(stack)
  BY <1>1, <1>2
<1>11. Catchers(stack, n) + (IF f.kind = "catcher" THEN 1 ELSE 0) = Catchers(stack, n)
  BY <1>7
<1>12. shell' = "running"
  OBVIOUS
<1>13. settor = "none" =>
         /\ blocked' = Catchers(stack, n) + (IF f.kind = "catcher" THEN 1 ELSE 0)
         /\ f.kind # "settor" /\ Clean(n)
  BY <1>8, <1>11
<1>14. blocked' >= Catchers(stack, n) + (IF f.kind = "catcher" THEN 1 ELSE 0)
  BY <1>3, <1>11
<1> QED
  BY <1>2, <1>3, <1>4, <1>5, <1>6, <1>9, <1>10, <1>12, <1>13, <1>14, Grown

LEMMA CallSettorKeeps ==
  ASSUME IInv, shell = "running", settor' = settor, settor # "none",
         NEW use \in {"def", "push", "pop"}, NEW arg \in Value, CallSettor(use, arg),
         use = "pop" => /\ Binds(pushlist, arg)
                        /\ \/ Top.kind = "local"
                           \/ Top.kind = "throw" /\ Len(pushlist) > stack[Top.target].pushes
  PROVE  IInv'
<1>1. PICK t \in [Nat -> Nat], L \in [Nat -> Seq(Pushed)] :
        Levels(stack, t, L) /\ tophandler = t[Len(stack)] /\ pushlist = L[Len(stack)]
  BY Here
<1>2. PICK n : n = Len(stack)
  OBVIOUS
<1>3. /\ n \in Nat \ {0} /\ Top = stack[n] /\ Top \in Activation
      /\ tophandler \in Nat /\ pushlist \in Seq(Pushed)
  BY <1>2, Here
<1>4. PICK f : f = SettorFrame(use, arg)
  OBVIOUS
<1>5. f.kind = "settor" /\ f.use = use /\ f.arg = arg /\ f \in Activation /\ IsEval(f)
  BY <1>4 DEF SettorFrame, Activation, IsEval
<1>6. Top.kind = "throw" => Top.target \in 1 .. n
  <2>1. Saves(stack, t, L, n - 1, stack[n]) /\ 1 .. n - 1 \subseteq 1 .. n
    BY <1>1, <1>2, <1>3, TopLevel
  <2>2. Top.kind = "throw" => Top.target = t[n - 1] /\ t[n - 1] \in 1 .. n - 1
    BY <1>3, <2>1 DEF Saves
  <2> QED
    BY <2>1, <2>2
<1>7. Saves(stack, t, L, n, f)
  <2>1. f.kind # "root" /\ f.kind \notin Handlers \cup {"local", "throw"}
    BY <1>5 DEF Handlers
  <2> QED
    BY <1>1, <1>2, <1>3, <1>5, <1>6, <2>1 DEF Saves
<1>8. pushlist' = Append(pushlist, Zero) /\ pushlist' \in Seq(Pushed)
  <2>1. Zero \in Pushed
    BY DEF Pushed
  <2> QED
    BY <1>3, <2>1, BeginsAppend DEF CallSettor
<1>9. Makes(stack, t, L, n, f, tophandler', pushlist')
  <2>1. tophandler' = t[n] /\ pushlist' = Append(L[n], Zero)
    BY <1>1, <1>2, <1>8 DEF CallSettor
  <2> QED
    BY <1>5, <2>1 DEF Makes, Handlers
<1>10. /\ stack' = Append(stack, f) /\ tophandler' \in Nat /\ var' \in Value
       /\ evaldepth' = evaldepth + (IF IsEval(f) THEN 1 ELSE 0)
       /\ blocked' = blocked /\ shell' = shell /\ f.kind # "catcher"
  <2>1. var \in Value
    BY DEF IInv, Typed
  <2> QED
    BY <1>3, <1>4, <1>5, <2>1 DEF CallSettor
<1> QED
  BY <1>1, <1>2, <1>5, <1>7, <1>8, <1>9, <1>10, Entered

LEMMA throwKeeps ==
  ASSUME IInv, shell = "running", settor' = settor, NEW e \in Exn, throw(e),
         Top.kind # "throw"
  PROVE  IInv'
<1>1. PICK t \in [Nat -> Nat], L \in [Nat -> Seq(Pushed)] :
        Levels(stack, t, L) /\ tophandler = t[Len(stack)] /\ pushlist = L[Len(stack)]
  BY Here
<1>2. PICK n : n = Len(stack)
  OBVIOUS
<1>3. /\ n \in Nat \ {0} /\ Top = stack[n] /\ Top \in Activation
      /\ tophandler \in Nat /\ pushlist \in Seq(Pushed)
  BY <1>2, Here
<1>4. CASE tophandler = 0
  <2>1. shell' = "aborted"
        /\ UNCHANGED <<stack, tophandler, pushlist, var, evaldepth, blocked>>
    BY <1>4 DEF throw
  <2>2. settor # "none"
    <3> SUFFICES ASSUME settor = "none" PROVE FALSE
      OBVIOUS
    <3>1. Clean(n)
      <4>1. n \in Nat /\ n <= n
        BY <1>3
      <4> QED
        BY <1>2, <4>1, CleanBelow
    <3>2. \A j \in 1 .. n : stack[j].kind # "throw"
      BY <3>1 DEF Clean
    <3>3. Reach(stack, t, L, n)
      BY <1>1, <1>2, <1>3, TopLevel
    <3>4. t[n] # 0
      BY <3>2, <3>3 DEF Reach
    <3> QED
      BY <1>1, <1>2, <1>4, <3>4
  <2>3. Typed'
    BY <2>1 DEF IInv, Typed
  <2>4. Stacked(stack', tophandler', pushlist')
    BY <2>1 DEF IInv
  <2>5. evaldepth' = Evals(stack', Len(stack')) /\ blocked' >= Catchers(stack', Len(stack'))
    BY <2>1 DEF IInv
  <2> QED
    BY <2>2, <2>3, <2>4, <2>5 DEF IInv
<1>5. CASE tophandler # 0
  <2>1. /\ stack' = Append(stack, [kind |-> "throw", exn |-> e, target |-> tophandler])
        /\ tophandler' = stack[tophandler].up
        /\ UNCHANGED <<pushlist, var, evaldepth, blocked, shell>>
    BY <1>5 DEF throw
  <2>2. PICK f : f = [kind |-> "throw", exn |-> e, target |-> tophandler]
    OBVIOUS
  <2>3. /\ f.kind = "throw" /\ f.target = tophandler
        /\ f \in [kind : {"throw"}, exn : Exn, target : Nat]
    BY <1>3, <2>2
  <2>4. f \in Activation /\ ~ IsEval(f)
    BY <2>3 DEF Activation, IsEval
  <2>5. n \in 1 .. Len(stack) /\ t[n] = tophandler
    BY <1>1, <1>2, <1>3
  <2>6. /\ t[n] \in 1 .. n /\ t[n] - 1 \in Nat /\ stack[t[n]].up = t[t[n] - 1]
        /\ stack[t[n]].pushes = Len(L[t[n] - 1]) /\ Begins(L[t[n] - 1], L[n])
    <3>1. Len(stack) \in Nat /\ t[n] # 0
      BY <1>2, <1>3, <1>5, <2>5
    <3>2. PICK h : h = t[n]
      OBVIOUS
    <3>3. /\ h \in 1 .. n /\ h - 1 \in Nat /\ stack[h].up = t[h - 1]
          /\ stack[h].pushes = Len(L[h - 1]) /\ Begins(L[h - 1], L[n])
      <4>1. Saved(stack, t, L, n, h)
        BY <1>1, <2>5, <3>1, <3>2, OnTop
      <4> QED
        BY <4>1 DEF Saved
    <3> QED
      BY <3>2, <3>3
  <2>7. t[n] - 1 \in Nat
    BY <2>6
  <2>8. Saves(stack, t, L, n, f)
    <3>1. f.kind # "root" /\ f.kind \notin Handlers \cup {"local", "settor"}
      BY <2>3 DEF Handlers
    <3> QED
      BY <1>3, <2>3, <2>5, <2>6, <3>1 DEF Saves
  <2>9. Makes(stack, t, L, n, f, tophandler', pushlist')
    <3>1. tophandler' = stack[t[n]].up /\ pushlist' = L[n]
      BY <1>1, <1>2, <2>1, <2>5
    <3>2. Begins(L[n], L[n])
      BY <1>1, <1>2, <1>3, BeginsSelf
    <3>3. Len(L[n]) >= stack[t[n]].pushes
      <4>1. L[n] \in Seq(Pushed) /\ L[t[n] - 1] \in Seq(Pushed)
        BY <1>1, <1>3, <2>7
      <4>2. Len(L[n]) \in Nat /\ Len(L[t[n] - 1]) \in Nat
        BY <4>1, LenProperties
      <4> QED
        BY <2>6, <4>2 DEF Begins
    <3> QED
      BY <2>3, <3>1, <3>2, <3>3 DEF Makes, Handlers
  <2>10. tophandler' \in Nat
    BY <1>1, <2>1, <2>5, <2>6, <2>7
  <2>11. /\ stack' = Append(stack, f) /\ var' \in Value
         /\ evaldepth' = evaldepth + (IF IsEval(f) THEN 1 ELSE 0)
         /\ blocked' = blocked /\ shell' = shell /\ f.kind # "catcher" /\ f.kind # "settor"
         /\ pushlist' \in Seq(Pushed)
    <3>1. var \in Value
      BY DEF IInv, Typed
    <3>2. evaldepth \in Nat
      <4>1. evaldepth = Evals(stack, n)
        BY <1>2 DEF IInv
      <4>2. Evals(stack, n) \in 0 .. n
        BY <1>3, CountNext
      <4> QED
        BY <1>3, <4>1, <4>2
    <3> QED
      BY <1>3, <2>1, <2>2, <2>3, <2>4, <3>1, <3>2
  <2> QED
    BY <1>1, <1>2, <2>4, <2>8, <2>9, <2>10, <2>11, Entered
<1> QED
  BY <1>4, <1>5

\* A throw on top: its target, and what is left to be undone.
Thrown(t, L, n, h) ==
  /\ h = t[n - 1] /\ h # 0 /\ Saved(stack, t, L, n - 1, h)
  /\ tophandler = stack[h].up /\ Begins(pushlist, L[n - 1])
  /\ stack[h].pushes \in Nat /\ Len(pushlist) >= stack[h].pushes
  /\ Len(pushlist) \in Nat

LEMMA Throwing ==
  ASSUME IInv, shell = "running", Top.kind = "throw", NEW t, NEW L, Levels(stack, t, L),
         NEW n, n = Len(stack), tophandler = t[n], pushlist = L[n],
         NEW h, h = Top.target
  PROVE  Thrown(t, L, n, h)
<1>1. n \in Nat \ {0} /\ Top = stack[n] /\ pushlist \in Seq(Pushed)
  BY Here
<1>2. /\ Saves(stack, t, L, n - 1, stack[n])
      /\ Makes(stack, t, L, n - 1, stack[n], t[n], L[n]) /\ 1 .. n - 1 \subseteq 1 .. n
  BY <1>1, TopLevel
<1>3. h = t[n - 1] /\ h \in 1 .. n - 1
  BY <1>1, <1>2 DEF Saves
<1>4. h # 0
  BY <1>3
<1>5. n - 1 \in 1 .. Len(stack) /\ Len(stack) \in Nat
  BY <1>1, <1>3
<1>6. Saved(stack, t, L, n - 1, h)
  BY <1>3, <1>4, <1>5, OnTop
<1>7. /\ tophandler = stack[h].up /\ Begins(pushlist, L[n - 1])
      /\ Len(pushlist) >= stack[h].pushes
  BY <1>1, <1>2, <1>3 DEF Makes
<1>8. stack[h].pushes = Len(L[h - 1]) /\ h - 1 \in Nat
  BY <1>6 DEF Saved
<1>9. L[h - 1] \in Seq(Pushed)
  BY <1>8, LevelsTyped
<1>10. stack[h].pushes \in Nat
  BY <1>8, <1>9, LenProperties
<1>11. Len(pushlist) \in Nat
  BY <1>1, LenProperties
<1> QED
  BY <1>3, <1>4, <1>6, <1>7, <1>10, <1>11 DEF Thrown

\* varpop() of what was bound under the target.
LEMMA UnwindKeeps ==
  ASSUME IInv, shell = "running", settor' = settor, Top.kind = "throw",
         Len(pushlist) # stack[Top.target].pushes,
         pushlist' = Drop(pushlist),
         var' = IF pushlist[Len(pushlist)] = Zero THEN var
                ELSE pushlist[Len(pushlist)].defn,
         UNCHANGED <<stack, tophandler, evaldepth, blocked, shell>>
  PROVE  IInv'
<1>1. PICK t \in [Nat -> Nat], L \in [Nat -> Seq(Pushed)] :
        Levels(stack, t, L) /\ tophandler = t[Len(stack)] /\ pushlist = L[Len(stack)]
  BY Here
<1>2. PICK n : n = Len(stack)
  OBVIOUS
<1>3. PICK m : m = n - 1
  OBVIOUS
<1>4. /\ n \in Nat \ {0} /\ Top = stack[n] /\ Top \in Activation
      /\ tophandler \in Nat /\ pushlist \in Seq(Pushed)
  BY <1>2, Here
<1>5. PICK h : h = Top.target
  OBVIOUS
<1>6. Thrown(t, L, n, h)
  BY <1>1, <1>2, <1>5, Throwing
<1>7. m \in Nat /\ m <= Len(stack) /\ m + 1 = n /\ Saves(stack, t, L, m, stack[n])
  BY <1>1, <1>2, <1>3, <1>4, TopLevel
<1>8. h = t[m] /\ tophandler = stack[h].up /\ Begins(pushlist, L[m])
  BY <1>3, <1>6 DEF Thrown
<1>9. PICK p : p = stack[h].pushes
  OBVIOUS
<1>10. PICK k : k = Len(pushlist)
  OBVIOUS
<1>11. k \in Nat \ {0} /\ p \in Nat /\ k - 1 >= p
  <2>1. k \in Nat /\ p \in Nat /\ k >= p
    BY <1>6, <1>9, <1>10 DEF Thrown
  <2>2. k # p
    BY <1>5, <1>9, <1>10
  <2> QED
    BY <2>1, <2>2
<1>12. /\ pushlist' \in Seq(Pushed) /\ Len(pushlist') = k - 1
       /\ \A i \in 1 .. k - 1 : pushlist'[i] = pushlist[i]
       /\ pushlist[k] \in Pushed
  <2>1. pushlist # << >>
    BY <1>10, <1>11, EmptySeq
  <2> QED
    BY <1>4, <1>10, <2>1, DropFacts
<1>13. Begins(pushlist', L[m])
  <2>1. PICK w : w = Len(L[m])
    OBVIOUS
  <2>2. k <= w /\ \A i \in 1 .. k : pushlist[i] = L[m][i]
    BY <1>8, <1>10, <2>1 DEF Begins
  <2>3. w \in Nat
    <3>1. L[m] \in Seq(Pushed)
      BY <1>7
    <3> QED
      BY <2>1, <3>1, LenProperties
  <2>4. k - 1 <= w /\ \A i \in 1 .. k - 1 : i \in 1 .. k
    BY <1>11, <2>2, <2>3
  <2> QED
    BY <1>12, <2>1, <2>2, <2>4 DEF Begins
<1>14. Len(pushlist') >= stack[h].pushes
  BY <1>9, <1>11, <1>12
<1>15. Makes(stack, t, L, m, stack[n], tophandler', pushlist')
  BY <1>4, <1>8, <1>13, <1>14 DEF Makes, Handlers
<1>16. var' \in Value
  <2>1. pushlist[k] # Zero => pushlist[k].defn \in Value
    BY <1>12 DEF Pushed
  <2>2. var' = IF pushlist[k] = Zero THEN var ELSE pushlist[k].defn
    BY <1>10
  <2> QED
    BY <2>1, <2>2 DEF IInv, Typed
<1>17. ~ IsEval(stack[n]) /\ stack[n].kind # "catcher" /\ stack[n].kind # "settor"
  BY <1>4 DEF IsEval
<1>18. /\ Evals(stack, n) = Evals(stack, m) /\ Catchers(stack, n) = Catchers(stack, m)
       /\ Evals(stack, m) \in Nat /\ Catchers(stack, m) \in Nat
  <2>1. /\ Evals(stack, m) \in 0 .. m /\ Catchers(stack, m) \in 0 .. m
        /\ Evals(stack, m + 1) = Evals(stack, m) + (IF IsEval(stack[m + 1]) THEN 1 ELSE 0)
        /\ Catchers(stack, m + 1) =
             Catchers(stack, m) + (IF stack[m + 1].kind = "catcher" THEN 1 ELSE 0)
    BY <1>7, CountNext
  <2>5. stack[m + 1] = stack[n]
    BY <1>7
  <2>2. Evals(stack, m) \in Nat /\ Catchers(stack, m) \in Nat
    BY <1>7, <2>1
  <2>3. Evals(stack, n) = Evals(stack, m)
    BY <1>7, <1>17, <2>1, <2>2, <2>5
  <2>4. Catchers(stack, n) = Catchers(stack, m)
    BY <1>7, <1>17, <2>1, <2>2, <2>5
  <2> QED
    BY <2>2, <2>3, <2>4
<1>19. evaldepth' = Evals(stack, m) + (IF IsEval(stack[n]) THEN 1 ELSE 0)
  BY <1>2, <1>17, <1>18 DEF IInv
<1>20. blocked \in Nat /\ stack \in Seq(Activation)
  BY DEF IInv, Typed
<1>21. blocked' >= Catchers(stack, m) + (IF stack[n].kind = "catcher" THEN 1 ELSE 0)
  BY <1>2, <1>17, <1>18, <1>20 DEF IInv
<1>22. settor = "none" =>
         /\ blocked' = Catchers(stack, m) + (IF stack[n].kind = "catcher" THEN 1 ELSE 0)
         /\ stack[n].kind # "settor" /\ Clean(m)
  <2>1. ASSUME settor = "none" PROVE Clean(m)
    <3>1. m <= n /\ m \in Nat /\ m # n
      BY <1>4, <1>7
    <3> QED
      BY <1>2, <2>1, <3>1, CleanBelow
  <2> QED
    BY <1>2, <1>17, <1>18, <2>1 DEF IInv, Plain
<1>23. Keeps(stack', stack, m)
  BY DEF Keeps
<1>24. /\ stack' \in Seq(Activation) /\ Len(stack') = m + 1 /\ stack'[m + 1] = stack[n]
       /\ tophandler' \in Nat /\ blocked' \in Nat /\ shell' = "running"
  BY <1>2, <1>4, <1>7, <1>20
<1> QED
  BY <1>1, <1>7, <1>12, <1>15, <1>16, <1>19, <1>21, <1>22, <1>23, <1>24, Grown

\* The counts at the target of a throw and below it: what is above it holds no
\* catcher that is still to unblock signals, where unwinding runs no settor.
LEMMA TargetCounts ==
  ASSUME IInv, shell = "running", Top.kind = "throw", NEW t, NEW L, Levels(stack, t, L),
         NEW n, n = Len(stack), NEW h, Thrown(t, L, n, h)
  PROVE  /\ Catchers(stack, h - 1) \in Nat /\ Evals(stack, h - 1) \in Nat
         /\ blocked >= Catchers(stack, h - 1) + (IF stack[h].kind = "catcher" THEN 1 ELSE 0)
         /\ settor = "none" =>
              /\ blocked = Catchers(stack, h - 1)
                           + (IF stack[h].kind = "catcher" THEN 1 ELSE 0)
              /\ Clean(h - 1)
<1>1. n \in Nat \ {0} /\ Top = stack[n]
  BY Here
<1>2. /\ h = t[n - 1] /\ h # 0 /\ h \in 1 .. n - 1 /\ h - 1 \in Nat
      /\ stack[h].kind \in Handlers
  BY DEF Thrown, Saved
<1>3. PICK m : m = h - 1
  OBVIOUS
<1>4. m \in Nat /\ h = m + 1 /\ h \in Nat /\ h <= n /\ m <= n /\ m # n
  BY <1>1, <1>2, <1>3
<1>5. /\ Evals(stack, m) \in 0 .. m /\ Catchers(stack, m) \in 0 .. m
      /\ Catchers(stack, h) =
           Catchers(stack, m) + (IF stack[h].kind = "catcher" THEN 1 ELSE 0)
  BY <1>4, CountNext
<1>6. Catchers(stack, m) \in Nat /\ Evals(stack, m) \in Nat
  BY <1>4, <1>5
<1>7. Catchers(stack, h) \in Nat /\ Catchers(stack, n) \in Nat
  <2>1. n \in Nat
    BY <1>1
  <2>2. Catchers(stack, h) \in 0 .. h /\ Catchers(stack, n) \in 0 .. n
    BY <1>4, <2>1, CountNext
  <2> QED
    BY <1>4, <2>1, <2>2
<1>8. Catchers(stack, h) <= Catchers(stack, n)
  BY <1>1, <1>4, CountBelow
<1>9. blocked \in Nat /\ blocked >= Catchers(stack, n)
  BY DEF IInv, Typed
<1>10. blocked >= Catchers(stack, h)
  BY <1>7, <1>8, <1>9
<1>11. ASSUME settor = "none" PROVE blocked = Catchers(stack, h) /\ Clean(m)
  <2>1. PICK k : k = n - 1
    OBVIOUS
  <2>2. k \in Nat /\ k <= n /\ k # n /\ k \in 1 .. Len(stack) /\ n = k + 1
    BY <1>1, <1>2, <2>1
  <2>3. Clean(m)
    BY <1>4, <1>11, CleanBelow
  <2>4. \A j \in 1 .. k : stack[j].kind # "throw"
    <3>1. Clean(k)
      BY <1>11, <2>2, CleanBelow
    <3> QED
      BY <3>1 DEF Clean
  <2>5. Reach(stack, t, L, k)
    BY <2>2, LevelAt
  <2>6. \A j \in h + 1 .. k : stack[j].kind \notin Handlers
    BY <1>2, <2>1, <2>4, <2>5 DEF Reach
  <2>7. ASSUME NEW j \in h + 1 .. n PROVE stack[j].kind # "catcher"
    <3>1. CASE j = n
      BY <1>1, <3>1
    <3>2. CASE j # n
      <4>1. j \in h + 1 .. k
        BY <1>4, <2>2, <3>2
      <4> QED
        BY <2>6, <4>1 DEF Handlers
    <3> QED
      BY <3>1, <3>2
  <2>8. Catchers(stack, h) = Catchers(stack, n)
    BY <1>1, <1>4, <2>7, CountBelow
  <2> QED
    BY <1>11, <2>3, <2>8 DEF IInv, Plain
<1> QED
  BY <1>3, <1>5, <1>6, <1>10, <1>11

LEMMA OutcomeIs ==
  ASSUME NEW f, f.kind \in Handlers, NEW e
  PROVE  /\ Outcome(f, e) \in {"exit", "done", "rethrow", "for", "catch", "catcher"}
         /\ Outcome(f, e) = "exit" <=> f.kind = "root"
         /\ Outcome(f, e) = "done" => f.kind \in {"lambda", "for"}
         /\ Outcome(f, e) = "for" => f.kind = "for"
         /\ Outcome(f, e) = "catch" => f.kind = "catcher"
         /\ Outcome(f, e) = "catcher" <=> f.kind = "catch"
         /\ Outcome(f, e) = "rethrow" => f.kind \in {"lambda", "for", "input", "catcher"}
BY DEF Outcome, Handlers

\* longjmp(): what is left is the stack below the target, or that and the
\* activation that goes on.
LEMMA CatchKeeps ==
  ASSUME IInv, shell = "running", settor' = settor, Top.kind = "throw",
         Len(pushlist) = stack[Top.target].pushes, Catch
  PROVE  IInv'
<1>1. PICK t \in [Nat -> Nat], L \in [Nat -> Seq(Pushed)] :
        Levels(stack, t, L) /\ tophandler = t[Len(stack)] /\ pushlist = L[Len(stack)]
  BY Here
<1>2. PICK n : n = Len(stack)
  OBVIOUS
<1>3. n \in Nat \ {0} /\ Top = stack[n] /\ Top \in Activation /\ pushlist \in Seq(Pushed)
  BY <1>2, Here
<1>4. PICK h : h = Top.target
  OBVIOUS
<1>5. PICK m : m = h - 1
  OBVIOUS
<1>6. PICK f : f = stack[h]
  OBVIOUS
<1>7. PICK e : e = Top.exn
  OBVIOUS
<1>8. PICK out : out = Outcome(f, e)
  OBVIOUS
<1>9. PICK below : below = SubSeq(stack, 1, m)
  OBVIOUS
<1>10. Thrown(t, L, n, h)
  BY <1>1, <1>2, <1>4, Throwing
<1>11. /\ h \in 1 .. n - 1 /\ m \in Nat /\ f.kind \in Handlers
       /\ f.up = t[m] /\ f.pushes = Len(L[m])
       /\ f.depth = Evals(stack, m) + (IF f.kind = "lambda" THEN 1 ELSE 0)
       /\ Begins(L[m], L[n - 1])
  BY <1>5, <1>6, <1>10 DEF Thrown, Saved
<1>12. h = m + 1 /\ m <= n /\ h \in 1 .. n /\ m \in 0 .. n /\ n - 1 \in Nat
  BY <1>3, <1>5, <1>11
<1>13. f \in HandlerFrame /\ e \in Exn
  <2>1. f \in Activation
    BY <1>2, <1>6, <1>12, ElementOfSeq DEF IInv, Typed
  <2>2. f \in HandlerFrame
    BY <1>11, <2>1, Shapes
  <2>3. Top \in [kind : {"throw"}, exn : Exn, target : Nat]
    BY <1>3, Shapes
  <2> QED
    BY <1>7, <2>2, <2>3
<1>14. pushlist = L[m]
  <2>1. L[m] \in Seq(Pushed) /\ L[n - 1] \in Seq(Pushed)
    BY <1>11, <1>12
  <2>2. Begins(pushlist, L[n - 1]) /\ Len(pushlist) = Len(L[m])
    BY <1>4, <1>6, <1>10, <1>11 DEF Thrown
  <2>3. \A i \in 1 .. Len(pushlist) : pushlist[i] = L[m][i]
    BY <1>11, <2>2 DEF Begins
  <2> QED
    BY <1>3, <2>1, <2>2, <2>3, SeqEqual
<1>15. f.kind = "root" <=> m = 0
  <2>1. Saves(stack, t, L, h - 1, stack[h])
    BY <1>1, <1>2, <1>12, LevelAt
  <2> QED
    BY <1>5, <1>6, <2>1 DEF Saves
<1>16. /\ below \in Seq(Activation) /\ Len(below) = m
       /\ \A i \in 1 .. m : below[i] = stack[i]
  BY <1>2, <1>9, <1>12, FirstFacts DEF IInv, Typed
<1>17. PICK c : c = Catchers(stack, m)
  OBVIOUS
<1>18. PICK d : d = Evals(stack, m)
  OBVIOUS
<1>19. /\ c \in Nat /\ d \in Nat
       /\ blocked >= c + (IF f.kind = "catcher" THEN 1 ELSE 0)
       /\ settor = "none" =>
            blocked = c + (IF f.kind = "catcher" THEN 1 ELSE 0) /\ Clean(m)
  BY <1>1, <1>2, <1>5, <1>6, <1>10, <1>17, <1>18, TargetCounts
<1>20. blocked \in Nat /\ var \in Value
  BY DEF IInv, Typed
<1>25. PICK D : D = f.depth
  OBVIOUS
<1>26. PICK K : K = f.kind
  OBVIOUS
<1>27. PICK b : b = blocked
  OBVIOUS
<1>28. /\ D \in Nat /\ (K = "lambda" => D = d + 1) /\ (K # "lambda" => D = d)
       /\ b \in Nat
       /\ (K = "catcher" => b - 1 \in Nat /\ b - 1 >= c) /\ (K # "catcher" => b >= c)
       /\ settor = "none" =>
            (K = "catcher" => b - 1 = c) /\ (K # "catcher" => b = c) /\ Clean(m)
  <2>1. D = d + (IF K = "lambda" THEN 1 ELSE 0)
    BY <1>11, <1>18, <1>25, <1>26
  <2>2. (K = "lambda" => D = d + 1) /\ (K # "lambda" => D = d) /\ D \in Nat
    BY <1>19, <2>1
  <2>3. /\ b >= c + (IF K = "catcher" THEN 1 ELSE 0)
        /\ settor = "none" => b = c + (IF K = "catcher" THEN 1 ELSE 0) /\ Clean(m)
    BY <1>19, <1>26, <1>27
  <2>4. b \in Nat /\ c \in Nat
    BY <1>19, <1>20, <1>27
  <2>5. K = "catcher" => b - 1 \in Nat /\ b - 1 >= c
    BY <2>3, <2>4
  <2>6. K # "catcher" => b >= c
    BY <2>3, <2>4
  <2>7. settor = "none" => (K = "catcher" => b - 1 = c)
    BY <2>3, <2>4
  <2>8. settor = "none" => (K # "catcher" => b = c)
    BY <2>3, <2>4
  <2> QED
    BY <2>2, <2>3, <2>4, <2>5, <2>6, <2>7, <2>8
<1>21. /\ out \in {"exit", "done", "rethrow", "for", "catch", "catcher"}
       /\ out = "exit" <=> f.kind = "root"
       /\ out = "done" => f.kind \in {"lambda", "for"}
       /\ out = "for" => f.kind = "for"
       /\ out = "catch" => f.kind = "catcher"
       /\ out = "catcher" <=> f.kind = "catch"
       /\ out = "rethrow" => f.kind \in {"lambda", "for", "input", "catcher"}
  BY <1>8, <1>11, OutcomeIs
<1>22. /\ stack' = CASE out = "exit" -> << >>
                     [] out = "done" -> below
                     [] out = "rethrow" ->
                          Append(below, [kind |-> "rethrow", from |-> f.kind, exn |-> e])
                     [] OTHER -> Append(below, [f EXCEPT !.kind = out])
       /\ tophandler' = IF out \in Handlers THEN h ELSE f.up
       /\ evaldepth' = CASE out = "catch" -> f.depth + 1
                         [] out = "done" /\ f.kind = "lambda" -> f.depth - 1
                         [] OTHER -> f.depth
       /\ blocked' = CASE f.kind = "catch" -> blocked + 1
                       [] f.kind = "catcher" -> blocked - 1
                       [] OTHER -> blocked
       /\ shell' = IF out = "exit" THEN "exited" ELSE shell
       /\ pushlist' = pushlist /\ var' = var
  BY <1>4, <1>5, <1>6, <1>7, <1>8, <1>9 DEF Catch
<1>23. CASE out \in {"exit", "done"}
  <2>1. f.kind \in {"root", "lambda", "for"}
    BY <1>21, <1>23
  <2>2. stack' \in Seq(Activation) /\ Len(stack') = m /\ Keeps(stack', stack, m)
    <3>1. CASE out = "exit"
      <4>1. stack' = << >> /\ m = 0
        BY <1>15, <1>21, <1>22, <3>1
      <4> QED
        BY <4>1, EmptySeq DEF Keeps
    <3>2. CASE out = "done"
      <4>1. stack' = below
        BY <1>22, <3>2
      <4> QED
        BY <1>16, <4>1 DEF Keeps
    <3> QED
      BY <1>23, <3>1, <3>2
  <2>3. tophandler' = t[m] /\ pushlist' = L[m]
    BY <1>11, <1>14, <1>22, <1>23 DEF Handlers
  <2>4. evaldepth' = Evals(stack, m)
    <3>1. CASE K = "lambda"
      <4>1. out = "done" /\ out # "catch" /\ f.kind = "lambda"
        BY <1>21, <1>23, <1>26, <3>1
      <4>2. evaldepth' = D - 1
        BY <1>22, <1>25, <4>1
      <4> QED
        BY <1>18, <1>19, <1>28, <3>1, <4>2
    <3>2. CASE K # "lambda"
      <4>1. evaldepth' = D
        BY <1>22, <1>23, <1>25, <1>26, <3>2
      <4> QED
        BY <1>18, <1>28, <3>2, <4>1
    <3> QED
      BY <3>1, <3>2
  <2>5. blocked' = b /\ var' \in Value /\ K # "catcher"
    BY <1>20, <1>22, <1>26, <1>27, <2>1
  <2>6. /\ blocked' \in Nat /\ blocked' >= Catchers(stack, m)
        /\ settor = "none" => blocked' = Catchers(stack, m) /\ Clean(m)
    BY <1>17, <1>28, <2>5
  <2>7. shell' \in {"running", "exited"} /\ (shell' = "running" => m # 0)
    BY <1>15, <1>21, <1>22, <1>23
  <2> QED
    BY <1>1, <1>2, <1>11, <1>12, <2>2, <2>3, <2>4, <2>5, <2>6, <2>7, Shrunk
<1>24. CASE out \in {"rethrow", "for", "catch", "catcher"}
  <2>1. PICK g : g = IF out = "rethrow" THEN [kind |-> "rethrow", from |-> f.kind, exn |-> e]
                     ELSE [f EXCEPT !.kind = out]
    OBVIOUS
  <2>2. stack' = Append(below, g)
    BY <1>22, <1>24, <2>1
  <2>3. f.kind \in {"lambda", "for", "input", "catcher", "catch"} /\ m # 0
    BY <1>15, <1>21, <1>24
  <2>4. /\ g \in Activation /\ g.kind = out
        /\ out # "rethrow" => g.up = f.up /\ g.pushes = f.pushes /\ g.depth = f.depth
    <3>1. CASE out = "rethrow"
      <4>1. g \in [kind : {"rethrow"}, from : Handlers, exn : Exn] /\ g.kind = out
        BY <1>11, <1>13, <2>1, <3>1
      <4> QED
        BY <3>1, <4>1 DEF Activation
    <3>2. CASE out # "rethrow"
      <4>1. out \in Handlers
        BY <1>24, <3>2 DEF Handlers
      <4>2. g \in HandlerFrame /\ g.kind = out
            /\ g.up = f.up /\ g.pushes = f.pushes /\ g.depth = f.depth
        BY <1>13, <2>1, <3>2, <4>1 DEF HandlerFrame
      <4> QED
        BY <4>2 DEF Activation
    <3> QED
      BY <3>1, <3>2
  <2>5. /\ stack' \in Seq(Activation) /\ Len(stack') = m + 1 /\ stack'[m + 1] = g
        /\ \A i \in 1 .. m : stack'[i] = below[i]
    <3>1. /\ Append(below, g) \in Seq(Activation) /\ Len(Append(below, g)) = Len(below) + 1
          /\ Append(below, g)[Len(below) + 1] = g
          /\ \A i \in 1 .. Len(below) : Append(below, g)[i] = below[i]
      <4>1. g \in Activation
        BY <2>4
      <4>2. below \in Seq(Activation)
        BY <1>16
      <4> QED
        BY <4>1, <4>2, AppendFacts
    <3> QED
      BY <1>16, <2>2, <3>1
  <2>6. Keeps(stack', stack, m)
    BY <1>16, <2>5 DEF Keeps
  <2>7. /\ out = "rethrow" => (IsEval(g) <=> f.kind = "lambda")
        /\ out = "catch" => IsEval(g)
        /\ out \in {"for", "catcher"} => ~ IsEval(g)
    <3>1. out = "rethrow" => g.from = f.kind
      BY <2>1
    <3>2. out = "rethrow" => (IsEval(g) <=> f.kind = "lambda")
      BY <2>4, <3>1 DEF IsEval
    <3>3. out = "catch" => IsEval(g)
      BY <2>4 DEF IsEval
    <3>4. out \in {"for", "catcher"} => ~ IsEval(g)
      BY <2>4 DEF IsEval
    <3> QED
      BY <3>2, <3>3, <3>4
  <2>8. Saves(stack, t, L, m, g)
    <3>1. CASE out = "rethrow"
      BY <2>3, <2>4, <3>1 DEF Saves, Handlers
    <3>2. CASE out # "rethrow"
      <4>1. out # "root" /\ out # "lambda" /\ out \notin {"throw", "settor"}
        BY <1>24
      <4>2. f.kind # "lambda"
        BY <1>21, <1>24, <3>2
      <4>3. g.up = t[m] /\ g.pushes = Len(L[m]) /\ g.depth = Evals(stack, m) + 0
        BY <1>11, <2>4, <3>2, <4>2
      <4> QED
        BY <2>3, <2>4, <4>1, <4>3 DEF Saves
    <3> QED
      BY <3>1, <3>2
  <2>9. Makes(stack, t, L, m, g, tophandler', pushlist')
    <3>1. out \in Handlers => tophandler' = m + 1
      BY <1>12, <1>22
    <3>2. out \notin Handlers => tophandler' = t[m]
      BY <1>11, <1>22
    <3>3. pushlist' = L[m] /\ out \notin {"throw", "lambda", "settor", "local"}
      BY <1>14, <1>22, <1>24
    <3> QED
      BY <2>4, <3>1, <3>2, <3>3 DEF Makes
  <2>10. evaldepth' = Evals(stack, m) + (IF IsEval(g) THEN 1 ELSE 0)
    <3>1. CASE out = "catch"
      <4>1. K # "lambda" /\ evaldepth' = D + 1
        BY <1>21, <1>22, <1>25, <1>26, <3>1
      <4>2. IsEval(g)
        BY <2>7, <3>1
      <4>3. evaldepth' = d + 1
        BY <1>28, <4>1
      <4> QED
        BY <1>18, <4>2, <4>3
    <3>2. CASE out \in {"for", "catcher", "rethrow"}
      <4>1. evaldepth' = D
        BY <1>22, <1>25, <3>2
      <4>2. IsEval(g) <=> K = "lambda"
        <5>1. CASE out \in {"for", "catcher"}
          <6>1. K # "lambda"
            BY <1>21, <1>26, <5>1
          <6> QED
            BY <2>7, <5>1, <6>1
        <5>2. CASE out = "rethrow"
          BY <1>26, <2>7, <5>2
        <5> QED
          BY <3>2, <5>1, <5>2
      <4>3. CASE K = "lambda"
        <5>1. evaldepth' = d + 1 /\ IsEval(g)
          BY <1>28, <4>1, <4>2, <4>3
        <5> QED
          BY <1>18, <5>1
      <4>4. CASE K # "lambda"
        <5>1. evaldepth' = d /\ ~ IsEval(g)
          BY <1>28, <4>1, <4>2, <4>4
        <5> QED
          BY <1>18, <1>19, <5>1
      <4> QED
        BY <4>3, <4>4
    <3> QED
      BY <1>24, <3>1, <3>2
  <2>11. PICK k : k = IF g.kind = "catcher" THEN 1 ELSE 0
    OBVIOUS
  <2>12. /\ blocked' \in Nat /\ blocked' >= c + k
         /\ settor = "none" => blocked' = c + k /\ Clean(m)
    <3>1. CASE K = "catch"
      <4>1. k = 1 /\ blocked' = b + 1
        BY <1>21, <1>22, <1>26, <1>27, <2>4, <2>11, <3>1
      <4> QED
        BY <1>19, <1>28, <3>1, <4>1
    <3>2. CASE K = "catcher"
      <4>1. k = 0 /\ blocked' = b - 1
        BY <1>21, <1>22, <1>26, <1>27, <2>4, <2>11, <3>2
      <4> QED
        BY <1>19, <1>28, <3>2, <4>1
    <3>3. CASE K \notin {"catch", "catcher"}
      <4>1. k = 0 /\ blocked' = b
        BY <1>21, <1>22, <1>26, <1>27, <2>4, <2>11, <3>3
      <4> QED
        BY <1>19, <1>28, <3>3, <4>1
    <3> QED
      BY <3>1, <3>2, <3>3
  <2>13. tophandler' \in Nat /\ pushlist' \in Seq(Pushed) /\ var' \in Value
         /\ shell' = "running" /\ g.kind # "settor"
    <3>1. tophandler' \in Nat
      BY <1>11, <1>12, <1>22
    <3> QED
      BY <1>3, <1>20, <1>22, <1>24, <2>4, <3>1
  <2>14. /\ blocked' >= Catchers(stack, m) + (IF g.kind = "catcher" THEN 1 ELSE 0)
         /\ settor = "none" =>
              /\ blocked' = Catchers(stack, m) + (IF g.kind = "catcher" THEN 1 ELSE 0)
              /\ g.kind # "settor" /\ Clean(m)
    BY <1>17, <2>11, <2>12, <2>13
  <2> QED
    BY <1>1, <1>2, <1>11, <1>12, <2>5, <2>6, <2>8, <2>9, <2>10, <2>12, <2>13, <2>14, Grown
<1> QED
  BY <1>21, <1>23, <1>24

LEMMA DepthPlain ==
  ASSUME IInv
  PROVE  evaldepth + 0 = evaldepth
<1>1. Len(stack) \in Nat
  BY LenProperties DEF IInv, Typed
<1>2. PICK d : d = Evals(stack, Len(stack))
  OBVIOUS
<1>3. d \in 0 .. Len(stack)
  BY <1>1, <1>2, CountNext
<1>4. d \in Nat
  BY <1>1, <1>3
<1> QED
  BY <1>2, <1>4 DEF IInv

LEMMA FrameTyped ==
  ASSUME NEW kind \in Handlers \cup {"local"}, NEW x \in Nat, NEW k \in Nat, NEW d \in Nat
  PROVE  [kind |-> kind, up |-> x, pushes |-> k,
          depth |-> d + (IF kind = "lambda" THEN 1 ELSE 0)] \in HandlerFrame
<1>1. d + (IF kind = "lambda" THEN 1 ELSE 0) \in Nat
  OBVIOUS
<1> QED
  BY <1>1 DEF HandlerFrame

\* A handler is set up, or a local binding made.
LEMMA FrameEntered ==
  ASSUME IInv, shell = "running", settor' = settor, Top.kind # "throw",
         NEW kind \in {"lambda", "for", "input", "catch", "local"}, NEW f,
         f = [kind |-> kind, up |-> tophandler, pushes |-> Len(pushlist),
              depth |-> evaldepth + (IF kind = "lambda" THEN 1 ELSE 0)],
         stack' = Append(stack, f),
         tophandler' = IF kind = "local" THEN tophandler ELSE Len(stack'),
         pushlist' = CASE kind = "lambda" -> Append(pushlist, Zero)
                       [] kind = "local"  -> Append(pushlist, Push(var))
                       [] OTHER           -> pushlist,
         evaldepth' = evaldepth + (IF kind \in {"for", "local"} THEN 0 ELSE 1),
         var' \in Value, blocked' = blocked, shell' = shell
  PROVE  IInv'
<1>1. PICK t \in [Nat -> Nat], L \in [Nat -> Seq(Pushed)] :
        Levels(stack, t, L) /\ tophandler = t[Len(stack)] /\ pushlist = L[Len(stack)]
  BY Here
<1>2. PICK n : n = Len(stack)
  OBVIOUS
<1>3. n \in Nat \ {0} /\ tophandler \in Nat /\ pushlist \in Seq(Pushed) /\ var \in Value
  BY <1>2, Here DEF IInv, Typed
<1>4. PICK d : d = evaldepth
  OBVIOUS
<1>5. d = Evals(stack, n) /\ d \in Nat
  <2>1. Evals(stack, n) \in 0 .. n
    BY <1>3, CountNext
  <2> QED
    BY <1>2, <1>3, <1>4, <2>1 DEF IInv
<1>6. /\ f.kind = kind /\ f.up = tophandler /\ f.pushes = Len(pushlist)
      /\ f.depth = d + (IF kind = "lambda" THEN 1 ELSE 0)
  BY <1>4
<1>7. f \in HandlerFrame
  <2>1. PICK k : k = Len(pushlist)
    OBVIOUS
  <2>2. k \in Nat
    <3>1. pushlist \in Seq(Pushed)
      BY <1>3
    <3> QED
      BY <2>1, <3>1, LenProperties
  <2>3. PICK x : x = tophandler
    OBVIOUS
  <2>4. x \in Nat /\ d \in Nat
    BY <1>3, <1>5, <2>3
  <2>5. f = [kind |-> kind, up |-> x, pushes |-> k,
             depth |-> d + (IF kind = "lambda" THEN 1 ELSE 0)]
    BY <1>4, <2>1, <2>3
  <2>6. kind \in Handlers \cup {"local"}
    BY DEF Handlers
  <2> QED
    BY <2>2, <2>4, <2>5, <2>6, FrameTyped
<1>8. f \in Activation /\ (IsEval(f) <=> kind \in {"lambda", "input", "catch"})
  <2>1. f \in Activation
    BY <1>7 DEF Activation
  <2>2. kind \in {"lambda", "input", "catch"} => IsEval(f)
    BY <1>6 DEF IsEval
  <2>3. kind \in {"for", "local"} => ~ IsEval(f)
    BY <1>6 DEF IsEval
  <2> QED
    BY <2>1, <2>2, <2>3
<1>9. Len(stack') = n + 1
  BY <1>2, <1>8, AppendFacts DEF IInv, Typed
<1>10. Saves(stack, t, L, n, f)
  <2>1. f.up = t[n] /\ f.pushes = Len(L[n])
    BY <1>1, <1>2, <1>6
  <2>2. f.depth = Evals(stack, n) + (IF f.kind = "lambda" THEN 1 ELSE 0)
    BY <1>5, <1>6
  <2>3. n # 0 /\ f.kind \notin {"root", "throw", "settor"}
    BY <1>3, <1>6
  <2> QED
    BY <2>1, <2>2, <2>3 DEF Saves
<1>11. Zero \in Pushed /\ Push(var) \in Pushed
  BY <1>3 DEF Pushed, Push
<1>12. pushlist' \in Seq(Pushed)
  BY <1>3, <1>11, BeginsAppend
<1>13. Makes(stack, t, L, n, f, tophandler', pushlist')
  <2>1. kind \in Handlers => tophandler' = n + 1
    BY <1>9 DEF Handlers
  <2>2. kind \notin Handlers => kind = "local" /\ tophandler' = t[n]
    BY <1>1, <1>2 DEF Handlers
  <2>3. kind = "lambda" => pushlist' = Append(L[n], Zero)
    BY <1>1, <1>2
  <2>4. kind = "local" => \E v \in Value : pushlist' = Append(L[n], Push(v))
    BY <1>1, <1>2, <1>3
  <2>5. kind \notin {"lambda", "local"} => pushlist' = L[n]
    BY <1>1, <1>2
  <2>6. kind # "throw" /\ kind # "settor"
    OBVIOUS
  <2> QED
    BY <1>6, <2>1, <2>2, <2>3, <2>4, <2>5, <2>6 DEF Makes
<1>14. evaldepth' = evaldepth + (IF IsEval(f) THEN 1 ELSE 0)
  <2>1. CASE kind \in {"for", "local"}
    <3>1. ~ IsEval(f) /\ evaldepth' = evaldepth + 0
      BY <1>8, <2>1
    <3> QED
      BY <3>1
  <2>2. CASE kind \in {"lambda", "input", "catch"}
    <3>1. IsEval(f) /\ evaldepth' = evaldepth + 1
      BY <1>8, <2>2
    <3> QED
      BY <3>1
  <2> QED
    BY <2>1, <2>2
<1>15. tophandler' \in Nat
  <2>1. tophandler' \in {tophandler, n + 1}
    BY <1>9
  <2> QED
    BY <1>3, <2>1
<1>16. f.kind # "catcher" /\ f.kind # "settor"
  BY <1>6
<1> QED
  BY <1>1, <1>2, <1>8, <1>10, <1>12, <1>13, <1>14, <1>15, <1>16, Entered

\* eval() is entered at the limit.
LEMMA EvalEntered ==
  ASSUME IInv, shell = "running", settor' = settor, Top.kind # "throw",
         stack' = Append(stack, [kind |-> "eval"]), evaldepth' = evaldepth + 1,
         UNCHANGED <<tophandler, pushlist, var, blocked, shell>>
  PROVE  IInv'
<1>1. PICK t \in [Nat -> Nat], L \in [Nat -> Seq(Pushed)] :
        Levels(stack, t, L) /\ tophandler = t[Len(stack)] /\ pushlist = L[Len(stack)]
  BY Here
<1>2. PICK n : n = Len(stack)
  OBVIOUS
<1>3. n \in Nat \ {0} /\ tophandler \in Nat /\ pushlist \in Seq(Pushed) /\ var \in Value
  BY <1>2, Here DEF IInv, Typed
<1>4. PICK f : f = [kind |-> "eval"]
  OBVIOUS
<1>5. f.kind = "eval" /\ f \in Activation /\ IsEval(f)
  BY <1>4 DEF Activation, IsEval
<1>6. Saves(stack, t, L, n, f)
  BY <1>3, <1>5 DEF Saves, Handlers
<1>7. Makes(stack, t, L, n, f, tophandler', pushlist')
  BY <1>1, <1>2, <1>5 DEF Makes, Handlers
<1>8. /\ stack' = Append(stack, f) /\ evaldepth' = evaldepth + (IF IsEval(f) THEN 1 ELSE 0)
      /\ tophandler' \in Nat /\ pushlist' \in Seq(Pushed) /\ var' \in Value
      /\ blocked' = blocked /\ shell' = shell
      /\ f.kind # "catcher" /\ f.kind # "settor"
  BY <1>3, <1>4, <1>5
<1> QED
  BY <1>1, <1>2, <1>5, <1>6, <1>7, <1>8, Entered

-----------------------------------------------------------------------------
(* The commands.                                                           *)

LEMMA CallKeeps ==
  ASSUME IInv, settor' = settor, Call
  PROVE  IInv'
<1>1. /\ shell = "running" /\ Top.kind # "throw" /\ evaldepth' = evaldepth + 1
      /\ var' = var /\ blocked' = blocked /\ shell' = shell
  BY DEF Call, Enter, RunsCommands, Runs, InCode
<1>2. var \in Value
  BY DEF IInv, Typed
<1>3. CASE evaldepth' < maxevaldepth
  <2>1. PICK f : f = [kind |-> "lambda", up |-> tophandler, pushes |-> Len(pushlist),
                      depth |-> evaldepth + 1]
    OBVIOUS
  <2>2. /\ stack' = Append(stack, [Frame("lambda") EXCEPT !.depth = evaldepth'])
        /\ tophandler' = Len(stack') /\ pushlist' = Append(pushlist, Zero)
    BY <1>3 DEF Call, Enter
  <2>3. [Frame("lambda") EXCEPT !.depth = evaldepth'] = f
    BY <1>1, <2>1 DEF Frame
  <2>4. stack' = Append(stack, f)
    BY <2>2, <2>3
  <2>5. PICK kind \in {"lambda", "for", "input", "catch", "local"} : kind = "lambda"
    OBVIOUS
  <2>6. f = [kind |-> kind, up |-> tophandler, pushes |-> Len(pushlist),
             depth |-> evaldepth + (IF kind = "lambda" THEN 1 ELSE 0)]
    BY <2>1, <2>5
  <2>7. tophandler' = IF kind = "local" THEN tophandler ELSE Len(stack')
    BY <2>2, <2>5
  <2>8. pushlist' = CASE kind = "lambda" -> Append(pushlist, Zero)
                      [] kind = "local"  -> Append(pushlist, Push(var))
                      [] OTHER           -> pushlist
    BY <2>2, <2>5
  <2>9. evaldepth' = evaldepth + (IF kind \in {"for", "local"} THEN 0 ELSE 1)
    BY <1>1, <2>5
  <2> QED
    BY <1>1, <1>2, <2>4, <2>6, <2>7, <2>8, <2>9, FrameEntered
<1>4. CASE ~ (evaldepth' < maxevaldepth)
  <2>1. stack' = Append(stack, [kind |-> "eval"]) /\ UNCHANGED <<tophandler, pushlist>>
    BY <1>4 DEF Call, Enter
  <2> QED
    BY <1>1, <2>1, EvalEntered
<1> QED
  BY <1>3, <1>4

LEMMA GuardKeeps ==
  ASSUME IInv, settor' = settor, NEW kind \in {"catch", "input", "for"}, Guard(kind)
  PROVE  IInv'
<1>1. /\ shell = "running" /\ Top.kind # "throw"
      /\ var' = var /\ blocked' = blocked /\ shell' = shell
      /\ stack' = Append(stack, Frame(kind))
      /\ tophandler' = Len(stack') /\ pushlist' = pushlist
      /\ evaldepth' = IF kind = "for" THEN evaldepth ELSE evaldepth + 1
  BY DEF Guard, Enter, RunsCommands, Runs, InCode
<1>2. var \in Value
  BY DEF IInv, Typed
<1>3. PICK f : f = [kind |-> kind, up |-> tophandler, pushes |-> Len(pushlist),
                    depth |-> evaldepth + (IF kind = "lambda" THEN 1 ELSE 0)]
  OBVIOUS
<1>4. f = Frame(kind)
  BY <1>3, DepthPlain DEF Frame
<1>5. stack' = Append(stack, f)
  BY <1>1, <1>4
<1>6. tophandler' = IF kind = "local" THEN tophandler ELSE Len(stack')
  BY <1>1
<1>7. pushlist' = CASE kind = "lambda" -> Append(pushlist, Zero)
                    [] kind = "local"  -> Append(pushlist, Push(var))
                    [] OTHER           -> pushlist
  BY <1>1
<1>8. evaldepth' = evaldepth + (IF kind \in {"for", "local"} THEN 0 ELSE 1)
  BY <1>1, DepthPlain
<1>9. kind \in {"lambda", "for", "input", "catch", "local"}
  OBVIOUS
<1> QED
  BY <1>1, <1>2, <1>3, <1>5, <1>6, <1>7, <1>8, <1>9, FrameEntered

LEMMA LocalKeeps ==
  ASSUME IInv, settor' = settor, NEW value \in Value, Local(value)
  PROVE  IInv'
<1>1. shell = "running" /\ Top.kind # "throw"
  BY DEF Local, RunsCommands, Runs, InCode
<1>2. CASE settor = "none"
  <2>1. /\ stack' = Append(stack, Frame("local"))
        /\ pushlist' = Append(pushlist, Push(var)) /\ var' = value
        /\ UNCHANGED <<tophandler, evaldepth, blocked, shell>>
    BY <1>2 DEF Local
  <2>2. PICK kind \in {"lambda", "for", "input", "catch", "local"} : kind = "local"
    OBVIOUS
  <2>3. PICK f : f = [kind |-> kind, up |-> tophandler, pushes |-> Len(pushlist),
                      depth |-> evaldepth + (IF kind = "lambda" THEN 1 ELSE 0)]
    OBVIOUS
  <2>4. f = Frame("local")
    BY <2>2, <2>3, DepthPlain DEF Frame
  <2>5. stack' = Append(stack, f) /\ var' \in Value
    BY <2>1, <2>4
  <2>6. tophandler' = IF kind = "local" THEN tophandler ELSE Len(stack')
    BY <2>1, <2>2
  <2>7. pushlist' = CASE kind = "lambda" -> Append(pushlist, Zero)
                      [] kind = "local"  -> Append(pushlist, Push(var))
                      [] OTHER           -> pushlist
    BY <2>1, <2>2
  <2>8. evaldepth' = evaldepth + (IF kind \in {"for", "local"} THEN 0 ELSE 1)
    BY <2>1, <2>2, DepthPlain
  <2> QED
    BY <1>1, <2>1, <2>3, <2>5, <2>6, <2>7, <2>8, FrameEntered
<1>3. CASE settor # "none"
  <2>1. CallSettor("push", value)
    BY <1>3 DEF Local
  <2> QED
    BY <1>1, <1>3, <2>1, CallSettorKeeps
<1> QED
  BY <1>2, <1>3

LEMMA AssignKeeps ==
  ASSUME IInv, settor' = settor, NEW value \in Value, Assign(value)
  PROVE  IInv'
<1>1. CASE settor = "none"
  <2>1. /\ var' \in Value
        /\ UNCHANGED <<stack, tophandler, pushlist, settor, evaldepth, blocked, shell>>
    BY <1>1 DEF Assign
  <2> QED
    BY <2>1 DEF IInv, Typed, Stacked, Plain
<1>2. CASE settor # "none"
  <2>1. shell = "running" /\ CallSettor("def", value)
    BY <1>2 DEF Assign, RunsCommands, Runs, InCode
  <2> QED
    BY <1>2, <2>1, CallSettorKeeps
<1> QED
  BY <1>1, <1>2

LEMMA ThrowKeeps ==
  ASSUME IInv, settor' = settor,
         TooDeep \/ Rethrow \/ \E e \in Exn : Throw(e)
  PROVE  IInv'
<1>1. CASE TooDeep \/ \E e \in Exn : Throw(e)
  <2>1. shell = "running" /\ Top.kind # "throw" /\ \E e \in Exn : throw(e)
    BY <1>1 DEF TooDeep, Throw, RunsCommands, Runs, InCode, Exn
  <2> QED
    BY <2>1, throwKeeps
<1>2. CASE Rethrow
  <2>1. shell = "running" /\ Top.kind = "rethrow" /\ throw(Top.exn)
    BY <1>2 DEF Rethrow
  <2>2. Top.exn \in Exn
    BY <2>1, Here, Shapes
  <2> QED
    BY <2>1, <2>2, throwKeeps
<1> QED
  BY <1>1, <1>2

LEMMA UnwindStepKeeps ==
  ASSUME IInv, settor' = settor, Unwind
  PROVE  IInv'
<1>1. shell = "running" /\ Top.kind = "throw"
  BY DEF Unwind
<1>2. PICK last : last = pushlist[Len(pushlist)]
  OBVIOUS
<1>3. CASE Len(pushlist) = stack[Top.target].pushes
  <2>1. Catch
    BY <1>3 DEF Unwind
  <2> QED
    BY <1>1, <1>3, <2>1, CatchKeeps
<1>4. CASE Len(pushlist) # stack[Top.target].pushes
  <2>1. CASE last # Zero /\ settor # "none"
    <3>1. CallSettor("pop", last.defn)
      BY <1>2, <1>4, <2>1 DEF Unwind
    <3>2. /\ Len(pushlist) > stack[Top.target].pushes /\ last \in Pushed
          /\ pushlist # << >>
      <4>1. PICK t \in [Nat -> Nat], L \in [Nat -> Seq(Pushed)] :
              /\ Levels(stack, t, L)
              /\ tophandler = t[Len(stack)] /\ pushlist = L[Len(stack)]
        BY <1>1, Here
      <4>2. Thrown(t, L, Len(stack), Top.target)
        BY <1>1, <4>1, Throwing
      <4>3. PICK p : p = stack[Top.target].pushes
        OBVIOUS
      <4>4. PICK k : k = Len(pushlist)
        OBVIOUS
      <4>5. p \in Nat /\ k \in Nat /\ k >= p /\ k # p
        BY <1>4, <4>2, <4>3, <4>4 DEF Thrown
      <4>6. k > p /\ k \in 1 .. k
        BY <4>5
      <4>7. pushlist \in Seq(Pushed)
        BY <1>1, Here
      <4>8. pushlist[k] \in Pushed
        BY <4>4, <4>6, <4>7, ElementOfSeq
      <4>9. pushlist # << >>
        BY <4>4, <4>5, <4>7, EmptySeq
      <4> QED
        BY <1>2, <4>3, <4>4, <4>6, <4>8, <4>9
    <3>3. last.defn \in Value /\ last = Push(last.defn)
      BY <2>1, <3>2 DEF Pushed, Push
    <3>4. Binds(pushlist, last.defn)
      BY <1>2, <3>2, <3>3 DEF Binds
    <3> QED
      BY <1>1, <2>1, <3>1, <3>2, <3>3, <3>4, CallSettorKeeps
  <2>2. CASE ~ (last # Zero /\ settor # "none")
    <3>1. /\ pushlist' = Drop(pushlist)
          /\ var' = IF last = Zero THEN var ELSE last.defn
          /\ UNCHANGED <<stack, tophandler, evaldepth, blocked, shell>>
      BY <1>2, <1>4, <2>2 DEF Unwind
    <3> QED
      BY <1>1, <1>2, <1>4, <3>1, UnwindKeeps
  <2> QED
    BY <2>1, <2>2
<1> QED
  BY <1>3, <1>4

\* What is below the innermost activation, and what it adds.
LEMMA Under ==
  ASSUME IInv, shell = "running", NEW n, n = Len(stack), NEW m, m = n - 1
  PROVE  /\ n \in Nat \ {0} /\ m \in Nat /\ m <= Len(stack) /\ m + 1 = n
         /\ Evals(stack, m) \in Nat /\ Catchers(stack, m) \in Nat /\ blocked \in Nat
         /\ evaldepth = Evals(stack, m) + (IF IsEval(stack[n]) THEN 1 ELSE 0)
         /\ blocked >= Catchers(stack, m) + (IF stack[n].kind = "catcher" THEN 1 ELSE 0)
         /\ settor = "none" =>
              /\ blocked = Catchers(stack, m) + (IF stack[n].kind = "catcher" THEN 1 ELSE 0)
              /\ stack[n].kind # "settor" /\ Clean(m)
         /\ Drop(stack) \in Seq(Activation) /\ Len(Drop(stack)) = m
         /\ Keeps(Drop(stack), stack, m)
         /\ stack[n] \in Activation /\ Top = stack[n]
<1>1. /\ n \in Nat \ {0} /\ stack \in Seq(Activation) /\ stack # << >> /\ blocked \in Nat
      /\ Top = stack[n]
  BY Here DEF IInv, Typed
<1>2. m \in Nat /\ m <= Len(stack) /\ m + 1 = n
  BY <1>1
<1>3. /\ Drop(stack) \in Seq(Activation) /\ Len(Drop(stack)) = m /\ stack[n] \in Activation
      /\ Keeps(Drop(stack), stack, m)
  <2>1. /\ Drop(stack) \in Seq(Activation) /\ Len(Drop(stack)) = n - 1
        /\ stack[n] \in Activation /\ \A i \in 1 .. n - 1 : Drop(stack)[i] = stack[i]
    BY <1>1, DropFacts
  <2> QED
    BY <2>1 DEF Keeps
<1>4. /\ Evals(stack, m) \in 0 .. m /\ Catchers(stack, m) \in 0 .. m
      /\ Evals(stack, n) = Evals(stack, m) + (IF IsEval(stack[n]) THEN 1 ELSE 0)
      /\ Catchers(stack, n) = Catchers(stack, m)
                              + (IF stack[n].kind = "catcher" THEN 1 ELSE 0)
  BY <1>2, CountNext
<1>5. Evals(stack, m) \in Nat /\ Catchers(stack, m) \in Nat
  BY <1>2, <1>4
<1>6. evaldepth = Evals(stack, n) /\ blocked >= Catchers(stack, n)
  BY DEF IInv
<1>7. ASSUME settor = "none"
      PROVE  blocked = Catchers(stack, n) /\ stack[n].kind # "settor" /\ Clean(m)
  <2>1. n \in 1 .. Len(stack) /\ m <= n /\ m # n
    BY <1>1, <1>2
  <2>2. blocked = Catchers(stack, n) /\ stack[n].kind # "settor"
    BY <1>7, <2>1 DEF IInv, Plain
  <2>3. Clean(m)
    BY <1>2, <1>7, <2>1, CleanBelow
  <2> QED
    BY <2>2, <2>3
<1> QED
  BY <1>1, <1>2, <1>3, <1>4, <1>5, <1>6, <1>7

LEMMA EndHandlerKeeps ==
  ASSUME IInv, settor' = settor, EndHandler
  PROVE  IInv'
<1>1. /\ shell = "running" /\ Top.kind \in Handlers
      /\ stack' = Drop(stack) /\ tophandler' = Top.up
      /\ pushlist' = IF Top.kind = "lambda" THEN Drop(pushlist) ELSE pushlist
      /\ evaldepth' = IF Top.kind = "lambda" THEN Top.depth - 1 ELSE Top.depth
      /\ blocked' = IF Top.kind = "catcher" THEN blocked - 1 ELSE blocked
      /\ shell' = IF Top.kind = "root" THEN "exited" ELSE shell
      /\ var' = var
  BY DEF EndHandler, RunsCommands, Runs, InCode
<1>2. PICK t \in [Nat -> Nat], L \in [Nat -> Seq(Pushed)] :
        Levels(stack, t, L) /\ tophandler = t[Len(stack)] /\ pushlist = L[Len(stack)]
  BY <1>1, Here
<1>3. PICK n : n = Len(stack)
  OBVIOUS
<1>4. PICK m : m = n - 1
  OBVIOUS
<1>5. PICK f : f = stack[n]
  OBVIOUS
<1>6. /\ n \in Nat \ {0} /\ m \in Nat /\ m <= Len(stack) /\ m + 1 = n /\ Top = f
      /\ Drop(stack) \in Seq(Activation) /\ Len(Drop(stack)) = m
      /\ Keeps(Drop(stack), stack, m)
  <2>1. shell = "running"
    BY <1>1
  <2> QED
    BY <1>3, <1>4, <1>5, <2>1, Under
<1>7. /\ Saves(stack, t, L, m, f) /\ Makes(stack, t, L, m, f, t[n], L[n])
      /\ L[m] \in Seq(Pushed)
  <2>1. Levels(stack, t, L) /\ n \in Nat \ {0}
    BY <1>2, <1>6
  <2>2. /\ Saves(stack, t, L, n - 1, stack[n])
        /\ Makes(stack, t, L, n - 1, stack[n], t[n], L[n]) /\ L[n - 1] \in Seq(Pushed)
    BY <1>3, <2>1, TopLevel
  <2> QED
    BY <1>4, <1>5, <2>2
<1>8. tophandler' = t[m]
  BY <1>1, <1>6, <1>7 DEF Saves
<1>9. pushlist' = L[m]
  <2>1. CASE f.kind = "lambda"
    <3>1. pushlist = Append(L[m], Zero) /\ Zero \in Pushed
      BY <1>2, <1>3, <1>7, <2>1 DEF Makes, Pushed
    <3>2. Drop(Append(L[m], Zero)) = L[m]
      BY <1>7, <3>1, BeginsAppend
    <3> QED
      BY <1>1, <1>6, <2>1, <3>1, <3>2
  <2>2. CASE f.kind # "lambda"
    <3>1. f.kind \notin {"throw", "lambda", "settor", "local"}
      BY <1>1, <1>6, <2>2 DEF Handlers
    <3>2. pushlist = L[m]
      BY <1>2, <1>3, <1>7, <3>1 DEF Makes
    <3> QED
      BY <1>1, <1>6, <2>2, <3>2
  <2> QED
    BY <2>1, <2>2
<1>10. evaldepth' = Evals(stack, m)
  <2>1. PICK d : d = Evals(stack, m)
    OBVIOUS
  <2>2. d \in Nat
    BY <1>1, <1>3, <1>4, <2>1, Under
  <2>3. f.kind \in Handlers \cup {"local"}
    BY <1>1, <1>6
  <2>4. f.depth = Evals(stack, m) + (IF f.kind = "lambda" THEN 1 ELSE 0)
    BY <1>7, <2>3 DEF Saves
  <2>5. evaldepth' = IF f.kind = "lambda" THEN f.depth - 1 ELSE f.depth
    BY <1>1, <1>6
  <2>6. PICK x : x = f.depth
    OBVIOUS
  <2>7. CASE f.kind = "lambda"
    <3>1. x = d + 1 /\ evaldepth' = x - 1
      BY <2>1, <2>4, <2>5, <2>6, <2>7
    <3> QED
      BY <2>1, <2>2, <3>1
  <2>8. CASE f.kind # "lambda"
    <3>1. x = d + 0 /\ evaldepth' = x
      BY <2>1, <2>4, <2>5, <2>6, <2>8
    <3> QED
      BY <2>1, <2>2, <3>1
  <2> QED
    BY <2>7, <2>8
<1>11. /\ blocked' \in Nat /\ blocked' >= Catchers(stack, m)
       /\ settor = "none" => blocked' = Catchers(stack, m) /\ Clean(m)
  <2>1. PICK c : c = Catchers(stack, m)
    OBVIOUS
  <2>2. PICK b : b = blocked
    OBVIOUS
  <2>3. /\ c \in Nat /\ b \in Nat /\ b >= c + (IF f.kind = "catcher" THEN 1 ELSE 0)
        /\ settor = "none" => b = c + (IF f.kind = "catcher" THEN 1 ELSE 0)
    BY <1>1, <1>3, <1>4, <1>5, <2>1, <2>2, Under
  <2>4. settor = "none" => Clean(m)
    BY <1>1, <1>3, <1>4, Under
  <2>5. blocked' = b - (IF f.kind = "catcher" THEN 1 ELSE 0)
    BY <1>1, <1>6, <2>2, <2>3
  <2>6. /\ blocked' \in Nat /\ blocked' >= c
        /\ settor = "none" => blocked' = c
    BY <2>3, <2>5
  <2> QED
    BY <2>1, <2>4, <2>6
<1>12. shell' \in {"running", "exited"} /\ (shell' = "running" => m # 0)
  <2>1. f.kind = "root" <=> m = 0
    BY <1>7 DEF Saves
  <2> QED
    BY <1>1, <1>6, <2>1
<1>13. var' \in Value
  BY <1>1 DEF IInv, Typed
<1>14. /\ stack' \in Seq(Activation) /\ Len(stack') = m /\ Keeps(stack', stack, m)
  BY <1>1, <1>6
<1> QED
  BY <1>2, <1>6, <1>8, <1>9, <1>10, <1>11, <1>12, <1>13, <1>14, Shrunk

LEMMA MadeOn ==
  ASSUME IInv, shell = "running", NEW t, NEW L, Levels(stack, t, L),
         NEW n, n = Len(stack), NEW m, m = n - 1
  PROVE  /\ Saves(stack, t, L, m, stack[n]) /\ Makes(stack, t, L, m, stack[n], t[n], L[n])
         /\ t[m] \in Nat /\ L[m] \in Seq(Pushed)
<1>1. n \in Nat \ {0}
  BY Here
<1>2. /\ Saves(stack, t, L, n - 1, stack[n])
      /\ Makes(stack, t, L, n - 1, stack[n], t[n], L[n])
      /\ t[n - 1] \in Nat /\ L[n - 1] \in Seq(Pushed)
  BY <1>1, TopLevel
<1> QED
  BY <1>2

\* The value the innermost binding hides.
Hidden(q) == q[Len(q)].defn

\* The binding of a local activation is undone.
LEMMA LocalUndone ==
  ASSUME NEW p \in Seq(Pushed), NEW q, \E v \in Value : q = Append(p, Push(v))
  PROVE  Drop(q) = p /\ Hidden(q) \in Value /\ Binds(q, Hidden(q))
<1>1. PICK v \in Value : q = Append(p, Push(v))
  OBVIOUS
<1>2. Push(v) \in Pushed
  BY DEF Push, Pushed
<1>3. Drop(q) = p /\ Len(q) = Len(p) + 1
  BY <1>1, <1>2, BeginsAppend
<1>4. q[Len(q)] = Push(v)
  BY <1>1, <1>2, <1>3, AppendFacts
<1>5. Hidden(q) \in Value /\ Binds(q, Hidden(q))
  <2>1. q # << >>
    BY <1>1, <1>2, BeginsAppend
  <2> QED
    BY <1>4, <2>1 DEF Hidden, Push, Binds
<1> QED
  BY <1>3, <1>5

LEMMA EndLocalKeeps ==
  ASSUME IInv, settor' = settor, EndLocal
  PROVE  IInv'
<1>1. shell = "running" /\ Top.kind = "local"
  BY DEF EndLocal, RunsCommands, Runs, InCode
<1>2. PICK t \in [Nat -> Nat], L \in [Nat -> Seq(Pushed)] :
        Levels(stack, t, L) /\ tophandler = t[Len(stack)] /\ pushlist = L[Len(stack)]
  BY <1>1, Here
<1>3. PICK n : n = Len(stack)
  OBVIOUS
<1>4. PICK m : m = n - 1
  OBVIOUS
<1>5. /\ n \in Nat \ {0} /\ m \in Nat /\ m <= Len(stack) /\ m + 1 = n /\ Top = stack[n]
      /\ Drop(stack) \in Seq(Activation) /\ Len(Drop(stack)) = m
      /\ Keeps(Drop(stack), stack, m)
  BY <1>1, <1>3, <1>4, Under
<1>6. /\ Saves(stack, t, L, m, stack[n]) /\ Makes(stack, t, L, m, stack[n], t[n], L[n])
      /\ L[m] \in Seq(Pushed)
  BY <1>1, <1>2, <1>3, <1>4, MadeOn
<1>7. /\ tophandler = t[m] /\ Drop(pushlist) = L[m] /\ Hidden(pushlist) \in Value
      /\ Binds(pushlist, Hidden(pushlist))
  <2>1. stack[n].kind = "local" /\ Makes(stack, t, L, m, stack[n], tophandler, pushlist)
    BY <1>1, <1>2, <1>3, <1>5, <1>6
  <2>2. L[m] \in Seq(Pushed)
    BY <1>6
  <2>3. tophandler = t[m] /\ \E v \in Value : pushlist = Append(L[m], Push(v))
    BY <2>1 DEF Makes, Handlers
  <2> QED
    BY <2>2, <2>3, LocalUndone
<1>8. CASE settor = "none"
  <2>1. /\ stack' = Drop(stack) /\ pushlist' = Drop(pushlist)
        /\ var' = Hidden(pushlist)
        /\ UNCHANGED <<tophandler, evaldepth, blocked, shell>>
    BY <1>8 DEF EndLocal, Hidden
  <2>2. ~ IsEval(stack[n]) /\ stack[n].kind # "catcher"
    BY <1>1, <1>5 DEF IsEval
  <2>3. PICK d : d = Evals(stack, m)
    OBVIOUS
  <2>4. PICK c : c = Catchers(stack, m)
    OBVIOUS
  <2>5. PICK b : b = blocked
    OBVIOUS
  <2>6. /\ d \in Nat /\ c \in Nat /\ b \in Nat
        /\ evaldepth = d + (IF IsEval(stack[n]) THEN 1 ELSE 0)
        /\ b >= c + (IF stack[n].kind = "catcher" THEN 1 ELSE 0)
        /\ b = c + (IF stack[n].kind = "catcher" THEN 1 ELSE 0) /\ Clean(m)
    BY <1>1, <1>3, <1>4, <1>8, <2>3, <2>4, <2>5, Under
  <2>7. evaldepth' = d
    <3>1. evaldepth' = d + 0
      BY <2>1, <2>2, <2>6
    <3> QED
      BY <2>6, <3>1
  <2>8. blocked' \in Nat /\ blocked' = c /\ blocked' >= c
    <3>1. blocked' = b /\ b = c + 0
      BY <2>1, <2>2, <2>5, <2>6
    <3> QED
      BY <2>6, <3>1
  <2>9. m # 0
    BY <1>1, <1>5, <1>6 DEF Saves
  <2>10. /\ stack' \in Seq(Activation) /\ Len(stack') = m /\ Keeps(stack', stack, m)
         /\ tophandler' = t[m] /\ pushlist' = L[m] /\ var' \in Value
         /\ shell' = "running"
    BY <1>1, <1>5, <1>7, <2>1
  <2> QED
    BY <1>2, <1>5, <2>3, <2>4, <2>6, <2>7, <2>8, <2>9, <2>10, Shrunk
<1>9. CASE settor # "none"
  <2>1. CallSettor("pop", Hidden(pushlist))
    BY <1>9 DEF EndLocal, Hidden
  <2> QED
    BY <1>1, <1>7, <1>9, <2>1, CallSettorKeeps
<1> QED
  BY <1>8, <1>9

\* What is true when a settor returns: of the activation it was called by, at
\* level m, and of the stacks.
Returns(t, L, n, m) ==
  /\ m \in Nat \ {0} /\ m <= Len(stack) /\ m + 1 = n
  /\ settor # "none" /\ shell' = "running" /\ var' \in Value
  /\ tophandler' = t[m] /\ tophandler' \in Nat /\ evaldepth - 1 = Evals(stack, m)
  /\ Evals(stack, m) \in Nat /\ evaldepth' = Evals(stack, m)
  /\ blocked' \in Nat /\ blocked' >= Catchers(stack, m) /\ Catchers(stack, m) \in Nat
  /\ Drop(pushlist) = L[m] /\ L[m] \in Seq(Pushed)
  /\ Drop(stack) \in Seq(Activation) /\ Len(Drop(stack)) = m /\ Keeps(Drop(stack), stack, m)
  /\ Top.use \in {"def", "push", "pop"}
  /\ Saves(stack, t, L, m, Top)

LEMMA Returning ==
  ASSUME IInv, settor' = settor, NEW value \in Value, EndSettor(value),
         NEW t, NEW L, Levels(stack, t, L),
         NEW n, n = Len(stack), tophandler = t[n], pushlist = L[n], NEW m, m = n - 1
  PROVE  Returns(t, L, n, m)
<1>1. /\ shell = "running" /\ Top.kind = "settor" /\ var' = value
      /\ evaldepth' = evaldepth - 1 /\ UNCHANGED <<tophandler, blocked, shell>>
  BY DEF EndSettor, Runs, InCode
<1>2. /\ n \in Nat \ {0} /\ m \in Nat /\ m <= Len(stack) /\ m + 1 = n
      /\ Drop(stack) \in Seq(Activation) /\ Len(Drop(stack)) = m
      /\ Keeps(Drop(stack), stack, m) /\ Top = stack[n] /\ Top \in Activation
  BY <1>1, Under
<1>3. /\ Saves(stack, t, L, m, Top) /\ Makes(stack, t, L, m, Top, t[n], L[n])
      /\ t[m] \in Nat /\ L[m] \in Seq(Pushed)
  <2>1. /\ Saves(stack, t, L, m, stack[n]) /\ Makes(stack, t, L, m, stack[n], t[n], L[n])
        /\ t[m] \in Nat /\ L[m] \in Seq(Pushed)
    BY <1>1, MadeOn
  <2> QED
    BY <1>2, <2>1
<1>4. Top.use \in {"def", "push", "pop"}
  BY <1>1, <1>2, Shapes
<1>5. m # 0
  BY <1>1, <1>3 DEF Saves
<1>6. tophandler = t[m] /\ pushlist = Append(L[m], Zero)
  BY <1>1, <1>3 DEF Makes, Handlers
<1>7. Drop(pushlist) = L[m]
  <2>1. Zero \in Pushed
    BY DEF Pushed
  <2> QED
    BY <1>3, <1>6, <2>1, BeginsAppend
<1>8. settor # "none"
  BY <1>1, <1>2, Under
<1>9. PICK d : d = Evals(stack, m)
  OBVIOUS
<1>10. PICK c : c = Catchers(stack, m)
  OBVIOUS
<1>11. PICK b : b = blocked
  OBVIOUS
<1>12. /\ d \in Nat /\ c \in Nat /\ b \in Nat
       /\ evaldepth = d + (IF IsEval(stack[n]) THEN 1 ELSE 0)
       /\ b >= c + (IF stack[n].kind = "catcher" THEN 1 ELSE 0)
  BY <1>1, <1>9, <1>10, <1>11, Under
<1>13. IsEval(stack[n]) /\ stack[n].kind # "catcher"
  BY <1>1, <1>2 DEF IsEval
<1>14. evaldepth = d + 1 /\ b >= c + 0
  BY <1>12, <1>13
<1>15. evaldepth - 1 = d /\ b >= c
  BY <1>12, <1>14
<1> QED
  BY <1>1, <1>2, <1>3, <1>4, <1>5, <1>6, <1>7, <1>8, <1>9, <1>10, <1>11, <1>12, <1>15
     DEF Returns

\* varpush() goes on: the binding is made.
LEMMA PushReturns ==
  ASSUME IInv, settor' = settor, NEW value \in Value, EndSettor(value),
         NEW t, NEW L, Levels(stack, t, L), NEW n, NEW m, Returns(t, L, n, m),
         Top.use = "push"
  PROVE  IInv'
<1>1. PICK x : x = tophandler'
  OBVIOUS
<1>2. PICK k : k = Len(L[m])
  OBVIOUS
<1>3. PICK d : d = Evals(stack, m)
  OBVIOUS
<1>4. PICK f : f = [kind |-> "local", up |-> x, pushes |-> k, depth |-> d]
  OBVIOUS
<1>5. x \in Nat /\ k \in Nat /\ d \in Nat /\ x = t[m]
  <2>1. L[m] \in Seq(Pushed)
    BY DEF Returns
  <2>2. k \in Nat
    BY <1>2, <2>1, LenProperties
  <2> QED
    BY <1>1, <1>3, <2>2 DEF Returns
<1>6. f.kind = "local" /\ f.up = x /\ f.pushes = k /\ f.depth = d
  BY <1>4
<1>7. f \in Activation
  BY <1>4, <1>5 DEF Activation, HandlerFrame
<1>8. /\ stack' = Append(Drop(stack), f)
      /\ pushlist' = Append(L[m], Push(var))
  <2>1. /\ Drop(pushlist) = L[m] /\ evaldepth - 1 = d /\ tophandler = x
    BY <1>1, <1>3 DEF Returns, EndSettor
  <2>2. f = [kind |-> "local", up |-> tophandler, pushes |-> Len(Drop(pushlist)),
             depth |-> evaldepth - 1]
    BY <1>2, <1>4, <2>1
  <2>3. stack' = Append(Drop(stack), f)
    BY <2>2 DEF EndSettor
  <2>4. pushlist' = Append(L[m], Push(var))
    BY <2>1 DEF EndSettor
  <2> QED
    BY <2>3, <2>4
<1>9. var \in Value /\ Push(var) \in Pushed
  BY DEF IInv, Typed, Push, Pushed
<1>10. pushlist' \in Seq(Pushed)
  <2>1. L[m] \in Seq(Pushed)
    BY DEF Returns
  <2> QED
    BY <1>8, <1>9, <2>1, BeginsAppend
<1>11. /\ stack' \in Seq(Activation) /\ Len(stack') = m + 1 /\ stack'[m + 1] = f
       /\ Keeps(stack', stack, m)
  <2>1. PICK p : p = Drop(stack)
    OBVIOUS
  <2>2. p \in Seq(Activation) /\ Len(p) = m /\ Keeps(p, stack, m)
    BY <2>1 DEF Returns
  <2>3. /\ Append(p, f) \in Seq(Activation) /\ Len(Append(p, f)) = m + 1
        /\ Append(p, f)[m + 1] = f /\ \A i \in 1 .. m : Append(p, f)[i] = p[i]
    BY <1>7, <2>2, AppendFacts
  <2> QED
    BY <1>8, <2>1, <2>2, <2>3 DEF Keeps
<1>12. Saves(stack, t, L, m, f)
  <2>1. f.up = t[m] /\ f.pushes = Len(L[m])
    BY <1>2, <1>5, <1>6
  <2>2. f.depth = Evals(stack, m) + (IF f.kind = "lambda" THEN 1 ELSE 0)
    <3>1. f.depth = Evals(stack, m) + 0
      BY <1>3, <1>5, <1>6
    <3> QED
      BY <1>6, <3>1
  <2>3. m # 0 /\ f.kind \notin {"root", "throw", "settor"}
    BY <1>6 DEF Returns
  <2> QED
    BY <2>1, <2>2, <2>3 DEF Saves
<1>13. Makes(stack, t, L, m, f, tophandler', pushlist')
  BY <1>1, <1>5, <1>6, <1>8, <1>9 DEF Makes, Handlers
<1>14. ~ IsEval(f) /\ f.kind # "catcher"
  BY <1>6 DEF IsEval
<1>15. evaldepth' = Evals(stack, m) + (IF IsEval(stack'[m + 1]) THEN 1 ELSE 0)
  <2>1. evaldepth' = Evals(stack, m) + 0
    BY <1>3, <1>5 DEF Returns
  <2> QED
    BY <1>11, <1>14, <2>1
<1>16. blocked' >= Catchers(stack, m) + (IF stack'[m + 1].kind = "catcher" THEN 1 ELSE 0)
  <2>1. PICK c : c = Catchers(stack, m)
    OBVIOUS
  <2>2. c \in Nat /\ blocked' >= c + 0
    BY <2>1 DEF Returns
  <2> QED
    BY <1>11, <1>14, <2>1, <2>2
<1>17. /\ m \in Nat /\ m <= Len(stack) /\ tophandler' \in Nat /\ var' \in Value
       /\ blocked' \in Nat /\ shell' = "running" /\ settor # "none"
  BY DEF Returns
<1> QED
  BY <1>10, <1>11, <1>12, <1>13, <1>15, <1>16, <1>17, Grown

\* vardef() goes on.
LEMMA DefReturns ==
  ASSUME IInv, settor' = settor, NEW value \in Value, EndSettor(value),
         NEW t, NEW L, Levels(stack, t, L), NEW n, NEW m, Returns(t, L, n, m),
         Top.use = "def"
  PROVE  IInv'
<1>1. stack' = Drop(stack) /\ pushlist' = Drop(pushlist)
  BY DEF EndSettor
<1>2. /\ m \in Nat /\ m # 0 /\ m <= Len(stack) /\ var' \in Value
      /\ tophandler' = t[m] /\ evaldepth' = Evals(stack, m)
      /\ blocked' \in Nat /\ blocked' >= Catchers(stack, m)
      /\ shell' = "running" /\ settor # "none"
      /\ Drop(stack) \in Seq(Activation) /\ Len(Drop(stack)) = m
      /\ Keeps(Drop(stack), stack, m) /\ Drop(pushlist) = L[m]
  BY DEF Returns
<1>3. /\ stack' \in Seq(Activation) /\ Len(stack') = m /\ Keeps(stack', stack, m)
      /\ pushlist' = L[m] /\ shell' \in {"running", "exited"}
  BY <1>1, <1>2
<1> QED
  BY <1>2, <1>3, Shrunk

\* The level below: m - 1 and what was made on it.
LEMMA CallerAt ==
  ASSUME NEW t, NEW L, Levels(stack, t, L), NEW n, NEW m, Returns(t, L, n, m),
         NEW k, k = m - 1
  PROVE  /\ k \in Nat /\ k <= Len(stack) /\ k + 1 = m /\ L[k] \in Seq(Pushed)
         /\ Saves(stack, t, L, k, stack[m])
         /\ Makes(stack, t, L, k, stack[m], t[m], L[m])
         /\ Evals(stack, k) \in Nat /\ Catchers(stack, k) \in Nat
         /\ Evals(stack, m) = Evals(stack, k) + (IF IsEval(stack[m]) THEN 1 ELSE 0)
         /\ Catchers(stack, m) =
              Catchers(stack, k) + (IF stack[m].kind = "catcher" THEN 1 ELSE 0)
<1>1. m \in 1 .. Len(stack) /\ k \in Nat /\ k + 1 = m
  <2>1. m \in Nat \ {0} /\ m <= Len(stack)
    BY DEF Returns
  <2> QED
    BY <2>1
<1>2. k <= Len(stack)
  <2>1. m <= Len(stack)
    BY DEF Returns
  <2>2. PICK l : l = Len(stack)
    OBVIOUS
  <2>3. m \in 1 .. l
    BY <1>1, <2>2
  <2> QED
    BY <1>1, <2>2, <2>3
<1>3. Saves(stack, t, L, k, stack[m]) /\ Makes(stack, t, L, k, stack[m], t[m], L[m])
  BY <1>1, LevelAt
<1>4. L[k] \in Seq(Pushed)
  BY <1>1, LevelsTyped
<1>5. /\ Evals(stack, k) \in 0 .. k /\ Catchers(stack, k) \in 0 .. k
      /\ Evals(stack, m) = Evals(stack, k) + (IF IsEval(stack[m]) THEN 1 ELSE 0)
      /\ Catchers(stack, m) =
           Catchers(stack, k) + (IF stack[m].kind = "catcher" THEN 1 ELSE 0)
  BY <1>1, CountNext
<1>6. Evals(stack, k) \in Nat /\ Catchers(stack, k) \in Nat
  BY <1>1, <1>5
<1> QED
  BY <1>1, <1>2, <1>3, <1>4, <1>5, <1>6

\* varpop() goes on: the binding is undone, at the end of a local one or in a
\* throw.
LEMMA PopReturns ==
  ASSUME IInv, settor' = settor, NEW value \in Value, EndSettor(value),
         NEW t, NEW L, Levels(stack, t, L), NEW n, NEW m, Returns(t, L, n, m),
         Top.use = "pop"
  PROVE  IInv'
<1>1. PICK k : k = m - 1
  OBVIOUS
<1>2. PICK f : f = stack[m]
  OBVIOUS
<1>3. PICK p : p = Drop(stack)
  OBVIOUS
<1>4. PICK q : q = L[m]
  OBVIOUS
<1>5. /\ m \in Nat \ {0} /\ p \in Seq(Activation) /\ Len(p) = m /\ Keeps(p, stack, m)
      /\ Drop(pushlist) = q /\ q \in Seq(Pushed)
  BY <1>3, <1>4 DEF Returns
<1>6. p[Len(p)] = f /\ f \in Activation /\ p # << >>
  <2>1. m \in 1 .. m
    BY <1>5
  <2>2. p[m] = stack[m] /\ p[m] \in Activation
    BY <1>5, <2>1, ElementOfSeq DEF Keeps
  <2>3. p # << >>
    BY <1>5, EmptySeq
  <2> QED
    BY <1>2, <1>5, <2>2, <2>3
<1>7. /\ k \in Nat /\ k <= Len(stack) /\ k + 1 = m /\ L[k] \in Seq(Pushed)
      /\ Saves(stack, t, L, k, f) /\ Makes(stack, t, L, k, f, t[m], q)
  <2>1. /\ k \in Nat /\ k <= Len(stack) /\ k + 1 = m /\ L[k] \in Seq(Pushed)
        /\ Saves(stack, t, L, k, stack[m])
        /\ Makes(stack, t, L, k, stack[m], t[m], L[m])
    BY <1>1, CallerAt
  <2> QED
    BY <1>2, <1>4, <2>1
<1>8. PICK d : d = Evals(stack, k)
  OBVIOUS
<1>9. PICK c : c = Catchers(stack, k)
  OBVIOUS
<1>10. /\ d \in Nat /\ c \in Nat
       /\ Evals(stack, m) = d + (IF IsEval(f) THEN 1 ELSE 0)
       /\ Catchers(stack, m) = c + (IF f.kind = "catcher" THEN 1 ELSE 0)
  BY <1>1, <1>2, <1>8, <1>9, CallerAt
<1>11. PICK b : b = blocked'
  OBVIOUS
<1>12. /\ b \in Nat /\ b >= Catchers(stack, m) /\ evaldepth' = Evals(stack, m)
       /\ var' \in Value /\ shell' = "running" /\ settor # "none"
       /\ tophandler' = t[m] /\ tophandler' \in Nat
  BY <1>11 DEF Returns
<1>13. \/ f.kind = "local"
       \/ f.kind = "throw" /\ Len(q) > stack[f.target].pushes
  <2>1. Top.kind = "settor" /\ Saves(stack, t, L, m, Top)
    BY DEF Returns, EndSettor
  <2> QED
    BY <1>2, <1>4, <2>1 DEF Saves
<1>14. pushlist' = Drop(q)
  BY <1>5 DEF EndSettor
<1>15. stack' = IF f.kind = "local" THEN Drop(p) ELSE p
  BY <1>3, <1>6 DEF EndSettor
<1>16. f.kind \in {"local", "throw"} => Evals(stack, m) = d /\ Catchers(stack, m) = c
  <2>1. SUFFICES ASSUME f.kind \in {"local", "throw"}
                 PROVE  Evals(stack, m) = d /\ Catchers(stack, m) = c
    OBVIOUS
  <2>2. ~ IsEval(f) /\ f.kind # "catcher"
    BY <2>1 DEF IsEval
  <2>3. Evals(stack, m) = d + 0 /\ Catchers(stack, m) = c + 0
    BY <1>10, <2>2
  <2> QED
    BY <1>10, <2>3
<1>17. CASE f.kind = "local"
  <2>1. stack' = Drop(p)
    BY <1>15, <1>17
  <2>2. /\ Drop(p) \in Seq(Activation) /\ Len(Drop(p)) = m - 1
        /\ \A i \in 1 .. m - 1 : Drop(p)[i] = p[i]
    BY <1>5, <1>6, DropFacts
  <2>3. Keeps(Drop(p), stack, k)
    BY <1>1, <1>5, <2>2 DEF Keeps
  <2>4. /\ stack' \in Seq(Activation) /\ Len(stack') = k /\ Keeps(stack', stack, k)
    BY <1>1, <2>1, <2>2, <2>3
  <2>5. t[m] = t[k] /\ Drop(q) = L[k]
    <3>1. L[k] \in Seq(Pushed)
      BY <1>7
    <3>2. t[m] = t[k] /\ \E v \in Value : q = Append(L[k], Push(v))
      BY <1>7, <1>17 DEF Makes, Handlers
    <3> QED
      BY <3>1, <3>2, LocalUndone
  <2>6. k # 0
    BY <1>7, <1>17 DEF Saves
  <2>7. evaldepth' = Evals(stack, k) /\ blocked' >= Catchers(stack, k) /\ blocked' \in Nat
    BY <1>8, <1>9, <1>11, <1>12, <1>16, <1>17
  <2>8. /\ tophandler' = t[k] /\ pushlist' = L[k] /\ var' \in Value
        /\ shell' \in {"running", "exited"} /\ settor # "none"
    BY <1>12, <1>14, <2>5
  <2> QED
    BY <1>7, <2>4, <2>6, <2>7, <2>8, Shrunk
<1>18. CASE f.kind = "throw" /\ Len(q) > stack[f.target].pushes
  <2>1. stack' = p /\ f.kind = "throw"
    BY <1>15, <1>18
  <2>2. PICK h : h = t[k]
    OBVIOUS
  <2>3. /\ f.target = h /\ h \in 1 .. k /\ t[m] = stack[h].up
        /\ Begins(q, L[k])
    BY <1>7, <2>1, <2>2 DEF Saves, Makes
  <2>4. PICK w : w = stack[h].pushes
    OBVIOUS
  <2>5. w \in Nat
    <3>1. k \in 1 .. Len(stack) /\ h # 0 /\ Len(stack) \in Nat
      <4>1. Len(stack) \in Nat
        BY LenProperties DEF IInv, Typed
      <4>2. PICK l : l = Len(stack)
        OBVIOUS
      <4>3. k \in 1 .. l /\ h # 0
        BY <1>7, <2>3, <4>1, <4>2
      <4> QED
        BY <4>1, <4>2, <4>3
    <3>2. Saved(stack, t, L, k, h)
      BY <2>2, <3>1, OnTop
    <3>3. w = Len(L[h - 1]) /\ h - 1 \in Nat
      BY <2>4, <3>2 DEF Saved
    <3>4. L[h - 1] \in Seq(Pushed)
      BY <3>3, LevelsTyped
    <3> QED
      BY <3>3, <3>4, LenProperties
  <2>6. Len(q) \in Nat /\ Len(q) > w
    BY <1>5, <1>18, <2>3, <2>4, LenProperties
  <2>7. PICK z : z = Len(q)
    OBVIOUS
  <2>8. z \in Nat \ {0} /\ z - 1 >= w
    BY <2>5, <2>6, <2>7
  <2>9. /\ Drop(q) \in Seq(Pushed) /\ Len(Drop(q)) = z - 1
        /\ \A i \in 1 .. z - 1 : Drop(q)[i] = q[i]
    <3>1. q # << >>
      BY <2>7, <2>8, EmptySeq
    <3> QED
      BY <1>5, <2>7, <3>1, DropFacts
  <2>10. Begins(Drop(q), L[k])
    <3>1. PICK y : y = Len(L[k])
      OBVIOUS
    <3>2. z <= y /\ \A i \in 1 .. z : q[i] = L[k][i]
      BY <2>3, <2>7, <3>1 DEF Begins
    <3>3. y \in Nat
      <4>1. L[k] \in Seq(Pushed)
        BY <1>7
      <4> QED
        BY <3>1, <4>1, LenProperties
    <3>4. z - 1 <= y /\ \A i \in 1 .. z - 1 : i \in 1 .. z
      BY <2>8, <3>2, <3>3
    <3> QED
      BY <2>9, <3>1, <3>2, <3>4 DEF Begins
  <2>11. Makes(stack, t, L, k, f, tophandler', pushlist')
    <3>1. tophandler' = stack[t[k]].up /\ Begins(pushlist', L[k])
      BY <1>12, <1>14, <2>2, <2>3, <2>10
    <3>2. Len(pushlist') >= stack[t[k]].pushes
      BY <1>14, <2>2, <2>4, <2>8, <2>9
    <3> QED
      BY <2>1, <3>1, <3>2 DEF Makes, Handlers
  <2>12. /\ stack' \in Seq(Activation) /\ Len(stack') = k + 1 /\ stack'[k + 1] = f
         /\ Keeps(stack', stack, k)
    <3>1. Keeps(p, stack, k)
      BY <1>5, <1>7 DEF Keeps
    <3> QED
      BY <1>5, <1>6, <1>7, <2>1, <3>1
  <2>13. ~ IsEval(f) /\ f.kind # "catcher"
    BY <2>1 DEF IsEval
  <2>14. evaldepth' = Evals(stack, k) + (IF IsEval(stack'[k + 1]) THEN 1 ELSE 0)
    <3>1. evaldepth' = d + 0
      BY <1>10, <1>12, <1>16, <2>1
    <3> QED
      BY <1>8, <2>12, <2>13, <3>1
  <2>15. blocked' >= Catchers(stack, k) + (IF stack'[k + 1].kind = "catcher" THEN 1 ELSE 0)
    <3>1. b >= c + 0
      BY <1>10, <1>12, <1>16, <2>1
    <3> QED
      BY <1>9, <1>11, <2>12, <2>13, <3>1
  <2>16. /\ pushlist' \in Seq(Pushed) /\ tophandler' \in Nat /\ var' \in Value
         /\ blocked' \in Nat /\ shell' = "running" /\ settor # "none"
    BY <1>11, <1>12, <1>14, <2>9
  <2>17. Saves(stack, t, L, k, stack'[k + 1])
         /\ Makes(stack, t, L, k, stack'[k + 1], tophandler', pushlist')
    BY <1>7, <2>11, <2>12
  <2> QED
    BY <1>7, <2>12, <2>14, <2>15, <2>16, <2>17, Grown
<1> QED
  BY <1>13, <1>17, <1>18

LEMMA EndSettorKeeps ==
  ASSUME IInv, settor' = settor, NEW value \in Value, EndSettor(value)
  PROVE  IInv'
<1>1. shell = "running"
  BY DEF EndSettor, Runs, InCode
<1>2. PICK t \in [Nat -> Nat], L \in [Nat -> Seq(Pushed)] :
        Levels(stack, t, L) /\ tophandler = t[Len(stack)] /\ pushlist = L[Len(stack)]
  BY <1>1, Here
<1>3. PICK n : n = Len(stack)
  OBVIOUS
<1>4. PICK m : m = n - 1
  OBVIOUS
<1>5. Returns(t, L, n, m)
  BY <1>2, <1>3, <1>4, Returning
<1>6. Top.use \in {"def", "push", "pop"}
  BY <1>5 DEF Returns
<1> QED
  BY <1>2, <1>5, <1>6, PushReturns, DefReturns, PopReturns

-----------------------------------------------------------------------------
(* The invariant.                                                          *)

LEMMA InitHolds ==
  ASSUME Init
  PROVE  IInv
<1>1. PICK f : f = [kind |-> "root", up |-> 0, pushes |-> 0, depth |-> 0]
  OBVIOUS
<1>2. f.kind = "root" /\ f.up = 0 /\ f.pushes = 0 /\ f.depth = 0 /\ f \in Activation
  BY <1>1 DEF Activation, HandlerFrame, Handlers
<1>3. PICK s : s = << >>
  OBVIOUS
<1>4. PICK t \in [Nat -> Nat] : t = [i \in Nat |-> 0]
  OBVIOUS
<1>5. PICK L \in [Nat -> Seq(Pushed)] : L = [i \in Nat |-> << >>]
  <2>1. << >> \in Seq(Pushed)
    BY EmptySeq
  <2> QED
    BY <2>1
<1>6. Len(s) = 0 /\ t[0] = 0 /\ L[0] = << >> /\ 0 \in Nat
  BY <1>3, <1>4, <1>5
<1>7. Levels(s, t, L)
  <2>1. 1 .. Len(s) = {}
    BY <1>6
  <2> QED
    BY <1>6, <2>1 DEF Levels
<1>8. /\ stack \in Seq(Activation) /\ Len(stack) = 0 + 1 /\ stack[0 + 1] = f
      /\ stack # << >>
  <2>1. stack = <<f>>
    BY <1>1 DEF Init
  <2> QED
    BY <1>2, <2>1
<1>9. /\ tophandler = 1 /\ pushlist = << >> /\ var \in Value /\ settor \in Settors
      /\ evaldepth = 0 /\ blocked = 0 /\ shell = "running"
  BY DEF Init
<1>10. {i \in 1 .. 0 : IsEval(s[i])} = {} /\ {i \in 1 .. 0 : s[i].kind = "catcher"} = {}
  OBVIOUS
<1>11. Evals(s, 0) = 0 /\ Catchers(s, 0) = 0
  BY <1>10, FS_EmptySet DEF Evals, Catchers
<1>12. Saves(s, t, L, 0, f)
  <2>1. f.pushes = Len(L[0])
    BY <1>2, <1>6
  <2>2. f.depth = Evals(s, 0) + (IF f.kind = "lambda" THEN 1 ELSE 0)
    BY <1>2, <1>11
  <2> QED
    BY <1>2, <1>6, <2>1, <2>2 DEF Saves
<1>13. Makes(s, t, L, 0, f, tophandler, pushlist)
  BY <1>2, <1>6, <1>9 DEF Makes, Handlers
<1>14. Keeps(stack, s, 0)
  BY DEF Keeps
<1>15. ~ IsEval(f)
  BY <1>2 DEF IsEval
<1>16. pushlist \in Seq(Pushed) /\ tophandler \in Nat
  BY <1>9, EmptySeq
<1>17. Stacked(stack, tophandler, pushlist)
  <2>1. PICK m \in Nat : m = 0
    OBVIOUS
  <2>2. Len(s) \in Nat /\ m <= Len(s) /\ Len(stack) = m + 1
    BY <1>6, <1>8, <2>1
  <2>3. PICK u : u = stack
    OBVIOUS
  <2>4. Len(u) = m + 1
    BY <2>2, <2>3
  <2>5. Keeps(u, s, m)
    BY <1>14, <2>1, <2>3
  <2>6. Saves(s, t, L, m, u[m + 1])
    BY <1>8, <1>12, <2>1, <2>3
  <2>7. PICK x \in Nat : x = tophandler
    BY <1>16
  <2>8. PICK q \in Seq(Pushed) : q = pushlist
    BY <1>16
  <2>9. Makes(s, t, L, m, u[m + 1], x, q)
    BY <1>8, <1>13, <2>1, <2>3, <2>7, <2>8
  <2>10. Stacked(u, x, q)
    BY <1>7, <2>2, <2>4, <2>5, <2>6, <2>9, Grows
  <2> QED
    BY <2>3, <2>7, <2>8, <2>10
<1>18. Evals(stack, Len(stack)) = 0 /\ Catchers(stack, Len(stack)) = 0
  <2>1. ASSUME NEW i \in 1 .. Len(stack) PROVE ~ IsEval(stack[i]) /\ stack[i].kind # "catcher"
    <3>1. stack[i] = f
      BY <1>8
    <3> QED
      BY <1>2, <1>15, <3>1
  <2>2. /\ {i \in 1 .. Len(stack) : IsEval(stack[i])} = {}
        /\ {i \in 1 .. Len(stack) : stack[i].kind = "catcher"} = {}
    BY <2>1
  <2> QED
    BY <2>2, FS_EmptySet DEF Evals, Catchers
<1>19. Typed
  BY <1>8, <1>9 DEF Typed
<1>20. Plain
  <2>1. ASSUME NEW i \in 1 .. Len(stack)
        PROVE  stack[i].kind # "settor" /\ (stack[i].kind = "throw" => i = Len(stack))
    <3>1. stack[i] = f
      BY <1>8
    <3> QED
      BY <1>2, <3>1
  <2> QED
    BY <1>9, <1>18, <2>1 DEF Plain
<1> QED
  BY <1>9, <1>17, <1>18, <1>19, <1>20 DEF IInv

LEMMA StepHolds ==
  ASSUME IInv, [Next]_vars
  PROVE  IInv'
<1>1. CASE Next
  <2>1. settor' = settor
    BY <1>1 DEF Next
  <2>2. CASE Call
    BY <2>1, <2>2, CallKeeps
  <2>3. CASE EndHandler
    BY <2>1, <2>3, EndHandlerKeeps
  <2>4. CASE EndLocal
    BY <2>1, <2>4, EndLocalKeeps
  <2>5. CASE Unwind
    BY <2>1, <2>5, UnwindStepKeeps
  <2>6. CASE TooDeep \/ Rethrow \/ \E e \in Exn : Throw(e)
    BY <2>1, <2>6, ThrowKeeps
  <2>7. ASSUME NEW kind \in {"catch", "input", "for"}, Guard(kind)
        PROVE  IInv'
    BY <2>1, <2>7, GuardKeeps
  <2>8. ASSUME NEW value \in Value, Local(value)
        PROVE  IInv'
    BY <2>1, <2>8, LocalKeeps
  <2>9. ASSUME NEW value \in Value, Assign(value)
        PROVE  IInv'
    BY <2>1, <2>9, AssignKeeps
  <2>10. ASSUME NEW value \in Value, EndSettor(value)
         PROVE  IInv'
    BY <2>1, <2>10, EndSettorKeeps
  <2> QED
    BY <1>1, <2>2, <2>3, <2>4, <2>5, <2>6, <2>7, <2>8, <2>9, <2>10 DEF Next, Step
<1>2. CASE UNCHANGED vars
  <2>1. UNCHANGED <<stack, tophandler, pushlist, var, settor, evaldepth, blocked, shell>>
    BY <1>2 DEF vars
  <2> QED
    BY <2>1 DEF IInv, Typed, Stacked, Plain
<1> QED
  BY <1>1, <1>2

\* What each level of the stack saved and pushed is what is on it, whatever is
\* called, ended or thrown (except.c: throw; eval.c; var.c: varpush, varpop).
THEOREM Invariance == Spec => []IInv
<1>1. Init => IInv
  BY InitHolds
<1>2. IInv /\ [Next]_vars => IInv'
  BY StepHolds
<1> QED
  BY <1>1, <1>2, PTL DEF Spec

-----------------------------------------------------------------------------
(* What it says.                                                           *)

LEMMA TypeHolds ==
  ASSUME IInv
  PROVE  TypeOK
<1>1. PICK t \in [Nat -> Nat], L \in [Nat -> Seq(Pushed)] :
        Levels(stack, t, L) /\ tophandler = t[Len(stack)] /\ pushlist = L[Len(stack)]
  BY DEF IInv, Stacked
<1>2. PICK n : n = Len(stack)
  OBVIOUS
<1>3. n \in Nat
  BY <1>2, LenProperties DEF IInv, Typed
<1>4. tophandler \in 0 .. n
  <2>1. CASE n = 0
    <3>1. tophandler = 0
      BY <1>1, <1>2, <2>1 DEF Levels
    <3> QED
      BY <1>3, <3>1
  <2>2. CASE n # 0
    <3>1. n \in 1 .. Len(stack) /\ t[n] \in Nat
      BY <1>2, <1>3, <2>2
    <3>2. t[n] # 0 => t[n] \in 1 .. n
      BY <1>1, <3>1, LevelAt DEF Reach
    <3> QED
      BY <1>1, <1>2, <1>3, <3>1, <3>2
  <2> QED
    BY <2>1, <2>2
<1>5. evaldepth \in 0 .. maxevaldepth + n
  <2>1. PICK d : d = Evals(stack, n)
    OBVIOUS
  <2>2. d \in 0 .. n /\ evaldepth = d
    BY <1>2, <1>3, <2>1, CountNext DEF IInv
  <2>3. maxevaldepth \in Nat
    BY ExceptionsAssumption
  <2>4. d \in 0 .. maxevaldepth + n
    BY <1>3, <2>2, <2>3
  <2> QED
    BY <2>2, <2>4
<1>6. pushlist \in Seq({Zero} \cup [name : {"x"}, defn : Value])
  BY <1>1, <1>2, <1>3 DEF Pushed
<1> QED
  BY <1>2, <1>4, <1>5, <1>6 DEF IInv, Typed, TypeOK

LEMMA OneLess ==
  ASSUME NEW n \in Nat, NEW i \in 1 .. n, i - 1 # 0
  PROVE  i - 1 \in 1 .. n
OBVIOUS

LEMMA DisciplineHolds ==
  ASSUME IInv
  PROVE  StackDiscipline
<1>1. PICK t \in [Nat -> Nat], L \in [Nat -> Seq(Pushed)] :
        Levels(stack, t, L) /\ tophandler = t[Len(stack)] /\ pushlist = L[Len(stack)]
  BY DEF IInv, Stacked
<1>2. PICK n : n = Len(stack)
  OBVIOUS
<1>3. n \in Nat
  BY <1>2, LenProperties DEF IInv, Typed
<1>4. ASSUME shell = "running", Top.kind \in Handlers \cup {"local"}
      PROVE  /\ Top.kind \in Handlers => tophandler = Len(stack)
             /\ Len(pushlist) = Top.pushes + (IF Top.kind \in {"lambda", "local"} THEN 1 ELSE 0)
  <2>1. PICK m : m = n - 1
    OBVIOUS
  <2>2. PICK f : f = Top
    OBVIOUS
  <2>3. f = stack[n] /\ m + 1 = n
    BY <1>2, <1>4, <2>1, <2>2, Under
  <2>4. /\ Saves(stack, t, L, m, f) /\ Makes(stack, t, L, m, f, t[n], L[n])
        /\ L[m] \in Seq(Pushed)
    <3>1. /\ Saves(stack, t, L, m, stack[n])
          /\ Makes(stack, t, L, m, stack[n], t[n], L[n]) /\ L[m] \in Seq(Pushed)
      BY <1>1, <1>2, <1>4, <2>1, MadeOn
    <3> QED
      BY <2>3, <3>1
  <2>5. f.kind \in Handlers => tophandler = n
    BY <1>1, <1>2, <2>3, <2>4 DEF Makes
  <2>6. PICK k : k = Len(L[m])
    OBVIOUS
  <2>7. k \in Nat
    <3>1. L[m] \in Seq(Pushed)
      BY <2>4
    <3> QED
      BY <2>6, <3>1, LenProperties
  <2>8. f.pushes = k
    BY <1>4, <2>2, <2>4, <2>6 DEF Saves
  <2>9. CASE f.kind \in {"lambda", "local"}
    <3>1. \E v \in Pushed : pushlist = Append(L[m], v)
      BY <1>1, <1>2, <2>4, <2>9 DEF Makes, Pushed, Push
    <3>2. PICK v \in Pushed : pushlist = Append(L[m], v)
      BY <3>1
    <3>3. L[m] \in Seq(Pushed)
      BY <2>4
    <3>4. Len(pushlist) = k + 1
      BY <2>6, <3>2, <3>3, BeginsAppend
    <3> QED
      BY <1>2, <2>2, <2>5, <2>8, <2>9, <3>4
  <2>10. CASE f.kind \notin {"lambda", "local"}
    <3>1. f.kind \notin {"throw", "lambda", "settor", "local"}
      BY <1>4, <2>2, <2>10 DEF Handlers
    <3>2. pushlist = L[m]
      BY <1>1, <1>2, <2>4, <3>1 DEF Makes
    <3>3. Len(pushlist) = k + 0
      BY <2>6, <2>7, <3>2
    <3> QED
      BY <1>2, <2>2, <2>5, <2>8, <2>10, <3>3
  <2> QED
    BY <2>9, <2>10
<1>5. ASSUME tophandler # 0
      PROVE  /\ stack[tophandler].kind \in Handlers
             /\ stack[tophandler].pushes <= Len(pushlist)
  <2>1. n # 0 /\ n \in 1 .. n
    <3>1. n # 0
      BY <1>1, <1>2, <1>5 DEF Levels
    <3> QED
      BY <1>3, <3>1
  <2>2. PICK h : h = tophandler
    OBVIOUS
  <2>3. Saved(stack, t, L, n, h)
    BY <1>1, <1>2, <1>3, <1>5, <2>1, <2>2, OnTop
  <2>4. /\ stack[h].kind \in Handlers /\ stack[h].pushes = Len(L[h - 1])
        /\ Len(L[h - 1]) <= Len(L[n])
    BY <2>3 DEF Saved, Begins
  <2> QED
    BY <1>1, <1>2, <2>2, <2>4
<1>6. ASSUME NEW i \in DOMAIN stack, stack[i].kind \in Handlers, stack[i].up # 0
      PROVE  /\ stack[i].up < i /\ stack[stack[i].up].kind \in Handlers
             /\ stack[stack[i].up].pushes <= stack[i].pushes
  <2>1. i \in 1 .. n
    BY <1>2, LenProperties DEF IInv, Typed
  <2>2. PICK m : m = i - 1
    OBVIOUS
  <2>3. PICK h : h = stack[i].up
    OBVIOUS
  <2>4. Saves(stack, t, L, m, stack[i])
    BY <1>1, <1>2, <2>1, <2>2, LevelAt
  <2>5. h = t[m] /\ stack[i].pushes = Len(L[m]) /\ h # 0
    BY <1>6, <2>3, <2>4 DEF Saves
  <2>6. m \in 1 .. n
    <3>1. m # 0
      BY <1>1, <2>5 DEF Levels
    <3> QED
      BY <1>3, <2>1, <2>2, <3>1, OneLess
  <2>7. Saved(stack, t, L, m, h)
    BY <1>1, <1>2, <1>3, <2>5, <2>6, OnTop
  <2>8. /\ h \in 1 .. m /\ stack[h].kind \in Handlers /\ stack[h].pushes = Len(L[h - 1])
        /\ Len(L[h - 1]) <= Len(L[m])
    BY <2>7 DEF Saved, Begins
  <2>9. h < i
    BY <1>3, <2>1, <2>2, <2>6, <2>8
  <2> QED
    BY <2>3, <2>5, <2>8, <2>9
<1>7. settor = "none" => shell # "aborted"
  BY DEF IInv, Plain
<1> QED
  BY <1>4, <1>5, <1>6, <1>7, TypeHolds DEF StackDiscipline

\* An activation finds the stacks as it left them, whatever was thrown over it;
\* the chain of handlers is of activations that have not returned, each of
\* which pushlist can be unwound to (except.c: throw; es.h: ExceptionHandler).
THEOREM Discipline == Spec => []StackDiscipline
<1>1. IInv => StackDiscipline
  BY DisciplineHolds
<1> QED
  BY <1>1, Invariance, PTL

\* evaldepth is the number of evals there are, however others were left, and
\* blocked that of the catchers (eval.c: eval; prim-ctl.c: catch).
THEOREM Counts == Spec => []CountsKept
<1>1. IInv => CountsKept
  <2> SUFFICES ASSUME IInv PROVE CountsKept
    OBVIOUS
  <2>1. DOMAIN stack = 1 .. Len(stack)
    BY LenProperties DEF IInv, Typed
  <2>2. evaldepth = Cardinality({i \in DOMAIN stack : IsEval(stack[i])})
    BY SMTT(30), <2>1 DEF IInv, Evals
  <2>3. settor = "none" =>
          blocked = Cardinality({i \in DOMAIN stack : stack[i].kind = "catcher"})
    BY <2>1 DEF IInv, Plain, Catchers
  <2> QED
    BY <2>2, <2>3 DEF CountsKept
<1> QED
  BY <1>1, Invariance, PTL

-----------------------------------------------------------------------------
(* Which handler an exception reaches.                                     *)

LEMMA OneUnder ==
  ASSUME NEW n \in Nat \ {0}, NEW k, k = n - 1
  PROVE  k \in Nat /\ k <= n /\ k # n /\ n = k + 1
OBVIOUS

LEMMA WithinOf ==
  ASSUME NEW k \in Nat, NEW n, n = k + 1, NEW h \in 1 .. k
  PROVE  h \in Nat \ {0} /\ h - 1 \in 0 .. n /\ h - 1 + 1 = h /\ k \in 1 .. n
OBVIOUS

LEMMA OneMore ==
  ASSUME NEW S, NEW p \in Seq(S), NEW f
  PROVE  Len(Append(p, f)) = Len(p) + 1
<1>1. PICK Q : Q = S \cup {f}
  OBVIOUS
<1>2. Len(p) \in Nat /\ p \in [1 .. Len(p) -> S]
  BY LenProperties
<1>3. p \in [1 .. Len(p) -> Q]
  BY <1>1, <1>2
<1>4. p \in Seq(Q) /\ f \in Q
  BY <1>1, <1>2, <1>3, SeqDef
<1> QED
  BY <1>4, AppendProperties

\* Where unwinding runs no settor, no handler is above the one a throw goes
\* to, but for the throw's own activation nothing else.
LEMMA NoneAbove ==
  ASSUME IInv, shell = "running", settor = "none", Top.kind = "throw",
         NEW n, n = Len(stack), NEW h, h = Top.target
  PROVE  h \in Nat \ {0} /\ \A j \in h + 1 .. n : stack[j].kind \notin Handlers
<1>1. PICK t \in [Nat -> Nat], L \in [Nat -> Seq(Pushed)] :
        Levels(stack, t, L) /\ tophandler = t[Len(stack)] /\ pushlist = L[Len(stack)]
  BY Here
<1>2. n \in Nat \ {0} /\ Top = stack[n]
  BY Here
<1>3. Thrown(t, L, n, h)
  BY <1>1, Throwing
<1>4. PICK k : k = n - 1
  OBVIOUS
<1>5. h = t[k] /\ h # 0 /\ h \in 1 .. k
  BY <1>3, <1>4 DEF Thrown, Saved
<1>6. k \in Nat /\ k <= n /\ k # n /\ n = k + 1
  <2>1. n \in Nat \ {0}
    BY <1>2
  <2> QED
    BY <1>4, <2>1, OneUnder
<1>7. h \in Nat \ {0} /\ k \in 1 .. n
  BY <1>5, <1>6, WithinOf
<1>8. \A j \in 1 .. k : stack[j].kind # "throw"
  <2>1. Clean(k)
    BY <1>6, CleanBelow
  <2> QED
    BY <2>1 DEF Clean
<1>9. Reach(stack, t, L, k)
  BY <1>1, <1>7, LevelAt
<1>10. \A j \in h + 1 .. k : stack[j].kind \notin Handlers
  BY <1>5, <1>8, <1>9 DEF Reach
<1>11. ASSUME NEW j \in h + 1 .. n PROVE stack[j].kind \notin Handlers
  <2>1. CASE j = n
    BY <1>2, <2>1 DEF Handlers
  <2>2. CASE j # n
    <3>1. j \in h + 1 .. k
      BY <1>6, <1>7, <2>2
    <3> QED
      BY <1>10, <3>1
  <2> QED
    BY <2>1, <2>2
<1> QED
  BY <1>7, <1>11

\* longjmp() leaves the activations below the target, and the one that goes on
\* there when it does not end.
LEMMA CatchLeaves ==
  ASSUME IInv, shell = "running", Top.kind = "throw", Catch, shell' = "running",
         NEW h, h = Top.target
  PROVE  h \in Nat \ {0} /\ Len(stack') \in {h - 1, h}
<1>1. PICK t \in [Nat -> Nat], L \in [Nat -> Seq(Pushed)] :
        Levels(stack, t, L) /\ tophandler = t[Len(stack)] /\ pushlist = L[Len(stack)]
  BY Here
<1>2. PICK n : n = Len(stack)
  OBVIOUS
<1>3. n \in Nat \ {0} /\ stack \in Seq(Activation)
  BY <1>2, Here DEF IInv, Typed
<1>4. Thrown(t, L, n, h)
  BY <1>1, <1>2, Throwing
<1>5. h \in 1 .. n - 1 /\ stack[h].kind \in Handlers
  BY <1>4 DEF Thrown, Saved
<1>6. PICK m : m = h - 1
  OBVIOUS
<1>7. h \in Nat \ {0} /\ m \in 0 .. n /\ m + 1 = h
  <2>1. PICK k : k = n - 1
    OBVIOUS
  <2>2. k \in Nat /\ n = k + 1 /\ h \in 1 .. k
    BY <1>3, <1>5, <2>1
  <2> QED
    BY <1>6, <2>2, WithinOf
<1>8. PICK below : below = SubSeq(stack, 1, m)
  OBVIOUS
<1>9. below \in Seq(Activation) /\ Len(below) = m
  BY <1>2, <1>3, <1>7, <1>8, FirstFacts
<1>10. PICK out : out = Outcome(stack[h], Top.exn)
  OBVIOUS
<1>11. stack' = CASE out = "exit" -> << >>
                  [] out = "done" -> below
                  [] out = "rethrow" -> Append(below, [kind |-> "rethrow",
                                                       from |-> stack[h].kind,
                                                       exn |-> Top.exn])
                  [] OTHER -> Append(below, [stack[h] EXCEPT !.kind = out])
  BY <1>6, <1>8, <1>10 DEF Catch
<1>12. shell' = IF out = "exit" THEN "exited" ELSE shell
  BY <1>10 DEF Catch
<1>13. out # "exit"
  BY <1>12
<1>14. stack' = below \/ \E f : stack' = Append(below, f)
  <2>1. CASE out = "done"
    BY <1>11, <2>1
  <2>2. CASE out = "rethrow"
    BY <1>11, <2>2
  <2>3. CASE out \notin {"done", "rethrow"}
    BY <1>11, <1>13, <2>3
  <2> QED
    BY <2>1, <2>2, <2>3
<1>15. Len(stack') \in {m, m + 1}
  <2>1. ASSUME NEW f, stack' = Append(below, f) PROVE Len(stack') = m + 1
    BY <1>9, <2>1, OneMore
  <2> QED
    BY <1>9, <1>14, <2>1
<1> QED
  BY <1>6, <1>7, <1>15

\* What a step does to the stack, where unwinding runs no settor.
LEMMA StackMoves ==
  ASSUME IInv, Next, settor = "none"
  PROVE  \/ stack' = stack \/ \E f : stack' = Append(stack, f)
         \/ shell = "running" /\ stack' = Drop(stack)
         \/ shell = "running" /\ Top.kind = "throw" /\ Catch
<1>1. CASE Call
  BY <1>1 DEF Call, Enter
<1>2. ASSUME NEW kind \in {"catch", "input", "for"}, Guard(kind)
      PROVE  \E f : stack' = Append(stack, f)
  BY <1>2 DEF Guard, Enter
<1>3. ASSUME NEW value \in Value, Local(value)
      PROVE  \E f : stack' = Append(stack, f)
  BY <1>3 DEF Local
<1>4. ASSUME NEW value \in Value, Assign(value) PROVE stack' = stack
  BY <1>4 DEF Assign
<1>5. ASSUME NEW e, throw(e) PROVE stack' = stack \/ \E f : stack' = Append(stack, f)
  BY <1>5 DEF throw
<1>6. CASE TooDeep \/ Rethrow \/ \E e \in Exn : Throw(e)
  BY <1>5, <1>6 DEF TooDeep, Rethrow, Throw
<1>7. CASE EndHandler \/ EndLocal
  BY <1>7 DEF EndHandler, EndLocal, RunsCommands, Runs, InCode
<1>8. CASE Unwind
  <2>1. shell = "running" /\ Top.kind = "throw"
    BY <1>8 DEF Unwind
  <2>2. CASE Len(pushlist) = stack[Top.target].pushes
    BY <1>8, <2>1, <2>2 DEF Unwind
  <2>3. CASE Len(pushlist) # stack[Top.target].pushes
    BY <1>8, <2>3 DEF Unwind
  <2> QED
    BY <2>2, <2>3
<1>9. ASSUME NEW value \in Value, EndSettor(value) PROVE FALSE
  <2>1. shell = "running" /\ Top.kind = "settor"
    BY <1>9 DEF EndSettor, Runs, InCode
  <2>2. PICK n : n = Len(stack)
    OBVIOUS
  <2>3. n \in 1 .. Len(stack) /\ Top = stack[n]
    BY <2>1, <2>2, Here
  <2> QED
    BY <2>1, <2>3 DEF IInv, Plain
<1> QED
  BY <1>1, <1>2, <1>3, <1>4, <1>6, <1>7, <1>8, <1>9 DEF Next, Step

LEMMA CatchIsReached ==
  ASSUME IInv, [Next]_vars, NEW h \in DOMAIN stack, settor = "none",
         stack[h].kind = "catch", h > Len(stack'), shell' = "running"
  PROVE  Top.kind = "catch" \/ h = Top.target
<1>1. PICK n : n = Len(stack)
  OBVIOUS
<1>2. n \in Nat /\ stack \in Seq(Activation) /\ h \in 1 .. n
  BY <1>1, LenProperties DEF IInv, Typed
<1>3. PICK l : l = Len(stack')
  OBVIOUS
<1>4. ASSUME stack' = stack \/ \E f : stack' = Append(stack, f) PROVE FALSE
  <2>1. l = n \/ l = n + 1
    BY <1>1, <1>2, <1>3, <1>4, OneMore
  <2>2. h > l
    BY <1>3
  <2> QED
    BY <1>2, <2>1, <2>2
<1>5. CASE shell = "running" /\ stack' = Drop(stack)
  <2>1. n \in Nat \ {0} /\ Top = stack[n] /\ stack # << >>
    BY <1>1, <1>5, Here DEF IInv, Typed
  <2>2. l = n - 1
    BY <1>1, <1>2, <1>3, <1>5, <2>1, DropFacts
  <2>3. h > l
    BY <1>3
  <2>4. h = n
    BY <1>2, <2>2, <2>3
  <2> QED
    BY <2>1, <2>4
<1>6. CASE shell = "running" /\ Top.kind = "throw" /\ Catch
  <2>1. PICK g : g = Top.target
    OBVIOUS
  <2>2. g \in Nat \ {0} /\ l \in {g - 1, g}
    BY <1>3, <1>6, <2>1, CatchLeaves
  <2>3. \A j \in g + 1 .. n : stack[j].kind \notin Handlers
    BY <1>1, <1>6, <2>1, NoneAbove
  <2>4. h \notin g + 1 .. n
    BY <2>3 DEF Handlers
  <2>5. h > l
    BY <1>3
  <2>6. h = g
    BY <1>2, <2>2, <2>4, <2>5
  <2> QED
    BY <2>1, <2>6
<1>7. CASE Next
  BY <1>4, <1>5, <1>6, <1>7, StackMoves
<1>8. CASE UNCHANGED vars
  <2>1. stack' = stack
    BY <1>8 DEF vars
  <2> QED
    BY <1>4, <2>1
<1> QED
  BY <1>7, <1>8

\* No exception passes over a catch, unless unwinding runs a settor (except.c:
\* throw; prim-ctl.c: catch).
THEOREM InnermostIsReached == Spec => InnermostCatches
<1>1. IInv /\ [Next]_vars =>
        [\A h \in DOMAIN stack :
           settor = "none" /\ stack[h].kind = "catch" /\ h > Len(stack') /\ shell' = "running" =>
             Top.kind = "catch" \/ h = Top.target]_vars
  BY CatchIsReached
<1> QED
  BY <1>1, Invariance, PTL DEF Spec, InnermostCatches

-----------------------------------------------------------------------------
(* What the bindings hide.                                                 *)

\* What HiddenKept says of pushlist before, p, and after, q, and of the value
\* after, w.
Restores(p, q, w) ==
  \A i \in 1 .. Len(p) :
    p[i] # Zero =>
      IF i <= Len(q) THEN q[i] = p[i]
      ELSE \/ w = p[i].defn
           \/ \E j \in Len(q) + 1 .. i - 1 : p[j] # Zero
           \/ settor = "throws"

LEMMA BeginsRestores ==
  ASSUME NEW p \in Seq(Pushed), NEW q, NEW w, Begins(p, q), Len(q) \in Nat
  PROVE  Restores(p, q, w)
<1>1. Len(p) \in Nat
  BY LenProperties
<1>2. Len(p) <= Len(q) /\ \A i \in 1 .. Len(p) : q[i] = p[i]
  BY DEF Begins
<1>3. \A i \in 1 .. Len(p) : i <= Len(q)
  BY <1>1, <1>2
<1> QED
  BY <1>2, <1>3 DEF Restores

\* The last entry goes.
LEMMA DropRestores ==
  ASSUME NEW p \in Seq(Pushed), p # << >>, NEW w,
         p[Len(p)] = Zero \/ w = p[Len(p)].defn \/ settor = "throws"
  PROVE  Restores(p, Drop(p), w)
<1>1. /\ Len(p) \in Nat \ {0} /\ Len(Drop(p)) = Len(p) - 1
      /\ \A i \in 1 .. Len(p) - 1 : Drop(p)[i] = p[i]
  BY DropFacts
<1>2. PICK n \in Nat \ {0} : n = Len(p)
  BY <1>1
<1>3. PICK q : q = Drop(p)
  OBVIOUS
<1>4. ASSUME NEW i \in 1 .. n, p[i] # Zero
      PROVE  IF i <= Len(q) THEN q[i] = p[i] ELSE w = p[i].defn \/ settor = "throws"
  <2>1. i \in 1 .. n - 1 \/ (i = n /\ ~ (i <= n - 1))
    BY <1>2
  <2> QED
    BY <2>1, <1>1, <1>2, <1>3, <1>4
<1> QED
  BY <1>2, <1>3, <1>4 DEF Restores

\* The push of $0 for a settor goes, and what the settor was called for is done.
LEMMA SettorRestores ==
  ASSUME NEW p \in Seq(Pushed), p # << >>, p[Len(p)] = Zero, NEW w,
         NEW q, q = Drop(p)
  PROVE  /\ Restores(p, q, w)
         /\ \A v \in Pushed : Restores(p, Append(q, v), w)
         /\ q # << >> /\ (w = q[Len(q)].defn \/ settor = "throws") =>
              Restores(p, Drop(q), w)
<1>1. /\ Len(p) \in Nat \ {0} /\ q \in Seq(Pushed) /\ Len(q) = Len(p) - 1
      /\ \A i \in 1 .. Len(p) - 1 : q[i] = p[i]
  BY DropFacts
<1>2. Restores(p, q, w)
  BY DropRestores
<1>3. PICK n \in Nat, m \in Nat : n = Len(p) /\ m = Len(q) /\ n = m + 1
  BY <1>1
<1>4. /\ \A i \in 1 .. m : q[i] = p[i] /\ i \in 1 .. n
      /\ \A i \in 1 .. n : p[i] # Zero => i \in 1 .. m
  <2>1. \A i \in 1 .. n : i = n \/ i \in 1 .. m
    BY <1>3
  <2> QED
    BY <1>1, <1>3, <2>1
<1>5. ASSUME NEW v \in Pushed PROVE Restores(p, Append(q, v), w)
  <2>1. PICK r : r = Append(q, v)
    OBVIOUS
  <2>2. Len(r) = m + 1 /\ \A i \in 1 .. m : r[i] = q[i]
    BY <2>1, <1>1, <1>3, AppendFacts
  <2>3. \A i \in 1 .. m : i <= m + 1
    BY <1>3
  <2>4. Restores(p, r, w)
    BY <2>2, <2>3, <1>3, <1>4 DEF Restores
  <2> QED
    BY <2>1, <2>4
<1>6. ASSUME q # << >>, w = q[Len(q)].defn \/ settor = "throws"
      PROVE  Restores(p, Drop(q), w)
  <2>1. PICK r : r = Drop(q)
    OBVIOUS
  <2>2. Restores(q, r, w)
    BY <1>1, <1>6, <2>1, DropRestores
  <2>3. Len(r) \in Nat
    BY <1>1, <1>6, <2>1, DropFacts, LenProperties
  <2>4. ASSUME NEW i \in 1 .. n, p[i] # Zero
        PROVE  IF i <= Len(r) THEN r[i] = p[i]
               ELSE \/ w = p[i].defn
                    \/ \E j \in Len(r) + 1 .. i - 1 : p[j] # Zero
                    \/ settor = "throws"
    <3>1. i \in 1 .. m /\ q[i] = p[i]
      BY <1>4, <2>4
    <3>2. IF i <= Len(r) THEN r[i] = p[i]
          ELSE \/ w = p[i].defn
               \/ \E j \in Len(r) + 1 .. i - 1 : q[j] # Zero
               \/ settor = "throws"
      BY <2>2, <2>4, <3>1, <1>3 DEF Restores
    <3>3. \A j \in Len(r) + 1 .. i - 1 : j \in 1 .. m
      BY <2>3, <3>1, <1>3
    <3> QED
      BY <3>2, <3>3, <1>4
  <2> QED
    BY <2>1, <2>4, <1>3 DEF Restores
<1> QED
  BY <1>2, <1>5, <1>6

\* A return of the settor.
LEMMA EndSettorRestores ==
  ASSUME IInv, Next, NEW value \in Value, EndSettor(value)
  PROVE  Restores(pushlist, pushlist', var')
<1>1. /\ shell = "running" /\ Top.kind = "settor" /\ var' = value /\ settor' = settor
      /\ settor = "returns" => value = Top.arg
  BY DEF EndSettor, Runs, InCode, Next
<1>2. PICK t \in [Nat -> Nat], L \in [Nat -> Seq(Pushed)] :
        Levels(stack, t, L) /\ tophandler = t[Len(stack)] /\ pushlist = L[Len(stack)]
  BY <1>1, Here
<1>3. PICK n, m : n = Len(stack) /\ m = n - 1
  OBVIOUS
<1>4. Returns(t, L, n, m)
  BY <1>1, <1>2, <1>3, Returning
<1>5. /\ Saves(stack, t, L, m, Top) /\ Top.use \in {"def", "push", "pop"}
      /\ settor # "none" /\ L[m] \in Seq(Pushed) /\ Drop(pushlist) = L[m]
  BY <1>4 DEF Returns
<1>6. /\ pushlist = Append(L[m], Zero)
  <2>1. /\ Makes(stack, t, L, m, stack[n], t[n], L[n]) /\ Top = stack[n]
    BY <1>1, <1>2, <1>3, MadeOn, Here
  <2> QED
    BY <2>1, <1>1, <1>2, <1>3 DEF Makes
<1>7. PICK p, q : p = pushlist /\ q = L[m]
  OBVIOUS
<1>8. /\ p \in Seq(Pushed) /\ p # << >> /\ p[Len(p)] = Zero /\ q = Drop(p)
      /\ q \in Seq(Pushed)
  <2>1. Zero \in Pushed
    BY DEF Pushed
  <2>2. /\ p = Append(q, Zero) /\ q \in Seq(Pushed)
    BY <1>5, <1>6, <1>7
  <2>3. /\ p \in Seq(Pushed) /\ p # << >> /\ Len(p) = Len(q) + 1 /\ p[Len(q) + 1] = Zero
    BY <2>1, <2>2, BeginsAppend, AppendFacts
  <2> QED
    BY <2>2, <2>3, <1>5, <1>7
<1>9. CASE Top.use = "push"
  <2>1. pushlist' = Append(q, Push(var)) /\ Push(var) \in Pushed
    BY <1>5, <1>7, <1>9 DEF EndSettor, Push, Pushed, IInv, Typed
  <2> QED
    BY <2>1, <1>7, <1>8, SettorRestores
<1>10. CASE Top.use = "pop"
  <2>1. pushlist' = Drop(q)
    BY <1>5, <1>7, <1>10 DEF EndSettor
  <2>2. q # << >> /\ q[Len(q)] = Push(Top.arg)
    BY <1>1, <1>5, <1>7, <1>10 DEF Saves, Binds
  <2>3. var' = q[Len(q)].defn \/ settor = "throws"
    <3>1. settor \in {"none", "returns", "throws"}
      BY ExceptionsAssumption DEF IInv, Typed
    <3> QED
      BY <3>1, <2>2, <1>1, <1>5 DEF Push
  <2> QED
    BY <2>1, <2>2, <2>3, <1>7, <1>8, SettorRestores
<1>11. CASE Top.use = "def"
  <2>1. pushlist' = q
    BY <1>5, <1>7, <1>11 DEF EndSettor
  <2> QED
    BY <2>1, <1>7, <1>8, SettorRestores
<1> QED
  BY <1>5, <1>9, <1>10, <1>11

LEMMA CallSettorRestores ==
  ASSUME IInv, NEW use, NEW arg, CallSettor(use, arg)
  PROVE  Begins(pushlist, pushlist') /\ Len(pushlist') \in Nat
<1>1. pushlist \in Seq(Pushed) /\ Zero \in Pushed
  BY TypeHolds DEF TypeOK, Pushed
<1>2. pushlist' = Append(pushlist, Zero)
  BY DEF CallSettor
<1>3. Append(pushlist, Zero) \in Seq(Pushed)
  BY <1>1, BeginsAppend
<1> QED
  BY <1>1, <1>2, <1>3, BeginsAppend, LenProperties

LEMMA StepRestores ==
  ASSUME IInv, [Next]_vars
  PROVE  Restores(pushlist, pushlist', var')
<1>1. pushlist \in Seq(Pushed) /\ Len(pushlist) \in Nat /\ Begins(pushlist, pushlist)
  <2>1. pushlist \in Seq(Pushed)
    BY TypeHolds DEF TypeOK, Pushed
  <2> QED
    BY <2>1, LenProperties, BeginsSelf
<1>2. ASSUME UNCHANGED pushlist PROVE Restores(pushlist, pushlist', var')
  BY <1>1, <1>2, BeginsRestores
<1>3. ASSUME NEW v \in Pushed, pushlist' = Append(pushlist, v)
      PROVE  Restores(pushlist, pushlist', var')
  <2>1. Begins(pushlist, pushlist') /\ Len(pushlist') \in Nat
    BY <1>1, <1>3, BeginsAppend
  <2> QED
    BY <1>1, <2>1, BeginsRestores
<1>4. ASSUME NEW use, NEW arg, CallSettor(use, arg)
      PROVE  Restores(pushlist, pushlist', var')
  BY <1>1, <1>4, CallSettorRestores, BeginsRestores
<1>5. CASE Call
  <2>1. UNCHANGED pushlist \/ pushlist' = Append(pushlist, Zero)
    BY <1>5 DEF Call
  <2>2. Zero \in Pushed
    BY DEF Pushed
  <2> QED
    BY <2>1, <2>2, <1>2, <1>3
<1>6. ASSUME NEW kind \in {"catch", "input", "for"}, Guard(kind)
      PROVE  UNCHANGED pushlist
  BY <1>6 DEF Guard
<1>7. ASSUME NEW value \in Value, Local(value)
      PROVE  Restores(pushlist, pushlist', var')
  <2>1. CASE settor = "none"
    <3>1. pushlist' = Append(pushlist, Push(var))
      BY <1>7, <2>1 DEF Local
    <3>2. Push(var) \in Pushed
      BY DEF Push, Pushed, IInv, Typed
    <3> QED
      BY <3>1, <3>2, <1>3
  <2>2. CASE settor # "none"
    <3>1. CallSettor("push", value)
      BY <1>7, <2>2 DEF Local
    <3> QED
      BY <3>1, <1>4
  <2> QED
    BY <2>1, <2>2
<1>8. ASSUME NEW value \in Value, Assign(value)
      PROVE  Restores(pushlist, pushlist', var')
  <2>1. UNCHANGED pushlist \/ CallSettor("def", value)
    BY <1>8 DEF Assign
  <2> QED
    BY <2>1, <1>2, <1>4
<1>9. ASSUME NEW e, throw(e) PROVE UNCHANGED pushlist
  BY <1>9 DEF throw
<1>10. CASE TooDeep \/ Rethrow \/ \E e \in Exn : Throw(e)
  BY <1>2, <1>9, <1>10 DEF TooDeep, Rethrow, Throw
<1>11. CASE EndHandler
  <2>1. /\ shell = "running"
        /\ pushlist' = IF Top.kind = "lambda" THEN Drop(pushlist) ELSE pushlist
    BY <1>11 DEF EndHandler, RunsCommands, Runs, InCode
  <2>2. CASE Top.kind = "lambda"
    <3>1. PICK t \in [Nat -> Nat], L \in [Nat -> Seq(Pushed)] :
            Levels(stack, t, L) /\ tophandler = t[Len(stack)] /\ pushlist = L[Len(stack)]
      BY <2>1, Here
    <3>2. PICK n, m : n = Len(stack) /\ m = n - 1
      OBVIOUS
    <3>3. /\ Makes(stack, t, L, m, stack[n], t[n], L[n]) /\ L[m] \in Seq(Pushed)
          /\ Top = stack[n]
      BY <2>1, <3>1, <3>2, MadeOn, Here
    <3>4. pushlist = Append(L[m], Zero)
      BY <2>2, <3>1, <3>2, <3>3 DEF Makes
    <3>5. PICK p, q : p = pushlist /\ q = L[m] /\ p = Append(q, Zero) /\ q \in Seq(Pushed)
      BY <3>3, <3>4
    <3>6. Zero \in Pushed
      BY DEF Pushed
    <3>7. p # << >> /\ p[Len(p)] = Zero
      <4>1. p = Append(q, Zero) /\ q \in Seq(Pushed)
        BY <3>5
      <4>2. p # << >> /\ Len(p) = Len(q) + 1
        BY <4>1, <3>6, BeginsAppend
      <4>3. p[Len(q) + 1] = Zero
        BY <4>1, <3>6, AppendFacts
      <4> QED
        BY <4>2, <4>3
    <3> QED
      BY <2>1, <2>2, <3>5, <3>7, <1>1, DropRestores
  <2>3. CASE Top.kind # "lambda"
    BY <2>1, <2>3, <1>2
  <2> QED
    BY <2>2, <2>3
<1>12. CASE EndLocal
  <2>1. shell = "running" /\ Top.kind = "local"
    BY <1>12 DEF EndLocal, RunsCommands, Runs, InCode
  <2>2. CASE settor = "none"
    <3>1. PICK t \in [Nat -> Nat], L \in [Nat -> Seq(Pushed)] :
            Levels(stack, t, L) /\ tophandler = t[Len(stack)] /\ pushlist = L[Len(stack)]
      BY <2>1, Here
    <3>2. PICK n, m : n = Len(stack) /\ m = n - 1
      OBVIOUS
    <3>3. /\ Makes(stack, t, L, m, stack[n], t[n], L[n]) /\ L[m] \in Seq(Pushed)
          /\ Top = stack[n]
      BY <2>1, <3>1, <3>2, MadeOn, Here
    <3>4. \E v \in Value : pushlist = Append(L[m], Push(v))
      BY <2>1, <3>1, <3>2, <3>3 DEF Makes
    <3>5. pushlist # << >>
      BY <3>3, <3>4, LocalUndone DEF Binds
    <3>6. pushlist' = Drop(pushlist) /\ var' = pushlist[Len(pushlist)].defn
      BY <1>12, <2>2 DEF EndLocal
    <3> QED
      BY <3>5, <3>6, <1>1, DropRestores
  <2>3. CASE settor # "none"
    <3>1. \E arg : CallSettor("pop", arg)
      BY <1>12, <2>3 DEF EndLocal
    <3> QED
      BY <3>1, <1>4
  <2> QED
    BY <2>2, <2>3
<1>13. CASE Unwind
  <2>0. shell = "running" /\ Top.kind = "throw"
    BY <1>13 DEF Unwind
  <2>1. CASE Len(pushlist) = stack[Top.target].pushes
    <3>1. UNCHANGED pushlist
      BY <1>13, <2>1 DEF Unwind, Catch
    <3> QED
      BY <3>1, <1>2
  <2>2. CASE Len(pushlist) # stack[Top.target].pushes
    <3>1. pushlist # << >>
      <4>1. PICK t \in [Nat -> Nat], L \in [Nat -> Seq(Pushed)] :
              /\ Levels(stack, t, L)
              /\ tophandler = t[Len(stack)] /\ pushlist = L[Len(stack)]
        BY <2>0, Here
      <4>2. Thrown(t, L, Len(stack), Top.target)
        BY <2>0, <4>1, Throwing
      <4>3. PICK p, k : p = stack[Top.target].pushes /\ k = Len(pushlist)
        OBVIOUS
      <4>4. p \in Nat /\ k \in Nat /\ k >= p /\ k # p
        BY <2>2, <4>2, <4>3 DEF Thrown
      <4>5. k # 0
        BY <4>4
      <4> QED
        BY <4>3, <4>5, <1>1, EmptySeq
    <3>2. PICK last : last = pushlist[Len(pushlist)]
      OBVIOUS
    <3>3. CASE last # Zero /\ settor # "none"
      <4>1. CallSettor("pop", last.defn)
        BY <1>13, <2>2, <3>2, <3>3 DEF Unwind
      <4> QED
        BY <4>1, <1>4
    <3>4. CASE ~ (last # Zero /\ settor # "none")
      <4>1. pushlist' = Drop(pushlist) /\ var' = IF last = Zero THEN var ELSE last.defn
        BY <1>13, <2>2, <3>2, <3>4 DEF Unwind
      <4>2. last = Zero \/ var' = last.defn
        BY <4>1
      <4> QED
        BY <4>1, <4>2, <3>1, <3>2, <1>1, DropRestores
    <3> QED
      BY <3>3, <3>4
  <2> QED
    BY <2>1, <2>2
<1>14. CASE UNCHANGED vars
  BY <1>2, <1>14 DEF vars
<1>15. CASE Next
  BY <1>2, <1>5, <1>6, <1>7, <1>8, <1>10, <1>11, <1>12, <1>13, <1>15, EndSettorRestores
     DEF Next, Step
<1> QED
  BY <1>14, <1>15

\* No binding hidden by a local one is lost or changed by an exception, a call
\* or a settor, and each is uncovered with its value, unless the settor chose
\* another (var.c: varpush, varpop; except.c: throw).
THEOREM HiddenIsKept == Spec => HiddenKept
<1>1. IInv /\ [Next]_vars =>
        [\A i \in DOMAIN pushlist :
           pushlist[i] # Zero =>
             IF i <= Len(pushlist') THEN pushlist'[i] = pushlist[i]
             ELSE \/ var' = pushlist[i].defn
                  \/ \E j \in Len(pushlist') + 1 .. i - 1 : pushlist[j] # Zero
                  \/ settor = "throws"]_vars
  <2> SUFFICES ASSUME IInv, [Next]_vars
               PROVE  \A i \in DOMAIN pushlist :
                        pushlist[i] # Zero =>
                          IF i <= Len(pushlist') THEN pushlist'[i] = pushlist[i]
                          ELSE \/ var' = pushlist[i].defn
                               \/ \E j \in Len(pushlist') + 1 .. i - 1 : pushlist[j] # Zero
                               \/ settor = "throws"
    OBVIOUS
  <2>1. DOMAIN pushlist = 1 .. Len(pushlist)
    BY TypeHolds, LenProperties DEF TypeOK
  <2> QED
    BY <2>1, StepRestores DEF Restores
<1> QED
  BY <1>1, Invariance, PTL DEF Spec, HiddenKept
=============================================================================
