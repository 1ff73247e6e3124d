-------------------------- MODULE ChildrenProofs ----------------------------
(***************************************************************************)
(* Proof that the list of children is sound, that it says of them what the *)
(* kernel does, and that ewait reports each child once: for any children,  *)
(* statuses and cells, when the kernel reuses no pid that is still listed. *)
(* And that the commands of a pipeline have the ends of pipes they are to  *)
(* have (Pipes), for any number of commands, wires and descriptors.        *)
(***************************************************************************)
EXTENDS ProcsView, Pipes, Induction

\* L lists the allocated cells, once each, in the order of the list.
Ordered(len, L) ==
  /\ L \in [1 .. len -> allocated]
  /\ \A i, j \in 1 .. len : L[i] = L[j] => i = j
  /\ \A c \in allocated : \E i \in 1 .. len : c = L[i]
  /\ proclist = IF len = 0 THEN Nil ELSE L[1]
  /\ \A i \in 1 .. len :
       /\ proc[L[i]].next = IF i < len THEN L[i + 1] ELSE Nil
       /\ proc[L[i]].prev = IF i > 1 THEN L[i - 1] ELSE Nil

Linked == \E len \in Nat : \E L \in [1 .. len -> allocated] : Ordered(len, L)

\* A child has one entry, and no assertion has failed.
Entries ==
  /\ pc # "assert"
  /\ \A c \in allocated : proc[c].pid \in Pid
  /\ \A c, d \in allocated : proc[c].pid = proc[d].pid => c = d

\* What an entry says of its child, and what a signal may have made it miss.
Agreed ==
  /\ \A p \in Pid :
       kernel[p] # "none" => \E c \in allocated : proc[c].pid = p /\ proc[c].alive
  /\ \A c \in allocated : ~ proc[c].alive => kernel[proc[c].pid] = "none"
  /\ signalled \/ \A c \in allocated :
       IF proc[c].alive
       THEN kernel[proc[c].pid] # "none" \/ (pc = "taken" /\ proc[c].pid = call.deadpid)
       ELSE proc[c].status = ending[proc[c].pid]

\* Where wait3() has stored the status.
Stored == IF call.proc = Nil THEN call.status ELSE proc[call.proc].status

\* What each place of ewait knows of the entry it waits for.
CallKnows ==
  /\ pc \in {"wait3", "taken"} =>
       IF call.proc = Nil
       THEN call.pid = NoPid /\ \A c \in allocated : proc[c].alive
       ELSE /\ call.proc \in allocated
            /\ proc[call.proc].alive
            /\ proc[call.proc].pid = call.pid
  /\ pc = "unlink" => call.proc \in allocated /\ ~ proc[call.proc].alive
  /\ pc = "taken" =>
       /\ call.deadpid \in Pid
       /\ kernel[call.deadpid] = "none"
       /\ \E c \in allocated : proc[c].pid = call.deadpid /\ proc[c].alive
       /\ signalled \/ Stored = ending[call.deadpid]
  /\ call.seen_eintr => signalled

\* p has an entry.
Entered(p) == \E c \in allocated : proc[c].pid = p

IInv == TypeOK /\ Linked /\ Entries /\ Agreed /\ CallKnows

-----------------------------------------------------------------------------
(* Walking the list.                                                       *)

LEMMA SizeType == Size \in Nat
BY ProcsAssumption, FS_CardinalityType DEF Size

\* The function Walk satisfies its recursive definition.
LEMMA WalkDef ==
  ASSUME NEW len \in Nat, NEW L, Ordered(len, L), TypeOK
  PROVE  /\ len <= Size
         /\ \A n \in 0 .. Size : Walk[n] = IF n < len THEN L[n + 1] ELSE Nil
<1> DEFINE W == [n \in 0 .. Size |-> IF n < len THEN L[n + 1] ELSE Nil]
<1>1. len <= Size
  <2>1. L \in Injection(1 .. len, Cell)
    BY DEF Ordered, Injection, IsInjective, TypeOK
  <2>2. IsFiniteSet(1 .. len) /\ Cardinality(1 .. len) = len
    BY FS_Interval
  <2> QED
    BY <2>1, <2>2, FS_Injection, ProcsAssumption DEF Size
<1>2. W = [n \in 0 .. Size |->
             IF n = 0 THEN proclist
             ELSE LET c == W[n - 1] IN IF c = Nil THEN Nil ELSE proc[c].next]
  <2> SUFFICES ASSUME NEW n \in 0 .. Size
               PROVE W[n] = IF n = 0 THEN proclist
                            ELSE IF W[n - 1] = Nil THEN Nil ELSE proc[W[n - 1]].next
    OBVIOUS
  <2>1. CASE n = 0
    BY <2>1, SizeType DEF Ordered
  <2>2. CASE n # 0 /\ n - 1 < len
    <3>1. n \in 1 .. len /\ n - 1 \in 0 .. Size /\ n - 1 + 1 = n
      BY <2>2, SizeType
    <3>2. W[n - 1] = L[n] /\ L[n] \in Cell /\ L[n] # Nil
      BY <2>2, <3>1, ProcsAssumption DEF Ordered, TypeOK
    <3> QED
      BY <3>1, <3>2 DEF Ordered
  <2>3. CASE n # 0 /\ ~ (n - 1 < len)
    BY <2>3, SizeType
  <2> QED
    BY <2>1, <2>2, <2>3
<1>3. Walk = [n \in 0 .. Size |->
                IF n = 0 THEN proclist
                ELSE LET c == Walk[n - 1] IN IF c = Nil THEN Nil ELSE proc[c].next]
  <2> HIDE DEF W
  <2> QED
    BY <1>2 DEF Walk
<1> DEFINE S == {n \in Nat : n \in 0 .. Size => Walk[n] = W[n]}
<1>4. \A n \in Nat : n \in S
  <2>1. 0 \in S
    BY <1>2, <1>3, SizeType
  <2>2. ASSUME NEW n \in Nat, n \in S PROVE n + 1 \in S
    <3> SUFFICES ASSUME n + 1 \in 0 .. Size PROVE Walk[n + 1] = W[n + 1]
      OBVIOUS
    <3>1. n \in 0 .. Size /\ n + 1 # 0 /\ (n + 1) - 1 = n
      BY SizeType
    <3>2. Walk[n] = W[n]
      BY <2>2, <3>1
    <3>3. Walk[n + 1] = IF Walk[n] = Nil THEN Nil ELSE proc[Walk[n]].next
      BY <1>3, <3>1
    <3> HIDE DEF W
    <3>4. W[n + 1] = IF W[n] = Nil THEN Nil ELSE proc[W[n]].next
      BY <1>2, <3>1
    <3> QED
      BY <3>2, <3>3, <3>4
  <2> HIDE DEF S
  <2> QED
    BY <2>1, <2>2, Inductive
<1>5. \A n \in 0 .. Size : Walk[n] = W[n]
  <2> HIDE DEF W
  <2> QED
    BY <1>4, SizeType
<1> QED
  BY <1>1, <1>5

\* A walk reaches the allocated cells and no other.
LEMMA ListedFacts ==
  ASSUME TypeOK, Linked
  PROVE  /\ \A n \in 0 .. Size : Walk[n] # Nil => Walk[n] \in allocated
         /\ \A c \in allocated : \E n \in 0 .. Size : Walk[n] = c
         /\ Listed = allocated
<1>1. PICK len \in Nat : \E L \in [1 .. len -> allocated] : Ordered(len, L)
  BY DEF Linked
<1> PICK L \in [1 .. len -> allocated] : Ordered(len, L)
  BY <1>1
<1>2. len <= Size /\ \A n \in 0 .. Size : Walk[n] = IF n < len THEN L[n + 1] ELSE Nil
  BY WalkDef
<1>3. \A n \in 0 .. Size : Walk[n] # Nil => Walk[n] \in allocated
  BY <1>2, SizeType
<1>4. \A c \in allocated : \E n \in 0 .. Size : Walk[n] = c
  <2> SUFFICES ASSUME NEW c \in allocated PROVE \E n \in 0 .. Size : Walk[n] = c
    OBVIOUS
  <2>1. PICK i \in 1 .. len : c = L[i]
    BY DEF Ordered
  <2>2. i - 1 \in 0 .. Size /\ i - 1 < len /\ (i - 1) + 1 = i
    BY <1>2, <2>1, SizeType
  <2> QED
    BY <1>2, <2>1, <2>2
<1>5. Nil \notin allocated
  BY ProcsAssumption DEF TypeOK
<1> QED
  BY <1>3, <1>4, <1>5 DEF Listed

\* There is a first cell on the list that is in S, unless S is empty.
LEMMA FirstOf ==
  ASSUME TypeOK, Linked, NEW S \in SUBSET allocated, NEW at,
         at = {n \in 0 .. Size : Walk[n] # Nil /\ Walk[n] \in S}
  PROVE  IF at = {} THEN S = {} ELSE \E n \in at : \A m \in at : n <= m
<1>1. CASE at = {}
  <2>1. Nil \notin allocated
    BY ProcsAssumption DEF TypeOK
  <2> QED
    BY <1>1, <2>1, ListedFacts
<1>2. CASE at # {}
  <2>1. at \in SUBSET Nat
    BY SizeType
  <2> QED
    BY <1>2, <2>1, LeastNumber
<1> QED
  BY <1>1, <1>2

\* HasPid(p) is the entry of p, Nil when it has none.
LEMMA HasPidFacts ==
  ASSUME TypeOK, Linked, NEW p
  PROVE  \/ HasPid(p) = Nil /\ \A c \in allocated : proc[c].pid # p
         \/ HasPid(p) \in allocated /\ proc[HasPid(p)].pid = p
<1> DEFINE S == {c \in allocated : proc[c].pid = p}
           at == {n \in 0 .. Size : Walk[n] # Nil /\ proc[Walk[n]].pid = p}
<1>1. at = {n \in 0 .. Size : Walk[n] # Nil /\ Walk[n] \in S}
  BY ListedFacts
<1>2. HasPid(p) = IF at = {} THEN Nil ELSE Walk[CHOOSE n \in at : \A m \in at : n <= m]
  BY DEF HasPid, First
<1>3. IF at = {} THEN S = {} ELSE \E n \in at : \A m \in at : n <= m
  <2>1. S \in SUBSET allocated
    OBVIOUS
  <2> HIDE DEF at, S
  <2> QED
    BY <1>1, <2>1, FirstOf
<1>4. CASE at = {}
  BY <1>2, <1>3, <1>4
<1>5. CASE at # {}
  <2>1. (CHOOSE n \in at : \A m \in at : n <= m) \in at
    BY <1>3, <1>5
  <2> QED
    BY <1>1, <1>2, <1>5, <2>1
<1> QED
  BY <1>4, <1>5

\* The entry that answers the call: the child's, or a dead one for any child.
LEMMA TopFacts ==
  ASSUME TypeOK, Linked
  PROVE  LET c == First(Answers)
         IN \/ c = Nil /\ \A d \in allocated : ~ Answers(d)
            \/ c \in allocated /\ Answers(c)
<1> DEFINE S == {c \in allocated : Answers(c)}
           at == {n \in 0 .. Size : Walk[n] # Nil /\ Answers(Walk[n])}
<1>1. at = {n \in 0 .. Size : Walk[n] # Nil /\ Walk[n] \in S}
  BY ListedFacts
<1>2. First(Answers) =
        IF at = {} THEN Nil ELSE Walk[CHOOSE n \in at : \A m \in at : n <= m]
  BY DEF First
<1>3. IF at = {} THEN S = {} ELSE \E n \in at : \A m \in at : n <= m
  <2>1. S \in SUBSET allocated
    OBVIOUS
  <2> HIDE DEF at, S
  <2> QED
    BY <1>1, <2>1, FirstOf
<1>4. CASE at = {}
  BY <1>2, <1>3, <1>4
<1>5. CASE at # {}
  <2>1. (CHOOSE n \in at : \A m \in at : n <= m) \in at
    BY <1>3, <1>5
  <2> QED
    BY <1>1, <1>2, <1>5, <2>1
<1> QED
  BY <1>4, <1>5

-----------------------------------------------------------------------------
(* The links of the list.                                                  *)

\* A step that leaves the links alone.
LEMMA LinksKept ==
  ASSUME TypeOK, Linked, UNCHANGED <<allocated, proclist>>,
         \A c \in allocated : proc'[c].next = proc[c].next /\ proc'[c].prev = proc[c].prev
  PROVE  Linked'
<1>1. PICK len \in Nat : \E L \in [1 .. len -> allocated] : Ordered(len, L)
  BY DEF Linked
<1> PICK L \in [1 .. len -> allocated] : Ordered(len, L)
  BY <1>1
<1>2. Ordered(len, L)'
  <2>1. \A i \in 1 .. len : L[i] \in allocated
    OBVIOUS
  <2> QED
    BY <2>1 DEF Ordered
<1> QED
  BY <1>2 DEF Linked

\* A new cell in front of the list.
LEMMA LinkFront ==
  ASSUME TypeOK, Linked, NEW c \in Cell \ allocated, NEW old \in Proc,
         old.next = proclist, old.prev = Nil, Link(c, old),
         allocated' = allocated \cup {c}, proclist' = c
  PROVE  /\ Linked'
         /\ proc' \in [Cell -> Proc]
         /\ proc'[c] = old
         /\ \A d \in allocated : proc'[d] = [proc[d] EXCEPT !.prev = proc'[d].prev]
<1>1. PICK len \in Nat : \E L \in [1 .. len -> allocated] : Ordered(len, L)
  BY DEF Linked
<1> PICK L \in [1 .. len -> allocated] : Ordered(len, L)
  BY <1>1
<1>2. allocated \subseteq Cell /\ Nil \notin Cell
  BY ProcsAssumption DEF TypeOK
<1>3. \A d \in allocated : proc[d] \in Proc /\ d # c
  BY <1>2 DEF TypeOK
<1>4. \A d \in allocated :
        proc'[d] = [proc[d] EXCEPT !.prev = IF d = proclist THEN c ELSE @]
  <2> SUFFICES ASSUME NEW d \in allocated
               PROVE proc'[d] = [proc[d] EXCEPT !.prev = IF d = proclist THEN c ELSE @]
    OBVIOUS
  <2>1. proc \in [Cell -> Proc] /\ d \in Cell /\ d # c /\ d # Nil /\ proc[d] \in Proc
    BY <1>2, <1>3 DEF TypeOK
  <2>2. [proc[d] EXCEPT !.prev = @] = proc[d]
    BY <2>1 DEF Proc
  <2> QED
    BY <2>1, <2>2 DEF Link
<1>5. proc'[c] = old /\ proc' \in [Cell -> Proc]
  <2>1. proc \in [Cell -> Proc] /\ proclist \in Pointer /\ proclist # c
    BY <1>2 DEF TypeOK, Ordered
  <2>2. CASE proclist = Nil
    BY <2>1, <2>2 DEF Link
  <2>3. CASE proclist # Nil
    <3>1. proclist \in Cell /\ [proc[proclist] EXCEPT !.prev = c] \in Proc
      BY <2>1, <2>3 DEF Pointer, Proc
    <3>2. proc' = [[proc EXCEPT ![c] = old] EXCEPT
                     ![proclist] = [proc[proclist] EXCEPT !.prev = c]]
      BY <2>1, <2>3, <3>1 DEF Link
    <3> QED
      BY <2>1, <3>1, <3>2
  <2> QED
    BY <2>2, <2>3
<1> DEFINE M == [i \in 1 .. len + 1 |-> IF i = 1 THEN c ELSE L[i - 1]]
<1>6. Ordered(len + 1, M)'
  <2>1. M[1] = c /\ \A i \in 1 .. len : M[i + 1] = L[i] /\ L[i] \in allocated /\ i + 1 \in 1 .. len + 1
    OBVIOUS
  <2>2. \A i \in 1 .. len + 1 : i = 1 \/ (i - 1 \in 1 .. len /\ M[i] = L[i - 1])
    OBVIOUS
  <2>3. M \in [1 .. len + 1 -> allocated']
    BY <2>1, <2>2
  <2>4. \A i, j \in 1 .. len + 1 : M[i] = M[j] => i = j
    <3> SUFFICES ASSUME NEW i \in 1 .. len + 1, NEW j \in 1 .. len + 1, M[i] = M[j]
                 PROVE i = j
      OBVIOUS
    <3> HIDE DEF M
    <3>1. CASE i = 1 \/ j = 1
      BY <1>3, <2>1, <2>2, <3>1
    <3>2. CASE i # 1 /\ j # 1
      BY <2>2, <3>2 DEF Ordered
    <3> QED
      BY <3>1, <3>2
  <2>5. \A d \in allocated' : \E i \in 1 .. len + 1 : d = M[i]
    <3> HIDE DEF M
    <3>1. 1 \in 1 .. len + 1
      OBVIOUS
    <3>2. \A d \in allocated : \E i \in 1 .. len : d = L[i]
      BY DEF Ordered
    <3> QED
      BY SMTT(30), <2>1, <3>1, <3>2
  <2>6. proclist' = M[1]
    BY <2>1
  <2>7. ASSUME NEW i \in 1 .. len + 1
        PROVE /\ proc'[M[i]].next = IF i < len + 1 THEN M[i + 1] ELSE Nil
              /\ proc'[M[i]].prev = IF i > 1 THEN M[i - 1] ELSE Nil
    <3>1. CASE i = 1
      <4> HIDE DEF M
      <4>1. proclist = IF len = 0 THEN Nil ELSE L[1]
        BY DEF Ordered
      <4> QED
        BY <1>5, <2>1, <3>1, <4>1
    <3>2. CASE i # 1
      <4>1. i - 1 \in 1 .. len /\ M[i] = L[i - 1] /\ L[i - 1] \in allocated
        BY <3>2
      <4>2. /\ proc[L[i - 1]].next = IF i - 1 < len THEN L[i - 1 + 1] ELSE Nil
            /\ proc[L[i - 1]].prev = IF i - 1 > 1 THEN L[i - 1 - 1] ELSE Nil
            /\ L[i - 1] = proclist <=> i - 1 = 1
        BY <4>1 DEF Ordered
      <4>3. proc'[M[i]].next = proc[L[i - 1]].next
        BY <1>3, <1>4, <4>1 DEF Proc
      <4>4. proc'[M[i]].prev = IF i - 1 = 1 THEN c ELSE proc[L[i - 1]].prev
        BY <1>3, <1>4, <4>1, <4>2 DEF Proc
      <4>5. i < len + 1 => M[i + 1] = L[i - 1 + 1]
        OBVIOUS
      <4>6. M[i - 1] = IF i - 1 = 1 THEN c ELSE L[i - 1 - 1]
        BY <3>2
      <4> QED
        BY <4>2, <4>3, <4>4, <4>5, <4>6, <3>2
    <3> QED
      BY <3>1, <3>2
  <2> HIDE DEF M
  <2> QED
    BY <2>3, <2>4, <2>5, <2>6, <2>7 DEF Ordered
<1>7. Linked'
  <2>1. M \in [1 .. len + 1 -> allocated']
    BY <1>6 DEF Ordered
  <2> HIDE DEF M
  <2> QED
    BY <1>6, <2>1 DEF Linked
<1>8. \A d \in allocated : proc'[d] = [proc[d] EXCEPT !.prev = proc'[d].prev]
  BY <1>3, <1>4 DEF Proc
<1> QED
  BY <1>5, <1>7, <1>8

\* Unlinking a cell, wherever on the list it is.
LEMMA LinkPast ==
  ASSUME TypeOK, Linked, Unlink, call.proc \in allocated
  PROVE  /\ Linked'
         /\ proc' \in [Cell -> Proc]
         /\ proclist' \in Pointer
         /\ \A d \in allocated' : /\ d # call.proc
                                  /\ proc'[d].pid = proc[d].pid
                                  /\ proc'[d].alive = proc[d].alive
                                  /\ proc'[d].status = proc[d].status
<1>1. PICK len \in Nat : \E L \in [1 .. len -> allocated] : Ordered(len, L)
  BY DEF Linked
<1> PICK L \in [1 .. len -> allocated] : Ordered(len, L)
  BY <1>1
<1> DEFINE c == call.proc
           next == proc[c].next
           prev == proc[c].prev
<1>2. allocated \subseteq Cell /\ Nil \notin Cell /\ allocated' = allocated \ {c}
  BY ProcsAssumption DEF TypeOK, Unlink
<1>3. PICK k \in 1 .. len : c = L[k]
  BY DEF Ordered
<1>4. \A i \in 1 .. len : L[i] \in allocated /\ L[i] # Nil /\ (L[i] = c <=> i = k)
  BY <1>2, <1>3 DEF Ordered
<1>5. /\ next = IF k < len THEN L[k + 1] ELSE Nil
      /\ prev = IF k > 1 THEN L[k - 1] ELSE Nil
  BY <1>3 DEF Ordered
<1>6. next \in Pointer /\ prev \in Pointer /\ \A d \in Cell : proc[d] \in Proc
  BY <1>2 DEF TypeOK, Proc
<1>7. ASSUME NEW d \in Cell, d # c
      PROVE /\ proc'[d] \in Proc
            /\ proc'[d].prev = IF d = next THEN prev ELSE proc[d].prev
            /\ proc'[d].next = IF d = prev THEN next ELSE proc[d].next
            /\ proc'[d].pid = proc[d].pid
            /\ proc'[d].alive = proc[d].alive
            /\ proc'[d].status = proc[d].status
  <2>1. proc'[d] = [proc[d] EXCEPT !.prev = IF d = next THEN prev ELSE @,
                                   !.next = IF d = prev THEN next ELSE @]
    BY <1>7 DEF Unlink
  <2> HIDE DEF next, prev
  <2> QED
    BY <1>6, <2>1 DEF Proc
<1>8. proc' \in [Cell -> Proc] /\ proclist' \in Pointer
  <2>1. Free \in Proc
    BY DEF Free, Proc, Pointer
  <2>2. proc' = [d \in Cell |-> proc'[d]] /\ proc'[c] = Free
    BY <1>2 DEF Unlink
  <2>3. \A d \in Cell : proc'[d] \in Proc
    BY <1>7, <2>1, <2>2
  <2>4. proclist' \in {proclist, next}
    BY DEF Unlink
  <2> QED
    BY <1>6, <2>2, <2>3, <2>4 DEF TypeOK
<1> DEFINE at(i) == IF i < k THEN i ELSE i + 1
           M == [i \in 1 .. len - 1 |-> L[at(i)]]
<1>9. len - 1 \in Nat /\ \A i \in 1 .. len - 1 : M[i] = L[at(i)] /\ at(i) \in 1 .. len /\ at(i) # k
  OBVIOUS
<1>10. Ordered(len - 1, M)'
  <2>1. M \in [1 .. len - 1 -> allocated']
    BY <1>2, <1>4, <1>9
  <2>2. \A i, j \in 1 .. len - 1 : M[i] = M[j] => i = j
    <3> SUFFICES ASSUME NEW i \in 1 .. len - 1, NEW j \in 1 .. len - 1, M[i] = M[j]
                 PROVE i = j
      OBVIOUS
    <3>1. L[at(i)] = L[at(j)] /\ at(i) \in 1 .. len /\ at(j) \in 1 .. len
      OBVIOUS
    <3>2. at(i) = at(j)
      <4> HIDE DEF at
      <4> QED
        BY <3>1 DEF Ordered
    <3> QED
      BY <3>2
  <2>3. ASSUME NEW d \in allocated' PROVE \E i \in 1 .. len - 1 : d = M[i]
    <3>1. PICK j \in 1 .. len : d = L[j]
      BY <1>2 DEF Ordered
    <3>2. j # k
      BY <1>2, <1>3, <3>1
    <3>3. CASE j < k
      BY <3>1, <3>3
    <3>4. CASE j > k
      <4>1. j - 1 \in 1 .. len - 1 /\ M[j - 1] = L[j]
        BY <3>4
      <4> QED
        BY <3>1, <4>1
    <3> QED
      BY <3>2, <3>3, <3>4
  <2>4. proclist' = IF len - 1 = 0 THEN Nil ELSE M[1]
    <3>1. proclist' = IF prev # Nil THEN proclist ELSE next
      BY DEF Unlink
    <3>2. proclist = L[1]
      BY DEF Ordered
    <3>3. CASE k = 1
      BY <1>5, <3>1, <3>3
    <3>4. CASE k > 1
      BY <1>4, <1>5, <3>1, <3>2, <3>4
    <3> QED
      BY <3>3, <3>4
  <2>5. ASSUME NEW i \in 1 .. len - 1
        PROVE /\ proc'[M[i]].next = IF i < len - 1 THEN M[i + 1] ELSE Nil
              /\ proc'[M[i]].prev = IF i > 1 THEN M[i - 1] ELSE Nil
    <3> DEFINE j == at(i)
    <3>1. /\ j \in 1 .. len /\ j # k /\ M[i] = L[j] /\ L[j] \in Cell /\ L[j] # c
          /\ L[j] = next <=> j = k + 1
          /\ L[j] = prev <=> j = k - 1
      <4>1. j \in 1 .. len /\ j # k /\ M[i] = L[j]
        BY <1>9
      <4> HIDE DEF j, M, next, prev
      <4>2. L[j] \in Cell /\ L[j] # c /\ L[j] # Nil
        BY <1>2, <1>4, <4>1
      <4>3. \A m \in 1 .. len : L[j] = L[m] <=> j = m
        BY <4>1 DEF Ordered
      <4>4. CASE k < len
        BY <1>5, <4>1, <4>2, <4>3, <4>4
      <4>5. CASE ~ (k < len)
        BY <1>5, <4>1, <4>2, <4>3, <4>5
      <4> QED
        BY <4>1, <4>2, <4>4, <4>5
    <3>2. /\ proc[L[j]].next = IF j < len THEN L[j + 1] ELSE Nil
          /\ proc[L[j]].prev = IF j > 1 THEN L[j - 1] ELSE Nil
      BY <3>1 DEF Ordered
    <3>3. /\ proc'[L[j]].next = IF j = k - 1 THEN next ELSE proc[L[j]].next
          /\ proc'[L[j]].prev = IF j = k + 1 THEN prev ELSE proc[L[j]].prev
      BY <1>7, <3>1
    <3>4. CASE i < k - 1
      BY <3>1, <3>2, <3>3, <3>4
    <3>5. CASE i = k - 1
      BY <1>5, <3>1, <3>2, <3>3, <3>5
    <3>6. CASE i = k
      BY <1>5, <3>1, <3>2, <3>3, <3>6
    <3>7. CASE i > k
      BY <3>1, <3>2, <3>3, <3>7
    <3> QED
      BY <3>4, <3>5, <3>6, <3>7
  <2> HIDE DEF M
  <2> QED
    BY <2>1, <2>2, <2>3, <2>4, <2>5 DEF Ordered
<1>11. Linked'
  <2>1. M \in [1 .. len - 1 -> allocated']
    BY <1>10 DEF Ordered
  <2> HIDE DEF M
  <2> QED
    BY <1>9, <1>10, <2>1 DEF Linked
<1> QED
  BY <1>2, <1>7, <1>8, <1>11

-----------------------------------------------------------------------------
(* The invariant.                                                          *)

LEMMA InitInv == ASSUME Init PROVE IInv
<1>1. TypeOK
  BY DEF Init, TypeOK, PC, Pointer, Proc, Free, NoCall, Call
<1>2. Linked
  <2> DEFINE L == [i \in 1 .. 0 |-> Nil]
  <2>1. L \in [1 .. 0 -> allocated] /\ Ordered(0, L)
    BY DEF Init, Ordered
  <2> HIDE DEF L
  <2> QED
    BY <2>1 DEF Linked
<1> QED
  BY <1>1, <1>2 DEF Init, IInv, Entries, Agreed, CallKnows, NoCall, Call

\* The facts about a step that leaves the list and what it says alone.
LEMMA ListUnchanged ==
  ASSUME IInv, UNCHANGED listVars
  PROVE  Linked' /\ (pc' # "assert" => Entries')
<1>1. Linked'
  BY LinksKept DEF IInv, listVars
<1>2. ASSUME pc' # "assert" PROVE Entries'
  BY <1>2 DEF IInv, Entries, listVars
<1> QED
  BY <1>1, <1>2

LEMMA ForkInv ==
  ASSUME IInv, ~ Recycle, NEW p \in Pid, NEW background \in BOOLEAN, Fork(p, background)
  PROVE  IInv' /\ \A q \in Pid : Entered(q)' <=> q = p \/ Entered(q)
<1>1. HasPid(p) = Nil /\ \A c \in allocated : proc[c].pid # p
  <2>1. Nil \notin allocated
    BY ProcsAssumption DEF IInv, TypeOK
  <2> QED
    BY <2>1, HasPidFacts DEF IInv, Fork
<1>2. /\ pc = "idle" /\ kernel[p] = "none"
      /\ kernel' = [kernel EXCEPT ![p] = "running"]
      /\ Fresh(p, background)
      /\ ending' = [ending EXCEPT ![p] = Junk]
      /\ result' = NoReport
      /\ UNCHANGED <<pc, call, signalled>>
  BY <1>1 DEF Fork
<1> DEFINE old == [pid |-> p, status |-> Junk, alive |-> TRUE,
                   background |-> background, next |-> proclist, prev |-> Nil]
<1>3. PICK c \in Cell \ allocated :
        Link(c, old) /\ allocated' = allocated \cup {c} /\ proclist' = c
  BY <1>2 DEF Fresh
<1>4. /\ Linked'
      /\ proc' \in [Cell -> Proc]
      /\ proc'[c] = old
      /\ \A d \in allocated : proc'[d] = [proc[d] EXCEPT !.prev = proc'[d].prev]
  <2>1. old \in Proc /\ old.next = proclist /\ old.prev = Nil
    BY DEF Proc, Pointer, IInv, TypeOK
  <2> HIDE DEF old
  <2> QED
    BY <1>3, <2>1, LinkFront DEF IInv
<1>5. \A d \in allocated : /\ d # c
                           /\ proc'[d].pid = proc[d].pid
                           /\ proc'[d].alive = proc[d].alive
                           /\ proc'[d].status = proc[d].status
  <2>1. \A d \in allocated : d # c /\ proc[d] \in Proc
    BY <1>3 DEF IInv, TypeOK
  <2> QED
    BY <1>4, <2>1 DEF Proc
<1>6. proc'[c].pid = p /\ proc'[c].alive
  BY <1>4
<1>7. TypeOK'
  BY <1>2, <1>3, <1>4 DEF IInv, TypeOK, Pointer
<1>8. Entries'
  BY <1>1, <1>2, <1>3, <1>5, <1>6 DEF IInv, Entries
<1>9. Agreed'
  <2>1. /\ kernel'[p] = "running"
        /\ \A q \in Pid : q # p => kernel'[q] = kernel[q] /\ ending'[q] = ending[q]
    BY <1>2 DEF IInv, TypeOK
  <2>2. \A d \in allocated : proc[d].pid \in Pid /\ proc[d].pid # p
    BY <1>1 DEF IInv, Entries
  <2>3. \A q \in Pid : kernel'[q] # "none" =>
          \E d \in allocated' : proc'[d].pid = q /\ proc'[d].alive
    BY <1>3, <1>5, <1>6, <2>1 DEF IInv, Agreed
  <2>4. \A d \in allocated' : ~ proc'[d].alive => kernel'[proc'[d].pid] = "none"
    BY <1>3, <1>5, <1>6, <2>1, <2>2 DEF IInv, Agreed
  <2>5. signalled' \/ \A d \in allocated' :
          IF proc'[d].alive
          THEN kernel'[proc'[d].pid] # "none" \/ (pc' = "taken" /\ proc'[d].pid = call'.deadpid)
          ELSE proc'[d].status = ending'[proc'[d].pid]
    BY <1>2, <1>3, <1>5, <1>6, <2>1, <2>2 DEF IInv, Agreed
  <2> QED
    BY <2>3, <2>4, <2>5 DEF Agreed
<1>10. CallKnows'
  BY <1>2 DEF IInv, CallKnows
<1>11. \A q \in Pid : Entered(q)' <=> q = p \/ Entered(q)
  BY <1>3, <1>5, <1>6 DEF Entered
<1> QED
  BY <1>4, <1>7, <1>8, <1>9, <1>10, <1>11 DEF IInv

LEMMA ExitInv ==
  ASSUME IInv, NEW p \in Pid, NEW s \in Status, Exit(p, s)
  PROVE  IInv'
<1>1. TypeOK'
  BY DEF IInv, TypeOK, Exit, listVars
<1>2. /\ kernel'[p] = "zombie" /\ kernel[p] = "running"
      /\ \A q \in Pid : q # p => kernel'[q] = kernel[q] /\ ending'[q] = ending[q]
  BY DEF IInv, TypeOK, Exit
<1>3. Linked' /\ Entries'
  BY ListUnchanged DEF IInv, Entries, Exit
<1>4. Agreed'
  BY <1>2 DEF IInv, Agreed, Entries, Exit, listVars
<1>5. CallKnows'
  BY <1>2 DEF IInv, CallKnows, Stored, Exit, listVars
<1> QED
  BY <1>1, <1>3, <1>4, <1>5 DEF IInv

LEMMA EwaitInv ==
  ASSUME IInv, NEW p \in Pid \cup {NoPid}, NEW intr \in BOOLEAN, Ewait(p, intr)
  PROVE  IInv'
<1>1. TypeOK'
  BY DEF IInv, TypeOK, Ewait, listVars, PC, Call, Pointer
<1>2. Linked' /\ Entries'
  BY ListUnchanged DEF IInv, Entries, Ewait
<1>3. Agreed'
  BY DEF IInv, Agreed, Ewait, listVars
<1>4. CallKnows'
  BY DEF IInv, CallKnows, Ewait, listVars, Call
<1> QED
  BY <1>1, <1>2, <1>3, <1>4 DEF IInv

LEMMA TopInv == ASSUME IInv, Top PROVE IInv'
<1> DEFINE c == First(Answers)
<1>1. \/ c = Nil /\ \A d \in allocated : ~ Answers(d)
      \/ c \in allocated /\ Answers(c)
  BY TopFacts DEF IInv
<1>2. allocated \subseteq Cell /\ Nil \notin Cell
  BY ProcsAssumption DEF IInv, TypeOK
<1> HIDE DEF c
<1>3. /\ pc = "top"
      /\ IF c = Nil /\ call.pid # NoPid
         THEN pc' = "idle" /\ call' = NoCall /\ result' = Failed(call.pid)
         ELSE /\ pc' = IF c # Nil /\ ~ proc[c].alive THEN "unlink" ELSE "wait3"
              /\ call' = [call EXCEPT !.proc = c]
              /\ UNCHANGED result
      /\ UNCHANGED <<kernel, ending, listVars, signalled>>
  BY DEF Top, c
<1>4. Linked' /\ Entries'
  BY <1>3, ListUnchanged
<1>5. Agreed'
  BY <1>3 DEF IInv, Agreed, listVars
<1>6. CASE c = Nil /\ call.pid # NoPid
  <2>1. TypeOK'
    <3>1. call' = Call(NoPid, FALSE) /\ result' = Failed(call.pid) /\ call.pid \in Pid \cup {NoPid}
      BY <1>3, <1>6 DEF IInv, TypeOK, NoCall
    <3>2. pc' \in PC /\ UNCHANGED <<kernel, ending, listVars, signalled>>
      BY <1>3, <1>6 DEF PC
    <3> QED
      BY <3>1, <3>2 DEF IInv, TypeOK, listVars, Call, Pointer
  <2>2. CallKnows'
    BY <1>3, <1>6 DEF CallKnows, NoCall, Call
  <2> QED
    BY <1>4, <1>5, <2>1, <2>2 DEF IInv
<1>7. CASE ~ (c = Nil /\ call.pid # NoPid)
  <2>1. TypeOK'
    BY <1>1, <1>2, <1>3, <1>7 DEF IInv, TypeOK, listVars, PC, Pointer
  <2>2. /\ call'.proc = c /\ call'.pid = call.pid /\ call'.seen_eintr = call.seen_eintr
        /\ pc' = IF c # Nil /\ ~ proc[c].alive THEN "unlink" ELSE "wait3"
        /\ UNCHANGED <<listVars, signalled>>
    BY <1>3, <1>7 DEF IInv, TypeOK
  <2>3. c # Nil /\ proc[c].alive => proc[c].pid = call.pid
    BY <1>1 DEF Answers
  <2>4. c = Nil => call.pid = NoPid /\ \A d \in allocated : proc[d].alive
    BY <1>1, <1>2, <1>7 DEF Answers
  <2>5. CallKnows'
    BY <1>1, <1>2, <2>2, <2>3, <2>4 DEF CallKnows, IInv, listVars
  <2> QED
    BY <1>4, <1>5, <2>1, <2>5 DEF IInv
<1> QED
  BY <1>6, <1>7

LEMMA TakeChildInv ==
  ASSUME IInv, NEW p \in Pid, TakeChild(p)
  PROVE  IInv' /\ \A q \in Pid : Entered(q)' <=> Entered(q)
<1>1. /\ pc = "wait3" /\ pc' = "taken"
      /\ kernel[p] = "zombie" /\ kernel'[p] = "none"
      /\ kernel' \in [Pid -> {"none", "running", "zombie"}]
      /\ \A q \in Pid : q # p => kernel'[q] = kernel[q]
      /\ call'.deadpid = p /\ call'.pid = call.pid /\ call'.proc = call.proc
      /\ call'.seen_eintr = call.seen_eintr
      /\ UNCHANGED <<ending, allocated, proclist, result, signalled>>
  BY DEF IInv, TypeOK, TakeChild
<1>2. \A c \in allocated : c \in Cell /\ proc[c] \in Proc
  BY DEF IInv, TypeOK
<1>3. /\ proc' \in [Cell -> Proc]
      /\ Stored' = ending[p]
      /\ \A c \in allocated : /\ proc'[c].pid = proc[c].pid
                              /\ proc'[c].alive = proc[c].alive
                              /\ proc'[c].next = proc[c].next
                              /\ proc'[c].prev = proc[c].prev
                              /\ ~ proc[c].alive => proc'[c].status = proc[c].status
  <2>1. ending[p] \in Status \cup {Junk}
    BY DEF IInv, TypeOK
  <2>2. CASE call.proc = Nil
    BY <1>1, <2>2 DEF IInv, TypeOK, TakeChild, Stored
  <2>3. CASE call.proc # Nil
    <3>1. call.proc \in allocated /\ proc[call.proc].alive
      BY <1>1, <2>3 DEF IInv, CallKnows
    <3>2. proc' = [proc EXCEPT ![call.proc] = [proc[call.proc] EXCEPT !.status = ending[p]]]
      BY <2>3 DEF TakeChild
    <3>3. [proc[call.proc] EXCEPT !.status = ending[p]] \in Proc
      BY <1>2, <2>1, <3>1 DEF Proc
    <3>4. proc'[call.proc].status = ending[p]
      BY <1>2, <3>1, <3>2 DEF IInv, TypeOK, Proc
    <3> QED
      BY <1>1, <1>2, <2>3, <3>1, <3>2, <3>3, <3>4 DEF IInv, TypeOK, Stored, Proc
  <2> QED
    BY <2>2, <2>3
<1>4. TypeOK'
  <2>1. call' \in [pid : Pid \cup {NoPid}, interruptible : BOOLEAN, proc : Pointer,
                   seen_eintr : BOOLEAN, status : Status \cup {Junk},
                   deadpid : Pid \cup {NoPid}]
    <3>1. CASE call' = [call EXCEPT !.deadpid = p, !.status = ending[p]]
      BY <3>1 DEF IInv, TypeOK
    <3>2. CASE call' = [call EXCEPT !.deadpid = p]
      BY <3>2 DEF IInv, TypeOK
    <3> QED
      BY <3>1, <3>2 DEF TakeChild
  <2> QED
    BY <1>1, <1>3, <2>1 DEF IInv, TypeOK, PC
<1>5. Linked'
  BY <1>1, <1>3, LinksKept DEF IInv
<1>6. Entries'
  BY <1>1, <1>3 DEF IInv, Entries
<1>7. PICK c \in allocated : proc[c].pid = p /\ proc[c].alive
  BY <1>1 DEF IInv, Agreed
<1>8. Agreed'
  <2>1. \A d \in allocated : proc[d].pid \in Pid
    BY DEF IInv, Entries
  <2> QED
    BY <1>1, <1>3, <2>1 DEF IInv, Agreed
<1>9. CallKnows'
  BY <1>1, <1>3, <1>7 DEF IInv, CallKnows
<1>10. \A q \in Pid : Entered(q)' <=> Entered(q)
  BY <1>1, <1>3 DEF Entered
<1> QED
  BY <1>4, <1>5, <1>6, <1>8, <1>9, <1>10 DEF IInv

LEMMA InterruptedInv == ASSUME IInv, Interrupted PROVE IInv'
<1>1. Linked' /\ Entries'
  BY ListUnchanged DEF Interrupted
<1>2. TypeOK'
  <2>1. CASE pc' = "wait3" /\ call' = [call EXCEPT !.seen_eintr = (call.proc # Nil), !.deadpid = NoPid]
    BY <2>1 DEF IInv, TypeOK, Interrupted, listVars, PC
  <2>2. CASE pc' = "idle" /\ call' = NoCall
    BY <2>2 DEF IInv, TypeOK, Interrupted, listVars, PC, NoCall, Call, Pointer
  <2> QED
    BY <2>1, <2>2 DEF Interrupted
<1>3. Agreed'
  BY DEF IInv, Agreed, Interrupted, listVars
<1>4. CallKnows'
  <2>1. CASE pc' = "wait3" /\ call' = [call EXCEPT !.seen_eintr = (call.proc # Nil), !.deadpid = NoPid]
    <3>1. call'.proc = call.proc /\ call'.pid = call.pid
      BY <2>1 DEF IInv, TypeOK
    <3> QED
      BY <2>1, <3>1 DEF IInv, CallKnows, Interrupted, listVars
  <2>2. CASE pc' = "idle" /\ call' = NoCall
    BY <2>2 DEF CallKnows, NoCall, Call
  <2> QED
    BY <2>1, <2>2 DEF Interrupted
<1> QED
  BY <1>1, <1>2, <1>3, <1>4 DEF IInv

\* A child's entry is marked dead, and with the status it ended with.
LEMMA MarkDead ==
  ASSUME IInv, NEW c \in allocated, NEW s \in Status \cup {Junk},
         proc' = [proc EXCEPT ![c] = [proc[c] EXCEPT !.alive = FALSE, !.status = s]],
         kernel[proc[c].pid] = "none",
         signalled \/ s = ending[proc[c].pid],
         signalled \/ (pc = "taken" => proc[c].pid = call.deadpid),
         pc' # "assert", pc' # "taken",
         UNCHANGED <<kernel, ending, allocated, proclist, signalled>>
  PROVE  /\ proc' \in [Cell -> Proc]
         /\ Linked' /\ Entries' /\ Agreed'
         /\ ~ proc'[c].alive /\ proc'[c].pid = proc[c].pid
         /\ \A d \in allocated : d # c => proc'[d] = proc[d]
         /\ \A q \in Pid : Entered(q)' <=> Entered(q)
<1>1. \A d \in allocated : d \in Cell /\ proc[d] \in Proc
  BY DEF IInv, TypeOK
<1>3. [proc[c] EXCEPT !.alive = FALSE, !.status = s] \in Proc
  BY <1>1 DEF Proc
<1>4. proc' \in [Cell -> Proc] /\ \A d \in allocated : d # c => proc'[d] = proc[d]
  BY <1>1, <1>3 DEF IInv, TypeOK
<1>5. /\ proc'[c].pid = proc[c].pid
      /\ ~ proc'[c].alive /\ proc'[c].status = s
      /\ proc'[c].next = proc[c].next /\ proc'[c].prev = proc[c].prev
  BY <1>1 DEF IInv, TypeOK, Proc
<1>6. Linked'
  BY <1>4, <1>5, LinksKept DEF IInv
<1>7. Entries'
  BY <1>4, <1>5 DEF IInv, Entries
<1>8. Agreed'
  <2>1. \A d \in allocated : d # c => proc[d].pid \in Pid /\ proc[d].pid # proc[c].pid
    BY DEF IInv, Entries
  <2>2. \A q \in Pid : kernel'[q] # "none" =>
          \E d \in allocated' : proc'[d].pid = q /\ proc'[d].alive
    <3> SUFFICES ASSUME NEW q \in Pid, kernel[q] # "none"
                 PROVE \E d \in allocated : proc'[d].pid = q /\ proc'[d].alive
      OBVIOUS
    <3>1. PICK d \in allocated : proc[d].pid = q /\ proc[d].alive
      BY DEF IInv, Agreed
    <3> QED
      BY <1>4, <3>1
  <2> QED
    BY <1>4, <1>5, <2>1, <2>2 DEF IInv, Agreed
<1>9. \A q \in Pid : Entered(q)' <=> Entered(q)
  BY <1>4, <1>5 DEF Entered
<1> QED
  BY <1>4, <1>5, <1>6, <1>7, <1>8, <1>9

LEMMA NoChildrenInv ==
  ASSUME IInv, NoChildren
  PROVE  IInv' /\ \A q \in Pid : Entered(q)' <=> Entered(q)
<1>1. \A c \in allocated : c \in Cell /\ proc[c] \in Proc
  BY DEF IInv, TypeOK
<1>2. CASE call.proc # Nil /\ call.seen_eintr
  <2> DEFINE c == call.proc
             s == proc[c].status
  <2>1. c \in allocated /\ signalled
    BY <1>2 DEF IInv, CallKnows, NoChildren
  <2>2. s \in Status \cup {Junk}
    BY <1>1, <2>1 DEF Proc
  <2>3. proc' = [proc EXCEPT ![c] = [proc[c] EXCEPT !.alive = FALSE, !.status = s]]
    <3>1. proc' = [proc EXCEPT ![c] = [proc[c] EXCEPT !.alive = FALSE]]
      BY <1>2 DEF NoChildren
    <3>2. [proc[c] EXCEPT !.alive = FALSE] = [proc[c] EXCEPT !.alive = FALSE, !.status = s]
      BY <1>1, <2>1 DEF Proc
    <3> QED
      BY <3>1, <3>2
  <2>4. pc' = "unlink" /\ UNCHANGED <<kernel, ending, allocated, proclist, signalled, call, result>>
    BY <1>2 DEF NoChildren
  <2>5. kernel[proc[c].pid] = "none"
    BY <2>1 DEF IInv, Entries, NoChildren
  <2>6. /\ proc' \in [Cell -> Proc]
        /\ Linked' /\ Entries' /\ Agreed'
        /\ ~ proc'[c].alive
        /\ \A q \in Pid : Entered(q)' <=> Entered(q)
    <3> HIDE DEF c, s
    <3> QED
      BY <2>1, <2>2, <2>3, <2>4, <2>5, MarkDead
  <2>7. TypeOK'
    BY <2>4, <2>6 DEF IInv, TypeOK, PC
  <2>8. CallKnows'
    BY <2>1, <2>4, <2>6 DEF IInv, CallKnows
  <2> QED
    BY <2>6, <2>7, <2>8 DEF IInv
<1>3. CASE ~ (call.proc # Nil /\ call.seen_eintr)
  <2>1. /\ pc' = "idle" /\ call' = Call(NoPid, FALSE) /\ result' = Failed(call.pid)
        /\ UNCHANGED <<kernel, ending, listVars, signalled>>
        /\ call.pid \in Pid \cup {NoPid} /\ pc = "wait3"
    BY <1>3 DEF NoChildren, listVars, NoCall, IInv, TypeOK
  <2>2. Linked' /\ Entries'
    BY <2>1, ListUnchanged
  <2>3. TypeOK'
    BY <2>1 DEF IInv, TypeOK, listVars, PC, Call, Pointer
  <2>4. Agreed'
    BY <2>1 DEF IInv, Agreed, listVars
  <2>5. CallKnows'
    BY <2>1 DEF CallKnows, Call
  <2>6. \A q \in Pid : Entered(q)' <=> Entered(q)
    BY <2>1 DEF Entered, listVars
  <2> QED
    BY <2>2, <2>3, <2>4, <2>5, <2>6 DEF IInv
<1> QED
  BY <1>2, <1>3

LEMMA TakenInv ==
  ASSUME IInv, Taken
  PROVE  IInv' /\ \A q \in Pid : Entered(q)' <=> Entered(q)
<1> DEFINE c == HasPid(call.deadpid)
<1>1. /\ c \in allocated
      /\ proc[c].pid = call.deadpid
      /\ proc[c].alive
      /\ kernel[call.deadpid] = "none"
      /\ call.deadpid \in Pid
      /\ signalled \/ Stored = ending[call.deadpid]
  <2>1. PICK d \in allocated : proc[d].pid = call.deadpid /\ proc[d].alive
    BY DEF IInv, CallKnows, Taken
  <2>2. c \in allocated /\ proc[c].pid = call.deadpid
    BY <2>1, HasPidFacts DEF IInv
  <2>3. c = d
    BY <2>1, <2>2 DEF IInv, Entries
  <2> QED
    BY <2>1, <2>2, <2>3 DEF IInv, CallKnows, Taken
<1>2. \A d \in allocated : d \in Cell /\ proc[d] \in Proc /\ d # Nil
  BY ProcsAssumption DEF IInv, TypeOK
<1>3. /\ call' \in [pid : Pid \cup {NoPid}, interruptible : BOOLEAN, proc : Pointer,
                    seen_eintr : BOOLEAN, status : Status \cup {Junk},
                    deadpid : Pid \cup {NoPid}]
      /\ call'.proc = call.proc /\ call'.seen_eintr = call.seen_eintr
      /\ call.proc # Nil => call'.pid = call.pid
  <2>1. call' = [call EXCEPT !.deadpid = NoPid, !.status = Junk,
                             !.pid = IF call.proc = Nil THEN call.deadpid ELSE call.pid]
    BY DEF Taken, Answered, IInv, TypeOK
  <2> QED
    BY <2>1 DEF IInv, TypeOK
<1>4. /\ Stored \in Status \cup {Junk}
      /\ call.proc # Nil => /\ call.proc \in allocated
                            /\ proc[call.proc].alive
                            /\ proc[call.proc].pid = call.pid
  BY <1>2 DEF IInv, TypeOK, CallKnows, Taken, Stored, Proc
<1>5. pc = "taken" /\ UNCHANGED <<kernel, ending, allocated, proclist, result, signalled>>
  BY DEF Taken
<1>6. /\ proc' = [proc EXCEPT ![c] = [proc[c] EXCEPT !.alive = FALSE, !.status = Stored]]
      /\ pc' = IF call.proc = Nil THEN "top"
               ELSE IF call.deadpid = call.pid THEN "unlink" ELSE "wait3"
  <2>1. CASE call.proc # Nil /\ call.deadpid = call.pid
    <3>1. call.proc = c
      BY <1>1, <1>4, <2>1 DEF IInv, Entries
    <3>2. proc' = [proc EXCEPT ![c] = [proc[c] EXCEPT !.alive = FALSE]] /\ pc' = "unlink"
      BY <2>1, <3>1 DEF Taken
    <3>3. Stored = proc[c].status
      BY <2>1, <3>1 DEF Stored
    <3>4. [proc[c] EXCEPT !.alive = FALSE] = [proc[c] EXCEPT !.alive = FALSE, !.status = Stored]
      <4> HIDE DEF c
      <4> QED
        BY <1>1, <1>2, <3>3 DEF Proc
    <3> QED
      BY <2>1, <3>2, <3>4
  <2>2. CASE ~ (call.proc # Nil /\ call.deadpid = call.pid)
    <3>1. reap(Stored)
      BY <2>2 DEF Taken, Stored
    <3> HIDE DEF c
    <3>2. /\ proc' = [proc EXCEPT ![c].alive = FALSE, ![c].status = Stored]
          /\ pc' = IF call.proc = Nil THEN "top" ELSE "wait3"
      BY <1>1, <1>2, <3>1 DEF reap, c
    <3>3. proc' = [proc EXCEPT ![c] = [proc[c] EXCEPT !.alive = FALSE, !.status = Stored]]
      BY <1>1, <1>2, <3>2 DEF IInv, TypeOK
    <3> QED
      BY <2>2, <3>2, <3>3
  <2> QED
    BY <2>1, <2>2
<1> HIDE DEF c
<1>7. pc' \in {"top", "unlink", "wait3"}
  BY <1>6
<1>8. /\ proc' \in [Cell -> Proc]
      /\ Linked' /\ Entries' /\ Agreed'
      /\ ~ proc'[c].alive /\ proc'[c].pid = proc[c].pid
      /\ \A d \in allocated : d # c => proc'[d] = proc[d]
      /\ \A q \in Pid : Entered(q)' <=> Entered(q)
  BY <1>1, <1>4, <1>5, <1>6, <1>7, MarkDead
<1>9. TypeOK'
  BY <1>3, <1>5, <1>7, <1>8 DEF IInv, TypeOK, PC
<1>10. CallKnows'
  <2>1. CASE call.proc = Nil
    BY <1>3, <1>5, <1>6, <2>1 DEF IInv, CallKnows
  <2>2. CASE call.proc # Nil /\ call.deadpid = call.pid
    <3>1. call.proc = c
      BY <1>1, <1>4, <2>2 DEF IInv, Entries
    <3> QED
      BY <1>1, <1>3, <1>5, <1>6, <1>8, <2>2, <3>1 DEF IInv, CallKnows
  <2>3. CASE call.proc # Nil /\ call.deadpid # call.pid
    <3>1. call.proc # c
      BY <1>1, <1>4, <2>3
    <3> QED
      BY <1>3, <1>4, <1>5, <1>6, <1>8, <2>3, <3>1 DEF IInv, CallKnows
  <2> QED
    BY <2>1, <2>2, <2>3
<1> QED
  BY <1>8, <1>9, <1>10 DEF IInv

LEMMA UnlinkInv ==
  ASSUME IInv, Unlink
  PROVE  IInv' /\ \A q \in Pid : Entered(q)' <=> Entered(q) /\ q # proc[call.proc].pid
<1>1. call.proc \in allocated /\ ~ proc[call.proc].alive /\ call.proc \in Cell
  BY DEF IInv, CallKnows, Unlink, TypeOK
<1>2. /\ Linked'
      /\ proc' \in [Cell -> Proc]
      /\ proclist' \in Pointer
      /\ \A d \in allocated' :
           /\ d # call.proc
           /\ proc'[d].pid = proc[d].pid
           /\ proc'[d].alive = proc[d].alive
           /\ proc'[d].status = proc[d].status
  BY <1>1, LinkPast DEF IInv
<1>3. /\ pc = "unlink" /\ pc' = "idle" /\ call' = Call(NoPid, FALSE)
      /\ result' = [pid |-> proc[call.proc].pid, status |-> proc[call.proc].status]
      /\ allocated' = allocated \ {call.proc}
      /\ UNCHANGED <<kernel, ending, signalled>>
  BY DEF Unlink, NoCall
<1>4. TypeOK'
  <2>1. result' \in [pid : Pid, status : Status \cup {Junk}]
    <3>1. proc[call.proc].pid \in Pid
      BY <1>1 DEF IInv, Entries
    <3>2. proc[call.proc].status \in Status \cup {Junk}
      BY <1>1 DEF IInv, TypeOK, Proc
    <3> QED
      BY <1>3, <3>1, <3>2
  <2>2. call' \in [pid : Pid \cup {NoPid}, interruptible : BOOLEAN, proc : Pointer,
                   seen_eintr : BOOLEAN, status : Status \cup {Junk},
                   deadpid : Pid \cup {NoPid}]
    BY <1>3 DEF Call, Pointer
  <2>3. pc' \in PC
    BY <1>3 DEF PC
  <2> QED
    BY <1>2, <1>3, <2>1, <2>2, <2>3 DEF IInv, TypeOK
<1>5. Entries'
  BY <1>2, <1>3 DEF IInv, Entries
<1>6. Agreed'
  <2>1. ASSUME NEW p \in Pid, kernel[p] # "none"
        PROVE  \E d \in allocated' : proc'[d].pid = p /\ proc'[d].alive
    <3>1. PICK d \in allocated : proc[d].pid = p /\ proc[d].alive
      BY <2>1 DEF IInv, Agreed
    <3>2. d \in allocated'
      BY <1>1, <1>3, <3>1
    <3> QED
      BY <1>2, <3>1, <3>2
  <2>2. \A d \in allocated' : d \in allocated
    BY <1>3
  <2> QED
    BY <1>2, <1>3, <2>1, <2>2 DEF IInv, Agreed
<1>7. CallKnows'
  BY <1>3 DEF CallKnows, Call
<1>8. \A q \in Pid : Entered(q)' <=> Entered(q) /\ q # proc[call.proc].pid
  <2>1. \A d \in allocated : d # call.proc => proc[d].pid # proc[call.proc].pid
    BY <1>1 DEF IInv, Entries
  <2> QED
    BY <1>1, <1>2, <1>3, <2>1 DEF Entered
<1> QED
  BY <1>2, <1>4, <1>5, <1>6, <1>7, <1>8 DEF IInv

LEMMA StepInv == ASSUME IInv, ~ Recycle, [Next]_vars PROVE IInv'
<1>1. ASSUME NEW p \in Pid, NEW background \in BOOLEAN, Fork(p, background) PROVE IInv'
  BY <1>1, ForkInv
<1>2. ASSUME NEW p \in Pid, NEW s \in Status, Exit(p, s) PROVE IInv'
  BY <1>2, ExitInv
<1>3. ASSUME NEW p \in Pid \cup {NoPid}, NEW intr \in BOOLEAN, Ewait(p, intr) PROVE IInv'
  BY <1>3, EwaitInv
<1>4. ASSUME NEW p \in Pid, TakeChild(p) PROVE IInv'
  BY <1>4, TakeChildInv
<1>5. CASE Top
  BY <1>5, TopInv
<1>6. CASE NoChildren
  BY <1>6, NoChildrenInv
<1>7. CASE Taken
  BY <1>7, TakenInv
<1>8. CASE Unlink
  BY <1>8, UnlinkInv
<1>9. CASE Interrupted
  BY <1>9, InterruptedInv
<1>10. CASE UNCHANGED vars
  <2>1. UNCHANGED listVars
    BY <1>10 DEF vars, listVars
  <2>2. Linked' /\ Entries'
    BY <1>10, <2>1, ListUnchanged DEF vars, IInv, Entries
  <2>3. TypeOK' /\ Agreed' /\ CallKnows'
    BY <1>10 DEF vars, IInv, TypeOK, Agreed, CallKnows, Stored
  <2> QED
    BY <2>2, <2>3 DEF IInv
<1> QED
  BY <1>1, <1>2, <1>3, <1>4, <1>5, <1>6, <1>7, <1>8, <1>9, <1>10 DEF Next, Waiting

\* The inductive invariant holds as long as the kernel gives out no pid that
\* is still listed.
THEOREM Invariance == ASSUME ~ Recycle PROVE Spec => []IInv
<1>1. Init => IInv
  BY InitInv
<1>2. IInv /\ [Next]_vars => IInv'
  BY StepInv
<1> QED
  BY <1>1, <1>2, PTL DEF Spec

\* The list holds exactly the allocated cells, once each, every one's prev is
\* the cell before it, a child has one entry, and no assertion of mkproc and
\* reap fails. (proc.c: mkproc, efork, ewait)
THEOREM ListIsAlwaysSound == ASSUME ~ Recycle PROVE Spec => []ListIsSound
<1>1. IInv => ListIsSound
  <2> SUFFICES ASSUME IInv PROVE ListIsSound
    OBVIOUS
  <2>1. Listed = allocated
    BY ListedFacts DEF IInv
  <2>2. PICK len \in Nat : \E L \in [1 .. len -> allocated] : Ordered(len, L)
    BY DEF IInv, Linked
  <2> PICK L \in [1 .. len -> allocated] : Ordered(len, L)
    BY <2>2
  <2>3. proclist # Nil => proc[proclist].prev = Nil
    BY DEF Ordered
  <2>4. ASSUME NEW c \in allocated, proc[c].next # Nil PROVE proc[proc[c].next].prev = c
    <3>1. PICK i \in 1 .. len : c = L[i]
      BY DEF Ordered
    <3>2. i < len /\ proc[c].next = L[i + 1]
      BY <2>4, <3>1 DEF Ordered
    <3>3. i + 1 \in 1 .. len /\ i + 1 > 1 /\ (i + 1) - 1 = i
      BY <3>2
    <3> QED
      BY <3>1, <3>2, <3>3 DEF Ordered
  <2> QED
    BY <2>1, <2>3, <2>4 DEF IInv, ListIsSound, Entries
<1> QED
  BY <1>1, Invariance, PTL

\* A child that has to be waited for is listed as alive, one that is taken for
\* dead has ended, and what $&apids lists are children, unless a signal has
\* interrupted a wait. (proc.c: ewait, reap, apids)
THEOREM ListAlwaysMatches == ASSUME ~ Recycle PROVE Spec => []ListMatchesKernel
<1>1. IInv => ListMatchesKernel
  <2> SUFFICES ASSUME IInv PROVE ListMatchesKernel
    OBVIOUS
  <2>1. Listed = allocated
    BY ListedFacts DEF IInv
  <2>2. ASSUME NEW p \in Pid, kernel[p] # "none"
        PROVE  HasPid(p) # Nil /\ proc[HasPid(p)].alive
    <3>1. PICK c \in allocated : proc[c].pid = p /\ proc[c].alive
      BY <2>2 DEF IInv, Agreed
    <3>2. HasPid(p) \in allocated /\ proc[HasPid(p)].pid = p
      BY <3>1, HasPidFacts DEF IInv
    <3>3. HasPid(p) = c
      BY <3>1, <3>2 DEF IInv, Entries
    <3>4. c # Nil
      BY ProcsAssumption DEF IInv, TypeOK
    <3> QED
      BY <3>1, <3>3, <3>4
  <2>3. ASSUME pc = "idle", ~ signalled, NEW p \in apids PROVE kernel[p] # "none"
    <3>1. PICK c \in allocated : proc[c].alive /\ p = proc[c].pid
      BY <2>1, <2>3 DEF apids
    <3> QED
      BY <2>3, <3>1 DEF IInv, Agreed
  <2> QED
    BY <2>1, <2>2, <2>3 DEF ListMatchesKernel, IInv, Agreed
<1> QED
  BY <1>1, Invariance, PTL

-----------------------------------------------------------------------------
(* The list implements Children.                                           *)

\* The walk finds the entries there are.
EntriesFound == \A p \in Pid : HasPid(p) # Nil <=> Entered(p)

LEMMA FoundEntries == ASSUME IInv PROVE EntriesFound
<1> SUFFICES ASSUME NEW p \in Pid PROVE HasPid(p) # Nil <=> Entered(p)
  BY DEF EntriesFound
<1>1. Nil \notin allocated
  BY ProcsAssumption DEF IInv, TypeOK
<1> QED
  BY <1>1, HasPidFacts DEF Entered, IInv

\* The abstract state of a child.
State(p) == IF kernel[p] = "running" THEN "running"
            ELSE IF HasPid(p) # Nil THEN "ended" ELSE "none"

LEMMA InitAbs == ASSUME Init PROVE Abstract!AbsInit
<1>1. EntriesFound
  BY InitInv, FoundEntries
<1>2. \A p \in Pid : HasPid(p) = Nil /\ kernel[p] = "none"
  BY <1>1 DEF Init, EntriesFound, Entered
<1> QED
  BY <1>2 DEF Init, Abstract!AbsInit, NoReport, Abstract!NoReport

LEMMA ForkAbs ==
  ASSUME IInv, EntriesFound, EntriesFound', ~ Recycle,
         NEW p \in Pid, NEW background \in BOOLEAN, Fork(p, background)
  PROVE  Abstract!Start(p)
<1>1. /\ HasPid(p) = Nil /\ kernel[p] = "none" /\ kernel' = [kernel EXCEPT ![p] = "running"]
      /\ ending' = [ending EXCEPT ![p] = Junk] /\ result' = NoReport /\ signalled' = signalled
  BY DEF Fork
<1>2. State(p) = "none" /\ State(p)' = "running"
  BY <1>1 DEF State, IInv, TypeOK
<1>3. \A q \in Pid : q # p => State(q)' = State(q)
  <2>1. \A q \in Pid : Entered(q)' <=> q = p \/ Entered(q)
    BY ForkInv
  <2> QED
    BY <1>1, <2>1 DEF State, EntriesFound, IInv, TypeOK
<1>4. [q \in Pid |-> State(q)'] = [[q \in Pid |-> State(q)] EXCEPT ![p] = "running"]
  BY <1>2, <1>3
<1> QED
  BY <1>1, <1>2, <1>4 DEF Abstract!Start, State, NoReport, Abstract!NoReport

LEMMA ExitAbs ==
  ASSUME IInv, EntriesFound, EntriesFound',
         NEW p \in Pid, NEW s \in Status, Exit(p, s)
  PROVE  Abstract!End(p, s)
<1>1. /\ kernel[p] = "running" /\ kernel' = [kernel EXCEPT ![p] = "zombie"]
      /\ ending' = [ending EXCEPT ![p] = s] /\ result' = NoReport /\ signalled' = signalled
  BY DEF Exit
<1>2. Entered(p) /\ \A q \in Pid : Entered(q)' <=> Entered(q)
  BY <1>1 DEF Entered, IInv, Agreed, Exit, listVars
<1>3. State(p) = "running" /\ State(p)' = "ended"
  BY <1>1, <1>2 DEF State, EntriesFound, IInv, TypeOK
<1>4. \A q \in Pid : q # p => State(q)' = State(q)
  BY <1>1, <1>2 DEF State, EntriesFound, IInv, TypeOK
<1>5. [q \in Pid |-> State(q)'] = [[q \in Pid |-> State(q)] EXCEPT ![p] = "ended"]
  BY <1>3, <1>4
<1> QED
  BY <1>1, <1>3, <1>5 DEF Abstract!End, State, NoReport, Abstract!NoReport

\* A step that neither starts nor ends a child, nor takes its entry.
StatesKept == [q \in Pid |-> State(q)]' = [q \in Pid |-> State(q)]

LEMMA KeptStates ==
  ASSUME EntriesFound, EntriesFound',
         \A q \in Pid : kernel'[q] = "running" <=> kernel[q] = "running",
         \A q \in Pid : Entered(q)' <=> Entered(q)
  PROVE  StatesKept
<1>1. \A q \in Pid : State(q)' = State(q)
  BY DEF EntriesFound, State
<1> QED
  BY <1>1 DEF StatesKept

LEMMA ListKept ==
  ASSUME EntriesFound, EntriesFound', UNCHANGED <<kernel, listVars>>
  PROVE  StatesKept
BY KeptStates DEF Entered, listVars

LEMMA TopAbs ==
  ASSUME IInv, EntriesFound, EntriesFound', Top
  PROVE  \/ \E p \in Pid \cup {NoPid} : Abstract!Fail(p)
         \/ UNCHANGED Abstract!absVars
<1>1. StatesKept /\ UNCHANGED <<ending, signalled>>
  BY ListKept DEF Top
<1>2. CASE result' = result
  BY <1>1, <1>2 DEF Abstract!absVars, StatesKept, State
<1>3. CASE result' # result
  <2>1. First(Answers) = Nil /\ call.pid # NoPid /\ result' = Failed(call.pid)
    BY <1>3 DEF Top
  <2>2. \A d \in allocated : ~ Answers(d)
    <3>1. Nil \notin allocated
      BY ProcsAssumption DEF IInv, TypeOK
    <3> QED
      BY <2>1, <3>1, TopFacts DEF IInv
  <2>3. call.pid \in Pid /\ ~ Entered(call.pid)
    BY <2>1, <2>2 DEF IInv, TypeOK, Answers, Entered
  <2>4. State(call.pid) = "none"
    BY <2>3 DEF State, EntriesFound, IInv, Agreed, Entered
  <2>5. Abstract!Fail(call.pid)
    BY <1>1, <2>1, <2>3, <2>4
    DEF Abstract!Fail, StatesKept, State, Failed, Abstract!Failed, Abstract!NoPid, NoPid
  <2> QED
    BY <2>3, <2>5
<1> QED
  BY <1>2, <1>3

LEMMA NoChildrenAbs ==
  ASSUME IInv, EntriesFound, EntriesFound', NoChildren
  PROVE  \/ \E p \in Pid \cup {NoPid} : Abstract!Fail(p)
         \/ UNCHANGED Abstract!absVars
<1>1. StatesKept /\ UNCHANGED <<ending, signalled>>
  BY KeptStates, NoChildrenInv DEF NoChildren
<1>2. CASE call.proc # Nil /\ call.seen_eintr
  BY <1>1, <1>2 DEF NoChildren, Abstract!absVars, StatesKept, State
<1>3. CASE ~ (call.proc # Nil /\ call.seen_eintr)
  <2>1. call.pid \in Pid \cup {NoPid} /\ result' = Failed(call.pid) /\ pc = "wait3"
    BY <1>3 DEF NoChildren, IInv, TypeOK
  <2>2. \A p \in Pid : kernel[p] = "none"
    BY DEF NoChildren
  <2>3. signalled \/ allocated = {}
    <3> SUFFICES ASSUME ~ signalled, NEW c \in allocated PROVE FALSE
      OBVIOUS
    <3>1. ~ proc[c].alive
      BY <2>1, <2>2 DEF IInv, Agreed, Entries
    <3>2. call.proc # Nil
      BY <2>1, <3>1 DEF IInv, CallKnows
    <3>3. call.proc \in allocated /\ proc[call.proc].alive
      BY <2>1, <3>2 DEF IInv, CallKnows
    <3> QED
      BY <2>1, <2>2, <3>3 DEF IInv, Agreed, Entries
  <2>4. signalled \/ \A p \in Pid : State(p) = "none"
    BY <2>2, <2>3 DEF State, EntriesFound, Entered
  <2>5. Abstract!Fail(call.pid)
    BY <1>1, <2>1, <2>4
    DEF Abstract!Fail, StatesKept, State, Failed, Abstract!Failed, Abstract!NoPid, NoPid
  <2> QED
    BY <2>1, <2>5
<1> QED
  BY <1>2, <1>3

LEMMA UnlinkAbs ==
  ASSUME IInv, EntriesFound, EntriesFound', Unlink
  PROVE  \E p \in Pid, s \in Status \cup {Junk} : Abstract!Report(p, s)
<1> DEFINE c == call.proc
<1>1. c \in allocated /\ ~ proc[c].alive
  BY DEF IInv, CallKnows, Unlink
<1>2. proc[c].pid \in Pid /\ proc[c].status \in Status \cup {Junk}
  BY <1>1 DEF IInv, Entries, TypeOK, Proc
<1> PICK p \in Pid, s \in Status \cup {Junk} : p = proc[c].pid /\ s = proc[c].status
  BY <1>2
<1>3. kernel[p] = "none" /\ (signalled \/ s = ending[p])
  BY <1>1 DEF IInv, Agreed
<1>4. result' = [pid |-> p, status |-> s] /\ UNCHANGED <<kernel, ending, signalled>>
  BY DEF Unlink
<1>5. Entered(p) /\ \A q \in Pid : Entered(q)' <=> Entered(q) /\ q # p
  BY <1>1, UnlinkInv DEF Entered
<1>6. State(p) = "ended" /\ State(p)' = "none"
  BY <1>3, <1>4, <1>5 DEF State, EntriesFound
<1>7. \A q \in Pid : q # p => State(q)' = State(q)
  BY <1>4, <1>5 DEF State, EntriesFound
<1>8. [q \in Pid |-> State(q)'] = [[q \in Pid |-> State(q)] EXCEPT ![p] = "none"]
  BY <1>6, <1>7
<1>9. Abstract!Report(p, s)
  BY <1>3, <1>4, <1>6, <1>8 DEF Abstract!Report, State
<1> QED
  BY <1>9

LEMMA StepAbs ==
  ASSUME IInv, EntriesFound, EntriesFound', ~ Recycle, [Next]_vars
  PROVE  [Abstract!AbsNext]_(Abstract!absVars)
<1>1. ASSUME NEW p \in Pid, NEW background \in BOOLEAN, Fork(p, background)
      PROVE  Abstract!AbsNext
  BY <1>1, ForkAbs DEF Abstract!AbsNext
<1>2. ASSUME NEW p \in Pid, NEW s \in Status, Exit(p, s) PROVE Abstract!AbsNext
  BY <1>2, ExitAbs DEF Abstract!AbsNext
<1>3. ASSUME NEW p \in Pid \cup {NoPid}, NEW intr \in BOOLEAN, Ewait(p, intr)
      PROVE  Abstract!AbsNext
  <2>1. StatesKept /\ UNCHANGED <<ending, signalled>> /\ result' = NoReport
    BY <1>3, ListKept DEF Ewait
  <2>2. Abstract!AskFor
    BY <2>1 DEF Abstract!AskFor, StatesKept, State, NoReport, Abstract!NoReport
  <2> QED
    BY <2>2 DEF Abstract!AbsNext
<1>4. ASSUME NEW p \in Pid, TakeChild(p) PROVE UNCHANGED Abstract!absVars
  <2>1. \A q \in Pid : kernel'[q] = "running" <=> kernel[q] = "running"
    BY <1>4 DEF TakeChild, IInv, TypeOK
  <2>2. StatesKept /\ UNCHANGED <<ending, signalled, result>>
    BY <1>4, <2>1, KeptStates, TakeChildInv DEF TakeChild
  <2> QED
    BY <2>2 DEF Abstract!absVars, StatesKept, State
<1>5. CASE Top
  BY <1>5, TopAbs DEF Abstract!AbsNext, NoPid, Abstract!NoPid
<1>6. CASE NoChildren
  BY <1>6, NoChildrenAbs DEF Abstract!AbsNext, NoPid, Abstract!NoPid
<1>7. CASE Taken
  <2>1. StatesKept /\ UNCHANGED <<ending, signalled, result>>
    BY <1>7, KeptStates, TakenInv DEF Taken
  <2> QED
    BY <2>1 DEF Abstract!absVars, StatesKept, State
<1>8. CASE Unlink
  BY <1>8, UnlinkAbs DEF Abstract!AbsNext
<1>9. CASE Interrupted
  <2>1. StatesKept /\ UNCHANGED <<ending, result>> /\ signalled' = TRUE
    BY <1>9, ListKept DEF Interrupted
  <2>2. Abstract!Signal
    BY <2>1 DEF Abstract!Signal, StatesKept, State
  <2> QED
    BY <2>2 DEF Abstract!AbsNext
<1>10. CASE UNCHANGED vars
  <2>1. StatesKept
    BY <1>10, ListKept DEF vars, listVars
  <2> QED
    BY <1>10, <2>1 DEF vars, Abstract!absVars, StatesKept, State
<1> QED
  BY <1>1, <1>2, <1>3, <1>4, <1>5, <1>6, <1>7, <1>8, <1>9, <1>10 DEF Next, Waiting

\* ewait reports each child once, after it has ended, and with its own status
\* if no signal has interrupted a wait; it fails only for want of a child.
\* (proc.c: "ewait -- wait for a specific process to die")
THEOREM ChildrenImplemented == ASSUME ~ Recycle PROVE Spec => Refines
<1>1. Init => Abstract!AbsInit
  BY InitAbs
<1>2. IInv => EntriesFound
  BY FoundEntries
<1>3. IInv /\ EntriesFound /\ EntriesFound' /\ [Next]_vars
        => [Abstract!AbsNext]_(Abstract!absVars)
  BY StepAbs
<1> QED
  BY <1>1, <1>2, <1>3, Invariance, PTL DEF Spec, Refines, Abstract!AbsSpec

-----------------------------------------------------------------------------
(* Pipes: who holds which end.                                             *)

PipeContent == End \cup {File, Closed}
EndsIn(t) == {d \in Fd : t[d] \in End}

PipesTypeOK ==
  /\ op \in {"pipe", "here", "readfrom", "writeto", "backquote"}
  /\ Len(wires) \in Pipe
  /\ \A k \in 1 .. Len(wires) : wires[k].out \in Fd /\ wires[k].in \in Fd
  /\ op # "pipe" => Len(wires) = 1
  /\ fds \in [{Shell} \cup Child -> [Fd -> PipeContent]]
  /\ step \in [{Shell} \cup Child ->
                 {"loop", "failed", "bqinput", "eval", "wait", "waitthrow", "done", "thrown",
                  "none", "wire", "run", "ended", "waited"}]
  /\ argv \in [Child -> [r : Fd \cup {None}, w : Fd \cup {None}, inpipe : Fd \cup {None}]]
  /\ io \in [Child -> [read : Fd \cup {None}, write : Fd \cup {None}]]

\* The children forked so far are the n first commands.
ForkedAre(n) == n \in 0 .. N /\ \A k \in Child : step[k] # "none" <=> k <= n

\* The end of the n-th pipe that the shell keeps for the next command.
KeptOf(n) == IF op = "writeto" THEN argv[n].w ELSE argv[n].r

\* The shell holds no end but the one it keeps, and descriptors 0-2.
ShellHolds ==
  /\ step[Shell] \in {"loop", "eval", "bqinput", "failed", "wait", "waitthrow", "done", "thrown"}
  /\ step[Shell] \in {"loop", "eval", "bqinput"} =>
       \A d \in Fd : IF d < 3 THEN fds[Shell][d] = File ELSE fds[Shell][d] # File
  /\ step[Shell] = "loop" =>
       \E n \in 0 .. N - 1 :
         /\ ForkedAre(n)
         /\ EndsOf(Shell) = IF n = 0 THEN {} ELSE {KeptOf(n)}
         /\ n > 0 => fds[Shell][KeptOf(n)].side = IF op = "writeto" THEN "w" ELSE "r"
  /\ step[Shell] \in {"eval", "bqinput"} => EndsOf(Shell) = {Kept}
  /\ step[Shell] \in {"wait", "waitthrow", "done", "thrown"} => EndsOf(Shell) = {}
  /\ step[Shell] # "loop" => \E n \in 0 .. N : ForkedAre(n)
  /\ step[Shell] = "wait" => op # "here"
  /\ step[Shell] = "bqinput" => op = "backquote"

\* A child that has just been forked holds both ends of its pipe, and the one
\* the shell had for it.
NewlyForked(k) ==
  LET a == argv[k]
  IN /\ k < N
     /\ a.r \in Fd /\ a.r >= 3 /\ a.w \in Fd /\ a.r # a.w
     /\ fds[k][a.r].side = "r" /\ fds[k][a.w].side = "w"
     /\ IF op = "pipe" /\ k > 1
        THEN /\ a.inpipe \in Fd \ {a.r, a.w} /\ fds[k][a.inpipe].side = "r"
             /\ EndsOf(k) = {a.r, a.w, a.inpipe}
        ELSE a.inpipe = None /\ EndsOf(k) = {a.r, a.w}

CommandHolds(k) ==
  /\ step[k] \in {"none", "wire", "run", "ended", "waited"}
  /\ step[k] = "wire" => NewlyForked(k)
  /\ step[k] = "run" => k <= N /\ ((k < N /\ Collides(k)) \/ Joined(k))

AllWaited ==
  step[Shell] = "done" /\ op # "here" => \A k \in 1 .. N - 1 : step[k] = "waited"

PipesInv == PipesTypeOK /\ ShellHolds /\ AllWaited /\ \A k \in Child : CommandHolds(k)

-----------------------------------------------------------------------------
\* The descriptors of one process, and what close and mvfd do to its ends.
LEMMA ContentFacts ==
  /\ File \notin End /\ Closed \notin End /\ File # Closed
  /\ \A q \in Pipe, side \in {"r", "w"} : [pipe |-> q, side |-> side] \in End
  /\ AtStart \in [Fd -> PipeContent] /\ NoFds \in [Fd -> PipeContent]
  /\ EndsIn(AtStart) = {} /\ EndsIn(NoFds) = {}
BY DEF End, Pipe, File, Closed, AtStart, NoFds, PipeContent, EndsIn

LEMMA CloseEnds ==
  ASSUME NEW t \in [Fd -> PipeContent], NEW d \in Fd \cup {None}
  PROVE  /\ close(t, d) \in [Fd -> PipeContent]
         /\ EndsIn(close(t, d)) = EndsIn(t) \ {d}
         /\ \A e \in Fd : close(t, d)[e] = IF e = d THEN Closed ELSE t[e]
<1>1. CASE d = None
  <2>1. close(t, d) = t /\ None \notin Fd
    BY <1>1 DEF close, Fd, None
  <2> QED
    BY <1>1, <2>1 DEF EndsIn
<1>2. CASE d # None
  <2>1. close(t, d) = [t EXCEPT ![d] = Closed] /\ d \in Fd
    BY <1>2 DEF close
  <2> QED
    BY <2>1, ContentFacts DEF EndsIn, PipeContent
<1> QED
  BY <1>1, <1>2

LEMMA MoveEnds ==
  ASSUME NEW t \in [Fd -> PipeContent], NEW old \in EndsIn(t), NEW new \in Fd
  PROVE  /\ mvfd(t, old, new) \in [Fd -> PipeContent]
         /\ EndsIn(mvfd(t, old, new)) = (EndsIn(t) \ {old}) \cup {new}
         /\ mvfd(t, old, new)[new] = t[old]
         /\ \A e \in Fd \ {old, new} : mvfd(t, old, new)[e] = t[e]
<1>0. old \in Fd /\ t[old] \in End
  BY DEF EndsIn
<1>1. CASE old = new
  BY <1>0, <1>1 DEF mvfd, EndsIn
<1>2. CASE old # new
  <2>1. mvfd(t, old, new) = [t EXCEPT ![new] = t[old], ![old] = Closed]
    BY <1>2 DEF mvfd
  <2> QED
    BY <1>0, <1>2, <2>1, ContentFacts DEF EndsIn, PipeContent
<1> QED
  BY <1>1, <1>2

\* pipe() has two descriptors to give while the shell holds at most one end.
LEMMA TwoFree ==
  ASSUME NEW t \in [Fd -> PipeContent], NEW e, EndsIn(t) \subseteq {e},
         \A d \in Fd : IF d < 3 THEN t[d] = File ELSE t[d] # File
  PROVE  /\ Lower(t) \in Fd /\ Lower(t) >= 3 /\ t[Lower(t)] = Closed
         /\ Upper(t) \in Fd /\ Upper(t) >= 3 /\ t[Upper(t)] = Closed
         /\ Lower(t) # Upper(t)
<1>1. ASSUME NEW S \in SUBSET Fd, S # {} PROVE Least(S) \in S
  <2>1. S \in SUBSET Nat
    BY <1>1 DEF Fd
  <2>2. \E d \in S : \A k \in S : d <= k
    BY <1>1, <2>1, LeastNumber
  <2> QED
    BY <2>2 DEF Least
<1>2. \A d \in Fd : d >= 3 /\ d # e => d \in Open(t)
  BY ContentFacts DEF Open, EndsIn, PipeContent, Fd
<1>3. 3 \in Fd /\ 4 \in Fd /\ 5 \in Fd
  BY PipesAssumption DEF Fd
<1>4. \A d \in Open(t) : d \in Fd /\ d >= 3 /\ t[d] = Closed
  BY ContentFacts DEF Open, Fd
<1>5. Open(t) \in SUBSET Fd /\ Open(t) # {}
  <2>1. 3 \in Open(t) \/ 4 \in Open(t)
    BY <1>2, <1>3
  <2> QED
    BY <1>4, <2>1
<1>6. Lower(t) \in Open(t)
  BY <1>1, <1>5 DEF Lower
<1>7. Open(t) \ {Lower(t)} # {}
  <2>1. \A l : 3 \in Open(t) \ {l} \/ 4 \in Open(t) \ {l} \/ 5 \in Open(t) \ {l}
    BY <1>2, <1>3
  <2> QED
    BY <2>1
<1>8. Upper(t) \in Open(t) \ {Lower(t)}
  BY <1>1, <1>5, <1>7 DEF Upper
<1> QED
  BY <1>4, <1>6, <1>8

LEMMA ForkedIs ==
  ASSUME PipesTypeOK, NEW n, ForkedAre(n)
  PROVE  Forked = n /\ n \in Nat /\ N \in Child /\ N > 1 /\ N \in Nat
<1>1. N \in Child /\ N > 1 /\ N \in Nat
  BY PipesAssumption DEF PipesTypeOK, Pipe, N, Child
<1>2. n \in Nat /\ n <= N
  BY <1>1 DEF ForkedAre
<1>3. {k \in Child : step[k] # "none"} = 1 .. n
  BY <1>1, <1>2, PipesAssumption DEF ForkedAre, Child
<1>4. Cardinality(1 .. n) = n
  <2>1. Cardinality(1 .. n) = IF 1 > n THEN 0 ELSE n - 1 + 1
    BY <1>2, FS_Interval
  <2> QED
    BY <1>2, <2>1
<1> QED
  BY <1>1, <1>2, <1>3, <1>4 DEF Forked

-----------------------------------------------------------------------------
LEMMA PipesStart == PipesInit => PipesInv
<1> SUFFICES ASSUME PipesInit PROVE PipesInv
  OBVIOUS
<1>0. PICK n \in 1 .. Commands - 1 : wires \in [1 .. n -> Wires]
  BY DEF PipesInit
<1>1. Len(wires) = n /\ \A k \in 1 .. n : wires[k] \in Wires
  BY <1>0
<1>2. N = n + 1 /\ N \in Nat
  BY <1>1 DEF N
<1>3. PipesTypeOK
  <2>1. Len(wires) \in Pipe /\ \A k \in 1 .. Len(wires) : wires[k].out \in Fd /\ wires[k].in \in Fd
    BY <1>1, PipesAssumption DEF Pipe, Fd
  <2>2. fds \in [{Shell} \cup Child -> [Fd -> PipeContent]]
    BY ContentFacts DEF PipesInit
  <2> QED
    BY <2>1, <2>2 DEF PipesInit, PipesTypeOK
<1>4. Shell \notin Child
  BY DEF Shell, Child
<1>5. \A k \in Child : step[k] = "none"
  BY <1>4 DEF PipesInit
<1>6. step[Shell] = "loop" /\ fds[Shell] = AtStart
  BY DEF PipesInit
<1>7. ForkedAre(0)
  BY <1>2, <1>5 DEF ForkedAre, Child
<1>8. EndsOf(Shell) = {}
  BY <1>6, ContentFacts DEF EndsOf, EndsIn
<1>9. \A d \in Fd : IF d < 3 THEN fds[Shell][d] = File ELSE fds[Shell][d] # File
  BY <1>6, ContentFacts DEF AtStart
<1>10. ShellHolds
  BY <1>2, <1>6, <1>7, <1>8, <1>9 DEF ShellHolds
<1> QED
  BY <1>3, <1>5, <1>6, <1>10 DEF PipesInv, AllWaited, CommandHolds


\* What is true of a child is about its own descriptors only.
LEMMA CommandKept ==
  ASSUME NEW k, CommandHolds(k), UNCHANGED <<op, wires>>,
         step'[k] = step[k], fds'[k] = fds[k], argv'[k] = argv[k], io'[k] = io[k]
  PROVE  CommandHolds(k)'
BY DEF CommandHolds, NewlyForked, Collides, Joined, EndsOf, N

\* $&pipe and the others fork a child for one end of a new pipe.
LEMMA PipeforkHolds == ASSUME PipesInv, pipefork PROVE PipesInv'
<1>0. PipesTypeOK /\ ShellHolds /\ \A j \in Child : CommandHolds(j)
  BY DEF PipesInv
<1> PICK n \in 0 .. N - 1 :
      /\ ForkedAre(n)
      /\ EndsOf(Shell) = IF n = 0 THEN {} ELSE {KeptOf(n)}
      /\ n > 0 => fds[Shell][KeptOf(n)].side = IF op = "writeto" THEN "w" ELSE "r"
  BY <1>0 DEF ShellHolds, pipefork
<1> DEFINE k == n + 1
           t == fds[Shell]
           r == Lower(t)
           w == Upper(t)
           inpipe == IF k = 1 \/ op # "pipe" THEN None ELSE argv[k - 1].r
           rEnd == [pipe |-> k, side |-> "r"]
           wEnd == [pipe |-> k, side |-> "w"]
           both == [t EXCEPT ![r] = rEnd, ![w] = wEnd]
           rest == forked(both, r, w, inpipe)
           keep == IF op = "writeto" THEN w ELSE r
<1>1. Forked = n /\ n \in Nat /\ N \in Nat /\ N > 1 /\ N = Len(wires) + 1 /\ Shell \notin Child
  BY <1>0, ForkedIs DEF N, Shell, Child
<1>2. /\ step[Shell] = "loop" /\ k < N
      /\ fds' = [fds EXCEPT ![k] = both, ![Shell] = rest]
      /\ step' = [step EXCEPT ![k] = "wire"]
      /\ argv' = [argv EXCEPT ![k] = [r |-> r, w |-> w, inpipe |-> inpipe]]
      /\ UNCHANGED <<op, wires, io>>
  BY <1>1 DEF pipefork
<1>3. k \in Child /\ k \in Pipe /\ k # Shell /\ t \in [Fd -> PipeContent] /\ argv[n].r = argv[k - 1].r
  <2>1. k \in Pipe
    BY <1>1, <1>2, PipesAssumption DEF PipesTypeOK, PipesInv, Pipe
  <2> QED
    BY <1>0, <1>1, <2>1, PipesAssumption DEF Pipe, Child, Shell, PipesTypeOK
<1>4. n > 0 => op = "pipe"
  BY SMTT(30), <1>0, <1>1, <1>2 DEF PipesTypeOK
<1>5. inpipe = IF n = 0 THEN None ELSE KeptOf(n)
  BY <1>1, <1>3, <1>4 DEF KeptOf
<1>6. EndsIn(t) = (IF n = 0 THEN {} ELSE {inpipe}) /\ inpipe \in Fd \cup {None}
  <2>1. EndsIn(t) = EndsOf(Shell)
    BY DEF EndsIn, EndsOf
  <2>2. \A d \in EndsIn(t) : d \in Fd
    BY DEF EndsIn
  <2> QED
    BY <1>5, <2>1, <2>2
<1> HIDE DEF k, t, inpipe
<1>7. /\ r \in Fd /\ r >= 3 /\ t[r] = Closed /\ w \in Fd /\ w >= 3 /\ t[w] = Closed /\ r # w
  <2>1. \A d \in Fd : IF d < 3 THEN t[d] = File ELSE t[d] # File
    BY <1>0, <1>2 DEF ShellHolds, t
  <2>2. EndsIn(t) \subseteq {inpipe}
    BY <1>6
  <2> QED
    BY <1>3, <2>1, <2>2, TwoFree
<1> HIDE DEF r, w
<1>8. rEnd \in End /\ wEnd \in End
  BY <1>3, ContentFacts
<1>9. /\ both \in [Fd -> PipeContent] /\ EndsIn(both) = EndsIn(t) \cup {r, w}
      /\ both[r] = rEnd /\ both[w] = wEnd /\ \A d \in Fd \ {r, w} : both[d] = t[d]
  BY <1>3, <1>7, <1>8 DEF EndsIn, PipeContent
<1>10. r # inpipe /\ w # inpipe
  <2>1. r \notin EndsIn(t) /\ w \notin EndsIn(t) /\ r # None /\ w # None
    BY <1>7, ContentFacts DEF EndsIn, None
  <2> QED
    BY <1>5, <1>6, <2>1
<1> HIDE DEF both
<1>11. /\ rest \in [Fd -> PipeContent] /\ EndsIn(rest) = {keep}
       /\ rest[keep].side = IF op = "writeto" THEN "w" ELSE "r"
       /\ \A d \in Fd : IF d < 3 THEN rest[d] = File ELSE rest[d] # File
  <2>0. \A d \in Fd : IF d < 3 THEN both[d] = File ELSE both[d] # File
    <3>1. \A d \in Fd : IF d < 3 THEN t[d] = File ELSE t[d] # File
      BY <1>0, <1>2 DEF ShellHolds, t
    <3> QED
      BY <1>7, <1>8, <1>9, <3>1, ContentFacts
  <2>1. CASE op = "writeto"
    <3>1. rest = close(both, r) /\ keep = w
      BY <2>1 DEF forked
    <3>2. n = 0
      BY <1>1, <1>4, <2>1
    <3>3. /\ rest \in [Fd -> PipeContent] /\ EndsIn(rest) = EndsIn(both) \ {r}
          /\ \A e \in Fd : rest[e] = IF e = r THEN Closed ELSE both[e]
      BY <1>7, <1>9, <3>1, CloseEnds
    <3>4. EndsIn(rest) = {w}
      BY <1>6, <1>7, <1>9, <3>2, <3>3
    <3>5. rest[w] = wEnd
      BY <1>7, <1>9, <3>3
    <3>6. \A d \in Fd : IF d < 3 THEN rest[d] = File ELSE rest[d] # File
      <4>1. \A d \in Fd : d < 3 => d # r
        BY <1>7 DEF Fd
      <4> QED
        BY <2>0, <3>3, <4>1, ContentFacts
    <3> QED
      BY <2>1, <3>1, <3>3, <3>4, <3>5, <3>6
  <2>2. CASE op # "writeto"
    <3> DEFINE first == close(both, inpipe)
    <3>1. rest = close(first, w) /\ keep = r
      BY <2>2 DEF forked
    <3>2. /\ first \in [Fd -> PipeContent] /\ EndsIn(first) = EndsIn(both) \ {inpipe}
          /\ \A e \in Fd : first[e] = IF e = inpipe THEN Closed ELSE both[e]
      BY <1>6, <1>9, CloseEnds
    <3> HIDE DEF first
    <3>3. /\ rest \in [Fd -> PipeContent] /\ EndsIn(rest) = EndsIn(first) \ {w}
          /\ \A e \in Fd : rest[e] = IF e = w THEN Closed ELSE first[e]
      BY <1>7, <3>1, <3>2, CloseEnds
    <3>4. EndsIn(rest) = {r}
      BY <1>6, <1>7, <1>9, <1>10, <3>2, <3>3
    <3>5. rest[r] = rEnd
      BY <1>7, <1>9, <1>10, <3>2, <3>3
    <3>6. inpipe = None \/ inpipe >= 3
      <4>1. inpipe \in EndsIn(t) => inpipe \in Fd /\ t[inpipe] # File
        BY ContentFacts DEF EndsIn
      <4> QED
        BY <1>0, <1>2, <1>5, <1>6, <4>1 DEF ShellHolds, t, Fd
    <3>7. \A d \in Fd : IF d < 3 THEN rest[d] = File ELSE rest[d] # File
      <4>1. \A d \in Fd : d < 3 => d # inpipe /\ d # w
        BY <1>7, <3>6 DEF Fd, None
      <4> QED
        BY <2>0, <3>2, <3>3, <4>1, ContentFacts
    <3> QED
      BY <2>2, <3>1, <3>3, <3>4, <3>5, <3>7
  <2> QED
    BY <2>1, <2>2
<1> HIDE DEF rest
<1>12. /\ fds'[Shell] = rest /\ fds'[k] = both /\ \A j \in Child \ {k} : fds'[j] = fds[j]
       /\ fds' \in [{Shell} \cup Child -> [Fd -> PipeContent]]
  BY <1>0, <1>1, <1>2, <1>3, <1>9, <1>11 DEF PipesTypeOK
<1>13. /\ step'[Shell] = "loop" /\ step'[k] = "wire" /\ \A j \in Child \ {k} : step'[j] = step[j]
  BY <1>0, <1>1, <1>2, <1>3 DEF PipesTypeOK
<1>14. /\ argv'[k] = [r |-> r, w |-> w, inpipe |-> inpipe]
       /\ \A j \in Child \ {k} : argv'[j] = argv[j]
  BY <1>0, <1>2, <1>3 DEF PipesTypeOK
<1>15. PipesTypeOK'
  <2>1. step' \in [{Shell} \cup Child ->
                     {"loop", "failed", "bqinput", "eval", "wait", "waitthrow", "done", "thrown",
                      "none", "wire", "run", "ended", "waited"}]
    BY <1>0, <1>2, <1>3 DEF PipesTypeOK
  <2>2. argv' \in [Child -> [r : Fd \cup {None}, w : Fd \cup {None}, inpipe : Fd \cup {None}]]
    BY <1>0, <1>2, <1>3, <1>6, <1>7 DEF PipesTypeOK
  <2> QED
    BY <1>0, <1>2, <1>12, <2>1, <2>2 DEF PipesTypeOK
<1>16. N' = N /\ k \in 0 .. N - 1
  BY <1>1, <1>2 DEF N, k
<1>17. ForkedAre(k)'
  <2>1. \A j \in Child : step'[j] # "none" <=> j <= k
    <3> SUFFICES ASSUME NEW j \in Child PROVE step'[j] # "none" <=> j <= k
      OBVIOUS
    <3>1. CASE j = k
      BY <1>13, <3>1 DEF Child
    <3>2. CASE j # k
      <4>1. step[j] # "none" <=> j <= n
        BY DEF ForkedAre
      <4>2. j <= k <=> j <= n
        BY <1>1, <3>2 DEF Child, k
      <4> QED
        BY <1>13, <3>2, <4>1, <4>2
    <3> QED
      BY <3>1, <3>2
  <2> QED
    BY <1>1, <1>16, <2>1 DEF ForkedAre
<1>18. KeptOf(k)' = keep
  BY <1>2, <1>14 DEF KeptOf
<1>19. EndsOf(Shell)' = {keep}
  BY <1>11, <1>12 DEF EndsOf, EndsIn
<1>20. ShellHolds'
  <2>1. k # 0 /\ k > 0
    BY <1>1 DEF k
  <2> QED
    BY <1>2, <1>11, <1>12, <1>13, <1>16, <1>17, <1>18, <1>19, <2>1 DEF ShellHolds
<1>21. NewlyForked(k)'
  <2>1. EndsOf(k)' = EndsIn(t) \cup {r, w}
    BY <1>9, <1>12 DEF EndsOf, EndsIn
  <2>2. argv'[k].r = r /\ argv'[k].w = w /\ argv'[k].inpipe = inpipe
    BY <1>14
  <2>3. fds'[k][r].side = "r" /\ fds'[k][w].side = "w"
    BY <1>9, <1>12
  <2>4. CASE n = 0
    <3>1. k = 1 /\ inpipe = None
      BY <1>5, <2>4 DEF k
    <3> QED
      BY <1>2, <1>6, <1>7, <1>16, <2>1, <2>2, <2>3, <2>4, <3>1 DEF NewlyForked
  <2>5. CASE n # 0
    <3>1. k > 1 /\ op = "pipe" /\ inpipe = KeptOf(n) /\ EndsIn(t) = {inpipe}
      BY <1>1, <1>4, <1>5, <1>6, <2>5 DEF k
    <3>2. inpipe \in Fd /\ fds[Shell][inpipe].side = "r"
      <4>1. inpipe \in EndsIn(t)
        BY <3>1
      <4>2. inpipe \in Fd
        BY <4>1 DEF EndsIn
      <4>3. n > 0
        BY <1>1, <2>5
      <4> QED
        BY <3>1, <4>2, <4>3
    <3>3. fds'[k][inpipe].side = "r"
      BY <1>9, <1>10, <1>12, <3>2 DEF t
    <3> QED
      BY <1>2, <1>7, <1>10, <1>16, <2>1, <2>2, <2>3, <3>1, <3>2, <3>3 DEF NewlyForked
  <2> QED
    BY <2>4, <2>5
<1>22. \A j \in Child : CommandHolds(j)'
  <2> SUFFICES ASSUME NEW j \in Child PROVE CommandHolds(j)'
    OBVIOUS
  <2>1. CASE j = k
    BY <1>13, <1>21, <2>1 DEF CommandHolds
  <2>2. CASE j # k
    BY <1>0, <1>2, <1>12, <1>13, <1>14, <2>2, CommandKept
  <2> QED
    BY <2>1, <2>2
<1>23. AllWaited'
  BY <1>13 DEF AllWaited
<1> QED
  BY <1>15, <1>20, <1>22, <1>23 DEF PipesInv


-----------------------------------------------------------------------------
(* The children.                                                           *)

LEMMA WiresKept ==
  ASSUME PipesTypeOK
  PROVE  /\ N \in Nat /\ N = Len(wires) + 1 /\ N \in Child /\ Shell \notin Child
         /\ \A k \in 1 .. N - 1 : wires[k].out \in Fd /\ wires[k].in \in Fd
         /\ \A k \in Child : k \in Nat /\ k > 0
         /\ 0 \in Fd /\ 1 \in Fd /\ None \notin Fd
         /\ \A d \in Fd : d \in Nat
BY PipesAssumption DEF PipesTypeOK, Pipe, N, Child, Shell, Fd, None

\* What is true of the shell and of a wait is kept by what a child does.
LEMMA ShellKept ==
  ASSUME ShellHolds, AllWaited, UNCHANGED <<op, wires, argv>>,
         fds'[Shell] = fds[Shell], step'[Shell] = step[Shell],
         \A j \in Child : step'[j] # "none" <=> step[j] # "none",
         \A j \in 1 .. N - 1 : step[j] = "waited" => step'[j] = "waited"
  PROVE  ShellHolds' /\ AllWaited'
<1>1. N' = N /\ Kept' = Kept /\ \A n : KeptOf(n)' = KeptOf(n)
  BY DEF N, Kept, KeptOf
<1>2. EndsOf(Shell)' = EndsOf(Shell)
  BY DEF EndsOf
<1>3. \A n : ForkedAre(n) => ForkedAre(n)'
  BY <1>1 DEF ForkedAre
<1>4. ShellHolds'
  BY <1>1, <1>2, <1>3 DEF ShellHolds
<1>5. AllWaited'
  BY <1>1 DEF AllWaited
<1> QED
  BY <1>4, <1>5

\* A step of one child.
LEMMA ChildStep ==
  ASSUME PipesInv, NEW k \in Child, step[k] \in {"wire", "run"},
         NEW s \in {"run", "ended"}, NEW t \in [Fd -> PipeContent],
         step' = [step EXCEPT ![k] = s], fds' = [fds EXCEPT ![k] = t],
         UNCHANGED <<op, wires, argv>>,
         NEW now \in [read : Fd \cup {None}, write : Fd \cup {None}],
         io' = [io EXCEPT ![k] = now],
         s = "run" => k < N /\ (Collides(k) \/ Joined(k)')
  PROVE  PipesInv'
<1>0. /\ PipesTypeOK /\ ShellHolds /\ AllWaited /\ \A j \in Child : CommandHolds(j)
      /\ k # Shell
  BY WiresKept DEF PipesInv
<1>1. /\ step'[Shell] = step[Shell] /\ fds'[Shell] = fds[Shell] /\ step'[k] = s
      /\ \A j \in Child \ {k} : /\ step'[j] = step[j] /\ fds'[j] = fds[j]
                                /\ io'[j] = io[j] /\ argv'[j] = argv[j]
  BY <1>0 DEF PipesTypeOK
<1>2. PipesTypeOK'
  <2>1. step' \in [{Shell} \cup Child ->
                     {"loop", "failed", "bqinput", "eval", "wait", "waitthrow", "done", "thrown",
                      "none", "wire", "run", "ended", "waited"}]
    BY <1>0 DEF PipesTypeOK
  <2>2. /\ fds' \in [{Shell} \cup Child -> [Fd -> PipeContent]]
        /\ io' \in [Child -> [read : Fd \cup {None}, write : Fd \cup {None}]]
    BY <1>0 DEF PipesTypeOK
  <2> QED
    BY <1>0, <2>1, <2>2 DEF PipesTypeOK
<1>3. ShellHolds' /\ AllWaited'
  <2>1. \A j \in Child : step'[j] # "none" <=> step[j] # "none"
    <3> SUFFICES ASSUME NEW j \in Child PROVE step'[j] # "none" <=> step[j] # "none"
      OBVIOUS
    <3> QED
      BY <1>1
  <2>2. \A j \in 1 .. N - 1 : step[j] = "waited" => step'[j] = "waited"
    <3> SUFFICES ASSUME NEW j \in 1 .. N - 1, step[j] = "waited" PROVE step'[j] = "waited"
      OBVIOUS
    <3>1. j \in Child
      BY <1>0, WiresKept, PipesAssumption DEF Child
    <3>2. j # k
      OBVIOUS
    <3> QED
      BY <1>1, <3>1, <3>2
  <2> QED
    BY <1>0, <1>1, <2>1, <2>2, ShellKept
<1>4. CommandHolds(k)'
  <2>1. Collides(k)' <=> Collides(k)
    BY DEF Collides
  <2>2. N' = N /\ N \in Nat /\ k \in Nat
    BY <1>0, WiresKept DEF N
  <2>3. s = "run" => k <= N
    BY <2>2
  <2> QED
    BY <1>1, <2>1, <2>2, <2>3 DEF CommandHolds
<1>5. \A j \in Child : CommandHolds(j)'
  <2> SUFFICES ASSUME NEW j \in Child PROVE CommandHolds(j)'
    OBVIOUS
  <2>1. CASE j # k
    BY <1>0, <1>1, <2>1, CommandKept
  <2> QED
    BY <1>4, <2>1
<1> QED
  BY <1>2, <1>3, <1>5 DEF PipesInv

\* A child makes its wires, and holds no other end than those it was given.
LEMMA WiredJoined ==
  ASSUME PipesTypeOK, NEW k \in Child, NewlyForked(k),
         fds[k] \in [Fd -> PipeContent]
  PROVE  /\ wired(fds[k], k) \in [Fd -> PipeContent]
         /\ Wire(k) /\ ~ Collides(k) => Joined(k)'
<1> DEFINE t == fds[k]
           a == argv[k]
           u == wired(t, k)
<1>0. /\ k \in 1 .. N - 1 /\ a.r \in Fd /\ a.r >= 3 /\ a.w \in Fd /\ a.r # a.w
      /\ t[a.r].side = "r" /\ t[a.w].side = "w"
      /\ a.inpipe = None \/ (a.inpipe \in Fd \ {a.r, a.w} /\ t[a.inpipe].side = "r")
      /\ a.inpipe = None <=> ~ (op = "pipe" /\ k > 1)
      /\ EndsIn(t) = {a.r, a.w} \cup (IF a.inpipe = None THEN {} ELSE {a.inpipe})
      /\ wires[k].out \in Fd
      /\ k > 1 => wires[k - 1].in \in Fd
      /\ op \in {"pipe", "here", "readfrom", "writeto", "backquote"}
      /\ 0 \in Fd /\ 1 \in Fd /\ a.r # 1 /\ None \notin Fd
      /\ op # "pipe" => a.inpipe = None
  <2>1. k \in 1 .. N - 1 /\ (k > 1 => k - 1 \in 1 .. N - 1)
    BY WiresKept DEF NewlyForked
  <2>2. EndsOf(k) = EndsIn(t)
    BY DEF EndsOf, EndsIn
  <2>3. a.r # 1
    BY WiresKept DEF NewlyForked
  <2> QED
    BY <2>1, <2>2, <2>3, WiresKept DEF NewlyForked, PipesTypeOK
<1> SUFFICES u \in [Fd -> PipeContent] /\ (~ Collides(k) =>
               LET now == [read |-> IF op = "writeto" THEN 0
                                    ELSE IF op = "pipe" /\ k > 1 THEN wires[k - 1].in ELSE None,
                           write |-> IF op = "pipe" THEN wires[k].out
                                     ELSE IF op = "here" THEN a.w
                                     ELSE IF op = "writeto" THEN None ELSE 1]
               IN /\ EndsIn(u) = {d \in {now.read, now.write} : d # None}
                  /\ now.write # None => u[now.write].side = "w"
                  /\ now.read # None => u[now.read].side = "r")
  <2>1. ASSUME Wire(k) PROVE /\ fds'[k] = u
                             /\ io'[k].read = IF op = "writeto" THEN 0
                                    ELSE IF op = "pipe" /\ k > 1 THEN wires[k - 1].in ELSE None
                             /\ io'[k].write = IF op = "pipe" THEN wires[k].out
                                     ELSE IF op = "here" THEN a.w
                                     ELSE IF op = "writeto" THEN None ELSE 1
    <3>1. fds'[k] = u
      BY <2>1, WiresKept DEF Wire, PipesTypeOK
    <3>2. io'[k] = CASE op = "pipe" -> [read |-> IF k = 1 THEN None ELSE wires[k - 1].in,
                                   write |-> wires[k].out]
                [] op = "here" -> [read |-> None, write |-> argv[k].w]
                [] op = "writeto" -> [read |-> 0, write |-> None]
                [] OTHER -> [read |-> None, write |-> 1]
      BY <2>1 DEF Wire, PipesTypeOK
    <3>3. k > 1 <=> k # 1
      BY <1>0
    <3> QED
      BY <1>0, <3>1, <3>2, <3>3
  <2> QED
    BY <2>1 DEF Joined, EndsOf, EndsIn
<1>1. CASE op = "pipe"
  <2> DEFINE wi == wires[k - 1].in
             out == wires[k].out
             in == IF a.inpipe = None THEN t ELSE mvfd(t, a.inpipe, wi)
             mid == mvfd(in, a.w, out)
  <2>1. u = close(mid, a.r)
    BY <1>1 DEF wired
  <2>2. a.inpipe # None => /\ in \in [Fd -> PipeContent] /\ EndsIn(in) = {a.r, a.w, wi}
                           /\ in[wi] = t[a.inpipe] /\ \A e \in Fd \ {a.inpipe, wi} : in[e] = t[e]
    <3> SUFFICES ASSUME a.inpipe # None
                 PROVE  /\ in \in [Fd -> PipeContent] /\ EndsIn(in) = {a.r, a.w, wi}
                        /\ in[wi] = t[a.inpipe] /\ \A e \in Fd \ {a.inpipe, wi} : in[e] = t[e]
      OBVIOUS
    <3>1. a.inpipe \in EndsIn(t) /\ wi \in Fd /\ in = mvfd(t, a.inpipe, wi)
      BY <1>0
    <3>2. /\ in \in [Fd -> PipeContent] /\ EndsIn(in) = (EndsIn(t) \ {a.inpipe}) \cup {wi}
          /\ in[wi] = t[a.inpipe] /\ \A e \in Fd \ {a.inpipe, wi} : in[e] = t[e]
      BY <3>1, MoveEnds
    <3> QED
      BY <1>0, <3>2
  <2>3. /\ in \in [Fd -> PipeContent] /\ a.w \in EndsIn(in)
    BY <1>0, <2>2
  <2>4. /\ mid \in [Fd -> PipeContent] /\ EndsIn(mid) = (EndsIn(in) \ {a.w}) \cup {out}
        /\ mid[out] = in[a.w] /\ \A e \in Fd \ {a.w, out} : mid[e] = in[e]
    BY SMTT(30), <1>0, <2>3, MoveEnds
  <2>5. /\ u \in [Fd -> PipeContent] /\ EndsIn(u) = EndsIn(mid) \ {a.r}
        /\ \A e \in Fd : u[e] = IF e = a.r THEN Closed ELSE mid[e]
    BY <1>0, <2>1, <2>4, CloseEnds
  <2>6. ASSUME ~ Collides(k) PROVE /\ out # a.r /\ u[out].side = "w"
                                   /\ a.inpipe # None => wi \notin {a.r, a.w, out}
    <3>1. out # a.r /\ (a.inpipe # None => wi \notin {a.r, a.w, out})
      BY <1>0, <1>1, <2>6 DEF Collides
    <3>2. in[a.w] = t[a.w]
      <4>1. CASE a.inpipe = None
        BY <4>1
      <4>2. CASE a.inpipe # None
        BY <1>0, <2>2, <3>1, <4>2
      <4> QED
        BY <4>1, <4>2
    <3> HIDE DEF in, mid, u
    <3> QED
      BY <1>0, <2>4, <2>5, <3>1, <3>2
  <2>7. CASE a.inpipe = None
    <3>1. ~ (k > 1) /\ EndsIn(in) = {a.r, a.w}
      BY <1>0, <1>1, <2>7
    <3> HIDE DEF in, mid, u
    <3>2. ASSUME ~ Collides(k) PROVE EndsIn(u) = {out}
      BY <1>0, <2>4, <2>5, <2>6, <3>1, <3>2
    <3> QED
      BY <1>0, <1>1, <2>5, <2>6, <3>1, <3>2
  <2>8. CASE a.inpipe # None
    <3>1. k > 1 /\ wi \in Fd
      BY <1>0, <2>8
    <3> HIDE DEF in, mid, u
    <3>2. ASSUME ~ Collides(k) PROVE EndsIn(u) = {wi, out} /\ u[wi].side = "r"
      <4>1. EndsIn(u) = {wi, out}
        BY <1>0, <2>2, <2>4, <2>5, <2>6, <2>8, <3>2
      <4>2. u[wi] = t[a.inpipe]
        BY <1>0, <2>2, <2>4, <2>5, <2>6, <2>8, <3>1, <3>2
      <4> QED
        BY <1>0, <2>8, <4>1, <4>2
    <3> QED
      BY <1>0, <1>1, <2>5, <2>6, <3>1, <3>2
  <2> QED
    BY <2>7, <2>8
<1>2. CASE op = "here"
  <2>1. u = close(t, a.r)
    BY <1>2 DEF wired
  <2>2. /\ u \in [Fd -> PipeContent] /\ EndsIn(u) = EndsIn(t) \ {a.r}
        /\ \A e \in Fd : u[e] = IF e = a.r THEN Closed ELSE t[e]
    BY <1>0, <2>1, CloseEnds
  <2> HIDE DEF u
  <2>3. EndsIn(u) = {a.w} /\ u[a.w].side = "w"
    BY <1>0, <1>2, <2>2
  <2> QED
    BY <1>0, <1>2, <2>2, <2>3
<1>3. CASE op = "readfrom" \/ op = "backquote"
  <2>1. u \in [Fd -> PipeContent] /\ EndsIn(u) = {1} /\ u[1].side = "w"
    <3>1. CASE op = "readfrom"
      <4> DEFINE m == close(t, a.r)
      <4>1. u = mvfd(m, a.w, 1)
        BY <3>1 DEF wired
      <4>2. /\ m \in [Fd -> PipeContent] /\ EndsIn(m) = EndsIn(t) \ {a.r}
            /\ \A e \in Fd : m[e] = IF e = a.r THEN Closed ELSE t[e]
        BY <1>0, CloseEnds
      <4> HIDE DEF m
      <4>3. EndsIn(m) = {a.w} /\ m[a.w] = t[a.w]
        BY <1>0, <3>1, <4>2
      <4>4. /\ u \in [Fd -> PipeContent] /\ EndsIn(u) = (EndsIn(m) \ {a.w}) \cup {1}
            /\ u[1] = m[a.w]
        BY <1>0, <4>1, <4>2, <4>3, MoveEnds
      <4> HIDE DEF u
      <4> QED
        BY <1>0, <4>3, <4>4
    <3>2. CASE op = "backquote"
      <4> DEFINE m == mvfd(t, a.w, 1)
      <4>1. u = close(m, a.r)
        BY <3>2 DEF wired
      <4>2. /\ m \in [Fd -> PipeContent] /\ EndsIn(m) = (EndsIn(t) \ {a.w}) \cup {1}
            /\ m[1] = t[a.w]
        <5>1. a.w \in EndsIn(t) /\ 1 \in Fd /\ t \in [Fd -> PipeContent]
          BY <1>0
        <5> HIDE DEF t, a, u
        <5> QED
          BY <5>1, MoveEnds
      <4> HIDE DEF m
      <4>3. /\ u \in [Fd -> PipeContent] /\ EndsIn(u) = EndsIn(m) \ {a.r}
            /\ \A e \in Fd : u[e] = IF e = a.r THEN Closed ELSE m[e]
        BY <1>0, <4>1, <4>2, CloseEnds
      <4> HIDE DEF u
      <4> QED
        BY <1>0, <3>2, <4>2, <4>3
    <3> QED
      BY <1>3, <3>1, <3>2
  <2> HIDE DEF u
  <2> QED
    BY <1>0, <1>3, <2>1 DEF None
<1>4. CASE op = "writeto"
  <2> DEFINE m == close(t, a.w)
  <2>1. u = mvfd(m, a.r, 0)
    BY <1>4 DEF wired
  <2>2. /\ m \in [Fd -> PipeContent] /\ EndsIn(m) = EndsIn(t) \ {a.w}
        /\ \A e \in Fd : m[e] = IF e = a.w THEN Closed ELSE t[e]
    BY <1>0, CloseEnds
  <2> HIDE DEF m
  <2>3. EndsIn(m) = {a.r} /\ m[a.r] = t[a.r]
    BY <1>0, <1>4, <2>2
  <2>4. /\ u \in [Fd -> PipeContent] /\ EndsIn(u) = (EndsIn(m) \ {a.r}) \cup {0}
        /\ u[0] = m[a.r]
    BY <1>0, <2>1, <2>2, <2>3, MoveEnds
  <2> HIDE DEF u
  <2> QED
    BY <1>0, <1>4, <2>3, <2>4 DEF None
<1> QED
  BY <1>0, <1>1, <1>2, <1>3, <1>4


LEMMA WireHolds == ASSUME PipesInv, NEW k \in Child, Wire(k) PROVE PipesInv'
<1>0. /\ PipesTypeOK /\ CommandHolds(k) /\ step[k] = "wire"
      /\ fds[k] \in [Fd -> PipeContent] /\ Shell \notin Child
  BY WiresKept DEF PipesInv, Wire, PipesTypeOK
<1>1. NewlyForked(k)
  BY <1>0 DEF CommandHolds
<1> DEFINE t == wired(fds[k], k)
           now == CASE op = "pipe" -> [read |-> IF k = 1 THEN None ELSE wires[k - 1].in,
                                       write |-> wires[k].out]
                    [] op = "here" -> [read |-> None, write |-> argv[k].w]
                    [] op = "writeto" -> [read |-> 0, write |-> None]
                    [] OTHER -> [read |-> None, write |-> 1]
<1>2. t \in [Fd -> PipeContent] /\ (~ Collides(k) => Joined(k)')
  BY <1>0, <1>1, WiredJoined
<1>3. /\ step' = [step EXCEPT ![k] = "run"] /\ fds' = [fds EXCEPT ![k] = t]
      /\ io' = [io EXCEPT ![k] = now] /\ UNCHANGED <<op, wires, argv>>
  BY DEF Wire
<1>4. now \in [read : Fd \cup {None}, write : Fd \cup {None}]
  <2>1. k \in 1 .. N - 1 /\ (k # 1 => k - 1 \in 1 .. N - 1)
    BY <1>0, <1>1, WiresKept DEF NewlyForked
  <2>2. wires[k].out \in Fd /\ (k # 1 => wires[k - 1].in \in Fd) /\ 0 \in Fd /\ 1 \in Fd
    BY <1>0, <2>1, WiresKept
  <2>3. argv[k].w \in Fd
    BY <1>1 DEF NewlyForked
  <2> QED
    BY <2>2, <2>3
<1>5. k < N
  BY <1>1 DEF NewlyForked
<1> HIDE DEF t, now
<1> QED
  BY <1>0, <1>2, <1>3, <1>4, <1>5, ChildStep

\* A command reads, writes or stops: its descriptors are its own.
LEMMA RunHolds ==
  ASSUME PipesInv, NEW k \in Child, Read(k) \/ Write(k) \/ Stop(k) PROVE PipesInv'
<1>0. /\ PipesTypeOK /\ ShellHolds /\ AllWaited /\ \A j \in Child : CommandHolds(j)
      /\ UNCHANGED <<op, wires, argv, io>> /\ step[k] = "run" /\ k # Shell
  BY WiresKept DEF PipesInv, Read, Write, Stop, Source, Sink
<1>1. CASE UNCHANGED <<step, fds>>
  <2>1. ShellHolds' /\ AllWaited'
    BY <1>0, <1>1, ShellKept
  <2>2. PipesTypeOK'
    BY <1>0, <1>1 DEF PipesTypeOK
  <2> QED
    BY <1>0, <1>1, <2>1, <2>2, CommandKept DEF PipesInv
<1>2. CASE Ended(k)
  <2>1. /\ step' = [step EXCEPT ![k] = "ended"] /\ fds' = [fds EXCEPT ![k] = NoFds]
        /\ io' = [io EXCEPT ![k] = io[k]]
        /\ io[k] \in [read : Fd \cup {None}, write : Fd \cup {None}]
        /\ "ended" # "run" /\ "ended" \in {"run", "ended"} /\ step[k] \in {"wire", "run"}
    BY <1>0, <1>2 DEF Ended, PipesTypeOK
  <2> QED
    BY <1>0, <2>1, ContentFacts, ChildStep
<1> QED
  BY <1>1, <1>2 DEF Read, Write, Stop

-----------------------------------------------------------------------------
(* The rest of the shell.                                                  *)

\* A step of the shell that changes neither its wires nor a running child.
LEMMA ShellStep ==
  ASSUME PipesInv, UNCHANGED <<op, wires, argv, io>>,
         NEW t \in [Fd -> PipeContent], fds' = [fds EXCEPT ![Shell] = t],
         step' \in [{Shell} \cup Child ->
                      {"loop", "failed", "bqinput", "eval", "wait", "waitthrow", "done", "thrown",
                       "none", "wire", "run", "ended", "waited"}],
         \A j \in Child : step'[j] = step[j] \/ (step[j] = "ended" /\ step'[j] = "waited"),
         step'[Shell] \in {"bqinput", "failed", "wait", "waitthrow", "done", "thrown"},
         step'[Shell] = "bqinput" =>
           step[Shell] = "loop" /\ op = "backquote" /\ t = fds[Shell] /\ EndsIn(t) = {Kept},
         step'[Shell] \in {"wait", "waitthrow", "done", "thrown"} => EndsIn(t) = {},
         step'[Shell] = "wait" => op # "here",
         step'[Shell] = "done" /\ op # "here" => \A j \in 1 .. N - 1 : step'[j] = "waited"
  PROVE  PipesInv'
<1>0. /\ PipesTypeOK /\ ShellHolds /\ AllWaited /\ \A j \in Child : CommandHolds(j)
      /\ Shell \notin Child /\ fds'[Shell] = t
  BY WiresKept DEF PipesInv, PipesTypeOK
<1>1. \A j \in Child : fds'[j] = fds[j]
  BY <1>0 DEF PipesTypeOK
<1>2. PipesTypeOK'
  <2>1. fds' \in [{Shell} \cup Child -> [Fd -> PipeContent]]
    BY <1>0 DEF PipesTypeOK
  <2> QED
    BY <1>0, <2>1 DEF PipesTypeOK
<1>3. ShellHolds'
  <2>1. \E n \in 0 .. N : ForkedAre(n)
    <3>1. N \in Nat /\ \A n \in 0 .. N - 1 : n \in 0 .. N
      BY <1>0, WiresKept
    <3> QED
      BY <1>0, <3>1 DEF ShellHolds
  <2>2. N' = N /\ Kept' = Kept
    BY DEF N, Kept
  <2>3. \A n : ForkedAre(n) => ForkedAre(n)'
    BY <2>2 DEF ForkedAre
  <2>4. EndsOf(Shell)' = EndsIn(t)
    BY <1>0 DEF EndsOf, EndsIn
  <2>5. \E n \in (0 .. N)' : ForkedAre(n)'
    BY <2>1, <2>2, <2>3
  <2>6. step'[Shell] \notin {"loop", "eval"}
    OBVIOUS
  <2> QED
    BY <1>0, <2>2, <2>4, <2>5, <2>6 DEF ShellHolds
<1>4. AllWaited'
  BY DEF AllWaited, N
<1>5. \A j \in Child : CommandHolds(j)'
  <2> SUFFICES ASSUME NEW j \in Child PROVE CommandHolds(j)'
    OBVIOUS
  <2>1. CASE step'[j] = step[j]
    BY <1>0, <1>1, <2>1, CommandKept
  <2>2. CASE step'[j] = "waited"
    BY <2>2 DEF CommandHolds
  <2> QED
    BY <2>1, <2>2
<1> QED
  BY <1>2, <1>3, <1>4, <1>5 DEF PipesInv

\* pipe() or fork() fails, or a signal leaves a backquote.
LEMMA FailHolds == ASSUME PipesInv, pipeforkFails \/ bqinputThrows PROVE PipesInv'
<1>0. PipesTypeOK /\ ShellHolds /\ Shell \notin Child /\ fds[Shell] \in [Fd -> PipeContent]
  BY WiresKept DEF PipesInv, PipesTypeOK
<1>1. step' = [step EXCEPT ![Shell] = "failed"] /\ UNCHANGED <<op, wires, argv, io>>
  BY DEF pipeforkFails, bqinputThrows
<1>2. /\ step' \in [{Shell} \cup Child ->
                      {"loop", "failed", "bqinput", "eval", "wait", "waitthrow", "done", "thrown",
                       "none", "wire", "run", "ended", "waited"}]
      /\ step'[Shell] = "failed" /\ \A j \in Child : step'[j] = step[j]
  BY <1>0, <1>1 DEF PipesTypeOK
<1>3. \E t \in [Fd -> PipeContent] : fds' = [fds EXCEPT ![Shell] = t]
  <2>1. CASE UNCHANGED fds
    BY <1>0, <2>1 DEF PipesTypeOK
  <2>2. CASE pipeforkFails /\ fds' # fds
    <3> DEFINE rEnd == [pipe |-> Forked + 1, side |-> "r"]
               wEnd == [pipe |-> Forked + 1, side |-> "w"]
               t == fds[Shell]
               new == [t EXCEPT ![Lower(t)] = rEnd, ![Upper(t)] = wEnd]
    <3>1. step[Shell] = "loop" /\ Forked + 1 < N
      BY <2>2 DEF pipeforkFails
    <3>2. PICK n \in 0 .. N - 1 : ForkedAre(n)
      BY <1>0, <3>1 DEF ShellHolds
    <3>3. Forked + 1 \in Pipe
      BY <1>0, <3>1, <3>2, ForkedIs, PipesAssumption DEF PipesTypeOK, Pipe, N
    <3>4. rEnd \in PipeContent /\ wEnd \in PipeContent
      BY <3>3, ContentFacts DEF PipeContent
    <3>5. new \in [Fd -> PipeContent]
      BY <1>0, <3>4
    <3>6. fds' = [fds EXCEPT ![Shell] = new]
      BY <2>2 DEF pipeforkFails
    <3> QED
      BY <3>5, <3>6
  <2> QED
    BY <2>1, <2>2 DEF pipeforkFails, bqinputThrows
<1>4. PICK t \in [Fd -> PipeContent] : fds' = [fds EXCEPT ![Shell] = t]
  BY <1>3
<1> QED
  BY <1>0, <1>1, <1>2, <1>4, ShellStep


\* The last command is over, and the shell closes the end it kept for it.
LEMMA EvalEndsHolds == ASSUME PipesInv, evalEnds PROVE PipesInv'
<1>0. /\ PipesTypeOK /\ ShellHolds /\ Shell \notin Child /\ fds[Shell] \in [Fd -> PipeContent]
      /\ UNCHANGED <<op, wires, argv, io>> /\ step[Shell] = "eval"
  BY WiresKept DEF PipesInv, PipesTypeOK, evalEnds
<1>1. EndsIn(fds[Shell]) = {Kept} /\ Kept \in Fd
  <2>1. EndsIn(fds[Shell]) = {Kept}
    BY <1>0 DEF ShellHolds, EndsOf, EndsIn
  <2>2. \A d \in EndsIn(fds[Shell]) : d \in Fd
    BY DEF EndsIn
  <2> QED
    BY <2>1, <2>2
<1> DEFINE t == close(fds[Shell], Kept)
<1>2. t \in [Fd -> PipeContent] /\ EndsIn(t) = {}
  BY <1>0, <1>1, CloseEnds
<1>3. fds' = [fds EXCEPT ![Shell] = t]
  BY DEF evalEnds
<1>4. PICK s \in {"done", "wait", "thrown", "waitthrow"} :
        /\ step' = [step EXCEPT ![Shell] = s]
        /\ s = "wait" => op # "here"
        /\ s = "done" => op = "here"
  BY DEF evalEnds
<1>5. /\ step' \in [{Shell} \cup Child ->
                      {"loop", "failed", "bqinput", "eval", "wait", "waitthrow", "done", "thrown",
                       "none", "wire", "run", "ended", "waited"}]
      /\ step'[Shell] = s /\ \A j \in Child : step'[j] = step[j]
  BY <1>0, <1>4 DEF PipesTypeOK
<1> HIDE DEF t
<1> QED
  BY <1>0, <1>2, <1>3, <1>4, <1>5, ShellStep

\* The shell waits for the children, the last one first.
LEMMA EwaitforHolds == ASSUME PipesInv, ewaitfor PROVE PipesInv'
<1>0. /\ PipesTypeOK /\ ShellHolds /\ Shell \notin Child /\ fds[Shell] \in [Fd -> PipeContent]
      /\ UNCHANGED <<op, wires, argv, io, fds>> /\ step[Shell] \in {"wait", "waitthrow"}
      /\ fds' = [fds EXCEPT ![Shell] = fds[Shell]]
  BY WiresKept DEF PipesInv, PipesTypeOK, ewaitfor
<1>1. PICK k \in 1 .. N - 1 :
        /\ step[k] = "ended" /\ \A j \in k + 1 .. N - 1 : step[j] = "waited"
        /\ step' = [step EXCEPT ![k] = "waited",
                                ![Shell] = IF k > 1 THEN @
                                           ELSE IF @ = "wait" THEN "done" ELSE "thrown"]
  BY DEF ewaitfor
<1>2. k \in Child /\ k # Shell /\ k \in Nat /\ N \in Nat
  BY <1>0, WiresKept, PipesAssumption DEF Child
<1>3. /\ step'[Shell] = IF k > 1 THEN step[Shell]
                        ELSE IF step[Shell] = "wait" THEN "done" ELSE "thrown"
      /\ step'[k] = "waited" /\ \A j \in Child \ {k} : step'[j] = step[j]
      /\ step' \in [{Shell} \cup Child ->
                      {"loop", "failed", "bqinput", "eval", "wait", "waitthrow", "done", "thrown",
                       "none", "wire", "run", "ended", "waited"}]
  BY <1>0, <1>1, <1>2 DEF PipesTypeOK
<1>4. EndsIn(fds[Shell]) = {} /\ (step[Shell] = "wait" => op # "here")
  BY <1>0 DEF ShellHolds, EndsOf, EndsIn
<1>5. step'[Shell] = "done" => \A j \in 1 .. N - 1 : step'[j] = "waited"
  <2> SUFFICES ASSUME step'[Shell] = "done", NEW j \in 1 .. N - 1 PROVE step'[j] = "waited"
    OBVIOUS
  <2>1. k = 1
    BY <1>0, <1>2, <1>3
  <2>2. j \in Child
    BY <1>0, WiresKept, PipesAssumption DEF Child
  <2>3. CASE j = k
    BY <1>3, <2>3
  <2>4. CASE j # k
    <3>1. j \in k + 1 .. N - 1
      BY <1>2, <2>1, <2>4
    <3> QED
      BY <1>1, <1>3, <2>2, <2>4, <3>1
  <2> QED
    BY <2>3, <2>4
<1>6. \A j \in Child : step'[j] = step[j] \/ (step[j] = "ended" /\ step'[j] = "waited")
  BY <1>1, <1>3
<1>7. step'[Shell] \in {"wait", "waitthrow", "done", "thrown"}
  BY <1>0, <1>3
<1> QED
  BY <1>0, <1>3, <1>4, <1>5, <1>6, <1>7, ShellStep

\* The shell reads what a backquote prints, to its end.
LEMMA BqinputHolds == ASSUME PipesInv, bqinput PROVE PipesInv'
<1>0. /\ PipesTypeOK /\ ShellHolds /\ AllWaited /\ \A j \in Child : CommandHolds(j)
      /\ Shell \notin Child /\ fds[Shell] \in [Fd -> PipeContent]
      /\ UNCHANGED <<op, wires, argv, io>> /\ step[Shell] = "bqinput"
  BY WiresKept DEF PipesInv, PipesTypeOK, bqinput
<1>1. CASE UNCHANGED <<fds, step>>
  <2>1. ShellHolds' /\ AllWaited'
    BY <1>0, <1>1, ShellKept
  <2>2. PipesTypeOK'
    BY <1>0, <1>1 DEF PipesTypeOK
  <2> QED
    BY <1>0, <1>1, <2>1, <2>2, CommandKept DEF PipesInv
<1>2. CASE /\ fds' = [fds EXCEPT ![Shell] = close(@, argv[1].r)]
           /\ step' = [step EXCEPT ![Shell] = "wait"]
  <2> DEFINE t == close(fds[Shell], argv[1].r)
  <2>1. Kept = argv[1].r /\ op = "backquote"
    <3>1. op = "backquote"
      BY <1>0 DEF ShellHolds
    <3>2. N - 1 = 1
      <4>1. Len(wires) = 1
        BY <1>0, <3>1 DEF PipesTypeOK
      <4> QED
        BY <4>1 DEF N
    <3> QED
      BY <3>1, <3>2 DEF Kept
  <2>2. EndsIn(fds[Shell]) = {argv[1].r} /\ argv[1].r \in Fd
    <3>1. EndsIn(fds[Shell]) = {argv[1].r}
      BY <1>0, <2>1 DEF ShellHolds, EndsOf, EndsIn
    <3>2. \A d \in EndsIn(fds[Shell]) : d \in Fd
      BY DEF EndsIn
    <3> QED
      BY <3>1, <3>2
  <2>3. t \in [Fd -> PipeContent] /\ EndsIn(t) = {}
    BY <1>0, <2>2, CloseEnds
  <2>4. /\ step' \in [{Shell} \cup Child ->
                      {"loop", "failed", "bqinput", "eval", "wait", "waitthrow", "done", "thrown",
                       "none", "wire", "run", "ended", "waited"}]
        /\ step'[Shell] = "wait" /\ \A j \in Child : step'[j] = step[j]
    BY <1>0, <1>2 DEF PipesTypeOK
  <2>5. fds' = [fds EXCEPT ![Shell] = t]
    BY <1>2
  <2> HIDE DEF t
  <2> QED
    BY <1>0, <2>1, <2>3, <2>4, <2>5, ShellStep
<1> QED
  BY <1>1, <1>2 DEF bqinput

\* The last command starts with the end of the pipe that the shell kept.
LEMMA RunlastHolds == ASSUME PipesInv, runlast PROVE PipesInv'
<1>0. /\ PipesTypeOK /\ ShellHolds /\ AllWaited /\ \A j \in Child : CommandHolds(j)
      /\ Shell \notin Child /\ N \in Child /\ N \in Nat /\ N = Len(wires) + 1 /\ N # Shell
      /\ fds[Shell] \in [Fd -> PipeContent]
      /\ UNCHANGED <<op, wires, argv>> /\ step[Shell] = "loop"
  BY WiresKept DEF PipesInv, PipesTypeOK, runlast
<1> PICK n \in 0 .. N - 1 :
      /\ ForkedAre(n)
      /\ EndsOf(Shell) = IF n = 0 THEN {} ELSE {KeptOf(n)}
      /\ n > 0 => fds[Shell][KeptOf(n)].side = IF op = "writeto" THEN "w" ELSE "r"
  BY <1>0 DEF ShellHolds
<1> DEFINE t == fds[Shell]
           to == wires[N - 1].in
           end == Kept
<1>1. n = N - 1 /\ n > 0 /\ (op # "pipe" => N - 1 = 1)
  <2>1. Forked = n /\ Forked = N - 1
    BY <1>0, ForkedIs DEF runlast
  <2>2. N > 1
    BY <1>0, ForkedIs
  <2>3. op # "pipe" => N - 1 = 1
    BY <1>0 DEF PipesTypeOK
  <2> QED
    BY <1>0, <2>1, <2>2, <2>3
<1>2. KeptOf(n) = end
  BY <1>1 DEF KeptOf, Kept, PipesTypeOK
<1>3. /\ EndsIn(t) = {end} /\ end \in Fd /\ to \in Fd
      /\ t[end].side = IF op = "writeto" THEN "w" ELSE "r"
  <2>1. EndsIn(t) = {end}
    BY <1>1, <1>2 DEF EndsIn, EndsOf
  <2>2. \A d \in EndsIn(t) : d \in Fd
    BY DEF EndsIn
  <2>3. N - 1 \in 1 .. N - 1
    BY <1>0, <1>1
  <2> QED
    BY <1>0, <1>1, <1>2, <2>1, <2>2, <2>3, WiresKept
<1>4. CASE op = "backquote"
  <2>1. /\ step' = [step EXCEPT ![Shell] = "bqinput"] /\ UNCHANGED <<fds, io>>
        /\ fds' = [fds EXCEPT ![Shell] = t]
    BY <1>0, <1>4 DEF runlast, PipesTypeOK
  <2>2. /\ step' \in [{Shell} \cup Child ->
                      {"loop", "failed", "bqinput", "eval", "wait", "waitthrow", "done", "thrown",
                       "none", "wire", "run", "ended", "waited"}]
        /\ step'[Shell] = "bqinput" /\ \A j \in Child : step'[j] = step[j]
    BY <1>0, <2>1 DEF PipesTypeOK
  <2> QED
    BY <1>0, <1>3, <1>4, <2>1, <2>2, ShellStep
<1>5. CASE op # "backquote"
  <2> DEFINE u == IF op \in {"pipe", "here"} THEN mvfd(t, end, to) ELSE t
             now == CASE op \in {"pipe", "here"} -> [read |-> to, write |-> None]
                      [] op = "readfrom" -> [read |-> end, write |-> None]
                      [] op = "writeto" -> [read |-> None, write |-> end]
  <2>1. op \in {"pipe", "here", "readfrom", "writeto"}
    BY <1>0, <1>5 DEF PipesTypeOK
  <2>2. /\ step' = [step EXCEPT ![Shell] = "eval", ![N] = "run"]
        /\ fds' = [fds EXCEPT ![N] = u] /\ io' = [io EXCEPT ![N] = now]
    <3>1. op # "writeto" => argv[N - 1].r = end
      BY DEF Kept
    <3>2. op = "writeto" => argv[1].w = end
      BY DEF Kept
    <3>3. fds' = [fds EXCEPT ![N] = u]
      BY <1>5, <3>1 DEF runlast
    <3>4. io' = [io EXCEPT ![N] = now]
      BY <1>5, <2>1, <3>1, <3>2 DEF runlast
    <3> QED
      BY <1>5, <3>3, <3>4 DEF runlast
  <2>3. /\ u \in [Fd -> PipeContent] /\ now \in [read : Fd \cup {None}, write : Fd \cup {None}]
        /\ EndsIn(u) = {d \in {now.read, now.write} : d # None}
        /\ now.write # None => u[now.write].side = "w"
        /\ now.read # None => u[now.read].side = "r"
    <3>0. None \notin Fd
      BY DEF None, Fd
    <3>1. CASE op \in {"pipe", "here"}
      <4>1. u = mvfd(t, end, to) /\ now = [read |-> to, write |-> None]
        BY <3>1
      <4>2. end \in EndsIn(t) /\ t \in [Fd -> PipeContent]
        BY <1>0, <1>3
      <4>3. /\ u \in [Fd -> PipeContent] /\ EndsIn(u) = (EndsIn(t) \ {end}) \cup {to}
            /\ u[to] = t[end]
        <5> HIDE DEF t, end, to, u
        <5> QED
          BY <1>3, <4>1, <4>2, MoveEnds
      <4> HIDE DEF t, end, to, u, now
      <4>4. EndsIn(u) = {to} /\ u[to].side = "r"
        BY <1>3, <3>1, <4>3
      <4> QED
        BY <1>3, <3>0, <4>1, <4>3, <4>4
    <3>2. CASE op = "readfrom"
      <4>1. u = t /\ now = [read |-> end, write |-> None]
        BY <3>2
      <4> HIDE DEF end, to, u, now
      <4> QED
        BY <1>0, <1>3, <3>0, <3>2, <4>1
    <3>3. CASE op = "writeto"
      <4>1. u = t /\ now = [read |-> None, write |-> end]
        BY <3>3
      <4> HIDE DEF end, to, u, now
      <4> QED
        BY <1>0, <1>3, <3>0, <3>3, <4>1
    <3> QED
      BY <2>1, <3>1, <3>2, <3>3
  <2> HIDE DEF u, now, end, to
  <2>4. /\ step'[Shell] = "eval" /\ step'[N] = "run" /\ fds'[Shell] = fds[Shell]
        /\ fds'[N] = u /\ io'[N] = now
        /\ \A j \in Child \ {N} : /\ step'[j] = step[j] /\ fds'[j] = fds[j] /\ io'[j] = io[j]
    BY <1>0, <2>2, <2>3 DEF PipesTypeOK
  <2>5. PipesTypeOK'
    <3>1. /\ fds' \in [{Shell} \cup Child -> [Fd -> PipeContent]]
          /\ io' \in [Child -> [read : Fd \cup {None}, write : Fd \cup {None}]]
      BY <1>0, <2>2, <2>3 DEF PipesTypeOK
    <3>2. step' \in [{Shell} \cup Child ->
                      {"loop", "failed", "bqinput", "eval", "wait", "waitthrow", "done", "thrown",
                       "none", "wire", "run", "ended", "waited"}]
      BY <1>0, <2>2 DEF PipesTypeOK
    <3> QED
      BY <1>0, <3>1, <3>2 DEF PipesTypeOK
  <2>6. N' = N /\ Kept' = Kept
    BY <1>0 DEF N, Kept
  <2>7. ForkedAre(N)'
    <3> SUFFICES ASSUME NEW j \in Child PROVE step'[j] # "none" <=> j <= N
      BY <1>0, <2>6 DEF ForkedAre
    <3>1. CASE j = N
      BY <1>0, <2>4, <3>1
    <3>2. CASE j # N
      <4>1. step[j] # "none" <=> j <= n
        BY DEF ForkedAre
      <4>2. j <= N <=> j <= n
        BY <1>0, <1>1, <3>2 DEF Child
      <4> QED
        BY <2>4, <3>2, <4>1, <4>2
    <3> QED
      BY <3>1, <3>2
  <2>8. ShellHolds'
    <3>1. EndsOf(Shell)' = EndsOf(Shell)
      BY <2>4 DEF EndsOf
    <3>2. EndsOf(Shell) = {Kept}
      BY <1>3 DEF EndsOf, EndsIn, end
    <3>3. N \in 0 .. N
      BY <1>0
    <3> QED
      BY <1>0, <2>4, <2>6, <2>7, <3>1, <3>2, <3>3 DEF ShellHolds
  <2>9. CommandHolds(N)'
    <3>1. Joined(N)'
      BY <2>3, <2>4, <2>6 DEF Joined, EndsOf, EndsIn
    <3>2. N <= N
      BY <1>0
    <3> QED
      BY <2>4, <2>6, <3>1, <3>2 DEF CommandHolds
  <2>10. \A j \in Child : CommandHolds(j)'
    <3> SUFFICES ASSUME NEW j \in Child PROVE CommandHolds(j)'
      OBVIOUS
    <3>1. CASE j # N
      BY <1>0, <2>4, <3>1, CommandKept
    <3>2. CASE j = N
      BY <2>6, <2>9, <3>2
    <3> QED
      BY <3>1, <3>2
  <2>11. AllWaited'
    BY <2>4 DEF AllWaited
  <2> QED
    BY <2>5, <2>8, <2>10, <2>11 DEF PipesInv
<1> QED
  BY <1>4, <1>5

-----------------------------------------------------------------------------
LEMMA PipesNextHolds == PipesInv /\ [PipesNext]_pipevars => PipesInv'
<1> SUFFICES ASSUME PipesInv, [PipesNext]_pipevars PROVE PipesInv'
  OBVIOUS
<1>1. CASE UNCHANGED pipevars
  <2>0. /\ PipesTypeOK /\ ShellHolds /\ AllWaited /\ \A j \in Child : CommandHolds(j)
        /\ UNCHANGED <<op, wires, fds, step, argv, io>>
    BY <1>1 DEF PipesInv, pipevars
  <2>1. ShellHolds' /\ AllWaited'
    BY <2>0, ShellKept
  <2>2. PipesTypeOK'
    BY <2>0 DEF PipesTypeOK
  <2> QED
    BY <2>0, <2>1, <2>2, CommandKept DEF PipesInv
<1>2. ASSUME NEW k \in Child, Wire(k) \/ Read(k) \/ Write(k) \/ Stop(k) PROVE PipesInv'
  BY <1>2, WireHolds, RunHolds
<1> QED
  BY <1>1, <1>2, PipeforkHolds, FailHolds, RunlastHolds, EvalEndsHolds, EwaitforHolds, BqinputHolds
     DEF PipesNext

LEMMA JoinedThen == PipesInv => PipesJoin
<1> SUFFICES ASSUME PipesInv PROVE PipesJoin
  OBVIOUS
<1>0. PipesTypeOK /\ ShellHolds /\ AllWaited /\ \A k \in Child : CommandHolds(k)
  BY DEF PipesInv
<1>1. PICK n : ForkedAre(n)
  BY <1>0 DEF ShellHolds
<1>2. Forked = n /\ n \in Nat
  BY <1>0, <1>1, ForkedIs
<1>3. ASSUME NEW k \in Child, step[k] = "run", ~ Collided PROVE Joined(k)
  <2>1. k \in 1 .. Forked
    BY <1>0, <1>1, <1>2, <1>3, WiresKept DEF ForkedAre
  <2> QED
    BY <1>0, <1>3, <2>1 DEF CommandHolds, Collided
<1> QED
  BY <1>0, <1>3 DEF PipesJoin, ShellHolds, AllWaited

\* Whatever the wires, the number of commands and what a pipe holds: a command
\* holds the ends of pipes it is to read and write and no other, but for wires
\* that collide with the pipe; a primitive that is over has left the shell no
\* end of a pipe, and has waited for its children.
\* (prim-io.c: "pipefork -- create a pipe and fork")
THEOREM PipesAlwaysJoin == PipesSpec => []PipesJoin
<1>1. PipesInit => PipesInv
  BY PipesStart
<1>2. PipesInv /\ [PipesNext]_pipevars => PipesInv'
  BY PipesNextHolds
<1>3. PipesInv => PipesJoin
  BY JoinedThen
<1> QED
  BY <1>1, <1>2, <1>3, PTL DEF PipesSpec
=============================================================================
