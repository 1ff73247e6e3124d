---------------------------- MODULE CollectorView ---------------------------
(***************************************************************************)
(* The properties of the collector: what the program sees through its      *)
(* registered variables is a heap in which nothing moves.                  *)
(***************************************************************************)
EXTENDS Collector

Nothing == 0
Wild == -1

\* The pointers in the objects that some pointers lead to.
Within(S) ==
  UNION {ToSet(ObjectAt(p).fields) \ {Null} : p \in {q \in S : IsObject(q)}}

Further(S) == S \cup Within(S)

\* The pointers the program can come by, as they are now.
Held ==
  LET held[n \in 0 .. 2 * Cardinality(Data)] ==
        IF n = 0 THEN ToSet(rootlist) \ {Null}
        ELSE Further(held[n - 1])
  IN held[2 * Cardinality(Data)]

DataAt(p) ==
  IF p = Null THEN Nothing ELSE IF IsObject(p) THEN ObjectAt(p).data ELSE Wild

\* What the program sees: which objects its variables refer to, and which
\* objects the objects in reach refer to.
View ==
  [roots |-> [i \in Var |-> DataAt(rootlist[i])],
   edges |-> {<<o.data, [f \in 1 .. Len(o.fields) |-> DataAt(o.fields[f])]>> :
                o \in {ObjectAt(p) : p \in {q \in Held : IsObject(q)}}}]

\* A collection changes nothing the program can see: not what its variables
\* refer to, not what is shared, not what those objects refer to. (gc.c:
\* forward, scanroots, scanspace, gc)
CollectionIsInvisible == [][pc \notin {"run", "alloc"} => View' = View]_vars

-----------------------------------------------------------------------------
TypeOK ==
  /\ \A s \in 1 .. Len(new) : new[s].objs \in Seq(Object)
  /\ \A s \in 1 .. Len(old) : old[s].objs \in Seq(Object)
  /\ minspace \in Nat \ {0}
  /\ rootlist \in Seq(Pointer)
  /\ gcblocked \in 0 .. MaxBlock + 1
  /\ want \in Seq(0 .. MaxRoots)
  /\ pc \in PC
  /\ \A s \in 1 .. Len(new) : new[s].current <= new[s].size

\* No object is copied twice, and no space is overfull: what two variables share, they share after a
\* collection. (gc.c: forward)
NothingDoubled ==
  /\ TypeOK
  /\ \A s, t \in 1 .. Len(new) :
       \A i \in 1 .. Len(new[s].objs), j \in 1 .. Len(new[t].objs) :
         new[s].objs[i].data = new[t].objs[j].data => s = t /\ i = j

\* Outside a round of gc() everything in reach is in the new space: no
\* pointer is left to memory that has been freed. (gc.c: "scanspace -- scan
\* new space until it is up to date")
NothingDangles ==
  pc \in {"run", "alloc", "gc"} => \A p \in Held : IsObject(p) /\ ~ p.old

\* A pass of scanspace goes from the front space to the older ones, and goes
\* on to copy into the front space when it has left it: what is copied there
\* then is scanned by a next pass only if there is one more space by its end.
LateCopy ==
  /\ pc = "space"
  /\ Scanning
  /\ Moves(Here)
  /\ Fits(Cells(ObjectAt(Here)))
  /\ at.space < at.front
  /\ at.front = Len(new)

\* While the program has collections disabled no object moves, so that it
\* may use pointers that are not registered. (gc.c: gcdisable, gcalloc, gc)
Contents(sp) == [i \in 1 .. Len(sp.objs) |-> sp.objs[i].data]
NothingMoves ==
  \A s \in 1 .. Len(new) : IsPrefix(Contents(new[s]), Contents(new'[s]))
PinnedWhileBlocked ==
  [][(gcblocked > 0 /\ pc \in {"run", "alloc", "gc"}) => NothingMoves]_vars

\* gc() collects again as long as one space was not enough, and the second
\* time it is. (gc.c: gc, the size of the next space)
SecondRoundSuffices == rounds <= 2

\* The space that is added for an object has room for it, in gcalloc() and in
\* the copy methods that call it. (gc.c: "gcalloc -- allocate an object in new
\* space")
GrownSpaceFits ==
  [][(pc = "alloc" /\ Len(new') > Len(new)) => Fits(Len(want) + 1)']_vars

\* gcalloc() returns an object, when it may collect. (gc.c: "gcalloc --
\* allocate an object in new space")
AllocationEnds == (pc = "alloc" /\ gcblocked = 0) ~> (pc = "run")
=============================================================================
