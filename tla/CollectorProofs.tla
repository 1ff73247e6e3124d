-------------------------- MODULE CollectorProofs ---------------------------
(***************************************************************************)
(* What is proved of the collector: that it copies an object once, does    *)
(* not move one while collections are disabled and needs no third round,   *)
(* and, unless a copy is late, that no pointer is left behind and that the *)
(* program sees nothing of a collection.                                   *)
(***************************************************************************)
EXTENDS CollectorView, SequenceTheorems, Induction

-----------------------------------------------------------------------------
(* The addresses in a chain of spaces, and the objects there.              *)

In(ch, s, i) == s \in 1 .. Len(ch) /\ i \in 1 .. Len(ch[s].objs)
Obj(ch, s, i) == ch[s].objs[i]

FullObject == {o \in Object : o.fields # << >>}
Space == [size : Nat, current : Nat, objs : Seq(FullObject)]
Chain == Seq(Space)

-----------------------------------------------------------------------------
(* The invariant.                                                          *)

Pos == Nat \ {0}
AtType == [root : Pos, scanned : Nat, front : Nat, space : Nat, obj : Pos, field : Pos]

Busy == pc \in {"roots", "pass", "space", "adjust"}

GCTypeOK ==
  /\ new \in Chain /\ new # << >>
  /\ old \in Chain
  /\ minspace \in Nat \ {0}
  /\ rootlist \in Seq(Pointer) /\ Len(rootlist) <= MaxRoots
  /\ want \in Seq(0 .. Len(rootlist))
  /\ pc \in PC
  /\ at \in AtType
  /\ rounds \in Nat

\* A round of gc() has collections disabled, and only a round has an old
\* space.
Control ==
  /\ pc = "run" => want = << >>
  /\ want # << >> => Len(rootlist) < MaxRoots
  /\ pc = "alloc" => want # << >>
  /\ Busy => gcblocked = 1
  /\ ~ Busy => old = << >> /\ gcblocked \in 0 .. MaxBlock

\* A pass is between the front it began with and the last space scanned.
AtOK ==
  /\ pc = "roots" => at.scanned = 0
  /\ pc = "pass" => at.scanned <= Len(new)
  /\ pc = "space" =>
       /\ at.scanned <= at.space /\ at.space <= at.front /\ at.front <= Len(new)
       /\ at.field = 1 \/ (Scanning /\ at.field <= Len(Obj(new, at.space, at.obj).fields))

Filled == \A s \in 1 .. Len(new) : new[s].current <= new[s].size

\* A pointer leads to an object, unless it was left behind by a collection.
Sound(p) == p = Null \/ IsObject(p) \/ (p.old /\ (Busy => p = Stale))

RootsSound == \A i \in 1 .. Len(rootlist) : Sound(rootlist[i])
NewSound ==
  \A s, i, f \in Nat :
    In(new, s, i) /\ f \in 1 .. Len(Obj(new, s, i).fields) =>
      Sound(Obj(new, s, i).fields[f])
OldSound ==
  \A s, i, f \in Nat :
    In(old, s, i) /\ f \in 1 .. Len(Obj(old, s, i).fields) =>
      Sound(Obj(old, s, i).fields[f])

\* What was moved is where it was moved to, and all that is there was moved.
IsCopied(p, d) ==
  p = Null \/ (/\ ~ p.old /\ In(new, p.space, p.obj)
               /\ Obj(new, p.space, p.obj).data = d)
MovedIsThere ==
  \A s, i \in Nat :
    In(old, s, i) => IsCopied(Obj(old, s, i).moved, Obj(old, s, i).data)

WasMoved(s, i) ==
  \E t, j \in Nat :
    /\ In(old, t, j)
    /\ Obj(old, t, j).moved = [old |-> FALSE, space |-> s, obj |-> i]
    /\ Obj(old, t, j).data = Obj(new, s, i).data
ThereIsMoved ==
  \A s, i \in Nat : In(new, s, i) =>
    Obj(new, s, i).moved = Null /\ (Busy => WasMoved(s, i))

Distinct(ch) ==
  \A s, i, t, j \in Nat :
    In(ch, s, i) /\ In(ch, t, j) /\ Obj(ch, s, i).data = Obj(ch, t, j).data =>
      s = t /\ i = j

HeapInv ==
  /\ GCTypeOK /\ Control /\ AtOK /\ Filled
  /\ RootsSound /\ NewSound /\ OldSound
  /\ MovedIsThere /\ ThereIsMoved
  /\ Distinct(new) /\ Distinct(old)

-----------------------------------------------------------------------------
(* The ways in which a chain of spaces changes.                            *)

LEMMA NullFacts ==
  /\ Null \in Pointer /\ Stale \in Pointer
  /\ Null.old = FALSE /\ Null.space = 0 /\ Null.obj = 0
  /\ Stale.old = TRUE /\ Stale.space = 0 /\ Null # Stale
BY DEF Null, Stale, Pointer

LEMMA FunctionSeq ==
  ASSUME NEW S, NEW n \in Nat, NEW q \in [1 .. n -> S]
  PROVE  q \in Seq(S) /\ Len(q) = n /\ (n # 0 => q # << >>)
OBVIOUS

\* A space is added.
SpaceAdded(ch, size) == Append(ch, newspace(size))

SpaceIsAdded(ch, ch2, size) ==
  /\ ch2 \in Chain /\ ch2 # << >> /\ Len(ch2) = Len(ch) + 1
  /\ \A s, i \in Nat : In(ch2, s, i) <=> In(ch, s, i)
  /\ \A s \in 1 .. Len(ch) : ch2[s] = ch[s]
  /\ ch2[Len(ch2)] = newspace(size)

LEMMA AddedSpace ==
  ASSUME NEW ch \in Chain, NEW size \in Nat,
         NEW ch2, ch2 = SpaceAdded(ch, size)
  PROVE  SpaceIsAdded(ch, ch2, size)
<1>1. newspace(size) \in Space /\ newspace(size).objs = << >>
  BY DEF newspace, Space
<1>2. ch2 \in Chain /\ Len(ch2) = Len(ch) + 1 /\ ch2 # << >>
  <2> SUFFICES ASSUME NEW sp \in Space
               PROVE  /\ Append(ch, sp) \in Chain /\ Append(ch, sp) # << >>
                      /\ Len(Append(ch, sp)) = Len(ch) + 1
    BY <1>1 DEF SpaceAdded
  <2> QED
    BY AppendProperties DEF Chain
<1>3. \A s \in 1 .. Len(ch) : ch2[s] = ch[s]
  BY <1>1 DEF Chain, SpaceAdded
<1>4. ch2[Len(ch) + 1] = newspace(size)
  BY <1>1 DEF Chain, SpaceAdded
<1>5. Len(ch) \in Nat
  BY DEF Chain
<1>6. ASSUME NEW s \in Nat, NEW i \in Nat PROVE In(ch2, s, i) <=> In(ch, s, i)
  <2>1. CASE s = Len(ch) + 1
    <3>1. Len(ch2[s].objs) = 0
      BY <2>1, <1>1, <1>4
    <3> QED
      BY <2>1, <3>1, <1>5 DEF In
  <2>2. CASE s \in 1 .. Len(ch)
    BY <2>2, <1>2, <1>3, <1>5 DEF In
  <2>3. CASE s \notin 1 .. Len(ch) + 1
    BY <2>3, <1>2, <1>5 DEF In
  <2> QED
    BY <2>1, <2>2, <2>3, <1>5
<1> QED
  BY <1>2, <1>3, <1>4, <1>6 DEF SpaceIsAdded

\* An object is put in the front space.
ObjectAdded(ch, o) == [ch EXCEPT ![Len(ch)] = With(@, o)]

ObjectIsAdded(ch, ch2, n, k, o) ==
  /\ ch2 \in Chain /\ ch2 # << >> /\ Len(ch2) = n /\ n \in Nat \ {0}
  /\ k \in Nat \ {0}
  /\ \A s, i \in Nat :
       In(ch2, s, i) <=> (In(ch, s, i) \/ (s = n /\ i = k))
  /\ ~ In(ch, n, k)
  /\ \A s, i \in Nat : In(ch, s, i) => Obj(ch2, s, i) = Obj(ch, s, i)
  /\ Obj(ch2, n, k) = o
  /\ \A s \in 1 .. n : ch2[s].size = ch[s].size
  /\ \A s \in 1 .. n : s # n => ch2[s] = ch[s]
  /\ ch2[n].current = ch[n].current + Cells(o)
  /\ ch2[n].objs = Append(ch[n].objs, o)
  /\ Cells(o) \in Nat

LEMMA AddedObject ==
  ASSUME NEW ch \in Chain, ch # << >>, NEW o \in FullObject,
         NEW ch2, ch2 = ObjectAdded(ch, o),
         NEW n, n = Len(ch), NEW k, k = Len(ch[n].objs) + 1
  PROVE  ObjectIsAdded(ch, ch2, n, k, o)
<1>1. n \in Nat \ {0} /\ \A s \in 1 .. n : ch[s] \in Space
  BY DEF Chain
<1>2. ch[n] \in Space
  BY <1>1
<1>3. Cells(o) \in Nat
  BY DEF Cells, FullObject, Object
<1>4. With(ch[n], o) = [size |-> ch[n].size, current |-> ch[n].current + Cells(o),
                         objs |-> Append(ch[n].objs, o)]
  BY DEF With
<1>5. ch[n].current + Cells(o) \in Nat
  BY <1>2, <1>3 DEF Space
<1>6. Append(ch[n].objs, o) \in Seq(FullObject)
  BY <1>2 DEF Space
<1>7. With(ch[n], o) \in Space
  BY <1>2, <1>4, <1>5, <1>6 DEF Space
<1>8. /\ ch2 \in Chain /\ Len(ch2) = n
      /\ \A s \in 1 .. n : ch2[s] = IF s = n THEN With(ch[n], o) ELSE ch[s]
  BY <1>1, <1>7 DEF Chain, ObjectAdded
<1>9. Len(ch[n].objs) \in Nat
  BY <1>2 DEF Space
<1>10. /\ Len(Append(ch[n].objs, o)) = k
       /\ \A i \in 1 .. Len(ch[n].objs) : Append(ch[n].objs, o)[i] = ch[n].objs[i]
       /\ Append(ch[n].objs, o)[k] = o
  BY <1>2 DEF Space
<1>11. ch2[n].objs = Append(ch[n].objs, o) /\ ch2[n].size = ch[n].size
       /\ ch2[n].current = ch[n].current + Cells(o)
  BY <1>1, <1>4, <1>8
<1>12. \A s, i \in Nat : In(ch2, s, i) <=> (In(ch, s, i) \/ (s = n /\ i = k))
  BY <1>1, <1>8, <1>9, <1>10, <1>11 DEF In
<1>13. ~ In(ch, n, k)
  BY <1>9 DEF In
<1>14. \A s, i \in Nat : In(ch, s, i) => Obj(ch2, s, i) = Obj(ch, s, i)
  BY <1>1, <1>8, <1>10, <1>11 DEF In, Obj
<1>15. Obj(ch2, n, k) = o
  BY <1>10, <1>11 DEF Obj
<1>16. ch2 # << >>
  BY <1>1, <1>8
<1>17. /\ \A s \in 1 .. n : ch2[s].size = ch[s].size
       /\ \A s \in 1 .. n : s # n => ch2[s] = ch[s]
  BY <1>8, <1>11
<1>18. k \in Nat \ {0}
  BY <1>9
<1> QED
  BY <1>1, <1>3, <1>8, <1>11, <1>12, <1>13, <1>14, <1>15, <1>16, <1>17, <1>18 DEF ObjectIsAdded


\* One object is replaced.
Replaced(ch, s, i, o) == [ch EXCEPT ![s].objs[i] = o]

LEMMA ReplacedObject ==
  ASSUME NEW ch \in Chain, NEW s \in Nat, NEW i \in Nat, In(ch, s, i),
         NEW o \in FullObject,
         NEW ch2, ch2 = Replaced(ch, s, i, o)
  PROVE  /\ ch2 \in Chain /\ Len(ch2) = Len(ch)
         /\ \A t, j \in Nat : In(ch2, t, j) <=> In(ch, t, j)
         /\ \A t, j \in Nat : In(ch, t, j) =>
              Obj(ch2, t, j) = IF t = s /\ j = i THEN o ELSE Obj(ch, t, j)
         /\ \A t \in 1 .. Len(ch) : /\ ch2[t].size = ch[t].size
                                    /\ ch2[t].current = ch[t].current
                                    /\ Len(ch2[t].objs) = Len(ch[t].objs)
<1>1. /\ s \in 1 .. Len(ch) /\ i \in 1 .. Len(ch[s].objs) /\ Len(ch) \in Nat
      /\ \A t \in 1 .. Len(ch) : ch[t] \in Space
  BY DEF In, Chain
<1>2. PICK sp \in Space : sp = ch[s]
  BY <1>1
<1>3. PICK q \in Seq(FullObject) : q = [sp.objs EXCEPT ![i] = o]
  <2>1. sp.objs \in Seq(FullObject) /\ i \in 1 .. Len(sp.objs)
    BY <1>1, <1>2 DEF Space
  <2> QED
    BY <2>1, ExceptSeq
<1>4. PICK sp2 : sp2 = [sp EXCEPT !.objs = q]
  OBVIOUS
<1>5. sp2 \in Space /\ sp2.objs = q /\ sp2.size = sp.size /\ sp2.current = sp.current
  BY <1>2, <1>3, <1>4 DEF Space
<1>6. ch2 = [ch EXCEPT ![s] = sp2]
  BY <1>2, <1>3, <1>4 DEF Replaced
<1>7. /\ ch2 \in Chain /\ Len(ch2) = Len(ch)
      /\ \A t \in 1 .. Len(ch) : ch2[t] = IF t = s THEN sp2 ELSE ch[t]
  <2>1. ch \in Seq(Space) /\ s \in 1 .. Len(ch) /\ sp2 \in Space
    BY <1>1, <1>5 DEF Chain
  <2> QED
    BY <2>1, <1>6, ExceptSeq DEF Chain
<1>8. /\ Len(q) = Len(sp.objs)
      /\ \A j \in 1 .. Len(sp.objs) : q[j] = IF j = i THEN o ELSE sp.objs[j]
  BY <1>2, <1>3 DEF Space
<1>9. \A t \in 1 .. Len(ch) : /\ ch2[t].size = ch[t].size
                              /\ ch2[t].current = ch[t].current
                              /\ Len(ch2[t].objs) = Len(ch[t].objs)
  BY <1>2, <1>5, <1>7, <1>8
<1>10. \A t, j \in Nat : In(ch2, t, j) <=> In(ch, t, j)
  BY <1>7, <1>9 DEF In
<1>11. ASSUME NEW t \in Nat, NEW j \in Nat, In(ch, t, j)
       PROVE  Obj(ch2, t, j) = IF t = s /\ j = i THEN o ELSE Obj(ch, t, j)
  <2>1. t \in 1 .. Len(ch) /\ j \in 1 .. Len(ch[t].objs)
    BY <1>11 DEF In
  <2>2. CASE t = s
    BY <2>1, <2>2, <1>2, <1>5, <1>7, <1>8 DEF Obj
  <2>3. CASE t # s
    BY <2>1, <2>3, <1>7 DEF Obj
  <2> QED
    BY <2>2, <2>3
<1> QED
  BY <1>7, <1>9, <1>10, <1>11

LEMMA ObjectThere ==
  ASSUME NEW ch \in Chain, NEW s \in Nat, NEW i \in Nat, In(ch, s, i)
  PROVE  /\ Obj(ch, s, i) \in FullObject
         /\ Obj(ch, s, i).data \in Data
         /\ Obj(ch, s, i).fields \in Seq(Pointer)
         /\ Obj(ch, s, i).moved \in Pointer
         /\ Len(Obj(ch, s, i).fields) \in Nat \ {0}
<1>1. Obj(ch, s, i) \in FullObject
  <2>1. s \in 1 .. Len(ch) /\ i \in 1 .. Len(ch[s].objs)
    BY DEF In
  <2>2. ch[s] \in Space
    BY <2>1 DEF Chain
  <2>3. ch[s].objs \in Seq(FullObject)
    BY <2>2 DEF Space
  <2> QED
    BY <2>1, <2>3 DEF Obj
<1> QED
  BY <1>1 DEF FullObject, Object

\* A field is set.
FieldSet(ch, s, i, f, p) == [ch EXCEPT ![s].objs[i].fields[f] = p]

FieldIsSet(ch, ch2, s, i, f, p) ==
  /\ ch2 \in Chain /\ Len(ch2) = Len(ch)
  /\ \A t, j \in Nat : In(ch2, t, j) <=> In(ch, t, j)
  /\ \A t, j \in Nat : In(ch, t, j) =>
       /\ Obj(ch2, t, j).data = Obj(ch, t, j).data
       /\ Obj(ch2, t, j).moved = Obj(ch, t, j).moved
       /\ Len(Obj(ch2, t, j).fields) = Len(Obj(ch, t, j).fields)
       /\ \A g \in 1 .. Len(Obj(ch, t, j).fields) :
            Obj(ch2, t, j).fields[g] =
              IF t = s /\ j = i /\ g = f THEN p ELSE Obj(ch, t, j).fields[g]
  /\ \A t \in 1 .. Len(ch) : /\ ch2[t].size = ch[t].size
                             /\ ch2[t].current = ch[t].current
                             /\ Len(ch2[t].objs) = Len(ch[t].objs)

LEMMA ReplacedField ==
  ASSUME NEW ch \in Chain, NEW s \in Nat, NEW i \in Nat, In(ch, s, i),
         NEW f \in 1 .. Len(Obj(ch, s, i).fields), NEW p \in Pointer,
         NEW ch2, ch2 = FieldSet(ch, s, i, f, p)
  PROVE  FieldIsSet(ch, ch2, s, i, f, p)
<1>1. PICK o \in FullObject : o = Obj(ch, s, i)
  BY ObjectThere
<1>2. PICK q : q = [o.fields EXCEPT ![f] = p]
  OBVIOUS
<1>3. /\ q \in Seq(Pointer) /\ Len(q) = Len(o.fields) /\ q # << >>
      /\ \A g \in 1 .. Len(o.fields) : q[g] = IF g = f THEN p ELSE o.fields[g]
  BY <1>1, <1>2 DEF FullObject, Object
<1>4. PICK o2 : o2 = [o EXCEPT !.fields = q]
  OBVIOUS
<1>5. o2 \in FullObject /\ o2.data = o.data /\ o2.moved = o.moved /\ o2.fields = q
  BY <1>1, <1>3, <1>4 DEF FullObject, Object
<1>6. ch2 = Replaced(ch, s, i, o2)
  BY <1>1, <1>2, <1>4 DEF Obj, Replaced, FieldSet
<1>7. /\ ch2 \in Chain /\ Len(ch2) = Len(ch)
      /\ \A t, j \in Nat : In(ch2, t, j) <=> In(ch, t, j)
      /\ \A t, j \in Nat : In(ch, t, j) =>
           Obj(ch2, t, j) = IF t = s /\ j = i THEN o2 ELSE Obj(ch, t, j)
      /\ \A t \in 1 .. Len(ch) : /\ ch2[t].size = ch[t].size
                                 /\ ch2[t].current = ch[t].current
                                 /\ Len(ch2[t].objs) = Len(ch[t].objs)
  BY <1>5, <1>6, ReplacedObject
<1>8. ASSUME NEW t \in Nat, NEW j \in Nat, In(ch, t, j)
      PROVE  /\ Obj(ch2, t, j).data = Obj(ch, t, j).data
             /\ Obj(ch2, t, j).moved = Obj(ch, t, j).moved
             /\ Len(Obj(ch2, t, j).fields) = Len(Obj(ch, t, j).fields)
             /\ \A g \in 1 .. Len(Obj(ch, t, j).fields) :
                  Obj(ch2, t, j).fields[g] =
                    IF t = s /\ j = i /\ g = f THEN p ELSE Obj(ch, t, j).fields[g]
  <2>1. CASE t = s /\ j = i
    BY <2>1, <1>1, <1>3, <1>5, <1>7, <1>8
  <2>2. CASE ~ (t = s /\ j = i)
    BY <2>2, <1>7, <1>8
  <2> QED
    BY <2>1, <2>2
<1> QED
  BY <1>7, <1>8 DEF FieldIsSet

\* An object is marked as moved.
MovedSet(ch, s, i, p) == [ch EXCEPT ![s].objs[i].moved = p]

MovedIsSet(ch, ch2, s, i, p) ==
  /\ ch2 \in Chain /\ Len(ch2) = Len(ch)
  /\ \A t, j \in Nat : In(ch2, t, j) <=> In(ch, t, j)
  /\ \A t, j \in Nat : In(ch, t, j) =>
       /\ Obj(ch2, t, j).data = Obj(ch, t, j).data
       /\ Obj(ch2, t, j).fields = Obj(ch, t, j).fields
       /\ Obj(ch2, t, j).moved =
            IF t = s /\ j = i THEN p ELSE Obj(ch, t, j).moved
  /\ \A t \in 1 .. Len(ch) : /\ ch2[t].size = ch[t].size
                             /\ ch2[t].current = ch[t].current
                             /\ Len(ch2[t].objs) = Len(ch[t].objs)

LEMMA ReplacedMoved ==
  ASSUME NEW ch \in Chain, NEW s \in Nat, NEW i \in Nat, In(ch, s, i),
         NEW p \in Pointer,
         NEW ch2, ch2 = MovedSet(ch, s, i, p)
  PROVE  MovedIsSet(ch, ch2, s, i, p)
<1>1. PICK o \in FullObject : o = Obj(ch, s, i)
  BY ObjectThere
<1>4. PICK o2 : o2 = [o EXCEPT !.moved = p]
  OBVIOUS
<1>5. o2 \in FullObject /\ o2.data = o.data /\ o2.moved = p /\ o2.fields = o.fields
  BY <1>1, <1>4 DEF FullObject, Object
<1>6. ch2 = Replaced(ch, s, i, o2)
  BY <1>1, <1>4 DEF Obj, Replaced, MovedSet
<1>7. /\ ch2 \in Chain /\ Len(ch2) = Len(ch)
      /\ \A t, j \in Nat : In(ch2, t, j) <=> In(ch, t, j)
      /\ \A t, j \in Nat : In(ch, t, j) =>
           Obj(ch2, t, j) = IF t = s /\ j = i THEN o2 ELSE Obj(ch, t, j)
      /\ \A t \in 1 .. Len(ch) : /\ ch2[t].size = ch[t].size
                                 /\ ch2[t].current = ch[t].current
                                 /\ Len(ch2[t].objs) = Len(ch[t].objs)
  BY <1>5, <1>6, ReplacedObject, SMTT(40)
<1>8. ASSUME NEW t \in Nat, NEW j \in Nat, In(ch, t, j)
      PROVE  /\ Obj(ch2, t, j).data = Obj(ch, t, j).data
             /\ Obj(ch2, t, j).fields = Obj(ch, t, j).fields
             /\ Obj(ch2, t, j).moved =
                  IF t = s /\ j = i THEN p ELSE Obj(ch, t, j).moved
  BY <1>1, <1>5, <1>7, <1>8
<1> QED
  BY <1>7, <1>8 DEF MovedIsSet

LEMMA AgedPointer ==
  ASSUME NEW p \in Pointer
  PROVE  /\ Aged(p) \in Pointer
         /\ Aged(p) = Null <=> p = Null
         /\ p.old => Aged(p) = Stale
         /\ p # Null /\ ~ p.old => /\ Aged(p).old /\ Aged(p).space = p.space
                                   /\ Aged(p).obj = p.obj
BY NullFacts DEF Aged, Pointer

\* The whole chain becomes old.
AgedAll(ch) == [s \in DOMAIN ch |-> AgedSpace(ch[s])]

ChainIsAged(ch, ch2) ==
  /\ ch2 \in Chain /\ Len(ch2) = Len(ch)
  /\ \A t, j \in Nat : In(ch2, t, j) <=> In(ch, t, j)
  /\ \A t, j \in Nat : In(ch, t, j) =>
       /\ Obj(ch2, t, j).data = Obj(ch, t, j).data
       /\ Obj(ch2, t, j).moved = Obj(ch, t, j).moved
       /\ Len(Obj(ch2, t, j).fields) = Len(Obj(ch, t, j).fields)
       /\ \A g \in 1 .. Len(Obj(ch, t, j).fields) :
            Obj(ch2, t, j).fields[g] = Aged(Obj(ch, t, j).fields[g])

LEMMA AgedChain ==
  ASSUME NEW ch \in Chain,
         NEW ch2, ch2 = AgedAll(ch)
  PROVE  ChainIsAged(ch, ch2)
<1>1. ASSUME NEW o \in FullObject
      PROVE  /\ AgedObject(o) \in FullObject
             /\ AgedObject(o).data = o.data /\ AgedObject(o).moved = o.moved
             /\ Len(AgedObject(o).fields) = Len(o.fields)
             /\ \A g \in 1 .. Len(o.fields) :
                  AgedObject(o).fields[g] = Aged(o.fields[g])
  <2>1. o.fields \in Seq(Pointer) /\ o.fields # << >> /\ o \in Object
    BY DEF FullObject, Object
  <2>2. PICK q : q = [f \in DOMAIN o.fields |-> Aged(o.fields[f])]
    OBVIOUS
  <2>3. DOMAIN o.fields = 1 .. Len(o.fields) /\ Len(o.fields) \in Nat \ {0}
    BY <2>1
  <2>4. \A f \in 1 .. Len(o.fields) : q[f] = Aged(o.fields[f]) /\ q[f] \in Pointer
    BY <2>1, <2>2, <2>3, AgedPointer
  <2>5. q \in Seq(Pointer) /\ Len(q) = Len(o.fields) /\ q # << >>
    <3>1. q \in [1 .. Len(o.fields) -> Pointer]
      BY <2>2, <2>3, <2>4
    <3> QED
      BY <3>1, <2>3, FunctionSeq
  <2>6. AgedObject(o) = [o EXCEPT !.fields = q]
    BY <2>2 DEF AgedObject
  <2> QED
    BY <2>1, <2>4, <2>5, <2>6 DEF FullObject, Object
<1>2. ASSUME NEW sp \in Space
      PROVE  /\ AgedSpace(sp) \in Space
             /\ Len(AgedSpace(sp).objs) = Len(sp.objs)
             /\ \A i \in 1 .. Len(sp.objs) : AgedSpace(sp).objs[i] = AgedObject(sp.objs[i])
  <2>1. sp.objs \in Seq(FullObject)
    BY DEF Space
  <2>2. PICK q : q = [i \in DOMAIN sp.objs |-> AgedObject(sp.objs[i])]
    OBVIOUS
  <2>3. DOMAIN sp.objs = 1 .. Len(sp.objs) /\ Len(sp.objs) \in Nat
    BY <2>1
  <2>4. \A i \in 1 .. Len(sp.objs) :
          q[i] = AgedObject(sp.objs[i]) /\ q[i] \in FullObject
    BY <2>1, <2>2, <2>3, <1>1
  <2>5. q \in Seq(FullObject) /\ Len(q) = Len(sp.objs)
    <3>1. q \in [1 .. Len(sp.objs) -> FullObject]
      BY <2>2, <2>3, <2>4
    <3> QED
      BY <3>1, <2>3, FunctionSeq
  <2>6. AgedSpace(sp) = [sp EXCEPT !.objs = q]
    BY <2>2 DEF AgedSpace
  <2> QED
    BY <2>4, <2>5, <2>6 DEF Space
<1>3. DOMAIN ch = 1 .. Len(ch) /\ Len(ch) \in Nat
      /\ \A t \in 1 .. Len(ch) : ch[t] \in Space
  BY DEF Chain
<1>4. \A t \in 1 .. Len(ch) : ch2[t] = AgedSpace(ch[t]) /\ ch2[t] \in Space
  BY <1>2, <1>3 DEF AgedAll
<1>5. ch2 \in Chain /\ Len(ch2) = Len(ch)
  <2>1. ch2 \in [1 .. Len(ch) -> Space]
    BY <1>3, <1>4 DEF AgedAll
  <2> QED
    BY <2>1, <1>3, FunctionSeq DEF Chain
<1>6. \A t, j \in Nat : In(ch2, t, j) <=> In(ch, t, j)
  BY <1>2, <1>3, <1>4, <1>5 DEF In
<1>7. \A t, j \in Nat : In(ch, t, j) => Obj(ch2, t, j) = AgedObject(Obj(ch, t, j))
  BY <1>2, <1>3, <1>4 DEF In, Obj
<1> QED
  BY <1>1, <1>5, <1>6, <1>7, ObjectThere DEF ChainIsAged

-----------------------------------------------------------------------------
(* Pointers.                                                               *)

LEMMA PointerFacts ==
  ASSUME NEW p \in Pointer
  PROVE  p.old \in BOOLEAN /\ p.space \in Nat /\ p.obj \in Nat
BY DEF Pointer

LEMMA PointerEqual ==
  ASSUME NEW p \in Pointer, NEW q \in Pointer,
         p.old = q.old, p.space = q.space, p.obj = q.obj
  PROVE  p = q
BY DEF Pointer

LEMMA IsObjectIn ==
  ASSUME NEW p
  PROVE  /\ IsObject(p) <=> In(IF p.old THEN old ELSE new, p.space, p.obj)
         /\ IsObject(p)' <=> In(IF p.old THEN old' ELSE new', p.space, p.obj)
         /\ ObjectAt(p) = Obj(IF p.old THEN old ELSE new, p.space, p.obj)
         /\ ObjectAt(p)' = Obj(IF p.old THEN old' ELSE new', p.space, p.obj)
BY DEF IsObject, ObjectAt, Spaces, In, Obj

LEMMA SoundKept ==
  ASSUME NEW p \in Pointer, Sound(p), Busy' => Busy,
         \A s, i \in Nat : In(new, s, i) => In(new', s, i),
         \A s, i \in Nat : In(old, s, i) => In(old', s, i)
  PROVE  Sound(p)'
BY IsObjectIn, PointerFacts DEF Sound

LEMMA RootThere ==
  ASSUME GCTypeOK, NEW i \in 1 .. Len(rootlist)
  PROVE  rootlist[i] \in Pointer
BY DEF GCTypeOK

LEMMA FieldThere ==
  ASSUME NEW ch \in Chain, NEW s \in Nat, NEW i \in Nat, In(ch, s, i),
         NEW f \in 1 .. Len(Obj(ch, s, i).fields)
  PROVE  Obj(ch, s, i).fields[f] \in Pointer /\ f \in Nat
BY ObjectThere

-----------------------------------------------------------------------------
(* The steps of the program.                                               *)

LEMMA QuietStep ==
  ASSUME HeapInv, ~ Busy, ~ Busy', UNCHANGED <<new, old>>,
         GCTypeOK', Control', RootsSound'
  PROVE  HeapInv'
<1>1. AtOK' /\ Filled'
  BY DEF HeapInv, AtOK, Filled, Busy
<1>2. NewSound' /\ OldSound'
  BY SoundKept, FieldThere DEF HeapInv, GCTypeOK, NewSound, OldSound
<1>3. MovedIsThere' /\ ThereIsMoved' /\ Distinct(new)' /\ Distinct(old)'
  BY DEF HeapInv, MovedIsThere, ThereIsMoved, Distinct, IsCopied, WasMoved
<1> QED
  BY <1>1, <1>2, <1>3 DEF HeapInv

LEMMA FieldOfRoot ==
  ASSUME HeapInv, pc = "run", NEW i \in Var, NEW f, HasField(i, f)
  PROVE  /\ rootlist[i] \in Pointer /\ ~ rootlist[i].old
         /\ In(new, rootlist[i].space, rootlist[i].obj)
         /\ ObjectAt(rootlist[i]) = Obj(new, rootlist[i].space, rootlist[i].obj)
         /\ f \in 1 .. Len(Obj(new, rootlist[i].space, rootlist[i].obj).fields)
         /\ ObjectAt(rootlist[i]).fields[f] \in Pointer
         /\ Sound(ObjectAt(rootlist[i]).fields[f])
<1>1. new \in Chain /\ old = << >>
  BY DEF HeapInv, GCTypeOK, Control, Busy
<1>2. PICK p \in Pointer : p = rootlist[i]
  BY RootThere DEF HeapInv, Var
<1>3. ~ p.old
  BY <1>1, <1>2, IsObjectIn, PointerFacts DEF HasField, In
<1>4. In(new, p.space, p.obj) /\ ObjectAt(p) = Obj(new, p.space, p.obj)
  BY <1>2, <1>3, IsObjectIn DEF HasField
<1>5. f \in 1 .. Len(Obj(new, p.space, p.obj).fields)
  BY <1>2, <1>4 DEF HasField
<1>6. Obj(new, p.space, p.obj).fields[f] \in Pointer /\ f \in Nat
  BY <1>1, <1>4, <1>5, FieldThere, PointerFacts
<1>7. Sound(Obj(new, p.space, p.obj).fields[f])
  BY <1>4, <1>5, <1>6, PointerFacts DEF HeapInv, NewSound
<1> QED
  BY <1>2, <1>3, <1>4, <1>5, <1>6, <1>7

LEMMA AllocateHeap ==
  ASSUME HeapInv, NEW k \in Sizes, NEW from \in [1 .. k -> {0} \cup Var],
         Allocate(from)
  PROVE  HeapInv'
<1>1. ~ Busy /\ ~ Busy' /\ UNCHANGED <<new, old>>
  BY DEF Allocate, Running, Busy
<1>2. from \in Seq(0 .. Len(rootlist)) /\ from # << >>
  <2>1. k \in Nat \ {0}
    BY CollectorAssumption
  <2>2. {0} \cup Var = 0 .. Len(rootlist)
    BY DEF HeapInv, GCTypeOK, Var
  <2> QED
    BY <2>1, <2>2, FunctionSeq
<1>3. GCTypeOK' /\ Control'
  BY <1>2 DEF HeapInv, GCTypeOK, Control, Allocate, Running, Busy, PC, scan
<1>4. RootsSound'
  BY <1>1, SoundKept, RootThere DEF HeapInv, RootsSound, Allocate
<1> QED
  BY <1>1, <1>3, <1>4, QuietStep

\* The variables change, and what they are set to they could reach before.
LEMMA RootsHeap ==
  ASSUME HeapInv, pc = "run", pc' = "run",
         UNCHANGED <<new, old, minspace, gcblocked, want, scan>>,
         rootlist' \in Seq(Pointer), Len(rootlist') <= MaxRoots,
         \A i \in 1 .. Len(rootlist') : Sound(rootlist'[i])
  PROVE  HeapInv'
<1>1. ~ Busy /\ ~ Busy'
  BY DEF Busy
<1>2. GCTypeOK' /\ Control'
  BY DEF HeapInv, GCTypeOK, Control, Busy, PC, scan
<1>3. RootsSound'
  BY <1>1, SoundKept DEF RootsSound
<1> QED
  BY <1>1, <1>2, <1>3, QuietStep

LEMMA RefHeap ==
  ASSUME HeapInv, NEW i \in Var, Ref(i)
  PROVE  HeapInv'
<1>1. PICK p \in Pointer : p = rootlist[i] /\ Sound(p)
  BY RootThere DEF HeapInv, Var, RootsSound
<1>2. rootlist \in Seq(Pointer) /\ Len(rootlist) \in Nat
  BY DEF HeapInv, GCTypeOK
<1>3. /\ rootlist' = Append(rootlist, p) /\ Len(rootlist) < MaxRoots
      /\ pc = "run" /\ pc' = "run"
      /\ UNCHANGED <<new, old, minspace, gcblocked, want, scan>>
  BY <1>1 DEF Ref, Running
<1>4. /\ rootlist' \in Seq(Pointer) /\ Len(rootlist') = Len(rootlist) + 1
      /\ \A j \in 1 .. Len(rootlist) : rootlist'[j] = rootlist[j]
      /\ rootlist'[Len(rootlist) + 1] = p
  BY <1>2, <1>3, AppendProperties
<1>5. Len(rootlist') <= MaxRoots
  BY <1>2, <1>3, <1>4, CollectorAssumption
<1>6. \A j \in 1 .. Len(rootlist') : Sound(rootlist'[j])
  BY <1>1, <1>2, <1>4 DEF HeapInv, RootsSound
<1> QED
  BY <1>3, <1>4, <1>5, <1>6, RootsHeap

LEMMA FrontOfSeq ==
  ASSUME NEW S, NEW q \in Seq(S), q # << >>
  PROVE  /\ Front(q) \in Seq(S) /\ Len(Front(q)) = Len(q) - 1
         /\ \A j \in 1 .. Len(q) - 1 : Front(q)[j] = q[j]
<1>1. PICK m \in Nat \ {0} : m = Len(q)
  BY EmptySeq
<1>2. Front(q) = SubSeq(q, 1, m - 1)
  BY <1>1 DEF Front
<1>3. \A i \in 1 .. m - 1 : q[i] \in S
  BY <1>1
<1>4. /\ SubSeq(q, 1, m - 1) \in Seq(S)
      /\ Len(SubSeq(q, 1, m - 1)) = IF 1 <= m - 1 THEN m - 1 - 1 + 1 ELSE 0
      /\ \A i \in 1 .. m - 1 - 1 + 1 : SubSeq(q, 1, m - 1)[i] = q[1 + i - 1]
  <2>1. 1 \in Int /\ m - 1 \in Int
    OBVIOUS
  <2> QED
    BY <1>3, <2>1, SubSeqProperties
<1>5. \A i \in 1 .. m - 1 : 1 + i - 1 = i /\ i \in 1 .. m - 1 - 1 + 1
  OBVIOUS
<1>6. (IF 1 <= m - 1 THEN m - 1 - 1 + 1 ELSE 0) = m - 1
  OBVIOUS
<1> QED
  BY <1>1, <1>2, <1>4, <1>5, <1>6

LEMMA RefEndHeap ==
  ASSUME HeapInv, RefEnd
  PROVE  HeapInv'
<1>1. rootlist \in Seq(Pointer) /\ Len(rootlist) \in Nat /\ rootlist # << >>
      /\ Len(rootlist) <= MaxRoots
  BY DEF HeapInv, GCTypeOK, RefEnd
<1>2. /\ rootlist' = Front(rootlist) /\ pc = "run" /\ pc' = "run"
      /\ UNCHANGED <<new, old, minspace, gcblocked, want, scan>>
  BY DEF RefEnd, Running
<1>3. /\ rootlist' \in Seq(Pointer) /\ Len(rootlist') = Len(rootlist) - 1
      /\ \A j \in 1 .. Len(rootlist') : rootlist'[j] = rootlist[j]
  BY <1>1, <1>2, FrontOfSeq
<1>4. Len(rootlist') <= MaxRoots
  BY <1>1, <1>3, CollectorAssumption
<1>5. \A j \in 1 .. Len(rootlist') : Sound(rootlist'[j])
  BY <1>1, <1>3 DEF HeapInv, RootsSound
<1> QED
  BY <1>2, <1>3, <1>4, <1>5, RootsHeap

LEMMA LoadHeap ==
  ASSUME HeapInv, NEW i \in Var, NEW f, Load(i, f)
  PROVE  HeapInv'
<1>1. /\ HasField(i, f) /\ pc = "run" /\ pc' = "run"
      /\ UNCHANGED <<new, old, minspace, gcblocked, want, scan>>
  BY DEF Load, Running
<1>2. PICK q \in Pointer : q = ObjectAt(rootlist[i]).fields[f] /\ Sound(q)
  BY <1>1, FieldOfRoot
<1>3. rootlist' = [rootlist EXCEPT ![i] = q]
  BY <1>2 DEF Load
<1>4. rootlist \in Seq(Pointer) /\ i \in 1 .. Len(rootlist)
      /\ Len(rootlist) <= MaxRoots
  BY DEF HeapInv, GCTypeOK, Var
<1>5. /\ rootlist' \in Seq(Pointer) /\ Len(rootlist') = Len(rootlist)
      /\ \A j \in 1 .. Len(rootlist) :
           rootlist'[j] = IF j = i THEN q ELSE rootlist[j]
  BY <1>3, <1>4, ExceptSeq
<1>6. \A j \in 1 .. Len(rootlist') : Sound(rootlist'[j])
  BY <1>2, <1>5 DEF HeapInv, RootsSound
<1> QED
  BY <1>1, <1>4, <1>5, <1>6, RootsHeap

\* Collections are disabled, enabled or asked for.
LEMMA RequestHeap ==
  ASSUME HeapInv,
         \/ gcdisable \/ gcenable \/ collect \/ \E n \in Reserves : gcreserve(n)
         \/ (gc /\ gcblocked > 0)
  PROVE  HeapInv'
<1> DEFINE Keeps == /\ ~ Busy /\ ~ Busy' /\ UNCHANGED <<new, old, rootlist, want>>
                    /\ minspace' \in Nat \ {0} /\ pc' \in PC
                    /\ UNCHANGED scan
                    /\ gcblocked' \in 0 .. MaxBlock
                    /\ pc' = "run" => want = << >>
                    /\ pc' = "alloc" => want # << >>
<1>1. Keeps
  <2>1. CASE gcdisable
    BY <2>1, CollectorAssumption
    DEF gcdisable, Running, Busy, HeapInv, GCTypeOK, Control, PC
  <2>2. CASE gcenable
    BY <2>2, CollectorAssumption
    DEF gcenable, Running, Busy, HeapInv, GCTypeOK, Control, PC
  <2>3. CASE collect
    BY <2>3, CollectorAssumption
    DEF collect, Running, Busy, HeapInv, GCTypeOK, Control, PC
  <2>4. CASE \E n \in Reserves : gcreserve(n)
    BY <2>4, CollectorAssumption
    DEF gcreserve, Running, Busy, HeapInv, GCTypeOK, Control, PC
  <2>5. CASE gc /\ gcblocked > 0
    BY <2>5, CollectorAssumption
    DEF gc, Busy, HeapInv, GCTypeOK, Control, PC, Caller
  <2> QED
    BY <2>1, <2>2, <2>3, <2>4, <2>5
<1>2. GCTypeOK' /\ Control'
  BY <1>1 DEF HeapInv, GCTypeOK, Control, scan
<1>3. RootsSound'
  BY <1>1, SoundKept, RootThere DEF HeapInv, RootsSound
<1> QED
  BY <1>1, <1>2, <1>3, QuietStep

\* An object is written over, which is done by no step but p->field = q.
LEMMA StoreSets ==
  ASSUME HeapInv, NEW i \in Var, NEW f, NEW j \in Var, HasField(i, f), Store(i, f, j)
  PROVE  /\ rootlist[i] \in Pointer /\ rootlist[j] \in Pointer
         /\ rootlist[i].space \in Nat /\ rootlist[i].obj \in Nat
         /\ FieldIsSet(new, new', rootlist[i].space, rootlist[i].obj, f, rootlist[j])
<1>1. pc = "run"
  BY DEF Store, Running
<1>2. PICK p \in Pointer : p = rootlist[i] /\ In(new, p.space, p.obj)
                           /\ f \in 1 .. Len(Obj(new, p.space, p.obj).fields)
  BY <1>1, FieldOfRoot
<1>3. PICK q \in Pointer : q = rootlist[j]
  BY SMTT(30), RootThere DEF HeapInv, Var
<1>4. new' = FieldSet(new, p.space, p.obj, f, q)
  BY <1>2, <1>3 DEF Store, FieldSet
<1>5. new \in Chain /\ p.space \in Nat /\ p.obj \in Nat
  BY PointerFacts DEF HeapInv, GCTypeOK
<1>6. FieldIsSet(new, new', p.space, p.obj, f, q)
  BY SMTT(30), <1>2, <1>4, <1>5, ReplacedField
<1> QED
  BY <1>2, <1>3, <1>5, <1>6

LEMMA StoreHeap ==
  ASSUME HeapInv, NEW i \in Var, NEW f, NEW j \in Var, HasField(i, f), Store(i, f, j)
  PROVE  HeapInv'
<1>1. /\ pc = "run" /\ pc' = "run" /\ ~ Busy /\ ~ Busy'
      /\ UNCHANGED <<old, minspace, rootlist, gcblocked, want, scan>>
  BY DEF Store, Running, Busy
<1>2. PICK p \in Pointer : p = rootlist[i] /\ p.space \in Nat /\ p.obj \in Nat
  BY StoreSets
<1>3. PICK q \in Pointer : q = rootlist[j] /\ Sound(q)
  BY RootThere DEF HeapInv, Var, RootsSound
<1>5. new \in Chain /\ new # << >>
  BY DEF HeapInv, GCTypeOK
<1>a. FieldIsSet(new, new', p.space, p.obj, f, q)
  BY <1>2, <1>3, StoreSets
<1>6. /\ new' \in Chain /\ Len(new') = Len(new)
      /\ \A t, k \in Nat : In(new', t, k) <=> In(new, t, k)
      /\ \A t, k \in Nat : In(new, t, k) =>
           /\ Obj(new', t, k).data = Obj(new, t, k).data
           /\ Obj(new', t, k).moved = Obj(new, t, k).moved
           /\ Len(Obj(new', t, k).fields) = Len(Obj(new, t, k).fields)
           /\ \A g \in 1 .. Len(Obj(new, t, k).fields) :
                Obj(new', t, k).fields[g] =
                  IF t = p.space /\ k = p.obj /\ g = f THEN q
                  ELSE Obj(new, t, k).fields[g]
      /\ \A t \in 1 .. Len(new) : /\ new'[t].size = new[t].size
                                  /\ new'[t].current = new[t].current
                                  /\ Len(new'[t].objs) = Len(new[t].objs)
  BY <1>a DEF FieldIsSet
<1>7. new' # << >>
  <2>1. Len(new) # 0 /\ Len(<< >>) = 0
    BY <1>5, EmptySeq DEF Chain
  <2> QED
    BY <2>1, <1>6
<1>8. GCTypeOK' /\ Control' /\ AtOK'
  BY <1>1, <1>6, <1>7 DEF HeapInv, GCTypeOK, Control, Busy, AtOK, scan
<1>9. Filled'
  BY <1>6 DEF HeapInv, Filled
<1>10. RootsSound'
  BY <1>1, <1>6, SoundKept, RootThere DEF HeapInv, RootsSound
<1>11. NewSound'
  <2> SUFFICES ASSUME NEW t \in Nat, NEW k \in Nat, NEW g \in Nat, In(new', t, k),
                      g \in 1 .. Len(Obj(new', t, k).fields)
               PROVE  Sound(Obj(new, t, k).fields[g])'
    BY DEF NewSound
  <2>1. In(new, t, k) /\ g \in 1 .. Len(Obj(new, t, k).fields)
    BY <1>6
  <2>2. PICK x \in Pointer : x = Obj(new', t, k).fields[g] /\ Sound(x)
    <3>1. CASE t = p.space /\ k = p.obj /\ g = f
      BY <3>1, <2>1, <1>3, <1>6
    <3>2. CASE ~ (t = p.space /\ k = p.obj /\ g = f)
      <4>1. Obj(new', t, k).fields[g] = Obj(new, t, k).fields[g]
        BY <3>2, <2>1, <1>6
      <4>2. Sound(Obj(new, t, k).fields[g])
        BY <2>1 DEF HeapInv, NewSound
      <4> QED
        BY <4>1, <4>2, <2>1, <1>5, FieldThere
    <3> QED
      BY <3>1, <3>2
  <2> QED
    BY <2>2, <1>1, <1>6, SoundKept
<1>12. OldSound' /\ MovedIsThere' /\ Distinct(old)'
  <2>1. old = << >>
    BY <1>1 DEF HeapInv, Control
  <2>2. \A t, k \in Nat : ~ In(old', t, k)
    BY <2>1, <1>1 DEF In
  <2> QED
    BY <2>2 DEF OldSound, MovedIsThere, Distinct
<1>13. ThereIsMoved'
  BY <1>1, <1>6 DEF HeapInv, ThereIsMoved
<1>14. Distinct(new')
  <2> SUFFICES ASSUME NEW s \in Nat, NEW k \in Nat, NEW t \in Nat, NEW l \in Nat,
                      In(new', s, k), In(new', t, l),
                      Obj(new', s, k).data = Obj(new', t, l).data
               PROVE  s = t /\ k = l
    BY DEF Distinct
  <2>1. In(new, s, k) /\ In(new, t, l) /\ Obj(new, s, k).data = Obj(new, t, l).data
    BY <1>6
  <2> QED
    BY <2>1 DEF HeapInv, Distinct
<1> QED
  BY <1>8, <1>9, <1>10, <1>11, <1>12, <1>13, <1>14 DEF HeapInv

-----------------------------------------------------------------------------
(* Allocation.                                                             *)

LEMMA PlaceFacts ==
  ASSUME GCTypeOK
  PROVE  /\ Place \in Pointer /\ ~ Place.old
         /\ Place.space = Len(new) /\ Place.obj = Len(new[Len(new)].objs) + 1
         /\ Place # Null
         /\ Place = [old |-> FALSE, space |-> Len(new),
                     obj |-> Len(new[Len(new)].objs) + 1]
         /\ Last(new) = new[Len(new)]
         /\ new[Len(new)].size \in Nat /\ new[Len(new)].current \in Nat
         /\ Len(new[Len(new)].objs) \in Nat /\ Len(new) \in Nat \ {0}
         /\ Len(new) \in 1 .. Len(new)
<1>1. new \in Seq(Space) /\ Len(new) \in Nat \ {0} /\ Len(new) \in 1 .. Len(new)
  BY EmptySeq DEF GCTypeOK, Chain
<1>2. new[Len(new)] \in Space
  BY <1>1
<1>3. Last(new) = new[Len(new)]
  BY DEF Last
<1>4. Place = [old |-> FALSE, space |-> Len(new),
               obj |-> Len(new[Len(new)].objs) + 1]
  BY <1>3 DEF Place
<1>5. /\ new[Len(new)].size \in Nat /\ new[Len(new)].current \in Nat
      /\ Len(new[Len(new)].objs) \in Nat
  BY <1>2 DEF Space
<1>6. Place \in Pointer
  BY <1>1, <1>4, <1>5 DEF Pointer
<1>7. /\ ~ Place.old /\ Place.space = Len(new)
      /\ Place.obj = Len(new[Len(new)].objs) + 1
  BY <1>4
<1>8. Place # Null
  BY <1>7, <1>1, NullFacts
<1> QED
  BY <1>1, <1>3, <1>4, <1>5, <1>6, <1>7, <1>8

LEMMA DistinctAdded ==
  ASSUME NEW ch, NEW ch2, NEW n \in Nat, NEW k \in Nat, Distinct(ch),
         \A s, i \in Nat : In(ch2, s, i) <=> (In(ch, s, i) \/ (s = n /\ i = k)),
         \A s, i \in Nat : In(ch, s, i) => Obj(ch2, s, i).data = Obj(ch, s, i).data,
         \A s, i \in Nat : In(ch, s, i) => Obj(ch, s, i).data # Obj(ch2, n, k).data
  PROVE  Distinct(ch2)
<1> SUFFICES ASSUME NEW s \in Nat, NEW i \in Nat, NEW t \in Nat, NEW j \in Nat,
                    In(ch2, s, i), In(ch2, t, j),
                    Obj(ch2, s, i).data = Obj(ch2, t, j).data
             PROVE  s = t /\ i = j
  BY DEF Distinct
<1>1. CASE In(ch, s, i) /\ In(ch, t, j)
  BY <1>1 DEF Distinct
<1>2. CASE ~ In(ch, s, i) /\ ~ In(ch, t, j)
  <2>1. (s = n /\ i = k) /\ (t = n /\ j = k)
    BY <1>2
  <2> QED
    BY <2>1
<1>3. CASE In(ch, s, i) /\ ~ In(ch, t, j)
  <2>1. t = n /\ j = k
    BY <1>3
  <2> QED
    BY <2>1, <1>3
<1>4. CASE ~ In(ch, s, i) /\ In(ch, t, j)
  <2>1. s = n /\ i = k
    BY <1>4
  <2> QED
    BY <2>1, <1>4
<1> QED
  BY <1>1, <1>2, <1>3, <1>4

LEMMA DataInUse ==
  ASSUME NEW s \in Nat, NEW i \in Nat, In(new, s, i), GCTypeOK
  PROVE  Obj(new, s, i).data \in InUse
<1>1. s \in 1 .. Len(new) /\ i \in 1 .. Len(new[s].objs)
  BY DEF In
<1>2. new[s] \in Space
  BY <1>1 DEF GCTypeOK, Chain
<1>3. new[s].objs \in Seq(FullObject)
  BY <1>2 DEF Space
<1>4. i \in DOMAIN new[s].objs
  BY <1>1, <1>3
<1>5. new[s].objs[i] \in ToSet(new[s].objs)
  BY <1>4 DEF ToSet
<1> QED
  BY <1>1, <1>5 DEF InUse, Obj

\* The object that gcalloc() returns.
Allocated(n, k, o) ==
  /\ n = Len(new) /\ k = Len(new[n].objs) + 1
  /\ o \in FullObject /\ o.moved = Null /\ o.data \in Data \ InUse
  /\ Len(o.fields) = Len(want)
  /\ \A f \in 1 .. Len(want) :
       o.fields[f] = Null \/ \E j \in 1 .. Len(rootlist) : o.fields[f] = rootlist[j]
  /\ ObjectIsAdded(new, new', n, k, o)

LEMMA AllocAdds ==
  ASSUME HeapInv, gcalloc
  PROVE  \E n, k, o : Allocated(n, k, o)
<1> DEFINE fields == [f \in 1 .. Len(want) |->
                        IF want[f] = 0 THEN Null ELSE rootlist[want[f]]]
<1>1. pc = "alloc"
  BY DEF gcalloc
<1>2. /\ want \in Seq(0 .. Len(rootlist)) /\ Len(want) \in Nat \ {0}
      /\ \A f \in 1 .. Len(want) : want[f] \in 0 .. Len(rootlist)
      /\ rootlist \in Seq(Pointer)
      /\ GCTypeOK /\ new \in Chain /\ new # << >>
  BY <1>1, EmptySeq DEF HeapInv, GCTypeOK, Control
<1>3. PICK d \in Data \ InUse :
        Put([data |-> d, moved |-> Null, fields |-> fields])
  BY DEF gcalloc
<1>4. \A f \in 1 .. Len(want) :
        /\ fields[f] \in Pointer
        /\ fields[f] = Null \/ \E j \in 1 .. Len(rootlist) : fields[f] = rootlist[j]
  <2> TAKE f \in 1 .. Len(want)
  <2>1. CASE want[f] = 0
    BY <2>1, NullFacts
  <2>2. CASE want[f] # 0
    <3>1. want[f] \in 1 .. Len(rootlist)
      BY <2>2, <1>2
    <3> QED
      BY <3>1, <2>2, <1>2, RootThere
  <2> QED
    BY <2>1, <2>2
<1>5. PICK fs \in Seq(Pointer) : fs = fields /\ Len(fs) = Len(want) /\ fs # << >>
  <2>1. fields \in [1 .. Len(want) -> Pointer]
    BY <1>4
  <2> QED
    BY <2>1, <1>2, FunctionSeq
<1> HIDE DEF fields
<1>6. PICK o : o = [data |-> d, moved |-> Null, fields |-> fs]
  OBVIOUS
<1>7. o \in FullObject /\ o.data = d /\ o.moved = Null /\ o.fields = fs
  <2>1. o \in Object
    BY <1>5, <1>6, NullFacts DEF Object
  <2> QED
    BY <2>1, <1>5, <1>6 DEF FullObject
<1>8. new' = ObjectAdded(new, o)
  BY <1>3, <1>5, <1>6 DEF Put, ObjectAdded
<1>9. PICK n, k : n = Len(new) /\ k = Len(new[n].objs) + 1
  OBVIOUS
<1>10. ObjectIsAdded(new, new', n, k, o)
  BY <1>2, <1>7, <1>8, <1>9, AddedObject
<1> QED
  BY SMTT(30), <1>4, <1>5, <1>7, <1>9, <1>10 DEF Allocated

LEMMA AllocHeap ==
  ASSUME HeapInv, gcalloc
  PROVE  HeapInv'
<1>1. /\ pc = "alloc" /\ pc' = "run" /\ ~ Busy /\ ~ Busy' /\ want' = << >>
      /\ UNCHANGED <<old, minspace, gcblocked, scan>>
      /\ Fits(Len(want) + 1) /\ rootlist' = Append(rootlist, Place)
  BY DEF gcalloc, Busy
<1>2. /\ want \in Seq(0 .. Len(rootlist)) /\ Len(want) \in Nat \ {0}
      /\ rootlist \in Seq(Pointer)
      /\ GCTypeOK /\ new \in Chain /\ new # << >> /\ old = << >>
  BY <1>1, EmptySeq DEF HeapInv, GCTypeOK, Control
<1>3. PICK n, k, o : Allocated(n, k, o)
  BY AllocAdds
<1>4. \A f \in 1 .. Len(o.fields) : o.fields[f] \in Pointer /\ Sound(o.fields[f])
  BY <1>2, <1>3, NullFacts, RootThere
  DEF Allocated, HeapInv, RootsSound, Sound
<1>7. /\ o \in FullObject /\ o.data \in Data \ InUse /\ o.moved = Null
      /\ Len(o.fields) = Len(want)
  BY <1>3 DEF Allocated
<1>9. n = Len(new) /\ k = Len(new[n].objs) + 1
  BY <1>3 DEF Allocated
<1>10. /\ new' \in Chain /\ new' # << >> /\ Len(new') = n /\ n \in Nat \ {0}
       /\ k \in Nat \ {0}
       /\ \A s, i \in Nat :
            In(new', s, i) <=> (In(new, s, i) \/ (s = n /\ i = k))
       /\ ~ In(new, n, k)
       /\ \A s, i \in Nat : In(new, s, i) => Obj(new', s, i) = Obj(new, s, i)
       /\ Obj(new', n, k) = o
       /\ \A s \in 1 .. n : new'[s].size = new[s].size
       /\ \A s \in 1 .. n : s # n => new'[s] = new[s]
       /\ new'[n].current = new[n].current + Cells(o)
  BY <1>3 DEF Allocated, ObjectIsAdded
<1>11. PICK p \in Pointer : /\ p = Place /\ ~ p.old /\ p.space = n /\ p.obj = k
  BY <1>2, <1>9, PlaceFacts
<1>12. /\ rootlist' \in Seq(Pointer) /\ Len(rootlist') = Len(rootlist) + 1
       /\ \A j \in 1 .. Len(rootlist) : rootlist'[j] = rootlist[j]
       /\ rootlist'[Len(rootlist) + 1] = p
  BY <1>1, <1>2, <1>11, AppendProperties
<1>13. GCTypeOK' /\ Control' /\ AtOK'
  <2>1. Len(rootlist') <= MaxRoots
    <3>1. Len(rootlist) < MaxRoots /\ Len(rootlist) \in Nat
      BY <1>1, <1>2 DEF HeapInv, Control
    <3> QED
      BY <3>1, <1>12, CollectorAssumption
  <2>2. want' \in Seq(0 .. Len(rootlist'))
    BY <1>1
  <2> QED
    BY <2>1, <2>2, <1>1, <1>10, <1>12
    DEF HeapInv, GCTypeOK, Control, AtOK, Busy, PC, scan
<1>14. Filled'
  <2>1. Cells(o) = 1 + Len(want)
    BY <1>7 DEF Cells
  <2>2. new[n].current + Cells(o) <= new[n].size
    BY SMTT(30), <2>1, <1>1, <1>2, <1>9, PlaceFacts DEF Fits, Free
  <2> QED
    BY <2>2, <1>9, <1>10 DEF HeapInv, Filled
<1>15. \A q \in Pointer : Sound(q) => Sound(q)'
  BY <1>1, <1>10, SoundKept
<1>16. RootsSound'
  <2> SUFFICES ASSUME NEW j \in 1 .. Len(rootlist') PROVE Sound(rootlist[j])'
    BY DEF RootsSound
  <2>1. CASE j \in 1 .. Len(rootlist)
    <3>1. PICK x \in Pointer : x = rootlist[j] /\ x = rootlist'[j] /\ Sound(x)
      BY <2>1, <1>2, <1>12, RootThere DEF HeapInv, RootsSound
    <3> QED
      BY <3>1, <1>15
  <2>2. CASE j = Len(rootlist) + 1
    <3>1. Sound(p)'
      BY <1>10, <1>11, IsObjectIn DEF Sound
    <3> QED
      BY <3>1, <2>2, <1>12
  <2> QED
    BY <2>1, <2>2, <1>2, <1>12
<1>17. NewSound'
  <2> SUFFICES ASSUME NEW t \in Nat, NEW l \in Nat, NEW g \in Nat, In(new', t, l),
                      g \in 1 .. Len(Obj(new', t, l).fields)
               PROVE  Sound(Obj(new, t, l).fields[g])'
    BY DEF NewSound
  <2>1. PICK x \in Pointer : x = Obj(new', t, l).fields[g] /\ Sound(x)
    <3>1. CASE In(new, t, l)
      <4>1. Obj(new', t, l) = Obj(new, t, l)
        BY <3>1, <1>10
      <4>2. Sound(Obj(new, t, l).fields[g])
        BY <4>1, <3>1 DEF HeapInv, NewSound
      <4>3. Obj(new, t, l).fields[g] \in Pointer
        BY <4>1, <3>1, <1>2, FieldThere
      <4> QED
        BY <4>1, <4>2, <4>3
    <3>2. CASE t = n /\ l = k
      BY <3>2, <1>4, <1>10
    <3> QED
      BY <3>1, <3>2, <1>10
  <2> QED
    BY <2>1, <1>15
<1>18. OldSound' /\ MovedIsThere' /\ Distinct(old)'
  <2>1. \A t, l \in Nat : ~ In(old', t, l)
    BY <1>1, <1>2 DEF In
  <2> QED
    BY <2>1 DEF OldSound, MovedIsThere, Distinct
<1>19. ThereIsMoved'
  <2> SUFFICES ASSUME NEW s \in Nat, NEW i \in Nat, In(new', s, i)
               PROVE  Obj(new', s, i).moved = Null
    BY <1>1 DEF ThereIsMoved
  <2>1. CASE In(new, s, i)
    <3>1. Obj(new', s, i) = Obj(new, s, i)
      BY <2>1, <1>10
    <3>2. Obj(new, s, i).moved = Null
      BY <2>1 DEF HeapInv, ThereIsMoved
    <3> QED
      BY <3>1, <3>2
  <2>2. CASE s = n /\ i = k
    BY <2>2, <1>7, <1>10
  <2> QED
    BY <2>1, <2>2, <1>10
<1>20. Distinct(new')
  <2>1. \A s, i \in Nat : In(new, s, i) => Obj(new, s, i).data # o.data
    BY <1>2, <1>7, DataInUse
  <2> QED
    <3>1. n \in Nat /\ k \in Nat /\ Distinct(new)
      BY <1>10 DEF HeapInv
    <3>2. \A s, i \in Nat :
            In(new', s, i) <=> (In(new, s, i) \/ (s = n /\ i = k))
      BY <1>10
    <3>3. \A s, i \in Nat :
            In(new, s, i) => Obj(new', s, i).data = Obj(new, s, i).data
      BY <1>10
    <3>4. \A s, i \in Nat :
            In(new, s, i) => Obj(new, s, i).data # Obj(new', n, k).data
      BY <2>1, <1>7, <1>10
    <3> QED
      BY <3>1, <3>2, <3>3, <3>4, DistinctAdded
<1> QED
  BY <1>13, <1>14, <1>16, <1>17, <1>18, <1>19, <1>20 DEF HeapInv

LEMMA ScanningIn ==
  ASSUME GCTypeOK, AtOK, pc = "space"
  PROVE  /\ Scanning <=> at.space > at.scanned /\ In(new, at.space, at.obj)
         /\ Scanning => /\ In(new, at.space, at.obj)
                        /\ at.field \in 1 .. Len(Obj(new, at.space, at.obj).fields)
         /\ at.space \in Nat /\ at.obj \in Nat /\ at.scanned \in Nat /\ at.field \in Nat
<1>1. /\ at.space \in Nat /\ at.obj \in Nat \ {0} /\ at.scanned \in Nat
      /\ at.field \in Nat \ {0} /\ at.front \in Nat
      /\ new \in Chain /\ Len(new) \in Nat
  BY DEF GCTypeOK, Chain, AtType, Pos
<1>2. at.space <= at.front /\ at.front <= Len(new)
  BY DEF AtOK
<1>3. Scanning <=> at.space > at.scanned /\ In(new, at.space, at.obj)
  <2>1. CASE at.space > at.scanned
    <3>1. at.space \in 1 .. Len(new)
      BY <2>1, <1>1, <1>2
    <3>2. new[at.space] \in Space
      BY <3>1, <1>1 DEF Chain
    <3>3. Len(new[at.space].objs) \in Nat
      BY <3>2 DEF Space
    <3> QED
      BY <2>1, <3>1, <3>3, <1>1 DEF Scanning, In
  <2>2. CASE ~ (at.space > at.scanned)
    BY <2>2 DEF Scanning
  <2> QED
    BY <2>1, <2>2
<1>4. Scanning => /\ In(new, at.space, at.obj)
                  /\ at.field \in 1 .. Len(Obj(new, at.space, at.obj).fields)
  <2> SUFFICES ASSUME Scanning
               PROVE  at.field \in 1 .. Len(Obj(new, at.space, at.obj).fields)
    BY <1>3
  <2>1. Len(Obj(new, at.space, at.obj).fields) \in Nat \ {0}
    BY <1>1, <1>3, ObjectThere
  <2>2. at.field = 1 \/ at.field <= Len(Obj(new, at.space, at.obj).fields)
    BY DEF AtOK
  <2> QED
    BY <1>1, <2>1, <2>2
<1> QED
  BY <1>1, <1>3, <1>4

LEMMA AtKept ==
  ASSUME GCTypeOK, AtOK, UNCHANGED <<at, pc>>, GCTypeOK',
         Len(new) <= Len(new'),
         \A s, i \in Nat : In(new, s, i) =>
           /\ In(new', s, i)
           /\ Len(Obj(new', s, i).fields) = Len(Obj(new, s, i).fields)
  PROVE  AtOK'
<1>1. /\ at \in AtType
      /\ new \in Seq(Space) /\ new' \in Seq(Space)
  BY DEF GCTypeOK, Chain
<1>2. /\ at.space \in Nat /\ at.obj \in Nat \ {0} /\ at.scanned \in Nat
      /\ at.field \in Nat \ {0} /\ at.front \in Nat
      /\ Len(new) \in Nat /\ Len(new') \in Nat
  BY <1>1 DEF AtType, Pos
<1>3. (pc = "roots" => at.scanned = 0) /\ (pc = "pass" => at.scanned <= Len(new'))
  BY <1>2 DEF AtOK
<1>4. ASSUME pc = "space"
      PROVE  /\ at.scanned <= at.space /\ at.space <= at.front /\ at.front <= Len(new')
             /\ at.field = 1
                \/ (Scanning' /\ at.field <= Len(Obj(new', at.space, at.obj).fields))
  <2>1. at.scanned <= at.space /\ at.space <= at.front /\ at.front <= Len(new)
    BY <1>4 DEF AtOK
  <2>2. at.front <= Len(new')
    BY <2>1, <1>2
  <2>3. ASSUME at.field # 1
        PROVE  Scanning' /\ at.field <= Len(Obj(new', at.space, at.obj).fields)
    <3>1. Scanning /\ at.field <= Len(Obj(new, at.space, at.obj).fields)
      BY <1>4, <2>3 DEF AtOK
    <3>2. In(new, at.space, at.obj)
      BY <3>1, <1>4, ScanningIn
    <3>3. /\ In(new', at.space, at.obj)
          /\ Len(Obj(new', at.space, at.obj).fields)
               = Len(Obj(new, at.space, at.obj).fields)
      BY <3>2, <1>2
    <3>4. Scanning'
      BY <3>1, <3>3 DEF Scanning, In
    <3> QED
      BY <3>1, <3>3, <3>4
  <2> QED
    BY <2>1, <2>2, <2>3
<1> QED
  BY <1>3, <1>4 DEF AtOK

LEMMA RaisedFacts ==
  ASSUME GCTypeOK, NEW n \in Nat
  PROVE  Raised(n) \in Nat \ {0} /\ Raised(n) >= n
BY DEF GCTypeOK, Raised

\* A space is added, by gcalloc() or by a copy.
LEMMA GrowHeap ==
  ASSUME HeapInv, NEW n \in Nat, Grow(n),
         UNCHANGED <<old, rootlist, gcblocked, want, pc, scan>>
  PROVE  HeapInv'
<1>1. PICK size \in Nat \ {0} : size = Raised(n)
  BY RaisedFacts DEF HeapInv
<1>2. new' = SpaceAdded(new, size) /\ minspace' = size
  BY <1>1 DEF Grow, SpaceAdded
<1>3. new \in Chain
  BY DEF HeapInv, GCTypeOK
<1>4. SpaceIsAdded(new, new', size)
  BY <1>1, <1>2, <1>3, AddedSpace
<1>5. /\ new' \in Chain /\ new' # << >> /\ Len(new') = Len(new) + 1
      /\ Len(new) \in Nat
      /\ \A s, i \in Nat : In(new', s, i) <=> In(new, s, i)
      /\ \A s \in 1 .. Len(new) : new'[s] = new[s]
      /\ new'[Len(new')] = newspace(size)
  BY <1>3, <1>4 DEF SpaceIsAdded, Chain
<1>6. \A s, i \in Nat : In(new, s, i) => Obj(new', s, i) = Obj(new, s, i)
  BY <1>5 DEF In, Obj
<1>7. GCTypeOK' /\ Control'
  BY <1>1, <1>2, <1>5 DEF HeapInv, GCTypeOK, Control, Busy, scan
<1>8. AtOK'
  <2>1. Len(new) <= Len(new')
    BY <1>5
  <2>2. \A s, i \in Nat : In(new, s, i) =>
          /\ In(new', s, i)
          /\ Len(Obj(new', s, i).fields) = Len(Obj(new, s, i).fields)
    BY <1>5, <1>6
  <2>3. UNCHANGED <<at, pc>>
    BY DEF scan
  <2> QED
    BY <2>1, <2>2, <2>3, <1>7, AtKept DEF HeapInv
<1>9. Filled'
  <2>1. newspace(size).current = 0 /\ newspace(size).size = size
    BY DEF newspace
  <2> QED
    BY <2>1, <1>1, <1>5 DEF HeapInv, Filled
<1>10. \A q \in Pointer : Sound(q) => Sound(q)'
  <2>1. Busy' => Busy
    BY DEF Busy
  <2> QED
    BY <2>1, <1>5, SoundKept
<1>11. RootsSound'
  BY <1>10, RootThere DEF HeapInv, RootsSound
<1>12. NewSound'
  <2> SUFFICES ASSUME NEW t \in Nat, NEW l \in Nat, NEW g \in Nat, In(new', t, l),
                      g \in 1 .. Len(Obj(new', t, l).fields)
               PROVE  Sound(Obj(new, t, l).fields[g])'
    BY DEF NewSound
  <2>1. Obj(new', t, l) = Obj(new, t, l) /\ In(new, t, l)
    BY <1>5, <1>6
  <2>2. Sound(Obj(new, t, l).fields[g])
    BY <2>1 DEF HeapInv, NewSound
  <2>3. PICK x \in Pointer : x = Obj(new, t, l).fields[g]
    BY <2>1, <1>3, FieldThere
  <2> QED
    BY <2>1, <2>2, <2>3, <1>10
<1>13. OldSound'
  BY <1>10, FieldThere DEF HeapInv, GCTypeOK, OldSound
<1>14. MovedIsThere'
  <2> SUFFICES ASSUME NEW s \in Nat, NEW i \in Nat, In(old, s, i),
                      NEW p \in Pointer, p = Obj(old, s, i).moved
               PROVE  IsCopied(p, Obj(old, s, i).data)'
    BY ObjectThere DEF MovedIsThere, HeapInv, GCTypeOK
  <2>1. IsCopied(p, Obj(old, s, i).data)
    BY DEF HeapInv, MovedIsThere
  <2> QED
    BY <2>1, <1>5, <1>6, PointerFacts DEF IsCopied
<1>15. ThereIsMoved'
  <2> SUFFICES ASSUME NEW s \in Nat, NEW i \in Nat, In(new', s, i)
               PROVE  Obj(new', s, i).moved = Null /\ (Busy => WasMoved(s, i)')
    BY DEF ThereIsMoved, Busy
  <2>1. In(new, s, i) /\ Obj(new', s, i) = Obj(new, s, i)
    BY <1>5, <1>6
  <2>2. Obj(new, s, i).moved = Null /\ (Busy => WasMoved(s, i))
    BY <2>1 DEF HeapInv, ThereIsMoved
  <2> QED
    BY <2>1, <2>2 DEF WasMoved
<1>16. Distinct(new') /\ Distinct(old')
  <2>1. Distinct(old')
    BY DEF HeapInv
  <2> SUFFICES ASSUME NEW s \in Nat, NEW i \in Nat, NEW t \in Nat, NEW j \in Nat,
                      In(new', s, i), In(new', t, j),
                      Obj(new', s, i).data = Obj(new', t, j).data
               PROVE  s = t /\ i = j
    BY <2>1 DEF Distinct
  <2>2. In(new, s, i) /\ In(new, t, j) /\ Obj(new, s, i).data = Obj(new, t, j).data
    BY <1>5, <1>6
  <2> QED
    BY <2>2 DEF HeapInv, Distinct
<1> QED
  BY <1>7, <1>8, <1>9, <1>11, <1>12, <1>13, <1>14, <1>15, <1>16 DEF HeapInv

LEMMA AllocAgainHeap ==
  ASSUME HeapInv, gcallocAgain
  PROVE  HeapInv'
<1>1. Len(want) \in Nat
  BY DEF HeapInv, GCTypeOK
<1>2. CASE gcblocked > 0
  BY <1>1, <1>2, GrowHeap DEF gcallocAgain
<1>3. CASE ~ (gcblocked > 0)
  <2>1. /\ ~ Busy /\ ~ Busy' /\ UNCHANGED <<new, old, rootlist, gcblocked, want, scan>>
        /\ minspace' = Raised(Len(want)) /\ pc' = "gc" /\ pc = "alloc"
    BY <1>3 DEF gcallocAgain, Busy
  <2>2. GCTypeOK' /\ Control'
    BY <2>1, <1>1, RaisedFacts DEF HeapInv, GCTypeOK, Control, PC, scan
  <2>3. RootsSound'
    BY <2>1, SoundKept, RootThere DEF HeapInv, RootsSound
  <2> QED
    BY <2>1, <2>2, <2>3, QuietStep
<1> QED
  BY <1>2, <1>3

-----------------------------------------------------------------------------
(* A round of gc().                                                        *)

LEMMA NothingIn ==
  ASSUME NEW size, NEW s, NEW i
  PROVE  ~ In(<<newspace(size)>>, s, i)
<1>1. newspace(size).objs = << >> /\ Len(<< >>) = 0
  BY DEF newspace
<1>2. Len(<<newspace(size)>>) = 1 /\ <<newspace(size)>>[1] = newspace(size)
  OBVIOUS
<1> SUFFICES ASSUME s \in 1 .. 1 PROVE i \notin 1 .. Len(<<newspace(size)>>[s].objs)
  BY <1>2 DEF In
<1>3. s = 1
  OBVIOUS
<1> QED
  BY <1>1, <1>2, <1>3

LEMMA RoundBegins ==
  ASSUME HeapInv, gc, ~ (gcblocked > 0)
  PROVE  HeapInv'
<1>1. /\ pc = "gc" /\ pc' = "roots" /\ gcblocked' = 1 /\ ~ Busy /\ Busy'
      /\ old' = AgedAll(new) /\ new' = <<newspace(minspace)>>
      /\ rootlist' = [i \in Var |-> Aged(rootlist[i])]
      /\ at' = Start /\ rounds' = rounds + 1
      /\ UNCHANGED <<minspace, want>>
  BY DEF gc, Busy, AgedAll
<1>2. /\ new \in Chain /\ rootlist \in Seq(Pointer) /\ Len(rootlist) \in Nat
      /\ minspace \in Nat \ {0} /\ old = << >>
  BY <1>1 DEF HeapInv, GCTypeOK, Control
<1>3. ChainIsAged(new, old')
  BY <1>1, <1>2, AgedChain
<1>4. /\ old' \in Chain
      /\ \A t, j \in Nat : In(old', t, j) <=> In(new, t, j)
      /\ \A t, j \in Nat : In(new, t, j) =>
           /\ Obj(old', t, j).data = Obj(new, t, j).data
           /\ Obj(old', t, j).moved = Obj(new, t, j).moved
           /\ Len(Obj(old', t, j).fields) = Len(Obj(new, t, j).fields)
           /\ \A g \in 1 .. Len(Obj(new, t, j).fields) :
                Obj(old', t, j).fields[g] = Aged(Obj(new, t, j).fields[g])
  BY <1>3 DEF ChainIsAged
<1>5. \A s, i \in Nat : ~ In(new', s, i)
  BY <1>1, NothingIn
<1>6. PICK sp \in Space : sp = newspace(minspace) /\ sp.current = 0 /\ sp.size \in Nat
  <2>1. PICK m \in Nat : m = minspace
    BY <1>2
  <2>2. newspace(m) \in Space
    BY DEF newspace, Space
  <2>3. newspace(m).current = 0 /\ newspace(m).size = m
    BY DEF newspace
  <2> QED
    BY <2>1, <2>2, <2>3
<1>7. new' \in Chain /\ new' # << >> /\ Len(new') = 1 /\ new'[1] = sp
  BY <1>1, <1>6 DEF Chain
<1>8. /\ rootlist' \in Seq(Pointer) /\ Len(rootlist') = Len(rootlist)
      /\ \A i \in 1 .. Len(rootlist) : rootlist'[i] = Aged(rootlist[i])
  <2>1. rootlist' \in [1 .. Len(rootlist) -> Pointer]
    BY <1>1, AgedPointer, RootThere DEF Var, HeapInv
  <2> QED
    BY SMTT(30), <2>1, <1>1, <1>2, FunctionSeq DEF Var
<1>9. GCTypeOK'
  <2>1. Start \in AtType
    BY DEF Start, AtType, Pos
  <2>2. /\ want \in Seq(0 .. Len(rootlist)) /\ Len(rootlist) <= MaxRoots
        /\ rounds \in Nat
    BY SMTT(30) DEF HeapInv, GCTypeOK
  <2> QED
    <3>1. want' \in Seq(0 .. Len(rootlist')) /\ Len(rootlist') <= MaxRoots
      BY <2>2, <1>1, <1>8
    <3>2. pc' \in PC /\ rounds' \in Nat /\ minspace' \in Nat \ {0}
      BY <2>2, <1>1, <1>2 DEF PC
    <3> QED
      BY <2>1, <3>1, <3>2, <1>1, <1>4, <1>7, <1>8 DEF GCTypeOK
<1>10. Control' /\ AtOK'
  BY <1>1, <1>8 DEF HeapInv, Control, AtOK, Busy, Start
<1>11. Filled'
  BY <1>6, <1>7 DEF Filled
<1>12. \A q \in Pointer : Sound(q) => Sound(Aged(q))'
  <2> SUFFICES ASSUME NEW q \in Pointer, Sound(q) PROVE Sound(Aged(q))'
    OBVIOUS
  <2>1. PICK x \in Pointer : x = Aged(q)
    BY AgedPointer
  <2>2. CASE q = Null
    BY <2>1, <2>2, AgedPointer DEF Sound
  <2>3. CASE q.old
    <3>1. x = Stale
      BY <2>1, <2>3, AgedPointer
    <3>2. Sound(x)'
      BY <3>1, NullFacts DEF Sound
    <3> QED
      BY <2>1, <3>2
  <2>4. CASE q # Null /\ ~ q.old
    <3>1. In(new, q.space, q.obj)
      BY <2>4, IsObjectIn DEF Sound
    <3>2. x.old /\ x.space = q.space /\ x.obj = q.obj
      BY <2>1, <2>4, AgedPointer
    <3>3. In(old', x.space, x.obj)
      BY <3>1, <3>2, <1>4, PointerFacts
    <3>4. Sound(x)'
      BY <3>2, <3>3, IsObjectIn DEF Sound
    <3> QED
      BY <2>1, <3>4
  <2> QED
    BY <2>2, <2>3, <2>4
<1>13. RootsSound'
  <2> SUFFICES ASSUME NEW i \in 1 .. Len(rootlist') PROVE Sound(rootlist[i])'
    BY DEF RootsSound
  <2>1. PICK q \in Pointer : q = rootlist[i] /\ Sound(q) /\ rootlist'[i] = Aged(q)
    BY <1>8, RootThere DEF HeapInv, RootsSound
  <2> QED
    BY <2>1, <1>12
<1>14. OldSound'
  <2> SUFFICES ASSUME NEW t \in Nat, NEW l \in Nat, NEW g \in Nat, In(old', t, l),
                      g \in 1 .. Len(Obj(old', t, l).fields)
               PROVE  Sound(Obj(old, t, l).fields[g])'
    BY DEF OldSound
  <2>1. In(new, t, l) /\ g \in 1 .. Len(Obj(new, t, l).fields)
    BY <1>4
  <2>2. PICK q \in Pointer : q = Obj(new, t, l).fields[g] /\ Sound(q)
    BY <2>1, <1>2, FieldThere DEF HeapInv, NewSound
  <2>3. Obj(old', t, l).fields[g] = Aged(q)
    BY <2>1, <2>2, <1>4
  <2> QED
    BY <2>2, <2>3, <1>12
<1>15. NewSound' /\ ThereIsMoved' /\ Distinct(new')
  BY <1>5 DEF NewSound, ThereIsMoved, Distinct
<1>16. MovedIsThere'
  <2> SUFFICES ASSUME NEW t \in Nat, NEW l \in Nat, In(old', t, l)
               PROVE  Obj(old', t, l).moved = Null
    BY DEF MovedIsThere, IsCopied
  <2> QED
    BY <1>4 DEF HeapInv, ThereIsMoved
<1>17. Distinct(old')
  <2> SUFFICES ASSUME NEW s \in Nat, NEW i \in Nat, NEW t \in Nat, NEW j \in Nat,
                      In(old', s, i), In(old', t, j),
                      Obj(old', s, i).data = Obj(old', t, j).data
               PROVE  s = t /\ i = j
    BY DEF Distinct
  <2>1. In(new, s, i) /\ In(new, t, j) /\ Obj(new, s, i).data = Obj(new, t, j).data
    BY <1>4
  <2> QED
    BY <2>1 DEF HeapInv, Distinct
<1> QED
  BY <1>9, <1>10, <1>11, <1>13, <1>14, <1>15, <1>16, <1>17 DEF HeapInv

\* What a scan may change in the new space before it copies: a field.
SameShape(ch, ch2) ==
  /\ ch2 \in Chain /\ ch2 # << >> /\ Len(ch2) = Len(ch)
  /\ \A t, j \in Nat : In(ch2, t, j) <=> In(ch, t, j)
  /\ \A t, j \in Nat : In(ch, t, j) =>
       /\ Obj(ch2, t, j).data = Obj(ch, t, j).data
       /\ Obj(ch2, t, j).moved = Obj(ch, t, j).moved
       /\ Len(Obj(ch2, t, j).fields) = Len(Obj(ch, t, j).fields)
  /\ \A t \in 1 .. Len(ch) : /\ ch2[t].size = ch[t].size
                             /\ ch2[t].current = ch[t].current
                             /\ Len(ch2[t].objs) = Len(ch[t].objs)

\* A chain whose objects keep their data and their fields.
Kept(ch, ch2) ==
  \A t, j \in Nat :
    /\ In(ch2, t, j) <=> In(ch, t, j)
    /\ In(ch, t, j) => /\ Obj(ch2, t, j).data = Obj(ch, t, j).data
                       /\ Obj(ch2, t, j).fields = Obj(ch, t, j).fields

\* What forward() does to the heap, a field of which was set before.
Forwards(p, q, ns) ==
  /\ Kept(old, old')
  /\ q \in Pointer /\ Sound(q)'
  /\ new' \in Chain /\ new' # << >> /\ Len(new') = Len(new) /\ old' \in Chain
  /\ Filled' /\ MovedIsThere' /\ ThereIsMoved' /\ OldSound'
  /\ Distinct(new') /\ Distinct(old')
  /\ \A r \in Pointer : Sound(r) => Sound(r)'
  /\ \A t, j \in Nat : In(new, t, j) =>
       In(new', t, j) /\ Obj(new', t, j) = Obj(ns, t, j)
  /\ \A t, j \in Nat : In(new', t, j) /\ ~ In(new, t, j) =>
       /\ Moves(p) /\ t = q.space /\ j = q.obj /\ ~ q.old
       /\ IsObject(p) /\ Obj(new', t, j) = ObjectAt(p)

\* The copy is made.
LEMMA CopyForwards ==
  ASSUME HeapInv, Busy, pc' = pc, NEW p \in Pointer, Sound(p), Moves(p),
         NEW ns, SameShape(new, ns), forward(p, ns)
  PROVE  \E q \in Pointer : q = Place /\ Forwards(p, q, ns)
<1>1. /\ p.old /\ p # Stale /\ ObjectAt(p).moved = Null
      /\ Fits(Cells(ObjectAt(p)))
  BY DEF Moves, InOld, forward
<1>2. In(old, p.space, p.obj) /\ ObjectAt(p) = Obj(old, p.space, p.obj)
      /\ IsObject(p)
  BY <1>1, IsObjectIn, NullFacts DEF Sound
<1>3. /\ GCTypeOK /\ new \in Chain /\ new # << >> /\ old \in Chain
      /\ p.space \in Nat /\ p.obj \in Nat
  BY PointerFacts DEF HeapInv, GCTypeOK
<1>4. PICK o \in FullObject : o = Obj(old, p.space, p.obj)
  BY <1>2, <1>3, ObjectThere
<1>5. PICK n, k : n = Len(new) /\ k = Len(ns[n].objs) + 1
  OBVIOUS
<1>6. PICK q \in Pointer : /\ q = Place /\ ~ q.old /\ q.space = n /\ q.obj = k
                           /\ q = [old |-> FALSE, space |-> n, obj |-> k]
                           /\ q # Null
  BY <1>3, <1>5, PlaceFacts DEF SameShape
<1>7. new' = ObjectAdded(ns, o)
  BY <1>2, <1>4, <1>5 DEF forward, ObjectAdded, SameShape
<1>8. old' = MovedSet(old, p.space, p.obj, q)
  BY <1>6 DEF forward, MovedSet
<1>9. ObjectIsAdded(ns, new', n, k, o)
  BY <1>5, <1>7, AddedObject DEF SameShape
<1>10. MovedIsSet(old, old', p.space, p.obj, q)
  BY <1>2, <1>3, <1>8, ReplacedMoved
<1>11. /\ new' \in Chain /\ new' # << >> /\ Len(new') = n /\ n \in Nat \ {0}
       /\ k \in Nat \ {0}
       /\ \A s, i \in Nat :
            In(new', s, i) <=> (In(ns, s, i) \/ (s = n /\ i = k))
       /\ ~ In(ns, n, k)
       /\ \A s, i \in Nat : In(ns, s, i) => Obj(new', s, i) = Obj(ns, s, i)
       /\ Obj(new', n, k) = o
       /\ \A s \in 1 .. n : new'[s].size = ns[s].size
       /\ \A s \in 1 .. n : s # n => new'[s] = ns[s]
       /\ new'[n].current = ns[n].current + Cells(o)
  BY <1>9 DEF ObjectIsAdded
<1>12. /\ old' \in Chain
       /\ \A t, j \in Nat : In(old', t, j) <=> In(old, t, j)
       /\ \A t, j \in Nat : In(old, t, j) =>
            /\ Obj(old', t, j).data = Obj(old, t, j).data
            /\ Obj(old', t, j).fields = Obj(old, t, j).fields
            /\ Obj(old', t, j).moved =
                 IF t = p.space /\ j = p.obj THEN q ELSE Obj(old, t, j).moved
  BY <1>10 DEF MovedIsSet
<1>13. /\ \A s, i \in Nat : In(ns, s, i) <=> In(new, s, i)
       /\ \A s, i \in Nat : In(new, s, i) =>
            /\ Obj(ns, s, i).data = Obj(new, s, i).data
            /\ Obj(ns, s, i).moved = Obj(new, s, i).moved
       /\ \A s \in 1 .. n : ns[s].size = new[s].size /\ ns[s].current = new[s].current
  BY <1>5 DEF SameShape
<1>14. Filled'
  <2>1. new[n].current + Cells(o) <= new[n].size
    <3>1. Cells(o) \in Nat
      BY DEF Cells, FullObject, Object
    <3> QED
      BY <3>1, <1>1, <1>2, <1>3, <1>4, <1>5, PlaceFacts DEF Fits, Free
  <2> QED
    BY <2>1, <1>5, <1>11, <1>13 DEF HeapInv, Filled
<1>15. \A r \in Pointer : Sound(r) => Sound(r)'
  <2>1. Busy' => Busy
    BY DEF Busy
  <2> QED
    BY <2>1, <1>11, <1>12, <1>13, SoundKept
<1>16. Sound(q)'
  BY <1>6, <1>11, IsObjectIn DEF Sound
<1>17. OldSound'
  <2> SUFFICES ASSUME NEW t \in Nat, NEW l \in Nat, NEW g \in Nat, In(old', t, l),
                      g \in 1 .. Len(Obj(old', t, l).fields)
               PROVE  Sound(Obj(old, t, l).fields[g])'
    BY DEF OldSound
  <2>1. In(old, t, l) /\ Obj(old', t, l).fields = Obj(old, t, l).fields
    BY <1>12
  <2>2. PICK r \in Pointer : r = Obj(old, t, l).fields[g] /\ Sound(r)
    <3>1. g \in 1 .. Len(Obj(old, t, l).fields)
      BY <2>1
    <3>2. Sound(Obj(old, t, l).fields[g])
      BY <2>1, <3>1 DEF HeapInv, OldSound
    <3>3. Obj(old, t, l).fields[g] \in Pointer
      BY <2>1, <3>1, <1>3, FieldThere
    <3> QED
      BY <3>2, <3>3
  <2> QED
    BY <2>1, <2>2, <1>15
<1>18. ASSUME NEW s \in Nat, NEW i \in Nat, In(new, s, i)
       PROVE  /\ Obj(new, s, i).data # o.data
              /\ Obj(new, s, i).moved = Null /\ WasMoved(s, i)'
  <2>1. Obj(new, s, i).moved = Null /\ WasMoved(s, i)
    BY <1>18 DEF HeapInv, ThereIsMoved
  <2>2. PICK t \in Nat, j \in Nat :
          /\ In(old, t, j)
          /\ Obj(old, t, j).moved = [old |-> FALSE, space |-> s, obj |-> i]
          /\ Obj(old, t, j).data = Obj(new, s, i).data
    BY <2>1 DEF WasMoved
  <2>3. ~ (t = p.space /\ j = p.obj)
    <3>1. s # 0
      BY <1>18 DEF In
    <3>2. [old |-> FALSE, space |-> s, obj |-> i].space = s
      OBVIOUS
    <3> QED
      BY <3>1, <3>2, <2>2, <1>1, <1>2, NullFacts
  <2>4. Obj(new, s, i).data # o.data
    BY <2>2, <2>3, <1>2, <1>3, <1>4 DEF HeapInv, Distinct
  <2>5. /\ In(old', t, j)
        /\ Obj(old', t, j).moved = [old |-> FALSE, space |-> s, obj |-> i]
        /\ Obj(old', t, j).data = Obj(new', s, i).data
    BY <2>2, <2>3, <1>11, <1>12, <1>13, <1>18
  <2> QED
    BY <2>1, <2>4, <2>5 DEF WasMoved
<1>19. ThereIsMoved'
  <2> SUFFICES ASSUME NEW s \in Nat, NEW i \in Nat, In(new', s, i)
               PROVE  Obj(new', s, i).moved = Null /\ WasMoved(s, i)'
    BY DEF ThereIsMoved
  <2>1. CASE In(new, s, i)
    BY <2>1, <1>11, <1>13, <1>18
  <2>2. CASE s = n /\ i = k
    <3>1. Obj(new', s, i).moved = Null
      BY <2>2, <1>1, <1>2, <1>4, <1>11
    <3>2. /\ In(old', p.space, p.obj)
          /\ Obj(old', p.space, p.obj).moved = [old |-> FALSE, space |-> s, obj |-> i]
          /\ Obj(old', p.space, p.obj).data = Obj(new', s, i).data
      <4>1. In(old', p.space, p.obj) /\ Obj(old', p.space, p.obj).moved = q
        BY <1>2, <1>3, <1>12
      <4>2. Obj(old', p.space, p.obj).data = o.data
        BY <1>2, <1>3, <1>4, <1>12
      <4> QED
        BY <4>1, <4>2, <2>2, <1>6, <1>11
    <3> QED
      BY <3>1, <3>2, <1>3 DEF WasMoved
  <2> QED
    BY <2>1, <2>2, <1>11, <1>13
<1>20. MovedIsThere'
  <2> SUFFICES ASSUME NEW s \in Nat, NEW i \in Nat, In(old, s, i),
                      NEW r \in Pointer, r = Obj(old', s, i).moved
               PROVE  IsCopied(r, Obj(old, s, i).data)'
    BY <1>12, ObjectThere DEF MovedIsThere
  <2>1. CASE s = p.space /\ i = p.obj
    <3>1. r = q
      BY <2>1, <1>12
    <3>2. In(new', q.space, q.obj) /\ Obj(new', q.space, q.obj) = o
      BY <1>6, <1>11
    <3>3. Obj(old', s, i).data = o.data
      BY <2>1, <1>4, <1>12
    <3> QED
      BY <3>1, <3>2, <3>3, <1>6 DEF IsCopied
  <2>2. CASE ~ (s = p.space /\ i = p.obj)
    <3>1. r = Obj(old, s, i).moved /\ Obj(old', s, i).data = Obj(old, s, i).data
      BY <2>2, <1>12
    <3>2. IsCopied(r, Obj(old, s, i).data)
      BY <3>1 DEF HeapInv, MovedIsThere
    <3>3. CASE r = Null
      BY <3>3 DEF IsCopied
    <3>4. CASE ~ r.old /\ In(new, r.space, r.obj)
               /\ Obj(new, r.space, r.obj).data = Obj(old, s, i).data
      BY <3>1, <3>4, <1>11, <1>13, PointerFacts DEF IsCopied
    <3> QED
      BY <3>2, <3>3, <3>4 DEF IsCopied
  <2> QED
    BY <2>1, <2>2
<1>21. Distinct(new')
  <2>1. Distinct(new) /\ n \in Nat /\ k \in Nat
    BY <1>11 DEF HeapInv
  <2>2. \A s, i \in Nat : In(new', s, i) <=> (In(new, s, i) \/ (s = n /\ i = k))
    BY <1>11, <1>13
  <2>3. \A s, i \in Nat :
          In(new, s, i) => Obj(new', s, i).data = Obj(new, s, i).data
    BY <1>11, <1>13
  <2>4. \A s, i \in Nat :
          In(new, s, i) => Obj(new, s, i).data # Obj(new', n, k).data
    BY <1>11, <1>18
  <2> QED
    BY <2>1, <2>2, <2>3, <2>4, DistinctAdded
<1>22. Distinct(old')
  <2> SUFFICES ASSUME NEW s \in Nat, NEW i \in Nat, NEW t \in Nat, NEW j \in Nat,
                      In(old', s, i), In(old', t, j),
                      Obj(old', s, i).data = Obj(old', t, j).data
               PROVE  s = t /\ i = j
    BY DEF Distinct
  <2>1. In(old, s, i) /\ In(old, t, j) /\ Obj(old, s, i).data = Obj(old, t, j).data
    BY <1>12
  <2> QED
    BY <2>1 DEF HeapInv, Distinct
<1>23. \A t, j \in Nat : In(new, t, j) =>
         In(new', t, j) /\ Obj(new', t, j) = Obj(ns, t, j)
  BY <1>11, <1>13
<1>25. Kept(old, old')
  BY <1>12 DEF Kept
<1>24. \A t, j \in Nat : In(new', t, j) /\ ~ In(new, t, j) =>
         /\ Moves(p) /\ t = q.space /\ j = q.obj /\ ~ q.old
         /\ IsObject(p) /\ Obj(new', t, j) = ObjectAt(p)
  BY <1>2, <1>4, <1>6, <1>11, <1>13
<1> QED
  BY <1>5, <1>6, <1>11, <1>12, <1>14, <1>15, <1>16, <1>17, <1>19, <1>20, <1>21,
     <1>22, <1>23, <1>24, <1>25 DEF Forwards

\* The pointer is not into the old space, or to an object moved before.
LEMMA KeepForwards ==
  ASSUME HeapInv, Busy, pc' = pc, NEW p \in Pointer, Sound(p), ~ Moves(p),
         NEW ns, SameShape(new, ns), forward(p, ns)
  PROVE  \E q \in Pointer : q = Forwarded(p) /\ Forwards(p, q, ns)
<1>1. new' = ns /\ old' = old
  BY DEF forward
<1>2. /\ new' \in Chain /\ new' # << >> /\ Len(new') = Len(new)
      /\ old \in Chain /\ new \in Chain
      /\ \A t, j \in Nat : In(new', t, j) <=> In(new, t, j)
      /\ \A t, j \in Nat : In(new, t, j) =>
           /\ Obj(new', t, j).data = Obj(new, t, j).data
           /\ Obj(new', t, j).moved = Obj(new, t, j).moved
      /\ \A t \in 1 .. Len(new) : /\ new'[t].size = new[t].size
                                  /\ new'[t].current = new[t].current
  BY <1>1 DEF SameShape, HeapInv, GCTypeOK
<1>3. \A r \in Pointer : Sound(r) => Sound(r)'
  <2>1. Busy' => Busy
    BY DEF Busy
  <2> QED
    BY <2>1, <1>1, <1>2, SoundKept
<1>4. \E q \in Pointer : q = Forwarded(p) /\ Sound(q)'
  <2>1. CASE ~ InOld(p)
    BY <2>1, <1>3 DEF Forwarded
  <2>2. CASE InOld(p)
    <3>1. /\ p.old /\ p # Stale /\ ObjectAt(p).moved # Null
          /\ Forwarded(p) = ObjectAt(p).moved
      BY <2>2 DEF Moves, InOld, Forwarded
    <3>2. In(old, p.space, p.obj) /\ ObjectAt(p) = Obj(old, p.space, p.obj)
      BY <3>1, IsObjectIn, NullFacts DEF Sound
    <3>3. PICK q \in Pointer : q = ObjectAt(p).moved
      BY <3>2, <1>2, PointerFacts, ObjectThere
    <3>4. IsCopied(q, Obj(old, p.space, p.obj).data)
      BY <3>2, <3>3, PointerFacts DEF HeapInv, MovedIsThere
    <3>5. ~ q.old /\ In(new, q.space, q.obj)
      BY <3>1, <3>3, <3>4 DEF IsCopied
    <3>6. Sound(q)
      BY <3>5, IsObjectIn DEF Sound
    <3> QED
      BY <3>1, <3>3, <3>6, <1>3
  <2> QED
    BY <2>1, <2>2
<1>5. Filled'
  BY <1>2 DEF HeapInv, Filled
<1>6. MovedIsThere'
  <2> SUFFICES ASSUME NEW s \in Nat, NEW i \in Nat, In(old, s, i),
                      NEW r \in Pointer, r = Obj(old, s, i).moved
               PROVE  IsCopied(r, Obj(old, s, i).data)'
    BY <1>1, <1>2, ObjectThere DEF MovedIsThere
  <2>1. IsCopied(r, Obj(old, s, i).data)
    BY DEF HeapInv, MovedIsThere
  <2> QED
    BY <2>1, <1>1, <1>2, PointerFacts DEF IsCopied
<1>7. ThereIsMoved'
  <2> SUFFICES ASSUME NEW s \in Nat, NEW i \in Nat, In(new', s, i)
               PROVE  Obj(new', s, i).moved = Null /\ WasMoved(s, i)'
    BY DEF ThereIsMoved
  <2>1. In(new, s, i)
    BY <1>2
  <2>2. Obj(new, s, i).moved = Null /\ WasMoved(s, i)
    BY <2>1 DEF HeapInv, ThereIsMoved
  <2> QED
    BY <2>1, <2>2, <1>1, <1>2 DEF WasMoved
<1>8. OldSound'
  <2> SUFFICES ASSUME NEW t \in Nat, NEW l \in Nat, NEW g \in Nat, In(old', t, l),
                      g \in 1 .. Len(Obj(old', t, l).fields)
               PROVE  Sound(Obj(old, t, l).fields[g])'
    BY DEF OldSound
  <2>1. Sound(Obj(old, t, l).fields[g])
    BY <1>1 DEF HeapInv, OldSound
  <2>2. Obj(old, t, l).fields[g] \in Pointer
    BY <1>1, <1>2, FieldThere
  <2> QED
    BY <2>1, <2>2, <1>1, <1>3
<1>9. Distinct(old')
  BY <1>1 DEF HeapInv
<1>10. Distinct(new')
  <2> SUFFICES ASSUME NEW s \in Nat, NEW i \in Nat, NEW t \in Nat, NEW j \in Nat,
                      In(new', s, i), In(new', t, j),
                      Obj(new', s, i).data = Obj(new', t, j).data
               PROVE  s = t /\ i = j
    BY DEF Distinct
  <2>1. In(new, s, i) /\ In(new, t, j) /\ Obj(new, s, i).data = Obj(new, t, j).data
    BY <1>2
  <2> QED
    BY <2>1 DEF HeapInv, Distinct
<1>11. Kept(old, old')
  BY <1>1 DEF Kept
<1> QED
  BY <1>1, <1>2, <1>3, <1>4, <1>5, <1>6, <1>7, <1>8, <1>9, <1>10, <1>11 DEF Forwards

LEMMA ForwardStep ==
  ASSUME HeapInv, Busy, pc' = pc, NEW p \in Pointer, Sound(p),
         NEW ns, SameShape(new, ns), forward(p, ns)
  PROVE  \E q \in Pointer : q = Forwarded(p) /\ Forwards(p, q, ns)
<1>1. CASE Moves(p)
  <2>1. Forwarded(p) = Place
    BY <1>1 DEF Forwarded, Moves
  <2> QED
    BY <1>1, <2>1, CopyForwards
<1>2. CASE ~ Moves(p)
  BY <1>2, KeepForwards
<1> QED
  BY <1>1, <1>2

LEMMA ForwardedPointer ==
  ASSUME HeapInv, Busy, NEW p \in Pointer, Sound(p)
  PROVE  Forwarded(p) \in Pointer
<1>1. CASE ~ InOld(p)
  BY <1>1 DEF Forwarded
<1>2. CASE InOld(p) /\ Moves(p)
  BY <1>2, PlaceFacts DEF Forwarded, HeapInv
<1>3. CASE InOld(p) /\ ~ Moves(p)
  <2>1. In(old, p.space, p.obj) /\ ObjectAt(p) = Obj(old, p.space, p.obj)
    BY <1>3, IsObjectIn, NullFacts DEF Sound, InOld
  <2>2. ObjectAt(p).moved \in Pointer
    BY <2>1, PointerFacts, ObjectThere DEF HeapInv, GCTypeOK
  <2> QED
    BY <2>2, <1>3 DEF Forwarded
<1> QED
  BY <1>1, <1>2, <1>3

\* The fields of the new space are sound when those were before the copy.
FieldsSoundOr(ns, q) ==
  \A t, j \in Nat : In(new, t, j) =>
    \A g \in 1 .. Len(Obj(ns, t, j).fields) :
      \E r \in Pointer : r = Obj(ns, t, j).fields[g] /\ (Sound(r) \/ r = q)

LEMMA NewSoundAfter ==
  ASSUME HeapInv, NEW p \in Pointer, NEW q \in Pointer, NEW ns, Forwards(p, q, ns),
         FieldsSoundOr(ns, q), Busy
  PROVE  NewSound'
<1> SUFFICES ASSUME NEW t \in Nat, NEW l \in Nat, NEW g \in Nat, In(new', t, l),
                    g \in 1 .. Len(Obj(new', t, l).fields)
             PROVE  Sound(Obj(new, t, l).fields[g])'
  BY DEF NewSound
<1>1. PICK r \in Pointer : r = Obj(new', t, l).fields[g] /\ (Sound(r) \/ r = q)
  <2>1. CASE In(new, t, l)
    <3>1. Obj(new', t, l) = Obj(ns, t, l)
      BY <2>1 DEF Forwards
    <3>2. \A h \in 1 .. Len(Obj(ns, t, l).fields) :
            \E r \in Pointer : r = Obj(ns, t, l).fields[h] /\ (Sound(r) \/ r = q)
      BY <2>1 DEF FieldsSoundOr
    <3>3. g \in 1 .. Len(Obj(ns, t, l).fields)
      BY <3>1
    <3> QED
      BY <3>1, <3>2, <3>3
  <2>2. CASE ~ In(new, t, l)
    <3>1. Moves(p) /\ IsObject(p) /\ Obj(new', t, l) = ObjectAt(p)
      BY <2>2 DEF Forwards
    <3>2. p.old /\ In(old, p.space, p.obj) /\ ObjectAt(p) = Obj(old, p.space, p.obj)
      BY <3>1, IsObjectIn DEF Moves, InOld
    <3>3. g \in 1 .. Len(Obj(old, p.space, p.obj).fields)
      BY <3>1, <3>2
    <3>4. Sound(Obj(old, p.space, p.obj).fields[g])
      BY <3>2, <3>3, PointerFacts DEF HeapInv, OldSound
    <3>5. Obj(old, p.space, p.obj).fields[g] \in Pointer
      BY <3>2, <3>3, PointerFacts, FieldThere DEF HeapInv, GCTypeOK
    <3> QED
      BY <3>1, <3>2, <3>4, <3>5
  <2> QED
    BY <2>1, <2>2
<1> QED
  BY <1>1 DEF Forwards

-----------------------------------------------------------------------------
(* The size of what is left.                                               *)

\* The sum over the spaces, by its partial sums.
LEMMA LiveSum ==
  ASSUME NEW ch \in Chain
  PROVE  \E f \in [0 .. Len(ch) -> Nat] :
           /\ f[0] = 0
           /\ \A n \in 1 .. Len(ch) : f[n] = f[n - 1] + ch[n].current
           /\ Live(ch) = f[Len(ch)]
<1>1. PICK N \in Nat : N = Len(ch)
  BY DEF Chain
<1>2. \A i \in 1 .. N : ch[i].current \in Nat
  <2>1. \A i \in 1 .. N : ch[i] \in Space
    BY <1>1 DEF Chain
  <2> QED
    BY <2>1 DEF Space
<1> DEFINE Is(f, n) == /\ f \in [0 .. n -> Nat] /\ f[0] = 0
                       /\ \A k \in 1 .. n : f[k] = f[k - 1] + ch[k].current
           T == {n \in Nat : n <= N => \E f : Is(f, n)}
<1>3. 0 \in T
  <2>1. Is([k \in 0 .. 0 |-> 0], 0)
    OBVIOUS
  <2> QED
    BY <2>1
<1>4. ASSUME NEW n \in Nat, n \in T PROVE n + 1 \in T
  <2> SUFFICES ASSUME n + 1 <= N PROVE \E f : Is(f, n + 1)
    OBVIOUS
  <2>1. n <= N
    BY <1>1
  <2>2. PICK f : Is(f, n)
    BY <1>4, <2>1
  <2>3. PICK c \in Nat : c = ch[n + 1].current
    BY <1>1, <1>2
  <2>4. f[n] \in Nat
    BY <2>2
  <2>5. PICK g : g = [k \in 0 .. n + 1 |-> IF k = n + 1 THEN f[n] + c ELSE f[k]]
    OBVIOUS
  <2>6. g \in [0 .. n + 1 -> Nat] /\ g[0] = 0
    BY <2>2, <2>3, <2>4, <2>5
  <2>7. \A k \in 0 .. n : g[k] = f[k]
    BY <2>5
  <2>8. g[n + 1] = g[n] + ch[n + 1].current
    BY <2>3, <2>5, <2>7
  <2>9. \A k \in 1 .. n : g[k] = g[k - 1] + ch[k].current
    BY <2>2, <2>7
  <2>10. \A k \in 1 .. n + 1 : g[k] = g[k - 1] + ch[k].current
    BY <2>8, <2>9
  <2> QED
    BY <2>6, <2>10
<1>5. N \in T
  <2> HIDE DEF T
  <2> QED
    BY <1>1, <1>3, <1>4, Inductive
<1>6. PICK f : Is(f, N)
  BY <1>5
<1>7. f = [n \in 0 .. N |-> IF n = 0 THEN 0 ELSE f[n - 1] + ch[n].current]
  BY <1>6
<1>8. PICK l : l = CHOOSE g :
        g = [n \in 0 .. N |-> IF n = 0 THEN 0 ELSE g[n - 1] + ch[n].current]
  OBVIOUS
<1>9. l = [n \in 0 .. N |-> IF n = 0 THEN 0 ELSE l[n - 1] + ch[n].current]
  BY <1>7, <1>8
<1>10. Live(ch) = l[N]
  BY <1>1, <1>8 DEF Live
<1>11. l = f
  <2> DEFINE U == {n \in Nat : n <= N => l[n] = f[n]}
  <2>1. 0 \in U
    BY <1>6, <1>9
  <2>2. ASSUME NEW n \in Nat, n \in U PROVE n + 1 \in U
    <3> SUFFICES ASSUME n + 1 <= N PROVE l[n + 1] = f[n + 1]
      OBVIOUS
    <3>1. l[n] = f[n] /\ n + 1 \in 0 .. N /\ n + 1 # 0 /\ n + 1 - 1 = n
      BY <2>2
    <3> QED
      BY <3>1, <1>7, <1>9
  <2>3. \A n \in Nat : n \in U
    <3> HIDE DEF U
    <3> QED
      BY <2>1, <2>2, Inductive
  <2> QED
    BY <2>3, <1>7, <1>9
<1> QED
  BY <1>1, <1>6, <1>10, <1>11

LEMMA LiveNat ==
  ASSUME GCTypeOK
  PROVE  LiveData \in Nat
<1>1. PICK ch \in Chain : ch = new
  BY DEF GCTypeOK
<1>2. Len(ch) \in Nat
  BY DEF Chain
<1> QED
  BY <1>1, <1>2, LiveSum DEF LiveData

-----------------------------------------------------------------------------
(* The steps of a round.                                                   *)

LEMMA SameShapeSelf ==
  ASSUME GCTypeOK
  PROVE  SameShape(new, new)
BY SMTT(30) DEF GCTypeOK, SameShape

LEMMA AtMoves ==
  ASSUME NEW a \in AtType
  PROVE  /\ [a EXCEPT !.root = @ + 1] \in AtType
         /\ \A k \in Nat :
              /\ [a EXCEPT !.front = k, !.space = k, !.obj = 1, !.field = 1] \in AtType
              /\ [a EXCEPT !.space = k, !.obj = 1, !.field = 1] \in AtType
              /\ [a EXCEPT !.scanned = k] \in AtType
         /\ [a EXCEPT !.field = @ + 1] \in AtType
         /\ [a EXCEPT !.obj = @ + 1, !.field = 1] \in AtType
<1>1. 1 \in Pos /\ a.root \in Pos /\ a.obj \in Pos /\ a.field \in Pos
  BY DEF AtType, Pos
<1>2. a.root + 1 \in Pos /\ a.obj + 1 \in Pos /\ a.field + 1 \in Pos
  BY <1>1 DEF Pos
<1>3. [a EXCEPT !.root = @ + 1] \in AtType
  BY <1>2 DEF AtType
<1>4. [a EXCEPT !.field = @ + 1] \in AtType
  BY <1>2 DEF AtType
<1>5. [a EXCEPT !.obj = @ + 1, !.field = 1] \in AtType
  BY <1>1, <1>2 DEF AtType
<1>6. ASSUME NEW k \in Nat
      PROVE  [a EXCEPT !.front = k, !.space = k, !.obj = 1, !.field = 1] \in AtType
  BY <1>1 DEF AtType
<1>7. ASSUME NEW k \in Nat
      PROVE  [a EXCEPT !.space = k, !.obj = 1, !.field = 1] \in AtType
  BY <1>1 DEF AtType
<1>8. ASSUME NEW k \in Nat
      PROVE  [a EXCEPT !.scanned = k] \in AtType
  BY <1>1 DEF AtType
<1> QED
  BY <1>3, <1>4, <1>5, <1>6, <1>7, <1>8

LEMMA RootScans ==
  ASSUME HeapInv, scanroots, at.root <= Len(rootlist)
  PROVE  \E i \in 1 .. Len(rootlist), p \in Pointer, q \in Pointer :
           /\ i = at.root /\ p = rootlist[i] /\ Sound(p)
           /\ q = Forwarded(p) /\ Forwards(p, q, new)
           /\ rootlist' = [rootlist EXCEPT ![i] = q]
           /\ at' = [at EXCEPT !.root = @ + 1]
           /\ pc = "roots" /\ pc' = pc /\ Busy
           /\ UNCHANGED <<minspace, gcblocked, want, rounds>>
<1>1. at.root \in 1 .. Len(rootlist)
  BY DEF HeapInv, GCTypeOK, AtType, Pos
<1>2. PICK i \in 1 .. Len(rootlist) : i = at.root
  BY <1>1
<1>3. PICK p \in Pointer : p = rootlist[i] /\ Sound(p)
  BY RootThere DEF HeapInv, RootsSound
<1>4. /\ forward(p, new) /\ rootlist' = [rootlist EXCEPT ![i] = Forwarded(p)]
      /\ at' = [at EXCEPT !.root = @ + 1] /\ pc = "roots" /\ pc' = pc
      /\ UNCHANGED <<minspace, gcblocked, want, rounds>>
  BY <1>2, <1>3 DEF scanroots
<1>5. Busy
  BY <1>4 DEF Busy
<1>6. PICK q \in Pointer : q = Forwarded(p) /\ Forwards(p, q, new)
  <2>1. PICK ns : ns = new
    OBVIOUS
  <2>2. SameShape(new, ns) /\ forward(p, ns)
    BY <2>1, <1>4, SameShapeSelf DEF HeapInv
  <2>3. PICK q \in Pointer : q = Forwarded(p) /\ Forwards(p, q, ns)
    BY <2>2, <1>3, <1>4, <1>5, ForwardStep
  <2> QED
    BY <2>1, <2>3
<1> QED
  BY <1>2, <1>3, <1>4, <1>5, <1>6

LEMMA ScanrootsHeap ==
  ASSUME HeapInv, scanroots, at.root <= Len(rootlist)
  PROVE  HeapInv'
<1>1. PICK i \in 1 .. Len(rootlist), p \in Pointer, q \in Pointer :
           /\ i = at.root /\ p = rootlist[i] /\ Sound(p)
           /\ q = Forwarded(p) /\ Forwards(p, q, new)
           /\ rootlist' = [rootlist EXCEPT ![i] = q]
           /\ at' = [at EXCEPT !.root = @ + 1]
           /\ pc = "roots" /\ pc' = pc /\ Busy
           /\ UNCHANGED <<minspace, gcblocked, want, rounds>>
  BY RootScans
<1>2. /\ new' \in Chain /\ new' # << >> /\ Len(new') = Len(new) /\ old' \in Chain
      /\ Filled' /\ MovedIsThere' /\ ThereIsMoved' /\ OldSound'
      /\ Distinct(new') /\ Distinct(old')
      /\ \A r \in Pointer : Sound(r) => Sound(r)'
      /\ Sound(q)'
  BY <1>1 DEF Forwards
<1>3. new \in Chain /\ rootlist \in Seq(Pointer) /\ Len(rootlist) <= MaxRoots
      /\ want \in Seq(0 .. Len(rootlist)) /\ minspace \in Nat \ {0} /\ rounds \in Nat
      /\ pc \in PC
      /\ at \in AtType
  BY DEF HeapInv, GCTypeOK
<1>4. /\ rootlist' \in Seq(Pointer) /\ Len(rootlist') = Len(rootlist)
      /\ \A j \in 1 .. Len(rootlist) :
           rootlist'[j] = IF j = i THEN q ELSE rootlist[j]
  BY SMTT(30), <1>1, <1>3, ExceptSeq
<1>5. at' \in AtType
  BY <1>1, <1>3, AtMoves
<1>6. GCTypeOK'
  BY <1>1, <1>2, <1>3, <1>4, <1>5 DEF GCTypeOK
<1>7. Control' /\ AtOK'
  <2>1. at'.scanned = at.scanned
    BY <1>1, <1>3 DEF AtType
  <2> QED
    BY <2>1, <1>1, <1>4 DEF HeapInv, Control, AtOK, Busy
<1>8. RootsSound'
  <2> SUFFICES ASSUME NEW j \in 1 .. Len(rootlist') PROVE Sound(rootlist[j])'
    BY DEF RootsSound
  <2>1. CASE j = i
    BY <2>1, <1>2, <1>4
  <2>2. CASE j # i
    <3>1. PICK r \in Pointer : r = rootlist[j] /\ r = rootlist'[j] /\ Sound(r)
      BY <2>2, <1>4, RootThere DEF HeapInv, RootsSound
    <3> QED
      BY <3>1, <1>2
  <2> QED
    BY <2>1, <2>2
<1>9. NewSound'
  <2>1. PICK ns : ns = new
    OBVIOUS
  <2>2. FieldsSoundOr(ns, q)
    <3> SUFFICES ASSUME NEW t \in Nat, NEW j \in Nat, In(new, t, j),
                        NEW g \in 1 .. Len(Obj(new, t, j).fields)
                 PROVE  /\ Obj(new, t, j).fields[g] \in Pointer
                        /\ Sound(Obj(new, t, j).fields[g])
      BY <2>1 DEF FieldsSoundOr
    <3>1. Obj(new, t, j).fields[g] \in Pointer /\ g \in Nat
      BY SMTT(30), <1>3, FieldThere
    <3> QED
      BY <3>1 DEF HeapInv, NewSound
  <2> QED
    BY <2>1, <2>2, <1>1, NewSoundAfter
<1> QED
  BY <1>2, <1>6, <1>7, <1>8, <1>9 DEF HeapInv

LEMMA FieldScans ==
  ASSUME HeapInv, scanspace
  PROVE  \E p \in Pointer, q \in Pointer, ns \in Chain :
           /\ p = Here /\ Sound(p) /\ q = Forwarded(p)
           /\ In(new, at.space, at.obj)
           /\ at.field \in 1 .. Len(Obj(new, at.space, at.obj).fields)
           /\ at.space \in Nat /\ at.obj \in Nat
           /\ p = Obj(new, at.space, at.obj).fields[at.field]
           /\ FieldIsSet(new, ns, at.space, at.obj, at.field, q)
           /\ SameShape(new, ns)
           /\ Forwards(p, q, ns)
           /\ at' = NextField /\ pc = "space" /\ pc' = pc /\ Busy /\ Scanning
           /\ UNCHANGED <<minspace, rootlist, gcblocked, want, rounds>>
<1>1. /\ pc = "space" /\ pc' = pc /\ Scanning /\ at' = NextField
      /\ UNCHANGED <<minspace, rootlist, gcblocked, want, rounds>>
      /\ forward(Here, [new EXCEPT ![at.space].objs[at.obj].fields[at.field] =
                          Forwarded(Here)])
  BY DEF scanspace
<1>2. Busy
  BY <1>1 DEF Busy
<1>3. /\ In(new, at.space, at.obj)
      /\ at.field \in 1 .. Len(Obj(new, at.space, at.obj).fields)
      /\ at.space \in Nat /\ at.obj \in Nat /\ at.field \in Nat
      /\ new \in Chain /\ new # << >>
  BY <1>1, ScanningIn DEF HeapInv, GCTypeOK
<1>4. PICK p \in Pointer : /\ p = Here /\ Sound(p)
                           /\ p = Obj(new, at.space, at.obj).fields[at.field]
  <2>1. Here = Obj(new, at.space, at.obj).fields[at.field]
    BY DEF Here, Obj
  <2>2. Obj(new, at.space, at.obj).fields[at.field] \in Pointer
    BY <1>3, FieldThere
  <2>3. Sound(Obj(new, at.space, at.obj).fields[at.field])
    BY <1>3 DEF HeapInv, NewSound
  <2> QED
    BY <2>1, <2>2, <2>3
<1>5. PICK q \in Pointer : q = Forwarded(p)
  BY <1>2, <1>4, ForwardedPointer
<1>6. PICK ns : ns = FieldSet(new, at.space, at.obj, at.field, q)
  OBVIOUS
<1>7. forward(p, ns)
  BY <1>1, <1>4, <1>5, <1>6 DEF FieldSet
<1>8. FieldIsSet(new, ns, at.space, at.obj, at.field, q)
  BY <1>3, <1>6, ReplacedField
<1>9. SameShape(new, ns)
  <2>1. ns \in Chain /\ Len(ns) = Len(new)
    BY <1>8 DEF FieldIsSet
  <2>2. ns # << >>
    <3>1. Len(new) # 0
      BY <1>3, EmptySeq DEF Chain
    <3>2. Len(<< >>) = 0
      OBVIOUS
    <3> QED
      BY <2>1, <3>1, <3>2
  <2> QED
    BY <2>2, <1>8 DEF FieldIsSet, SameShape
<1>10. Forwards(p, q, ns)
  BY <1>1, <1>2, <1>4, <1>5, <1>7, <1>9, ForwardStep
<1>11. ns \in Chain
  BY <1>9 DEF SameShape
<1> QED
  BY <1>1, <1>2, <1>3, <1>4, <1>5, <1>8, <1>9, <1>10, <1>11

LEMMA ScanspaceHeap ==
  ASSUME HeapInv, scanspace
  PROVE  HeapInv'
<1>1. PICK p \in Pointer, q \in Pointer, ns \in Chain :
           /\ p = Here /\ Sound(p) /\ q = Forwarded(p)
           /\ In(new, at.space, at.obj)
           /\ at.field \in 1 .. Len(Obj(new, at.space, at.obj).fields)
           /\ at.space \in Nat /\ at.obj \in Nat
           /\ p = Obj(new, at.space, at.obj).fields[at.field]
           /\ FieldIsSet(new, ns, at.space, at.obj, at.field, q)
           /\ SameShape(new, ns)
           /\ Forwards(p, q, ns)
           /\ at' = NextField /\ pc = "space" /\ pc' = pc /\ Busy /\ Scanning
           /\ UNCHANGED <<minspace, rootlist, gcblocked, want, rounds>>
  BY FieldScans
<1>2. /\ new' \in Chain /\ new' # << >> /\ Len(new') = Len(new) /\ old' \in Chain
      /\ Filled' /\ MovedIsThere' /\ ThereIsMoved' /\ OldSound'
      /\ Distinct(new') /\ Distinct(old')
      /\ \A r \in Pointer : Sound(r) => Sound(r)'
      /\ \A t, j \in Nat : In(new, t, j) =>
           In(new', t, j) /\ Obj(new', t, j) = Obj(ns, t, j)
  BY <1>1 DEF Forwards
<1>3. /\ new \in Chain /\ at \in AtType /\ at.field \in Nat
      /\ at.scanned \in Nat /\ at.front \in Nat
  BY DEF HeapInv, GCTypeOK, AtType, Pos
<1>4. PICK o : o = Obj(new, at.space, at.obj)
  OBVIOUS
<1>5. Len(o.fields) \in Nat \ {0}
  BY SMTT(30), <1>1, <1>3, <1>4, ObjectThere
<1>6. \/ at.field < Len(o.fields) /\ at' = [at EXCEPT !.field = @ + 1]
      \/ at' = [at EXCEPT !.obj = @ + 1, !.field = 1]
  BY <1>1, <1>4 DEF NextField, Obj
<1>7. /\ at' \in AtType
      /\ at'.space = at.space /\ at'.scanned = at.scanned /\ at'.front = at.front
      /\ at'.field = 1
         \/ (at'.obj = at.obj /\ at'.field = at.field + 1 /\ at.field < Len(o.fields))
  <2>1. at' \in AtType
    BY <1>3, <1>6, AtMoves
  <2> QED
    BY <2>1, <1>3, <1>6 DEF AtType
<1>8. GCTypeOK'
  <2>1. /\ rootlist \in Seq(Pointer) /\ Len(rootlist) <= MaxRoots
        /\ want \in Seq(0 .. Len(rootlist)) /\ minspace \in Nat \ {0}
        /\ rounds \in Nat /\ pc \in PC
    BY DEF HeapInv, GCTypeOK
  <2> QED
    BY <2>1, <1>1, <1>2, <1>7 DEF GCTypeOK
<1>9. Control'
  BY <1>1 DEF HeapInv, Control, Busy
<1>10. AtOK'
  <2>1. at'.scanned <= at'.space /\ at'.space <= at'.front /\ at'.front <= Len(new')
    BY <1>1, <1>2, <1>7 DEF HeapInv, AtOK
  <2>2. ASSUME at'.field # 1
        PROVE  Scanning' /\ at'.field <= Len(Obj(new', at'.space, at'.obj).fields)
    <3>1. at'.obj = at.obj /\ at'.field = at.field + 1 /\ at.field < Len(o.fields)
      BY <1>7, <2>2
    <3>2. /\ In(new', at'.space, at'.obj)
          /\ Len(Obj(new', at'.space, at'.obj).fields) = Len(o.fields)
      <4>1. /\ In(new', at.space, at.obj)
            /\ Obj(new', at.space, at.obj) = Obj(ns, at.space, at.obj)
        BY <1>1, <1>2
      <4>2. Len(Obj(ns, at.space, at.obj).fields) = Len(o.fields)
        BY <1>1, <1>4 DEF SameShape
      <4> QED
        BY <4>1, <4>2, <3>1, <1>7
    <3>3. at.space > at.scanned
      BY <1>1 DEF Scanning
    <3>4. Scanning'
      BY <3>2, <3>3, <1>7 DEF Scanning, In
    <3> QED
      BY <3>1, <3>2, <3>4, <1>3, <1>5
  <2> QED
    BY <2>1, <2>2, <1>1 DEF AtOK
<1>11. RootsSound'
  BY <1>1, <1>2, RootThere DEF HeapInv, RootsSound
<1>12. NewSound'
  <2>1. FieldsSoundOr(ns, q)
    <3> SUFFICES ASSUME NEW t \in Nat, NEW j \in Nat, In(new, t, j),
                        NEW g \in 1 .. Len(Obj(ns, t, j).fields)
                 PROVE  \E r \in Pointer :
                          r = Obj(ns, t, j).fields[g] /\ (Sound(r) \/ r = q)
      BY DEF FieldsSoundOr
    <3>1. /\ g \in 1 .. Len(Obj(new, t, j).fields)
          /\ Obj(ns, t, j).fields[g] =
               IF t = at.space /\ j = at.obj /\ g = at.field THEN q
               ELSE Obj(new, t, j).fields[g]
      <4>1. Len(Obj(ns, t, j).fields) = Len(Obj(new, t, j).fields)
        BY <1>1 DEF FieldIsSet
      <4>2. g \in 1 .. Len(Obj(new, t, j).fields)
        BY <4>1
      <4> QED
        BY <4>2, <1>1 DEF FieldIsSet
    <3>2. Obj(new, t, j).fields[g] \in Pointer /\ g \in Nat
      BY <3>1, <1>3, FieldThere
    <3>3. Sound(Obj(new, t, j).fields[g])
      BY <3>1, <3>2 DEF HeapInv, NewSound
    <3> QED
      BY <3>1, <3>2, <3>3
  <2> QED
    BY <2>1, <1>1, NewSoundAfter
<1> QED
  BY <1>2, <1>8, <1>9, <1>10, <1>11, <1>12 DEF HeapInv

\* The heap is left alone, within a round.
LEMMA SameHeap ==
  ASSUME HeapInv, Busy, Busy', GCTypeOK', AtOK',
         UNCHANGED <<new, old, rootlist, gcblocked, want>>
  PROVE  HeapInv'
<1>1. Control' /\ Filled'
  BY DEF HeapInv, Control, Filled, Busy
<1>2. RootsSound'
  BY SoundKept, RootThere DEF HeapInv, RootsSound
<1>3. NewSound' /\ OldSound'
  BY SoundKept, FieldThere DEF HeapInv, GCTypeOK, NewSound, OldSound
<1>4. Distinct(new)' /\ Distinct(old)'
  BY DEF HeapInv, Distinct
<1>5. MovedIsThere'
  BY DEF HeapInv, MovedIsThere, IsCopied
<1>6. ThereIsMoved'
  BY DEF HeapInv, ThereIsMoved, WasMoved
<1> QED
  BY <1>1, <1>2, <1>3, <1>4, <1>5, <1>6 DEF HeapInv

LEMMA PassHeap ==
  ASSUME HeapInv,
         \/ scanroots /\ at.root > Len(rootlist)
         \/ StartPass \/ NextSpace \/ EndPass
  PROVE  HeapInv'
<1>1. /\ at \in AtType /\ at.scanned \in Nat /\ at.space \in Nat /\ at.front \in Nat
      /\ Len(new) \in Nat /\ GCTypeOK /\ AtOK
  BY DEF HeapInv, GCTypeOK, AtType, Chain
<1>2. CASE scanroots /\ at.root > Len(rootlist)
  <2>1. /\ pc = "roots" /\ pc' = "pass" /\ UNCHANGED <<new, old, rootlist, at>>
        /\ UNCHANGED <<minspace, gcblocked, want, rounds>>
    BY <1>2 DEF scanroots
  <2>2. GCTypeOK' /\ Busy /\ Busy'
    BY <2>1, <1>1 DEF GCTypeOK, PC, Busy
  <2>3. AtOK'
    BY <2>1, <1>1 DEF AtOK, HeapInv
  <2> QED
    BY <2>1, <2>2, <2>3, SameHeap
<1>3. CASE StartPass
  <2>1. /\ pc = "pass" /\ pc' = "space"
        /\ at' = [at EXCEPT !.front = Len(new), !.space = Len(new), !.obj = 1, !.field = 1]
        /\ UNCHANGED <<new, old, minspace, rootlist, gcblocked, want, rounds>>
    BY SMTT(30), <1>3 DEF StartPass
  <2>2. at' \in AtType
    BY <2>1, <1>1, AtMoves
  <2>3. GCTypeOK' /\ Busy /\ Busy'
    BY <2>1, <2>2, <1>1 DEF GCTypeOK, PC, Busy
  <2>4. /\ at'.front = Len(new) /\ at'.space = Len(new) /\ at'.scanned = at.scanned
        /\ at'.field = 1
    BY <2>1, <1>1 DEF AtType
  <2>5. AtOK'
    BY <2>1, <2>4, <1>1 DEF AtOK
  <2> QED
    BY <2>1, <2>3, <2>5, SameHeap
<1>4. CASE NextSpace
  <2>1. /\ pc = "space" /\ pc' = "space" /\ at.space > at.scanned
        /\ at' = [at EXCEPT !.space = @ - 1, !.obj = 1, !.field = 1]
        /\ UNCHANGED <<new, old, minspace, rootlist, gcblocked, want, rounds>>
    BY <1>4 DEF NextSpace
  <2>2. at.space - 1 \in Nat
    BY SMTT(30), <2>1, <1>1
  <2>3. at' \in AtType
    BY <2>1, <2>2, <1>1, AtMoves
  <2>4. GCTypeOK' /\ Busy /\ Busy'
    BY <2>1, <2>3, <1>1 DEF GCTypeOK, PC, Busy
  <2>5. /\ at'.front = at.front /\ at'.space = at.space - 1
        /\ at'.scanned = at.scanned /\ at'.field = 1
    BY <2>1, <1>1 DEF AtType
  <2>6. AtOK'
    BY <2>1, <2>5, <1>1 DEF AtOK
  <2> QED
    BY <2>1, <2>4, <2>6, SameHeap
<1>5. CASE EndPass
  <2>1. /\ pc = "space"
        /\ UNCHANGED <<new, old, minspace, rootlist, gcblocked, want, rounds>>
        /\ \/ pc' = "adjust" /\ at' = at
           \/ pc' = "pass" /\ at' = [at EXCEPT !.scanned = at.front]
    BY SMTT(30), <1>5 DEF EndPass
  <2>2. at' \in AtType
    BY <2>1, <1>1, AtMoves
  <2>3. GCTypeOK' /\ Busy /\ Busy'
    BY <2>1, <2>2, <1>1 DEF GCTypeOK, PC, Busy
  <2>4. pc' = "pass" => at'.scanned = at.front
    BY <2>1, <1>1 DEF AtType
  <2>5. AtOK'
    BY <2>1, <2>4, <1>1 DEF AtOK
  <2> QED
    BY <2>1, <2>3, <2>5, SameHeap
<1> QED
  BY <1>2, <1>3, <1>4, <1>5

LEMMA MovesThere ==
  ASSUME HeapInv, Busy, NEW p \in Pointer, Sound(p), Moves(p)
  PROVE  /\ In(old, p.space, p.obj) /\ ObjectAt(p) = Obj(old, p.space, p.obj)
         /\ Cells(ObjectAt(p)) = 1 + Len(ObjectAt(p).fields)
         /\ Len(ObjectAt(p).fields) \in Nat \ {0}
<1>1. p.old /\ p # Stale
  BY DEF Moves, InOld
<1>2. In(old, p.space, p.obj) /\ ObjectAt(p) = Obj(old, p.space, p.obj)
  BY <1>1, IsObjectIn, NullFacts DEF Sound
<1>3. Len(Obj(old, p.space, p.obj).fields) \in Nat \ {0}
  BY <1>2, PointerFacts, ObjectThere DEF HeapInv, GCTypeOK
<1> QED
  BY <1>2, <1>3 DEF Cells

LEMMA CopyGrowsHeap ==
  ASSUME HeapInv, CopyGrows
  PROVE  HeapInv'
<1>1. PICK p \in Pointer :
        /\ Sound(p) /\ Busy /\ NeedsSpace(p) /\ Grow(Cells(ObjectAt(p)) - 1)
        /\ UNCHANGED <<old, rootlist, gcblocked, want, pc, scan>>
  <2>1. CASE /\ pc = "roots" /\ at.root <= Len(rootlist)
             /\ NeedsSpace(rootlist[at.root])
             /\ Grow(Cells(ObjectAt(rootlist[at.root])) - 1)
             /\ UNCHANGED <<old, rootlist, gcblocked, want, pc, scan>>
    <3>1. at.root \in 1 .. Len(rootlist)
      BY <2>1 DEF HeapInv, GCTypeOK, AtType, Pos
    <3>2. rootlist[at.root] \in Pointer /\ Sound(rootlist[at.root])
      BY <3>1, RootThere DEF HeapInv, RootsSound
    <3> QED
      BY <2>1, <3>2 DEF Busy
  <2>2. CASE /\ pc = "space" /\ Scanning
             /\ NeedsSpace(Here)
             /\ Grow(Cells(ObjectAt(Here)) - 1)
             /\ UNCHANGED <<old, rootlist, gcblocked, want, pc, scan>>
    <3>1. /\ In(new, at.space, at.obj)
          /\ at.field \in 1 .. Len(Obj(new, at.space, at.obj).fields)
          /\ at.space \in Nat /\ at.obj \in Nat /\ at.field \in Nat
          /\ new \in Chain
      BY <2>2, ScanningIn DEF HeapInv, GCTypeOK
    <3>2. Here \in Pointer /\ Sound(Here)
      BY <3>1, FieldThere DEF HeapInv, NewSound, Here, Obj
    <3> QED
      BY <2>2, <3>2 DEF Busy
  <2> QED
    BY <2>1, <2>2 DEF CopyGrows
<1>2. Cells(ObjectAt(p)) - 1 \in Nat
  BY <1>1, MovesThere DEF NeedsSpace
<1> QED
  BY <1>1, <1>2, GrowHeap

LEMMA AdjustedFacts ==
  ASSUME GCTypeOK
  PROVE  /\ Adjusted(minspace) \in Nat \ {0}
         /\ Adjusted(minspace) >= LiveData * 2
<1>1. PICK L \in Nat, m \in Nat \ {0}, b \in Nat \ {0} :
        L = LiveData /\ m = minspace /\ b = MIN_minspace
  BY LiveNat, CollectorAssumption DEF GCTypeOK
<1>2. CASE m < L * 2
  BY <1>1, <1>2 DEF Adjusted
<1>3. CASE ~ (m < L * 2) /\ m > L * 12 /\ m > b * 2
  <2>1. m \div 2 \in Nat \ {0} /\ m \div 2 >= L * 2
    BY <1>3
  <2> QED
    BY <2>1, <1>1, <1>3 DEF Adjusted
<1>4. CASE ~ (m < L * 2) /\ ~ (m > L * 12 /\ m > b * 2)
  BY <1>1, <1>4 DEF Adjusted
<1> QED
  BY <1>2, <1>3, <1>4

LEMMA EndRoundHeap ==
  ASSUME HeapInv, EndRound
  PROVE  HeapInv'
<1>1. /\ pc = "adjust" /\ old' = << >> /\ minspace' = Adjusted(minspace)
      /\ gcblocked' = gcblocked - 1 /\ at' = Start
      /\ UNCHANGED <<new, rootlist, want>> /\ rounds' \in {rounds, 0}
      /\ pc' = "gc" \/ pc' = Caller
  BY DEF EndRound
<1>2. Busy /\ ~ Busy' /\ pc' \in PC
  BY <1>1 DEF Busy, Caller, PC
<1>3. \A s, i \in Nat : ~ In(old', s, i)
  BY <1>1 DEF In
<1>4. GCTypeOK'
  <2>1. Start \in AtType
    BY DEF Start, AtType, Pos
  <2>2. << >> \in Chain
    BY DEF Chain
  <2> QED
    BY <2>1, <2>2, <1>1, <1>2, AdjustedFacts DEF HeapInv, GCTypeOK
<1>5. Control' /\ AtOK'
  <2>1. gcblocked' = 0
    BY <1>1, <1>2 DEF HeapInv, Control
  <2> QED
    BY <2>1, <1>1, <1>2, CollectorAssumption DEF HeapInv, Control, AtOK, Caller, Busy
<1>6. Filled'
  BY <1>1 DEF HeapInv, Filled
<1>7. \A q \in Pointer : Sound(q) => Sound(q)'
  BY <1>1, <1>2, IsObjectIn DEF Sound
<1>8. RootsSound'
  BY <1>1, <1>7, RootThere DEF HeapInv, RootsSound
<1>9. NewSound'
  BY <1>1, <1>7, FieldThere DEF HeapInv, GCTypeOK, NewSound
<1>10. OldSound' /\ MovedIsThere' /\ Distinct(old')
  BY <1>3 DEF OldSound, MovedIsThere, Distinct
<1>11. ThereIsMoved' /\ Distinct(new')
  BY <1>1, <1>2 DEF HeapInv, ThereIsMoved, Distinct
<1> QED
  BY <1>4, <1>5, <1>6, <1>8, <1>9, <1>10, <1>11 DEF HeapInv

-----------------------------------------------------------------------------
(* Nothing is doubled.                                                     *)

LEMMA InitHeap ==
  ASSUME Init
  PROVE  HeapInv
<1>1. PICK m \in Nat \ {0} : m = MIN_minspace
  BY CollectorAssumption
<1>2. newspace(m) \in Space /\ newspace(m).current = 0 /\ newspace(m).size = m
  BY DEF newspace, Space
<1>3. /\ new = <<newspace(m)>> /\ old = << >> /\ minspace = m /\ rootlist = << >>
      /\ gcblocked = 0 /\ want = << >> /\ pc = "run" /\ at = Start /\ rounds = 0
  BY <1>1 DEF Init
<1>4. new \in Chain /\ new # << >> /\ Len(new) = 1 /\ new[1] = newspace(m)
  BY <1>2, <1>3 DEF Chain
<1>5. ~ Busy /\ pc \in PC
  BY <1>3 DEF Busy, PC
<1>6. GCTypeOK
  <2>1. Start \in AtType /\ << >> \in Chain
    BY DEF Start, AtType, Pos, Chain
  <2>2. Len(rootlist) = 0 /\ want \in Seq(0 .. Len(rootlist)) /\ rootlist \in Seq(Pointer)
    BY <1>3
  <2> QED
    BY <2>1, <2>2, <1>3, <1>4, <1>5, CollectorAssumption DEF GCTypeOK
<1>7. Control /\ AtOK
  BY <1>3, <1>5, CollectorAssumption DEF Control, AtOK
<1>8. Filled /\ RootsSound
  BY <1>2, <1>3, <1>4 DEF Filled, RootsSound
<1>9. \A s, i \in Nat : ~ In(new, s, i) /\ ~ In(old, s, i)
  BY <1>3, NothingIn DEF In
<1> QED
  BY <1>6, <1>7, <1>8, <1>9
  DEF HeapInv, NewSound, OldSound, MovedIsThere, ThereIsMoved, Distinct

LEMMA StutterHeap ==
  ASSUME HeapInv, UNCHANGED vars
  PROVE  HeapInv'
<1>1. GCTypeOK' /\ Control' /\ AtOK' /\ Filled'
  BY DEF HeapInv, GCTypeOK, Control, AtOK, Filled, Busy, Scanning, vars, scan
<1>2. RootsSound' /\ NewSound' /\ OldSound'
  BY DEF HeapInv, RootsSound, NewSound, OldSound, Sound, IsObject, Spaces, Busy, vars, scan
<1>3. Distinct(new)' /\ Distinct(old)'
  BY DEF HeapInv, Distinct, vars
<1>4. MovedIsThere'
  BY DEF HeapInv, MovedIsThere, IsCopied, vars
<1>5. ThereIsMoved'
  BY DEF HeapInv, ThereIsMoved, WasMoved, Busy, vars
<1> QED
  BY <1>1, <1>2, <1>3, <1>4, <1>5 DEF HeapInv

LEMMA StepHeap ==
  ASSUME HeapInv, [Next]_vars
  PROVE  HeapInv'
<1>1. CASE Program
  <2>1. ASSUME NEW k \in Sizes, NEW from \in [1 .. k -> {0} \cup Var], Allocate(from)
        PROVE  HeapInv'
    BY <2>1, AllocateHeap
  <2>2. ASSUME NEW i \in Var, Ref(i) PROVE HeapInv'
    BY <2>2, RefHeap
  <2>3. CASE RefEnd
    BY <2>3, RefEndHeap
  <2>4. ASSUME NEW i \in Var, NEW j \in Var, NEW f \in Field, HasField(i, f), Store(i, f, j)
        PROVE  HeapInv'
    BY <2>4, StoreHeap
  <2>5. ASSUME NEW i \in Var, NEW f \in Field, Load(i, f) PROVE HeapInv'
    BY <2>5, LoadHeap
  <2>6. CASE gcdisable \/ gcenable \/ collect \/ \E n \in Reserves : gcreserve(n)
    BY <2>6, RequestHeap
  <2> QED
    BY <1>1, <2>1, <2>2, <2>3, <2>4, <2>5, <2>6 DEF Program
<1>2. CASE gcalloc
  BY <1>2, AllocHeap
<1>3. CASE gcallocAgain
  BY <1>3, AllocAgainHeap
<1>4. CASE Collecting
  <2>1. CASE gc
    BY <2>1, RequestHeap, RoundBegins
  <2>2. CASE scanroots
    <3>1. at.root \in Nat /\ Len(rootlist) \in Nat
      BY DEF HeapInv, GCTypeOK, AtType, Pos
    <3> QED
      BY <2>2, <3>1, ScanrootsHeap, PassHeap
  <2>3. CASE StartPass \/ NextSpace \/ EndPass
    BY <2>3, PassHeap
  <2>4. CASE scanspace
    BY <2>4, ScanspaceHeap
  <2>5. CASE CopyGrows
    BY <2>5, CopyGrowsHeap
  <2>6. CASE EndRound
    BY <2>6, EndRoundHeap
  <2> QED
    BY <1>4, <2>1, <2>2, <2>3, <2>4, <2>5, <2>6 DEF Collecting
<1>5. CASE UNCHANGED vars
  BY <1>5, StutterHeap
<1> QED
  BY <1>1, <1>2, <1>3, <1>4, <1>5 DEF Next

LEMMA HeapNotDoubled ==
  ASSUME HeapInv
  PROVE  NothingDoubled
<1>1. /\ new \in Seq(Space) /\ old \in Seq(Space) /\ Len(new) \in Nat
      /\ Len(old) \in Nat
  BY DEF HeapInv, GCTypeOK, Chain
<1>2. \A o \in FullObject : o \in Object
  BY DEF FullObject
<1>3. \A q \in Seq(FullObject) : q \in Seq(Object)
  BY <1>2
<1>4. /\ \A s \in 1 .. Len(new) : new[s].objs \in Seq(Object) /\ Len(new[s].objs) \in Nat
      /\ \A s \in 1 .. Len(old) : old[s].objs \in Seq(Object)
  <2>1. \A sp \in Space : sp.objs \in Seq(FullObject)
    BY DEF Space
  <2> QED
    BY <2>1, <1>1, <1>3
<1>5. gcblocked \in 0 .. MaxBlock + 1
  BY CollectorAssumption DEF HeapInv, Control
<1>6. want \in Seq(0 .. MaxRoots)
  <2>1. 0 .. Len(rootlist) \subseteq 0 .. MaxRoots
    BY CollectorAssumption DEF HeapInv, GCTypeOK
  <2> QED
    BY <2>1, SeqMonotonic DEF HeapInv, GCTypeOK
<1>7. TypeOK
  BY <1>4, <1>5, <1>6 DEF TypeOK, HeapInv, GCTypeOK, Filled
<1>8. ASSUME NEW s \in 1 .. Len(new), NEW t \in 1 .. Len(new),
             NEW i \in 1 .. Len(new[s].objs), NEW j \in 1 .. Len(new[t].objs),
             new[s].objs[i].data = new[t].objs[j].data
      PROVE  s = t /\ i = j
  <2>1. s \in Nat /\ t \in Nat /\ i \in Nat /\ j \in Nat
    BY <1>1, <1>4
  <2>2. In(new, s, i) /\ In(new, t, j) /\ Obj(new, s, i).data = Obj(new, t, j).data
    BY <1>8 DEF In, Obj
  <2> QED
    BY <2>1, <2>2 DEF HeapInv, Distinct
<1> QED
  BY <1>7, <1>8 DEF NothingDoubled

LEMMA HeapAlways == Spec => []HeapInv
<1>1. Init => HeapInv
  BY InitHeap
<1>2. HeapInv /\ [Next]_vars => HeapInv'
  BY StepHeap
<1> QED
  BY <1>1, <1>2, PTL DEF Spec

\* However the program allocates, stores and collects, the collector makes no
\* second copy of an object, and puts no more into a space than there is room
\* for. (gc.c: forward, gcalloc)
THEOREM ObjectsMoveOnce == Spec => []NothingDoubled
<1>1. HeapInv => NothingDoubled
  BY HeapNotDoubled
<1> QED
  BY <1>1, HeapAlways, PTL

-----------------------------------------------------------------------------
(* Nothing moves while collections are disabled.                           *)

LEMMA PrefixOf ==
  ASSUME NEW sp \in Space, NEW sp2 \in Space, Len(sp.objs) <= Len(sp2.objs),
         \A i \in 1 .. Len(sp.objs) : sp2.objs[i].data = sp.objs[i].data
  PROVE  IsPrefix(Contents(sp), Contents(sp2))
<1>1. PICK n \in Nat, m \in Nat : n = Len(sp.objs) /\ m = Len(sp2.objs) /\ n <= m
  BY DEF Space
<1>2. PICK a, b : a = Contents(sp) /\ b = Contents(sp2)
  OBVIOUS
<1>3. /\ a = [i \in 1 .. n |-> sp.objs[i].data]
      /\ b = [i \in 1 .. m |-> sp2.objs[i].data]
  BY <1>1, <1>2 DEF Contents
<1>4. /\ Len(a) = n /\ Len(b) = m /\ DOMAIN a = 1 .. n /\ DOMAIN b = 1 .. m
      /\ \A i \in 1 .. n : a[i] = b[i]
  BY <1>1, <1>3
<1>5. SubSeq(a, 1, n) = SubSeq(b, 1, n)
  BY <1>1, <1>3, <1>4
<1> QED
  BY <1>1, <1>2, <1>4, <1>5 DEF IsPrefix

\* It is enough that every object is where it was.
LEMMA PinnedIn ==
  ASSUME new \in Chain, new' \in Chain, Len(new) <= Len(new'),
         \A s, i \in Nat : In(new, s, i) =>
           In(new', s, i) /\ Obj(new', s, i).data = Obj(new, s, i).data
  PROVE  NothingMoves
<1> SUFFICES ASSUME NEW s \in 1 .. Len(new)
             PROVE  IsPrefix(Contents(new[s]), Contents(new'[s]))
  BY DEF NothingMoves
<1>1. Len(new) \in Nat /\ Len(new') \in Nat /\ s \in Nat /\ s \in 1 .. Len(new')
  BY DEF Chain
<1>2. new[s] \in Space /\ new'[s] \in Space
  BY <1>1 DEF Chain
<1>3. Len(new[s].objs) \in Nat /\ Len(new'[s].objs) \in Nat
  BY SMTT(30), <1>2 DEF Space
<1>4. \A i \in 1 .. Len(new[s].objs) :
        i \in 1 .. Len(new'[s].objs) /\ new'[s].objs[i].data = new[s].objs[i].data
  BY SMTT(30), <1>1, <1>3 DEF In, Obj
<1>5. Len(new[s].objs) <= Len(new'[s].objs)
  <2>1. CASE Len(new[s].objs) = 0
    BY <2>1, <1>3
  <2>2. CASE Len(new[s].objs) # 0
    <3>1. Len(new[s].objs) \in 1 .. Len(new[s].objs)
      BY <2>2, <1>3
    <3>2. Len(new[s].objs) \in 1 .. Len(new'[s].objs)
      BY <3>1, <1>4
    <3> QED
      BY <3>2, <1>3
  <2> QED
    BY <2>1, <2>2
<1> QED
  BY <1>2, <1>4, <1>5, PrefixOf

LEMMA PinnedStep ==
  ASSUME HeapInv, [Next]_vars, gcblocked > 0, pc \in {"run", "alloc", "gc"}
  PROVE  NothingMoves
<1>1. new \in Chain /\ new' \in Chain /\ Len(new) \in Nat /\ GCTypeOK /\ ~ Busy
  BY StepHeap DEF HeapInv, GCTypeOK, Chain, Busy
<1>2. CASE new' = new
  BY <1>1, <1>2, PinnedIn
<1>3. CASE gcalloc
  <2>1. PICK n, k, o : Allocated(n, k, o)
    BY <1>3, AllocAdds
  <2>2. /\ Len(new') = Len(new)
        /\ \A s, i \in Nat : In(new', s, i) <=> (In(new, s, i) \/ (s = n /\ i = k))
        /\ \A s, i \in Nat : In(new, s, i) => Obj(new', s, i) = Obj(new, s, i)
    BY <2>1 DEF Allocated, ObjectIsAdded
  <2> QED
    BY <2>2, <1>1, PinnedIn
<1>4. CASE gcallocAgain
  <2>1. Len(want) \in Nat /\ minspace \in Nat
    BY <1>1 DEF GCTypeOK
  <2>2. PICK size \in Nat : size = Raised(Len(want))
    BY <1>1, <2>1, RaisedFacts
  <2>3. CASE new' = SpaceAdded(new, size)
    <3>1. SpaceIsAdded(new, new', size)
      BY <2>3, <1>1, AddedSpace
    <3>2. /\ Len(new') = Len(new) + 1
          /\ \A s, i \in Nat : In(new', s, i) <=> In(new, s, i)
          /\ \A s \in 1 .. Len(new) : new'[s] = new[s]
      BY <3>1 DEF SpaceIsAdded
    <3>3. \A s, i \in Nat : In(new, s, i) => Obj(new', s, i) = Obj(new, s, i)
      BY <3>2 DEF In, Obj
    <3> QED
      BY <3>2, <3>3, <1>1, PinnedIn
  <2>4. new' = SpaceAdded(new, size) \/ new' = new
    BY <1>4, <2>2 DEF gcallocAgain, Grow, SpaceAdded
  <2> QED
    BY <2>3, <2>4, <1>2
<1>5. CASE \E i, j \in Var, f \in Field : HasField(i, f) /\ Store(i, f, j)
  <2>1. PICK i \in Var, j \in Var, f \in Field : HasField(i, f) /\ Store(i, f, j)
    BY <1>5
  <2>2. PICK s \in Nat, k \in Nat, p \in Pointer : FieldIsSet(new, new', s, k, f, p)
    BY <2>1, StoreSets
  <2>3. /\ Len(new') = Len(new)
        /\ \A t, l \in Nat : In(new', t, l) <=> In(new, t, l)
        /\ \A t, l \in Nat : In(new, t, l) => Obj(new', t, l).data = Obj(new, t, l).data
    BY <2>2 DEF FieldIsSet
  <2> QED
    BY <2>3, <1>1, PinnedIn
<1>6. CASE Collecting
  BY <1>2, <1>6
  DEF Collecting, gc, scanroots, StartPass, scanspace, NextSpace, EndPass, CopyGrows, EndRound
<1>7. CASE Program
  BY <1>2, <1>5, <1>7
  DEF Program, Allocate, Ref, RefEnd, Load, gcdisable, gcenable, gcreserve, collect
<1> QED
  BY <1>2, <1>3, <1>4, <1>6, <1>7 DEF Next, vars

\* As long as collections are disabled, every object that was allocated stays
\* where it is, whatever is allocated, stored and asked for: the program may
\* use pointers that are not registered. (gc.c: gcdisable, gcalloc, gc)
THEOREM ObjectsStayPut == Spec => PinnedWhileBlocked
<1>1. HeapInv /\ [Next]_vars
      => [(gcblocked > 0 /\ pc \in {"run", "alloc", "gc"}) => NothingMoves]_vars
  BY PinnedStep
<1> QED
  BY <1>1, HeapAlways, PTL DEF Spec, PinnedWhileBlocked

-----------------------------------------------------------------------------
(* When no copy is late: what was scanned has no pointer to the old space. *)

Exact(p) == p = Null \/ IsObject(p)
RootsExact == \A i \in 1 .. Len(rootlist) : Exact(rootlist[i])
FieldsExact(ch) ==
  \A s, i, f \in Nat :
    In(ch, s, i) /\ f \in 1 .. Len(Obj(ch, s, i).fields) =>
      Exact(Obj(ch, s, i).fields[f])

Scanned(s, i, f) ==
  \/ pc = "adjust"
  \/ pc \in {"pass", "space"} /\ s <= at.scanned
  \/ pc = "space" /\ at.space < s /\ s <= at.front
  \/ pc = "space" /\ s = at.space /\ (i < at.obj \/ (i = at.obj /\ f < at.field))
RootScanned(i) ==
  pc \in {"pass", "space", "adjust"} \/ (pc = "roots" /\ i < at.root)
ScannedIsNew ==
  /\ \A i \in 1 .. Len(rootlist) : RootScanned(i) => ~ rootlist[i].old
  /\ \A s, i, f \in Nat :
       /\ In(new, s, i) /\ f \in 1 .. Len(Obj(new, s, i).fields)
       /\ Scanned(s, i, f)
       => ~ Obj(new, s, i).fields[f].old

ExactInv == RootsExact /\ FieldsExact(new) /\ FieldsExact(old) /\ ScannedIsNew

\* Outside a round there is no old space to point to.
NoneOld ==
  /\ \A i \in 1 .. Len(rootlist) : ~ rootlist[i].old
  /\ \A s, i, f \in Nat :
       In(new, s, i) /\ f \in 1 .. Len(Obj(new, s, i).fields) =>
         ~ Obj(new, s, i).fields[f].old

LEMMA ExactThenNoneOld ==
  ASSUME HeapInv, ExactInv, ~ Busy
  PROVE  NoneOld
<1>1. old = << >> /\ new \in Chain
  BY DEF HeapInv, GCTypeOK, Control
<1>2. \A p \in Pointer : Exact(p) => ~ p.old
  BY <1>1, NullFacts, IsObjectIn DEF Exact, In
<1>3. \A i \in 1 .. Len(rootlist) : ~ rootlist[i].old
  BY <1>2, RootThere DEF HeapInv, ExactInv, RootsExact
<1>4. ASSUME NEW s \in Nat, NEW i \in Nat, NEW f \in Nat, In(new, s, i),
             f \in 1 .. Len(Obj(new, s, i).fields)
      PROVE  ~ Obj(new, s, i).fields[f].old
  <2>1. Obj(new, s, i).fields[f] \in Pointer
    BY <1>1, <1>4, FieldThere
  <2>2. Exact(Obj(new, s, i).fields[f])
    BY <1>4 DEF ExactInv, FieldsExact
  <2> QED
    BY <2>1, <2>2, <1>2
<1> QED
  BY <1>3, <1>4 DEF NoneOld

LEMMA NoneOldThenExact ==
  ASSUME HeapInv, NoneOld, ~ Busy
  PROVE  ExactInv
<1>1. old = << >>
  BY DEF HeapInv, Control
<1>2. \A p : Sound(p) /\ ~ p.old => Exact(p)
  BY DEF Sound, Exact
<1>3. RootsExact /\ FieldsExact(new)
  BY <1>2 DEF HeapInv, RootsSound, NewSound, NoneOld, RootsExact, FieldsExact
<1>4. FieldsExact(old)
  BY <1>1 DEF FieldsExact, In
<1>5. ScannedIsNew
  BY DEF ScannedIsNew, NoneOld
<1> QED
  BY <1>3, <1>4, <1>5 DEF ExactInv

\* The program stores no pointer but those it could load.
LEMMA RootsNoneOld ==
  ASSUME NoneOld, UNCHANGED new,
         \A i \in 1 .. Len(rootlist') : ~ rootlist'[i].old
  PROVE  NoneOld'
BY DEF NoneOld

LEMMA AllocNoneOld ==
  ASSUME HeapInv, NoneOld, gcalloc
  PROVE  NoneOld'
<1>1. PICK n, k, o : Allocated(n, k, o)
  BY AllocAdds
<1>2. /\ \A s, i \in Nat : In(new', s, i) <=> (In(new, s, i) \/ (s = n /\ i = k))
      /\ \A s, i \in Nat : In(new, s, i) => Obj(new', s, i) = Obj(new, s, i)
      /\ Obj(new', n, k) = o
  BY <1>1 DEF Allocated, ObjectIsAdded
<1>3. \A f \in 1 .. Len(o.fields) : ~ o.fields[f].old
  BY <1>1, NullFacts DEF Allocated, NoneOld
<1>4. \A i \in 1 .. Len(rootlist') : ~ rootlist'[i].old
  <2>1. rootlist \in Seq(Pointer) /\ Place \in Pointer /\ ~ Place.old
    BY PlaceFacts DEF HeapInv, GCTypeOK
  <2>2. rootlist' = Append(rootlist, Place)
    BY DEF gcalloc
  <2>3. /\ Len(rootlist) \in Nat /\ Len(rootlist') = Len(rootlist) + 1
        /\ \A j \in 1 .. Len(rootlist) : rootlist'[j] = rootlist[j]
        /\ rootlist'[Len(rootlist) + 1] = Place
    BY <2>1, <2>2, AppendProperties
  <2> QED
    BY <2>1, <2>3 DEF NoneOld
<1>5. ASSUME NEW s \in Nat, NEW i \in Nat, NEW f \in Nat, In(new', s, i),
             f \in 1 .. Len(Obj(new', s, i).fields)
      PROVE  ~ Obj(new', s, i).fields[f].old
  <2>1. CASE In(new, s, i)
    <3>1. Obj(new', s, i) = Obj(new, s, i)
      BY <2>1, <1>2
    <3> QED
      BY <2>1, <3>1, <1>5 DEF NoneOld
  <2>2. CASE s = n /\ i = k
    BY <2>2, <1>2, <1>3, <1>5
  <2> QED
    BY <2>1, <2>2, <1>2, <1>5
<1> QED
  BY <1>4, <1>5 DEF NoneOld

LEMMA StoreNoneOld ==
  ASSUME HeapInv, NoneOld, NEW i \in Var, NEW f, NEW j \in Var, HasField(i, f),
         Store(i, f, j)
  PROVE  NoneOld'
<1>1. PICK p \in Pointer, q \in Pointer :
        q = rootlist[j] /\ FieldIsSet(new, new', p.space, p.obj, f, q)
  BY StoreSets
<1>2. /\ \A t, k \in Nat : In(new', t, k) <=> In(new, t, k)
      /\ \A t, k \in Nat : In(new, t, k) =>
           /\ Len(Obj(new', t, k).fields) = Len(Obj(new, t, k).fields)
           /\ \A g \in 1 .. Len(Obj(new, t, k).fields) :
                Obj(new', t, k).fields[g] =
                  IF t = p.space /\ k = p.obj /\ g = f THEN q
                  ELSE Obj(new, t, k).fields[g]
  BY <1>1 DEF FieldIsSet
<1>3. ~ q.old /\ UNCHANGED rootlist
  BY <1>1 DEF NoneOld, Var, Store
<1>4. ASSUME NEW t \in Nat, NEW k \in Nat, NEW g \in Nat, In(new', t, k),
             g \in 1 .. Len(Obj(new', t, k).fields)
      PROVE  ~ Obj(new', t, k).fields[g].old
  <2>1. In(new, t, k) /\ g \in 1 .. Len(Obj(new, t, k).fields)
    BY <1>2, <1>4
  <2>2. ~ Obj(new, t, k).fields[g].old
    BY <2>1 DEF NoneOld
  <2>3. CASE t = p.space /\ k = p.obj /\ g = f
    BY <2>1, <2>3, <1>2, <1>3
  <2>4. CASE ~ (t = p.space /\ k = p.obj /\ g = f)
    <3>1. Obj(new', t, k).fields[g] = Obj(new, t, k).fields[g]
      BY <2>1, <2>4, <1>2
    <3> QED
      BY <2>2, <3>1
  <2> QED
    BY <2>3, <2>4
<1> QED
  BY <1>3, <1>4 DEF NoneOld

LEMMA GrownNoneOld ==
  ASSUME HeapInv, NoneOld, NEW n \in Nat, Grow(n), UNCHANGED rootlist
  PROVE  NoneOld'
<1>1. PICK size \in Nat \ {0} : size = Raised(n)
  BY RaisedFacts DEF HeapInv
<1>2. SpaceIsAdded(new, new', size)
  <2>1. new' = SpaceAdded(new, size) /\ new \in Chain
    BY <1>1 DEF Grow, SpaceAdded, HeapInv, GCTypeOK
  <2> QED
    BY <2>1, AddedSpace
<1>3. /\ \A s, i \in Nat : In(new', s, i) <=> In(new, s, i)
      /\ \A s \in 1 .. Len(new) : new'[s] = new[s]
  BY <1>2 DEF SpaceIsAdded
<1>4. \A s, i \in Nat : In(new, s, i) => Obj(new', s, i) = Obj(new, s, i)
  BY <1>3 DEF In, Obj
<1> QED
  BY <1>3, <1>4 DEF NoneOld

LEMMA ProgramNoneOld ==
  ASSUME HeapInv, NoneOld, Program
  PROVE  NoneOld'
<1>1. CASE UNCHANGED <<new, rootlist>>
  BY <1>1 DEF NoneOld
<1>2. CASE \E i \in Var : Ref(i)
  <2>1. PICK i \in Var : Ref(i)
    BY <1>2
  <2>2. /\ rootlist \in Seq(Pointer) /\ rootlist[i] \in Pointer /\ ~ rootlist[i].old
        /\ rootlist' = Append(rootlist, rootlist[i]) /\ UNCHANGED new
    BY <2>1, RootThere DEF Var, HeapInv, GCTypeOK, NoneOld, Ref
  <2>3. PICK p \in Pointer : ~ p.old /\ rootlist' = Append(rootlist, p)
    BY <2>2
  <2>4. /\ Len(rootlist) \in Nat /\ Len(rootlist') = Len(rootlist) + 1
        /\ \A j \in 1 .. Len(rootlist) : rootlist'[j] = rootlist[j]
        /\ rootlist'[Len(rootlist) + 1] = p
    BY <2>2, <2>3, AppendProperties
  <2>5. \A j \in 1 .. Len(rootlist') : ~ rootlist'[j].old
    BY <2>3, <2>4 DEF NoneOld
  <2> QED
    BY <2>2, <2>5, RootsNoneOld
<1>3. CASE RefEnd
  <2>1. /\ rootlist \in Seq(Pointer) /\ rootlist # << >> /\ Len(rootlist) \in Nat
        /\ rootlist' = Front(rootlist) /\ UNCHANGED new
    BY <1>3 DEF HeapInv, GCTypeOK, RefEnd
  <2>2. /\ Len(rootlist') = Len(rootlist) - 1
        /\ \A j \in 1 .. Len(rootlist) - 1 : rootlist'[j] = rootlist[j]
    BY <2>1, FrontOfSeq
  <2>3. \A j \in 1 .. Len(rootlist') : ~ rootlist'[j].old
    BY <2>1, <2>2 DEF NoneOld
  <2> QED
    BY <2>1, <2>3, RootsNoneOld
<1>4. CASE \E i \in Var, f \in Field : Load(i, f)
  <2>1. PICK i \in Var, f \in Field : Load(i, f)
    BY <1>4
  <2>2. HasField(i, f) /\ pc = "run" /\ UNCHANGED new
    BY <2>1 DEF Load, Running
  <2>3. PICK s \in Nat, k \in Nat, q \in Pointer :
          /\ In(new, s, k) /\ f \in 1 .. Len(Obj(new, s, k).fields)
          /\ q = Obj(new, s, k).fields[f] /\ q = ObjectAt(rootlist[i]).fields[f]
    BY <2>2, FieldOfRoot, PointerFacts
  <2>4. new \in Chain /\ f \in Nat
    BY <2>3, FieldThere DEF HeapInv, GCTypeOK
  <2>5. ~ q.old
    BY <2>3, <2>4 DEF NoneOld
  <2>6. rootlist \in Seq(Pointer) /\ i \in 1 .. Len(rootlist)
        /\ rootlist' = [rootlist EXCEPT ![i] = q]
    BY <2>1, <2>3 DEF HeapInv, GCTypeOK, Var, Load
  <2>7. /\ Len(rootlist') = Len(rootlist)
        /\ \A j \in 1 .. Len(rootlist) :
             rootlist'[j] = IF j = i THEN q ELSE rootlist[j]
    BY <2>6, ExceptSeq
  <2>8. \A j \in 1 .. Len(rootlist') : ~ rootlist'[j].old
    BY <2>5, <2>7 DEF NoneOld
  <2> QED
    BY <2>2, <2>8, RootsNoneOld
<1>5. CASE \E i, j \in Var, f \in Field : HasField(i, f) /\ Store(i, f, j)
  BY <1>5, StoreNoneOld
<1> QED
  BY <1>1, <1>2, <1>3, <1>4, <1>5
  DEF Program, Allocate, gcdisable, gcenable, gcreserve, collect

-----------------------------------------------------------------------------
(* What a step of a collection leaves as it was: each pointer leads to the *)
(* data that one led to before, and each object has such pointers.         *)

Follows(r, s) == s \in Pointer /\ Exact(s)' /\ DataAt(s)' = DataAt(r)

ObjectFollows(o, o2) ==
  /\ o2.data = o.data /\ Len(o2.fields) = Len(o.fields)
  /\ \A g \in 1 .. Len(o.fields) : Follows(o.fields[g], o2.fields[g])

ThereIs(o) == \E u \in Pointer : IsObject(u) /\ o = ObjectAt(u)

RootsFollow ==
  /\ Len(rootlist') = Len(rootlist)
  /\ \A i \in 1 .. Len(rootlist), s \in Pointer :
       s = rootlist'[i] => Follows(rootlist[i], s)
ChainFollows(ch) ==
  \A t, j \in Nat : \A o2 :
    In(ch, t, j) /\ o2 = Obj(ch, t, j) => \E o : ThereIs(o) /\ ObjectFollows(o, o2)

HeapFollows == RootsFollow /\ ChainFollows(new') /\ ChainFollows(old')

KeepsData(ch, ch2) ==
  \A t, j \in Nat :
    In(ch, t, j) => In(ch2, t, j) /\ Obj(ch2, t, j).data = Obj(ch, t, j).data

LEMMA ThereIsIn ==
  ASSUME NEW s \in Nat, NEW i \in Nat
  PROVE  /\ In(new, s, i) => ThereIs(Obj(new, s, i))
         /\ In(old, s, i) => ThereIs(Obj(old, s, i))
<1>1. ASSUME In(new, s, i) PROVE ThereIs(Obj(new, s, i))
  <2>1. PICK u \in Pointer : ~ u.old /\ u.space = s /\ u.obj = i
    <3>1. [old |-> FALSE, space |-> s, obj |-> i] \in Pointer
      BY DEF Pointer
    <3> QED
      BY <3>1
  <2> QED
    BY <1>1, <2>1, IsObjectIn DEF ThereIs
<1>2. ASSUME In(old, s, i) PROVE ThereIs(Obj(old, s, i))
  <2>1. PICK u \in Pointer : u.old /\ u.space = s /\ u.obj = i
    <3>1. [old |-> TRUE, space |-> s, obj |-> i] \in Pointer
      BY DEF Pointer
    <3> QED
      BY <3>1
  <2> QED
    BY <1>2, <2>1, IsObjectIn DEF ThereIs
<1> QED
  BY <1>1, <1>2

LEMMA SamePointer ==
  ASSUME NEW r \in Pointer, Exact(r), KeepsData(new, new'),
         ~ r.old \/ KeepsData(old, old')
  PROVE  Follows(r, r)
<1>1. CASE r = Null
  BY <1>1 DEF Follows, Exact, DataAt
<1>2. CASE r # Null /\ r.old
  <2>1. In(old, r.space, r.obj) /\ DataAt(r) = Obj(old, r.space, r.obj).data
    BY <1>2, IsObjectIn DEF Exact, DataAt
  <2>2. /\ In(old', r.space, r.obj)
        /\ Obj(old', r.space, r.obj).data = Obj(old, r.space, r.obj).data
    BY <2>1, <1>2, PointerFacts DEF KeepsData
  <2>3. Exact(r)' /\ DataAt(r)' = Obj(old', r.space, r.obj).data
    BY <2>2, <1>2, IsObjectIn DEF Exact, DataAt
  <2> QED
    BY <2>1, <2>2, <2>3 DEF Follows
<1>3. CASE r # Null /\ ~ r.old
  <2>1. In(new, r.space, r.obj) /\ DataAt(r) = Obj(new, r.space, r.obj).data
    BY <1>3, IsObjectIn DEF Exact, DataAt
  <2>2. /\ In(new', r.space, r.obj)
        /\ Obj(new', r.space, r.obj).data = Obj(new, r.space, r.obj).data
    BY <2>1, PointerFacts DEF KeepsData
  <2>3. Exact(r)' /\ DataAt(r)' = Obj(new', r.space, r.obj).data
    BY <2>2, <1>3, IsObjectIn DEF Exact, DataAt
  <2> QED
    BY <2>1, <2>2, <2>3 DEF Follows
<1> QED
  BY <1>1, <1>2, <1>3, PointerFacts

\* The pointer that is forwarded leads to the same object, out of the old
\* space.
LEMMA ForwardFollows ==
  ASSUME HeapInv, Busy, NEW p \in Pointer, Exact(p), NEW ns, SameShape(new, ns),
         NEW q \in Pointer, q = Forwarded(p), Forwards(p, q, ns)
  PROVE  Follows(p, q) /\ ~ q.old /\ KeepsData(new, new') /\ KeepsData(old, old')
<1>1. KeepsData(new, new') /\ KeepsData(old, old')
  BY DEF Forwards, SameShape, Kept, KeepsData
<1>2. /\ \A t, j \in Nat : In(new', t, j) /\ ~ In(new, t, j) =>
           Obj(new', t, j) = ObjectAt(p)
      /\ Sound(q)'
  BY DEF Forwards
<1>3. CASE ~ InOld(p)
  <2>1. q = p
    BY <1>3 DEF Forwarded
  <2>2. p # Stale
    BY NullFacts, IsObjectIn DEF Exact, In
  <2> QED
    BY <2>1, <2>2, <1>1, <1>3, SamePointer DEF InOld
<1>4. CASE InOld(p)
  <2>1. p.old /\ p # Null /\ IsObject(p) /\ In(old, p.space, p.obj)
        /\ ObjectAt(p) = Obj(old, p.space, p.obj)
        /\ DataAt(p) = Obj(old, p.space, p.obj).data
    BY <1>4, NullFacts, IsObjectIn DEF InOld, Exact, DataAt
  <2>2. CASE Moves(p)
    <3>1. q = Place /\ ~ q.old /\ q # Null
      BY <2>2, <1>4, PlaceFacts DEF Forwarded, HeapInv
    <3>2. In(new', q.space, q.obj)
      BY <3>1, <1>2, IsObjectIn DEF Sound
    <3>3. ~ In(new, q.space, q.obj)
      <4>1. q.space = Len(new) /\ q.obj = Len(new[Len(new)].objs) + 1
            /\ Len(new[Len(new)].objs) \in Nat
        BY <3>1, PlaceFacts DEF HeapInv
      <4> QED
        BY <4>1 DEF In
    <3>4. Obj(new', q.space, q.obj) = ObjectAt(p)
      BY <3>2, <3>3, <1>2, PointerFacts
    <3>5. Exact(q)' /\ DataAt(q)' = ObjectAt(p).data
      BY <3>1, <3>2, <3>4, IsObjectIn DEF Exact, DataAt
    <3> QED
      BY <3>1, <3>5, <2>1, <1>1 DEF Follows
  <2>3. CASE ~ Moves(p)
    <3>1. q = Obj(old, p.space, p.obj).moved /\ q # Null
      BY <2>1, <2>3, <1>4 DEF Forwarded, Moves
    <3>2. IsCopied(q, Obj(old, p.space, p.obj).data)
      BY <2>1, <3>1, PointerFacts DEF HeapInv, MovedIsThere
    <3>3. ~ q.old /\ In(new, q.space, q.obj)
          /\ Obj(new, q.space, q.obj).data = Obj(old, p.space, p.obj).data
      BY <3>1, <3>2 DEF IsCopied
    <3>4. In(new', q.space, q.obj)
          /\ Obj(new', q.space, q.obj).data = Obj(old, p.space, p.obj).data
      BY <3>3, <1>1, PointerFacts DEF KeepsData
    <3>5. Exact(q)' /\ DataAt(q)' = Obj(new', q.space, q.obj).data
      BY <3>1, <3>3, <3>4, IsObjectIn DEF Exact, DataAt
    <3> QED
      BY <3>3, <3>4, <3>5, <2>1, <1>1 DEF Follows
  <2> QED
    BY <2>2, <2>3
<1> QED
  BY <1>3, <1>4

LEMMA KeptFollows ==
  ASSUME HeapInv, ExactInv, Kept(old, old'), KeepsData(new, new')
  PROVE  ChainFollows(old')
<1> SUFFICES ASSUME NEW t \in Nat, NEW j \in Nat, NEW o2, In(old', t, j), o2 = Obj(old', t, j)
             PROVE  \E o : ThereIs(o) /\ ObjectFollows(o, o2)
  BY DEF ChainFollows
<1>1. /\ In(old, t, j) /\ Obj(old', t, j).data = Obj(old, t, j).data
      /\ Obj(old', t, j).fields = Obj(old, t, j).fields
  BY DEF Kept
<1>2. KeepsData(old, old')
  BY DEF Kept, KeepsData
<1>3. PICK o : o = Obj(old, t, j) /\ o2 = Obj(old', t, j)
  OBVIOUS
<1>4. ASSUME NEW g \in 1 .. Len(o.fields) PROVE Follows(o.fields[g], o2.fields[g])
  <2>1. o.fields[g] \in Pointer /\ g \in Nat /\ o2.fields[g] = o.fields[g]
    BY <1>1, <1>3, FieldThere DEF HeapInv, GCTypeOK
  <2>2. Exact(o.fields[g])
    BY <1>1, <1>3, <2>1 DEF ExactInv, FieldsExact
  <2> QED
    BY <2>1, <2>2, <1>2, SamePointer
<1>5. ObjectFollows(o, o2)
  BY <1>1, <1>3, <1>4 DEF ObjectFollows
<1> QED
  BY <1>1, <1>3, <1>5, ThereIsIn

\* The field that is being scanned is set to what it leads to.
FieldsOrForwarded(ns, p, q) ==
  \A t, j, g \in Nat :
    In(new, t, j) /\ g \in 1 .. Len(Obj(new, t, j).fields) =>
      \/ Obj(ns, t, j).fields[g] = Obj(new, t, j).fields[g]
      \/ Obj(ns, t, j).fields[g] = q /\ Obj(new, t, j).fields[g] = p

LEMMA ForwardChainFollows ==
  ASSUME HeapInv, ExactInv, Busy, NEW p \in Pointer, Exact(p),
         NEW ns, SameShape(new, ns),
         NEW q \in Pointer, q = Forwarded(p), Forwards(p, q, ns),
         FieldsOrForwarded(ns, p, q)
  PROVE  ChainFollows(new')
<1>1. Follows(p, q) /\ KeepsData(new, new') /\ KeepsData(old, old')
  BY ForwardFollows
<1>2. \A r \in Pointer : Exact(r) => Follows(r, r)
  BY <1>1, SamePointer
<1>3. new \in Chain /\ old \in Chain
  BY DEF HeapInv, GCTypeOK
<1> SUFFICES ASSUME NEW t \in Nat, NEW j \in Nat, In(new', t, j),
                    NEW o2, o2 = Obj(new', t, j)
             PROVE  \E o : ThereIs(o) /\ ObjectFollows(o, o2)
  BY DEF ChainFollows
<1>4. CASE In(new, t, j)
  <2>1. PICK o : o = Obj(new, t, j)
    OBVIOUS
  <2>2. /\ o2 = Obj(ns, t, j) /\ o2.data = o.data
        /\ Len(o2.fields) = Len(o.fields)
    BY <2>1, <1>4 DEF Forwards, SameShape
  <2>3. ASSUME NEW g \in 1 .. Len(o.fields) PROVE Follows(o.fields[g], o2.fields[g])
    <3>1. o.fields[g] \in Pointer /\ g \in Nat
      BY <1>3, <1>4, <2>1, FieldThere
    <3>2. Exact(o.fields[g])
      BY <1>4, <2>1, <3>1 DEF ExactInv, FieldsExact
    <3>3. o2.fields[g] = o.fields[g] \/ (o2.fields[g] = q /\ o.fields[g] = p)
      <4>1. g \in 1 .. Len(Obj(new, t, j).fields)
        BY <2>1
      <4>2. \/ Obj(ns, t, j).fields[g] = Obj(new, t, j).fields[g]
            \/ Obj(ns, t, j).fields[g] = q /\ Obj(new, t, j).fields[g] = p
        BY <4>1, <3>1, <1>4 DEF FieldsOrForwarded
      <4> QED
        BY <4>2, <2>1, <2>2
    <3> QED
      BY <3>1, <3>2, <3>3, <1>1, <1>2
  <2>4. ObjectFollows(o, o2)
    BY <2>2, <2>3 DEF ObjectFollows
  <2> QED
    BY <2>1, <2>4, <1>4, ThereIsIn
<1>5. CASE ~ In(new, t, j)
  <2>1. Moves(p) /\ IsObject(p) /\ o2 = ObjectAt(p)
    BY <1>5 DEF Forwards
  <2>2. /\ p.old /\ In(old, p.space, p.obj) /\ o2 = Obj(old, p.space, p.obj)
        /\ p.space \in Nat /\ p.obj \in Nat
    BY <2>1, IsObjectIn, PointerFacts DEF Moves, InOld
  <2>3. ASSUME NEW g \in 1 .. Len(o2.fields) PROVE Follows(o2.fields[g], o2.fields[g])
    <3>1. o2.fields[g] \in Pointer /\ g \in Nat
      BY <1>3, <2>2, FieldThere
    <3>2. Exact(o2.fields[g])
      BY <2>2, <3>1 DEF ExactInv, FieldsExact
    <3> QED
      BY <3>1, <3>2, <1>2
  <2>4. ObjectFollows(o2, o2)
    BY <2>3 DEF ObjectFollows
  <2> QED
    BY <2>1, <2>4 DEF ThereIs
<1> QED
  BY <1>4, <1>5

\* The step leaves the heap alone, or adds a space.
LEMMA GrownFollows ==
  ASSUME HeapInv, ExactInv, UNCHANGED <<old, rootlist>>, Kept(new, new')
  PROVE  HeapFollows
<1>1. KeepsData(new, new') /\ KeepsData(old, old') /\ Kept(old, old')
  BY DEF Kept, KeepsData
<1>2. ChainFollows(old')
  BY <1>1, KeptFollows
<1>3. \A r \in Pointer : Exact(r) => Follows(r, r)
  BY <1>1, SamePointer
<1>4. RootsFollow
  BY <1>3 DEF RootsFollow, ExactInv, RootsExact
<1>5. ChainFollows(new')
  <2> SUFFICES ASSUME NEW t \in Nat, NEW j \in Nat, In(new', t, j),
                      NEW o2, o2 = Obj(new', t, j)
               PROVE  \E o : ThereIs(o) /\ ObjectFollows(o, o2)
    BY DEF ChainFollows
  <2>1. PICK o : o = Obj(new, t, j)
    OBVIOUS
  <2>2. In(new, t, j) /\ o2.data = o.data /\ o2.fields = o.fields
    BY <2>1 DEF Kept
  <2>3. ASSUME NEW g \in 1 .. Len(o.fields) PROVE Follows(o.fields[g], o.fields[g])
    <3>1. o.fields[g] \in Pointer /\ g \in Nat
      BY <2>1, <2>2, FieldThere DEF HeapInv, GCTypeOK
    <3>2. Exact(o.fields[g])
      BY <2>1, <2>2, <3>1 DEF ExactInv, FieldsExact
    <3> QED
      BY <3>1, <3>2, <1>3
  <2>4. ObjectFollows(o, o2)
    BY <2>2, <2>3 DEF ObjectFollows
  <2> QED
    BY <2>1, <2>2, <2>4, ThereIsIn
<1> QED
  BY <1>2, <1>4, <1>5 DEF HeapFollows

LEMMA ScanrootsFollows ==
  ASSUME HeapInv, ExactInv, scanroots, at.root <= Len(rootlist)
  PROVE  HeapFollows
<1>1. PICK i \in 1 .. Len(rootlist), p \in Pointer, q \in Pointer :
           /\ i = at.root /\ p = rootlist[i] /\ Sound(p)
           /\ q = Forwarded(p) /\ Forwards(p, q, new)
           /\ rootlist' = [rootlist EXCEPT ![i] = q]
           /\ at' = [at EXCEPT !.root = @ + 1]
           /\ pc = "roots" /\ pc' = pc /\ Busy
           /\ UNCHANGED <<minspace, gcblocked, want, rounds>>
  BY RootScans
<1>2. PICK ns : ns = new
  OBVIOUS
<1>3. SameShape(new, ns) /\ Forwards(p, q, ns) /\ Exact(p)
  BY <1>1, <1>2, SameShapeSelf DEF HeapInv, ExactInv, RootsExact
<1>4. Follows(p, q) /\ KeepsData(new, new') /\ KeepsData(old, old')
  BY <1>1, <1>3, ForwardFollows
<1>5. FieldsOrForwarded(ns, p, q)
  BY <1>2 DEF FieldsOrForwarded
<1>6. ChainFollows(new')
  BY <1>1, <1>3, <1>5, ForwardChainFollows
<1>7. ChainFollows(old')
  BY <1>3, <1>4, KeptFollows DEF Forwards
<1>8. RootsFollow
  <2>1. rootlist \in Seq(Pointer) /\ rootlist' = [rootlist EXCEPT ![i] = q]
    BY <1>1 DEF HeapInv, GCTypeOK
  <2>2. /\ Len(rootlist') = Len(rootlist)
        /\ \A j \in 1 .. Len(rootlist) :
             rootlist'[j] = IF j = i THEN q ELSE rootlist[j]
    BY <2>1, ExceptSeq
  <2>3. \A j \in 1 .. Len(rootlist) :
          j # i => Follows(rootlist[j], rootlist[j])
    BY <1>4, SamePointer, RootThere DEF HeapInv, ExactInv, RootsExact
  <2> QED
    BY <2>2, <2>3, <1>1, <1>4 DEF RootsFollow
<1> QED
  BY <1>6, <1>7, <1>8 DEF HeapFollows

LEMMA ScanspaceFollows ==
  ASSUME HeapInv, ExactInv, scanspace
  PROVE  HeapFollows
<1>1. PICK p \in Pointer, q \in Pointer, ns \in Chain :
           /\ p = Here /\ Sound(p) /\ q = Forwarded(p)
           /\ In(new, at.space, at.obj)
           /\ at.field \in 1 .. Len(Obj(new, at.space, at.obj).fields)
           /\ at.space \in Nat /\ at.obj \in Nat
           /\ p = Obj(new, at.space, at.obj).fields[at.field]
           /\ FieldIsSet(new, ns, at.space, at.obj, at.field, q)
           /\ SameShape(new, ns)
           /\ Forwards(p, q, ns)
           /\ at' = NextField /\ pc = "space" /\ pc' = pc /\ Busy /\ Scanning
           /\ UNCHANGED <<minspace, rootlist, gcblocked, want, rounds>>
  BY FieldScans
<1>2. at.field \in Nat
  BY DEF HeapInv, GCTypeOK, AtType, Pos
<1>3. Exact(p)
  BY <1>1, <1>2 DEF ExactInv, FieldsExact
<1>4. Follows(p, q) /\ KeepsData(new, new') /\ KeepsData(old, old')
  BY <1>1, <1>3, ForwardFollows
<1>5. FieldsOrForwarded(ns, p, q)
  <2> SUFFICES ASSUME NEW t \in Nat, NEW j \in Nat, NEW g \in Nat, In(new, t, j),
                      g \in 1 .. Len(Obj(new, t, j).fields)
               PROVE  \/ Obj(ns, t, j).fields[g] = Obj(new, t, j).fields[g]
                      \/ Obj(ns, t, j).fields[g] = q /\ Obj(new, t, j).fields[g] = p
    BY DEF FieldsOrForwarded
  <2>1. Obj(ns, t, j).fields[g] =
          IF t = at.space /\ j = at.obj /\ g = at.field THEN q
          ELSE Obj(new, t, j).fields[g]
    BY <1>1 DEF FieldIsSet
  <2>2. CASE t = at.space /\ j = at.obj /\ g = at.field
    BY <2>1, <2>2, <1>1
  <2>3. CASE ~ (t = at.space /\ j = at.obj /\ g = at.field)
    BY <2>1, <2>3
  <2> QED
    BY <2>2, <2>3
<1>6. ChainFollows(new')
  BY SMTT(30), <1>1, <1>3, <1>5, ForwardChainFollows
<1>7. ChainFollows(old')
  BY <1>1, <1>4, KeptFollows DEF Forwards
<1>8. RootsFollow
  BY <1>1, <1>4, SamePointer DEF RootsFollow, ExactInv, RootsExact
<1> QED
  BY <1>6, <1>7, <1>8 DEF HeapFollows

LEMMA RoundFollows ==
  ASSUME HeapInv, ExactInv, gc, ~ (gcblocked > 0)
  PROVE  HeapFollows
<1>1. /\ old' = AgedAll(new) /\ new' = <<newspace(minspace)>>
      /\ rootlist' = [i \in Var |-> Aged(rootlist[i])] /\ pc = "gc"
  BY DEF gc, AgedAll
<1>2. /\ new \in Chain /\ rootlist \in Seq(Pointer) /\ Len(rootlist) \in Nat /\ NoneOld
  BY <1>1, ExactThenNoneOld DEF HeapInv, GCTypeOK, Busy
<1>3. ChainIsAged(new, old')
  BY <1>1, <1>2, AgedChain
<1>4. /\ old' \in Chain
      /\ \A t, j \in Nat : In(old', t, j) <=> In(new, t, j)
      /\ \A t, j \in Nat : In(new, t, j) =>
           /\ Obj(old', t, j).data = Obj(new, t, j).data
           /\ Len(Obj(old', t, j).fields) = Len(Obj(new, t, j).fields)
           /\ \A g \in 1 .. Len(Obj(new, t, j).fields) :
                Obj(old', t, j).fields[g] = Aged(Obj(new, t, j).fields[g])
  BY <1>3 DEF ChainIsAged
<1>5. ASSUME NEW r \in Pointer, Exact(r), ~ r.old
      PROVE  Aged(r) \in Pointer /\ Follows(r, Aged(r))
  <2>1. PICK s \in Pointer : s = Aged(r)
    BY AgedPointer
  <2>2. CASE r = Null
    <3>1. s = Null
      BY <2>1, <2>2, AgedPointer
    <3> QED
      BY <2>1, <2>2, <3>1 DEF Follows, Exact, DataAt
  <2>3. CASE r # Null
    <3>1. s.old /\ s.space = r.space /\ s.obj = r.obj /\ s # Null
      BY <2>1, <2>3, <1>5, AgedPointer
    <3>2. In(new, r.space, r.obj) /\ DataAt(r) = Obj(new, r.space, r.obj).data
      BY <2>3, <1>5, IsObjectIn DEF Exact, DataAt
    <3>3. /\ In(old', s.space, s.obj)
          /\ Obj(old', s.space, s.obj).data = Obj(new, r.space, r.obj).data
      <4>1. r.space \in Nat /\ r.obj \in Nat
        BY PointerFacts
      <4>2. /\ In(old', r.space, r.obj)
            /\ Obj(old', r.space, r.obj).data = Obj(new, r.space, r.obj).data
        BY <3>2, <4>1, <1>4
      <4> QED
        BY <3>1, <4>2
    <3>4. Exact(s)' /\ DataAt(s)' = Obj(old', s.space, s.obj).data
      BY <3>1, <3>3, IsObjectIn DEF Exact, DataAt
    <3> QED
      BY <2>1, <3>2, <3>3, <3>4 DEF Follows
  <2> QED
    BY <2>2, <2>3
<1>6. RootsFollow
  <2>1. /\ Len(rootlist') = Len(rootlist)
        /\ \A i \in 1 .. Len(rootlist) : rootlist'[i] = Aged(rootlist[i])
    BY <1>1, <1>2 DEF Var
  <2>2. \A i \in 1 .. Len(rootlist) : Follows(rootlist[i], Aged(rootlist[i]))
    BY <1>2, <1>5, RootThere DEF ExactInv, RootsExact, NoneOld, HeapInv
  <2> QED
    BY <2>1, <2>2 DEF RootsFollow
<1>7. ChainFollows(new')
  BY <1>1, NothingIn DEF ChainFollows
<1>8. ChainFollows(old')
  <2> SUFFICES ASSUME NEW t \in Nat, NEW j \in Nat, In(old', t, j),
                      NEW o2, o2 = Obj(old', t, j)
               PROVE  \E o : ThereIs(o) /\ ObjectFollows(o, o2)
    BY DEF ChainFollows
  <2>1. PICK o : o = Obj(new, t, j)
    OBVIOUS
  <2>2. /\ In(new, t, j) /\ o2.data = o.data /\ Len(o2.fields) = Len(o.fields)
        /\ \A g \in 1 .. Len(o.fields) : o2.fields[g] = Aged(o.fields[g])
    BY <2>1, <1>4
  <2>3. ASSUME NEW g \in 1 .. Len(o.fields) PROVE Follows(o.fields[g], o2.fields[g])
    <3>1. o.fields[g] \in Pointer /\ g \in Nat
      BY <2>1, <2>2, <1>2, FieldThere
    <3>2. Exact(o.fields[g]) /\ ~ o.fields[g].old
      BY <2>1, <2>2, <3>1, <1>2 DEF ExactInv, FieldsExact, NoneOld
    <3>3. Follows(o.fields[g], Aged(o.fields[g]))
      BY <3>1, <3>2, <1>5
    <3> QED
      BY <2>2, <3>3
  <2>4. ObjectFollows(o, o2)
    BY <2>2, <2>3 DEF ObjectFollows
  <2> QED
    BY <2>1, <2>2, <2>4, ThereIsIn
<1> QED
  BY <1>6, <1>7, <1>8 DEF HeapFollows

\* The old space is freed: nothing points to it.
LEMMA EndRoundNoneOld ==
  ASSUME ExactInv, EndRound
  PROVE  NoneOld /\ NoneOld'
<1>1. pc = "adjust" /\ UNCHANGED <<new, rootlist>>
  BY DEF EndRound
<1>2. NoneOld
  BY <1>1 DEF ExactInv, ScannedIsNew, RootScanned, Scanned, NoneOld
<1> QED
  BY <1>1, <1>2 DEF NoneOld

LEMMA EndRoundFollows ==
  ASSUME HeapInv, ExactInv, EndRound
  PROVE  HeapFollows
<1>1. UNCHANGED <<new, rootlist>> /\ old' = << >> /\ NoneOld /\ new \in Chain
  BY EndRoundNoneOld DEF EndRound, HeapInv, GCTypeOK
<1>2. KeepsData(new, new')
  BY <1>1 DEF KeepsData
<1>3. \A r \in Pointer : Exact(r) /\ ~ r.old => Follows(r, r)
  BY <1>2, SamePointer
<1>4. RootsFollow
  BY <1>1, <1>3 DEF RootsFollow, ExactInv, RootsExact, NoneOld
<1>5. ChainFollows(old')
  BY <1>1 DEF ChainFollows, In
<1>6. ChainFollows(new')
  <2> SUFFICES ASSUME NEW t \in Nat, NEW j \in Nat, In(new, t, j),
                      NEW o, o = Obj(new, t, j)
               PROVE  ObjectFollows(o, o)
    BY <1>1, ThereIsIn DEF ChainFollows
  <2>1. ASSUME NEW g \in 1 .. Len(o.fields) PROVE Follows(o.fields[g], o.fields[g])
    <3>1. o.fields[g] \in Pointer /\ g \in Nat
      BY <1>1, FieldThere
    <3>2. Exact(o.fields[g]) /\ ~ o.fields[g].old
      BY <3>1, <1>1 DEF ExactInv, FieldsExact, NoneOld
    <3> QED
      BY <3>1, <3>2, <1>3
  <2> QED
    BY <2>1 DEF ObjectFollows
<1> QED
  BY <1>4, <1>5, <1>6 DEF HeapFollows

LEMMA CopyGrown ==
  ASSUME HeapInv, CopyGrows
  PROVE  /\ Kept(new, new') /\ UNCHANGED <<old, rootlist, pc, at>>
         /\ pc \in {"roots", "space"} /\ new' \in Chain
         /\ \A s, i \in Nat : In(new, s, i) => Obj(new', s, i) = Obj(new, s, i)
<1>1. PICK size : new' = SpaceAdded(new, size) /\ size = minspace'
  BY DEF CopyGrows, Grow, SpaceAdded
<1>2. UNCHANGED <<old, rootlist, pc, at>> /\ pc \in {"roots", "space"}
  BY DEF CopyGrows, scan
<1>3. size \in Nat /\ new \in Chain
  BY <1>1, CopyGrowsHeap DEF HeapInv, GCTypeOK
<1>4. SpaceIsAdded(new, new', size)
  BY <1>1, <1>3, AddedSpace
<1>5. /\ \A s, i \in Nat : In(new', s, i) <=> In(new, s, i)
      /\ \A s \in 1 .. Len(new) : new'[s] = new[s] /\ new' \in Chain
  BY <1>4 DEF SpaceIsAdded
<1>6. \A s, i \in Nat : In(new, s, i) => Obj(new', s, i) = Obj(new, s, i)
  BY <1>5 DEF In, Obj
<1> QED
  BY <1>2, <1>4, <1>5, <1>6 DEF Kept, SpaceIsAdded

\* What was to be shown of every step of the collector.
LEMMA CollectingFollows ==
  ASSUME HeapInv, ExactInv, Collecting
  PROVE  HeapFollows
<1>1. CASE UNCHANGED <<new, old, rootlist>>
  BY <1>1, GrownFollows DEF Kept
<1>2. CASE CopyGrows
  BY <1>2, CopyGrown, GrownFollows
<1>3. CASE gc
  BY <1>1, <1>3, RoundFollows DEF gc
<1>4. CASE scanroots
  <2>1. at.root \in Nat /\ Len(rootlist) \in Nat
    BY DEF HeapInv, GCTypeOK, AtType, Pos
  <2> QED
    BY <2>1, <1>1, <1>4, ScanrootsFollows DEF scanroots
<1>5. CASE scanspace
  BY <1>5, ScanspaceFollows
<1>6. CASE EndRound
  BY <1>6, EndRoundFollows
<1> QED
  BY <1>1, <1>2, <1>3, <1>4, <1>5, <1>6 DEF Collecting, StartPass, NextSpace, EndPass

LEMMA FollowsExact ==
  ASSUME HeapInv', HeapFollows
  PROVE  RootsExact' /\ FieldsExact(new)' /\ FieldsExact(old)'
<1>1. RootsExact'
  BY RootThere DEF HeapFollows, RootsFollow, Follows, RootsExact, HeapInv, GCTypeOK
<1>2. ASSUME NEW ch, ChainFollows(ch), NEW s \in Nat, NEW i \in Nat, NEW f \in Nat,
             In(ch, s, i), f \in 1 .. Len(Obj(ch, s, i).fields),
             NEW r, r = Obj(ch, s, i).fields[f]
      PROVE  Exact(r)'
  <2>1. PICK o2 : o2 = Obj(ch, s, i)
    OBVIOUS
  <2>2. PICK o : ObjectFollows(o, o2)
    BY <1>2, <2>1 DEF ChainFollows
  <2>3. f \in 1 .. Len(o.fields) /\ r = o2.fields[f]
    BY <1>2, <2>1, <2>2 DEF ObjectFollows
  <2> QED
    BY <2>2, <2>3 DEF ObjectFollows, Follows
<1>3. FieldsExact(new)'
  BY <1>2 DEF HeapFollows, FieldsExact
<1>4. FieldsExact(old)'
  BY <1>2 DEF HeapFollows, FieldsExact
<1> QED
  BY <1>1, <1>3, <1>4

-----------------------------------------------------------------------------
(* The progress of a scan.                                                 *)

\* The step copies nothing and sets nothing: it is enough that what counts as
\* scanned afterwards counted before.
LEMMA ScannedKept ==
  ASSUME HeapInv, ScannedIsNew, UNCHANGED rootlist, Kept(new, new'),
         \A i \in 1 .. Len(rootlist) : RootScanned(i)' => RootScanned(i),
         \A s, i, f \in Nat :
           /\ In(new, s, i) /\ f \in 1 .. Len(Obj(new, s, i).fields)
           /\ Scanned(s, i, f)'
           => Scanned(s, i, f)
  PROVE  ScannedIsNew'
<1>1. \A i \in 1 .. Len(rootlist') : RootScanned(i)' => ~ rootlist'[i].old
  BY DEF ScannedIsNew
<1>2. ASSUME NEW s \in Nat, NEW i \in Nat, NEW f \in Nat,
             In(new', s, i), f \in 1 .. Len(Obj(new', s, i).fields), Scanned(s, i, f)'
      PROVE  ~ Obj(new', s, i).fields[f].old
  <2>1. In(new, s, i) /\ Obj(new', s, i).fields = Obj(new, s, i).fields
    BY <1>2 DEF Kept
  <2>2. f \in 1 .. Len(Obj(new, s, i).fields)
    BY <1>2, <2>1
  <2>3. Scanned(s, i, f)
    BY <1>2, <2>1, <2>2
  <2> QED
    BY <2>1, <2>2, <2>3 DEF ScannedIsNew
<1> QED
  BY <1>1, <1>2 DEF ScannedIsNew

LEMMA PassScanned ==
  ASSUME HeapInv, ScannedIsNew,
         \/ scanroots /\ at.root > Len(rootlist)
         \/ StartPass \/ NextSpace \/ EndPass
  PROVE  ScannedIsNew'
<1>1. /\ at \in AtType /\ at.root \in Nat /\ at.scanned \in Nat /\ at.space \in Nat
      /\ at.front \in Nat /\ at.obj \in Nat \ {0} /\ at.field \in Nat \ {0}
      /\ Len(new) \in Nat /\ Len(rootlist) \in Nat /\ AtOK
  BY DEF HeapInv, GCTypeOK, AtType, Pos, Chain
<1>2. UNCHANGED <<new, rootlist>> /\ Kept(new, new')
  BY DEF scanroots, StartPass, NextSpace, EndPass, Kept
<1>3. ASSUME NEW s \in Nat, NEW i \in Nat, In(new, s, i)
      PROVE  i \in Nat \ {0} /\ s <= Len(new)
  BY <1>1, <1>3 DEF In
<1>4. \A i \in 1 .. Len(rootlist) : RootScanned(i)' => RootScanned(i)
  BY <1>1 DEF RootScanned, scanroots, StartPass, NextSpace, EndPass
<1>5. CASE scanroots /\ at.root > Len(rootlist)
  <2>1. pc = "roots" /\ pc' = "pass" /\ at' = at /\ at.scanned = 0
    BY <1>1, <1>5 DEF scanroots, AtOK
  <2>2. \A s, i, f \in Nat : In(new, s, i) => ~ Scanned(s, i, f)'
    BY <2>1 DEF Scanned, In
  <2> QED
    BY <2>2, <1>2, <1>4, ScannedKept
<1>6. CASE StartPass
  <2>1. /\ pc = "pass" /\ pc' = "space"
        /\ at' = [at EXCEPT !.front = Len(new), !.space = Len(new), !.obj = 1, !.field = 1]
    BY <1>6 DEF StartPass
  <2>2. /\ at'.front = Len(new) /\ at'.space = Len(new) /\ at'.scanned = at.scanned
        /\ at'.obj = 1 /\ at'.field = 1
    BY <2>1, <1>1 DEF AtType
  <2>3. ASSUME NEW s \in Nat, NEW i \in Nat, NEW f \in Nat, In(new, s, i),
               f \in 1 .. Len(Obj(new, s, i).fields), Scanned(s, i, f)'
        PROVE  Scanned(s, i, f)
    <3>1. s <= at.scanned
      BY <2>1, <2>2, <2>3, <1>1, <1>3 DEF Scanned
    <3> QED
      BY <3>1, <2>1 DEF Scanned
  <2> QED
    BY <2>3, <1>2, <1>4, ScannedKept
<1>7. CASE NextSpace
  <2>1. /\ pc = "space" /\ pc' = "space" /\ at.space > at.scanned /\ ~ Scanning
        /\ at' = [at EXCEPT !.space = @ - 1, !.obj = 1, !.field = 1]
    BY <1>7 DEF NextSpace
  <2>2. /\ at'.front = at.front /\ at'.space = at.space - 1
        /\ at'.scanned = at.scanned /\ at'.obj = 1 /\ at'.field = 1
    BY <2>1, <1>1 DEF AtType
  <2>3. ASSUME NEW s \in Nat, NEW i \in Nat, NEW f \in Nat, In(new, s, i),
               f \in 1 .. Len(Obj(new, s, i).fields), Scanned(s, i, f)'
        PROVE  Scanned(s, i, f)
    <3>1. s <= at.scanned \/ (at.space - 1 < s /\ s <= at.front)
      BY <2>1, <2>2, <2>3, <1>1, <1>3 DEF Scanned
    <3>2. CASE s = at.space
      <4>1. i < at.obj
        BY <3>2, <2>1, <2>3, <1>1 DEF Scanning, In
      <4> QED
        BY <4>1, <3>2, <2>1 DEF Scanned
    <3>3. CASE s # at.space
      BY <3>1, <3>3, <2>1, <1>1 DEF Scanned
    <3> QED
      BY <3>2, <3>3
  <2> QED
    BY <2>3, <1>2, <1>4, ScannedKept
<1>8. CASE EndPass
  <2>1. /\ pc = "space" /\ at.space = at.scanned /\ at.front <= Len(new)
        /\ \/ pc' = "adjust" /\ at' = at /\ Len(new) = at.front
           \/ pc' = "pass" /\ at' = [at EXCEPT !.scanned = at.front]
    BY <1>8, <1>1 DEF EndPass, AtOK
  <2>2. pc' = "pass" => at'.scanned = at.front
    BY <2>1, <1>1 DEF AtType
  <2>3. ASSUME NEW s \in Nat, NEW i \in Nat, NEW f \in Nat, In(new, s, i),
               f \in 1 .. Len(Obj(new, s, i).fields), Scanned(s, i, f)'
        PROVE  Scanned(s, i, f)
    <3>1. s <= at.front
      BY <2>1, <2>2, <2>3, <1>1, <1>3 DEF Scanned
    <3>2. s <= at.scanned \/ at.space < s
      BY <2>1, <1>1
    <3> QED
      BY <3>1, <3>2, <2>1 DEF Scanned
  <2> QED
    BY <2>3, <1>2, <1>4, ScannedKept
<1> QED
  BY <1>5, <1>6, <1>7, <1>8

LEMMA ScanrootsScanned ==
  ASSUME HeapInv, ExactInv, scanroots, at.root <= Len(rootlist)
  PROVE  ScannedIsNew'
<1>1. PICK i \in 1 .. Len(rootlist), p \in Pointer, q \in Pointer :
           /\ i = at.root /\ p = rootlist[i] /\ Sound(p)
           /\ q = Forwarded(p) /\ Forwards(p, q, new)
           /\ rootlist' = [rootlist EXCEPT ![i] = q]
           /\ at' = [at EXCEPT !.root = @ + 1]
           /\ pc = "roots" /\ pc' = pc /\ Busy
           /\ UNCHANGED <<minspace, gcblocked, want, rounds>>
  BY RootScans
<1>2. ~ q.old
  <2>1. PICK ns : ns = new
    OBVIOUS
  <2>2. SameShape(new, ns) /\ Forwards(p, q, ns) /\ Exact(p)
    BY <1>1, <2>1, SameShapeSelf DEF HeapInv, ExactInv, RootsExact
  <2> QED
    BY <2>2, <1>1, ForwardFollows
<1>3. rootlist \in Seq(Pointer) /\ at.root \in Nat /\ at'.root = at.root + 1
  BY <1>1 DEF HeapInv, GCTypeOK, AtType, Pos
<1>4. /\ Len(rootlist') = Len(rootlist)
      /\ \A j \in 1 .. Len(rootlist) :
           rootlist'[j] = IF j = i THEN q ELSE rootlist[j]
  BY <1>1, <1>3, ExceptSeq
<1>5. ASSUME NEW j \in 1 .. Len(rootlist'), RootScanned(j)' PROVE ~ rootlist'[j].old
  <2>1. CASE j = i
    BY <2>1, <1>2, <1>4
  <2>2. CASE j # i
    <3>1. RootScanned(j)
      BY <2>2, <1>1, <1>3, <1>4, <1>5 DEF RootScanned
    <3> QED
      BY <2>2, <3>1, <1>4 DEF ExactInv, ScannedIsNew
  <2> QED
    BY <2>1, <2>2
<1>6. \A s, k, f : ~ Scanned(s, k, f)'
  BY <1>1 DEF Scanned
<1> QED
  BY <1>5, <1>6 DEF ScannedIsNew

\* The one step that copies what may be passed over: a copy is not late.
LEMMA ScanspaceScanned ==
  ASSUME HeapInv, ExactInv, scanspace, ~ LateCopy
  PROVE  ScannedIsNew'
<1>1. PICK p \in Pointer, q \in Pointer, ns \in Chain :
           /\ p = Here /\ Sound(p) /\ q = Forwarded(p)
           /\ In(new, at.space, at.obj)
           /\ at.field \in 1 .. Len(Obj(new, at.space, at.obj).fields)
           /\ at.space \in Nat /\ at.obj \in Nat
           /\ p = Obj(new, at.space, at.obj).fields[at.field]
           /\ FieldIsSet(new, ns, at.space, at.obj, at.field, q)
           /\ SameShape(new, ns)
           /\ Forwards(p, q, ns)
           /\ at' = NextField /\ pc = "space" /\ pc' = pc /\ Busy /\ Scanning
           /\ UNCHANGED <<minspace, rootlist, gcblocked, want, rounds>>
  BY FieldScans
<1>2. /\ at \in AtType /\ at.field \in Nat /\ at.scanned \in Nat /\ at.front \in Nat
      /\ new \in Chain /\ Len(new) \in Nat
      /\ at.scanned < at.space /\ at.space <= at.front /\ at.front <= Len(new)
  BY <1>1 DEF HeapInv, GCTypeOK, AtType, Pos, AtOK, Chain, Scanning
<1>3. Exact(p)
  BY <1>1, <1>2 DEF ExactInv, FieldsExact
<1>4. ~ q.old
  BY <1>1, <1>3, ForwardFollows
<1>5. PICK l \in Nat \ {0} : l = Len(Obj(new, at.space, at.obj).fields)
  BY <1>1, <1>2, ObjectThere
<1>6. \/ at' = [at EXCEPT !.field = @ + 1]
      \/ at.field >= l /\ at' = [at EXCEPT !.obj = @ + 1, !.field = 1]
  <2>1. CASE at.field < l
    <3>1. NextField = [at EXCEPT !.field = @ + 1]
      BY <2>1, <1>5 DEF NextField, Obj
    <3> QED
      BY <3>1, <1>1
  <2>2. CASE ~ (at.field < l)
    <3>1. NextField = [at EXCEPT !.obj = @ + 1, !.field = 1]
      BY <2>2, <1>5 DEF NextField, Obj
    <3>2. at.field >= l
      BY <2>2, <1>2, <1>5
    <3> QED
      BY <3>1, <3>2, <1>1
  <2> QED
    BY <2>1, <2>2
<1>7. /\ at'.space = at.space /\ at'.scanned = at.scanned /\ at'.front = at.front
      /\ \/ at'.obj = at.obj /\ at'.field = at.field + 1
         \/ at.field >= l /\ at'.obj = at.obj + 1 /\ at'.field = 1
  BY <1>2, <1>6 DEF AtType
\* What was in the new space.
<1>8. ASSUME NEW s \in Nat, NEW i \in Nat, NEW f \in Nat, In(new, s, i),
             f \in 1 .. Len(Obj(ns, s, i).fields), Scanned(s, i, f)'
      PROVE  ~ Obj(ns, s, i).fields[f].old
  <2>1. /\ f \in 1 .. Len(Obj(new, s, i).fields)
        /\ Obj(ns, s, i).fields[f] =
             IF s = at.space /\ i = at.obj /\ f = at.field THEN q
             ELSE Obj(new, s, i).fields[f]
    <3>1. Len(Obj(ns, s, i).fields) = Len(Obj(new, s, i).fields)
      BY <1>1, <1>8 DEF SameShape
    <3>2. f \in 1 .. Len(Obj(new, s, i).fields)
      BY <3>1, <1>8
    <3>3. Obj(ns, s, i).fields[f] =
            IF s = at.space /\ i = at.obj /\ f = at.field THEN q
            ELSE Obj(new, s, i).fields[f]
      BY ZenonT(40), <3>2, <1>1, <1>8 DEF FieldIsSet
    <3> QED
      BY <3>2, <3>3
  <2>2. CASE s = at.space /\ i = at.obj /\ f = at.field
    BY <2>1, <2>2, <1>4
  <2>3. CASE ~ (s = at.space /\ i = at.obj /\ f = at.field)
    <3>1. Scanned(s, i, f)
      <4>1. CASE s # at.space
        BY <4>1, <1>1, <1>7, <1>8 DEF Scanned
      <4>2. CASE s = at.space /\ i # at.obj
        <5>1. i < at.obj
          BY <4>2, <1>1, <1>2, <1>7, <1>8 DEF Scanned
        <5> QED
          BY <5>1, <4>2, <1>1 DEF Scanned
      <4>3. CASE s = at.space /\ i = at.obj
        <5>1. f < at.field
          <6>1. f <= l /\ f # at.field
            BY <4>3, <2>1, <2>3, <1>5
          <6>2. f < at.field + 1 \/ at.field >= l
            BY SMTT(30), <4>3, <1>1, <1>2, <1>7, <1>8 DEF Scanned
          <6> QED
            BY <6>1, <6>2, <1>2, <1>5
        <5> QED
          BY <5>1, <4>3, <1>1 DEF Scanned
      <4> QED
        BY <4>1, <4>2, <4>3
    <3>2. ~ Obj(new, s, i).fields[f].old
      BY <2>1, <3>1, <1>8 DEF ExactInv, ScannedIsNew
    <3>3. Obj(ns, s, i).fields[f] = Obj(new, s, i).fields[f]
      BY <2>1, <2>3
    <3> QED
      BY <3>2, <3>3
  <2> QED
    BY <2>2, <2>3
\* The copy: it is still to be scanned.
<1>9. ASSUME NEW s \in Nat, NEW i \in Nat, NEW f \in Nat, In(new', s, i),
             ~ In(new, s, i), f \in Nat \ {0}
      PROVE  ~ Scanned(s, i, f)'
  <2>1. Moves(p) /\ s = q.space /\ i = q.obj
    BY <1>1, <1>9 DEF Forwards
  <2>2. q = Place
    BY <1>1, <2>1 DEF Forwarded, Moves
  <2>3. /\ s = Len(new) /\ i = Len(new[Len(new)].objs) + 1
        /\ Len(new[Len(new)].objs) \in Nat
    BY SMTT(30), <2>1, <2>2, PlaceFacts DEF HeapInv
  <2>4. Fits(Cells(ObjectAt(p)))
    <3>1. forward(Here, [new EXCEPT ![at.space].objs[at.obj].fields[at.field] =
                           Forwarded(Here)])
      BY DEF scanspace
    <3> QED
      BY <2>1, <3>1, <1>1 DEF forward
  <2>5. ~ (at.space < at.front /\ at.front = Len(new))
    BY <2>1, <2>4, <1>1 DEF LateCopy
  <2>6. CASE at.space < s
    <3>1. ~ (s <= at.front) /\ ~ (s <= at.scanned) /\ s # at.space
      <4>1. PICK a, b, c \in Nat :
              a = at.space /\ b = at.front /\ c = at.scanned
        BY <1>1, <1>2
      <4>2. c < a /\ a <= b /\ b <= s /\ ~ (a < b /\ b = s) /\ a < s
        BY <4>1, <2>3, <2>5, <2>6, <1>2
      <4> QED
        BY <4>1, <4>2
    <3> QED
      BY <3>1, <1>1, <1>7 DEF Scanned
  <2>7. CASE at.space = s
    <3>1. at.obj < i
      BY <2>3, <2>7, <1>1 DEF In
    <3>2. ~ (i < at'.obj) /\ ~ (i = at'.obj /\ f < at'.field)
      BY SMTT(30), <3>1, <2>3, <1>1, <1>7, <1>9
    <3> QED
      BY <3>2, <2>7, <1>1, <1>2, <1>7 DEF Scanned
  <2>8. at.space < s \/ at.space = s
    BY <2>3, <1>1, <1>2
  <2> QED
    BY <2>6, <2>7, <2>8
<1>10. ASSUME NEW s \in Nat, NEW i \in Nat, NEW f \in Nat, In(new', s, i),
              f \in 1 .. Len(Obj(new', s, i).fields), Scanned(s, i, f)'
       PROVE  ~ Obj(new', s, i).fields[f].old
  <2>1. In(new, s, i) /\ Obj(new', s, i) = Obj(ns, s, i)
    BY <1>1, <1>9, <1>10 DEF Forwards
  <2>2. f \in 1 .. Len(Obj(ns, s, i).fields)
    BY <2>1, <1>10
  <2>3. ~ Obj(ns, s, i).fields[f].old
    BY <2>1, <2>2, <1>8, <1>10
  <2> QED
    BY <2>1, <2>3
<1>11. \A i \in 1 .. Len(rootlist') : RootScanned(i)' => ~ rootlist'[i].old
  BY <1>1 DEF ExactInv, ScannedIsNew, RootScanned
<1> QED
  BY <1>10, <1>11 DEF ScannedIsNew

LEMMA StepExact ==
  ASSUME HeapInv, ExactInv, ~ LateCopy, [Next]_vars
  PROVE  ExactInv'
<1>0. HeapInv'
  BY StepHeap
<1>1. CASE NoneOld' /\ ~ Busy'
  <2>1. (HeapInv /\ NoneOld /\ ~ Busy => ExactInv)'
    BY NoneOldThenExact, PTL
  <2> QED
    BY <2>1, <1>0, <1>1
<1>2. CASE Program
  <2>1. ~ Busy /\ ~ Busy'
    BY <1>2
    DEF Program, Allocate, Ref, RefEnd, Store, Load, gcdisable, gcenable, gcreserve,
        collect, Running, Busy
  <2> QED
    BY SMTT(30), <2>1, <1>1, <1>2, ExactThenNoneOld, ProgramNoneOld
<1>3. CASE gcalloc
  <2>1. ~ Busy /\ ~ Busy'
    BY <1>3 DEF gcalloc, Busy
  <2> QED
    BY <2>1, <1>1, <1>3, ExactThenNoneOld, AllocNoneOld
<1>4. CASE gcallocAgain
  <2>1. /\ ~ Busy /\ ~ Busy' /\ UNCHANGED rootlist
        /\ Grow(Len(want)) \/ UNCHANGED new
    BY <1>4 DEF gcallocAgain, Busy
  <2>2. Len(want) \in Nat
    BY DEF HeapInv, GCTypeOK
  <2>3. NoneOld
    BY <2>1, ExactThenNoneOld
  <2>4. CASE Grow(Len(want))
    BY <2>1, <2>2, <2>3, <2>4, <1>1, GrownNoneOld
  <2>5. CASE UNCHANGED new
    <3>1. NoneOld'
      BY <2>1, <2>3, <2>5 DEF NoneOld
    <3> QED
      BY <3>1, <2>1, <1>1
  <2> QED
    BY <2>1, <2>4, <2>5
<1>5. CASE Collecting
  <2>1. RootsExact' /\ FieldsExact(new)' /\ FieldsExact(old)'
    BY <1>0, <1>5, CollectingFollows, FollowsExact
  <2>2. ScannedIsNew'
    <3>1. CASE scanroots \/ StartPass \/ NextSpace \/ EndPass
      <4>1. at.root \in Nat /\ Len(rootlist) \in Nat
        BY DEF HeapInv, GCTypeOK, AtType, Pos
      <4> QED
        BY <3>1, <4>1, ScanrootsScanned, PassScanned DEF ExactInv
    <3>2. CASE scanspace
      BY <3>2, ScanspaceScanned
    <3>3. CASE CopyGrows
      <4>1. /\ Kept(new, new') /\ UNCHANGED <<rootlist, pc, at>>
        BY <3>3, CopyGrown
      <4> QED
        BY <4>1, ScannedKept DEF Scanned, RootScanned, ExactInv
    <3>4. CASE EndRound
      BY <3>4, EndRoundNoneOld DEF NoneOld, ScannedIsNew
    <3>5. CASE gc /\ gcblocked > 0
      <4>1. ~ Busy /\ UNCHANGED <<new, rootlist>>
        BY <3>5 DEF gc, Busy
      <4> QED
        BY <4>1, ExactThenNoneOld DEF NoneOld, ScannedIsNew
    <3>6. CASE gc /\ ~ (gcblocked > 0)
      <4>1. pc' = "roots" /\ at' = Start /\ at'.root = 1
        BY <3>6 DEF gc, Start
      <4> QED
        BY <4>1 DEF ScannedIsNew, RootScanned, Scanned
    <3> QED
      BY <1>5, <3>1, <3>2, <3>3, <3>4, <3>5, <3>6 DEF Collecting
  <2> QED
    BY <2>1, <2>2 DEF ExactInv
<1>6. CASE UNCHANGED vars
  <2>1. UNCHANGED <<new, old, rootlist, pc, at>> /\ Kept(new, new')
    BY <1>6 DEF vars, scan, Kept
  <2>2. RootsExact' /\ FieldsExact(new)' /\ FieldsExact(old)'
    BY <2>1, <1>0, GrownFollows, FollowsExact
  <2>3. ScannedIsNew'
    BY <2>1, ScannedKept DEF Scanned, RootScanned, ExactInv
  <2> QED
    BY <2>2, <2>3 DEF ExactInv
<1> QED
  BY <1>2, <1>3, <1>4, <1>5, <1>6 DEF Next

LEMMA InitExact ==
  ASSUME Init
  PROVE  ExactInv
<1>1. \A s, i \in Nat : ~ In(new, s, i)
  BY NothingIn DEF Init
<1>2. Len(rootlist) = 0 /\ old = << >> /\ pc = "run"
  BY DEF Init
<1> QED
  BY <1>1, <1>2
  DEF ExactInv, RootsExact, FieldsExact, ScannedIsNew, In

LEMMA ExactAlways == Spec /\ []~LateCopy => []ExactInv
<1>1. Init => ExactInv
  BY InitExact
<1>2. HeapInv /\ ExactInv /\ ~ LateCopy /\ [Next]_vars => ExactInv'
  BY StepExact
<1> QED
  BY <1>1, <1>2, HeapAlways, PTL DEF Spec

-----------------------------------------------------------------------------
(* The pointers that the program can come by, by the number of loads that  *)
(* it takes.                                                               *)

Loads == 2 * Cardinality(Data)

Levels(h) ==
  /\ h[0] = ToSet(rootlist) \ {Null}
  /\ \A n \in 1 .. Loads : h[n] = h[n - 1] \cup Within(h[n - 1])

LEMMA LoadsNat == Loads \in Nat
BY CollectorAssumption, FS_CardinalityType DEF Loads

LEMMA HeldLevels == \E h : Levels(h) /\ Held = h[Loads]
<1>1. PICK N \in Nat : N = Loads
  BY LoadsNat
<1> DEFINE Is(f, n) == /\ f = [k \in 0 .. n |-> f[k]]
                       /\ f[0] = ToSet(rootlist) \ {Null}
                       /\ \A k \in 1 .. n : f[k] = f[k - 1] \cup Within(f[k - 1])
           Ends(n) == \E f : Is(f, n)
           T == {n \in Nat : Ends(n)}
<1>2. Ends(0)
  <2>1. Is([k \in 0 .. 0 |-> ToSet(rootlist) \ {Null}], 0)
    OBVIOUS
  <2> QED
    BY <2>1
<1>3. ASSUME NEW n \in Nat, Ends(n) PROVE Ends(n + 1)
  <2>1. PICK f : Is(f, n)
    BY <1>3
  <2>2. PICK c : c = f[n] \cup Within(f[n])
    OBVIOUS
  <2>3. PICK g : g = [k \in 0 .. n + 1 |-> IF k = n + 1 THEN c ELSE f[k]]
    OBVIOUS
  <2>4. g = [k \in 0 .. n + 1 |-> g[k]]
    BY <2>3
  <2>5. (\A k \in 0 .. n : g[k] = f[k]) /\ g[n + 1] = c
    BY <2>3
  <2>6. g[0] = ToSet(rootlist) \ {Null}
    BY <2>1, <2>5
  <2>7. ASSUME NEW k \in 1 .. n + 1 PROVE g[k] = g[k - 1] \cup Within(g[k - 1])
    <3>1. CASE k = n + 1
      <4>1. g[k - 1] = f[n] /\ g[k] = c
        BY <3>1, <2>5
      <4> QED
        BY <4>1, <2>2
    <3>2. CASE k \in 1 .. n
      <4>1. k - 1 \in 0 .. n /\ k \in 0 .. n
        BY <3>2
      <4>2. g[k - 1] = f[k - 1] /\ g[k] = f[k]
        BY <4>1, <2>5
      <4> QED
        BY <3>2, <4>2, <2>1
    <3> QED
      BY <3>1, <3>2
  <2>8. Is(g, n + 1)
    BY <2>4, <2>6, <2>7
  <2> QED
    BY <2>8
<1>4. Ends(N)
  <2> HIDE DEF Ends
  <2>1. 0 \in T /\ \A n \in Nat : n \in T => n + 1 \in T
    BY <1>2, <1>3
  <2>2. \A n \in Nat : n \in T
    <3> HIDE DEF T
    <3> QED
      BY <2>1, Inductive
  <2> QED
    BY <2>2
<1>5. PICK f : Is(f, N)
  BY <1>4
<1>6. f = [n \in 0 .. N |-> IF n = 0 THEN ToSet(rootlist) \ {Null}
                            ELSE f[n - 1] \cup Within(f[n - 1])]
  <2> DEFINE F(n) == IF n = 0 THEN ToSet(rootlist) \ {Null}
                     ELSE f[n - 1] \cup Within(f[n - 1])
  <2>1. \A n \in 0 .. N : f[n] = F(n)
    BY <1>5
  <2> QED
    BY <1>5, <2>1
<1>7. PICK l : l = CHOOSE g :
        g = [n \in 0 .. N |-> IF n = 0 THEN ToSet(rootlist) \ {Null}
                              ELSE g[n - 1] \cup Within(g[n - 1])]
  OBVIOUS
<1>8. l = [n \in 0 .. N |-> IF n = 0 THEN ToSet(rootlist) \ {Null}
                            ELSE l[n - 1] \cup Within(l[n - 1])]
  BY <1>6, <1>7
<1>9. Held = l[N]
  BY <1>1, <1>7 DEF Held, Further, Loads
<1>10. Levels(l)
  <2>1. l[0] = ToSet(rootlist) \ {Null}
    BY <1>8
  <2>2. ASSUME NEW n \in 1 .. N PROVE l[n] = l[n - 1] \cup Within(l[n - 1])
    <3>1. n \in 0 .. N /\ n # 0
      OBVIOUS
    <3> QED
      BY <3>1, <1>8
  <2> QED
    BY <2>1, <2>2, <1>1 DEF Levels
<1> QED
  BY <1>1, <1>9, <1>10

There(p) == p \in Pointer /\ p # Null /\ IsObject(p)

\* The fields of an object are as exact as those of the chain it is in.
LEMMA ThereFields ==
  ASSUME HeapInv, ExactInv, NEW p, There(p)
  PROVE  /\ ObjectAt(p).fields \in Seq(Pointer)
         /\ ObjectAt(p).data \in Data /\ DataAt(p) = ObjectAt(p).data
         /\ \A f \in 1 .. Len(ObjectAt(p).fields) :
              /\ ObjectAt(p).fields[f] \in Pointer
              /\ ObjectAt(p).fields[f] # Null => There(ObjectAt(p).fields[f])
<1>1. /\ new \in Chain /\ old \in Chain /\ p.space \in Nat /\ p.obj \in Nat
      /\ p \in Pointer /\ p # Null /\ IsObject(p)
      /\ DataAt(p) = ObjectAt(p).data
  BY PointerFacts DEF HeapInv, GCTypeOK, There, DataAt
<1>2. ASSUME NEW ch \in Chain, FieldsExact(ch), In(ch, p.space, p.obj),
             NEW o, o = Obj(ch, p.space, p.obj)
      PROVE  /\ o.fields \in Seq(Pointer) /\ o.data \in Data
             /\ \A f \in 1 .. Len(o.fields) :
                  o.fields[f] \in Pointer /\ (o.fields[f] # Null => There(o.fields[f]))
  <2>1. o.fields \in Seq(Pointer) /\ o.data \in Data
    BY <1>1, <1>2, ObjectThere
  <2>2. ASSUME NEW f \in 1 .. Len(o.fields)
        PROVE  o.fields[f] \in Pointer /\ (o.fields[f] # Null => There(o.fields[f]))
    <3>1. o.fields[f] \in Pointer /\ f \in Nat
      BY <1>1, <1>2, FieldThere
    <3>2. Exact(o.fields[f])
      BY <1>1, <1>2, <3>1 DEF FieldsExact
    <3> QED
      BY <3>1, <3>2 DEF Exact, There
  <2> QED
    BY <2>1, <2>2
<1>3. CASE p.old
  <2>1. In(old, p.space, p.obj) /\ ObjectAt(p) = Obj(old, p.space, p.obj)
    BY <1>1, <1>3, IsObjectIn
  <2> QED
    BY <1>1, <1>2, <2>1 DEF ExactInv
<1>4. CASE ~ p.old
  <2>1. In(new, p.space, p.obj) /\ ObjectAt(p) = Obj(new, p.space, p.obj)
    BY <1>1, <1>4, IsObjectIn
  <2> QED
    BY <1>1, <1>2, <2>1 DEF ExactInv
<1> QED
  BY <1>3, <1>4

\* What the object has, of the pointers that lead to one.
LEMMA WithinIs ==
  ASSUME HeapInv, ExactInv, NEW S, \A p \in S : There(p)
  PROVE  /\ \A r \in Within(S) : There(r)
         /\ \A r : r \in Within(S) <=>
              \E p \in S : \E f \in 1 .. Len(ObjectAt(p).fields) :
                r = ObjectAt(p).fields[f] /\ r # Null
<1>1. ASSUME NEW r
      PROVE  r \in Within(S) <=> \E p \in S : r \in ToSet(ObjectAt(p).fields) \ {Null}
  BY DEF Within, There
<1>2. ASSUME NEW p \in S, NEW r
      PROVE  r \in ToSet(ObjectAt(p).fields) <=>
               \E f \in 1 .. Len(ObjectAt(p).fields) : r = ObjectAt(p).fields[f]
  <2>1. PICK q \in Seq(Pointer) : q = ObjectAt(p).fields
    BY ThereFields
  <2>2. ToSet(q) = {q[f] : f \in 1 .. Len(q)}
    BY DEF ToSet
  <2> QED
    BY <2>1, <2>2
<1>3. ASSUME NEW r
      PROVE  r \in Within(S) <=>
               \E p \in S : \E f \in 1 .. Len(ObjectAt(p).fields) :
                 r = ObjectAt(p).fields[f] /\ r # Null
  <2>1. ASSUME r \in Within(S)
        PROVE  \E p \in S : \E f \in 1 .. Len(ObjectAt(p).fields) :
                 r = ObjectAt(p).fields[f] /\ r # Null
    <3>1. PICK p \in S : r \in ToSet(ObjectAt(p).fields) /\ r # Null
      BY <1>1, <2>1
    <3> QED
      BY <3>1, <1>2
  <2>2. ASSUME NEW p \in S, NEW f \in 1 .. Len(ObjectAt(p).fields),
               r = ObjectAt(p).fields[f], r # Null
        PROVE  r \in Within(S)
    <3>1. r \in ToSet(ObjectAt(p).fields)
      BY <1>2, <2>2
    <3> QED
      BY <3>1, <1>1, <2>2
  <2> QED
    BY <2>1, <2>2
<1>4. ASSUME NEW r \in Within(S) PROVE There(r)
  BY <1>3, ThereFields
<1> QED
  BY <1>3, <1>4

LEMMA RootsAre ==
  ASSUME HeapInv, ExactInv
  PROVE  /\ \A r \in ToSet(rootlist) \ {Null} : There(r)
         /\ \A r : r \in ToSet(rootlist) \ {Null} <=>
              \E i \in 1 .. Len(rootlist) : r = rootlist[i] /\ r # Null
<1>1. rootlist \in Seq(Pointer)
  BY DEF HeapInv, GCTypeOK
<1>2. ToSet(rootlist) = {rootlist[i] : i \in 1 .. Len(rootlist)}
  BY <1>1 DEF ToSet
<1>3. \A i \in 1 .. Len(rootlist) : rootlist[i] # Null => There(rootlist[i])
  BY RootThere DEF HeapInv, ExactInv, RootsExact, Exact, There
<1> QED
  BY <1>2, <1>3

LEMMA LevelsThere ==
  ASSUME HeapInv, ExactInv, NEW h, Levels(h)
  PROVE  \A n \in 0 .. Loads : \A p \in h[n] : There(p)
<1>1. PICK N \in Nat : N = Loads
  BY LoadsNat
<1> DEFINE T == {n \in Nat : n <= N => \A p \in h[n] : There(p)}
<1>2. 0 \in T
  BY RootsAre DEF Levels
<1>3. ASSUME NEW n \in Nat, n \in T PROVE n + 1 \in T
  <2> SUFFICES ASSUME n + 1 <= N PROVE \A p \in h[n + 1] : There(p)
    OBVIOUS
  <2>1. \A p \in h[n] : There(p)
    BY <1>3
  <2>2. n + 1 \in 1 .. N /\ n + 1 - 1 = n
    OBVIOUS
  <2>3. h[n + 1] = h[n] \cup Within(h[n])
    BY <2>2, <1>1 DEF Levels
  <2> QED
    BY <2>1, <2>3, WithinIs
<1>4. \A n \in Nat : n \in T
  <2> HIDE DEF T
  <2> QED
    BY <1>2, <1>3, Inductive
<1> QED
  BY <1>1, <1>4

LEMMA HeldThere ==
  ASSUME HeapInv, ExactInv
  PROVE  \A p \in Held : There(p)
<1>1. PICK h : Levels(h) /\ Held = h[Loads]
  BY HeldLevels
<1> QED
  BY <1>1, LevelsThere, LoadsNat

\* Unless a copy is late, a collection leaves no pointer in the program's
\* reach to memory that it freed, nor to the space that it will free next.
\* (gc.c: gc, scanroots, scanspace, forward)
THEOREM NothingIsLeftBehind == Spec /\ []~LateCopy => []NothingDangles
<1>1. ASSUME HeapInv, ExactInv PROVE NothingDangles
  <2> SUFFICES ASSUME pc \in {"run", "alloc", "gc"}, NEW p \in Held
               PROVE  IsObject(p) /\ ~ p.old
    BY DEF NothingDangles
  <2>1. There(p)
    BY <1>1, HeldThere
  <2>2. old = << >>
    BY <1>1 DEF HeapInv, Control, Busy
  <2> QED
    BY <2>1, <2>2, IsObjectIn, PointerFacts DEF There, In
<1> QED
  BY <1>1, HeapAlways, ExactAlways, PTL

-----------------------------------------------------------------------------
(* A collection is not seen.  During a round an object and its copy are    *)
(* both there; they have the same data, and their fields lead to the same. *)

SameFields(o, o2) ==
  /\ Len(o2.fields) = Len(o.fields)
  /\ \A g \in 1 .. Len(o.fields) : DataAt(o2.fields[g]) = DataAt(o.fields[g])
CopiesAgree ==
  \A o, o2 : ThereIs(o) /\ ThereIs(o2) /\ o2.data = o.data => SameFields(o, o2)

LEMMA AgreeOutside ==
  ASSUME HeapInv, ~ Busy
  PROVE  CopiesAgree
<1> SUFFICES ASSUME NEW p \in Pointer, NEW q \in Pointer, IsObject(p), IsObject(q),
                    ObjectAt(p).data = ObjectAt(q).data
             PROVE  ObjectAt(p) = ObjectAt(q)
  BY DEF CopiesAgree, ThereIs, SameFields
<1>1. old = << >> /\ Distinct(new)
  BY DEF HeapInv, Control
<1>2. ~ p.old /\ ~ q.old
  BY <1>1, IsObjectIn DEF In
<1>3. /\ In(new, p.space, p.obj) /\ ObjectAt(p) = Obj(new, p.space, p.obj)
      /\ In(new, q.space, q.obj) /\ ObjectAt(q) = Obj(new, q.space, q.obj)
  BY <1>2, IsObjectIn
<1>4. p.space = q.space /\ p.obj = q.obj
  BY <1>1, <1>3, PointerFacts DEF Distinct
<1> QED
  BY <1>3, <1>4

LEMMA ThereIsAfter ==
  ASSUME HeapFollows, NEW o2, ThereIs(o2)'
  PROVE  \E o : ThereIs(o) /\ ObjectFollows(o, o2)
<1>1. PICK u \in Pointer : IsObject(u)' /\ o2 = ObjectAt(u)'
  BY DEF ThereIs
<1>2. CASE u.old
  <2>1. In(old', u.space, u.obj) /\ o2 = Obj(old', u.space, u.obj)
    BY <1>1, <1>2, IsObjectIn
  <2> QED
    BY <2>1, PointerFacts DEF HeapFollows, ChainFollows
<1>3. CASE ~ u.old
  <2>1. In(new', u.space, u.obj) /\ o2 = Obj(new', u.space, u.obj)
    BY <1>1, <1>3, IsObjectIn
  <2> QED
    BY <2>1, PointerFacts DEF HeapFollows, ChainFollows
<1> QED
  BY <1>2, <1>3

\* What is the same before the step is the same after it.
LEMMA AgreeAcross ==
  ASSUME CopiesAgree, HeapFollows, NEW o, ThereIs(o), NEW o2, ThereIs(o2)',
         o2.data = o.data
  PROVE  /\ Len(o2.fields) = Len(o.fields)
         /\ \A g \in 1 .. Len(o.fields) : \A s : s = o2.fields[g] =>
              DataAt(s)' = DataAt(o.fields[g])
<1>1. PICK x : ThereIs(x) /\ ObjectFollows(x, o2)
  BY ThereIsAfter
<1>2. SameFields(x, o)
  BY <1>1 DEF CopiesAgree, ObjectFollows
<1>3. Len(o2.fields) = Len(o.fields) /\ Len(x.fields) = Len(o.fields)
  BY <1>1, <1>2 DEF ObjectFollows, SameFields
<1>4. ASSUME NEW g \in 1 .. Len(o.fields), NEW s, s = o2.fields[g]
      PROVE  DataAt(s)' = DataAt(o.fields[g])
  <2>1. g \in 1 .. Len(x.fields)
    BY <1>3
  <2>2. DataAt(o.fields[g]) = DataAt(x.fields[g])
    BY <2>1, <1>2 DEF SameFields
  <2>3. Follows(x.fields[g], o2.fields[g])
    BY <2>1, <1>1 DEF ObjectFollows
  <2>4. Follows(x.fields[g], s)
    BY <2>3, <1>4
  <2> QED
    BY <2>2, <2>4 DEF Follows
<1> QED
  BY <1>3, <1>4

LEMMA AgreeAfter ==
  ASSUME CopiesAgree, HeapFollows
  PROVE  CopiesAgree'
<1> SUFFICES ASSUME NEW o, NEW o2, ThereIs(o)', ThereIs(o2)', o2.data = o.data
             PROVE  SameFields(o, o2)'
  BY DEF CopiesAgree
<1>1. PICK x : ThereIs(x) /\ ObjectFollows(x, o)
  BY ThereIsAfter
<1>2. x.data = o.data /\ x.data = o2.data
  BY <1>1 DEF ObjectFollows
<1>3. /\ Len(o.fields) = Len(x.fields)
      /\ \A g \in 1 .. Len(x.fields) : \A s : s = o.fields[g] =>
           DataAt(s)' = DataAt(x.fields[g])
  BY <1>1, <1>2, AgreeAcross
<1>4. /\ Len(o2.fields) = Len(x.fields)
      /\ \A g \in 1 .. Len(x.fields) : \A s : s = o2.fields[g] =>
           DataAt(s)' = DataAt(x.fields[g])
  BY <1>1, <1>2, AgreeAcross
<1>5. ASSUME NEW g \in 1 .. Len(o.fields), NEW r, NEW s,
             r = o.fields[g], s = o2.fields[g]
      PROVE  DataAt(s)' = DataAt(r)'
  BY <1>3, <1>4, <1>5
<1>6. ASSUME NEW g \in 1 .. Len(o.fields)
      PROVE  DataAt(o2.fields[g])' = DataAt(o.fields[g])'
  <2>1. PICK r, s : r = o.fields[g] /\ s = o2.fields[g]
    OBVIOUS
  <2>2. DataAt(s)' = DataAt(r)'
    BY SMTT(30), <2>1, <1>5
  <2> QED
    BY <2>1, <2>2
<1> QED
  BY <1>3, <1>4, <1>6 DEF SameFields

LEMMA AgreeStep ==
  ASSUME HeapInv, ExactInv, CopiesAgree, [Next]_vars
  PROVE  CopiesAgree'
<1>1. HeapInv'
  BY StepHeap
<1>2. CASE ~ Busy'
  <2>1. (HeapInv /\ ~ Busy => CopiesAgree)'
    BY AgreeOutside, PTL
  <2> QED
    BY <2>1, <1>1, <1>2
<1>3. CASE Collecting
  BY <1>3, CollectingFollows, AgreeAfter
<1>4. CASE UNCHANGED vars
  BY <1>4, GrownFollows, AgreeAfter DEF vars, Kept
<1> QED
  BY <1>2, <1>3, <1>4
  DEF Next, Program, Allocate, Ref, RefEnd, Store, Load, gcdisable, gcenable,
      gcreserve, collect, gcalloc, gcallocAgain, Running, Busy

LEMMA AgreeAlways == Spec /\ []~LateCopy => []CopiesAgree
<1>1. Init => CopiesAgree
  BY InitHeap, AgreeOutside DEF Init, Busy
<1>2. HeapInv /\ ExactInv /\ CopiesAgree /\ [Next]_vars => CopiesAgree'
  BY AgreeStep
<1> QED
  BY <1>1, <1>2, HeapAlways, ExactAlways, PTL DEF Spec

\* Two ways to load, level by level: h are the pointers, n those within each,
\* d the data that each leads to.
Chained(h, P, n) ==
  /\ \A k \in 0 .. Loads : h[k] \subseteq P
  /\ \A k \in 1 .. Loads : h[k] = h[k - 1] \cup UNION {n[p] : p \in h[k - 1]}
Covers(S, d, T, c) == \A p \in S : \E q \in T : c[q] = d[p]

LEMMA LevelsMatch ==
  ASSUME NEW h, NEW P, NEW n, NEW d, NEW i, NEW Q, NEW m, NEW c,
         Chained(h, P, n), Chained(i, Q, m), Covers(h[0], d, i[0], c),
         \A p \in P, q \in Q : d[p] = c[q] => Covers(n[p], d, m[q], c)
  PROVE  Covers(h[Loads], d, i[Loads], c)
<1>1. PICK N \in Nat : N = Loads
  BY LoadsNat
<1> DEFINE T == {k \in Nat : k <= N => Covers(h[k], d, i[k], c)}
<1>2. 0 \in T
  OBVIOUS
<1>3. ASSUME NEW k \in Nat, k \in T PROVE k + 1 \in T
  <2> SUFFICES ASSUME k + 1 <= N, NEW p \in h[k + 1]
               PROVE  \E q \in i[k + 1] : c[q] = d[p]
    BY DEF Covers
  <2>1. Covers(h[k], d, i[k], c)
    BY <1>3
  <2>2. k + 1 \in 1 .. N /\ k + 1 - 1 = k /\ k \in 0 .. N
    OBVIOUS
  <2>3. /\ h[k + 1] = h[k] \cup UNION {n[x] : x \in h[k]}
        /\ i[k + 1] = i[k] \cup UNION {m[x] : x \in i[k]}
        /\ h[k] \subseteq P /\ i[k] \subseteq Q
    BY <2>2, <1>1 DEF Chained
  <2>4. CASE p \in h[k]
    BY <2>1, <2>3, <2>4 DEF Covers
  <2>5. CASE p \notin h[k]
    <3>1. PICK x \in h[k] : p \in n[x]
      BY <2>3, <2>5
    <3>2. PICK y \in i[k] : c[y] = d[x]
      BY <2>1, <3>1 DEF Covers
    <3>3. Covers(n[x], d, m[y], c)
      BY <2>3, <3>1, <3>2
    <3>4. PICK q \in m[y] : c[q] = d[p]
      BY <3>1, <3>3 DEF Covers
    <3>5. q \in i[k + 1]
      BY <2>3, <3>2, <3>4
    <3> QED
      BY <3>4, <3>5
  <2> QED
    BY <2>4, <2>5
<1>4. \A k \in Nat : k \in T
  <2> HIDE DEF T
  <2> QED
    BY <1>2, <1>3, Inductive
<1> QED
  BY <1>1, <1>4

\* The heap as it is loaded from.
Edge(o) == <<o.data, [f \in 1 .. Len(o.fields) |-> DataAt(o.fields[f])]>>
Reached(h, P, n, d, ob, v) ==
  /\ Chained(h, P, n)
  /\ \A r : r \in h[0] <=> \E j \in 1 .. Len(rootlist) : r = rootlist[j] /\ r # Null
  /\ \A p \in P :
       /\ ThereIs(ob[p]) /\ d[p] = DataAt(p) /\ d[p] = ob[p].data /\ d[p] # Nothing
       /\ n[p] = {ob[p].fields[f] : f \in 1 .. Len(ob[p].fields)} \ {Null}
       /\ n[p] \subseteq P
  /\ v = [j \in 1 .. Len(rootlist) |-> v[j]]
  /\ \A j \in 1 .. Len(rootlist) : \A r : r = rootlist[j] => v[j] = DataAt(r)
  /\ View = [roots |-> v, edges |-> {Edge(ob[p]) : p \in h[Loads]}]

SomeReached == \E h, P, n, d, ob, v : Reached(h, P, n, d, ob, v)

LEMMA ViewIsReached ==
  ASSUME HeapInv, ExactInv
  PROVE  \E h, P, n, d, ob, v : Reached(h, P, n, d, ob, v)
<1>1. PICK h : Levels(h) /\ Held = h[Loads]
  BY HeldLevels
<1>2. \A k \in 0 .. Loads : \A p \in h[k] : There(p)
  BY <1>1, LevelsThere
<1>3. PICK P : P = {p \in Pointer : There(p)}
  OBVIOUS
<1>4. \A p : p \in P <=> There(p)
  BY <1>3 DEF There
<1>5. PICK d, ob : d = [p \in P |-> DataAt(p)] /\ ob = [p \in P |-> ObjectAt(p)]
  OBVIOUS
<1>6. PICK n : n = [p \in P |-> Within({p})]
  OBVIOUS
<1>7. ASSUME NEW p \in P
      PROVE  /\ d[p] = DataAt(p) /\ ob[p] = ObjectAt(p) /\ n[p] = Within({p})
             /\ ThereIs(ob[p]) /\ d[p] = ob[p].data /\ d[p] # Nothing
             /\ n[p] = {ob[p].fields[f] : f \in 1 .. Len(ob[p].fields)} \ {Null}
             /\ n[p] \subseteq P
  <2>1. /\ d[p] = DataAt(p) /\ ob[p] = ObjectAt(p) /\ n[p] = Within({p}) /\ There(p)
    BY <1>4, <1>5, <1>6
  <2>2. ThereIs(ob[p])
    BY <2>1 DEF There, ThereIs
  <2>3. ob[p].data \in Data /\ DataAt(p) = ob[p].data
    BY <2>1, ThereFields
  <2>4. ob[p].data # Nothing
    BY <2>3, CollectorAssumption DEF Nothing
  <2>5. \A r : r \in n[p] <=> \E f \in 1 .. Len(ob[p].fields) :
                                r = ob[p].fields[f] /\ r # Null
    <3>1. \A x \in {p} : There(x)
      BY <2>1
    <3>2. \A r : r \in Within({p}) <=>
                   \E x \in {p} : \E f \in 1 .. Len(ObjectAt(x).fields) :
                     r = ObjectAt(x).fields[f] /\ r # Null
      BY <3>1, WithinIs
    <3> QED
      BY <3>2, <2>1
  <2>6. n[p] \subseteq P
    BY <2>1, <1>4, WithinIs
  <2>7. n[p] = {ob[p].fields[f] : f \in 1 .. Len(ob[p].fields)} \ {Null}
    <3>1. PICK q, N, S : q = ob[p].fields /\ N = n[p] /\ S = 1 .. Len(ob[p].fields)
      OBVIOUS
    <3>2. \A r : r \in N <=> \E f \in S : r = q[f] /\ r # Null
      BY <2>5, <3>1
    <3>3. N = {q[f] : f \in S} \ {Null}
      BY <3>2
    <3> QED
      BY <3>1, <3>3
  <2>8. d[p] = DataAt(p) /\ ob[p] = ObjectAt(p) /\ n[p] = Within({p})
    BY <2>1
  <2>9. d[p] = ob[p].data /\ d[p] # Nothing
    BY <2>3, <2>4, <2>8
  <2> QED
    BY <2>2, <2>6, <2>7, <2>8, <2>9
<1>8. \A r : r \in h[0] <=> \E j \in 1 .. Len(rootlist) : r = rootlist[j] /\ r # Null
  BY <1>1, RootsAre DEF Levels
<1>9. Chained(h, P, n)
  <2>1. \A k \in 0 .. Loads : h[k] \subseteq P
    BY <1>2, <1>4
  <2>2. ASSUME NEW S \in SUBSET P PROVE Within(S) = UNION {n[p] : p \in S}
    <3>1. \A p \in S : There(p)
      BY <1>4
    <3>2. \A r : r \in Within(S) <=>
                   \E p \in S : \E f \in 1 .. Len(ObjectAt(p).fields) :
                     r = ObjectAt(p).fields[f] /\ r # Null
      BY <3>1, WithinIs
    <3>3. ASSUME NEW p \in S, NEW r
          PROVE  r \in n[p] <=> \E f \in 1 .. Len(ObjectAt(p).fields) :
                                  r = ObjectAt(p).fields[f] /\ r # Null
      <4>1. PICK x : x = ObjectAt(p)
        OBVIOUS
      <4>2. x = ob[p] /\ p \in P
        BY <4>1, <1>7
      <4>3. n[p] = {ob[p].fields[f] : f \in 1 .. Len(ob[p].fields)} \ {Null}
        BY <4>2, <1>7
      <4>4. \A q : q \in n[p] <=> \E f \in 1 .. Len(x.fields) :
                                   q = x.fields[f] /\ q # Null
        BY <4>2, <4>3
      <4> QED
        BY <4>1, <4>4
    <3>4. \A r : r \in Within(S) <=> \E p \in S : r \in n[p]
      BY <3>2, <3>3
    <3> QED
      BY <3>4
  <2>3. ASSUME NEW k \in 1 .. Loads
        PROVE  h[k] = h[k - 1] \cup UNION {n[p] : p \in h[k - 1]}
    <3>1. k - 1 \in 0 .. Loads
      BY LoadsNat
    <3>2. h[k - 1] \in SUBSET P
      BY <3>1, <2>1
    <3> QED
      BY <3>2, <2>2, <1>1 DEF Levels
  <2> QED
    BY <2>1, <2>3 DEF Chained
<1>13. PICK v : v = [j \in 1 .. Len(rootlist) |-> DataAt(rootlist[j])]
  OBVIOUS
<1>14. /\ v = [j \in 1 .. Len(rootlist) |-> v[j]]
       /\ \A j \in 1 .. Len(rootlist) : \A r : r = rootlist[j] => v[j] = DataAt(r)
  BY <1>13
<1>10. View = [roots |-> v, edges |-> {Edge(ob[p]) : p \in h[Loads]}]
  <2>0. h[Loads] \subseteq P
    <3>1. Loads \in 0 .. Loads
      BY LoadsNat
    <3> QED
      BY <3>1, <1>9 DEF Chained
  <2>a. \A p \in P : ob[p] = ObjectAt(p)
    BY <1>7
  <2>b. \A p \in P : IsObject(p)
    BY <1>4 DEF There
  <2>1. h[Loads] \subseteq P /\ \A p \in P : ob[p] = ObjectAt(p) /\ IsObject(p)
    BY <2>0, <2>a, <2>b
  <2>2. {q \in Held : IsObject(q)} = h[Loads]
    BY <2>1, <1>1
  <2>3. {ObjectAt(p) : p \in {q \in Held : IsObject(q)}} = {ob[p] : p \in h[Loads]}
    BY <2>1, <2>2
  <2>4. {Edge(o) : o \in {ObjectAt(p) : p \in {q \in Held : IsObject(q)}}}
          = {Edge(ob[p]) : p \in h[Loads]}
    BY <2>3
  <2>5. View = [roots |-> v,
                edges |-> {Edge(o) : o \in {ObjectAt(p) :
                                              p \in {q \in Held : IsObject(q)}}}]
    BY <1>13 DEF View, Edge, Var
  <2> QED
    BY <2>4, <2>5
<1>11. \A p \in P :
         /\ ThereIs(ob[p]) /\ d[p] = DataAt(p) /\ d[p] = ob[p].data /\ d[p] # Nothing
         /\ n[p] = {ob[p].fields[f] : f \in 1 .. Len(ob[p].fields)} \ {Null}
         /\ n[p] \subseteq P
  BY <1>7
<1>12. Reached(h, P, n, d, ob, v)
  BY <1>8, <1>9, <1>10, <1>11, <1>14 DEF Reached
<1> QED
  BY <1>12

LEMMA ViewIsSomeReached == HeapInv /\ ExactInv => SomeReached
BY ViewIsReached DEF SomeReached

LEMMA ViewFollows ==
  ASSUME HeapInv, ExactInv, CopiesAgree, HeapInv', ExactInv', HeapFollows
  PROVE  View' = View
<1>1. PICK h, P, n, d, ob, v : Reached(h, P, n, d, ob, v)
  BY ViewIsReached
<1>2. PICK i, Q, m, c, ob2, u : Reached(i, Q, m, c, ob2, u)'
  <2>1. (HeapInv /\ ExactInv => SomeReached)'
    BY ViewIsSomeReached, PTL
  <2>2. SomeReached'
    BY <2>1
  <2> QED
    BY <2>2 DEF SomeReached
<1>3. ASSUME NEW p \in P
      PROVE  /\ ThereIs(ob[p]) /\ d[p] = DataAt(p) /\ d[p] = ob[p].data /\ d[p] # Nothing
             /\ n[p] = {ob[p].fields[f] : f \in 1 .. Len(ob[p].fields)} \ {Null}
             /\ n[p] \subseteq P
  BY <1>1 DEF Reached
<1>4. ASSUME NEW q \in Q
      PROVE  /\ ThereIs(ob2[q])' /\ c[q] = DataAt(q)' /\ c[q] = ob2[q].data
             /\ c[q] # Nothing
             /\ m[q] = {ob2[q].fields[f] : f \in 1 .. Len(ob2[q].fields)} \ {Null}
             /\ m[q] \subseteq Q
  BY <1>2 DEF Reached
<1>5. ASSUME NEW p \in P, NEW q \in Q, d[p] = c[q]
      PROVE  /\ Len(ob2[q].fields) = Len(ob[p].fields)
             /\ \A f \in 1 .. Len(ob[p].fields) :
                  DataAt(ob2[q].fields[f])' = DataAt(ob[p].fields[f])
  <2>1. PICK o, o2 : o = ob[p] /\ o2 = ob2[q]
    OBVIOUS
  <2>2. ThereIs(o) /\ ThereIs(o2)' /\ o2.data = o.data
    BY <1>3, <1>4, <1>5, <2>1
  <2>3. /\ Len(o2.fields) = Len(o.fields)
        /\ \A g \in 1 .. Len(o.fields) : \A s : s = o2.fields[g] =>
             DataAt(s)' = DataAt(o.fields[g])
    BY <2>2, AgreeAcross
  <2>4. \A g \in 1 .. Len(o.fields) : DataAt(o2.fields[g])' = DataAt(o.fields[g])
    BY <2>3
  <2> QED
    BY <2>1, <2>3, <2>4
<1>6. DataAt(Null) = Nothing /\ DataAt(Null)' = Nothing
  BY DEF DataAt
<1>7. ASSUME NEW p \in P, NEW q \in Q, d[p] = c[q]
      PROVE  Covers(n[p], d, m[q], c) /\ Covers(m[q], c, n[p], d)
  <2>1. ASSUME NEW r \in n[p] PROVE \E s \in m[q] : c[s] = d[r]
    <3>1. PICK f \in 1 .. Len(ob[p].fields) : r = ob[p].fields[f] /\ r # Null /\ r \in P
      BY <1>3
    <3>2. PICK s : s = ob2[q].fields[f]
      OBVIOUS
    <3>3. DataAt(s)' = DataAt(r) /\ f \in 1 .. Len(ob2[q].fields)
      BY <3>1, <3>2, <1>5, <1>7
    <3>4. d[r] = DataAt(r) /\ d[r] # Nothing
      BY <3>1, <1>3
    <3>5. s # Null
      BY <3>3, <3>4, <1>6
    <3>6. s \in m[q] /\ s \in Q
      BY <3>2, <3>3, <3>5, <1>4
    <3>7. c[s] = DataAt(s)'
      BY <3>6, <1>4
    <3> QED
      BY <3>3, <3>4, <3>6, <3>7
  <2>2. ASSUME NEW s \in m[q] PROVE \E r \in n[p] : d[r] = c[s]
    <3>1. PICK f \in 1 .. Len(ob2[q].fields) : s = ob2[q].fields[f] /\ s # Null /\ s \in Q
      BY <1>4
    <3>2. PICK r : r = ob[p].fields[f]
      OBVIOUS
    <3>3. DataAt(s)' = DataAt(r) /\ f \in 1 .. Len(ob[p].fields)
      BY <3>1, <3>2, <1>5, <1>7
    <3>4. c[s] = DataAt(s)' /\ c[s] # Nothing
      BY <3>1, <1>4
    <3>5. r # Null
      BY <3>3, <3>4, <1>6
    <3>6. r \in n[p] /\ r \in P
      BY <3>2, <3>3, <3>5, <1>3
    <3>7. d[r] = DataAt(r)
      BY <3>6, <1>3
    <3> QED
      BY <3>3, <3>4, <3>6, <3>7
  <2> QED
    BY <2>1, <2>2 DEF Covers
<1>8. /\ Chained(h, P, n) /\ Chained(i, Q, m)
      /\ h[Loads] \subseteq P /\ i[Loads] \subseteq Q
      /\ h[0] \subseteq P /\ i[0] \subseteq Q
  <2>1. Chained(h, P, n) /\ Chained(i, Q, m)
    BY <1>1, <1>2 DEF Reached, Chained, Loads
  <2>2. Loads \in 0 .. Loads /\ 0 \in 0 .. Loads
    BY LoadsNat
  <2> QED
    BY <2>1, <2>2 DEF Chained
<1>9. /\ Len(rootlist') = Len(rootlist)
      /\ \A j \in 1 .. Len(rootlist) : \A s :
           s = rootlist'[j] => DataAt(s)' = DataAt(rootlist[j])
  <2>1. Len(rootlist') = Len(rootlist)
    BY DEF HeapFollows, RootsFollow
  <2>2. ASSUME NEW j \in 1 .. Len(rootlist), NEW s, s = rootlist'[j]
        PROVE  DataAt(s)' = DataAt(rootlist[j])
    <3>1. rootlist' \in Seq(Pointer)
      BY DEF HeapInv, GCTypeOK
    <3>2. s \in Pointer
      BY <3>1, <2>1, <2>2
    <3> QED
      BY <3>2, <2>2 DEF HeapFollows, RootsFollow, Follows
  <2> QED
    BY <2>1, <2>2
<1>10. Covers(h[0], d, i[0], c) /\ Covers(i[0], c, h[0], d)
  <2>1. ASSUME NEW r \in h[0] PROVE \E s \in i[0] : c[s] = d[r]
    <3>1. PICK j \in 1 .. Len(rootlist) : r = rootlist[j] /\ r # Null
      BY <1>1 DEF Reached
    <3>2. PICK s : s = rootlist'[j]
      OBVIOUS
    <3>3. DataAt(s)' = DataAt(r) /\ j \in 1 .. Len(rootlist')
      BY <3>1, <3>2, <1>9
    <3>4. d[r] = DataAt(r) /\ d[r] # Nothing
      BY <1>3, <1>8
    <3>5. s # Null
      BY <3>3, <3>4, <1>6
    <3>6. s \in i[0] /\ s \in Q
      BY <3>2, <3>3, <3>5, <1>2, <1>8 DEF Reached
    <3>7. c[s] = DataAt(s)'
      BY <3>6, <1>4
    <3> QED
      BY <3>3, <3>4, <3>6, <3>7
  <2>2. ASSUME NEW s \in i[0] PROVE \E r \in h[0] : d[r] = c[s]
    <3>1. PICK j \in 1 .. Len(rootlist') : s = rootlist'[j] /\ s # Null
      BY <1>2 DEF Reached
    <3>2. PICK r : r = rootlist[j]
      OBVIOUS
    <3>3. DataAt(s)' = DataAt(r) /\ j \in 1 .. Len(rootlist)
      BY <3>1, <3>2, <1>9
    <3>4. c[s] = DataAt(s)' /\ c[s] # Nothing
      BY <1>4, <1>8
    <3>5. r # Null
      BY <3>3, <3>4, <1>6
    <3>6. r \in h[0] /\ r \in P
      BY <3>2, <3>3, <3>5, <1>1, <1>8 DEF Reached
    <3>7. d[r] = DataAt(r)
      BY <3>6, <1>3
    <3> QED
      BY <3>3, <3>4, <3>6, <3>7
  <2> QED
    BY <2>1, <2>2 DEF Covers
<1>11. Covers(h[Loads], d, i[Loads], c)
  BY <1>7, <1>8, <1>10, LevelsMatch
<1>12. Covers(i[Loads], c, h[Loads], d)
  <2>1. \A q \in Q, p \in P : c[q] = d[p] => Covers(m[q], c, n[p], d)
    BY <1>7
  <2> QED
    BY <2>1, <1>8, <1>10, LevelsMatch
<1>13. ASSUME NEW p \in P, NEW q \in Q, d[p] = c[q]
       PROVE  Edge(ob2[q])' = Edge(ob[p])
  BY <1>3, <1>4, <1>5, <1>13 DEF Edge
<1>14. {Edge(ob2[q])' : q \in i[Loads]} = {Edge(ob[p]) : p \in h[Loads]}
  <2>1. ASSUME NEW q \in i[Loads] PROVE \E p \in h[Loads] : Edge(ob2[q])' = Edge(ob[p])
    BY <1>8, <1>12, <1>13 DEF Covers
  <2>2. ASSUME NEW p \in h[Loads] PROVE \E q \in i[Loads] : Edge(ob2[q])' = Edge(ob[p])
    BY <1>8, <1>11, <1>13 DEF Covers
  <2> QED
    BY <2>1, <2>2
<1>15. u = v
  <2>1. /\ u = [j \in 1 .. Len(rootlist) |-> u[j]]
        /\ v = [j \in 1 .. Len(rootlist) |-> v[j]]
    BY <1>1, <1>2, <1>9 DEF Reached
  <2>2. ASSUME NEW j \in 1 .. Len(rootlist) PROVE u[j] = v[j]
    <3>1. PICK r, s : r = rootlist[j] /\ s = rootlist'[j]
      OBVIOUS
    <3>2. u[j] = DataAt(s)'
      BY <3>1, <1>2, <1>9 DEF Reached
    <3>3. v[j] = DataAt(r)
      BY <3>1, <1>1 DEF Reached
    <3> QED
      BY <3>1, <3>2, <3>3, <1>9
  <2> QED
    BY <2>1, <2>2
<1>16. View' = [roots |-> u, edges |-> {Edge(ob2[q])' : q \in i[Loads]}]
  BY <1>2 DEF Reached, Loads
<1>17. View = [roots |-> v, edges |-> {Edge(ob[p]) : p \in h[Loads]}]
  BY <1>1 DEF Reached
<1> QED
  BY <1>14, <1>15, <1>16, <1>17

\* Unless a copy is late, no step of a collection changes what the program
\* sees: what its variables refer to, what they share, and what the objects in
\* reach refer to. (gc.c: gc, scanroots, scanspace, forward, the copy and scan
\* methods)
THEOREM CollectionsAreUnseen == Spec /\ []~LateCopy => CollectionIsInvisible
<1>1. ASSUME HeapInv, ExactInv, CopiesAgree, HeapInv', ExactInv', [Next]_vars
      PROVE  [pc \notin {"run", "alloc"} => View' = View]_vars
  <2> SUFFICES ASSUME Next, pc \notin {"run", "alloc"} PROVE View' = View
    BY SMTT(30), <1>1
  <2>1. Collecting
    BY DEF Next, Program, Allocate, Ref, RefEnd, Store, Load, gcdisable, gcenable,
           gcreserve, collect, gcalloc, gcallocAgain, Running
  <2> QED
    BY <1>1, <2>1, CollectingFollows, ViewFollows
<1> QED
  BY <1>1, HeapAlways, ExactAlways, AgreeAlways, PTL DEF Spec, CollectionIsInvisible

-----------------------------------------------------------------------------
(* One more round is enough: the space of the second round of gc() is at   *)
(* least as large as all that the first one has copied.                    *)

\* The cells of the objects of a chain, and of those not moved yet.
Cell == [space : Nat, obj : Nat, cell : Nat]
IsCell(ch, c) ==
  In(ch, c.space, c.obj) /\ c.cell <= Len(Obj(ch, c.space, c.obj).fields)
Used(ch, s) == {c \in Cell : c.space = s /\ IsCell(ch, c)}
Left(ch) == {c \in Cell : IsCell(ch, c) /\ Obj(ch, c.space, c.obj).moved = Null}
Block(s, i, n) == {c \in Cell : c.space = s /\ c.obj = i /\ c.cell <= n}

\* A set of at most so many cells.
AtMost(S, n) == IsFiniteSet(S) /\ Cardinality(S) <= n

\* What a space is used up to is at least what is in it.
Counted(ch) == \A s \in 1 .. Len(ch) : AtMost(Used(ch, s), ch[s].current)

\* The first round is followed by another only when collections are enabled,
\* and with a next space as large as the data.
Roundly ==
  /\ pc \in {"run", "alloc"} => rounds = 0
  /\ pc = "gc" => rounds = 0 \/ (rounds = 1 /\ gcblocked = 0 /\ LiveData <= minspace)
  /\ Busy => rounds \in {1, 2}

\* In the second round the one new space has room for all that is left to copy.
Roomy(ch, left) ==
  /\ Len(ch) = 1
  /\ IsFiniteSet(left)
  /\ ch[1].current + Cardinality(left) <= ch[1].size
HasRoom == (Busy /\ rounds = 2) => Roomy(new, Left(old))

RoundsInv == Counted(new) /\ Roundly /\ HasRoom

LEMMA BlockSize ==
  ASSUME NEW s \in Nat, NEW i \in Nat, NEW n \in Nat
  PROVE  IsFiniteSet(Block(s, i, n)) /\ Cardinality(Block(s, i, n)) = n + 1
<1> DEFINE f == [k \in 0 .. n |-> [space |-> s, obj |-> i, cell |-> k]]
<1>1. \A k \in 0 .. n : f[k] \in Block(s, i, n) /\ f[k].cell = k
  BY DEF Block, Cell
<1>2. \A c \in Block(s, i, n) : c.cell \in 0 .. n /\ f[c.cell] = c
  BY DEF Block, Cell
<1>3. f \in [0 .. n -> Block(s, i, n)]
  BY <1>1
<1> HIDE DEF f
<1>4. f \in Bijection(0 .. n, Block(s, i, n))
  <2>1. \A k, l \in 0 .. n : f[k] = f[l] => k = l
    BY <1>1
  <2>2. \A c \in Block(s, i, n) : \E k \in 0 .. n : f[k] = c
    BY <1>2
  <2> QED
    BY <1>3, <2>1, <2>2 DEF Bijection, Injection, Surjection, IsInjective
<1>5. ExistsBijection(0 .. n, Block(s, i, n))
  BY <1>4 DEF ExistsBijection
<1>6. IsFiniteSet(0 .. n) /\ Cardinality(0 .. n) = n + 1
  BY FS_Interval
<1> QED
  BY <1>5, <1>6, FS_Bijection

LEMMA AtMostUnion ==
  ASSUME NEW S, NEW T, NEW U, U \subseteq S \cup T, NEW m \in Nat, NEW n \in Nat,
         AtMost(S, m), AtMost(T, n)
  PROVE  AtMost(U, m + n)
<1>1. /\ IsFiniteSet(S \cup T)
      /\ Cardinality(S \cup T) = Cardinality(S) + Cardinality(T) - Cardinality(S \cap T)
  BY FS_Union DEF AtMost
<1>2. IsFiniteSet(S \cap T)
  BY FS_Intersection DEF AtMost
<1>3. /\ Cardinality(S) \in Nat /\ Cardinality(T) \in Nat
      /\ Cardinality(S \cap T) \in Nat /\ Cardinality(S \cup T) \in Nat
  BY <1>1, <1>2, FS_CardinalityType DEF AtMost
<1>4. IsFiniteSet(U) /\ Cardinality(U) <= Cardinality(S \cup T)
  BY <1>1, FS_Subset
<1>5. Cardinality(U) \in Nat
  BY <1>4, FS_CardinalityType
<1> QED
  BY <1>1, <1>3, <1>4, <1>5 DEF AtMost

LEMMA AtMostNone ==
  ASSUME NEW S, S = {}
  PROVE  AtMost(S, 0)
BY FS_EmptySet DEF AtMost

\* The spaces of a chain that keeps the shape of its objects.
LEMMA CountedKept ==
  ASSUME NEW ch, NEW ch2, Counted(ch), Len(ch2) = Len(ch),
         \A t, j \in Nat : In(ch2, t, j) <=> In(ch, t, j),
         \A t, j \in Nat : In(ch, t, j) =>
           Len(Obj(ch2, t, j).fields) = Len(Obj(ch, t, j).fields),
         \A t \in 1 .. Len(ch) : ch2[t].current = ch[t].current
  PROVE  Counted(ch2)
<1> SUFFICES ASSUME NEW s \in 1 .. Len(ch) PROVE AtMost(Used(ch2, s), ch2[s].current)
  BY DEF Counted
<1>1. \A c \in Cell : IsCell(ch2, c) <=> IsCell(ch, c)
  <2> SUFFICES ASSUME NEW c \in Cell PROVE IsCell(ch2, c) <=> IsCell(ch, c)
    OBVIOUS
  <2>1. c.space \in Nat /\ c.obj \in Nat
    BY DEF Cell
  <2> QED
    BY <2>1 DEF IsCell
<1>2. Used(ch2, s) = Used(ch, s)
  BY <1>1 DEF Used
<1> QED
  BY <1>2 DEF Counted

LEMMA CountedGrown ==
  ASSUME NEW ch \in Chain, NEW ch2, NEW size, SpaceIsAdded(ch, ch2, size), Counted(ch)
  PROVE  Counted(ch2)
<1>1. /\ Len(ch2) = Len(ch) + 1 /\ Len(ch) \in Nat
      /\ \A s, i \in Nat : In(ch2, s, i) <=> In(ch, s, i)
      /\ \A s \in 1 .. Len(ch) : ch2[s] = ch[s]
      /\ ch2[Len(ch2)] = newspace(size)
  BY DEF SpaceIsAdded, Chain
<1> SUFFICES ASSUME NEW s \in 1 .. Len(ch) + 1
             PROVE  AtMost(Used(ch2, s), ch2[s].current)
  BY <1>1 DEF Counted
<1>2. CASE s \in 1 .. Len(ch)
  <2>1. Used(ch2, s) = Used(ch, s)
    <3>1. \A i \in Nat : In(ch, s, i) => Obj(ch2, s, i) = Obj(ch, s, i)
      BY <1>1, <1>2 DEF Obj
    <3>2. ASSUME NEW c \in Cell, c.space = s PROVE IsCell(ch2, c) <=> IsCell(ch, c)
      <4>1. c.space \in Nat /\ c.obj \in Nat
        BY DEF Cell
      <4> QED
        BY <4>1, <3>1, <3>2, <1>1 DEF IsCell
    <3> QED
      BY <3>2 DEF Used
  <2> QED
    BY <2>1, <1>1, <1>2 DEF Counted
<1>3. CASE s = Len(ch) + 1
  <2>1. \A i : ~ In(ch, s, i)
    BY <1>1, <1>3 DEF In
  <2>2. Used(ch2, s) = {}
    <3> SUFFICES ASSUME NEW c \in Cell, c.space = s, IsCell(ch2, c) PROVE FALSE
      BY DEF Used
    <3>1. c.space \in Nat /\ c.obj \in Nat
      BY DEF Cell
    <3> QED
      BY <3>1, <2>1, <1>1 DEF IsCell
  <2>3. ch2[s].current = 0
    BY <1>1, <1>3 DEF newspace
  <2> QED
    BY <2>2, <2>3, AtMostNone
<1> QED
  BY <1>1, <1>2, <1>3

LEMMA CountedAdded ==
  ASSUME NEW ch \in Chain, NEW ch2, NEW n, NEW k, NEW o \in FullObject,
         n = Len(ch), ObjectIsAdded(ch, ch2, n, k, o), Counted(ch)
  PROVE  Counted(ch2)
<1>1. /\ ch2 \in Chain /\ Len(ch2) = n /\ n \in Nat \ {0} /\ k \in Nat \ {0}
      /\ \A s, i \in Nat : In(ch2, s, i) <=> (In(ch, s, i) \/ (s = n /\ i = k))
      /\ \A s, i \in Nat : In(ch, s, i) => Obj(ch2, s, i) = Obj(ch, s, i)
      /\ Obj(ch2, n, k) = o
      /\ \A s \in 1 .. n : s # n => ch2[s] = ch[s]
      /\ ch2[n].current = ch[n].current + Cells(o)
  BY DEF ObjectIsAdded
<1>2. PICK l \in Nat : l = Len(o.fields) /\ Cells(o) = l + 1
  BY DEF Cells, FullObject, Object
<1>3. \A s \in 1 .. n : ch[s].current \in Nat
  <2>1. \A s \in 1 .. n : ch[s] \in Space
    BY DEF Chain
  <2> QED
    BY <2>1 DEF Space
<1> SUFFICES ASSUME NEW s \in 1 .. n PROVE AtMost(Used(ch2, s), ch2[s].current)
  BY <1>1 DEF Counted
<1>4. AtMost(Used(ch, s), ch[s].current)
  BY DEF Counted
<1>5. ASSUME NEW c \in Cell, c.space = s, IsCell(ch2, c)
      PROVE  IsCell(ch, c) \/ (s = n /\ c.obj = k /\ c.cell <= l)
  <2>1. c.space \in Nat /\ c.obj \in Nat
    BY DEF Cell
  <2> QED
    BY <2>1, <1>1, <1>2, <1>5 DEF IsCell
<1>6. CASE s # n
  <2>1. Used(ch2, s) \subseteq Used(ch, s) \cup {}
    BY <1>5, <1>6 DEF Used
  <2>2. AtMost(Used(ch2, s), ch[s].current + 0)
    BY <2>1, <1>3, <1>4, AtMostNone, AtMostUnion
  <2> QED
    BY <2>2, <1>1, <1>3, <1>6
<1>7. CASE s = n
  <2>1. Used(ch2, s) \subseteq Used(ch, s) \cup Block(n, k, l)
    BY <1>5, <1>7 DEF Used, Block
  <2>2. AtMost(Block(n, k, l), l + 1)
    <3>1. n \in Nat /\ k \in Nat
      BY <1>1
    <3>2. IsFiniteSet(Block(n, k, l)) /\ Cardinality(Block(n, k, l)) = l + 1
      BY <3>1, BlockSize
    <3> QED
      BY <3>2 DEF AtMost
  <2>3. AtMost(Used(ch2, s), ch[s].current + (l + 1))
    BY <2>1, <2>2, <1>3, <1>4, AtMostUnion
  <2> QED
    BY <2>3, <1>1, <1>2, <1>7
<1> QED
  BY <1>6, <1>7

-----------------------------------------------------------------------------
(* What is left to copy.                                                   *)

\* At the start of a round that is at most what the spaces are used up to.
LEMMA LeftAtFirst ==
  ASSUME NEW ch \in Chain, NEW ch2, ChainIsAged(ch, ch2), Counted(ch)
  PROVE  AtMost(Left(ch2), Live(ch))
<1>1. PICK N \in Nat : N = Len(ch)
  BY DEF Chain
<1>2. PICK f \in [0 .. N -> Nat] :
        /\ f[0] = 0
        /\ \A n \in 1 .. N : f[n] = f[n - 1] + ch[n].current
        /\ Live(ch) = f[N]
  BY <1>1, LiveSum
<1>3. \A n \in 1 .. N : ch[n].current \in Nat
  <2>1. \A n \in 1 .. N : ch[n] \in Space
    BY <1>1 DEF Chain
  <2> QED
    BY <2>1 DEF Space
<1> DEFINE Upto(n) == {c \in Cell : c.space <= n /\ IsCell(ch, c)}
           T == {n \in Nat : n <= N => AtMost(Upto(n), f[n])}
<1>4. 0 \in T
  <2> SUFFICES ASSUME NEW c \in Upto(0) PROVE FALSE
    BY <1>2, AtMostNone
  <2>1. c \in Cell /\ c.space = 0 /\ In(ch, c.space, c.obj)
    BY DEF Cell, IsCell
  <2> QED
    BY <2>1, <1>1 DEF In
<1> HIDE DEF Upto
<1>5. ASSUME NEW n \in Nat, n \in T PROVE n + 1 \in T
  <2> SUFFICES ASSUME n + 1 <= N PROVE AtMost(Upto(n + 1), f[n + 1])
    OBVIOUS
  <2>1. n + 1 \in 1 .. N /\ n <= N /\ n \in 0 .. N /\ n + 1 - 1 = n
    BY <1>1
  <2>2. AtMost(Upto(n), f[n])
    BY <1>5, <2>1
  <2>3. AtMost(Used(ch, n + 1), ch[n + 1].current)
    BY <1>1, <2>1 DEF Counted
  <2>4. Upto(n + 1) \subseteq Upto(n) \cup Used(ch, n + 1)
    <3> USE DEF Upto
    <3> SUFFICES ASSUME NEW c \in Upto(n + 1) PROVE c \in Upto(n) \/ c \in Used(ch, n + 1)
      OBVIOUS
    <3>1. c \in Cell /\ c.space \in Nat /\ c.space <= n + 1 /\ IsCell(ch, c)
      BY DEF Cell
    <3>2. c.space <= n \/ c.space = n + 1
      BY <3>1
    <3> QED
      BY <3>1, <3>2 DEF Used
  <2>5. f[n] \in Nat /\ ch[n + 1].current \in Nat
        /\ f[n + 1] = f[n] + ch[n + 1].current
    BY <1>2, <1>3, <2>1
  <2>6. AtMost(Upto(n + 1), f[n] + ch[n + 1].current)
    BY <2>2, <2>3, <2>4, <2>5, AtMostUnion
  <2> QED
    BY <2>5, <2>6
<1>6. N \in T
  <2> HIDE DEF T
  <2> QED
    BY <1>1, <1>4, <1>5, Inductive
<1>7. AtMost(Upto(N), f[N])
  BY <1>6
<1>8. Left(ch2) \subseteq Upto(N)
  <2> SUFFICES ASSUME NEW c \in Cell, IsCell(ch2, c) PROVE c.space <= N /\ IsCell(ch, c)
    BY DEF Left, Upto
  <2>1. c.space \in Nat /\ c.obj \in Nat
    BY DEF Cell
  <2>2. IsCell(ch, c)
    BY <2>1 DEF IsCell, ChainIsAged
  <2> QED
    BY <2>2, <1>1 DEF IsCell, In
<1>9. AtMost(Left(ch2), f[N] + 0)
  <2>1. f[N] \in Nat
    BY <1>2
  <2>2. Left(ch2) \subseteq Upto(N) \cup {}
    BY <1>8
  <2> QED
    BY <2>1, <2>2, <1>7, AtMostNone, AtMostUnion
<1> QED
  BY <1>2, <1>9

\* An object is not left when it has been moved.
LEMMA LeftMoved ==
  ASSUME NEW ch \in Chain, NEW ch2, NEW s \in Nat, NEW i \in Nat, NEW q,
         In(ch, s, i), Obj(ch, s, i).moved = Null, q # Null,
         MovedIsSet(ch, ch2, s, i, q), IsFiniteSet(Left(ch)),
         NEW n, n = 1 + Len(Obj(ch, s, i).fields)
  PROVE  /\ IsFiniteSet(Left(ch2))
         /\ Cardinality(Left(ch)) \in Nat /\ Cardinality(Left(ch2)) \in Nat
         /\ Cardinality(Left(ch2)) = Cardinality(Left(ch)) - n
<1>1. PICK l \in Nat : l = Len(Obj(ch, s, i).fields) /\ n = l + 1
  BY ObjectThere
<1>2. Block(s, i, l) \subseteq Left(ch)
  BY <1>1 DEF Block, Left, IsCell
<1>3. Left(ch2) = Left(ch) \ Block(s, i, l)
  <2> SUFFICES ASSUME NEW c \in Cell
               PROVE  c \in Left(ch2) <=> c \in Left(ch) /\ c \notin Block(s, i, l)
    BY DEF Left
  <2>1. c.space \in Nat /\ c.obj \in Nat
    BY DEF Cell
  <2>2. IsCell(ch2, c) <=> IsCell(ch, c)
    BY <2>1 DEF IsCell, MovedIsSet
  <2>3. CASE c.space = s /\ c.obj = i
    <3>1. IsCell(ch2, c) => Obj(ch2, c.space, c.obj).moved = q
      BY <2>1, <2>2, <2>3 DEF IsCell, MovedIsSet
    <3>2. IsCell(ch, c) => c \in Block(s, i, l)
      BY <1>1, <2>3 DEF IsCell, Block
    <3> QED
      BY <3>1, <3>2 DEF Left
  <2>4. CASE ~ (c.space = s /\ c.obj = i)
    <3>1. IsCell(ch, c) =>
            Obj(ch2, c.space, c.obj).moved = Obj(ch, c.space, c.obj).moved
      BY <2>1, <2>4 DEF IsCell, MovedIsSet
    <3>2. c \notin Block(s, i, l)
      BY <2>4 DEF Block
    <3> QED
      BY <2>2, <3>1, <3>2 DEF Left
  <2> QED
    BY <2>3, <2>4
<1>4. Left(ch) \cap Block(s, i, l) = Block(s, i, l)
  BY <1>2
<1>5. Cardinality(Block(s, i, l)) = n
  BY <1>1, BlockSize
<1>6. /\ IsFiniteSet(Left(ch2))
      /\ Cardinality(Left(ch2)) = Cardinality(Left(ch)) - n
  <2>1. /\ IsFiniteSet(Left(ch) \ Block(s, i, l))
        /\ Cardinality(Left(ch) \ Block(s, i, l))
             = Cardinality(Left(ch)) - Cardinality(Left(ch) \cap Block(s, i, l))
    BY FS_Difference
  <2> QED
    BY <2>1, <1>3, <1>4, <1>5
<1> QED
  BY <1>6, FS_CardinalityType

\* It takes no more room than all that is left.
LEMMA LeftLarge ==
  ASSUME NEW ch \in Chain, NEW s \in Nat, NEW i \in Nat,
         In(ch, s, i), Obj(ch, s, i).moved = Null, IsFiniteSet(Left(ch))
  PROVE  1 + Len(Obj(ch, s, i).fields) <= Cardinality(Left(ch))
<1>1. PICK l \in Nat : l = Len(Obj(ch, s, i).fields)
  BY ObjectThere
<1>2. Block(s, i, l) \subseteq Left(ch)
  BY <1>1 DEF Block, Left, IsCell
<1>3. Cardinality(Block(s, i, l)) = l + 1
  BY <1>1, BlockSize
<1>4. Cardinality(Block(s, i, l)) <= Cardinality(Left(ch))
  BY <1>2, FS_Subset
<1> QED
  BY <1>1, <1>3, <1>4

-----------------------------------------------------------------------------
(* The steps.                                                              *)

LEMMA CopyAdds ==
  ASSUME HeapInv, Busy, NEW p \in Pointer, Sound(p), Moves(p),
         NEW ns, SameShape(new, ns), forward(p, ns)
  PROVE  /\ In(old, p.space, p.obj) /\ Obj(old, p.space, p.obj).moved = Null
         /\ Obj(old, p.space, p.obj) \in FullObject
         /\ \E q : q # Null /\ MovedIsSet(old, old', p.space, p.obj, q)
         /\ \E k : ObjectIsAdded(ns, new', Len(ns), k, Obj(old, p.space, p.obj))
<1>1. /\ p.old /\ p # Stale /\ ObjectAt(p).moved = Null
  BY DEF Moves, InOld
<1>2. In(old, p.space, p.obj) /\ ObjectAt(p) = Obj(old, p.space, p.obj)
  BY <1>1, IsObjectIn, NullFacts DEF Sound
<1>3. /\ GCTypeOK /\ new \in Chain /\ new # << >> /\ old \in Chain
      /\ p.space \in Nat /\ p.obj \in Nat
  BY PointerFacts DEF HeapInv, GCTypeOK
<1>4. PICK o \in FullObject : o = Obj(old, p.space, p.obj)
  BY <1>2, <1>3, ObjectThere
<1>5. PICK n, k : n = Len(ns) /\ k = Len(ns[n].objs) + 1
  OBVIOUS
<1>6. PICK q \in Pointer : q = Place /\ q # Null
  BY <1>3, PlaceFacts
<1>7. new' = ObjectAdded(ns, o)
  BY <1>2, <1>4 DEF forward, ObjectAdded, SameShape
<1>8. old' = MovedSet(old, p.space, p.obj, q)
  BY <1>6 DEF forward, MovedSet
<1>9. ObjectIsAdded(ns, new', n, k, o)
  BY <1>5, <1>7, AddedObject DEF SameShape
<1>10. MovedIsSet(old, old', p.space, p.obj, q)
  BY <1>2, <1>3, <1>8, ReplacedMoved
<1> QED
  BY <1>1, <1>2, <1>4, <1>5, <1>6, <1>9, <1>10

LEMMA ForwardCounts ==
  ASSUME HeapInv, Busy, NEW p \in Pointer, Sound(p),
         NEW ns, SameShape(new, ns), forward(p, ns), Counted(new)
  PROVE  /\ Counted(new')
         /\ Roomy(new, Left(old)) => Roomy(new', Left(old'))
<1>1. /\ ns \in Chain /\ ns # << >> /\ Len(ns) = Len(new) /\ Len(ns) \in Nat
      /\ \A s \in 1 .. Len(new) : ns[s].size = new[s].size /\ ns[s].current = new[s].current
      /\ new \in Chain /\ old \in Chain /\ p.space \in Nat /\ p.obj \in Nat
  BY PointerFacts DEF SameShape, HeapInv, GCTypeOK, Chain
<1>2. Counted(ns)
  BY CountedKept DEF SameShape
<1>3. CASE ~ Moves(p)
  <2>1. new' = ns /\ old' = old
    BY <1>3 DEF forward
  <2> QED
    BY <2>1, <1>1, <1>2 DEF Roomy
<1>4. CASE Moves(p)
  <2>1. /\ In(old, p.space, p.obj) /\ Obj(old, p.space, p.obj).moved = Null
        /\ Obj(old, p.space, p.obj) \in FullObject
        /\ \E q : q # Null /\ MovedIsSet(old, old', p.space, p.obj, q)
        /\ \E k : ObjectIsAdded(ns, new', Len(ns), k, Obj(old, p.space, p.obj))
    BY <1>4, CopyAdds
  <2>2. PICK o \in FullObject : o = Obj(old, p.space, p.obj)
    BY <2>1
  <2>3. PICK q : q # Null /\ MovedIsSet(old, old', p.space, p.obj, q)
    BY <2>1
  <2>4. PICK k : ObjectIsAdded(ns, new', Len(ns), k, o)
    BY <2>1, <2>2
  <2>5. Counted(new')
    BY <2>4, <1>1, <1>2, CountedAdded
  <2>6. ASSUME Roomy(new, Left(old)) PROVE Roomy(new', Left(old'))
    <3>1. PICK l \in Nat : l = Cells(o) /\ l = 1 + Len(o.fields)
      BY DEF Cells, FullObject, Object
    <3>2. Len(new) = 1 /\ IsFiniteSet(Left(old))
          /\ new[1].current + Cardinality(Left(old)) <= new[1].size
      BY <2>6 DEF Roomy
    <3>3. /\ IsFiniteSet(Left(old'))
          /\ Cardinality(Left(old)) \in Nat /\ Cardinality(Left(old')) \in Nat
          /\ Cardinality(Left(old')) = Cardinality(Left(old)) - l
      <4>1. PICK s \in Nat, i \in Nat, ch \in Chain :
              s = p.space /\ i = p.obj /\ ch = old
        BY <1>1
      <4>2. PICK ch2 : ch2 = old'
        OBVIOUS
      <4>3. /\ In(ch, s, i) /\ Obj(ch, s, i).moved = Null /\ IsFiniteSet(Left(ch))
            /\ MovedIsSet(ch, ch2, s, i, q) /\ q # Null
            /\ l = 1 + Len(Obj(ch, s, i).fields)
        BY <4>1, <4>2, <2>1, <2>2, <2>3, <3>1, <3>2
      <4>4. /\ IsFiniteSet(Left(ch2))
            /\ Cardinality(Left(ch)) \in Nat /\ Cardinality(Left(ch2)) \in Nat
            /\ Cardinality(Left(ch2)) = Cardinality(Left(ch)) - l
        BY <4>3, LeftMoved
      <4> QED
        BY <4>1, <4>2, <4>4
    <3>4. /\ Len(new') = 1 /\ new'[1].size = new[1].size
          /\ new'[1].current = new[1].current + l
      BY <2>4, <3>1, <3>2, <1>1 DEF ObjectIsAdded
    <3>5. new[1].current \in Nat /\ new[1].size \in Nat
      BY <3>2, <1>1, PlaceFacts DEF HeapInv
    <3> QED
      BY <3>2, <3>3, <3>4, <3>5 DEF Roomy
  <2> QED
    BY <2>5, <2>6
<1> QED
  BY <1>3, <1>4

\* What is copied in a second round fits.
LEMMA SecondFits ==
  ASSUME HeapInv, Busy, NEW p \in Pointer, Sound(p), NeedsSpace(p),
         Roomy(new, Left(old))
  PROVE  FALSE
<1>1. Moves(p) /\ ~ Fits(Cells(ObjectAt(p)))
  BY DEF NeedsSpace
<1>2. /\ In(old, p.space, p.obj) /\ ObjectAt(p) = Obj(old, p.space, p.obj)
      /\ Cells(ObjectAt(p)) = 1 + Len(ObjectAt(p).fields)
      /\ Len(ObjectAt(p).fields) \in Nat \ {0}
  BY <1>1, MovesThere
<1>3. ObjectAt(p).moved = Null
  BY <1>1 DEF Moves
<1>4. old \in Chain /\ p.space \in Nat /\ p.obj \in Nat
  BY PointerFacts DEF HeapInv, GCTypeOK
<1>5. PICK n \in Nat : n = Cells(ObjectAt(p)) /\ n <= Cardinality(Left(old))
  <2>1. IsFiniteSet(Left(old))
    BY DEF Roomy
  <2> QED
    BY <2>1, <1>2, <1>3, <1>4, LeftLarge
<1>6. Cardinality(Left(old)) \in Nat
  BY FS_CardinalityType DEF Roomy
<1>7. /\ Len(new) = 1 /\ Last(new) = new[1]
      /\ new[1].current \in Nat /\ new[1].size \in Nat
  BY PlaceFacts DEF HeapInv, Roomy
<1> QED
  BY <1>1, <1>5, <1>6, <1>7 DEF Roomy, Fits, Free

LEMMA RoundsInit ==
  ASSUME Init
  PROVE  RoundsInv
<1>1. new = <<newspace(MIN_minspace)>> /\ rounds = 0 /\ pc = "run" /\ ~ Busy
  BY DEF Init, Busy
<1>2. \A s : Used(new, s) = {}
  <2> SUFFICES ASSUME NEW c \in Cell, IsCell(new, c) PROVE FALSE
    BY DEF Used
  <2> QED
    BY <1>1, NothingIn DEF IsCell
<1>3. Len(new) = 1 /\ new[1].current = 0
  BY <1>1 DEF newspace
<1>4. Counted(new)
  <2> SUFFICES ASSUME NEW s \in 1 .. 1 PROVE AtMost(Used(new, s), new[s].current)
    BY <1>3 DEF Counted
  <2>1. s = 1
    OBVIOUS
  <2> QED
    BY <2>1, <1>2, <1>3, AtMostNone
<1> QED
  BY <1>1, <1>4 DEF RoundsInv, Roundly, HasRoom

\* The program keeps the count, and no round of its own is going on.
LEMMA ProgramRounds ==
  ASSUME HeapInv, RoundsInv, Program
  PROVE  RoundsInv'
<1>1. /\ pc = "run" /\ pc' \in {"run", "alloc", "gc"} /\ UNCHANGED rounds
      /\ \/ UNCHANGED new
         \/ \E i, j \in Var, f \in Field : HasField(i, f) /\ Store(i, f, j)
  BY DEF Program, Allocate, Ref, RefEnd, Store, Load, gcdisable, gcenable, gcreserve,
         collect, Running, scan
<1>2. rounds = 0
  BY <1>1 DEF RoundsInv, Roundly
<1>3. Counted(new')
  <2>1. CASE UNCHANGED new
    BY <2>1 DEF RoundsInv
  <2>2. ASSUME NEW i \in Var, NEW j \in Var, NEW f \in Field, HasField(i, f), Store(i, f, j)
        PROVE  Counted(new')
    <3>1. PICK s \in Nat, k \in Nat, p \in Pointer : FieldIsSet(new, new', s, k, f, p)
      BY <2>2, StoreSets
    <3> QED
      BY <3>1, CountedKept DEF FieldIsSet, RoundsInv
  <2> QED
    BY <2>1, <2>2, <1>1
<1> QED
  BY SMTT(30), <1>1, <1>2, <1>3 DEF RoundsInv, Roundly, HasRoom, Busy

LEMMA AllocRounds ==
  ASSUME HeapInv, RoundsInv, gcalloc
  PROVE  RoundsInv'
<1>1. /\ pc = "alloc" /\ pc' = "run" /\ UNCHANGED rounds
  BY DEF gcalloc, scan
<1>2. PICK n, k, o : Allocated(n, k, o)
  BY AllocAdds
<1>3. n = Len(new) /\ o \in FullObject /\ ObjectIsAdded(new, new', n, k, o)
  BY <1>2 DEF Allocated
<1>4. Counted(new')
  BY <1>3, CountedAdded DEF RoundsInv, HeapInv, GCTypeOK
<1> QED
  BY <1>1, <1>4 DEF RoundsInv, Roundly, HasRoom, Busy

LEMMA GrowCounts ==
  ASSUME HeapInv, RoundsInv, NEW n \in Nat, Grow(n)
  PROVE  Counted(new')
<1>1. PICK size \in Nat : size = Raised(n)
  BY RaisedFacts DEF HeapInv
<1>2. new' = SpaceAdded(new, size) /\ new \in Chain
  BY <1>1 DEF Grow, SpaceAdded, HeapInv, GCTypeOK
<1>3. SpaceIsAdded(new, new', size)
  BY <1>2, AddedSpace
<1> QED
  BY <1>2, <1>3, CountedGrown DEF RoundsInv

LEMMA AllocAgainRounds ==
  ASSUME HeapInv, RoundsInv, gcallocAgain
  PROVE  RoundsInv'
<1>1. /\ pc = "alloc" /\ pc' \in {"alloc", "gc"} /\ UNCHANGED rounds
      /\ UNCHANGED new \/ Grow(Len(want))
  BY DEF gcallocAgain, scan
<1>2. Len(want) \in Nat
  BY DEF HeapInv, GCTypeOK
<1>3. Counted(new')
  BY <1>1, <1>2, GrowCounts DEF RoundsInv
<1> QED
  BY <1>1, <1>3 DEF RoundsInv, Roundly, HasRoom, Busy

\* A round begins: with all to be copied, and with a space that has room for it
\* if it is the second.
LEMMA GcRounds ==
  ASSUME HeapInv, RoundsInv, gc
  PROVE  RoundsInv'
<1>1. pc = "gc" /\ UNCHANGED minspace /\ rounds \in Nat
  BY DEF gc, HeapInv, GCTypeOK
<1>2. CASE gcblocked > 0
  <2>1. pc' = Caller /\ UNCHANGED <<new, old, rounds>> /\ Caller \in {"run", "alloc"}
    BY <1>2 DEF gc, Caller, scan
  <2>2. rounds = 0
    BY <1>1, <1>2 DEF RoundsInv, Roundly
  <2> QED
    BY <2>1, <2>2 DEF RoundsInv, Roundly, HasRoom, Busy
<1>3. CASE ~ (gcblocked > 0)
  <2>1. /\ pc' = "roots" /\ old' = AgedAll(new) /\ new' = <<newspace(minspace)>>
        /\ rounds' = rounds + 1 /\ ~ Busy /\ Busy'
    BY <1>1, <1>3 DEF gc, AgedAll, Busy
  <2>2. PICK m \in Nat \ {0}, L \in Nat : m = minspace /\ L = Live(new)
    BY LiveNat DEF HeapInv, GCTypeOK, LiveData
  <2>3. /\ Len(new') = 1 /\ new'[1].size = m /\ new'[1].current = 0
    BY <2>1, <2>2 DEF newspace
  <2>4. \A s : Used(new', s) = {}
    <3> SUFFICES ASSUME NEW c \in Cell, IsCell(new', c) PROVE FALSE
      BY DEF Used
    <3> QED
      BY <2>1, NothingIn DEF IsCell
  <2>5. Counted(new')
    <3> SUFFICES ASSUME NEW s \in 1 .. 1 PROVE AtMost(Used(new', s), new'[s].current)
      BY <2>3 DEF Counted
    <3>1. s = 1
      OBVIOUS
    <3> QED
      BY <3>1, <2>3, <2>4, AtMostNone
  <2>6. Roundly'
    BY <2>1, <1>1 DEF RoundsInv, Roundly
  <2>7. AtMost(Left(old'), L)
    <3>1. new \in Chain
      BY DEF HeapInv, GCTypeOK
    <3>2. ChainIsAged(new, old')
      BY <3>1, <2>1, AgedChain
    <3> QED
      BY <3>1, <3>2, <2>2, LeftAtFirst DEF RoundsInv
  <2>8. Cardinality(Left(old')) \in Nat
    BY <2>7, FS_CardinalityType DEF AtMost
  <2>9. rounds' = 2 => L <= m
    BY <2>1, <2>2, <1>1 DEF RoundsInv, Roundly, LiveData
  <2>10. HasRoom'
    BY <2>2, <2>3, <2>7, <2>8, <2>9 DEF HasRoom, Roomy, AtMost
  <2> QED
    BY <2>5, <2>6, <2>10 DEF RoundsInv
<1> QED
  BY <1>2, <1>3

LEMMA CopyGrowsRounds ==
  ASSUME HeapInv, RoundsInv, CopyGrows
  PROVE  RoundsInv'
<1>1. PICK p \in Pointer :
        /\ Sound(p) /\ Busy /\ NeedsSpace(p) /\ Grow(Cells(ObjectAt(p)) - 1)
        /\ UNCHANGED <<pc, rounds>>
  <2>1. CASE /\ pc = "roots" /\ at.root <= Len(rootlist)
             /\ NeedsSpace(rootlist[at.root])
             /\ Grow(Cells(ObjectAt(rootlist[at.root])) - 1)
             /\ UNCHANGED <<old, rootlist, gcblocked, want, pc, scan>>
    <3>1. at.root \in 1 .. Len(rootlist)
      BY <2>1 DEF HeapInv, GCTypeOK, AtType, Pos
    <3>2. rootlist[at.root] \in Pointer /\ Sound(rootlist[at.root])
      BY <3>1, RootThere DEF HeapInv, RootsSound
    <3> QED
      BY <2>1, <3>2 DEF Busy, scan
  <2>2. CASE /\ pc = "space" /\ Scanning
             /\ NeedsSpace(Here)
             /\ Grow(Cells(ObjectAt(Here)) - 1)
             /\ UNCHANGED <<old, rootlist, gcblocked, want, pc, scan>>
    <3>1. /\ In(new, at.space, at.obj)
          /\ at.field \in 1 .. Len(Obj(new, at.space, at.obj).fields)
          /\ at.space \in Nat /\ at.obj \in Nat /\ at.field \in Nat
          /\ new \in Chain
      BY <2>2, ScanningIn DEF HeapInv, GCTypeOK
    <3>2. Here \in Pointer /\ Sound(Here)
      BY <3>1, FieldThere DEF HeapInv, NewSound, Here, Obj
    <3> QED
      BY <2>2, <3>2 DEF Busy, scan
  <2> QED
    BY <2>1, <2>2 DEF CopyGrows
<1>2. Cells(ObjectAt(p)) - 1 \in Nat
  BY <1>1, MovesThere DEF NeedsSpace
<1>3. Counted(new')
  BY <1>1, <1>2, GrowCounts
<1>4. rounds # 2
  BY <1>1, SecondFits DEF RoundsInv, HasRoom
<1> QED
  BY <1>1, <1>3, <1>4 DEF RoundsInv, Roundly, HasRoom, Busy

\* The steps of a round that copy nothing, or forward a pointer.
LEMMA ScanRounds ==
  ASSUME HeapInv, RoundsInv,
         scanroots \/ StartPass \/ scanspace \/ NextSpace \/ EndPass
  PROVE  RoundsInv'
<1>1. CASE UNCHANGED <<new, old>> /\ Busy /\ Busy' /\ UNCHANGED rounds
  BY <1>1 DEF RoundsInv, Roundly, HasRoom, Busy
<1>2. ASSUME NEW p \in Pointer, NEW ns, Sound(p), SameShape(new, ns), forward(p, ns),
             Busy, Busy', UNCHANGED rounds
      PROVE  RoundsInv'
  <2>1. /\ Counted(new')
        /\ Roomy(new, Left(old)) => Roomy(new', Left(old'))
    BY <1>2, ForwardCounts DEF RoundsInv
  <2> QED
    BY <2>1, <1>2 DEF RoundsInv, Roundly, HasRoom, Busy
<1>3. CASE scanroots /\ at.root > Len(rootlist)
  BY <1>1, <1>3 DEF scanroots, Busy
<1>4. CASE scanroots /\ ~ (at.root > Len(rootlist))
  <2>1. at.root \in 1 .. Len(rootlist)
    BY <1>4 DEF HeapInv, GCTypeOK, AtType, Pos
  <2>2. rootlist[at.root] \in Pointer /\ Sound(rootlist[at.root])
    BY <2>1, RootThere DEF HeapInv, RootsSound
  <2>3. /\ forward(rootlist[at.root], new) /\ Busy /\ Busy' /\ UNCHANGED rounds
    BY <1>4 DEF scanroots, Busy
  <2> QED
    BY <2>2, <2>3, <1>2, SameShapeSelf DEF HeapInv
<1>5. CASE StartPass \/ NextSpace \/ EndPass
  BY SMTT(30), <1>1, <1>5 DEF StartPass, NextSpace, EndPass, Busy
<1>6. CASE scanspace
  <2>1. PICK ns \in Chain :
          /\ ns = [new EXCEPT ![at.space].objs[at.obj].fields[at.field] = Forwarded(Here)]
          /\ SameShape(new, ns) /\ Here \in Pointer /\ Sound(Here) /\ forward(Here, ns)
    <3>1. /\ pc = "space" /\ Scanning
          /\ forward(Here, [new EXCEPT ![at.space].objs[at.obj].fields[at.field] =
                              Forwarded(Here)])
      BY <1>6 DEF scanspace
    <3>2. /\ In(new, at.space, at.obj)
          /\ at.field \in 1 .. Len(Obj(new, at.space, at.obj).fields)
          /\ at.space \in Nat /\ at.obj \in Nat /\ at.field \in Nat
          /\ new \in Chain /\ new # << >>
      BY <3>1, ScanningIn DEF HeapInv, GCTypeOK
    <3>3. Here \in Pointer /\ Sound(Here)
      BY <3>2, FieldThere DEF HeapInv, NewSound, Here, Obj
    <3>4. Forwarded(Here) \in Pointer
      BY <3>1, <3>3, ForwardedPointer DEF Busy
    <3>5. PICK ns : ns = FieldSet(new, at.space, at.obj, at.field, Forwarded(Here))
      OBVIOUS
    <3>6. FieldIsSet(new, ns, at.space, at.obj, at.field, Forwarded(Here))
      BY <3>2, <3>4, <3>5, ReplacedField
    <3>7. SameShape(new, ns)
      <4>1. Len(new) # 0 /\ ns # << >>
        BY <3>2, <3>6, EmptySeq DEF FieldIsSet, Chain
      <4> QED
        BY <4>1, <3>6 DEF FieldIsSet, SameShape
    <3> QED
      BY <3>1, <3>3, <3>5, <3>6, <3>7 DEF FieldSet, FieldIsSet
  <2>2. Busy /\ Busy' /\ UNCHANGED rounds
    BY <1>6 DEF scanspace, Busy
  <2> QED
    BY SMTT(30), <2>1, <2>2, <1>2
<1> QED
  BY <1>3, <1>4, <1>5, <1>6

LEMMA EndRounds ==
  ASSUME HeapInv, RoundsInv, EndRound
  PROVE  RoundsInv'
<1>1. /\ pc = "adjust" /\ Busy /\ ~ Busy' /\ UNCHANGED new /\ minspace' = Adjusted(minspace)
      /\ gcblocked' = gcblocked - 1 /\ pc' = IF Len(new) > 1 THEN "gc" ELSE Caller
      /\ rounds' = IF Len(new) > 1 THEN rounds ELSE 0
  BY DEF EndRound, Busy, Caller
<1>2. Caller \in {"run", "alloc"} /\ gcblocked = 1
  BY <1>1 DEF Caller, HeapInv, Control
<1>3. rounds \in {1, 2} /\ (rounds = 2 => Len(new) = 1)
  BY <1>1 DEF RoundsInv, Roundly, HasRoom, Roomy
<1>4. /\ Adjusted(minspace) \in Nat /\ Adjusted(minspace) >= LiveData * 2
      /\ LiveData \in Nat /\ LiveData' = LiveData
  BY <1>1, AdjustedFacts, LiveNat DEF HeapInv, LiveData
<1>5. LiveData' <= minspace'
  BY <1>1, <1>4
<1>6. Roundly'
  <2>1. CASE Len(new) > 1
    <3>1. pc' = "gc" /\ rounds' = rounds
      BY <2>1, <1>1
    <3>2. rounds # 2
      <4>1. ASSUME rounds = 2 PROVE FALSE
        <5>1. PICK n \in Nat : n = Len(new) /\ n > 1
          BY <2>1 DEF HeapInv, GCTypeOK, Chain
        <5>2. rounds = 2 => Len(new) = 1
          BY <1>3
        <5>3. Len(new) = 1
          BY <4>1, <5>2
        <5> QED
          BY <5>1, <5>3
      <4> QED
        BY <4>1
    <3>3. rounds' = 1 /\ gcblocked' = 0
      BY <3>1, <3>2, <1>1, <1>2, <1>3
    <3> QED
      BY <3>1, <3>3, <1>5 DEF Roundly, Busy
  <2>2. CASE ~ (Len(new) > 1)
    <3>1. pc' \in {"run", "alloc"} /\ rounds' = 0
      BY <2>2, <1>1, <1>2
    <3> QED
      BY <3>1 DEF Roundly, Busy
  <2> QED
    BY <2>1, <2>2
<1> QED
  BY <1>1, <1>6 DEF RoundsInv, HasRoom

LEMMA StepRounds ==
  ASSUME HeapInv, RoundsInv, [Next]_vars
  PROVE  RoundsInv'
<1>1. CASE UNCHANGED vars
  BY <1>1 DEF RoundsInv, Roundly, HasRoom, Busy, LiveData, vars, scan
<1> QED
  BY <1>1, ProgramRounds, AllocRounds, AllocAgainRounds, GcRounds, CopyGrowsRounds,
     ScanRounds, EndRounds
     DEF Next, Collecting

\* A collection never takes a third round: after the first, the size of the
\* next space is such that all that is in use fits into one.
\* (gc.c: gc, the size of the next space)
THEOREM TwoRoundsSuffice == Spec => []SecondRoundSuffices
<1>1. HeapInv /\ RoundsInv => SecondRoundSuffices
  <2> SUFFICES ASSUME HeapInv, RoundsInv PROVE rounds <= 2
    BY DEF SecondRoundSuffices
  <2>1. pc \in {"run", "alloc", "gc"} \/ Busy
    BY DEF HeapInv, GCTypeOK, PC, Busy
  <2> QED
    BY <2>1 DEF RoundsInv, Roundly
<1> QED
  BY <1>1, RoundsInit, StepRounds, HeapAlways, PTL DEF Spec
=============================================================================
