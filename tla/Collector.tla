------------------------------ MODULE Collector -----------------------------
(***************************************************************************)
(* The copying garbage collector (gc.c).  Objects are allocated in the     *)
(* front of a chain of spaces; a collection copies what the registered     *)
(* variables reach into new spaces, forwarding one pointer at a time, and  *)
(* frees the old ones.                                                     *)
(*                                                                         *)
(* Sizes are in cells, and a cell holds a tag or a pointer.  An object has *)
(* data, which its copy method copies, and fields, which its scan method   *)
(* forwards.  What is not registered is not in the model: the code may     *)
(* hold it only while collections are disabled or until it allocates.      *)
(***************************************************************************)
EXTENDS Naturals, Sequences, FiniteSets, SequencesExt

CONSTANTS
  Data,          \* the contents that tell objects apart
  Sizes,         \* the numbers of pointers an object may hold
  Reserves,      \* what gcreserve is asked for
  MIN_minspace,  \* the size of the first space
  MaxRoots,      \* bound on the registered variables
  MaxBlock,      \* bound on the nesting of gcdisable by the program
  MaxSpaces      \* bound on the chain grown while collections are disabled

ASSUME CollectorAssumption ==
  /\ Data \subseteq Nat \ {0} /\ IsFiniteSet(Data)
  /\ Sizes \subseteq Nat \ {0}
  /\ Reserves \subseteq Nat
  /\ MIN_minspace \in Nat \ {0}
  /\ MaxRoots \in Nat /\ MaxBlock \in Nat /\ MaxSpaces \in Nat \ {0}

VARIABLES
  new,        \* the chain of spaces, front last
  old,        \* the chain being collected, empty otherwise
  minspace,   \* the size of the next space
  rootlist,   \* the registered variables' pointers, newest last
  gcblocked,  \* collections are disabled so many times
  want,       \* gcalloc's request: where the fields will be set from
  pc,         \* where the collector is, "run" outside it
  at,         \* how far scanroots and scanspace have come
  rounds      \* of the loop of gc(), in the present call

vars == <<new, old, minspace, rootlist, gcblocked, want, pc, at, rounds>>
scan == <<at, rounds>>

Null == [old |-> FALSE, space |-> 0, obj |-> 0]
\* Any address in memory that was freed.
Stale == [old |-> TRUE, space |-> 0, obj |-> 0]
Pointer == [old : BOOLEAN, space : Nat, obj : Nat]
Object == [data : Data, fields : Seq(Pointer), moved : Pointer]
Start == [root |-> 1, scanned |-> 0, front |-> 0, space |-> 0, obj |-> 1, field |-> 1]
\* Where gc() returns to.
Caller == IF want = << >> THEN "run" ELSE "alloc"
PC == {"run", "alloc", "gc", "roots", "pass", "space", "adjust"}

\* A space is used up to current.
newspace(size) == [size |-> size, current |-> 0, objs |-> << >>]
Cells(o) == 1 + Len(o.fields)
Free(sp) == sp.size - sp.current
With(sp, o) ==
  [size |-> sp.size, current |-> sp.current + Cells(o), objs |-> Append(sp.objs, o)]

Init ==
  /\ new = <<newspace(MIN_minspace)>>
  /\ old = << >>
  /\ minspace = MIN_minspace
  /\ rootlist = << >>
  /\ gcblocked = 0
  /\ want = << >>
  /\ pc = "run"
  /\ at = Start
  /\ rounds = 0

-----------------------------------------------------------------------------
(* Objects and their addresses.                                            *)

Spaces(p) == IF p.old THEN old ELSE new
IsObject(p) ==
  /\ p.space \in 1 .. Len(Spaces(p))
  /\ p.obj \in 1 .. Len(Spaces(p)[p.space].objs)
ObjectAt(p) == Spaces(p)[p.space].objs[p.obj]

\* isinspace(old, p)
InOld(p) == p.old /\ p # Stale

Fits(n) == n <= Free(Last(new))
Place == [old |-> FALSE, space |-> Len(new), obj |-> Len(Last(new).objs) + 1]
Put(o) == new' = [new EXCEPT ![Len(new)] = With(@, o)]

\* The loop of gcalloc for n - 1 pointers: where the object does not fit.
Raised(nbytes) == IF minspace < nbytes THEN nbytes + 1 ELSE minspace
Grow(nbytes) ==
  /\ minspace' = Raised(nbytes)
  /\ new' = Append(new, newspace(Raised(nbytes)))

-----------------------------------------------------------------------------
(* The program: it sees no address but through registered variables.       *)

Running == pc = "run"
Var == 1 .. Len(rootlist)
InUse == {o.data : o \in UNION {ToSet(new[s].objs) : s \in 1 .. Len(new)}}

\* gcalloc() is called; the fields will be set from registered variables, 0
\* standing for NULL, and the result will be registered.
Allocate(from) ==
  /\ Running
  /\ Len(rootlist) < MaxRoots
  /\ Data \ InUse # {}
  /\ want' = from
  /\ pc' = "alloc"
  /\ UNCHANGED <<new, old, minspace, rootlist, gcblocked, scan>>

\* There is room in the front space.  Which unused name the new object gets
\* makes no difference: the least.
gcalloc ==
  /\ pc = "alloc"
  /\ Fits(Len(want) + 1)
  /\ \E d \in Data \ InUse :
       /\ \A e \in Data \ InUse : d <= e
       /\ Put([data |-> d, moved |-> Null,
               fields |-> [f \in 1 .. Len(want) |->
                             IF want[f] = 0 THEN Null ELSE rootlist[want[f]]]])
  /\ rootlist' = Append(rootlist, Place)
  /\ want' = << >>
  /\ pc' = "run"
  /\ UNCHANGED <<old, minspace, gcblocked, scan>>

\* There is none: another space if collections are disabled, else gc().
gcallocAgain ==
  /\ pc = "alloc"
  /\ ~ Fits(Len(want) + 1)
  /\ IF gcblocked > 0
     THEN /\ Len(new) < MaxSpaces
          /\ Grow(Len(want))
          /\ UNCHANGED pc
     ELSE /\ minspace' = Raised(Len(want))
          /\ pc' = "gc"
          /\ UNCHANGED new
  /\ UNCHANGED <<old, rootlist, gcblocked, want, scan>>

\* Ref and RefAdd, RefEnd and RefRemove
Ref(i) ==
  /\ Running
  /\ Len(rootlist) < MaxRoots
  /\ rootlist' = Append(rootlist, rootlist[i])
  /\ UNCHANGED <<new, old, minspace, gcblocked, want, pc, scan>>

RefEnd ==
  /\ Running
  /\ rootlist # << >>
  /\ rootlist' = Front(rootlist)
  /\ UNCHANGED <<new, old, minspace, gcblocked, want, pc, scan>>

\* What the program does with a pointer to memory that was freed is undefined,
\* and not in the model.
HasField(i, f) ==
  IsObject(rootlist[i]) /\ f \in 1 .. Len(ObjectAt(rootlist[i]).fields)

\* p = p->field
Load(i, f) ==
  /\ Running
  /\ HasField(i, f)
  /\ rootlist' = [rootlist EXCEPT ![i] = ObjectAt(@).fields[f]]
  /\ UNCHANGED <<new, old, minspace, gcblocked, want, pc, scan>>

\* p->field = q
Store(i, f, j) ==
  /\ Running
  /\ HasField(i, f)
  /\ LET p == rootlist[i]
     IN new' = [new EXCEPT ![p.space].objs[p.obj].fields[f] = rootlist[j]]
  /\ UNCHANGED <<old, minspace, rootlist, gcblocked, want, pc, scan>>

gcdisable ==
  /\ Running
  /\ gcblocked < MaxBlock
  /\ gcblocked' = gcblocked + 1
  /\ UNCHANGED <<new, old, minspace, rootlist, want, pc, scan>>

gcenable ==
  /\ Running
  /\ gcblocked > 0
  /\ gcblocked' = gcblocked - 1
  /\ pc' = IF gcblocked = 1 /\ Len(new) > 1 THEN "gc" ELSE "run"
  /\ UNCHANGED <<new, old, minspace, rootlist, want, scan>>

gcreserve(minfree) ==
  /\ Running
  /\ Free(Last(new)) < minfree
  /\ minspace' = IF minspace < minfree THEN minfree ELSE minspace
  /\ pc' = "gc"
  /\ UNCHANGED <<new, old, rootlist, gcblocked, want, scan>>

\* $&collect
collect ==
  /\ Running
  /\ pc' = "gc"
  /\ UNCHANGED <<new, old, minspace, rootlist, gcblocked, want, scan>>

-----------------------------------------------------------------------------
(* forward(p): p itself outside old space, the copy of an object that has  *)
(* been moved, or a new copy, whose place in the old space remembers it.   *)

Moves(p) == InOld(p) /\ ObjectAt(p).moved = Null

\* Mutant: an object that was moved before is taken to be the last one moved.
ForwardedLast(p) ==
  IF ~ InOld(p) THEN p
  ELSE IF Moves(p) THEN Place ELSE [Place EXCEPT !.obj = @ - 1]

Forwarded(p) ==
  IF ~ InOld(p) THEN p ELSE IF Moves(p) THEN Place ELSE ObjectAt(p).moved

\* Mutant: the old object does not remember that it was moved.
forwardAgain(p, newspaces) ==
  IF Moves(p)
  THEN /\ Fits(Cells(ObjectAt(p)))
       /\ new' = [newspaces EXCEPT ![Len(new)] = With(@, ObjectAt(p))]
       /\ UNCHANGED old
  ELSE new' = newspaces /\ UNCHANGED old

\* newspaces is new, with the pointer that is forwarded already changed.
forward(p, newspaces) ==
  IF Moves(p)
  THEN /\ Fits(Cells(ObjectAt(p)))
       /\ new' = [newspaces EXCEPT ![Len(new)] = With(@, ObjectAt(p))]
       /\ old' = [old EXCEPT ![p.space].objs[p.obj].moved = Place]
  ELSE new' = newspaces /\ UNCHANGED old

\* The copy does not fit: gcalloc, collections being disabled, grows new.
NeedsSpace(p) == Moves(p) /\ ~ Fits(Cells(ObjectAt(p)))

-----------------------------------------------------------------------------
(* gc()                                                                    *)

\* new becomes old: the model marks the addresses in it as such.
Aged(p) ==
  IF p = Null THEN Null ELSE IF p.old THEN Stale ELSE [p EXCEPT !.old = TRUE]
AgedObject(o) == [o EXCEPT !.fields = [f \in DOMAIN o.fields |-> Aged(o.fields[f])]]
AgedSpace(sp) == [sp EXCEPT !.objs = [i \in DOMAIN sp.objs |-> AgedObject(sp.objs[i])]]

\* Mutant: it collects although collections are disabled.
gcAnyway ==
  /\ pc = "gc"
  /\ gcblocked' = gcblocked + 1
  /\ old' = [s \in DOMAIN new |-> AgedSpace(new[s])]
  /\ rootlist' = [i \in Var |-> Aged(rootlist[i])]
  /\ new' = <<newspace(minspace)>>
  /\ pc' = "roots"
  /\ at' = Start
  /\ rounds' = rounds + 1
  /\ UNCHANGED <<minspace, want>>

\* One round of its loop begins, or it does nothing.
gc ==
  /\ pc = "gc"
  /\ IF gcblocked > 0
     THEN /\ pc' = Caller
          /\ UNCHANGED <<new, old, rootlist, gcblocked, scan>>
     ELSE /\ gcblocked' = 1
          /\ old' = [s \in DOMAIN new |-> AgedSpace(new[s])]
          /\ rootlist' = [i \in Var |-> Aged(rootlist[i])]
          /\ new' = <<newspace(minspace)>>
          /\ pc' = "roots"
          /\ at' = Start
          /\ rounds' = rounds + 1
  /\ UNCHANGED <<minspace, want>>

scanroots ==
  /\ pc = "roots"
  /\ IF at.root > Len(rootlist)
     THEN /\ pc' = "pass"
          /\ UNCHANGED <<new, old, rootlist, at>>
     ELSE LET p == rootlist[at.root]
          IN /\ forward(p, new)
             /\ rootlist' = [rootlist EXCEPT ![at.root] = Forwarded(p)]
             /\ at' = [at EXCEPT !.root = @ + 1]
             /\ UNCHANGED pc
  /\ UNCHANGED <<minspace, gcblocked, want, rounds>>

\* The pointer scanspace is at, and its place in the scan order.
Scanning == at.space > at.scanned /\ at.obj <= Len(new[at.space].objs)
Here == new[at.space].objs[at.obj].fields[at.field]
NextField ==
  IF at.field < Len(new[at.space].objs[at.obj].fields)
  THEN [at EXCEPT !.field = @ + 1]
  ELSE [at EXCEPT !.obj = @ + 1, !.field = 1]

\* A pass goes over the spaces from the front to the last one scanned.
StartPass ==
  /\ pc = "pass"
  /\ at' = [at EXCEPT !.front = Len(new), !.space = Len(new), !.obj = 1, !.field = 1]
  /\ pc' = "space"
  /\ UNCHANGED <<new, old, minspace, rootlist, gcblocked, want, rounds>>

scanspace ==
  /\ pc = "space"
  /\ Scanning
  /\ forward(Here, [new EXCEPT ![at.space].objs[at.obj].fields[at.field] =
                      Forwarded(Here)])
  /\ at' = NextField
  /\ UNCHANGED <<minspace, rootlist, gcblocked, want, pc, rounds>>

\* A whole space is scanned, and then a pass.
NextSpace ==
  /\ pc = "space"
  /\ at.space > at.scanned
  /\ ~ Scanning
  /\ at' = [at EXCEPT !.space = @ - 1, !.obj = 1, !.field = 1]
  /\ UNCHANGED <<new, old, minspace, rootlist, gcblocked, want, pc, rounds>>

\* Mutant: there is never a second pass.
EndPassOnce ==
  /\ pc = "space"
  /\ at.space = at.scanned
  /\ pc' = "adjust"
  /\ at' = at
  /\ UNCHANGED <<new, old, minspace, rootlist, gcblocked, want, rounds>>

EndPass ==
  /\ pc = "space"
  /\ at.space = at.scanned
  /\ IF Len(new) = at.front
     THEN pc' = "adjust" /\ UNCHANGED at
     ELSE pc' = "pass" /\ at' = [at EXCEPT !.scanned = at.front]
  /\ UNCHANGED <<new, old, minspace, rootlist, gcblocked, want, rounds>>

CopyGrows ==
  \/ /\ pc = "roots" /\ at.root <= Len(rootlist)
     /\ NeedsSpace(rootlist[at.root])
     /\ Grow(Cells(ObjectAt(rootlist[at.root])) - 1)
     /\ UNCHANGED <<old, rootlist, gcblocked, want, pc, scan>>
  \/ /\ pc = "space" /\ Scanning
     /\ NeedsSpace(Here)
     /\ Grow(Cells(ObjectAt(Here)) - 1)
     /\ UNCHANGED <<old, rootlist, gcblocked, want, pc, scan>>

\* deprecate(old), and the size of the spaces to come.
Live(ch) ==
  LET live[n \in 0 .. Len(ch)] ==
        IF n = 0 THEN 0 ELSE live[n - 1] + ch[n].current
  IN live[Len(ch)]
LiveData == Live(new)

\* Mutant: the spaces do not grow with the data.
AdjustedNever(size) == size

Adjusted(size) ==
  IF size < LiveData * 2 THEN LiveData * 4
  ELSE IF size > LiveData * 12 /\ size > MIN_minspace * 2 THEN size \div 2
  ELSE size

EndRound ==
  /\ pc = "adjust"
  /\ old' = << >>
  /\ minspace' = Adjusted(minspace)
  /\ gcblocked' = gcblocked - 1
  /\ pc' = IF Len(new) > 1 THEN "gc" ELSE Caller
  /\ at' = Start
  /\ rounds' = IF Len(new) > 1 THEN rounds ELSE 0
  /\ UNCHANGED <<new, rootlist, want>>

-----------------------------------------------------------------------------
Field == UNION {1 .. k : k \in Sizes}

Program ==
  \/ \E k \in Sizes : \E from \in [1 .. k -> {0} \cup Var] : Allocate(from)
  \/ \E i \in Var : Ref(i)
  \/ RefEnd
  \/ \E i, j \in Var, f \in Field : HasField(i, f) /\ Store(i, f, j)
  \/ \E i \in Var, f \in Field : Load(i, f)
  \/ gcdisable
  \/ gcenable
  \/ \E n \in Reserves : gcreserve(n)
  \/ collect

Collecting ==
  \/ gc \/ scanroots \/ StartPass \/ scanspace \/ NextSpace \/ EndPass
  \/ CopyGrows \/ EndRound

Next == Program \/ gcalloc \/ gcallocAgain \/ Collecting

Spec == Init /\ [][Next]_vars

\* Nothing interrupts gcalloc() or gc().
FairSpec == Spec /\ WF_vars(gcalloc \/ gcallocAgain \/ Collecting)
=============================================================================
