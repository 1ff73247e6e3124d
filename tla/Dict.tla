-------------------------------- MODULE Dict --------------------------------
(***************************************************************************)
(* Dictionaries (dict.c): the variables of es, and its primitives, by      *)
(* name.  A hash table with linear probing, whose entries are marked DEAD  *)
(* when they are removed, and which is doubled before it fills up.         *)
(*                                                                         *)
(* Growing puts the entries of the old table into a new one, one by one;   *)
(* nobody looks anything up until it is done.                              *)
(***************************************************************************)
EXTENDS Naturals, FiniteSets

CONSTANTS
  Key,       \* names of entries
  Datum,     \* what is put there
  NULL,      \* the null pointer
  DEAD,      \* the name of a removed entry
  HashValue, \* what strhash may return
  MaxSize    \* bound on the size of the table

ASSUME DictAssumption ==
  /\ NULL \notin Key \cup Datum
  /\ DEAD \notin Key \cup {NULL}
  /\ HashValue \subseteq Nat

VARIABLES
  hash,      \* the hash function; it never changes
  size, table, remain,   \* the Dict
  pending,   \* while it grows: the entry to be put after the old ones
  old, next, \* the old table, and the next slot of it to be moved
  contents   \* history: what has been put and not removed

dictvars == <<hash, size, table, remain, pending, old, next, contents>>

INIT_DICT_SIZE == 2
REMAIN(n) == (n * 2) \div 3
GROW(n) == n * 2

Assoc == [name : Key \cup {NULL, DEAD}, value : Datum \cup {NULL}]
Empty == [name |-> NULL, value |-> NULL]
NoEntry == [name |-> DEAD, value |-> NULL]
mkdict0(n) == [i \in 0 .. n - 1 |-> Empty]

DictInit ==
  /\ hash \in [Key -> HashValue]
  /\ size = INIT_DICT_SIZE
  /\ table = mkdict0(INIT_DICT_SIZE)
  /\ remain = REMAIN(INIT_DICT_SIZE)
  /\ pending = NoEntry
  /\ old = << >>
  /\ next = 0
  /\ contents = [n \in Key |-> NULL]

-----------------------------------------------------------------------------
(* Probing: the slots of a name, in the order they are looked at.          *)

Slot(n, k) == (hash[n] + k) % size
Slots == 0 .. size - 1

\* The first slot on the way of n that is one of these; the loops of dict.c
\* do not end if there is none.
Reaches(n, names) == \E k \in Slots : table[Slot(n, k)].name \in names
FirstSlot(n, names) ==
  Slot(n, CHOOSE k \in Slots :
            /\ table[Slot(n, k)].name \in names
            /\ \A j \in 0 .. k - 1 : table[Slot(n, j)].name \notin names)

\* get(): the slot that holds n, or the empty one that ends the search.
get(n) == FirstSlot(n, {n, NULL})
Has(n) == table[get(n)].name = n
dictget(n) == table[get(n)].value

-----------------------------------------------------------------------------
\* The end of put(): the first slot that is dead or empty takes the entry.
Put(n, v) ==
  LET s == FirstSlot(n, {NULL, DEAD})
  IN /\ table' = [table EXCEPT ![s] = [name |-> n, value |-> v]]
     /\ remain' = IF table[s].name = NULL THEN remain - 1 ELSE remain

Idle == pending = NoEntry
Remember(n, v) == contents' = [contents EXCEPT ![n] = v]

\* dictput() of a name that is there: ap->value = value
Overwrite(n, v) ==
  /\ Idle
  /\ Has(n)
  /\ table' = [table EXCEPT ![get(n)].value = v]
  /\ Remember(n, v)
  /\ UNCHANGED <<hash, size, remain, pending, old, next>>

\* dictput() of a name that is not: put(), while there is room
Insert(n, v) ==
  /\ Idle
  /\ ~ Has(n)
  /\ remain > 1
  /\ Put(n, v)
  /\ Remember(n, v)
  /\ UNCHANGED <<hash, size, pending, old, next>>

\* put(), when there is not: mkdict0(GROW(old->size)) ...
Grow(n, v) ==
  /\ Idle
  /\ ~ Has(n)
  /\ remain <= 1
  /\ GROW(size) <= MaxSize
  /\ size' = GROW(size)
  /\ table' = mkdict0(GROW(size))
  /\ remain' = REMAIN(GROW(size))
  /\ pending' = [name |-> n, value |-> v]
  /\ old' = table
  /\ next' = 0
  /\ Remember(n, v)
  /\ UNCHANGED hash

\* ... dictforall(old, put, new) ...
Move ==
  /\ ~ Idle
  /\ next \in DOMAIN old
  /\ IF old[next].name \in Key
     THEN Put(old[next].name, old[next].value)
     ELSE UNCHANGED <<table, remain>>
  /\ next' = next + 1
  /\ UNCHANGED <<hash, size, pending, old, contents>>

\* ... and then the entry itself.
Finish ==
  /\ ~ Idle
  /\ next \notin DOMAIN old
  /\ Put(pending.name, pending.value)
  /\ pending' = NoEntry
  /\ old' = << >>
  /\ next' = 0
  /\ UNCHANGED <<hash, size, contents>>

-----------------------------------------------------------------------------
\* The slots before s, back to the nearest one that is not dead.
DeadRun(t, s) ==
  {(s + size - k) % size :
     k \in {i \in 1 .. size : \A j \in 1 .. i : t[(s + size - j) % size].name = DEAD}}

\* The slot after s, and after the dead ones that follow it.
AfterDead(t, s) ==
  (s + CHOOSE k \in 1 .. size :
         /\ t[(s + k) % size].name # DEAD
         /\ \A j \in 1 .. k - 1 : t[(s + j) % size].name = DEAD) % size

\* Mutant: the removed entry's slot becomes empty whatever follows.
removedEmpty(s) ==
  /\ table' = [table EXCEPT ![s] = Empty]
  /\ remain' = remain + 1

\* The end of rm(): the slot becomes dead; dead slots that only lead to an
\* empty one become empty.
removed(s) ==
  LET marked == [table EXCEPT ![s] = [name |-> DEAD, value |-> NULL]]
      after == AfterDead(marked, s)
      emptied == DeadRun(marked, after)
  IN IF marked[after].name # NULL
     THEN table' = marked /\ UNCHANGED remain
     ELSE /\ table' = [i \in Slots |-> IF i \in emptied THEN Empty ELSE marked[i]]
          /\ remain' = remain + Cardinality(emptied)

\* rm(), for dictput() of NULL
rm(n) ==
  /\ Idle
  /\ Has(n)
  /\ removed(get(n))
  /\ Remember(n, NULL)
  /\ UNCHANGED <<hash, size, pending, old, next>>

-----------------------------------------------------------------------------
DictNext ==
  \/ \E n \in Key, v \in Datum : Overwrite(n, v) \/ Insert(n, v) \/ Grow(n, v)
  \/ Move
  \/ Finish
  \/ \E n \in Key : rm(n)

DictSpec == DictInit /\ [][DictNext]_dictvars

-----------------------------------------------------------------------------
DictTypeOK ==
  /\ hash \in [Key -> HashValue]
  /\ size \in Nat \ {0}
  /\ table \in [Slots -> Assoc]
  /\ remain \in Nat
  /\ pending \in Assoc
  /\ next \in Nat
  /\ contents \in [Key -> Datum \cup {NULL}]

Vacant == {i \in Slots : table[i].name = NULL}

\* Every search comes to an end: an empty slot remains, and remain says how
\* many may still be filled. (dict.c: get, put, rm)
SearchesEnd ==
  /\ Vacant # {}
  /\ remain + Cardinality(Slots \ Vacant) = REMAIN(size)

\* The table that the entries are moved to is not itself full before they are:
\* put() would give up on it for another, that nobody keeps. (dict.c: put)
GrowthFits ==
  (~ Idle /\ next \in DOMAIN old /\ old[next].name \in Key) => remain > 1

\* What was put and not removed is found, and nothing else, however the
\* names collide and whatever was removed in between or moved to a larger
\* table. (dict.c: dictget, dictput)
LookupsAgree == Idle => \A n \in Key : dictget(n) = contents[n]

\* Dictionaries find what was put, what was not is searched for to an end, and
\* a new table holds what the old one did. (dict.c: get, put, rm)
DictionariesAgree == DictTypeOK /\ SearchesEnd /\ GrowthFits /\ LookupsAgree
=============================================================================
