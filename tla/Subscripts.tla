----------------------------- MODULE Subscripts -----------------------------
(***************************************************************************)
(* Subscripting a list (subscript of glom.c), one subscript or range after *)
(* the other.  The list is 1, 2, ... len.  The loop keeps its place in the *)
(* list from one subscript to the next, to go on from there.               *)
(***************************************************************************)
EXTENDS Naturals, Sequences, SequencesExt

CONSTANTS
  MaxLen,     \* bound on the list
  MaxSubs,    \* bound on the subscripts; each is at most MaxLen + 1
  NoRange     \* a subscript that is no range

ASSUME SubscriptsAssumption == MaxLen \in Nat /\ MaxSubs \in Nat /\ NoRange \notin Nat

VARIABLES
  len,
  counter,      \* the place in the list
  rev,          \* a range was in reverse
  subscripted,  \* the result so far
  badsub,       \* it has failed: "bad subscript"
  described,    \* history: what the manual says it is
  subs          \* history: how many subscripts there were

subvars == <<len, counter, rev, subscripted, badsub, described, subs>>

\* A word that is no number is 0, and so here is a number below it.
Sub == 0 .. MaxLen + 1

SubscriptsInit ==
  /\ len \in 0 .. MaxLen
  /\ counter = 1
  /\ rev = FALSE
  /\ subscripted = << >> /\ described = << >>
  /\ badsub = FALSE
  /\ subs = 0

Span(lo, hi) == [i \in 1 .. (IF lo <= hi THEN hi - lo + 1 ELSE 0) |-> lo + i - 1]

\* Mutant: the place in the list is only kept if it is passed by two.
RestartLate(lo) == IF counter > lo + 1 THEN 1 ELSE counter

Restart(lo) == IF counter > lo THEN 1 ELSE counter

\* The body of the loop once lo and hi are known.
Take(lo, hi) ==
  LET from == Restart(lo)
      l == IF lo > hi THEN hi ELSE lo
      h == IF lo > hi THEN lo ELSE hi
      first == IF from < l THEN l ELSE from
      span == Span(first, h)
  IN /\ rev' = (rev \/ lo > hi)
     /\ subscripted' = subscripted \o (IF rev' THEN Reverse(span) ELSE span)
     /\ counter' = first + Len(span)

\* $list(lo), $list(lo ... hi)
subscript(lo, hi) ==
  /\ ~ badsub /\ subs < MaxSubs
  /\ subs' = subs + 1
  /\ badsub' = (0 \in {lo, hi})
  /\ UNCHANGED len
  /\ LET end == IF hi = NoRange THEN lo ELSE IF hi > len THEN len ELSE hi
     IN IF badsub' \/ lo > len THEN UNCHANGED <<counter, rev, subscripted, described>>
        ELSE /\ Take(lo, end)
             /\ described' = described \o
                  (IF lo <= end THEN Span(lo, end) ELSE Reverse(Span(end, lo)))

\* $list(... hi) starts from 1, $list(lo ...) goes to the end; they are first
\* and last, which nothing here depends on.
SubscriptsNext == \E lo \in Sub, hi \in Sub \cup {NoRange} : subscript(lo, hi)

SubscriptsSpec == SubscriptsInit /\ [][SubscriptsNext]_subvars

-----------------------------------------------------------------------------
\* Subscripts select what they name, in their order, until a range is in
\* reverse. (es.1: "refer to all the elements between lo and hi"; glom.c)
SubscriptsAsDescribed == ~ rev => subscripted = described

\* Also when some are, and after it. (es.1: "Ranges given as hi ... lo refer
\* to the range in reverse order")
RangesAsDescribed == subscripted = described
=============================================================================
