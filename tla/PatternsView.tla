---------------------------- MODULE PatternsView ----------------------------
(***************************************************************************)
(* What the manual says patterns mean, and that match.c agrees.            *)
(***************************************************************************)
EXTENDS Patterns

CONSTANT Words   \* the subjects that patterns are tried on

\* A pattern as a sequence of items: characters that stand for themselves,
\* wildcards for any word, any character, or one of a class.  An item is what
\* it is for and the words it matches among those of one character.
AllChars == 1 .. 255
Literal(c) == [kind |-> "literal", set |-> {c}]
Star == [kind |-> "star", set |-> AllChars]
Query == [kind |-> "wild", set |-> AllChars]
Class(S) == [kind |-> "wild", set |-> S]

\* A bracket that closes the class opened at i: not the first character in
\* it, and not the end of a range, which a bracket can only be if quoted.
Body(p, i) == IF IsRaw(p, i, TILDE) THEN i + 1 ELSE i
Closing(p, i) == {k \in Body(p, i) + 1 .. Len(p) : IsRaw(p, k, CLOSE)}

\* The characters of a class, from its first one up to the closing bracket.
RECURSIVE Members(_, _, _)
Members(p, k, end) ==
  IF k >= end THEN {}
  ELSE IF k + 2 < end /\ IsRaw(p, k + 1, DASH)
       THEN (p[k].c .. p[k + 2].c) \cup Members(p, k + 3, end)
       ELSE {p[k].c} \cup Members(p, k + 1, end)

ClassItem(p, i, end) ==
  LET b == Body(p, i)
      members == IF IsRaw(p, b, CLOSE) THEN {CLOSE} \cup Members(p, b + 1, end)
                 ELSE Members(p, b, end)
  IN Class(IF b = i THEN members ELSE AllChars \ members)

RECURSIVE Items(_, _)
Items(p, i) ==
  IF i > Len(p) THEN << >>
  ELSE IF IsRaw(p, i, STAR) THEN <<Star>> \o Items(p, i + 1)
  ELSE IF IsRaw(p, i, QUERY) THEN <<Query>> \o Items(p, i + 1)
  ELSE IF IsRaw(p, i, OPEN) /\ Closing(p, i + 1) # {}
       THEN LET end == First(Closing(p, i + 1))
            IN <<ClassItem(p, i + 1, end)>> \o Items(p, end + 1)
  ELSE <<Literal(p[i].c)>> \o Items(p, i + 1)

\* The word is a concatenation of words that the items match, in order.
RECURSIVE Described(_, _)
Described(s, items) ==
  IF items = << >> THEN s = << >>
  ELSE IF Head(items).kind = "star"
       THEN \E m \in 0 .. Len(s) : Described(SubSeq(s, m + 1, Len(s)), Tail(items))
       ELSE s # << >> /\ Head(s) \in Head(items).set /\ Described(Tail(s), Tail(items))

\* The items with the parts in the places of the wildcards.
RECURSIVE Rebuilt(_, _)
Rebuilt(items, parts) ==
  IF items = << >> THEN << >>
  ELSE IF Head(items).kind = "literal"
       THEN <<CHOOSE c \in Head(items).set : TRUE>> \o Rebuilt(Tail(items), parts)
  ELSE Head(parts) \o Rebuilt(Tail(items), Tail(parts))

Wild(items) == SelectSeq(items, LAMBDA e : e.kind # "literal")

\* There is one part for each wildcard, each is something that its wildcard
\* matches, and the subject is the pattern with the parts in their places.
PartsFit(s, items, parts) ==
  /\ Len(parts) = Len(Wild(items))
  /\ \A n \in 1 .. Len(parts) : Described(parts[n], <<Wild(items)[n]>>)
  /\ Rebuilt(items, parts) = s

\* Two stars in a row, with which extractsinglematch() may fail an assertion.
AdjacentStars ==
  \E k \in 1 .. Len(pattern) - 1 : IsRaw(pattern, k, STAR) /\ IsRaw(pattern, k + 1, STAR)

ExtractsParts(s, items) ==
  LET parts == extractsinglematch(s, pattern)
  IN \/ parts = AssertFails /\ AdjacentStars
     \/ parts = NoMatch /\ (~ Described(s, items) \/ Wild(items) = << >>)
     \/ Described(s, items) /\ PartsFit(s, items, parts)

\* A word matches as the manual says, whatever is quoted and wherever there
\* are stars, tildes, brackets and dashes; the empty list matches stars; and
\* what is extracted are the parts of the subject that correspond to the
\* wildcards, and nothing is if there are none. (es.1: "Pattern matching occurs
\* according to the following rules", "returns the parts of each matching
\* subject which correspond to the wildcards"; match.c)
MatchesAsDescribed ==
  LET items == Items(pattern, 1)
  IN /\ \A s \in Words :
          match(s, pattern) = Described(s, items) /\ ExtractsParts(s, items)
     /\ listmatch(<< >>, pattern) =
          (items # << >> /\ \A n \in DOMAIN items : items[n].kind = "star")

\* The assertion of extractsinglematch() always holds. (match.c: assert(*s != '\0'))
ExtractionAssertion ==
  \A s \in Words : extractsinglematch(s, pattern) # AssertFails
=============================================================================
