------------------------------ MODULE Patterns ------------------------------
(***************************************************************************)
(* Matching words against wildcard patterns, and extracting what the       *)
(* wildcards matched (match.c; haswild of glob.c).                         *)
(*                                                                         *)
(* A pattern is a sequence of characters, each with its quote flag: the    *)
(* code's UNQUOTED stands for a string of raw ones, QUOTED for a string of *)
(* quoted ones.  Past its end a pattern reads NUL, raw.  Words are         *)
(* sequences of character codes, which ranges compare.                     *)
(***************************************************************************)
EXTENDS Integers, Sequences, SequencesExt

CONSTANTS
  RawChars, QuotedChars,  \* what patterns are made of
  MaxPattern              \* bound on their length

ASSUME PatternsAssumption ==
  /\ RawChars \subseteq 1 .. 255 /\ QuotedChars \subseteq 1 .. 255
  /\ MaxPattern \in Nat

NUL == 0
STAR == 42       \* '*'
QUERY == 63      \* '?'
OPEN == 91       \* '['
CLOSE == 93      \* ']'
TILDE == 126     \* '~'
DASH == 45       \* '-'

VARIABLE pattern

Element == [c : RawChars, raw : {TRUE}] \cup [c : QuotedChars, raw : {FALSE}]

PatternsInit == pattern = << >>

\* The lexer and glom2 put a pattern together from words of either kind.
Concat(e) ==
  /\ Len(pattern) < MaxPattern
  /\ pattern' = Append(pattern, e)

PatternsNext == \E e \in Element : Concat(e)

-----------------------------------------------------------------------------
At(p, i) == IF i <= Len(p) THEN p[i] ELSE [c |-> NUL, raw |-> TRUE]
Char(s, j) == IF j <= Len(s) THEN s[j] ELSE NUL
IsRaw(p, i, c) == At(p, i).raw /\ At(p, i).c = c

haswild(p, i) ==
  \E k \in i .. Len(p) : p[k].raw /\ p[k].c \in {STAR, QUERY, OPEN}

\* The loop of rangematch() from the class's character k on: where the class
\* ends, 0 if it does not, and whether c is in it.
RECURSIVE ClassLoop(_, _, _, _)
ClassLoop(p, k, c, matched) ==
  IF IsRaw(p, k, CLOSE) THEN [end |-> k, matched |-> matched]
  ELSE IF At(p, k).c = NUL THEN [end |-> 0, matched |-> FALSE]
  ELSE IF /\ IsRaw(p, k + 1, DASH)
          /\ At(p, k + 2).c \notin {CLOSE, NUL} \/ ~ At(p, k + 2).raw
       THEN ClassLoop(p, k + 3, c, matched \/ c \in At(p, k).c .. At(p, k + 2).c)
       ELSE ClassLoop(p, k + 1, c, matched \/ c = At(p, k).c)

RANGE_FAIL == -1
RANGE_ERROR == -2

\* Mutant: a bracket ends the class also where it comes first.
rangematchEmpty(p, i, c) ==
  LET neg == IsRaw(p, i, TILDE)
      class == ClassLoop(p, IF neg THEN i + 1 ELSE i, c, FALSE)
  IN IF class.end = 0 THEN RANGE_ERROR
     ELSE IF class.matched # neg THEN class.end - i + 1 ELSE RANGE_FAIL

\* The class that starts at i: how far to go on if it has c.
rangematch(p, i, c) ==
  LET neg == IsRaw(p, i, TILDE)
      k == IF neg THEN i + 1 ELSE i
      class == IF IsRaw(p, k, CLOSE) THEN ClassLoop(p, k + 1, c, c = CLOSE)
               ELSE ClassLoop(p, k, c, FALSE)
  IN IF class.end = 0 THEN RANGE_ERROR
     ELSE IF class.matched # neg THEN class.end - i + 1 ELSE RANGE_FAIL

\* Past the stars at i.
SkipStars(p, i) ==
  CHOOSE k \in i .. Len(p) + 1 :
    /\ ~ IsRaw(p, k, STAR)
    /\ \A l \in i .. k - 1 : IsRaw(p, l, STAR)

\* match(s + j, p + i, q + i)
RECURSIVE matchFrom(_, _, _, _)
matchFrom(s, j, p, i) ==
  LET e == At(p, i)
  IN IF e.c = NUL THEN Char(s, j) = NUL
     ELSE IF e.raw /\ e.c = QUERY
          THEN Char(s, j) # NUL /\ matchFrom(s, j + 1, p, i + 1)
     ELSE IF e.raw /\ e.c = STAR
          THEN LET k == SkipStars(p, i)
               IN \/ At(p, k).c = NUL
                  \/ \E m \in j .. Len(s) : matchFrom(s, m, p, k)
     ELSE IF e.raw /\ e.c = OPEN
          THEN LET r == rangematch(p, i + 1, Char(s, j))
               IN /\ Char(s, j) # NUL
                  /\ r # RANGE_FAIL
                  /\ IF r = RANGE_ERROR
                     THEN s[j] = OPEN /\ matchFrom(s, j + 1, p, i + 1)
                     ELSE matchFrom(s, j + 1, p, i + 1 + r)
     ELSE Char(s, j) = e.c /\ matchFrom(s, j + 1, p, i + 1)

match(s, p) == matchFrom(s, 1, p, 1)

\* listmatch() of words against one pattern, given as a list.
listmatch(words, p) ==
  IF words = << >>
  THEN p # << >> /\ \A i \in 1 .. Len(p) : IsRaw(p, i, STAR)
  ELSE \E n \in 1 .. Len(words) : match(words[n], p)

-----------------------------------------------------------------------------
(* Extraction.                                                             *)

AssertFails == << <<NUL>> >>

\* extractsinglematch(): the rest of the pattern is tried at every place
\* from where the star begins, and assert(*s != '\0') before each.
Fits(s, j, p, i) == {m \in j .. Len(s) : matchFrom(s, m, p, i)}
First(places) == CHOOSE m \in places : \A l \in places : m <= l

RECURSIVE Extract(_, _, _, _, _)
Extract(s, j, p, i, result) ==
  LET e == At(p, i)
      part(m) == Append(result, SubSeq(s, j, m))
  IN IF e.c = NUL THEN result
     ELSE IF ~ e.raw THEN Extract(s, j + 1, p, i + 1, result)
     ELSE IF e.c = STAR
          THEN IF At(p, i + 1).c = NUL THEN part(Len(s))
               ELSE IF Fits(s, j, p, i + 1) = {} THEN AssertFails
               ELSE LET m == First(Fits(s, j, p, i + 1))
                    IN IF haswild(p, i + 1) THEN Extract(s, m, p, i + 1, part(m - 1))
                       ELSE part(m - 1)
     ELSE IF e.c = OPEN
          THEN LET r == rangematch(p, i + 1, Char(s, j))
               IN IF r = RANGE_ERROR THEN Extract(s, j + 1, p, i + 1, result)
                  ELSE Extract(s, j + 1, p, i + 1 + r, part(j))
     ELSE Extract(s, j + 1, p, i + 1, IF e.c = QUERY THEN part(j) ELSE result)

NoMatch == << >>
extractsinglematch(s, p) ==
  IF haswild(p, 1) /\ match(s, p) THEN Extract(s, 1, p, 1, << >>) ELSE NoMatch
=============================================================================
