-------------------------------- MODULE Split -------------------------------
(***************************************************************************)
(* Splitting words and the output of commands at separators (split.c), as  *)
(* %split, %fsplit and backquotes (bqinput of prim-io.c) use it.  What is  *)
(* under way is kept in static variables, as are the separators of the     *)
(* time before.                                                            *)
(***************************************************************************)
EXTENDS Naturals, Sequences, SequencesExt

CONSTANTS
  Chars, NulChar, \* characters, and the one that ends C strings
  Separators,     \* the strings programs separate with
  MaxWord,        \* bound on the length of a word, or of what one read returns
  MaxFed,         \* bound on the number of them
  IfsSize,        \* sizeof ifs
  NoWord          \* the null pointer

ASSUME SplitAssumption ==
  /\ NulChar \notin Chars
  /\ Separators \subseteq Seq(Chars)
  /\ MaxWord \in Nat /\ MaxFed \in Nat /\ IfsSize \in Nat \ {0}

VARIABLES
  coalesce, splitchars,  \* what is under way
  buffer,                \* the word that has begun, or NoWord
  value,                 \* the words there are, last first
  ifsvalid, ifs, isifs,  \* the cached separators, and which characters they are
  caller,                \* who is splitting, or NoWord
  sep, fed, result       \* history: by what, what, and with what result

split == <<coalesce, splitchars, buffer, value>>
cache == <<ifsvalid, ifs, isifs>>
splitvars == <<split, cache, caller, sep, fed, result>>

SplitInit ==
  /\ coalesce = FALSE /\ splitchars = FALSE
  /\ buffer = NoWord
  /\ value = << >>
  /\ ifsvalid = FALSE /\ ifs = << >> /\ isifs = {}
  /\ caller = NoWord
  /\ sep = << >> /\ fed = << >> /\ result = NoWord

\* Mutant: a string too long to be kept leaves the one kept before valid.
CacheStale(s) ==
  IF ~ ifsvalid \/ s # ifs
  THEN /\ isifs' = {NulChar} \cup ToSet(s)
       /\ IF Len(s) + 1 < IfsSize THEN ifs' = s /\ ifsvalid' = TRUE
          ELSE UNCHANGED <<ifs, ifsvalid>>
  ELSE UNCHANGED cache

Cache(s) ==
  IF ~ ifsvalid \/ s # ifs
  THEN /\ isifs' = {NulChar} \cup ToSet(s)
       /\ IF Len(s) + 1 < IfsSize THEN ifs' = s /\ ifsvalid' = TRUE
          ELSE ifsvalid' = FALSE /\ UNCHANGED ifs
  ELSE UNCHANGED cache

startsplit(who, s, coalescef) ==
  /\ caller = NoWord
  /\ value' = << >>
  /\ buffer' = NoWord
  /\ coalesce' = coalescef
  /\ splitchars' = (~ coalescef /\ s = << >>)
  /\ Cache(s)
  /\ caller' = who
  /\ sep' = s /\ fed' = << >> /\ result' = NoWord

\* One character, in the loop of splitstring_r().
Step(st, c) ==
  IF st.buf = NoWord
  THEN IF c \in isifs THEN st ELSE [st EXCEPT !.buf = <<c>>]
  ELSE IF c \in isifs
       THEN [buf |-> IF coalesce THEN NoWord ELSE << >>, val |-> <<st.buf>> \o st.val]
       ELSE [st EXCEPT !.buf = Append(@, c)]

\* splitstring_r() until it returns NULL.
splitstring(in, endword) ==
  LET st == FoldLeft(Step, [buf |-> IF ~ coalesce /\ buffer = NoWord THEN << >> ELSE buffer,
                            val |-> value], in)
  IN IF splitchars
     THEN /\ value' = Reverse([i \in DOMAIN in |-> <<in[i]>>]) \o value
          /\ UNCHANGED buffer
     ELSE IF endword /\ st.buf # NoWord
          THEN value' = <<st.buf>> \o st.val /\ buffer' = NoWord
          ELSE value' = st.val /\ buffer' = st.buf

Feed(in, endword) ==
  /\ Len(fed) < MaxFed
  /\ splitstring(in, endword)
  /\ fed' = Append(fed, in)
  /\ UNCHANGED <<coalesce, splitchars, cache, caller, sep, result>>

\* fsplit() takes words, bqinput() what it has read, NULs and all.
Strings(S) == UNION {[1 .. n -> S] : n \in 0 .. MaxWord}
FeedWord == caller = "fsplit" /\ \E w \in Strings(Chars) : Feed(w, TRUE)
FeedRead ==
  /\ caller = "bqinput"
  /\ \E in \in Strings(Chars \cup {NulChar}) : in # << >> /\ Feed(in, FALSE)

\* An error or a signal ends bqinput().
Abandon ==
  /\ caller = "bqinput"
  /\ caller' = NoWord
  /\ UNCHANGED <<split, cache, sep, fed, result>>

endsplit ==
  /\ caller # NoWord
  /\ result' = [by |-> caller,
                words |-> Reverse(IF buffer # NoWord THEN <<buffer>> \o value ELSE value)]
  /\ buffer' = NoWord
  /\ value' = << >>
  /\ caller' = NoWord
  /\ UNCHANGED <<coalesce, splitchars, cache, sep, fed>>

SplitNext ==
  \/ \E s \in Separators, b \in BOOLEAN : startsplit("fsplit", s, b)
  \/ \E s \in Separators : startsplit("bqinput", s, TRUE)
  \/ FeedWord \/ FeedRead \/ Abandon \/ endsplit

-----------------------------------------------------------------------------
\* The fields of a string: what is between two separators next to each other,
\* or one and an end.
Cuts(in) ==
  LET S == {i \in DOMAIN in : in[i] \in ToSet(sep) \cup {NulChar}}
  IN SetToSortSeq(S \cup {0, Len(in) + 1}, LAMBDA m, n : m < n)
Fields(in) ==
  [i \in 1 .. Len(Cuts(in)) - 1 |-> SubSeq(in, Cuts(in)[i] + 1, Cuts(in)[i + 1] - 1)]
Characters(in) == [i \in DOMAIN in |-> <<in[i]>>]
NotEmpty(words) == SelectSeq(words, LAMBDA w : w # << >>)

Expected ==
  IF result.by = "bqinput" THEN NotEmpty(Fields(FlattenSeq(fed)))
  ELSE IF coalesce THEN NotEmpty(FlattenSeq([i \in DOMAIN fed |-> Fields(fed[i])]))
  ELSE IF sep # << >> THEN FlattenSeq([i \in DOMAIN fed |-> Fields(fed[i])])
  ELSE FlattenSeq([i \in DOMAIN fed |-> Characters(fed[i])])

\* Words are split one by one; %split leaves no empty ones.  The output of a
\* command is split as a whole, wherever reads happen to cut it, whatever was
\* split before and however that ended. (es.1: %split, %fsplit, "Command
\* Substitution"; split.c)
SplitsAsDescribed == result # NoWord => result.words = Expected
=============================================================================
