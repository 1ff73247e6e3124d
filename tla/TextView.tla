------------------------------ MODULE TextView ------------------------------
(***************************************************************************)
(* Commands are kept and exported as text: what is printed from a tree is  *)
(* read back as it. The texts and the strings tried are made character by  *)
(* character, a text only of what a command may begin with.                *)
(***************************************************************************)
EXTENDS Grammar, Printer, SequencesExt

CONSTANTS
  Alphabets,       \* of texts: their start, the fragments after it, and bound:
                   \* how many
  StringAlphabets  \* of strings, likewise

VARIABLES alphabet, text

TextInit == alphabet \in Alphabets /\ text = <<alphabet.start>>
TextNext ==
  /\ Len(text) <= alphabet.max
  /\ \E f \in alphabet.fragments : text' = Append(text, f)
  /\ Viable(Read(FlattenSeq(text')))
  /\ UNCHANGED alphabet

StringInit == alphabet \in StringAlphabets /\ text = << >>
StringNext ==
  /\ Len(text) < alphabet.max
  /\ \E c \in alphabet.fragments : text' = Append(text, c)
  /\ UNCHANGED alphabet

-----------------------------------------------------------------------------
(* What a tree stands for. Lists in lists are one list; a word is its      *)
(* parts, and quoted parts next to each other one part; the braces around  *)
(* nothing but braces, and those of a call, are left out.                  *)

RECURSIVE Items(_), Parts(_), Norm(_), Merged(_)
Items(t) ==
  IF t = NULL THEN << >>
  ELSE IF Is("nList", t) THEN Items(CAR(t)) \o Items(CDR(t))
  ELSE <<Norm(t)>>

Parts(t) == IF Is("nConcat", t) THEN Parts(CAR(t)) \o Parts(CDR(t))
            ELSE LET items == Items(t) IN IF Len(items) = 1 THEN items ELSE << <<"nList", items>> >>
Merged(parts) ==
  IF Len(parts) < 2 THEN parts
  ELSE LET rest == Merged(Tail(parts))
           one == Head(parts)
           two == Head(rest)
       IN IF Is("nQword", one) /\ Is("nQword", two)
          THEN <<<<"nQword", one[2] \o two[2]>>>> \o Tail(rest)
          ELSE <<one>> \o rest

Norm(t) ==
  LET k == Kind(t)
      q == Items(CDR(t))
  IN CASE k \in {"nWord", "nQword", "nPrim", "nInt"} -> t
       [] k = "nConcat" -> LET m == Merged(Parts(t))
                           IN IF Len(m) = 1 THEN m[1] ELSE <<k, m>>
       [] k = "nCall" ->
            LET called == Items(CAR(t))
            IN <<k, IF Len(called) = 1 /\ called[1][1] = "nLambda" /\ called[1][2] = << >>
                    THEN called[1][3] ELSE called>>
       [] k \in {"nOp", "nCmp"} -> <<k, t[2], q>>
       [] k = "nLambda" /\ CAR(t) = NULL /\ Len(q) = 1 /\ q[1][1] = "nLambda" /\ q[1][2] = << >>
            -> q[1]
       [] OTHER -> <<k, Items(CAR(t)), q>>

-----------------------------------------------------------------------------
(* Trees that cannot be printed: the parentheses that made a word of a     *)
(* keyword, or were all of a name, are not, nor braces kept apart from the *)
(* subscripts after them or from an equals sign; and a word with an equals *)
(* sign may not be one after the braces of a call begin.                   *)

RECURSIVE Subtrees(_)
Subtrees(t) ==
  IF t = NULL THEN {}
  ELSE IF Kind(t) \in {"nWord", "nQword", "nPrim", "nInt"} THEN {t}
  ELSE {t} \cup (IF Kind(t) \in {"nOp", "nCmp"} THEN {} ELSE Subtrees(CAR(t)))
           \cup Subtrees(CDR(t))

Of(kinds, t) == {u \in Subtrees(t) : Kind(u) \in kinds}
StartsCommand(t) ==
  {t} \cup {CDR(u) : u \in Of({"nLambda", "nLet", "nLocal", "nFor", "nClosure"}, t)}
      \cup {CAR(u) : u \in Of({"nCall", "nAssign", "nVarsub"}, t)}

RECURSIVE FirstWord(_)
FirstWord(items) ==
  IF items = << >> THEN << >>
  ELSE IF items[1][1] = "nConcat" THEN FirstWord(items[1][2]) ELSE items[1]

Keywords == {<<"nWord", <<k>>>> : k \in DOMAIN Keyword \cup {"!"}}
NotPrinted(t) ==
  \/ \E u \in StartsCommand(t) : FirstWord(Items(u)) \in Keywords
  \/ <<"nVar", NULL>> \in Of({"nVar"}, t)
  \/ Of({"nCall"}, t) # {} /\ \E w \in Of({"nWord"}, t) : "=" \in Range(w[2])
  \/ \E u \in Of({"nAssign"}, t) : Of({"nLambda"}, CAR(u)) # {}
  \/ \E u \in Of({"nVarsub"}, t) :
       LET name == IF Is("nVar", CAR(u)) THEN CAR(CAR(u)) ELSE CAR(u)
       IN ~(Is("nWord", name) \/ Is("nQword", name) \/ Is("nPrim", name))

\* What is read of what is printed from a tree stands for the same.
Same(t, r) == Complete(r) /\ Items(r.t) = Items(t)
SameWhenRead(t) == Same(t, Read(Tconv(t, FALSE)))
PrintedAsRead(r) ==
  Complete(r) /\ ~Aborts(r.t) /\ ~NotPrinted(r.t) => SameWhenRead(r.t)
AllPrintedAsRead(r) == Complete(r) => SameWhenRead(r.t)

\* Whatever is typed, the text that its tree is printed as, which is how a
\* function is shown and exported, is read as a tree that stands for the same,
\* but for the trees above (Tconv and the lexer's and grammar's contexts).
PrintsBack == PrintedAsRead(Read(FlattenSeq(text)))

\* The same of an expression of arithmetic, with no tree left out: the test
\* says that it has the same value when it is printed and read.
ArithmeticReadsBack == AllPrintedAsRead(Read(FlattenSeq(text)))

-----------------------------------------------------------------------------
(* What commands that are joined by operators mean: the last operator of   *)
(* the loosest kind there is splits them, but a sequence, whose first one  *)
(* does, and what a "!" begins, which goes as far as pipes do.             *)

Joins == {<<" ", ";">>, <<" ", "&">>, <<" ", "&", "&">>, <<" ", "|", "|">>, <<" ", "|">>, <<" ", "!">>}
Splice(op, side) == IF side # << >> /\ side[1] = op THEN side[2] ELSE <<side>>
Both(op, l, r) == <<op, Splice(op, l) \o Splice(op, r)>>

RECURSIVE Meant(_), Meaning(_)
Meant(cs) ==
  LET At2(S) == {i \in DOMAIN cs : cs[i] \in S}
      Left(i) == Meant(SubSeq(cs, 1, i - 1))
      Right(i) == Meant(SubSeq(cs, i + 1, Len(cs)))
      seqs == At2({<<" ", ";">>, <<" ", "&">>})
      ands == At2({<<" ", "&", "&">>, <<" ", "|", "|">>})
      nots == At2({<<" ", "!">>})
      pipes == {i \in At2({<<" ", "|">>}) : \A j \in nots : i < j}
  IN IF seqs # {}
     THEN LET i == Min(seqs)
              l == IF cs[i] = <<" ", "&">> THEN <<"%background", <<Left(i)>> >> ELSE Left(i)
          IN IF l = << >> THEN Right(i) ELSE IF Right(i) = << >> THEN l
             ELSE Both("%seq", l, Right(i))
     ELSE IF ands # {}
     THEN LET i == Max(ands)
          IN IF cs[i] = <<" ", "&", "&">> THEN Both("%and", Left(i), Right(i))
             ELSE Both("%or", Left(i), Right(i))
     ELSE IF pipes # {} THEN LET i == Max(pipes) IN Both("%pipe", Left(i), Right(i))
     ELSE IF nots # {} THEN <<"%not", <<Right(Min(nots))>> >>
     ELSE IF cs = << >> THEN << >> ELSE <<"command", Len(cs)>>

\* What a tree of such commands means: the operands are those in braces.
RECURSIVE Elements(_)
Elements(t) == IF t = NULL THEN << >> ELSE <<CAR(t)>> \o Elements(CDR(t))
Meaning(t) ==
  LET ws == Elements(t)
      braced == SelectSeq(ws, IS_THUNK)
  IN IF ws = << >> THEN << >>
     ELSE IF braced = << >> THEN <<"command", Len(ws)>>
     ELSE <<ws[1][2][1], [i \in DOMAIN braced |-> Meaning(CDR(braced[i]))]>>

Means(r, meant) == Complete(r) /\ Meaning(r.t) = meant

\* Commands joined by operators are run as those operators say, whichever are
\* beside each other: the sequences, pipes and conditions that the constructors
\* extend in place have every command once, in order and in its own group
\* (the precedences of parse.y; mkseq, mkpipe, thunkify, prefix).
OperatorsGroup ==
  LET a == <<" ", "a">>
      not == <<" ", "!">>
  IN (\A i \in DOMAIN text :
        text[i] \in Joins \cup {a} /\ (i > 1 /\ text[i] = not => text[i - 1] # a))
       => Means(Read(FlattenSeq(text)), Meant(text))

-----------------------------------------------------------------------------
(* Strings.                                                                *)

RECURSIVE Spelled(_)
Spelled(t) == IF Is("nConcat", t) THEN Spelled(CAR(t)) \o Spelled(CDR(t)) ELSE t[2]

SecondIs(str, ws) == Len(ws) = 2 /\ Spelled(ws[2]) = str
ReadAs(str, r) == Complete(r) /\ SecondIs(str, Elements(r.t))

\* The string as a word, with or without the quoting that it does not need.
StringReadBack ==
  \A altform \in BOOLEAN : ReadAs(text, Read(<<"a", " ">> \o Sconv(text, altform)))

Bound(name, defn) == [name |-> name, defn |-> defn]
BindingsToo(bs, r) == Complete(r) /\ extractbindings(r.t).binding = bs

\* Closures with the string as a value and, but for fn, as a name. Left out is a
\* string that is printed in parts, as one with a newline and a letter is.
InOnePart(s) == Len(s) = 1 \/ \A i \in DOMAIN s : s[i] \notin Unprintable
ClosuresReadBack ==
  LET lambda == treecons(<<"nLambda", NULL, treecons(Word("a"), NULL)>>, NULL)
      some == {<<Bound(<<"a">>, <<text, text>>), Bound(<<"b">>, <<text>>)>>}
              \cup (IF text \in {<< >>, <<"fn">>} THEN {}
                    ELSE {<<Bound(text, << >>), Bound(text, <<text>>)>>})
  IN InOnePart(text) =>
       \A bs \in some : BindingsToo(bs, Read(Cconv([tree |-> lambda, binding |-> bs])))

\* What a variable has comes back from the environment: a string is printed as
\* one word that is read as it, and a closure comes back with the same variables
\* and values (Sconv and yylex; Cconv, enclose, extractbindings).
ValuesReadBack == StringReadBack /\ ClosuresReadBack
=============================================================================
