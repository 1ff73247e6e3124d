------------------------------ MODULE Printer ------------------------------
(***************************************************************************)
(* How trees, strings and closures are printed (conv.c: Tconv, Sconv,      *)
(* Lconv, Cconv, Econv), in the characters of the lexer.                   *)
(***************************************************************************)
EXTENDS Lexer, Syntax, FiniteSets

\* A character is printed as itself, in quotes, or as an escape between carets.
Unprintable == {"tab", "nl", "bel", "bs", "esc", "ff", "cr", "x01"}
Escape == [c \in Unprintable |->
             <<"\\", IF c = "x01" THEN "1" ELSE CHOOSE l \in DOMAIN Escaped : Escaped[l] = c>>]

\* Mutant: a quote in quotes is as any other character.
DoubledNot(c) == <<c>>

Doubled(c) == IF c = "'" THEN <<c, c>> ELSE <<c>>

RECURSIVE quoteit(_, _)
quoteit(s, state) ==
  IF s = << >> THEN CASE state = "Begin" -> <<"'", "'">> [] state = "Quoted" -> <<"'">>
                      [] state = "Unquoted" -> << >>
  ELSE LET c == Head(s)
           Quote(b) == IF b THEN <<"'">> ELSE << >>
           Caret(b) == IF b THEN <<"^">> ELSE << >>
       IN IF c \in Unprintable
          THEN Quote(state = "Quoted") \o Caret(state # "Begin") \o Escape[c]
                 \o quoteit(Tail(s), "Unquoted")
          ELSE Caret(state = "Unquoted") \o Quote(state # "Quoted") \o Doubled(c)
                 \o quoteit(Tail(s), "Quoted")

Sconv(s, altform) ==
  IF altform \/ s = << >> \/ (\E i \in DOMAIN s : s[i] \in nw \cup {"@"})
  THEN quoteit(s, "Begin") ELSE s

Decimal(n) == CHOOSE d \in Digits : DigitValue[d] = n
Number(n) == IF n < 0 THEN <<"-", Decimal(-n)>> ELSE <<Decimal(n)>>

\* The operators of arithmetic, as characters.
Op == [op \in {"+", "-", "*", "/", "%", "<", "<=", "=", "!=", ">=", ">"} |->
         CASE op = "<=" -> <<"<", "=">> [] op = ">=" -> <<">", "=">>
           [] op = "!=" -> <<"!", "=">> [] OTHER -> <<op>>]
op_prec == [op \in {"+", "-", "*", "/", "%"} |->
              IF op = "%" THEN 3 ELSE IF op \in {"*", "/"} THEN 2 ELSE 1]
k_prec == [op \in {"+", "-", "*", "/", "%"} |-> IF op \in {"*", "/"} THEN 2 ELSE 1]

RECURSIVE treecount(_), Tconv(_, _), elements(_), bindinglist(_), operands(_, _)

treecount(t) ==
  IF t = NULL THEN 0 ELSE IF Is("nList", t) THEN treecount(CAR(t)) + treecount(CDR(t)) ELSE 1

\* The elements of a list, with a space between them.
elements(t) ==
  Tconv(CAR(t), FALSE) \o (IF CDR(t) = NULL THEN << >> ELSE <<" ">> \o elements(CDR(t)))

bindinglist(t) ==
  LET b == CAR(t)
  IN Tconv(CAR(b), TRUE)
       \o (IF CDR(b) = NULL THEN << >> ELSE <<" ", "=", " ">> \o Tconv(CDR(b), FALSE))
       \o (IF CDR(t) = NULL THEN << >> ELSE <<";", " ">> \o bindinglist(CDR(t)))

printbinding(keyword, t) ==
  <<keyword, " ", "(">> \o (IF CAR(t) = NULL THEN << >> ELSE bindinglist(CAR(t)))
    \o <<")", " ">> \o Tconv(CDR(t), FALSE)

\* Mutant: a subtrahend or a divisor is printed as a first operand is.
GroupedLess(t, prec) ==
  IF Is("nOp", t) /\ k_prec[t[2]] < prec - 1 THEN <<"(">> \o Tconv(t, FALSE) \o <<")">>
  ELSE Tconv(t, FALSE)

\* An operand is in parentheses if its operator binds less than its place does.
Grouped(t, prec) ==
  IF Is("nOp", t) /\ k_prec[t[2]] < prec THEN <<"(">> \o Tconv(t, FALSE) \o <<")">>
  ELSE Tconv(t, FALSE)
operands(t, op) ==
  IF t = NULL THEN << >>
  ELSE <<" ", op, " ">> \o Grouped(CAR(t), op_prec[op] + 1) \o operands(CDR(t), op)

printmatch(name, t) ==
  <<name, " ">> \o Tconv(CAR(t), TRUE)
    \o (IF treecount(CDR(t)) = 0 THEN << >> ELSE <<" ">> \o Tconv(CDR(t), FALSE))

Tconv(t, group) ==
  IF t = NULL THEN IF group THEN <<"(", ")">> ELSE << >>
  ELSE LET k == Kind(t)
           p == t[2]
           q == CDR(t)
       IN CASE k = "nWord" -> p
            [] k = "nQword" -> Sconv(p, TRUE)
            [] k = "nPrim" -> <<"$", "&">> \o p
            [] k = "nAssign" -> Tconv(p, TRUE) \o <<" ", "=", " ">> \o Tconv(q, FALSE)
            [] k = "nConcat" -> Tconv(p, TRUE) \o <<"^">> \o Tconv(q, TRUE)
            [] k = "nMatch" -> printmatch("~", t)
            [] k = "nExtract" -> printmatch("~~", t)
            [] k = "nVarsub" ->
                 <<"$">> \o Tconv(p, TRUE) \o <<"(">> \o Tconv(q, FALSE) \o <<")">>
            [] k = "nLocal" -> printbinding("local", t)
            [] k = "nLet" -> printbinding("let", t)
            [] k = "nFor" -> printbinding("for", t)
            [] k = "nClosure" -> printbinding("%closure", t)
            [] k = "nCall" ->
                 <<"<", "=">> \o (IF IS_THUNK(p) \/ Is("nPrim", p) THEN Tconv(p, FALSE)
                                  ELSE <<"{">> \o Tconv(p, FALSE) \o <<"}">>)
            [] k = "nVar" ->
                 <<"$">> \o (IF p = NULL \/ Is("nWord", p) \/ Is("nQword", p) THEN Tconv(p, group)
                             ELSE <<"(">> \o Tconv(p, TRUE) \o <<")">>)
            [] k = "nLambda" ->
                 (IF p = NULL THEN << >> ELSE <<"@", " ">> \o Tconv(p, FALSE) \o <<" ">>)
                   \o <<"{">> \o Tconv(q, FALSE) \o <<"}">>
            [] k = "nList" ->
                 IF ~group THEN elements(t)
                 ELSE IF treecount(t) = 0 THEN <<"(", ")">>
                 ELSE IF treecount(t) = 1 THEN Tconv(p, FALSE) \o Tconv(q, FALSE)
                 ELSE <<"(">> \o elements(t) \o <<")">>
            [] k = "nInt" -> Number(p)
            [] k = "nArith" -> <<"bq", "(">> \o Tconv(p, FALSE) \o <<")">>
            [] k = "nCmp" ->
                 Tconv(CAR(q), FALSE) \o <<" ">> \o Op[p] \o <<" ">> \o Tconv(CAR(CDR(q)), FALSE)
            [] k = "nOp" -> Grouped(CAR(q), op_prec[p]) \o operands(CDR(q), p)

-----------------------------------------------------------------------------
(* Closures: a tree and its bindings, the innermost first, each of a name  *)
(* and a list of strings.                                                  *)

RECURSIVE Lconv(_), enclose(_)
Lconv(list) ==
  Sconv(Head(list), TRUE)
    \o (IF Len(list) = 1 THEN << >> ELSE <<" ">> \o Lconv(Tail(list)))

enclose(binding) ==
  LET b == Head(binding)
      outer == Tail(binding)
  IN (IF outer = << >> THEN << >> ELSE enclose(outer) \o <<";", " ">>)
       \o Sconv(b.name, FALSE)
       \o (IF b.defn = << >> THEN << >> ELSE <<" ", "=", " ">> \o Lconv(b.defn))

Cconv(closure) ==
  (IF closure.binding = << >> THEN << >>
   ELSE <<"%closure", " ", "(">> \o enclose(closure.binding) \o <<")", " ">>)
    \o Tconv(closure.tree, FALSE)

\* Reading one back (closure.c): the bindings of the trees %closure makes, a
\* value that is not a word being kept as a closure over its tree. A name that
\* is no word fails an assertion.
Term(word) == IF Kind(word) \in {"nWord", "nQword"} THEN word[2] ELSE <<"closure", word>>

RECURSIVE Values(_), extract(_, _), Closed(_, _)
Values(defn) == IF defn = NULL THEN << >> ELSE <<Term(CAR(defn))>> \o Values(CDR(defn))
extract(tree, bindings) ==
  IF tree = NULL THEN bindings
  ELSE LET defn == CAR(tree)
       IN extract(CDR(tree),
                  <<[name |-> Term(CAR(defn)), defn |-> Values(CDR(defn))]>> \o bindings)

Unlisted(tree) == IF Is("nList", tree) /\ CDR(tree) = NULL THEN CAR(tree) ELSE tree
Closed(tree, bindings) ==
  IF Is("nClosure", tree)
  THEN Closed(Unlisted(CDR(tree)), extract(CAR(tree), bindings))
  ELSE [tree |-> tree, binding |-> bindings]
extractbindings(tree) == Closed(Unlisted(tree), << >>)
=============================================================================
