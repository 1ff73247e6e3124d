------------------------------ MODULE Grammar -------------------------------
(***************************************************************************)
(* The grammar (parse.y), parsed by recursive descent: the operators of    *)
(* commands and of arithmetic by their precedence. A parser's state is the *)
(* lexer's and the token after it once it was looked at; it is only looked *)
(* at where the parser that yacc builds does, since the actions of the     *)
(* grammar set statics of the lexer. A parse gives a tree and a state, or  *)
(* fails. Here documents are not read here.                                *)
(***************************************************************************)
EXTENDS Lexer, Syntax

Start(text) == [lex |-> Fresh(text), next |-> << >>]

\* The state once the token after it is looked at, of which the token and its
\* value are.
Looked(r) == [lex |-> r.s, next |-> <<r.tok, r.val>>]
Look(p) == IF p.next # << >> THEN p ELSE Looked(yylex(p.lex))
Next(p) == p.next[1]
Value(p) == p.next[2]
Skip(p) == [p EXCEPT !.next = << >>]

Peeked(r) == IF r.ok THEN [r EXCEPT !.p = Look(@)] ELSE r
Done(t, p) == [ok |-> TRUE, t |-> t, p |-> p]
Fails(p) == [ok |-> FALSE, t |-> NULL, p |-> p]

\* Parses one after the other: a token that must be next, and what is made of
\* what was parsed before it.
With(r, F(_)) == IF ~r.ok THEN r ELSE F(r)
Expect(r, tok, F(_)) == IF r.ok /\ Next(r.p) # tok THEN Fails(r.p) ELSE With(r, F)
Then(r, tok, F(_)) == Expect(Peeked(r), tok, F)
Looking(p, F(_)) == F(Look(p))
Made(r, F(_)) == IF ~r.ok THEN r ELSE Done(F(r.t), r.p)

\* nl, and what it does to the lexer.
RECURSIVE nl(_)
nl(p) ==
  Looking([p EXCEPT !.lex = unsetskip(@)], LAMBDA l :
    IF Next(l) = "NL" THEN nl(Skip(l)) ELSE l)

caret(p) == Looking(p, LAMBDA l : IF Next(l) = "^" THEN Skip(l) ELSE l)

keyword == [k \in {"!", "~", "EXTRACT", "LOCAL", "LET", "FOR", "FN", "CLOSURE"} |->
              CASE k = "EXTRACT" -> "~~" [] k = "LOCAL" -> "local" [] k = "LET" -> "let"
                [] k = "FOR" -> "for" [] k = "FN" -> "fn" [] k = "CLOSURE" -> "%closure"
                [] OTHER -> k]
binder == [k \in {"LOCAL", "LET", "FOR", "CLOSURE"} |->
             CASE k = "LOCAL" -> "nLocal" [] k = "LET" -> "nLet" [] k = "FOR" -> "nFor"
               [] OTHER -> "nClosure"]

Params == {"WORD", "QWORD"}
Avwords == {"INT", "$", "CALL", "COUNT", "FLAT", "PRIM", "bq", "BACKBACK"}
Vwords == Params \cup Avwords \cup {"(", "{", "@", "ARITH_BEGIN"}
Swords == Vwords \cup DOMAIN keyword
Redirs == {"DUP", "REDIR"}

\* The operators of commands and of arithmetic, and how tightly they bind.
Binds == [op \in {"ANDAND", "OROR", "PIPE", "PASS"} |->
            IF op = "PIPE" THEN 3 ELSE IF op = "PASS" THEN 4 ELSE 1]
NOT == 2
ArithBinds == [op \in {"+", "-", "*", "/", "%"} |->
                 IF op \in {"+", "-"} THEN 1 ELSE IF op = "%" THEN 3 ELSE 2]
NEG == 4
Comparison == [op \in {"<", "LEQ", "=", "NEQ", "GEQ", ">"} |->
                 CASE op = "LEQ" -> "<=" [] op = "NEQ" -> "!=" [] op = "GEQ" -> ">=" [] OTHER -> op]

\* A nonterminal in another one. What it goes on from is the tree of what is
\* parsed of it already; of commands and of arithmetic, the least that their
\* operators may bind, or both.
RECURSIVE Parse(_, _, _)
Sub(nonterminal, p) == Parse(nonterminal, p, NULL)
Operand(nonterminal, p, min) == Parse(nonterminal, p, min)

param(p) == Done(<<IF Next(p) = "WORD" THEN "nWord" ELSE "nQword", Value(p)>>, Skip(p))

braces(p) == Then(Done(NULL, p), "{", LAMBDA r :
               Then(Sub("body", Skip(r.p)), "}", LAMBDA b : Done(b.t, Skip(b.p))))

avword(p) ==
  LET k == Next(p)
      q == Skip(p)
      Var(t) == <<"nVar", t>>
      Count(t) == mk1("nCall", prefix("%count", treecons(Var(t), NULL)))
      Flat(t) == flatten(Var(t), <<" ">>)
      Backquote(t) == backquote(Var(Word("ifs")), t)
      Call(t) == mk1("nCall", t)
  IN CASE k = "INT" -> Done(<<"nInt", Value(p)>>, q)
       [] k = "$" -> Made(Sub("vsword", q), Var)
       [] k = "CALL" -> Made(Sub("sword", q), Call)
       [] k = "COUNT" -> Made(Sub("sword", q), Count)
       [] k = "FLAT" -> Made(Sub("sword", q), Flat)
       [] k = "PRIM" -> Then(Done(NULL, q), "WORD",
                             LAMBDA r : Done(<<"nPrim", Value(r.p)>>, Skip(r.p)))
       [] k = "bq" -> Made(Sub("vsword", q), Backquote)
       [] k = "BACKBACK" -> With(Sub("word", q), LAMBDA i :
                              Made(Sub("sword", i.p), LAMBDA t : backquote(i.t, t)))
       [] OTHER -> Fails(p)

vword(p) ==
  LET k == Next(p)
  IN CASE k \in Params -> param(p)
       [] k = "(" -> Then(Sub("nlwords", Skip(p)), ")", LAMBDA r : Done(r.t, Skip(r.p)))
       [] k = "{" -> Made(braces(p), thunkify)
       [] k = "@" -> With(Sub("params", Skip(p)), LAMBDA a :
                       Made(braces(a.p), LAMBDA b : mklambda(a.t, b)))
       [] k = "ARITH_BEGIN" ->
            Then(Sub("cmparith", Skip(p)), ")", LAMBDA r :
              Done(mk1("nArith", r.t), [Skip(r.p) EXCEPT !.lex.numeric = FALSE]))
       [] OTHER -> avword(p)

aword(p) == Done(Word(keyword[Next(p)]), Skip(p))
vsword(p) == IF Next(p) \in DOMAIN keyword THEN aword(p) ELSE vword(p)

\* A variable and its subscripts look like a variable until SUB.
comword(p) ==
  IF Next(p) # "$" THEN vword(p)
  ELSE With(Peeked(Sub("vsword", Skip(p))), LAMBDA v :
         IF Next(v.p) # "SUB" THEN Done(<<"nVar", v.t>>, v.p)
         ELSE Then(Sub("words", Skip(v.p)), ")", LAMBDA s :
                Done(mk("nVarsub", v.t, s.t), Skip(s.p))))
sword(p) == IF Next(p) \in DOMAIN keyword THEN aword(p) ELSE comword(p)

\* Words that are joined by carets; the caret may be an assignment's.
carets(p, t) ==
  IF Next(p) # "^" THEN Done(t, p)
  ELSE Looking(Skip(p), LAMBDA l :
    IF Next(l) = "=" THEN Done(t, l)
    ELSE With(Sub("sword", l), LAMBDA s : Parse("carets", s.p, mk("nConcat", t, s.t))))
first(p) == With(comword(p), LAMBDA r : Parse("carets", r.p, r.t))
word(p) == With(sword(p), LAMBDA r : Parse("carets", r.p, r.t))

params(p, t) ==
  IF Next(p) \notin Params THEN Done(t, p)
  ELSE With(param(p), LAMBDA r : Parse("params", r.p, treeconsend(t, r.t)))
words(p, t) ==
  IF Next(p) \notin Swords THEN Done(t, p)
  ELSE With(Sub("word", p), LAMBDA r : Parse("words", r.p, treeconsend(t, r.t)))
nlwords(p, t) ==
  IF Next(p) = "NL" THEN Parse("nlwords", Skip(p), t)
  ELSE IF Next(p) \notin Swords THEN Done(t, p)
  ELSE With(Sub("word", p), LAMBDA r : Parse("nlwords", r.p, treeconsend(t, r.t)))

assign(p) == Sub("words", caret(Skip(p)))

redir(p) ==
  LET v == Value(p)
      To(file) == mkredir(mkredircmd(v[1], v[2]), file)
  IN IF Next(p) = "DUP"
     THEN Done(IF v[2] = CLOSED THEN mkclose(v[1]) ELSE mkdup(v[1], v[2]), Skip(p))
     ELSE With(Sub("word", Skip(p)), LAMBDA f :
            IF To(f.t).ok THEN Done(To(f.t).t, f.p) ELSE Fails(f.p))

simple(p, t) ==
  IF Next(p) \in Redirs
  THEN With(redir(p), LAMBDA r : Parse("simple", r.p, redirappend(t, r.t)))
  ELSE IF Next(p) \in Swords
  THEN With(Sub("word", p), LAMBDA r : Parse("simple", r.p, treeconsend2(t, r.t)))
  ELSE Done(redirect(t), p)

fn(p) ==
  With(Sub("word", Skip(p)), LAMBDA f :
    IF Next(f.p) \notin Params \cup {"{"} THEN Done(fnassign(f.t, NULL), f.p)
    ELSE With(Sub("params", f.p), LAMBDA a :
           Made(braces(a.p), LAMBDA b : fnassign(f.t, mklambda(a.t, b)))))

binding(p) ==
  IF Next(p) = "FN" THEN fn(p)
  ELSE IF Next(p) \notin Swords THEN Done(NULL, p)
  ELSE With(Sub("word", p), LAMBDA w :
         IF Next(w.p) # "=" THEN Done(mk("nAssign", w.t, NULL), w.p)
         ELSE Made(assign(w.p), LAMBDA v : mk("nAssign", w.t, v)))
bindings(p, t) ==
  With(Peeked(binding(p)), LAMBDA b :
    LET u == treeconsend2(t, b.t)
    IN IF Next(b.p) \in {";", "NL"} THEN Parse("bindings", Skip(b.p), u) ELSE Done(u, b.p))

\* A command up to the first operator that binds less than min.
command(p) ==
  LET k == Next(p)
      q == Skip(p)
      Match(kind) == With(Sub("word", q), LAMBDA w :
                       Made(Sub("words", w.p), LAMBDA v : mk(kind, w.t, v)))
  IN CASE k \in Redirs ->
            With(redir(p), LAMBDA r :
              Made(Operand("cmd", r.p, NOT + 1), LAMBDA c : redirect(mk("nRedir", r.t, c))))
       [] k \in Vwords ->
            With(first(p), LAMBDA f :
              IF Next(f.p) = "=" THEN Made(assign(f.p), LAMBDA v : mk("nAssign", f.t, v))
              ELSE Parse("simple", f.p, treecons2(f.t, NULL)))
       [] k = "FN" -> fn(p)
       [] k \in DOMAIN binder ->
            Then(Done(NULL, nl(q)), "(", LAMBDA r :
              Then(Sub("bindings", Skip(r.p)), ")", LAMBDA b :
                Made(Operand("cmd", nl(Skip(b.p)), 0), LAMBDA c : mk(binder[k], b.t, c))))
       [] k = "!" ->
            Made(Operand("cmd", caret(q), NOT + 1), LAMBDA c : prefix("%not", treecons(thunkify(c), NULL)))
       [] k = "~" -> Match("nMatch")
       [] k = "EXTRACT" -> Match("nExtract")
       [] OTHER -> Done(NULL, p)

Command(l, r) ==
  LET op == Next(l.p)
      fds == Value(l.p)
  IN CASE op = "ANDAND" -> mkseq("%and", l.t, r)
       [] op = "OROR" -> mkseq("%or", l.t, r)
       [] op = "PIPE" -> mkpipe(l.t, fds[1], fds[2], r)
       [] op = "PASS" -> mkpass(l.t, r)

\* The operators that bind at least min after a command.
operators(l, min) ==
  LET op == Next(l.p)
  IN IF op \notin DOMAIN Binds THEN l
     ELSE IF Binds[op] < min THEN l
     ELSE With(Operand("cmd", nl(Skip(l.p)), Binds[op] + 1), LAMBDA r :
            Parse("operators", r.p, <<Command(l, r.t), min>>))
cmd(p, min) == With(command(p), LAMBDA l : Parse("operators", l.p, <<l.t, min>>))

\* line or body, whose commands end in one of the tokens.
sequence(nonterminal, p, tokens) ==
  With(Operand("cmd", p, 0), LAMBDA c :
    LET k == Next(c.p)
        t == IF k = "&" THEN prefix("%background", treecons(thunkify(c.t), NULL)) ELSE c.t
    IN IF k \notin tokens THEN c
       ELSE Made(Sub(nonterminal, Skip(c.p)), LAMBDA rest : mkseq("%seq", t, rest)))
line(p) == sequence("line", p, {";", "&"})
body(p) == sequence("body", p, {";", "&", "NL"})

arith1(p) ==
  IF Next(p) = "(" THEN Then(Operand("arith", Skip(p), 0), ")", LAMBDA r : Done(r.t, Skip(r.p)))
  ELSE IF Next(p) = "-" THEN Made(Operand("arith", Skip(p), NEG), mkneg)
  ELSE With(avword(p), LAMBDA r : Done(r.t, [r.p EXCEPT !.lex.numeric = TRUE]))

ariths(l, min) ==
  LET op == Next(l.p)
  IN IF op \notin DOMAIN ArithBinds THEN l
     ELSE IF ArithBinds[op] < min THEN l
     ELSE With(Operand("arith", Skip(l.p), ArithBinds[op] + 1), LAMBDA r :
            Parse("ariths", r.p, <<mkop(op, l.t, r.t), min>>))
arith(p, min) == With(arith1(p), LAMBDA l : Parse("ariths", l.p, <<l.t, min>>))

cmparith(p) ==
  With(Operand("arith", p, 0), LAMBDA l :
    IF Next(l.p) \notin DOMAIN Comparison THEN l
    ELSE Made(Operand("arith", Skip(l.p), 0), LAMBDA r : mkcmp(Comparison[Next(l.p)], l.t, r)))

Parse(nonterminal, p0, x) ==
  Looking(p0, LAMBDA p :
    CASE nonterminal = "line" -> line(p)
      [] nonterminal = "body" -> body(p)
      [] nonterminal = "cmd" -> cmd(p, x)
      [] nonterminal = "operators" -> operators(Done(x[1], p), x[2])
      [] nonterminal = "simple" -> simple(p, x)
      [] nonterminal = "bindings" -> bindings(p, x)
      [] nonterminal = "params" -> params(p, x)
      [] nonterminal = "vsword" -> vsword(p)
      [] nonterminal = "sword" -> sword(p)
      [] nonterminal = "word" -> word(p)
      [] nonterminal = "carets" -> carets(p, x)
      [] nonterminal = "words" -> words(p, x)
      [] nonterminal = "nlwords" -> nlwords(p, x)
      [] nonterminal = "cmparith" -> cmparith(p)
      [] nonterminal = "arith" -> arith(p, x)
      [] nonterminal = "ariths" -> ariths(Done(x[1], p), x[2]))

\* es: a line and its end.
Ended(r) == IF r.ok /\ Next(r.p) \notin {"NL", "ENDFILE"} THEN Fails(r.p) ELSE r
Read(text) == Ended(Peeked(Sub("line", Start(text))))

Complete(r) == r.ok /\ r.p.lex.in = << >>

\* A text that fails before its last token has no continuation.
Viable(r) == r.p.lex.in = << >>
=============================================================================
