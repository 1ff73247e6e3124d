------------------------------- MODULE Syntax -------------------------------
(***************************************************************************)
(* Syntax trees and their constructors (tree.c, syntax.c). A tree is a     *)
(* tuple of its kind and its one or two parts, a part a tree or a string,  *)
(* and a string a sequence of characters. The constructors of the code     *)
(* write to the trees they are given; those trees are used nowhere else,   *)
(* so that they return new ones here.                                      *)
(***************************************************************************)
EXTENDS Sequences, Integers

NULL == << >>
Abort == <<"Abort">>            \* what an assertion that fails leaves
placeholder == <<"nRedir", NULL, NULL>>

mk(kind, p, q) == <<kind, p, q>>
mk1(kind, p) == <<kind, p>>
Word(name) == <<"nWord", <<name>> >>

Is(kind, t) == t # NULL /\ t[1] = kind
Kind(t) == t[1]
CAR(t) == t[2]
CDR(t) == IF Len(t) = 3 THEN t[3] ELSE NULL
IS_THUNK(t) == Is("nLambda", t) /\ CAR(t) = NULL

treecons(car, cdr) == mk("nList", car, cdr)
treecons2(car, cdr) == IF car = NULL THEN cdr ELSE treecons(car, cdr)

RECURSIVE treeappend(_, _)
treeappend(head, tail) ==
  IF head = NULL THEN tail
  ELSE IF Kind(head) \notin {"nList", "nRedir"} THEN Abort
  ELSE LET rest == treeappend(CDR(head), tail)
       IN IF rest = Abort THEN Abort ELSE mk(Kind(head), CAR(head), rest)

treeconsend(head, tail) == treeappend(head, treecons(tail, NULL))
treeconsend2(head, tail) == IF tail = NULL THEN head ELSE treeconsend(head, tail)

\* A tree in braces, but for one that is in braces already. The parts of some
\* kinds are strings, and never NULL.
Only(t) == IF CDR(t) = NULL THEN CAR(t) ELSE NULL
Tree(t) == Kind(t) \notin {"nWord", "nQword", "nPrim", "nInt"}
thunkify(t) ==
  LET one == IF t # NULL /\ Tree(t) THEN Only(t) ELSE NULL
      two == IF Is("nList", one) THEN Only(one) ELSE NULL
  IN IF IS_THUNK(t) THEN t
     ELSE IF IS_THUNK(one) THEN one
     ELSE IF IS_THUNK(two) THEN two
     ELSE mk("nLambda", NULL, t)

firstis(t, s) == Is("nList", t) /\ CAR(t) = Word(s)

Redirections == {"%create", "%append", "%here", "%open", "%openfile",
                 "%open-write", "%open-append", "%open-create"}
isredir(t) == \E s \in Redirections : firstis(t, s)

prefix(s, t) == treecons(Word(s), t)

flatten(t, sep) ==
  mk1("nCall", prefix("%flatten", treecons(<<"nQword", sep>>, treecons(t, NULL))))

backquote(ifs, body) ==
  mk1("nCall", prefix("%backquote", treecons(flatten(ifs, << >>), treecons(body, NULL))))

fnassign(name, defn) == mk("nAssign", mk("nConcat", Word("fn-"), name), defn)

mklambda(params, body) ==
  mk("nLambda", IF params = NULL THEN treecons(Word("*"), NULL) ELSE params, body)

\* Mutant: a command before others of its operator becomes the last one.
JoinedLast(op, t1, t2, rest) ==
  IF firstis(t1, op) THEN treeappend(t1, rest)
  ELSE IF firstis(t2, op) THEN treecons(CAR(t2), treeappend(rest, treecons(thunkify(t1), NULL)))
  ELSE prefix(op, treecons(thunkify(t1), rest))

\* A command of an operator from its operands, one that is such a command
\* itself being extended. rest is what the second operand is in the command.
Joined(op, t1, t2, rest) ==
  IF firstis(t1, op) THEN treeappend(t1, rest)
  ELSE IF firstis(t2, op) THEN treecons(CAR(t2), treecons(thunkify(t1), rest))
  ELSE prefix(op, treecons(thunkify(t1), rest))

Following(op, t2) == IF firstis(t2, op) THEN CDR(t2) ELSE treecons(thunkify(t2), NULL)

mkseq(op, t1, t2) ==
  IF op = "%seq" /\ t1 = NULL THEN t2
  ELSE IF op = "%seq" /\ t2 = NULL THEN t1
  ELSE Joined(op, t1, t2, Following(op, t2))

mkpipe(t1, outfd, infd, t2) ==
  Joined("%pipe", t1, t2, prefix(outfd, prefix(infd, Following("%pipe", t2))))

\* Appends $- to a command, or to the one in the braces of a redirection, which
\* are taken to be its fourth word. Inner is the walk there, u after n of its
\* steps, and Passed what is done where it ends; what the walk and treeappend
\* assert or dereference fails in other trees, and what is appended to a body
\* in braces is lost.
PassVar == <<"nVar", Word("-")>>
RECURSIVE Passed(_), Inner(_, _)
Passed(t) ==
  IF isredir(t) THEN Inner(t, 0)
  ELSE IF t = NULL THEN Abort ELSE IF IS_THUNK(t) THEN t ELSE treeconsend(t, PassVar)
Inner(u, n) ==
  IF n = 5 THEN Passed(u)
  ELSE IF IS_THUNK(u) THEN mk("nLambda", NULL, Inner(CDR(u), n + 1))
  ELSE IF ~Is("nList", u) THEN Abort
  ELSE IF n < 3 THEN treecons(CAR(u), Inner(CDR(u), n + 1))
  ELSE treecons(Inner(CAR(u), n + 1), CDR(u))
injectpassvar(t) ==
  IF Kind(t) \in {"nLet", "nLocal", "nClosure", "nAssign"}
  THEN mk(Kind(t), CAR(t), treeconsend2(CDR(t), PassVar))
  ELSE Passed(t)

mkpass(t1, t2) ==
  LET passed == injectpassvar(t2)
      rest == IF t2 = NULL THEN NULL
              ELSE IF firstis(t2, "%pass") THEN CDR(t2)
              ELSE IF passed = Abort \/ CAR(passed) = NULL THEN treecons(Abort, NULL)
              ELSE treecons(thunkify(passed), NULL)
  IN Joined("%pass", t1, t2, rest)

mkcmp(op, t1, t2) == <<"nCmp", op, treecons(t1, treecons(t2, NULL))>>

mkop(op, t1, t2) ==
  <<"nOp", op,
    IF Is("nOp", t1) /\ t1[2] = op THEN treeconsend(t1[3], t2)
    ELSE treecons(t1, treecons(t2, NULL))>>

mkneg(t) == IF Is("nInt", t) THEN <<"nInt", -t[2]>> ELSE mkop("-", <<"nInt", 0>>, t)

-----------------------------------------------------------------------------
(* Redirections are put in front of a command until it is whole. One is a  *)
(* command with a placeholder for the braces of the other.                 *)

mkredircmd(cmd, fd) == prefix(cmd, prefix(fd, NULL))
Hole == treecons(placeholder, NULL)

\* The names of the variables are numbered in the code.
mkredir(cmd, file) ==
  IF IS_THUNK(file) /\ ~firstis(cmd, "%open") /\ ~firstis(cmd, "%create")
  THEN [ok |-> FALSE]
  ELSE IF IS_THUNK(file)
  THEN LET op == IF firstis(cmd, "%open") THEN "%readfrom" ELSE "%writeto"
           var == Word("_devfd")
           to == treecons(Word(op), treecons(var, treecons(file, Hole)))
       IN [ok |-> TRUE, t |-> mk("nRedir", treecons(<<"nVar", var>>, NULL), to)]
  ELSE LET here == firstis(cmd, "%heredoc") \/ firstis(cmd, "%here")
           arg == IF here THEN file
                  ELSE mk1("nCall", prefix("%one", treecons(file, NULL)))
       IN [ok |-> TRUE, t |-> treeappend(cmd, treecons(arg, Hole))]

mkclose(fd) == prefix("%close", prefix(fd, Hole))
mkdup(fd0, fd1) == prefix("%dup", prefix(fd0, prefix(fd1, Hole)))

\* The words that a redirection adds to the command, before the redirection.
RECURSIVE Words(_, _), Rest(_)
Words(tree, r) == IF Is("nRedir", r) THEN Words(treeappend(tree, CAR(r)), CDR(r)) ELSE tree
Rest(r) == IF Is("nRedir", r) THEN Rest(CDR(r)) ELSE r

RECURSIVE AfterRedirs(_, _)
AfterRedirs(t, r) ==
  IF Is("nRedir", t) THEN mk("nRedir", CAR(t), AfterRedirs(CDR(t), r))
  ELSE mk("nRedir", r, t)

redirappend(tree, r) == AfterRedirs(Words(tree, r), Rest(r))

RECURSIVE Filled(_, _), redirect(_)
Filled(r, t) ==
  IF CAR(r) = placeholder THEN treecons(t, CDR(r)) ELSE treecons(CAR(r), Filled(CDR(r), t))
redirect(t) ==
  IF ~Is("nRedir", t) THEN t
  ELSE Filled(Rest(CAR(t)), thunkify(redirect(Words(CDR(t), CAR(t)))))

RECURSIVE Aborts(_)
Aborts(t) ==
  /\ t # NULL
  /\ \/ t[1] = "Abort"
     \/ t[1] \notin {"nWord", "nQword", "nPrim", "nInt"}
        /\ \E i \in 2 .. Len(t) : ~(i = 2 /\ t[1] \in {"nOp", "nCmp"}) /\ Aborts(t[i])
=============================================================================
