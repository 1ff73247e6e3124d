------------------------------- MODULE Lexer --------------------------------
(***************************************************************************)
(* The lexical analyzer (token.c) over abstract characters: a letter       *)
(* stands for a run of letters, digits and the like, among them those that *)
(* are keywords, a digit for a number of one digit, "bq" for a backquote,  *)
(* "nl", "tab", "bel", "bs", "esc", "ff", "cr" and "x01" do not print, and *)
(* "xnn" stands for others, of a number. A lexer's state is a record of   *)
(* the characters left and of the statics of token.c; yylex takes one to a *)
(* token and the next state.                                               *)
(***************************************************************************)
EXTENDS Sequences, Naturals

CONSTANT Letters   \* runs of the characters of a name

Digits == {"0", "1", "2"}
DigitValue == [d \in Digits |-> IF d = "0" THEN 0 ELSE IF d = "1" THEN 1 ELSE 2]

\* The three tables of characters that are not in a word.
nw == {" ", "tab", "nl", "#", ";", "&", "|", "^", "$", "=", "bq", "'", "!",
       "{", "}", "(", ")", "<", ">", "\\"}
Meta(s, c) ==
  IF s.numeric THEN c \notin Digits
  ELSE IF s.dollar THEN c \notin Letters \cup Digits \cup {"%", "*", "-"}
  ELSE c \in nw

Keyword == [k \in {"fn", "for", "local", "let", "~~", "%closure", "@", "~"} |->
              CASE k = "fn" -> "FN" [] k = "for" -> "FOR" [] k = "local" -> "LOCAL"
                [] k = "let" -> "LET" [] k = "~~" -> "EXTRACT"
                [] k = "%closure" -> "CLOSURE" [] OTHER -> k]

\* The characters of the escapes that have a letter.
Escaped == [a |-> "bel", b |-> "bs", e |-> "esc", f |-> "ff", n |-> "nl", r |-> "cr", t |-> "tab"]

\* The state that inityy leaves, and numeric, which it does not set.
Fresh(text) ==
  [in |-> text, w |-> "NW", numeric |-> FALSE, dollar |-> FALSE,
   skipequals |-> FALSE, skipdual |-> FALSE]

unsetskip(s) == [s EXCEPT !.skipequals = FALSE, !.skipdual = FALSE]
setskip(s, dual) == [s EXCEPT !.skipequals = TRUE, !.skipdual = @ \/ dual]

After(s, n) == [s EXCEPT !.in = SubSeq(@, n + 1, Len(@))]
At(s, i) == IF i <= Len(s.in) THEN s.in[i] ELSE "eof"

\* An equals sign that is a character of a word.
skip(s, dual, i) ==
  /\ IF dual THEN s.skipdual ELSE s.skipequals
  /\ At(s, i) = "=" /\ At(s, i + 1) # ">"

InWord(s, i, dual) == At(s, i) # "eof" /\ (~Meta(s, At(s, i)) \/ skip(s, dual, i))

WordEnd(s) ==
  CHOOSE n \in 1 .. Len(s.in) :
    (\A i \in 2 .. n : InWord(s, i, FALSE)) /\ ~InWord(s, n + 1, FALSE)

Tok(kind, value, s) == [tok |-> kind, val |-> value, s |-> s]
Nonword(kind, s) == Tok(kind, << >>, [s EXCEPT !.w = "NW"])
LexError(s) == Tok("ERROR", << >>, s)

FreeCaret(s) == Nonword("^", s)

\* A word or a keyword, or a number of one digit.
LexWord(s) ==
  LET n == WordEnd(s)
      str == SubSeq(s.in, 1, n)
      t == After(s, n)
  IN IF s.numeric
     THEN IF n = 1 /\ str[1] \in Digits THEN Tok("INT", DigitValue[str[1]], [t EXCEPT !.w = "RW"]) ELSE LexError(t)
     ELSE IF n = 1 /\ str[1] \in DOMAIN Keyword
     THEN Tok(Keyword[str[1]], << >>, setskip([t EXCEPT !.w = "KW"], FALSE))
     ELSE Tok("WORD", str, setskip([t EXCEPT !.w = "RW"], FALSE))

Qword(str, s) == Tok("QWORD", str, setskip([s EXCEPT !.w = "RW"], FALSE))

\* The word from the quote before i; a doubled quote is one in the word.
RECURSIVE Quoted(_, _, _)
Quoted(s, i, str) ==
  IF At(s, i) = "eof" THEN LexError(After(s, Len(s.in)))
  ELSE IF At(s, i) # "'" THEN Quoted(s, i + 1, Append(str, At(s, i)))
  ELSE IF At(s, i + 1) = "'" THEN Quoted(s, i + 2, Append(str, "'"))
  ELSE Qword(str, After(s, i))

\* The character whose number, in octal or hexadecimal, is in the Digits from i
\* on; zero is the number of none, and that of no digits.
Numbered(s, i) ==
  LET end == CHOOSE n \in i - 1 .. Len(s.in) :
               (\A j \in i .. n : At(s, j) \in Digits) /\ At(s, n + 1) \notin Digits
      number == SelectSeq(SubSeq(s.in, i, end), LAMBDA d : d # "0")
  IN IF number = << >> THEN LexError(s)
     ELSE Qword(<<IF number = <<"1">> /\ At(s, end) = "1" THEN "x01" ELSE "xnn">>, After(s, end))

Backslash(s) ==
  LET c == At(s, 2)
  IN IF c = "eof" THEN LexError(s)
     ELSE IF s.w # "NW" THEN FreeCaret(s)
     ELSE IF c \in DOMAIN Escaped THEN Qword(<<Escaped[c]>>, After(s, 2))
     ELSE IF c \in Digits \cup {"x", "X"} THEN Numbered(s, IF c \in Digits THEN 2 ELSE 3)
     ELSE IF c \in Letters THEN LexError(s)
     ELSE Qword(<<c>>, After(s, 2))

\* The descriptors of a redirection or a pipe, [n], [n=m] or [n=], from i on.
DEFAULT == "default"
CLOSED == "closed"
getfds(s, i, default0, default1) ==
  LET fds(a, b, n) == [ok |-> TRUE, fd |-> <<a, b>>, end |-> n]
  IN IF At(s, i) # "[" THEN fds(default0, default1, i - 1)
     ELSE IF At(s, i + 1) \notin Digits THEN [ok |-> FALSE]
     ELSE IF At(s, i + 2) = "]" THEN fds(At(s, i + 1), default1, i + 2)
     ELSE IF At(s, i + 2) # "=" THEN [ok |-> FALSE]
     ELSE IF At(s, i + 3) = "]" THEN fds(At(s, i + 1), CLOSED, i + 3)
     ELSE IF At(s, i + 3) \in Digits /\ At(s, i + 4) = "]"
     THEN fds(At(s, i + 1), At(s, i + 3), i + 4)
     ELSE [ok |-> FALSE]

Pipe(s) ==
  LET t == unsetskip([s EXCEPT !.w = "NW"])
      p == getfds(s, 2, "1", "0")
  IN IF At(s, 2) = "|" THEN Tok("OROR", << >>, After(t, 2))
     ELSE IF ~p.ok \/ p.fd[2] = CLOSED THEN LexError(t)
     ELSE Tok("PIPE", p.fd, After(t, p.end))

\* The redirection operators, their commands and their descriptors.
Operators ==
  {<< <<"<", ">", ">">>, "%open-append", "0">>, << <<"<", ">">>, "%open-write", "0">>,
   << <<"<", "<", "<">>, "%here", "0">>, << <<"<", "<">>, "%heredoc", "0">>,
   << <<"<">>, "%open", "0">>, << <<">", ">", "<">>, "%open-append", "1">>,
   << <<">", ">">>, "%append", "1">>, << <<">", "<">>, "%open-create", "1">>,
   << <<">">>, "%create", "1">>}

Redirection(s) ==
  LET fit == {o \in Operators : Len(o[1]) <= Len(s.in) /\ SubSeq(s.in, 1, Len(o[1])) = o[1]}
      op == CHOOSE o \in fit : \A q \in fit : Len(q[1]) <= Len(o[1])
      p == getfds(s, Len(op[1]) + 1, op[3], DEFAULT)
  IN IF At(s, 1) = "<" /\ At(s, 2) = "="
     THEN Tok("CALL", << >>, After([s EXCEPT !.numeric = FALSE], 2))
     ELSE IF ~p.ok THEN LexError(s)
     ELSE IF p.fd[2] # DEFAULT THEN Tok("DUP", p.fd, After([s EXCEPT !.w = "NW"], p.end))
     ELSE Tok("REDIR", <<op[2], p.fd[1]>>, After([s EXCEPT !.w = "NW"], p.end))

Newline(s) == Nonword("NL", unsetskip(s))

CommentEnd(s) ==
  CHOOSE n \in 1 .. Len(s.in) :
    (\A i \in 1 .. n : At(s, i) # "nl") /\ At(s, n + 1) \in {"nl", "eof"}

\* The operators of arithmetic; c is not in a number.
Comparisons == [c \in {"<", "=", ">", "!"} |->
                  IF c = "<" THEN "LEQ" ELSE IF c = ">" THEN "GEQ"
                  ELSE IF c = "!" THEN "NEQ" ELSE "="]
Operator(s, c) ==
  IF c \in DOMAIN Comparisons /\ At(s, 2) = "=" THEN Nonword(Comparisons[c], After(s, 2))
  ELSE Nonword(c, After(s, 1))

\* The rest of yylex: c is neither in a word nor an operator of arithmetic.
Other(s, c) ==
  LET one == After(s, 1)
      two == After(s, 2)
      d == At(s, 2)
  IN IF c \in {"bq", "!", "$", "'"} /\ s.w # "NW" THEN FreeCaret(s)
     ELSE CASE c = "!" -> Tok("!", << >>, [one EXCEPT !.w = "KW"])
     [] c = "bq" ->
          IF d = "bq" THEN Tok("BACKBACK", << >>, [two EXCEPT !.numeric = FALSE])
          ELSE IF d = "(" THEN Tok("ARITH_BEGIN", << >>, [two EXCEPT !.numeric = TRUE])
          ELSE Tok("bq", << >>, [one EXCEPT !.numeric = FALSE])
     [] c = "$" ->
          LET t == [s EXCEPT !.dollar = TRUE, !.numeric = FALSE]
          IN IF d = "#" THEN Tok("COUNT", << >>, After(t, 2))
             ELSE IF d = "^" THEN Tok("FLAT", << >>, After(t, 2))
             ELSE IF d = "&" THEN Tok("PRIM", << >>, After(t, 2))
             ELSE Tok("$", << >>, After(t, 1))
     [] c = "'" -> Quoted(s, 2, << >>)
     [] c = "\\" -> Backslash(s)
     [] c = "#" ->
          LET t == After(s, CommentEnd(s))
          IN IF t.in = << >> THEN Tok("ENDFILE", << >>, t) ELSE Newline(After(t, 1))
     [] c = "nl" -> Newline(one)
     [] c = "(" -> Nonword(IF s.w = "RW" THEN "SUB" ELSE "(", one)
     [] c \in {";", "{"} -> Nonword(c, unsetskip(one))
     [] c \in {")", "}", "^"} -> Nonword(c, one)
     [] c = "=" -> IF d = ">" THEN Nonword("PASS", unsetskip(two))
                   ELSE Nonword("=", setskip(one, TRUE))
     [] c = "&" -> IF d = "&" THEN Nonword("ANDAND", unsetskip(two))
                   ELSE Nonword("&", unsetskip(one))
     [] c = "|" -> Pipe(s)
     [] c \in {"<", ">"} -> Redirection(s)
     [] OTHER -> Nonword(c, one)

RECURSIVE Token(_)
Token(s) ==
  LET c == At(s, 1)
      arithmetic == s.numeric /\ \/ c \in {"<", "=", ">", "-", "+", "*", "/", "%"}
                                 \/ c = "!" /\ At(s, 2) = "="
  IN IF c \in {" ", "tab"} THEN Token([After(s, 1) EXCEPT !.w = "NW"])
     ELSE IF c = "\\" /\ At(s, 2) = "nl" THEN Token([After(s, 2) EXCEPT !.w = "NW"])
     ELSE IF c = "eof" THEN Tok("ENDFILE", << >>, s)
     ELSE IF InWord(s, 1, TRUE) THEN IF s.w # "NW" THEN FreeCaret(s) ELSE LexWord(s)
     ELSE IF arithmetic THEN Operator(s, c)
     ELSE Other(s, c)

\* A dollar sign is about the next token only.
Settled(r) ==
  IF r.tok \in {"$", "COUNT", "FLAT", "PRIM"} THEN r ELSE [r EXCEPT !.s.dollar = FALSE]
yylex(s) == Settled(Token(s))
=============================================================================
