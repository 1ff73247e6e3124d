------------------------------ MODULE HereDoc -------------------------------
(***************************************************************************)
(* Here documents (heredoc.c): a document is read up to a line that is the *)
(* marker, and a dollar sign in it starts a variable unless the marker was *)
(* quoted. The documents of a line are queued until its end.               *)
(***************************************************************************)
EXTENDS Sequences, Naturals, SequencesExt

CONSTANTS
  NameChars,    \* those that dnw[] lets be in a variable's name
  OtherChars,   \* those that are not, but the three below
  NL,
  Markers,      \* the markers tried; no marker has a newline in it
  MaxText       \* bound: characters after the command line

DOLLAR == "$"
CARET == "^"

VARIABLE text   \* what follows the command line

Lit(s) == [kind |-> "nQword", s |-> s]
Var(s) == [kind |-> "nVar", s |-> s]
Error == [doc |-> << >>, rest |-> << >>, ok |-> FALSE]

From(t, i) == SubSeq(t, i, Len(t))

\* The loop that compares a line with the marker stops at the first character
\* that is not the same.
Agree(t, eof) ==
  CHOOSE k \in 0 .. Len(eof) :
    /\ k <= Len(t) /\ SubSeq(t, 1, k) = SubSeq(eof, 1, k)
    /\ k < Len(eof) => k = Len(t) \/ t[k + 1] # eof[k + 1]

NameEnd(t) ==
  CHOOSE n \in 0 .. Len(t) :
    /\ \A i \in 1 .. n : t[i] \in NameChars
    /\ n < Len(t) => t[n + 1] \notin NameChars

\* Mutant: what a line has in common with the marker is not in the document.
PartialForgotten(eof, k, buf) == buf

\* A line begins with k characters of the marker.
Partial(eof, k, buf) == buf \o SubSeq(eof, 1, k)

Sealed(tree, buf) == IF buf = << >> THEN tree ELSE Append(tree, Lit(buf))

RECURSIVE Line(_, _, _, _, _), Chars(_, _, _, _, _)

\* The start of a line: the marker, or a line that may begin like it.
Line(t, eof, quoted, tree, buf) ==
  LET k == Agree(t, eof)
      rest == From(t, k + 1)
  IN IF k = Len(eof) /\ (rest = << >> \/ Head(rest) = NL)
     THEN [doc |-> IF buf = << >> /\ tree # << >> THEN tree ELSE Append(tree, Lit(buf)),
           rest |-> From(rest, 2), ok |-> TRUE]
     ELSE Chars(rest, eof, quoted, tree, Partial(eof, k, buf))

\* The rest of a line. getherevar reads a name, which may be empty, and the
\* caret after it: what it compares with 0 is the room its buffer has. (Where
\* the text ends with a name dnw[] is read at EOF, which is -1; whether or not
\* the name ends there, no document does.)
Chars(t, eof, quoted, tree, buf) ==
  IF t = << >> THEN Error
  ELSE IF Head(t) = DOLLAR /\ ~quoted /\ (Len(t) = 1 \/ t[2] # DOLLAR)
  THEN LET n == NameEnd(Tail(t))
           after == From(t, n + 2)
           caret == after # << >> /\ Head(after) = CARET
       IN Chars(IF caret THEN Tail(after) ELSE after, eof, quoted,
                Append(Sealed(tree, buf), Var(SubSeq(t, 2, n + 1))), << >>)
  ELSE LET double == Head(t) = DOLLAR /\ ~quoted
           rest == From(t, IF double THEN 3 ELSE 2)
       IN IF Head(t) = NL THEN Line(rest, eof, quoted, tree, Append(buf, NL))
          ELSE Chars(rest, eof, quoted, tree, Append(buf, Head(t)))

snarfheredoc(t, eof, quoted) == Line(t, eof, quoted, << >>, << >>)

\* A document is put in front of the others that wait for the end of the line.
queueheredoc(hereq, marker) == <<marker>> \o hereq

\* What readheredocs puts in the places of the markers, in the queue's order.
RECURSIVE readheredocs(_, _)
readheredocs(t, hereq) ==
  IF hereq = << >> THEN << >>
  ELSE LET d == snarfheredoc(t, Head(hereq).eof, Head(hereq).quoted)
       IN IF ~d.ok THEN <<Error>> ELSE <<d>> \o readheredocs(d.rest, Tail(hereq))

HereInit == text = << >>
HereNext ==
  /\ Len(text) < MaxText
  /\ \E c \in NameChars \cup OtherChars \cup {DOLLAR, CARET, NL} : text' = Append(text, c)

-----------------------------------------------------------------------------
\* The places where a line is the marker.
MarkerLines(t, eof) ==
  {i \in 1 .. Len(t) + 1 :
     /\ i = 1 \/ t[i - 1] = NL
     /\ i + Len(eof) <= Len(t) + 1
     /\ SubSeq(t, i, i + Len(eof) - 1) = eof
     /\ i + Len(eof) = Len(t) + 1 \/ t[i + Len(eof)] = NL}

Least(S) == CHOOSE i \in S : \A j \in S : i <= j

\* What the parts of a document stand for: each character for itself but a
\* dollar sign, which takes the name after it, if there is one, and a caret
\* after the name, and a pair of which is one.
RECURSIVE Expanded(_)
Expanded(b) ==
  IF b = << >> THEN << >>
  ELSE IF Head(b) # DOLLAR THEN <<Lit(<<Head(b)>>)>> \o Expanded(Tail(b))
  ELSE IF Len(b) > 1 /\ b[2] = DOLLAR THEN <<Lit(<<DOLLAR>>)>> \o Expanded(From(b, 3))
  ELSE LET n == NameEnd(Tail(b))
           after == From(b, n + 2)
       IN <<Var(SubSeq(b, 2, n + 1))>>
            \o Expanded(IF after # << >> /\ Head(after) = CARET THEN Tail(after) ELSE after)

Plain(b) == [i \in DOMAIN b |-> Lit(<<b[i]>>)]

\* Literal parts cut into characters.
Pieces(doc) ==
  FlattenSeq([i \in DOMAIN doc |-> IF doc[i].kind = "nVar" THEN <<doc[i]>> ELSE Plain(doc[i].s)])

DocumentRead(d, t, eof, quoted) ==
  LET ends == MarkerLines(t, eof)
      end == Least(ends)
      body == SubSeq(t, 1, end - 1)
      pieces == IF quoted THEN Plain(body) ELSE Expanded(body)
  IN IF ends = {} THEN ~d.ok
     ELSE /\ d.ok
          /\ Pieces(d.doc) = pieces
          /\ d.rest = From(t, end + Len(eof) + 1)

\* A here document is the lines before the first line that is its marker and
\* nothing else, also when other lines begin like it, with the variables and
\* the doubled dollar signs of those lines if the marker was not quoted; what
\* follows the marker's line is left, for the next document of the line, the
\* last one typed being read first (snarfheredoc, getherevar, readheredocs).
HereDocsRead ==
  \A m1, m2 \in [eof : Markers, quoted : BOOLEAN] :
    LET docs == readheredocs(text, queueheredoc(queueheredoc(<< >>, m1), m2))
    IN /\ DocumentRead(docs[1], text, m2.eof, m2.quoted)
       /\ docs[1].ok => DocumentRead(docs[2], docs[1].rest, m1.eof, m1.quoted)

\* A dollar sign that no name follows makes a document an error.
\* (heredoc.c:27: "null variable name in here document")
NullNamesRefused ==
  \A eof \in Markers :
    LET d == snarfheredoc(text, eof, FALSE)
    IN d.ok => \A i \in DOMAIN d.doc : d.doc[i] # Var(<< >>)
=============================================================================
