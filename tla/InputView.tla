----------------------------- MODULE InputView ------------------------------
(***************************************************************************)
(* What Input must do: be the stream of characters of Stream, whatever the *)
(* reads return and whatever is pushed back.                               *)
(***************************************************************************)
EXTENDS Input, SequencesExt

\* What get leaves of the first n characters of s, and of all of them.
Kept(s) ==
  LET kept[n \in 0 .. Len(s)] ==
        IF n = 0 THEN << >>
        ELSE IF s[n] = NUL THEN kept[n - 1] ELSE Append(kept[n - 1], s[n])
  IN kept
NoNuls(s) == Kept(s)[Len(s)]

\* The buffer's rest, which is put aside while there are pushed back characters.
Rest == SubSeq(data, (IF rbuf = Null THEN buf ELSE rbuf) + 1, Len(data))

Pending == Reverse(unget) \o NoNuls(Rest) \o NoNuls(unread)

Abstract ==
  INSTANCE Stream WITH Char <- Chars, pending <- Pending, Depth <- MAXUNGET,
                       Join <- <<BACKSLASH, NL>>, Blank <- SPACE

\* Every character is got once and in order, and again, itself, for each time it
\* was pushed back, across reads of any length, NULs and the end of the file
\* (get, unget and the fill routines of input.c), up to a line that readline
\* is interrupted in.
StreamRefined == [][Abstract!Next \/ callreadlineNull]_<<Pending, got, held>>

\* The same also where readline is interrupted: a signal that the shell ignores
\* takes nothing of the file away. (doc/es.1:1706-1709: "A signal prefixed by a
\* slash (/) is ignored in the current shell, but retains default behavior in
\* child processes"; fdfill, callreadline)
IgnoredSignalsEndNothing == [][Abstract!Next]_<<Pending, got, held>>

\* What unget and ungetfill assert, and what parse() takes from ISEOF: there
\* is room for what the lexer pushes back, the buffer is aside exactly while
\* something is pushed back, and at eoffill there is nothing left. With es -v,
\* what is printed is what was read up to the place the lexer has reached, every
\* character once however often it was pushed back (getverbose, and unget,
\* which never steps back then).
PushbackIsSound ==
  /\ Len(unget) <= MAXUNGET
  /\ (unget # << >>) = (fill = "ungetfill")
  /\ (unget # << >>) = (rfill # Null /\ rbuf # Null)
  /\ fill = "eoffill" => Pending = << >>
  /\ verbose => echoed \o NoNuls(Rest) = NoNuls(fed)
=============================================================================
