------------------------------- MODULE Input --------------------------------
(***************************************************************************)
(* One input source (input.c): the buffer that a read or a string fills,   *)
(* the characters the lexer pushes back into it or, when they are not the  *)
(* ones the buffer holds, beside it, and the fill routine that is called   *)
(* when the buffer is used up.                                             *)
(*                                                                         *)
(* The lexer is its client: it gets characters and pushes the last one or  *)
(* the last two back (token.c), or a space for a backslash and a newline.  *)
(***************************************************************************)
EXTENDS Sequences, Naturals

CONSTANTS
  Char,       \* characters but the four below
  NUL, SPACE, BACKSLASH, NL, EOF,
  Null,       \* no fill routine, no saved buffer
  Thrown,     \* what GETC returns when an exception leaves it
  MAXUNGET,
  MaxText,    \* bound: characters in the file or the string
  MaxRead     \* bound: characters in one read (BUFSIZE)

Chars == Char \cup {SPACE, BACKSLASH, NL}
Fills == {"fdfill", "stringfill", "eoffill", "ungetfill"}

ASSUME InputAssumption ==
  /\ NUL \notin Chars \cup {EOF} /\ EOF \notin Chars
  /\ Null \notin Nat \cup Fills
  /\ MAXUNGET \in Nat \ {0}

VARIABLES
  unread,          \* the file's characters that no read has returned
  data, buf, rbuf, \* bufbegin[0 .. bufend), the place in it, and the saved one
  fill, rfill,     \* the fill routine and the saved one
  unget,           \* the characters pushed back, the last one at the end
  verbose,         \* run_echoinput
  getting,         \* inside GETC
  echo,            \* this GETC prints what it gets
  got,             \* what GETC returned last
  held,            \* the last characters got, which the lexer may push back
  fed, echoed      \* history: what was read, and what was printed

vars == <<unread, data, buf, rbuf, fill, rfill, unget, verbose, getting, echo,
          got, held, fed, echoed>>
buffer == <<data, buf, rbuf, fill, rfill, unget>>

Texts == UNION {[1 .. n -> Chars \cup {NUL}] : n \in 0 .. MaxText}

\* runfd and runstring, which leave the characters in the file and in the
\* buffer. A string has no NUL in it.
Init ==
  /\ \/ /\ fill = "fdfill" /\ data = << >>
        /\ unread \in Texts
     \/ /\ fill = "stringfill" /\ unread = << >>
        /\ data \in {t \in Texts : \A i \in DOMAIN t : t[i] # NUL}
  /\ buf = 0 /\ rbuf = Null /\ rfill = Null /\ unget = << >>
  /\ verbose \in BOOLEAN
  /\ getting = FALSE /\ echo = FALSE /\ got = Thrown /\ held = << >>
  /\ fed = data /\ echoed = << >>

-----------------------------------------------------------------------------
\* GETC: get, or getverbose, which prints nothing that was pushed back.
Getc ==
  /\ ~getting
  /\ getting' = TRUE
  /\ echo' = (verbose /\ fill # "ungetfill")
  /\ UNCHANGED <<unread, buffer, verbose, got, held, fed, echoed>>

\* Only the last two characters are ever pushed back.
Hold(c) == held' = (IF Len(held) < MAXUNGET THEN held ELSE Tail(held)) \o <<c>>

\* The loop in get drops a NUL and goes on.
Return(c) ==
  /\ UNCHANGED <<verbose, echo>>
  /\ \/ c = NUL /\ UNCHANGED <<getting, got, held, echoed>>
     \/ /\ c # NUL
        /\ getting' = FALSE /\ got' = c
        /\ Hold(c)
        /\ echoed' = IF echo /\ c # EOF THEN Append(echoed, c) ELSE echoed

GetBuffered ==
  /\ getting /\ buf < Len(data)
  /\ buf' = buf + 1
  /\ Return(data[buf + 1])
  /\ UNCHANGED <<unread, data, rbuf, fill, rfill, unget, fed>>

Filling(f) == getting /\ buf = Len(data) /\ fill = f

\* The buffer is taken up again with the last of n characters.
TakeUp(n) ==
  IF n = 1
  THEN fill' = rfill /\ rfill' = Null /\ buf' = rbuf /\ rbuf' = Null
  ELSE UNCHANGED <<fill, rfill, buf, rbuf>>

ungetfill ==
  LET n == Len(unget)
  IN /\ Filling("ungetfill")
     /\ unget' = SubSeq(unget, 1, n - 1)
     /\ TakeUp(n)
     /\ Return(unget[n])
     /\ UNCHANGED <<unread, data, fed>>

eoffill ==
  /\ Filling("eoffill")
  /\ Return(EOF)
  /\ UNCHANGED <<unread, buffer, fed>>

stringfill ==
  /\ Filling("stringfill")
  /\ fill' = "eoffill"
  /\ Return(EOF)
  /\ UNCHANGED <<unread, data, buf, rbuf, rfill, unget, fed>>

\* A read that a signal interrupts without an exception is done again, but
\* for callreadlineNull below.
fdfill ==
  /\ Filling("fdfill") /\ unread # << >>
  /\ \E n \in 1 .. MaxRead :
       /\ n <= Len(unread)
       /\ data' = SubSeq(unread, 1, n)
       /\ unread' = SubSeq(unread, n + 1, Len(unread))
       /\ fed' = fed \o SubSeq(unread, 1, n)
  /\ buf' = 1
  /\ Return(Head(unread))
  /\ UNCHANGED <<rbuf, fill, rfill, unget>>

fdfillEnd ==
  /\ Filling("fdfill") /\ unread = << >>
  /\ fill' = "eoffill"
  /\ Return(EOF)
  /\ UNCHANGED <<unread, data, buf, rbuf, rfill, unget, fed>>

\* An interactive es with readline: callreadline() gives no line when a signal
\* interrupts it, also one without an effect, and no line is the end.
callreadlineNull ==
  /\ Filling("fdfill") /\ unread # << >>
  /\ fill' = "eoffill" /\ unread' = << >>
  /\ Return(EOF)
  /\ UNCHANGED <<data, buf, rbuf, rfill, unget, fed>>

Throw ==
  /\ getting' = FALSE /\ got' = Thrown /\ held' = << >>
  /\ UNCHANGED <<data, buf, rbuf, rfill, unget, verbose, echo, fed, echoed>>

\* The read fails: the descriptor is closed, and fail() leaves the parser.
fdfillFails ==
  /\ Filling("fdfill")
  /\ fill' = "eoffill" /\ unread' = << >>
  /\ Throw

\* SIGCHK() after the read throws, and what was read is in no buffer.
fdfillThrows ==
  /\ Filling("fdfill")
  /\ \E n \in 0 .. MaxRead :
       /\ n <= Len(unread)
       /\ unread' = SubSeq(unread, n + 1, Len(unread))
  /\ UNCHANGED fill
  /\ Throw

-----------------------------------------------------------------------------
\* Mutants: the character is not compared; or it is stepped back to with es -v.
StepsBackAnywhere(c) == 0 < buf /\ ~verbose
StepsBackEchoing(c) == 0 < buf /\ data[buf] = c

\* unget: step back in the buffer if it holds c there, and otherwise put the
\* buffer aside.
StepsBack(c) == 0 < buf /\ data[buf] = c /\ ~verbose

Push(c) ==
  \/ /\ unget # << >>
     /\ unget' = Append(unget, c)
     /\ UNCHANGED <<data, buf, rbuf, fill, rfill>>
  \/ /\ unget = << >> /\ StepsBack(c)
     /\ buf' = buf - 1
     /\ UNCHANGED <<data, rbuf, fill, rfill, unget>>
  \/ /\ unget = << >> /\ ~StepsBack(c)
     /\ rfill' = fill /\ fill' = "ungetfill"
     /\ rbuf' = buf /\ buf' = Len(data)
     /\ unget' = <<c>>
     /\ UNCHANGED data

\* UNGETC(c) for the character that was got last, the lexer's lookahead.
Ungetc ==
  /\ ~getting /\ held # << >>
  /\ Push(held[Len(held)])
  /\ held' = SubSeq(held, 1, Len(held) - 1)
  /\ UNCHANGED <<unread, verbose, getting, echo, got, fed, echoed>>

\* A backslash and a newline are read as a space (token.c:367).
UngetSpace ==
  /\ ~getting /\ held = <<BACKSLASH, NL>>
  /\ Push(SPACE)
  /\ held' = << >>
  /\ UNCHANGED <<unread, verbose, getting, echo, got, fed, echoed>>

Next ==
  \/ Getc \/ GetBuffered \/ ungetfill \/ eoffill \/ stringfill
  \/ fdfill \/ fdfillEnd \/ callreadlineNull \/ fdfillFails \/ fdfillThrows
  \/ Ungetc \/ UngetSpace

Spec == Init /\ [][Next]_vars
=============================================================================
