------------------------------- MODULE Stream -------------------------------
(***************************************************************************)
(* What an input source promises the lexer: the characters of a file or a  *)
(* string one after the other, those that were pushed back first, and the  *)
(* end of file for ever once they are used up.                             *)
(***************************************************************************)
EXTENDS Sequences, Naturals

CONSTANTS
  Char,      \* the characters the lexer sees
  EOF,       \* the end of file
  Thrown,    \* what GETC returns when an exception leaves it
  Join, Blank,  \* two characters that are read as one, and that one
  Depth      \* how many of the last characters the lexer may push back

VARIABLES
  pending,   \* what is still to be got, including what was pushed back
  got,       \* what GETC returned last
  held       \* what it returned since an exception and may be pushed back

Init == pending \in Seq(Char \cup {EOF}) /\ got = Thrown /\ held = << >>

Hold(c) == held' = (IF Len(held) < Depth THEN held ELSE Tail(held)) \o <<c>>

\* GETC: the next character, and EOF if there is none.
Get ==
  \/ /\ pending # << >>
     /\ got' = Head(pending)
     /\ pending' = Tail(pending)
     /\ Hold(got')
  \/ /\ pending = << >>
     /\ got' = EOF
     /\ Hold(EOF)
     /\ UNCHANGED pending

\* UNGETC(c): c, which was got last or which the last two are read as, is got
\* next.
Unget ==
  /\ UNCHANGED got
  /\ \/ /\ held # << >>
        /\ pending' = <<held[Len(held)]>> \o pending
        /\ held' = SubSeq(held, 1, Len(held) - 1)
     \/ /\ held = Join
        /\ pending' = <<Blank>> \o pending
        /\ held' = << >>

\* A read that fails, or that a signal's exception leaves, loses what it read
\* and what could have been read, and nothing before that.
Lose ==
  /\ got' = Thrown /\ held' = << >>
  /\ \E n \in 0 .. Len(pending) :
       pending' = SubSeq(pending, n + 1, Len(pending))

Next == Get \/ Unget \/ Lose

Spec == Init /\ [][Next]_<<pending, got, held>>
=============================================================================
