---------------------------- MODULE ReadingProofs ----------------------------
(***************************************************************************)
(* Proofs about reading. An input source is the stream of its characters,  *)
(* and what unget and ungetfill assert holds: for files and strings of any *)
(* length, reads of any size, and any MAXUNGET. The inputs stay nested as  *)
(* the frames that run them, and no parse or exception fails an assertion, *)
(* however deep commands, parses and catchers are nested (input.c).        *)
(***************************************************************************)
EXTENDS InputView, Parser, SequenceTheorems, Induction

Text == Chars \cup {NUL}
Got == Chars \cup {EOF}

\* The fill routine and the place in the buffer, also when they are aside.
Source == IF unget = << >> THEN fill ELSE rfill
Place == IF rbuf = Null THEN buf ELSE rbuf

Typed ==
  /\ unread \in Seq(Text) /\ data \in Seq(Text) /\ fed \in Seq(Text)
  /\ buf \in 0 .. Len(data) /\ rbuf \in (0 .. Len(data)) \cup {Null}
  /\ fill \in Fills /\ rfill \in Fills \cup {Null}
  /\ unget \in Seq(Got) /\ held \in Seq(Got) /\ echoed \in Seq(Chars)
  /\ verbose \in BOOLEAN /\ getting \in BOOLEAN /\ echo \in BOOLEAN

\* What the lexer may push back fits, and while something is pushed back the
\* buffer is aside and looks used up.
Aside ==
  /\ Len(unget) + Len(held) <= MAXUNGET
  /\ IF unget = << >>
     THEN fill # "ungetfill" /\ rfill = Null /\ rbuf = Null
     ELSE /\ fill = "ungetfill" /\ buf = Len(data)
          /\ rfill \in Fills \ {"ungetfill"} /\ rbuf \in 0 .. Len(data)

\* At the end nothing is left, and nothing but the end of the file is pushed
\* back first: no buffer holds it, so none is stepped back in.
AtEnd ==
  /\ Source = "stringfill" => unread = << >>
  /\ Source = "eoffill" =>
       /\ unread = << >> /\ Place = Len(data)
       /\ IF unget = << >> THEN held = << >> \/ held[Len(held)] = EOF
          ELSE unget[1] = EOF

\* GETC decides once what to print, and prints the buffer up to its place.
Echoes ==
  /\ getting => (echo <=> verbose /\ fill # "ungetfill")
  /\ verbose => echoed \o NoNuls(Rest) = NoNuls(fed)

IInv == Typed /\ Aside /\ AtEnd /\ Echoes

-----------------------------------------------------------------------------
(* Sequences.                                                              *)

LEMMA AppendConcat ==
  \A s, t \in Seq(Chars), c \in Chars : Append(s \o t, c) = s \o Append(t, c)
<1> SUFFICES ASSUME NEW s \in Seq(Chars), NEW t \in Seq(Chars), NEW c \in Chars
             PROVE  Append(s \o t, c) = s \o Append(t, c)
  OBVIOUS
<1>1. s \o t \in Seq(Chars) /\ <<c>> \in Seq(Chars)
  BY ConcatProperties
<1>2. Append(s \o t, c) = (s \o t) \o <<c>> /\ Append(t, c) = t \o <<c>>
  BY <1>1, AppendIsConcat
<1> QED
  BY <1>1, <1>2, ConcatAssociative

-----------------------------------------------------------------------------
(* Dropping the NULs.                                                      *)

\* One step of Kept.
Step(s, f, n) == IF n = 0 THEN << >>
                 ELSE IF s[n] = NUL THEN f[n - 1] ELSE Append(f[n - 1], s[n])

\* Kept satisfies its recursive definition: there is a function that does for
\* the first n characters, whatever n is.
LEMMA KeptDef ==
  ASSUME NEW s \in Seq(Text)
  PROVE  Kept(s) = [n \in 0 .. Len(s) |-> Step(s, Kept(s), n)]
<1> DEFINE S == {n \in Nat : \E f : f = [i \in 0 .. n |-> Step(s, f, i)]}
<1>1. 0 \in S
  <2> DEFINE f == [i \in 0 .. 0 |-> << >>]
  <2>1. f = [i \in 0 .. 0 |-> Step(s, f, i)]
    BY DEF Step
  <2> QED
    BY <2>1
<1>2. ASSUME NEW n \in Nat, n \in S PROVE n + 1 \in S
  <2>1. PICK f : f = [i \in 0 .. n |-> Step(s, f, i)]
    BY <1>2
  <2> DEFINE g == [i \in 0 .. n + 1 |-> IF i <= n THEN f[i] ELSE Step(s, f, n + 1)]
  <2>2. ASSUME NEW i \in 0 .. n + 1 PROVE g[i] = Step(s, g, i)
    <3>1. i # 0 => i - 1 \in 0 .. n /\ g[i - 1] = f[i - 1]
      OBVIOUS
    <3>2. Step(s, g, i) = Step(s, f, i)
      BY <3>1 DEF Step
    <3>3. CASE i <= n
      BY <2>1, <3>2, <3>3
    <3>4. CASE ~ (i <= n)
      <4>1. i = n + 1
        BY <3>4
      <4> QED
        BY <3>2, <3>4, <4>1
    <3> QED
      BY <3>3, <3>4
  <2>3. g = [i \in 0 .. n + 1 |-> Step(s, g, i)]
    <3>1. g = [i \in 0 .. n + 1 |-> g[i]]
      OBVIOUS
    <3> HIDE DEF g
    <3> QED
      BY <2>2, <3>1
  <2> HIDE DEF g
  <2> QED
    BY <2>3
<1>3. Len(s) \in S
  <2>1. \A n \in Nat : n \in S
    <3> HIDE DEF S
    <3> QED
      BY <1>1, <1>2, Inductive
  <2> HIDE DEF S
  <2> QED
    BY <2>1, LenProperties
<1>4. \E f : f = [n \in 0 .. Len(s) |-> Step(s, f, n)]
  BY <1>3
<1>5. Kept(s) = CHOOSE f : f = [n \in 0 .. Len(s) |-> Step(s, f, n)]
  BY DEF Kept, Step
<1> HIDE DEF S
<1> QED
  BY <1>4, <1>5

LEMMA KeptType ==
  ASSUME NEW s \in Seq(Text)
  PROVE  \A n \in 0 .. Len(s) : Kept(s)[n] \in Seq(Chars)
<1> DEFINE S == {n \in Nat : n <= Len(s) => Kept(s)[n] \in Seq(Chars)}
<1>1. Len(s) \in Nat /\ \A n \in 1 .. Len(s) : s[n] = NUL \/ s[n] \in Chars
  BY DEF Text
<1>2. \A n \in 0 .. Len(s) : Kept(s)[n] = Step(s, Kept(s), n)
  BY KeptDef
<1>3. 0 \in S
  <2>1. 0 \in 0 .. Len(s)
    BY <1>1
  <2>2. Kept(s)[0] = << >>
    BY <1>2, <2>1 DEF Step
  <2> QED
    BY <2>2, EmptySeq
<1>4. ASSUME NEW n \in Nat, n \in S PROVE n + 1 \in S
  <2> SUFFICES ASSUME n + 1 <= Len(s) PROVE Kept(s)[n + 1] \in Seq(Chars)
    OBVIOUS
  <2>1. Kept(s)[n] \in Seq(Chars)
    BY <1>1, <1>4
  <2>2. Kept(s)[n + 1] = IF s[n + 1] = NUL THEN Kept(s)[n] ELSE Append(Kept(s)[n], s[n + 1])
    BY <1>1, <1>2 DEF Step
  <2>3. s[n + 1] = NUL \/ s[n + 1] \in Chars
    BY <1>1
  <2> QED
    BY <2>1, <2>2, <2>3
<1>5. \A n \in Nat : n \in S
  <2> HIDE DEF S
  <2> QED
    BY <1>3, <1>4, Inductive
<1> QED
  BY <1>1, <1>5

\* NUL aside, what is left of two sequences is what is left of each.
LEMMA NoNulsConcat ==
  ASSUME NEW s \in Seq(Text), NEW t \in Seq(Text)
  PROVE  NoNuls(s \o t) = NoNuls(s) \o NoNuls(t)
<1> DEFINE u == s \o t
           S == {n \in Nat : n <= Len(s) => Kept(u)[n] = Kept(s)[n]}
           T == {n \in Nat : n <= Len(t) => Kept(u)[Len(s) + n] = NoNuls(s) \o Kept(t)[n]}
<1>1. /\ Len(s) \in Nat /\ Len(t) \in Nat /\ u \in Seq(Text) /\ Len(u) = Len(s) + Len(t)
      /\ \A n \in 1 .. Len(s) : u[n] = s[n]
      /\ \A n \in 1 .. Len(t) : u[Len(s) + n] = t[n]
  BY ConcatProperties
<1> HIDE DEF u
<1>2. /\ \A n \in 0 .. Len(s) : Kept(s)[n] = Step(s, Kept(s), n)
      /\ \A n \in 0 .. Len(t) : Kept(t)[n] = Step(t, Kept(t), n)
      /\ \A n \in 0 .. Len(u) : Kept(u)[n] = Step(u, Kept(u), n)
  BY <1>1, KeptDef
<1>3. \A n \in Nat : n \in S
  <2>1. 0 \in S
    <3>1. 0 \in 0 .. Len(s) /\ 0 \in 0 .. Len(u)
      BY <1>1
    <3>2. Kept(u)[0] = << >> /\ Kept(s)[0] = << >>
      BY <1>2, <3>1 DEF Step
    <3> QED
      BY <3>2
  <2>2. ASSUME NEW n \in Nat, n \in S PROVE n + 1 \in S
    <3> SUFFICES ASSUME n + 1 <= Len(s) PROVE Kept(u)[n + 1] = Kept(s)[n + 1]
      OBVIOUS
    <3>1. Kept(u)[n] = Kept(s)[n] /\ u[n + 1] = s[n + 1]
      BY <1>1, <2>2
    <3>2. n + 1 \in 0 .. Len(s) /\ n + 1 \in 0 .. Len(u) /\ n + 1 # 0 /\ (n + 1) - 1 = n
      BY <1>1
    <3>3. /\ Kept(u)[n + 1] = IF u[n + 1] = NUL THEN Kept(u)[n] ELSE Append(Kept(u)[n], u[n + 1])
          /\ Kept(s)[n + 1] = IF s[n + 1] = NUL THEN Kept(s)[n] ELSE Append(Kept(s)[n], s[n + 1])
      BY <1>2, <3>2 DEF Step
    <3> QED
      BY <3>1, <3>3
  <2> HIDE DEF S
  <2> QED
    BY <2>1, <2>2, Inductive
<1>4. NoNuls(s) = Kept(u)[Len(s)] /\ NoNuls(s) \in Seq(Chars)
  BY <1>1, <1>3, KeptType DEF NoNuls
<1>5. \A n \in Nat : n \in T
  <2>1. 0 \in T
    <3>1. 0 \in 0 .. Len(t) /\ Len(s) + 0 = Len(s)
      BY <1>1
    <3>2. Kept(t)[0] = << >>
      BY <1>2, <3>1 DEF Step
    <3>3. NoNuls(s) \o << >> = NoNuls(s)
      BY <1>4, ConcatEmptySeq
    <3> QED
      BY <1>4, <3>1, <3>2, <3>3
  <2>2. ASSUME NEW n \in Nat, n \in T PROVE n + 1 \in T
    <3> SUFFICES ASSUME n + 1 <= Len(t)
                 PROVE  Kept(u)[Len(s) + (n + 1)] = NoNuls(s) \o Kept(t)[n + 1]
      OBVIOUS
    <3>1. Kept(u)[Len(s) + n] = NoNuls(s) \o Kept(t)[n] /\ u[Len(s) + (n + 1)] = t[n + 1]
      BY <1>1, <2>2
    <3>2. /\ n + 1 \in 0 .. Len(t) /\ n + 1 # 0 /\ (n + 1) - 1 = n
          /\ Len(s) + (n + 1) \in 0 .. Len(u) /\ Len(s) + (n + 1) # 0
          /\ (Len(s) + (n + 1)) - 1 = Len(s) + n
      BY <1>1
    <3>3. /\ Kept(u)[Len(s) + (n + 1)] =
               IF t[n + 1] = NUL THEN Kept(u)[Len(s) + n] ELSE Append(Kept(u)[Len(s) + n], t[n + 1])
          /\ Kept(t)[n + 1] = IF t[n + 1] = NUL THEN Kept(t)[n] ELSE Append(Kept(t)[n], t[n + 1])
      BY <1>2, <3>1, <3>2 DEF Step
    <3>4. CASE t[n + 1] = NUL
      BY <3>1, <3>3, <3>4
    <3>5. CASE t[n + 1] # NUL
      <4>1. n + 1 \in 1 .. Len(t) /\ n \in 0 .. Len(t)
        BY <1>1
      <4>2. t[n + 1] \in Chars
        <5>1. t[n + 1] \in Text
          BY <4>1, ElementOfSeq
        <5> QED
          BY <3>5, <5>1 DEF Text
      <4>3. Kept(t)[n] \in Seq(Chars)
        BY <4>1, KeptType
      <4>4. Append(NoNuls(s) \o Kept(t)[n], t[n + 1]) = NoNuls(s) \o Append(Kept(t)[n], t[n + 1])
        BY <1>4, <4>2, <4>3, AppendConcat
      <4> QED
        BY <3>1, <3>3, <3>5, <4>4
    <3> QED
      BY <3>4, <3>5
  <2> HIDE DEF T
  <2> QED
    BY <2>1, <2>2, Inductive
<1>6. Kept(u)[Len(s) + Len(t)] = NoNuls(s) \o Kept(t)[Len(t)]
  BY <1>1, <1>5
<1> QED
  BY <1>1, <1>6 DEF NoNuls, u

\* What is left of no character, and of one.
LEMMA NoNulsFew ==
  /\ NoNuls(<< >>) = << >>
  /\ \A c \in Text : NoNuls(<<c>>) = IF c = NUL THEN << >> ELSE <<c>>
<1>1. NoNuls(<< >>) = << >>
  <2>1. << >> \in Seq(Text) /\ Len(<< >>) = 0
    BY EmptySeq
  <2> DEFINE e == << >>
  <2>2. \A n \in 0 .. Len(e) : Kept(e)[n] = Step(e, Kept(e), n)
    BY <2>1, KeptDef
  <2>3. Kept(e)[0] = << >>
    BY <2>1, <2>2 DEF Step
  <2> QED
    BY <2>1, <2>3 DEF NoNuls
<1>2. ASSUME NEW c \in Text PROVE NoNuls(<<c>>) = IF c = NUL THEN << >> ELSE <<c>>
  <2>1. <<c>> \in Seq(Text) /\ Len(<<c>>) = 1 /\ <<c>>[1] = c
    OBVIOUS
  <2> DEFINE s == <<c>>
  <2> HIDE DEF s
  <2>2. \A n \in 0 .. 1 : Kept(s)[n] = Step(s, Kept(s), n)
    BY <2>1, KeptDef DEF s
  <2>3. Kept(s)[0] = << >> /\ Kept(s)[1] = IF s[1] = NUL THEN Kept(s)[0] ELSE Append(Kept(s)[0], s[1])
    BY <2>2 DEF Step
  <2>4. NoNuls(s) = Kept(s)[1] /\ s[1] = c
    BY <2>1 DEF NoNuls, s
  <2>5. Append(<< >>, c) = <<c>>
    OBVIOUS
  <2> QED
    BY <2>3, <2>4, <2>5 DEF s
<1> QED
  BY <1>1, <1>2

\* The next character of a text that is not used up, and the rest of it.
LEMMA NextOf ==
  ASSUME NEW s \in Seq(Text), NEW k \in 0 .. Len(s), k < Len(s)
  PROVE  /\ s[k + 1] \in Text
         /\ SubSeq(s, k + 1, Len(s)) \in Seq(Text)
         /\ SubSeq(s, k + 2, Len(s)) \in Seq(Text)
         /\ NoNuls(SubSeq(s, k + 1, Len(s))) =
              NoNuls(<<s[k + 1]>>) \o NoNuls(SubSeq(s, k + 2, Len(s)))
<1>1. Len(s) \in Nat /\ k + 1 \in 1 .. Len(s) /\ Len(s) \in k + 1 .. Len(s) /\ (k + 1) + 1 = k + 2
  BY LenProperties
<1>2. s[k + 1] \in Text /\ \A i \in 1 .. Len(s) : s[i] \in Text
  BY <1>1, ElementOfSeq
<1>3. SubSeq(s, k + 1, Len(s)) \in Seq(Text) /\ SubSeq(s, k + 2, Len(s)) \in Seq(Text)
  BY <1>1, <1>2, SubSeqProperties
<1>4. SubSeq(s, k + 1, Len(s)) = <<s[k + 1]>> \o SubSeq(s, k + 2, Len(s))
  BY SMTT(30), <1>1, SubSeqRecursiveFirst
<1>5. <<s[k + 1]>> \in Seq(Text)
  BY <1>2
<1> QED
  BY <1>2, <1>3, <1>4, <1>5, NoNulsConcat

\* A text is split anywhere.
LEMMA SplitAt ==
  ASSUME NEW s \in Seq(Text), NEW n \in 0 .. Len(s)
  PROVE  /\ SubSeq(s, 1, n) \in Seq(Text)
         /\ SubSeq(s, n + 1, Len(s)) \in Seq(Text)
         /\ Len(SubSeq(s, 1, n)) = n
         /\ NoNuls(s) = NoNuls(SubSeq(s, 1, n)) \o NoNuls(SubSeq(s, n + 1, Len(s)))
<1>1. Len(s) \in Nat /\ \A i \in 1 .. Len(s) : s[i] \in Text
  BY LenProperties, ElementOfSeq
<1>2. /\ SubSeq(s, 1, n) \in Seq(Text) /\ SubSeq(s, n + 1, Len(s)) \in Seq(Text)
      /\ Len(SubSeq(s, 1, n)) = n
  BY <1>1, SubSeqProperties
<1>3. SubSeq(s, 1, n) \o SubSeq(s, n + 1, Len(s)) = SubSeq(s, 1, Len(s))
  <2>1. 1 \in 1 .. Len(s) + 1 /\ n \in 1 - 1 .. Len(s) /\ Len(s) \in n .. Len(s)
    BY <1>1
  <2> QED
    BY <2>1, ConcatAdjacentSubSeq
<1>4. SubSeq(s, 1, Len(s)) = s
  BY SubSeqFull
<1>5. NoNuls(SubSeq(s, 1, n) \o SubSeq(s, n + 1, Len(s))) =
        NoNuls(SubSeq(s, 1, n)) \o NoNuls(SubSeq(s, n + 1, Len(s)))
  BY <1>2, NoNulsConcat
<1> QED
  BY <1>2, <1>3, <1>4, <1>5

LEMMA NoNulsType == ASSUME NEW s \in Seq(Text) PROVE NoNuls(s) \in Seq(Chars)
BY KeptType, LenProperties DEF NoNuls

-----------------------------------------------------------------------------
(* The invariant.                                                          *)

\* What is left in the buffer, before and after a character is taken from it.
LEMMA RestFacts ==
  ASSUME Typed
  PROVE  /\ Place \in 0 .. Len(data) /\ Rest = SubSeq(data, Place + 1, Len(data))
         /\ Rest \in Seq(Text) /\ NoNuls(Rest) \in Seq(Chars)
         /\ Place = Len(data) => Rest = << >> /\ NoNuls(Rest) = << >>
<1>1. Len(data) \in Nat /\ Null \notin Nat /\ \A i \in 1 .. Len(data) : data[i] \in Text
  BY LenProperties, ElementOfSeq, InputAssumption DEF Typed
<1>2. Place \in 0 .. Len(data) /\ Rest = SubSeq(data, Place + 1, Len(data))
  BY <1>1 DEF Place, Rest, Typed
<1>3. Rest \in Seq(Text)
  BY <1>1, <1>2, SubSeqProperties
<1>4. Place = Len(data) => Rest = << >>
  BY <1>1, <1>2, SubSeqEmpty
<1> QED
  BY <1>2, <1>3, <1>4, NoNulsType, NoNulsFew

\* What the lexer holds: never more than MAXUNGET characters.
LEMMA HoldFacts ==
  ASSUME Typed, Aside, NEW c \in Got, Hold(c)
  PROVE  /\ held' \in Seq(Got)
         /\ Len(held') <= MAXUNGET /\ Len(held') <= Len(held) + 1
         /\ held' # << >> /\ held'[Len(held')] = c
<1> DEFINE h == IF Len(held) < MAXUNGET THEN held ELSE Tail(held)
<1>1. Len(held) \in Nat /\ Len(unget) \in Nat /\ Len(held) <= MAXUNGET /\ MAXUNGET \in Nat \ {0}
  BY LenProperties, InputAssumption DEF Typed, Aside
<1>2. h \in Seq(Got) /\ Len(h) < MAXUNGET /\ Len(h) <= Len(held)
  <2>1. CASE Len(held) < MAXUNGET
    BY <1>1, <2>1 DEF Typed
  <2>2. CASE ~ (Len(held) < MAXUNGET)
    <3>1. held # << >>
      BY <1>1, <2>2, EmptySeq
    <3>2. Tail(held) \in Seq(Got) /\ Len(Tail(held)) = Len(held) - 1
      BY <3>1, HeadTailProperties DEF Typed
    <3> QED
      BY <1>1, <2>2, <3>2
  <2> QED
    BY <2>1, <2>2
<1>3. held' = h \o <<c>>
  BY DEF Hold
<1> HIDE DEF h
<1>4. <<c>> \in Seq(Got) /\ Len(<<c>>) = 1 /\ <<c>>[1] = c /\ Len(h) \in Nat
  BY <1>2
<1>5. held' \in Seq(Got) /\ Len(held') = Len(h) + 1 /\ held'[Len(h) + 1] = c
  BY <1>2, <1>3, <1>4, ConcatProperties
<1> QED
  BY <1>1, <1>2, <1>4, <1>5, EmptySeq

LEMMA InitInv == ASSUME Init PROVE IInv
<1>1. \A t \in Texts : t \in Seq(Text)
  BY DEF Texts, Text
<1>2. unread \in Seq(Text) /\ data \in Seq(Text) /\ fed = data
  BY <1>1, EmptySeq DEF Init
<1>3. Len(data) \in Nat /\ Len(<< >>) = 0 /\ << >> \in Seq(Got) /\ << >> \in Seq(Chars)
  BY <1>2, LenProperties, EmptySeq
<1>4. Typed
  <2>1. unget \in Seq(Got) /\ held \in Seq(Got) /\ echoed \in Seq(Chars)
    BY <1>3 DEF Init
  <2>2. buf \in 0 .. Len(data) /\ rbuf = Null /\ fill \in Fills /\ rfill = Null
    BY <1>3 DEF Init, Fills
  <2> QED
    BY <1>2, <2>1, <2>2 DEF Init, Typed
<1>5. Aside
  BY <1>3, InputAssumption DEF Init, Aside
<1>6. AtEnd
  BY DEF Init, AtEnd, Source
<1>7. Echoes
  <2>1. Place = 0 /\ Rest = SubSeq(data, 1, Len(data))
    BY <1>4, RestFacts DEF Init, Place
  <2>2. Rest = fed
    BY <1>2, <2>1, SubSeqFull
  <2>3. << >> \o NoNuls(fed) = NoNuls(fed)
    BY <1>2, NoNulsType, ConcatEmptySeq
  <2> QED
    BY <2>2, <2>3 DEF Init, Echoes
<1> QED
  BY <1>4, <1>5, <1>6, <1>7 DEF IInv

LEMMA GetcInv == ASSUME IInv, Getc PROVE IInv'
<1>1. Typed'
  BY DEF IInv, Typed, Getc, buffer
<1>2. Aside' /\ AtEnd'
  BY DEF IInv, Aside, AtEnd, Source, Place, Getc, buffer
<1>3. Echoes'
  BY DEF IInv, Echoes, Rest, Getc, buffer
<1> QED
  BY <1>1, <1>2, <1>3 DEF IInv

\* What holds of a GETC that goes on with the next character, or returns one.
LEMMA ReturnFacts ==
  ASSUME IInv, NEW c \in Text \cup {EOF}, Return(c), getting
  PROVE  /\ held' \in Seq(Got) /\ echoed' \in Seq(Chars)
         /\ UNCHANGED <<verbose, echo>> /\ getting' \in BOOLEAN
         /\ Len(held') <= MAXUNGET /\ Len(held') <= Len(held) + 1
         /\ c # NUL => held' # << >> /\ held'[Len(held')] = c /\ got' = c /\ getting' = FALSE
         /\ c = NUL => UNCHANGED <<getting, got, held, echoed>>
         /\ ~ echo \/ c \in {EOF, NUL} => echoed' = echoed
         /\ echo /\ c \notin {EOF, NUL} => echoed' = Append(echoed, c)
<1>1. Len(held) \in Nat /\ Len(unget) \in Nat /\ Len(held) <= MAXUNGET
  BY LenProperties, InputAssumption DEF IInv, Typed, Aside
<1>2. CASE c = NUL
  BY <1>1, <1>2 DEF Return, IInv, Typed
<1>3. CASE c # NUL
  <2>1. c \in Got /\ Hold(c)
    BY <1>3 DEF Return, Text, Got
  <2>2. echoed' \in Seq(Chars)
    <3>1. CASE echo /\ c # EOF
      <4>1. c \in Chars /\ echoed \in Seq(Chars) /\ echoed' = Append(echoed, c)
        BY <1>3, <2>1, <3>1 DEF Got, Return, IInv, Typed
      <4> QED
        BY <4>1, AppendProperties
    <3>2. CASE ~ (echo /\ c # EOF)
      BY <1>3, <3>2 DEF Return, IInv, Typed
    <3> QED
      BY <3>1, <3>2
  <2> QED
    BY <1>3, <2>1, <2>2, HoldFacts DEF Return, IInv
<1> QED
  BY <1>2, <1>3

LEMMA GetBufferedInv == ASSUME IInv, GetBuffered PROVE IInv'
<1> DEFINE c == data[buf + 1]
<1>1. /\ buf \in Nat /\ Len(data) \in Nat /\ buf < Len(data) /\ buf' = buf + 1 /\ getting
      /\ Return(c) /\ UNCHANGED <<unread, data, rbuf, fill, rfill, unget, fed>>
  BY LenProperties DEF GetBuffered, IInv, Typed
<1>2. c \in Text /\ c # EOF
  <2>1. c \in Text
    BY <1>1, ElementOfSeq DEF IInv, Typed
  <2> QED
    BY <2>1, InputAssumption DEF Text
<1> HIDE DEF c
<1>3. /\ held' \in Seq(Got) /\ echoed' \in Seq(Chars)
      /\ UNCHANGED <<verbose, echo>> /\ getting' \in BOOLEAN
      /\ Len(held') <= MAXUNGET
      /\ c # NUL => ~ getting'
      /\ c = NUL => getting'
      /\ ~ echo \/ c = NUL => echoed' = echoed
      /\ echo /\ c # NUL => echoed' = Append(echoed, c)
  BY <1>1, <1>2, ReturnFacts
<1>4. unget = << >> /\ fill # "ungetfill" /\ rfill = Null /\ rbuf = Null /\ Len(unget) = 0
  BY <1>1 DEF IInv, Aside
<1>5. Typed'
  BY <1>1, <1>3 DEF IInv, Typed
<1>6. Aside'
  BY <1>1, <1>3, <1>4, LenProperties DEF Aside
<1>7. AtEnd'
  BY <1>1, <1>4 DEF IInv, AtEnd, Source, Place
<1>8. Echoes'
  <2>1. echo <=> verbose
    BY <1>1, <1>4 DEF IInv, Echoes
  <2>2. getting' => (echo' <=> verbose' /\ fill' # "ungetfill")
    BY <1>1, <1>3, <1>4, <2>1
  <2>3. ASSUME verbose PROVE echoed' \o NoNuls(Rest)' = NoNuls(fed)'
    <3> DEFINE r == SubSeq(data, buf + 2, Len(data))
    <3>1. r \in Seq(Text) /\ NoNuls(Rest) = NoNuls(<<c>>) \o NoNuls(r)
      <4>1. Rest = SubSeq(data, buf + 1, Len(data))
        BY <1>4 DEF Rest
      <4> QED
        BY <1>1, <4>1, NextOf DEF IInv, Typed, c
    <3>2. Rest' = r
      BY <1>1, <1>4 DEF Rest
    <3>3. NoNuls(r) \in Seq(Chars) /\ echoed \in Seq(Chars)
      BY <3>1, NoNulsType DEF IInv, Typed
    <3> HIDE DEF r
    <3>4. echoed \o (NoNuls(<<c>>) \o NoNuls(r)) = NoNuls(fed)
      BY <2>3, <3>1 DEF IInv, Echoes
    <3>5. CASE c = NUL
      <4>1. NoNuls(<<c>>) \o NoNuls(r) = NoNuls(r)
        BY <1>2, <3>3, <3>5, NoNulsFew, ConcatEmptySeq
      <4> QED
        BY <1>1, <1>3, <3>2, <3>4, <3>5, <4>1
    <3>6. CASE c # NUL
      <4>1. c \in Chars /\ <<c>> \in Seq(Chars)
        BY <1>2, <3>6 DEF Text
      <4>2. echoed' = echoed \o <<c>>
        BY <1>3, <2>1, <2>3, <3>3, <3>6, <4>1, AppendIsConcat
      <4>3. NoNuls(<<c>>) = <<c>>
        BY <1>2, <3>6, NoNulsFew
      <4>4. (echoed \o <<c>>) \o NoNuls(r) = echoed \o (<<c>> \o NoNuls(r))
        BY <3>3, <4>1, ConcatAssociative
      <4> QED
        BY <1>1, <3>2, <3>4, <4>2, <4>3, <4>4
    <3> QED
      BY <3>5, <3>6
  <2> QED
    BY <1>3, <2>2, <2>3 DEF Echoes
<1> QED
  BY <1>5, <1>6, <1>7, <1>8 DEF IInv

\* At the end of a buffer that is not aside, nothing is left in it.
LEMMA UsedUp ==
  ASSUME IInv, NEW f \in Fills \ {"ungetfill"}, Filling(f)
  PROVE  /\ getting /\ fill = f /\ unget = << >> /\ rfill = Null /\ rbuf = Null
         /\ buf = Len(data) /\ Place = Len(data) /\ NoNuls(Rest) = << >> /\ Len(unget) = 0
         /\ (echo <=> verbose)
         /\ verbose => echoed = NoNuls(fed)
<1>1. getting /\ fill = f /\ f # "ungetfill" /\ buf = Len(data)
  BY DEF Filling
<1>2. unget = << >> /\ rfill = Null /\ rbuf = Null
  BY <1>1 DEF IInv, Aside
<1>3. Place = Len(data) /\ NoNuls(Rest) = << >>
  BY <1>1, <1>2, RestFacts DEF Place, IInv
<1>4. echo <=> verbose
  BY <1>1 DEF IInv, Echoes
<1>5. ASSUME verbose PROVE echoed = NoNuls(fed)
  <2>1. echoed \o << >> = NoNuls(fed)
    BY <1>3, <1>5 DEF IInv, Echoes
  <2> QED
    BY <2>1, ConcatEmptySeq DEF IInv, Typed
<1> QED
  BY <1>1, <1>2, <1>3, <1>4, <1>5

\* The end of the file is got, and is all that is got from then on.
LEMMA EndInv ==
  ASSUME IInv, eoffill \/ stringfill \/ fdfillEnd \/ callreadlineNull
  PROVE  IInv'
<1>1. /\ fill \in Fills \ {"ungetfill"} /\ Filling(fill) /\ fill' = "eoffill" /\ Return(EOF)
      /\ UNCHANGED <<data, buf, rbuf, rfill, unget, fed>>
  BY DEF eoffill, stringfill, fdfillEnd, callreadlineNull, buffer, Filling, Fills
<1>2. /\ getting /\ unget = << >> /\ rfill = Null /\ rbuf = Null
      /\ buf = Len(data) /\ Place = Len(data) /\ Len(unget) = 0
  BY <1>1, UsedUp
<1>3. unread' = << >> /\ unread' \in Seq(Text)
  <2>1. unread' = << >>
    BY <1>2 DEF eoffill, stringfill, fdfillEnd, callreadlineNull, IInv, AtEnd, Source, Filling
  <2> QED
    BY <2>1, EmptySeq
<1>4. EOF # NUL
  BY InputAssumption
<1>5. /\ held' \in Seq(Got) /\ echoed' = echoed
      /\ UNCHANGED <<verbose, echo>> /\ getting' = FALSE
      /\ Len(held') <= MAXUNGET /\ held'[Len(held')] = EOF
  BY <1>1, <1>2, <1>4, ReturnFacts
<1>6. Typed'
  BY <1>1, <1>3, <1>5 DEF IInv, Typed, Fills
<1>7. Aside'
  BY <1>1, <1>2, <1>5, LenProperties DEF Aside
<1>8. AtEnd'
  BY <1>1, <1>2, <1>3, <1>5 DEF AtEnd, Source, Place
<1>9. Echoes'
  BY <1>1, <1>5 DEF IInv, Echoes, Rest
<1> QED
  BY <1>6, <1>7, <1>8, <1>9 DEF IInv

\* What is pushed back: its last character is got, and the rest stays.
LEMMA UngetFacts ==
  ASSUME IInv, Filling("ungetfill")
  PROVE  LET n == Len(unget) IN
         /\ getting /\ fill = "ungetfill" /\ unget # << >> /\ n \in Nat \ {0}
         /\ rfill \in Fills \ {"ungetfill"} /\ rbuf \in 0 .. Len(data)
         /\ unget[n] \in Got /\ unget[n] # NUL
         /\ SubSeq(unget, 1, n - 1) \in Seq(Got) /\ Len(SubSeq(unget, 1, n - 1)) = n - 1
         /\ n = 1 => SubSeq(unget, 1, n - 1) = << >>
         /\ n > 1 => SubSeq(unget, 1, n - 1) # << >> /\ SubSeq(unget, 1, n - 1)[1] = unget[1]
<1> DEFINE n == Len(unget)
           u == SubSeq(unget, 1, n - 1)
<1>1. getting /\ fill = "ungetfill" /\ unget # << >> /\ unget \in Seq(Got)
  BY DEF Filling, IInv, Aside, Typed
<1>2. n \in Nat \ {0} /\ \A i \in 1 .. n : unget[i] \in Got
  BY <1>1, EmptySeq, ElementOfSeq
<1>3. unget[n] \in Got /\ unget[n] # NUL
  BY <1>2, InputAssumption DEF Got
<1>4. u \in Seq(Got) /\ Len(u) = n - 1 /\ \A i \in 1 .. n - 1 : u[i] = unget[i]
  <2>1. \A i \in 1 .. n - 1 : unget[i] \in Got
    BY <1>2
  <2>2. /\ u \in Seq(Got) /\ Len(u) = IF 1 <= n - 1 THEN n - 1 - 1 + 1 ELSE 0
        /\ \A i \in 1 .. n - 1 - 1 + 1 : u[i] = unget[1 + i - 1]
    BY <1>2, <2>1, SubSeqProperties
  <2>3. Len(u) = n - 1
    <3> HIDE DEF n, u
    <3>1. n - 1 - 1 + 1 = n - 1 /\ (1 <= n - 1 \/ n - 1 = 0)
      BY <1>2
    <3> QED
      BY <2>2, <3>1
  <2>4. ASSUME NEW i \in 1 .. n - 1 PROVE u[i] = unget[i]
    <3>1. i \in 1 .. n - 1 - 1 + 1 /\ 1 + i - 1 = i
      BY <1>2
    <3> HIDE DEF n, u
    <3> QED
      BY <2>2, <3>1
  <2> QED
    BY <2>2, <2>3, <2>4
<1>5. n = 1 => u = << >>
  BY <1>2, SubSeqEmpty
<1>6. n > 1 => u # << >> /\ u[1] = unget[1]
  <2> SUFFICES ASSUME n > 1 PROVE u # << >> /\ u[1] = unget[1]
    OBVIOUS
  <2>1. 1 \in 1 .. n - 1 /\ Len(u) # 0
    BY <1>2, <1>4
  <2> HIDE DEF u
  <2> QED
    BY <1>4, <2>1, EmptySeq
<1> QED
  BY <1>1, <1>2, <1>3, <1>4, <1>5, <1>6 DEF IInv, Aside

LEMMA ungetfillInv == ASSUME IInv, ungetfill PROVE IInv'
<1> DEFINE n == Len(unget)
           c == unget[n]
<1>1. /\ getting /\ fill = "ungetfill" /\ unget # << >> /\ n \in Nat \ {0}
      /\ rfill \in Fills \ {"ungetfill"} /\ rbuf \in 0 .. Len(data)
      /\ c \in Got /\ c # NUL
      /\ unget' \in Seq(Got) /\ Len(unget') = n - 1
      /\ n = 1 => unget' = << >>
      /\ n > 1 => unget' # << >> /\ unget'[1] = unget[1]
      /\ TakeUp(n) /\ Return(c) /\ UNCHANGED <<unread, data, fed>>
  BY UngetFacts DEF ungetfill
<1>2. /\ held' \in Seq(Got) /\ echoed' = echoed
      /\ UNCHANGED <<verbose, echo>> /\ getting' = FALSE
      /\ Len(held') <= MAXUNGET /\ Len(held') <= Len(held) + 1
      /\ held' # << >> /\ held'[Len(held')] = c
  <2>1. c \in Text \cup {EOF}
    BY <1>1 DEF Text, Got
  <2>2. ~ echo
    BY <1>1 DEF IInv, Echoes
  <2> QED
    BY <1>1, <2>1, <2>2, ReturnFacts
<1>3. Len(unget) + Len(held) <= MAXUNGET /\ Len(held) \in Nat /\ Len(held') \in Nat
  BY <1>2, LenProperties DEF IInv, Aside, Typed
<1>4. Null \notin Nat /\ Null \notin Fills /\ Len(data) \in Nat
  BY InputAssumption, LenProperties DEF IInv, Typed
<1>5. UNCHANGED <<Source, Place>>
  <2>1. CASE n = 1
    BY <1>1, <1>4, <2>1 DEF Source, Place, TakeUp
  <2>2. CASE n # 1
    BY <1>1, <2>2 DEF Source, Place, TakeUp
  <2> QED
    BY <2>1, <2>2
<1>6. Typed'
  <2>1. CASE n = 1
    BY <1>1, <1>2, <2>1 DEF IInv, Typed, TakeUp
  <2>2. CASE n # 1
    BY <1>1, <1>2, <2>2 DEF IInv, Typed, TakeUp
  <2> QED
    BY <2>1, <2>2
<1>7. Aside'
  <2>1. Len(unget') + Len(held') <= MAXUNGET
    <3>1. Len(unget') = Len(unget) - 1 /\ Len(unget) \in Nat \ {0} /\ Len(held') <= Len(held) + 1
      BY <1>1, <1>2
    <3>2. MAXUNGET \in Nat
      BY InputAssumption
    <3> QED
      BY <1>3, <3>1, <3>2
  <2>2. CASE n = 1
    BY <1>1, <2>1, <2>2 DEF IInv, Aside, TakeUp
  <2>3. CASE n # 1
    BY <1>1, <2>1, <2>3 DEF IInv, Aside, TakeUp
  <2> QED
    BY <2>2, <2>3
<1>8. AtEnd'
  <2>1. CASE n = 1
    BY <1>1, <1>2, <1>5, <2>1 DEF IInv, AtEnd
  <2>2. CASE n # 1
    BY <1>1, <1>2, <1>5, <2>2 DEF IInv, AtEnd
  <2> QED
    BY <2>1, <2>2
<1>9. Echoes'
  BY <1>1, <1>2, <1>5 DEF IInv, Echoes, Rest, Place
<1> QED
  BY <1>6, <1>7, <1>8, <1>9 DEF IInv

\* A read fills the buffer with the first characters of what is unread, and the
\* first of them is got at once.
LEMMA fdfillFacts ==
  ASSUME IInv, fdfill
  PROVE  /\ getting /\ fill = "fdfill" /\ unget = << >> /\ rfill = Null /\ rbuf = Null
         /\ Len(unget) = 0 /\ (echo <=> verbose) /\ (verbose => echoed = NoNuls(fed))
         /\ Place = Len(data) /\ buf' = 1 /\ UNCHANGED <<rbuf, fill, rfill, unget>>
         /\ Head(unread) \in Text /\ Head(unread) # EOF /\ Return(Head(unread))
         /\ data' \in Seq(Text) /\ unread' \in Seq(Text) /\ fed' \in Seq(Text)
         /\ 1 <= Len(data')
         /\ NoNuls(unread) = NoNuls(data') \o NoNuls(unread')
         /\ NoNuls(fed') = NoNuls(fed) \o NoNuls(data')
         /\ Rest' \in Seq(Text)
         /\ NoNuls(data') = NoNuls(<<Head(unread)>>) \o NoNuls(Rest')
<1> DEFINE c == Head(unread)
<1>1. PICK n \in 1 .. MaxRead :
        /\ n <= Len(unread)
        /\ data' = SubSeq(unread, 1, n)
        /\ unread' = SubSeq(unread, n + 1, Len(unread))
        /\ fed' = fed \o SubSeq(unread, 1, n)
  BY DEF fdfill
<1>2. /\ Filling("fdfill") /\ unread # << >> /\ buf' = 1 /\ Return(c)
      /\ UNCHANGED <<rbuf, fill, rfill, unget>>
  BY DEF fdfill
<1>3. /\ getting /\ fill = "fdfill" /\ unget = << >> /\ rfill = Null /\ rbuf = Null
      /\ Len(unget) = 0 /\ (echo <=> verbose) /\ (verbose => echoed = NoNuls(fed))
      /\ Place = Len(data)
  BY <1>2, UsedUp DEF Fills
<1>4. unread \in Seq(Text) /\ Len(unread) \in Nat \ {0} /\ fed \in Seq(Text)
  BY <1>2, EmptySeq DEF IInv, Typed
<1>5. /\ data' \in Seq(Text) /\ unread' \in Seq(Text) /\ Len(data') = n
      /\ NoNuls(unread) = NoNuls(data') \o NoNuls(unread')
  BY <1>1, <1>4, SplitAt
<1>6. c \in Text /\ c = unread[1] /\ c = data'[1] /\ c # EOF
  <2>1. c = unread[1] /\ c \in Text
    BY <1>2, <1>4, HeadTailProperties, ElementOfSeq
  <2>2. data'[1] = unread[1]
    BY <1>1, <1>4
  <2> QED
    BY <2>1, <2>2, InputAssumption DEF Text
<1>7. fed' \in Seq(Text) /\ NoNuls(fed') = NoNuls(fed) \o NoNuls(data')
  BY <1>1, <1>4, <1>5, ConcatProperties, NoNulsConcat
<1> HIDE DEF c
<1>8. Rest' = SubSeq(data', 2, n)
  BY <1>2, <1>3, <1>5 DEF Rest
<1>9. Rest' \in Seq(Text) /\ NoNuls(data') = NoNuls(<<c>>) \o NoNuls(Rest')
  <2> DEFINE d == data'
  <2>1. d \in Seq(Text) /\ 0 \in 0 .. Len(d) /\ 0 < Len(d) /\ Len(d) = n /\ d[1] = c
    BY <1>1, <1>5, <1>6
  <2>2. SubSeq(d, 1, Len(d)) = d
    BY <2>1, SubSeqFull
  <2> HIDE DEF d
  <2>3. /\ SubSeq(d, 0 + 2, Len(d)) \in Seq(Text)
        /\ NoNuls(SubSeq(d, 0 + 1, Len(d))) =
             NoNuls(<<d[0 + 1]>>) \o NoNuls(SubSeq(d, 0 + 2, Len(d)))
    BY <2>1, NextOf
  <2>4. 0 + 1 = 1 /\ 0 + 2 = 2
    OBVIOUS
  <2>5. /\ SubSeq(d, 2, n) \in Seq(Text)
        /\ NoNuls(d) = NoNuls(<<c>>) \o NoNuls(SubSeq(d, 2, n))
    BY <2>1, <2>2, <2>3, <2>4
  <2> QED
    BY <1>8, <2>5 DEF d
<1>10. 1 <= Len(data')
  BY <1>1, <1>5
<1> QED
  BY <1>2, <1>3, <1>5, <1>6, <1>7, <1>9, <1>10 DEF c

LEMMA fdfillInv == ASSUME IInv, fdfill PROVE IInv'
<1> DEFINE c == Head(unread)
           r == Rest'
<1>1. /\ getting /\ fill = "fdfill" /\ unget = << >> /\ rfill = Null /\ rbuf = Null
      /\ Len(unget) = 0 /\ (echo <=> verbose) /\ (verbose => echoed = NoNuls(fed))
      /\ buf' = 1 /\ UNCHANGED <<rbuf, fill, rfill, unget>>
      /\ c \in Text /\ c # EOF /\ Return(c)
      /\ data' \in Seq(Text) /\ unread' \in Seq(Text) /\ fed' \in Seq(Text)
      /\ 1 <= Len(data')
      /\ NoNuls(fed') = NoNuls(fed) \o NoNuls(data')
      /\ r \in Seq(Text) /\ NoNuls(data') = NoNuls(<<c>>) \o NoNuls(r)
  BY fdfillFacts
<1> HIDE DEF c, r
<1>2. /\ held' \in Seq(Got) /\ echoed' \in Seq(Chars)
      /\ UNCHANGED <<verbose, echo>> /\ getting' \in BOOLEAN
      /\ Len(held') <= MAXUNGET
      /\ c # NUL => getting' = FALSE
      /\ ~ echo \/ c = NUL => echoed' = echoed
      /\ echo /\ c # NUL => echoed' = Append(echoed, c)
  BY <1>1, ReturnFacts
<1>3. Typed'
  BY <1>1, <1>2, LenProperties DEF IInv, Typed
<1>4. Aside'
  BY <1>1, <1>2, LenProperties DEF Aside
<1>5. AtEnd'
  BY <1>1 DEF AtEnd, Source
<1>6. Echoes'
  <2>1. getting' => (echo' <=> verbose' /\ fill' # "ungetfill")
    BY <1>1, <1>2
  <2>2. ASSUME verbose PROVE echoed' \o NoNuls(Rest)' = NoNuls(fed)'
    <3>1. NoNuls(r) \in Seq(Chars) /\ echoed \in Seq(Chars)
      BY <1>1, NoNulsType DEF IInv, Typed
    <3>2. NoNuls(fed') = echoed \o (NoNuls(<<c>>) \o NoNuls(r))
      BY <1>1, <2>2
    <3>3. CASE c = NUL
      <4>1. NoNuls(<<c>>) \o NoNuls(r) = NoNuls(r)
        BY <1>1, <3>1, <3>3, NoNulsFew, ConcatEmptySeq
      <4> QED
        BY <1>2, <2>2, <3>1, <3>2, <3>3, <4>1 DEF r
    <3>4. CASE c # NUL
      <4>1. c \in Chars /\ <<c>> \in Seq(Chars)
        BY <1>1, <3>4 DEF Text
      <4>2. echoed' = echoed \o <<c>>
        BY <1>1, <1>2, <2>2, <3>1, <3>4, <4>1, AppendIsConcat
      <4>3. NoNuls(<<c>>) = <<c>>
        BY <1>1, <3>4, NoNulsFew
      <4>4. (echoed \o <<c>>) \o NoNuls(r) = echoed \o (<<c>> \o NoNuls(r))
        BY <3>1, <4>1, ConcatAssociative
      <4> QED
        BY <3>2, <4>2, <4>3, <4>4 DEF r
    <3> QED
      BY <3>3, <3>4
  <2> QED
    BY <1>2, <2>1, <2>2 DEF Echoes
<1> QED
  BY <1>3, <1>4, <1>5, <1>6 DEF IInv

\* A read that fails, or that an exception leaves: nothing was in the buffer.
LEMMA ThrowInv == ASSUME IInv, fdfillFails \/ fdfillThrows PROVE IInv'
<1>1. /\ Filling("fdfill") /\ getting' = FALSE /\ held' = << >>
      /\ UNCHANGED <<data, buf, rbuf, rfill, unget, verbose, echo, fed, echoed>>
      /\ \/ fill' = "eoffill" /\ unread' = << >>
         \/ fill' = fill /\ unread' \in Seq(Text)
  <2>1. CASE fdfillFails
    BY <2>1 DEF fdfillFails, Throw
  <2>2. CASE fdfillThrows
    <3>1. PICK n \in 0 .. MaxRead : n <= Len(unread) /\ unread' = SubSeq(unread, n + 1, Len(unread))
      BY <2>2 DEF fdfillThrows
    <3>2. unread' \in Seq(Text)
      <4>1. unread \in Seq(Text) /\ n \in 0 .. Len(unread)
        BY <3>1, LenProperties DEF IInv, Typed
      <4> QED
        BY <3>1, <4>1, SplitAt
    <3> QED
      BY <2>2, <3>2 DEF fdfillThrows, Throw
  <2> QED
    BY <2>1, <2>2
<1>2. /\ getting /\ fill = "fdfill" /\ unget = << >> /\ rfill = Null /\ rbuf = Null
      /\ Place = Len(data) /\ Len(unget) = 0
  BY <1>1, UsedUp DEF Fills
<1>3. << >> \in Seq(Got) /\ << >> \in Seq(Text) /\ Len(<< >>) = 0
  BY EmptySeq
<1>4. Typed'
  BY <1>1, <1>3 DEF IInv, Typed, Fills
<1>5. Aside'
  BY <1>1, <1>2, <1>3, InputAssumption DEF Aside
<1>6. AtEnd'
  BY <1>1, <1>2 DEF AtEnd, Source, Place
<1>7. Echoes'
  BY <1>1 DEF IInv, Echoes, Rest
<1> QED
  BY <1>4, <1>5, <1>6, <1>7 DEF IInv

\* What unget does to the source: at the end only the end of the file, which no
\* buffer holds, can be pushed back first.
LEMMA PushInv ==
  ASSUME IInv, NEW c \in Got, Push(c), ~ getting,
         held' \in Seq(Got), Len(held') <= Len(held) - 1,
         Source = "eoffill" /\ unget = << >> => c = EOF,
         UNCHANGED <<unread, verbose, getting, echo, fed, echoed>>
  PROVE  IInv'
<1>1. /\ Len(unget) \in Nat /\ Len(held) \in Nat /\ Len(held') \in Nat /\ Len(data) \in Nat
      /\ Len(unget) + Len(held) <= MAXUNGET /\ MAXUNGET \in Nat
      /\ Null \notin Nat /\ Null \notin Fills
  BY LenProperties, InputAssumption DEF IInv, Typed, Aside
<1>2. CASE unget # << >>
  <2>1. /\ unget' = Append(unget, c)
        /\ UNCHANGED <<data, buf, rbuf, fill, rfill>>
    BY <1>2 DEF Push
  <2>2. /\ unget' \in Seq(Got) /\ Len(unget') = Len(unget) + 1 /\ unget' # << >>
        /\ unget'[1] = unget[1]
    <3>1. Len(unget) # 0 /\ unget \in Seq(Got)
      BY <1>2, EmptySeq DEF IInv, Typed
    <3> QED
      BY <1>1, <2>1, <3>1, AppendProperties, EmptySeq
  <2>3. Typed'
    BY <2>1, <2>2 DEF IInv, Typed
  <2>4. Aside'
    BY <1>1, <1>2, <2>1, <2>2 DEF IInv, Aside
  <2>5. AtEnd'
    BY <1>2, <2>1, <2>2 DEF IInv, AtEnd, Source, Place
  <2>6. Echoes'
    BY <2>1 DEF IInv, Echoes, Rest
  <2> QED
    BY <2>3, <2>4, <2>5, <2>6 DEF IInv
<1>3. CASE unget = << >> /\ StepsBack(c)
  <2>1. /\ buf' = buf - 1 /\ UNCHANGED <<data, rbuf, fill, rfill, unget>>
        /\ 0 < buf /\ data[buf] = c /\ ~ verbose /\ buf \in 0 .. Len(data)
    BY <1>3 DEF Push, StepsBack, IInv, Typed
  <2>2. Source # "eoffill"
    <3>1. data[buf] \in Text
      BY <2>1, ElementOfSeq DEF IInv, Typed
    <3> QED
      BY <1>3, <2>1, <3>1, InputAssumption DEF Text
  <2>3. Typed'
    BY <2>1 DEF IInv, Typed
  <2>4. Aside'
    BY <1>1, <1>3, <2>1 DEF IInv, Aside
  <2>5. AtEnd'
    BY <2>1, <2>2 DEF IInv, AtEnd, Source
  <2>6. Echoes'
    BY <2>1 DEF IInv, Echoes
  <2> QED
    BY <2>3, <2>4, <2>5, <2>6 DEF IInv
<1>4. CASE unget = << >> /\ ~ StepsBack(c)
  <2>1. /\ rfill' = fill /\ fill' = "ungetfill" /\ rbuf' = buf /\ buf' = Len(data)
        /\ unget' = <<c>> /\ data' = data
        /\ rbuf = Null /\ fill \in Fills \ {"ungetfill"} /\ buf \in 0 .. Len(data)
    BY <1>4 DEF Push, IInv, Typed, Aside
  <2>2. unget' \in Seq(Got) /\ Len(unget') = 1 /\ unget' # << >> /\ unget'[1] = c
    BY <2>1
  <2>3. UNCHANGED <<Source, Place>>
    BY <1>1, <1>4, <2>1, <2>2 DEF Source, Place
  <2>4. Typed'
    BY <1>1, <2>1, <2>2 DEF IInv, Typed, Fills
  <2>5. Aside'
    <3>1. Len(unget) = 0
      BY <1>4
    <3> QED
      BY <1>1, <2>1, <2>2, <3>1 DEF Aside
  <2>6. AtEnd'
    BY <1>4, <2>1, <2>2, <2>3 DEF IInv, AtEnd
  <2>7. Echoes'
    BY <2>1, <2>3 DEF IInv, Echoes, Rest, Place
  <2> QED
    BY <2>4, <2>5, <2>6, <2>7 DEF IInv
<1> QED
  BY <1>2, <1>3, <1>4

LEMMA UngetcInv == ASSUME IInv, Ungetc PROVE IInv'
<1> DEFINE c == held[Len(held)]
<1>1. /\ ~ getting /\ held # << >> /\ Push(c) /\ held' = SubSeq(held, 1, Len(held) - 1)
      /\ UNCHANGED <<unread, verbose, getting, echo, fed, echoed>>
  BY DEF Ungetc
<1>2. Len(held) \in Nat \ {0} /\ \A i \in 1 .. Len(held) : held[i] \in Got
  BY <1>1, EmptySeq, ElementOfSeq DEF IInv, Typed
<1>3. c \in Got
  BY <1>2
<1>4. held' \in Seq(Got) /\ Len(held') <= Len(held) - 1
  <2>1. \A i \in 1 .. Len(held) - 1 : held[i] \in Got
    BY <1>2
  <2>2. /\ held' \in Seq(Got)
        /\ Len(held') = IF 1 <= Len(held) - 1 THEN Len(held) - 1 - 1 + 1 ELSE 0
    BY <1>1, <1>2, <2>1, SubSeqProperties
  <2> QED
    BY <1>2, <2>2
<1>5. Source = "eoffill" /\ unget = << >> => c = EOF
  BY <1>1 DEF IInv, AtEnd
<1> HIDE DEF c
<1> QED
  BY <1>1, <1>3, <1>4, <1>5, PushInv

LEMMA UngetSpaceInv == ASSUME IInv, UngetSpace PROVE IInv'
<1>1. /\ ~ getting /\ held = <<BACKSLASH, NL>> /\ Push(SPACE) /\ held' = << >>
      /\ UNCHANGED <<unread, verbose, getting, echo, fed, echoed>>
  BY DEF UngetSpace
<1>2. Len(held) = 2 /\ held # << >> /\ held[Len(held)] = NL
  BY <1>1
<1>3. ~ (Source = "eoffill" /\ unget = << >>)
  BY <1>2, InputAssumption DEF IInv, AtEnd, Chars
<1>4. held' \in Seq(Got) /\ Len(held') <= Len(held) - 1
  BY <1>1, <1>2, EmptySeq
<1>5. SPACE \in Got
  BY DEF Got, Chars
<1> QED
  BY <1>1, <1>3, <1>4, <1>5, PushInv

LEMMA StepInv == ASSUME IInv, [Next]_vars PROVE IInv'
<1>1. CASE Getc
  BY <1>1, GetcInv
<1>2. CASE GetBuffered
  BY <1>2, GetBufferedInv
<1>3. CASE ungetfill
  BY <1>3, ungetfillInv
<1>4. CASE eoffill \/ stringfill \/ fdfillEnd \/ callreadlineNull
  BY <1>4, EndInv
<1>5. CASE fdfill
  BY <1>5, fdfillInv
<1>6. CASE fdfillFails \/ fdfillThrows
  BY <1>6, ThrowInv
<1>7. CASE Ungetc
  BY <1>7, UngetcInv
<1>8. CASE UngetSpace
  BY <1>8, UngetSpaceInv
<1>9. CASE UNCHANGED vars
  BY <1>9 DEF vars, IInv, Typed, Aside, AtEnd, Echoes, Source, Place, Rest
<1> QED
  BY <1>1, <1>2, <1>3, <1>4, <1>5, <1>6, <1>7, <1>8, <1>9 DEF Next

\* The invariant holds in every state an input source reaches.
THEOREM Invariance == Spec => []IInv
<1>1. Init => IInv
  BY InitInv
<1>2. IInv /\ [Next]_vars => IInv'
  BY StepInv
<1> QED
  BY <1>1, <1>2, PTL DEF Spec

-----------------------------------------------------------------------------
(* What is still to be got.                                                *)

Later == NoNuls(Rest) \o NoNuls(unread)

\* The last of a sequence is the first of it reversed.
LEMMA ReverseFacts ==
  /\ Reverse(<< >>) = << >>
  /\ \A s \in Seq(Got) : Reverse(s) \in Seq(Got)
  /\ \A s \in Seq(Got), c \in Got : Reverse(Append(s, c)) = <<c>> \o Reverse(s)
<1>1. Reverse(<< >>) = << >>
  <2>1. Reverse(<< >>) \in Seq(Got) /\ Len(Reverse(<< >>)) = 0
    <3> DEFINE e == << >>
    <3>1. Len(e) = 0 /\ 1 .. 0 = {}
      OBVIOUS
    <3>2. Reverse(e) = [i \in 1 .. 0 |-> e[(0 - i) + 1]]
      BY <3>1 DEF Reverse
    <3> HIDE DEF e
    <3>3. \A i \in 1 .. 0 : e[(0 - i) + 1] \in Got
      BY <3>1
    <3>4. Reverse(e) \in Seq(Got) /\ Len(Reverse(e)) = 0
      BY <3>2, <3>3, IsASeq
    <3> QED
      BY <3>4 DEF e
  <2> QED
    BY <2>1, EmptySeq
<1>2. ASSUME NEW s \in Seq(Got)
      PROVE  /\ Reverse(s) \in Seq(Got) /\ Len(Reverse(s)) = Len(s)
             /\ \A i \in 1 .. Len(s) : Reverse(s)[i] = s[(Len(s) - i) + 1]
  <2>1. Len(s) \in Nat /\ \A i \in 1 .. Len(s) : s[(Len(s) - i) + 1] \in Got
    <3>1. Len(s) \in Nat /\ \A i \in 1 .. Len(s) : (Len(s) - i) + 1 \in 1 .. Len(s)
      BY LenProperties
    <3> QED
      BY <3>1, ElementOfSeq
  <2>2. Reverse(s) = [i \in 1 .. Len(s) |-> s[(Len(s) - i) + 1]]
    BY DEF Reverse
  <2>3. Reverse(s) \in Seq(Got) /\ Len(Reverse(s)) = Len(s)
    BY <2>1, <2>2, IsASeq
  <2> QED
    BY <2>2, <2>3
<1>3. ASSUME NEW s \in Seq(Got), NEW c \in Got
      PROVE  Reverse(Append(s, c)) = <<c>> \o Reverse(s)
  <2> DEFINE t == Append(s, c)
             u == <<c>> \o Reverse(s)
             n == Len(s)
  <2>1. /\ n \in Nat /\ t \in Seq(Got) /\ Len(t) = n + 1
        /\ t[n + 1] = c /\ \A i \in 1 .. n : t[i] = s[i]
    BY LenProperties, AppendProperties
  <2>2. /\ u \in Seq(Got) /\ Len(u) = n + 1
        /\ u[1] = c /\ \A i \in 2 .. n + 1 : u[i] = Reverse(s)[i - 1]
    <3>1. <<c>> \in Seq(Got) /\ Len(<<c>>) = 1 /\ <<c>>[1] = c
      OBVIOUS
    <3>2. /\ u \in Seq(Got) /\ Len(u) = 1 + n
          /\ \A i \in 1 .. 1 + n : u[i] = IF i <= 1 THEN <<c>>[i] ELSE Reverse(s)[i - 1]
      BY <1>2, <3>1, ConcatProperties
    <3> HIDE DEF u, n
    <3>3. /\ u[1] = <<c>>[1]
          /\ \A i \in 2 .. n + 1 : u[i] = Reverse(s)[i - 1]
      <4>1. 1 \in 1 .. 1 + n /\ \A i \in 2 .. n + 1 : i \in 1 .. 1 + n /\ ~ (i <= 1)
        BY <2>1
      <4> QED
        BY <3>2, <4>1
    <3>4. Len(u) = n + 1
      BY <2>1, <3>2
    <3> QED
      BY <3>1, <3>2, <3>3, <3>4, Zenon
  <2> HIDE DEF t, u
  <2>3. /\ Reverse(t) \in Seq(Got) /\ Len(Reverse(t)) = n + 1
        /\ \A i \in 1 .. n + 1 : Reverse(t)[i] = t[((n + 1) - i) + 1]
    BY <1>2, <2>1
  <2>4. \A i \in 1 .. n : Reverse(s)[i] = s[(n - i) + 1]
    BY <1>2
  <2> HIDE DEF n
  <2>5. ASSUME NEW i \in 1 .. n + 1 PROVE Reverse(t)[i] = u[i]
    <3>1. CASE i = 1
      <4>1. ((n + 1) - 1) + 1 = n + 1 /\ 1 \in 1 .. n + 1
        BY <2>1
      <4> QED
        BY <2>1, <2>2, <2>3, <3>1, <4>1
    <3>2. CASE i # 1
      <4>1. /\ i \in 2 .. n + 1 /\ i - 1 \in 1 .. n
            /\ ((n + 1) - i) + 1 = (n - (i - 1)) + 1 /\ ((n + 1) - i) + 1 \in 1 .. n
        BY <2>1, <3>2
      <4>2. u[i] = s[(n - (i - 1)) + 1]
        BY <2>2, <2>4, <4>1
      <4>3. Reverse(t)[i] = s[((n + 1) - i) + 1]
        BY <2>1, <2>3, <4>1
      <4> QED
        BY <4>1, <4>2, <4>3
    <3> QED
      BY <3>1, <3>2
  <2>6. Reverse(t) = u
    BY <2>2, <2>3, <2>5, SeqEqual
  <2> QED
    BY <2>6 DEF t, u
<1> QED
  BY <1>1, <1>2, <1>3

LEMMA PendingFacts ==
  ASSUME Typed
  PROVE  /\ Later \in Seq(Chars) /\ Later \in Seq(Got)
         /\ Pending \in Seq(Got) /\ Pending = Reverse(unget) \o Later
         /\ unget = << >> => Pending = Later
         /\ NoNuls(Rest) \in Seq(Chars) /\ NoNuls(unread) \in Seq(Chars)
<1>1. /\ NoNuls(Rest) \in Seq(Chars) /\ NoNuls(unread) \in Seq(Chars)
      /\ NoNuls(Rest) \in Seq(Got) /\ NoNuls(unread) \in Seq(Got)
  <2>1. NoNuls(Rest) \in Seq(Chars) /\ NoNuls(unread) \in Seq(Chars)
    BY RestFacts, NoNulsType DEF Typed
  <2>2. Chars \subseteq Got
    BY DEF Got
  <2> QED
    BY <2>1, <2>2, SeqMonotonic
<1>2. Later \in Seq(Chars) /\ Later \in Seq(Got)
  BY <1>1, ConcatProperties DEF Later
<1>3. Reverse(unget) \in Seq(Got)
  BY ReverseFacts DEF Typed
<1>4. Pending = Reverse(unget) \o Later
  BY <1>1, <1>3, ConcatAssociative DEF Pending, Later
<1>5. Pending \in Seq(Got)
  BY <1>2, <1>3, <1>4, ConcatProperties
<1>6. unget = << >> => Pending = Later
  BY <1>2, <1>4, ReverseFacts, ConcatEmptySeq
<1> QED
  BY <1>1, <1>2, <1>4, <1>5, <1>6

-----------------------------------------------------------------------------
(* What unget and ungetfill assert.                                        *)

LEMMA PushbackSound == ASSUME IInv PROVE PushbackIsSound
<1>1. Len(unget) <= MAXUNGET
  BY LenProperties, InputAssumption DEF IInv, Typed, Aside
<1>2. (unget # << >>) <=> (fill = "ungetfill")
  BY DEF IInv, Aside
<1>3. (unget # << >>) <=> (rfill # Null /\ rbuf # Null)
  BY InputAssumption DEF IInv, Aside
<1>4. ASSUME fill = "eoffill" PROVE Pending = << >>
  <2>1. unget = << >> /\ unread = << >> /\ Place = Len(data)
    BY <1>4 DEF IInv, Aside, AtEnd, Source
  <2>2. NoNuls(Rest) = << >> /\ NoNuls(unread) = << >>
    BY <2>1, RestFacts, NoNulsFew DEF IInv
  <2>3. Later = << >>
    BY <2>2 DEF Later
  <2> QED
    BY <2>1, <2>3, PendingFacts DEF IInv
<1>5. verbose => echoed \o NoNuls(Rest) = NoNuls(fed)
  BY DEF IInv, Echoes
<1> QED
  BY <1>1, <1>2, <1>3, <1>4, <1>5 DEF PushbackIsSound

\* There is always room for what the lexer pushes back, the buffer is aside
\* exactly while something is pushed back, nothing is left at eoffill, and with
\* es -v what is printed is what was read up to where the lexer is (unget,
\* ungetfill and getverbose).
THEOREM PushbackAlwaysSound == Spec => []PushbackIsSound
<1>1. IInv => PushbackIsSound
  BY PushbackSound
<1> QED
  BY <1>1, Invariance, PTL

-----------------------------------------------------------------------------
(* The stream: each step of the source gets, pushes back or loses, or is   *)
(* not seen.                                                               *)

Seen == <<Pending, got, held>>

\* c is what is got next, and is returned by this step, or is a NUL.
LEMMA Gets ==
  ASSUME NEW c \in Text \cup {EOF}, Return(c), Pending' \in Seq(Got),
         IF c = NUL THEN Pending' = Pending ELSE Pending = <<c>> \o Pending'
  PROVE  [Abstract!Next]_Seen
<1>1. CASE c = NUL
  BY <1>1 DEF Return, Seen
<1>2. CASE c # NUL
  <2>1. c \in Got /\ Pending = <<c>> \o Pending' /\ got' = c /\ Hold(c)
    BY <1>2 DEF Return, Text, Got
  <2> DEFINE p == Pending'
             q == <<c>> \o p
  <2>2. q # << >> /\ Head(q) = c /\ Tail(q) = p
    <3>1. p \in Seq(Got) /\ <<c>> \in Seq(Got)
      BY <2>1
    <3> HIDE DEF p
    <3> QED
      BY <3>1
  <2>3. Abstract!Hold(c)
    BY SMTT(30), <2>1 DEF Hold, Abstract!Hold
  <2>4. Abstract!Get
    BY <2>1, <2>2, <2>3 DEF Abstract!Get
  <2> QED
    BY <2>4 DEF Abstract!Next
<1> QED
  BY <1>1, <1>2

\* While nothing is pushed back, the rest of the buffer is got first.
LaterFirst ==
  /\ Pending = Later /\ Later = NoNuls(Rest) \o NoNuls(unread) /\ Pending \in Seq(Got)
  /\ NoNuls(Rest) \in Seq(Chars) /\ NoNuls(unread) \in Seq(Chars)

LEMMA LaterIsPending == Typed /\ unget = << >> => LaterFirst
BY PendingFacts DEF Later, LaterFirst

\* Of the first of two texts, the first character is got.
LEMMA LaterGets ==
  ASSUME Typed, Typed', unget = << >>, unget' = << >>, NEW c \in Text, Return(c),
         Later = (NoNuls(<<c>>) \o NoNuls(Rest')) \o NoNuls(unread')
  PROVE  [Abstract!Next]_Seen
<1>1. Pending = Later /\ Later \in Seq(Chars)
  BY PendingFacts
<1>2. /\ Pending' = Later' /\ Later' = NoNuls(Rest') \o NoNuls(unread') /\ Pending' \in Seq(Got)
      /\ NoNuls(Rest') \in Seq(Chars) /\ NoNuls(unread') \in Seq(Chars)
  <2>1. (Typed /\ unget = << >> => LaterFirst)'
    BY LaterIsPending, PTL
  <2> QED
    BY <2>1 DEF LaterFirst
<1>3. CASE c = NUL
  <2>1. NoNuls(<<c>>) \o NoNuls(Rest') = NoNuls(Rest')
    BY <1>2, <1>3, NoNulsFew, ConcatEmptySeq
  <2> QED
    BY <1>1, <1>2, <1>3, <2>1, Gets
<1>4. CASE c # NUL
  <2>1. NoNuls(<<c>>) = <<c>> /\ <<c>> \in Seq(Chars)
    <3>1. c \in Chars /\ <<c>> \in Seq(Chars)
      BY <1>4 DEF Text
    <3>2. NoNuls(<<c>>) = <<c>>
      BY <1>4, NoNulsFew
    <3> QED
      BY <3>1, <3>2
  <2>2. Later = <<c>> \o (NoNuls(Rest') \o NoNuls(unread'))
    <3> DEFINE a == NoNuls(Rest')
               b == NoNuls(unread')
    <3>1. a \in Seq(Chars) /\ b \in Seq(Chars)
      BY <1>2
    <3>2. Later = (<<c>> \o a) \o b
      BY <2>1
    <3> HIDE DEF a, b
    <3>3. (<<c>> \o a) \o b = <<c>> \o (a \o b)
      BY <2>1, <3>1, ConcatAssociative
    <3> QED
      BY <3>2, <3>3 DEF a, b
  <2> QED
    BY <1>1, <1>2, <1>4, <2>2, Gets
<1> QED
  BY <1>3, <1>4

LEMMA GetBufferedRefines == ASSUME IInv, IInv', GetBuffered PROVE [Abstract!Next]_Seen
<1> DEFINE c == data[buf + 1]
           r == SubSeq(data, buf + 2, Len(data))
<1>1. /\ buf \in Nat /\ Len(data) \in Nat /\ buf < Len(data) /\ buf' = buf + 1 /\ Return(c)
      /\ UNCHANGED <<unread, data, rbuf, fill, rfill, unget, fed>> /\ data \in Seq(Text)
  BY LenProperties DEF GetBuffered, IInv, Typed
<1>2. unget = << >> /\ rbuf = Null
  <2> HIDE DEF c
  <2>1. buf # Len(data)
    BY <1>1
  <2> QED
    BY <2>1 DEF IInv, Aside
<1>3. c \in Text /\ NoNuls(SubSeq(data, buf + 1, Len(data))) = NoNuls(<<c>>) \o NoNuls(r)
  <2>1. buf \in 0 .. Len(data)
    BY <1>1
  <2> QED
    BY <1>1, <2>1, NextOf
<1>4. Rest = SubSeq(data, buf + 1, Len(data)) /\ Rest' = r
  BY <1>1, <1>2 DEF Rest
<1>5. Later = (NoNuls(<<c>>) \o NoNuls(Rest')) \o NoNuls(unread')
  BY <1>1, <1>3, <1>4 DEF Later
<1> HIDE DEF c
<1> QED
  BY <1>1, <1>2, <1>3, <1>5, LaterGets DEF IInv

LEMMA fdfillRefines == ASSUME IInv, IInv', fdfill PROVE [Abstract!Next]_Seen
<1> DEFINE c == Head(unread)
<1>1. /\ unget = << >> /\ unget' = << >> /\ Place = Len(data) /\ c \in Text /\ Return(c)
      /\ NoNuls(unread) = (NoNuls(<<c>>) \o NoNuls(Rest')) \o NoNuls(unread')
  BY fdfillFacts
<1>2. Later = NoNuls(unread)
  <2>1. NoNuls(Rest) = << >> /\ NoNuls(unread) \in Seq(Chars)
    BY <1>1, RestFacts, NoNulsType DEF IInv, Typed
  <2> QED
    BY <2>1, ConcatEmptySeq DEF Later
<1> HIDE DEF c
<1> QED
  BY <1>1, <1>2, LaterGets DEF IInv

\* What is pushed back is got first, and what was pushed back last before it.
ReversedFirst == Pending = Reverse(unget) \o Later /\ Pending \in Seq(Got)

LEMMA PendingIsReversed == Typed => ReversedFirst
BY PendingFacts DEF ReversedFirst

\* What was pushed back last is got before anything else.
LEMMA ungetfillRefines == ASSUME IInv, IInv', ungetfill PROVE [Abstract!Next]_Seen
<1> DEFINE n == Len(unget)
           c == unget[n]
           u == SubSeq(unget, 1, n - 1)
<1>1. /\ n \in Nat \ {0} /\ unget \in Seq(Got) /\ unget # << >> /\ c \in Got /\ c # NUL
      /\ u \in Seq(Got) /\ rbuf # Null /\ rbuf \in 0 .. Len(data)
  BY SMTT(30), UngetFacts, InputAssumption DEF ungetfill, IInv, Typed
<1>2. unget' = u /\ TakeUp(n) /\ Return(c) /\ UNCHANGED <<unread, data, fed>>
  BY DEF ungetfill
<1>3. unget = Append(u, c)
  <2>1. n \in 1 .. n /\ 1 \in 1 .. n
    BY <1>1
  <2>2. SubSeq(unget, 1, n) = unget
    BY <1>1, SubSeqFull
  <2>3. SubSeq(unget, 1, n) = u \o <<c>>
    BY <1>1, <2>1, SubSeqRecursiveSecond
  <2>4. Append(u, c) = u \o <<c>>
    BY <1>1, AppendIsConcat
  <2> QED
    BY <2>2, <2>3, <2>4
<1>4. Rest' = Rest
  <2>1. CASE n = 1
    BY <1>1, <1>2, <2>1 DEF TakeUp, Rest
  <2>2. CASE n # 1
    BY <1>1, <1>2, <2>2 DEF TakeUp, Rest
  <2> QED
    BY <2>1, <2>2
<1>5. Later' = Later
  BY <1>2, <1>4 DEF Later
<1> HIDE DEF c, u
<1>6. Reverse(unget) = <<c>> \o Reverse(u) /\ Reverse(u) \in Seq(Got)
  BY <1>1, <1>3, ReverseFacts
<1>7. Pending = <<c>> \o Pending'
  <2>1. Pending = Reverse(unget) \o Later /\ Later \in Seq(Got)
    BY PendingFacts DEF IInv
  <2>2. Pending' = Reverse(u) \o Later
    <3>1. (Typed => ReversedFirst)'
      BY PendingIsReversed, PTL
    <3> QED
      BY <1>2, <1>5, <3>1 DEF IInv, ReversedFirst
  <2>3. (<<c>> \o Reverse(u)) \o Later = <<c>> \o (Reverse(u) \o Later)
    <3>1. <<c>> \in Seq(Got)
      BY <1>1
    <3> QED
      BY <1>6, <2>1, <3>1, ConcatAssociative
  <2> QED
    BY <1>6, <2>1, <2>2, <2>3
<1>8. Pending' \in Seq(Got)
  <2>1. (Typed => ReversedFirst)'
    BY PendingIsReversed, PTL
  <2> QED
    BY <2>1 DEF IInv, ReversedFirst
<1> QED
  BY <1>1, <1>2, <1>7, <1>8, Gets DEF Got, Text

\* The end of the file is got when nothing is left.
LEMMA EndRefines ==
  ASSUME IInv, eoffill \/ stringfill \/ fdfillEnd
  PROVE  [Abstract!Next]_Seen
<1>1. /\ fill \in Fills \ {"ungetfill"} /\ Filling(fill) /\ Return(EOF)
      /\ UNCHANGED <<unread, data, buf, rbuf, rfill, unget, fed>>
  BY DEF eoffill, stringfill, fdfillEnd, buffer, Filling, Fills
<1>2. unget = << >> /\ NoNuls(Rest) = << >>
  BY <1>1, UsedUp
<1>3. unread = << >>
  BY <1>2 DEF eoffill, stringfill, fdfillEnd, IInv, AtEnd, Source, Filling
<1>4. Pending = << >>
  <2>1. Later = << >>
    BY <1>2, <1>3, NoNulsFew DEF Later
  <2> QED
    BY <1>2, <2>1, PendingFacts DEF IInv
<1>5. Pending' = Pending
  BY <1>1 DEF Pending, Rest
<1>6. got' = EOF /\ Hold(EOF)
  BY <1>1, InputAssumption DEF Return
<1>7. Abstract!Get
  BY <1>4, <1>5, <1>6 DEF Abstract!Get, Abstract!Hold, Hold
<1> QED
  BY <1>7 DEF Abstract!Next

\* A read that fails loses all that could have been read, and one that an
\* exception leaves loses what it read.
LEMMA ThrowRefines ==
  ASSUME IInv, IInv', fdfillFails \/ fdfillThrows
  PROVE  [Abstract!Next]_Seen
<1>1. /\ Filling("fdfill") /\ got' = Thrown /\ held' = << >>
      /\ UNCHANGED <<data, buf, rbuf, unget>>
  BY DEF fdfillFails, fdfillThrows, Throw
<1>2. unget = << >> /\ unget' = << >> /\ NoNuls(Rest) = << >> /\ NoNuls(Rest') = << >>
  <2>1. unget = << >> /\ NoNuls(Rest) = << >>
    BY <1>1, UsedUp DEF Fills
  <2>2. Rest' = Rest
    BY <1>1 DEF Rest
  <2> QED
    BY <1>1, <2>1, <2>2
<1>3. unread \in Seq(Text) /\ unread' \in Seq(Text) /\ Len(unread) \in Nat
  BY LenProperties DEF IInv, Typed
<1>4. Pending = NoNuls(unread) /\ Pending' = NoNuls(unread')
  <2>1. (Typed /\ unget = << >> => LaterFirst)'
    BY LaterIsPending, PTL
  <2>2. Typed /\ unget = << >> => LaterFirst
    BY LaterIsPending
  <2>3. NoNuls(unread) \in Seq(Chars) /\ NoNuls(unread') \in Seq(Chars)
    BY <1>3, NoNulsType
  <2>4. << >> \o NoNuls(unread) = NoNuls(unread) /\ << >> \o NoNuls(unread') = NoNuls(unread')
    BY <2>3, ConcatEmptySeq
  <2>5. Pending = NoNuls(Rest) \o NoNuls(unread)
    BY <1>2, <2>2 DEF IInv, LaterFirst
  <2>6. Pending' = NoNuls(Rest') \o NoNuls(unread')
    BY <1>2, <2>1 DEF IInv, LaterFirst
  <2> QED
    BY <1>2, <2>4, <2>5, <2>6
<1>5. \E a \in Seq(Text) : NoNuls(unread) = NoNuls(a) \o NoNuls(unread')
  <2>1. CASE fdfillFails
    <3>1. unread' = << >>
      BY <2>1 DEF fdfillFails
    <3>2. NoNuls(unread) \o << >> = NoNuls(unread)
      BY <1>3, NoNulsType, ConcatEmptySeq
    <3> QED
      BY <1>3, <3>1, <3>2, NoNulsFew
  <2>2. CASE fdfillThrows
    <3>1. PICK n \in 0 .. MaxRead : n <= Len(unread) /\ unread' = SubSeq(unread, n + 1, Len(unread))
      BY <2>2 DEF fdfillThrows
    <3>2. n \in 0 .. Len(unread)
      BY <1>3, <3>1
    <3> QED
      BY <1>3, <3>1, <3>2, SplitAt
  <2> QED
    BY <2>1, <2>2
<1>6. PICK a \in Seq(Text) : NoNuls(unread) = NoNuls(a) \o NoNuls(unread')
  BY <1>5
<1> DEFINE l == NoNuls(a)
           p == NoNuls(unread')
           n == Len(l)
<1>7. l \in Seq(Chars) /\ p \in Seq(Chars) /\ n \in Nat /\ Len(p) \in Nat
  BY <1>3, <1>6, NoNulsType, LenProperties
<1> HIDE DEF l, p
<1>8. Pending = l \o p /\ Pending' = p /\ Len(l \o p) = n + Len(p)
  BY <1>4, <1>6, <1>7, ConcatProperties DEF l, p
<1>9. SubSeq(l \o p, n + 1, n + Len(p)) = p
  <2>1. CASE Len(p) = 0
    BY <1>7, <2>1, SubSeqEmpty, EmptySeq
  <2>2. CASE Len(p) # 0
    <3>1. /\ n + 1 \in Len(l) + 1 .. Len(l) + Len(p)
          /\ n + Len(p) \in Len(l) + 1 .. Len(l) + Len(p)
          /\ (n + 1) - Len(l) = 1 /\ (n + Len(p)) - Len(l) = Len(p)
      BY <1>7, <2>2
    <3>2. SubSeq(l \o p, n + 1, n + Len(p)) = SubSeq(p, 1, Len(p))
      BY <1>7, <3>1, SubSeqOfConcat2
    <3> QED
      BY <1>7, <3>2, SubSeqFull
  <2> QED
    BY <2>1, <2>2
<1>10. n \in 0 .. Len(Pending) /\ Pending' = SubSeq(Pending, n + 1, Len(Pending))
  BY <1>7, <1>8, <1>9
<1>11. Abstract!Lose
  BY <1>1, <1>10 DEF Abstract!Lose
<1> QED
  BY <1>11 DEF Abstract!Next

\* unget: c is got next, and then what was to be got, whether the buffer steps
\* back or is put aside.
LEMMA PushPending ==
  ASSUME IInv, IInv', NEW c \in Got, Push(c), unread' = unread
  PROVE  Pending' = <<c>> \o Pending
<1>1. /\ unget \in Seq(Got) /\ Later \in Seq(Got) /\ Later \in Seq(Chars)
      /\ Reverse(unget) \in Seq(Got) /\ <<c>> \in Seq(Got)
      /\ Pending = Reverse(unget) \o Later
      /\ unget = << >> => Pending = Later
  <2>1. Typed /\ unget \in Seq(Got) /\ <<c>> \in Seq(Got)
    BY DEF IInv, Typed
  <2>2. Reverse(unget) \in Seq(Got)
    BY <2>1, ReverseFacts
  <2> QED
    BY <2>1, <2>2, PendingFacts
<1>2. Pending' = Reverse(unget') \o Later'
  <2>1. (Typed => ReversedFirst)'
    BY PendingIsReversed, PTL
  <2> QED
    BY <2>1 DEF IInv, ReversedFirst
<1>3. CASE unget # << >>
  <2>1. unget' = Append(unget, c) /\ UNCHANGED <<data, buf, rbuf>>
    BY <1>3 DEF Push
  <2>2. Later' = Later
    BY <2>1 DEF Later, Rest
  <2>3. Reverse(unget') = <<c>> \o Reverse(unget)
    BY <1>1, <2>1, ReverseFacts
  <2>4. (<<c>> \o Reverse(unget)) \o Later = <<c>> \o (Reverse(unget) \o Later)
    BY <1>1, ConcatAssociative
  <2> QED
    BY <1>1, <1>2, <2>2, <2>3, <2>4
<1>4. CASE unget = << >> /\ StepsBack(c)
  <2>1. /\ buf' = buf - 1 /\ UNCHANGED <<data, rbuf, unget>>
        /\ 0 < buf /\ data[buf] = c /\ buf \in 0 .. Len(data) /\ rbuf = Null
        /\ data \in Seq(Text) /\ Len(data) \in Nat
    BY <1>4, LenProperties DEF Push, StepsBack, IInv, Typed, Aside
  <2> DEFINE k == buf - 1
  <2>2. k \in 0 .. Len(data) /\ k < Len(data) /\ k + 1 = buf /\ k + 2 = buf + 1
    BY <2>1
  <2>3. /\ SubSeq(data, buf, Len(data)) \in Seq(Text)
        /\ SubSeq(data, buf + 1, Len(data)) \in Seq(Text)
        /\ NoNuls(SubSeq(data, buf, Len(data))) =
             NoNuls(<<c>>) \o NoNuls(SubSeq(data, buf + 1, Len(data)))
    <3> HIDE DEF k
    <3>1. /\ SubSeq(data, k + 1, Len(data)) \in Seq(Text)
          /\ SubSeq(data, k + 2, Len(data)) \in Seq(Text)
          /\ NoNuls(SubSeq(data, k + 1, Len(data))) =
               NoNuls(<<data[k + 1]>>) \o NoNuls(SubSeq(data, k + 2, Len(data)))
      BY <2>1, <2>2, NextOf
    <3> QED
      BY <2>1, <2>2, <3>1
  <2>4. Rest = SubSeq(data, buf + 1, Len(data)) /\ Rest' = SubSeq(data, buf, Len(data))
    BY <2>1, <2>2 DEF Rest
  <2>5. c \in Chars /\ NoNuls(<<c>>) = <<c>> /\ <<c>> \in Seq(Chars)
    <3>1. data[buf] \in Text
      BY <2>1, ElementOfSeq
    <3>2. c \in Chars /\ c # NUL /\ c \in Text
      BY <2>1, <3>1, InputAssumption DEF Text, Got
    <3> QED
      BY <3>2, NoNulsFew
  <2>6. Later' = <<c>> \o Later
    <3> DEFINE r == NoNuls(Rest)
               w == NoNuls(unread)
    <3>1. r \in Seq(Chars) /\ w \in Seq(Chars)
      BY PendingFacts DEF IInv
    <3>2. Later' = (<<c>> \o r) \o w /\ Later = r \o w
      BY <2>3, <2>4, <2>5 DEF Later
    <3> HIDE DEF r, w
    <3>3. (<<c>> \o r) \o w = <<c>> \o (r \o w)
      BY <2>5, <3>1, ConcatAssociative
    <3> QED
      BY <3>2, <3>3
  <2>7. Pending' = Later'
    <3>1. (Typed /\ unget = << >> => LaterFirst)'
      BY LaterIsPending, PTL
    <3> QED
      BY <1>4, <2>1, <3>1 DEF IInv, LaterFirst
  <2> QED
    BY <1>1, <1>4, <2>6, <2>7
<1>5. CASE unget = << >> /\ ~ StepsBack(c)
  <2>1. /\ rbuf' = buf /\ unget' = <<c>> /\ data' = data /\ rbuf = Null /\ buf # Null
    BY <1>5, InputAssumption, LenProperties DEF Push, IInv, Typed, Aside
  <2>2. Later' = Later
    BY <2>1 DEF Later, Rest
  <2>3. Reverse(unget') = <<c>>
    <3>1. << >> \in Seq(Got) /\ Append(<< >>, c) = <<c>>
      BY EmptySeq
    <3>2. Reverse(Append(<< >>, c)) = <<c>> \o Reverse(<< >>)
      BY <3>1, ReverseFacts
    <3>3. Reverse(<< >>) = << >> /\ <<c>> \o << >> = <<c>>
      BY <1>1, ReverseFacts, ConcatEmptySeq
    <3> QED
      BY <2>1, <3>1, <3>2, <3>3
  <2> QED
    BY <1>1, <1>2, <1>5, <2>2, <2>3
<1> QED
  BY <1>3, <1>4, <1>5

LEMMA UngetcRefines == ASSUME IInv, IInv', Ungetc PROVE [Abstract!Next]_Seen
<1>1. /\ held # << >> /\ Push(held[Len(held)]) /\ held' = SubSeq(held, 1, Len(held) - 1)
      /\ UNCHANGED <<unread, got>>
  BY DEF Ungetc
<1>2. held[Len(held)] \in Got
  <2>1. held \in Seq(Got) /\ Len(held) \in 1 .. Len(held)
    BY <1>1, EmptySeq, LenProperties DEF IInv, Typed
  <2> QED
    BY <2>1, ElementOfSeq
<1>3. Pending' = <<held[Len(held)]>> \o Pending
  BY <1>1, <1>2, PushPending
<1>4. Abstract!Unget
  BY <1>1, <1>3 DEF Abstract!Unget
<1> QED
  BY <1>4 DEF Abstract!Next

LEMMA UngetSpaceRefines == ASSUME IInv, IInv', UngetSpace PROVE [Abstract!Next]_Seen
<1>1. /\ held = <<BACKSLASH, NL>> /\ Push(SPACE) /\ held' = << >> /\ UNCHANGED <<unread, got>>
  BY DEF UngetSpace
<1>2. SPACE \in Got
  BY DEF Got, Chars
<1>3. Pending' = <<SPACE>> \o Pending
  BY <1>1, <1>2, PushPending
<1>4. Abstract!Unget
  BY <1>1, <1>3 DEF Abstract!Unget
<1> QED
  BY <1>4 DEF Abstract!Next

LEMMA StepRefines ==
  ASSUME IInv, IInv', [Next]_vars PROVE [Abstract!Next \/ callreadlineNull]_Seen
<1>1. CASE Getc \/ UNCHANGED vars
  BY <1>1 DEF Getc, vars, buffer, Seen, Pending, Rest
<1>2. CASE GetBuffered
  BY <1>2, GetBufferedRefines
<1>3. CASE ungetfill
  BY <1>3, ungetfillRefines
<1>4. CASE eoffill \/ stringfill \/ fdfillEnd
  BY <1>4, EndRefines
<1>5. CASE fdfill
  BY <1>5, fdfillRefines
<1>6. CASE fdfillFails \/ fdfillThrows
  BY <1>6, ThrowRefines
<1>7. CASE Ungetc
  BY <1>7, UngetcRefines
<1>8. CASE UngetSpace
  BY <1>8, UngetSpaceRefines
<1> QED
  BY <1>1, <1>2, <1>3, <1>4, <1>5, <1>6, <1>7, <1>8 DEF Next

\* An input source is a stream: every character is got once and in order, and
\* again for each time it was pushed back, whatever the reads return, and the
\* end of the file for ever after; what a failed read loses is what was not yet
\* in the buffer (get, unget and the fill routines of input.c). An interrupted
\* readline may end it early.
THEOREM StreamIsRefined == Spec => StreamRefined
<1>1. IInv /\ IInv' /\ [Next]_vars
        => [Abstract!Next \/ callreadlineNull]_<<Pending, got, held>>
  BY StepRefines DEF Seen
<1>2. []IInv /\ [][Next]_vars => [][Abstract!Next \/ callreadlineNull]_<<Pending, got, held>>
  BY <1>1, PTL
<1> QED
  BY <1>2, Invariance, PTL DEF Spec, StreamRefined

-----------------------------------------------------------------------------
(* The chain of inputs and the parses that run them.                        *)

\* A string that is parsed has no descriptor.
Frame == {f \in [kind : {"interactive", "batch", "term", "catch"}, fd : BOOLEAN] :
            f.kind = "term" => f.fd = FALSE}

Live == {i \in Ids : InputAt(i)}

ChainTyped ==
  /\ frames \in Seq(Frame) /\ Len(frames) <= MaxFrames
  /\ input \in Ids \cup {None} /\ prev \in [Ids -> Ids \cup {None}]
  /\ cleaned \in [Ids -> Nat] /\ opened \subseteq Ids

\* A parse has a frame, and the string whose parse is looked at is on top.
Placed ==
  /\ pc \in {"yyparse", "get"} => frames # << >>
  /\ pc = "get" => Top.kind = "term"

\* A message, history and a disabled collector belong to the parse that goes
\* on, which has a message if it has an error and no history if it is of a
\* string.
Tidy ==
  /\ pc # "aborted"
  /\ (gcblocked <=> pc = "yyparse")
  /\ pc # "yyparse" => ~ error /\ ~ history
  /\ pc = "yyparse" => (erred => error) /\ (Top.kind = "term" => ~ history)

ParserTyped ==
  /\ error \in BOOLEAN /\ erred \in BOOLEAN /\ history \in BOOLEAN
  /\ gcblocked \in BOOLEAN /\ spoiled \in BOOLEAN

ChainInv == ChainTyped /\ ChainIsSound
NestInv == ChainInv /\ ParserTyped /\ Placed /\ (spoiled \/ Tidy)

-----------------------------------------------------------------------------
(* The stack.                                                              *)

LEMMA InnermostIs ==
  ASSUME NEW S \in SUBSET Nat, NEW n \in S, \A j \in S : j <= n
  PROVE  Innermost(S) = n
<1>1. S # {} /\ n \in Nat /\ \A i \in S : (\A j \in S : j <= i) => i = n
  OBVIOUS
<1>2. (CHOOSE i \in S : \A j \in S : j <= i) = n
  BY <1>1
<1> QED
  BY <1>1, <1>2 DEF Innermost

LEMMA TopFacts ==
  ASSUME ChainTyped, frames # << >>
  PROVE  /\ Len(frames) \in Nat \ {0} /\ Len(frames) \in DOMAIN frames /\ Top \in Frame
         /\ DOMAIN frames = 1 .. Len(frames)
<1>1. Len(frames) \in Nat \ {0} /\ DOMAIN frames = 1 .. Len(frames)
  BY EmptySeq, LenProperties DEF ChainTyped
<1> QED
  BY <1>1, ElementOfSeq DEF ChainTyped, Top

\* Leaving the frame on top.
LEMMA PopFacts ==
  ASSUME ChainTyped, frames # << >>, NEW g, g = SubSeq(frames, 1, Len(frames) - 1)
  PROVE  /\ g \in Seq(Frame) /\ Len(g) = Len(frames) - 1
         /\ DOMAIN g = 1 .. Len(frames) - 1
         /\ \A i \in 1 .. Len(frames) - 1 : g[i] = frames[i]
<1> DEFINE n == Len(frames)
<1>1. n \in Nat \ {0} /\ \A i \in 1 .. n : frames[i] \in Frame
  BY TopFacts, ElementOfSeq DEF ChainTyped
<1>2. \A i \in 1 .. n - 1 : frames[i] \in Frame
  BY <1>1
<1>3. /\ g \in Seq(Frame) /\ Len(g) = IF 1 <= n - 1 THEN n - 1 - 1 + 1 ELSE 0
      /\ \A i \in 1 .. n - 1 - 1 + 1 : g[i] = frames[1 + i - 1]
  BY <1>1, <1>2, SubSeqProperties
<1> HIDE DEF n
<1>4. n - 1 - 1 + 1 = n - 1 /\ (1 <= n - 1 \/ n - 1 = 0)
  BY <1>1
<1>5. Len(g) = n - 1
  BY <1>3, <1>4
<1>6. ASSUME NEW i \in 1 .. n - 1 PROVE g[i] = frames[i]
  <2>1. i \in 1 .. n - 1 - 1 + 1 /\ 1 + i - 1 = i
    BY <1>1
  <2> QED
    BY <1>3, <2>1
<1> QED
  BY <1>3, <1>5, <1>6, LenProperties DEF n

\* An input is run, a command's or a string's: it is the innermost one.
LEMMA Pushes ==
  ASSUME ChainInv, NEW f \in Frame, PushInput(f),
         Len(frames) < MaxFrames, f.kind # "catch"
  PROVE  /\ ChainInv' /\ frames' # << >> /\ Top' = f
<1>0. PICK n : n = Len(frames) + 1
  OBVIOUS
<1>1. /\ n \in Nat \ {0} /\ n <= MaxFrames /\ n \in Ids /\ Len(frames) = n - 1
      /\ DOMAIN frames = 1 .. n - 1
  BY <1>0, LenProperties, ParserAssumption DEF ChainInv, ChainTyped, Ids
<1>2. /\ frames' \in Seq(Frame) /\ Len(frames') = n /\ DOMAIN frames' = 1 .. n
      /\ frames'[n] = f /\ \A i \in 1 .. n - 1 : frames'[i] = frames[i]
  <2>1. /\ frames \in Seq(Frame) /\ frames' = Append(frames, f)
    BY DEF ChainInv, ChainTyped, PushInput
  <2>2. /\ frames' \in Seq(Frame) /\ Len(frames') = Len(frames) + 1
        /\ \A i \in 1 .. Len(frames) : frames'[i] = frames[i]
        /\ frames'[Len(frames) + 1] = f
    BY <2>1, AppendProperties
  <2> QED
    BY <1>0, <1>1, <2>2, LenProperties
<1>3. /\ prev' = [prev EXCEPT ![n] = input] /\ input' = n /\ opened' = opened \cup {n}
      /\ cleaned' = [cleaned EXCEPT ![n] = 0]
      /\ prev \in [Ids -> Ids \cup {None}] /\ cleaned \in [Ids -> Nat] /\ opened \subseteq Ids
  BY <1>0 DEF PushInput, ChainInv, ChainTyped
<1>4. /\ input = Innermost(Live) /\ opened = Live
      /\ \A i \in Live : prev[i] = Innermost(Outer(i)) /\ cleaned[i] = 0
      /\ \A i \in Ids : cleaned[i] <= 1
  BY DEF ChainInv, ChainIsSound, Live
<1>5. Live \subseteq 1 .. n - 1 /\ Live' = Live \cup {n} /\ Live \subseteq Ids
  <2>1. Live \subseteq 1 .. n - 1 /\ Live \subseteq Ids
    BY <1>1 DEF Live, InputAt
  <2>2. ASSUME NEW i \in Ids PROVE InputAt(i)' <=> InputAt(i) \/ i = n
    <3>1. i \in Nat
      BY DEF Ids
    <3> QED
      BY <1>1, <1>2, <3>1 DEF InputAt
  <2> QED
    BY <1>1, <2>1, <2>2 DEF Live
<1>6. ASSUME NEW i \in Live PROVE Outer(i)' = Outer(i)
  BY <1>1, <1>2, <1>5 DEF Outer, InputAt
<1>7. Outer(n)' = Live
  BY <1>1, <1>2, <1>5, ParserAssumption DEF Outer, InputAt, Live, Ids
<1>8. input' = Innermost(Live')
  <2>1. Live' \in SUBSET Nat /\ n \in Live' /\ \A j \in Live' : j <= n
    BY <1>1, <1>5
  <2> HIDE DEF Live
  <2> QED
    BY <1>3, <2>1, InnermostIs
<1>9. ChainTyped'
  BY <1>1, <1>2, <1>3 DEF ChainInv, ChainTyped
<1>10. ASSUME NEW i \in Live' PROVE prev'[i] = Innermost(Outer(i)') /\ cleaned'[i] = 0
  <2>1. CASE i = n
    BY <1>1, <1>3, <1>4, <1>7, <2>1
  <2>2. CASE i # n
    BY <1>3, <1>4, <1>5, <1>6, <2>2
  <2> QED
    BY <2>1, <2>2
<1>11. opened' = Live' /\ \A i \in Ids : cleaned'[i] <= 1
  BY <1>3, <1>4, <1>5
<1>12. ChainIsSound'
  BY <1>8, <1>10, <1>11 DEF ChainIsSound, Live
<1>13. frames' # << >> /\ Top' = f
  BY <1>1, <1>2, EmptySeq DEF Top
<1> QED
  BY <1>9, <1>12, <1>13 DEF ChainInv

\* The input on top ends, and the one it was run from goes on.
LEMMA Pops ==
  ASSUME ChainInv, frames # << >>, Top.kind # "catch",
         PopInput(Len(frames))
  PROVE  ChainInv'
<1>0. PICK n : n = Len(frames)
  OBVIOUS
<1>1. /\ n \in Nat \ {0} /\ n <= MaxFrames /\ n \in Ids /\ DOMAIN frames = 1 .. n
  BY <1>0, TopFacts, ParserAssumption DEF ChainInv, ChainTyped, Ids
<1>2. /\ frames' \in Seq(Frame) /\ Len(frames') = n - 1 /\ DOMAIN frames' = 1 .. n - 1
      /\ \A i \in 1 .. n - 1 : frames'[i] = frames[i]
  BY <1>0, PopFacts DEF ChainInv, PopInput
<1>3. /\ opened' = opened \ {n} /\ cleaned' = [cleaned EXCEPT ![n] = @ + 1]
      /\ input' = prev[n] /\ prev' = prev
      /\ prev \in [Ids -> Ids \cup {None}] /\ cleaned \in [Ids -> Nat] /\ opened \subseteq Ids
  BY <1>0 DEF PopInput, ChainInv, ChainTyped
<1>4. /\ input = Innermost(Live) /\ opened = Live
      /\ \A i \in Live : prev[i] = Innermost(Outer(i)) /\ cleaned[i] = 0
      /\ \A i \in Ids : cleaned[i] <= 1
  BY DEF ChainInv, ChainIsSound, Live
<1>5. frames[n].kind # "catch"
  BY <1>0 DEF Top
<1>6. n \in Live /\ Live' = Live \ {n} /\ Live \subseteq 1 .. n /\ Live \subseteq Ids
  <2>1. n \in Live /\ Live \subseteq 1 .. n /\ Live \subseteq Ids
    <3>1. n \in Live
      BY <1>1, <1>5 DEF Live, InputAt
    <3>2. Live \subseteq DOMAIN frames /\ Live \subseteq Ids
      BY DEF Live, InputAt
    <3> QED
      BY <1>1, <3>1, <3>2
  <2>2. ASSUME NEW i \in Ids PROVE InputAt(i)' <=> InputAt(i) /\ i # n
    <3>1. i \in Nat
      BY DEF Ids
    <3> QED
      BY <1>1, <1>2, <3>1 DEF InputAt
  <2> QED
    BY <1>1, <2>1, <2>2 DEF Live
<1>7. ASSUME NEW i \in Live' PROVE Outer(i)' = Outer(i)
  BY <1>1, <1>2, <1>6 DEF Outer, InputAt
<1>8. Outer(n) = Live'
  BY <1>1, <1>2, <1>6, ParserAssumption DEF Outer, InputAt, Live, Ids
<1>9. ChainTyped'
  BY <1>1, <1>2, <1>3, ParserAssumption DEF ChainInv, ChainTyped
<1>10. input' = Innermost(Live')
  BY <1>3, <1>4, <1>6, <1>8
<1>11. ASSUME NEW i \in Live' PROVE prev'[i] = Innermost(Outer(i)') /\ cleaned'[i] = 0
  BY <1>3, <1>4, <1>6, <1>7
<1>12. opened' = Live' /\ \A i \in Ids : cleaned'[i] <= 1
  BY <1>1, <1>3, <1>4, <1>6
<1>13. ChainIsSound'
  BY <1>10, <1>11, <1>12 DEF ChainIsSound, Live
<1> QED
  BY <1>9, <1>13 DEF ChainInv

\* The innermost input is on top, unless a catcher is.
LEMMA TopIsInnermost ==
  ASSUME ChainInv, frames # << >>, Top.kind # "catch"
  PROVE  input = Len(frames)
<1>0. PICK n : n = Len(frames)
  OBVIOUS
<1>1. n \in Nat \ {0} /\ n <= MaxFrames /\ n \in Ids /\ DOMAIN frames = 1 .. n
  BY <1>0, TopFacts, ParserAssumption DEF ChainInv, ChainTyped, Ids
<1>2. n \in Live /\ Live \in SUBSET Nat /\ \A j \in Live : j <= n
  BY <1>0, <1>1 DEF Live, InputAt, Top, Ids
<1> QED
  BY <1>0, <1>2, InnermostIs DEF ChainInv, ChainIsSound, Live

\* A catcher changes no input.
LEMMA CatcherPushed ==
  ASSUME ChainInv, NEW f \in Frame, f.kind = "catch",
         Len(frames) < MaxFrames, frames' = Append(frames, f),
         UNCHANGED <<input, prev, opened, cleaned>>
  PROVE  ChainInv'
<1>0. PICK n : n = Len(frames) + 1
  OBVIOUS
<1>1. /\ n \in Nat \ {0} /\ n <= MaxFrames /\ Len(frames) = n - 1
      /\ DOMAIN frames = 1 .. n - 1 /\ frames \in Seq(Frame)
  BY <1>0, LenProperties, ParserAssumption DEF ChainInv, ChainTyped
<1>2. /\ frames' \in Seq(Frame) /\ Len(frames') = n /\ DOMAIN frames' = 1 .. n
      /\ frames'[n] = f /\ \A i \in 1 .. n - 1 : frames'[i] = frames[i]
  <2>1. /\ frames' \in Seq(Frame) /\ Len(frames') = Len(frames) + 1
        /\ \A i \in 1 .. Len(frames) : frames'[i] = frames[i]
        /\ frames'[Len(frames) + 1] = f
    BY <1>1, AppendProperties
  <2> QED
    BY <1>0, <1>1, <2>1, LenProperties
<1>3. Live' = Live /\ Live \subseteq 1 .. n - 1
  BY <1>1, <1>2 DEF Live, InputAt
<1>4. ASSUME NEW i \in Live PROVE Outer(i)' = Outer(i)
  BY <1>1, <1>2, <1>3 DEF Outer, InputAt
<1>5. ChainIsSound'
  BY <1>3, <1>4 DEF ChainInv, ChainIsSound, Live
<1>6. ChainTyped'
  BY <1>1, <1>2 DEF ChainInv, ChainTyped
<1> QED
  BY <1>5, <1>6 DEF ChainInv

LEMMA CatcherPopped ==
  ASSUME ChainInv, frames # << >>, Top.kind = "catch",
         frames' = SubSeq(frames, 1, Len(frames) - 1),
         UNCHANGED <<input, prev, opened, cleaned>>
  PROVE  ChainInv'
<1>0. PICK n : n = Len(frames)
  OBVIOUS
<1>1. n \in Nat \ {0} /\ n <= MaxFrames /\ DOMAIN frames = 1 .. n
  BY <1>0, TopFacts DEF ChainInv, ChainTyped
<1>2. /\ frames' \in Seq(Frame) /\ Len(frames') = n - 1 /\ DOMAIN frames' = 1 .. n - 1
      /\ \A i \in 1 .. n - 1 : frames'[i] = frames[i]
  BY <1>0, PopFacts DEF ChainInv
<1>3. frames[n].kind = "catch"
  BY <1>0 DEF Top
<1>4. Live' = Live /\ Live \subseteq 1 .. n - 1
  BY <1>1, <1>2, <1>3 DEF Live, InputAt
<1>5. ASSUME NEW i \in Live PROVE Outer(i)' = Outer(i)
  BY <1>1, <1>2, <1>4 DEF Outer, InputAt
<1>6. ChainIsSound'
  BY <1>4, <1>5 DEF ChainInv, ChainIsSound, Live
<1>7. ChainTyped'
  BY <1>1, <1>2, ParserAssumption DEF ChainInv, ChainTyped
<1> QED
  BY <1>6, <1>7 DEF ChainInv

LEMMA ChainStays == ASSUME ChainInv, UNCHANGED chain PROVE ChainInv'
BY DEF ChainInv, ChainTyped, ChainIsSound, InputAt, Outer, chain

-----------------------------------------------------------------------------
(* The steps.                                                              *)

LEMMA ChainStep == ASSUME NestInv, [ParserNext]_parservars PROVE ChainInv'
<1>1. CASE runinput
  <2>1. PICK k \in {"interactive", "batch"}, fd \in BOOLEAN : PushInput([kind |-> k, fd |-> fd])
    BY <1>1 DEF runinput
  <2> DEFINE f == [kind |-> k, fd |-> fd]
  <2>2. f \in Frame /\ f.kind # "catch"
    BY DEF Frame
  <2> HIDE DEF f
  <2> QED
    BY <1>1, <2>1, <2>2, Pushes DEF runinput, CanPush, NestInv, f
<1>2. CASE Catch
  <2> DEFINE f == [kind |-> "catch", fd |-> FALSE]
  <2>1. f \in Frame /\ f.kind = "catch"
    BY DEF Frame
  <2>2. /\ Len(frames) < MaxFrames /\ frames' = Append(frames, f)
        /\ UNCHANGED <<input, prev, opened, cleaned>>
    BY <1>2 DEF Catch, CanPush
  <2> HIDE DEF f
  <2> QED
    BY <2>1, <2>2, CatcherPushed DEF NestInv
<1>3. CASE Uncatch
  BY <1>3, CatcherPopped DEF Uncatch, NestInv
<1>4. CASE Handle
  <2>1. CASE Top.kind = "catch"
    BY <1>4, <2>1, CatcherPopped DEF Handle, NestInv
  <2>2. CASE Top.kind # "catch"
    BY <1>4, <2>2, ChainStays DEF Handle, NestInv, chain
  <2> QED
    BY <2>1, <2>2
<1>5. CASE runinputEnds
  BY <1>5, Pops DEF runinputEnds, Ends, NestInv
<1>6. CASE Unwind
  <2>1. frames # << >> /\ Top.kind # "catch" /\ PopInput(input)
    BY <1>6 DEF Unwind, Keeps
  <2>2. input = Len(frames)
    BY <2>1, TopIsInnermost DEF NestInv
  <2> QED
    BY <2>1, <2>2, Pops DEF NestInv
<1>7. CASE parseinput
  <2> DEFINE f == [kind |-> "term", fd |-> FALSE]
  <2>1. f \in Frame /\ f.kind # "catch"
    BY DEF Frame
  <2>2. Len(frames) < MaxFrames /\ PushInput(f)
    BY <1>7 DEF parseinput, CanPush
  <2> HIDE DEF f
  <2> QED
    BY <2>1, <2>2, Pushes DEF NestInv
<1>8. CASE parseinputEnds
  <2>1. frames # << >> /\ Top.kind # "catch"
    BY <1>8 DEF parseinputEnds, NestInv, Placed
  <2>2. CASE PopInput(Len(frames))
    BY <2>1, <2>2, Pops DEF NestInv
  <2>3. CASE UNCHANGED chain
    BY <2>3, ChainStays DEF NestInv
  <2> QED
    BY <1>8, <2>2, <2>3 DEF parseinputEnds
<1>9. CASE \/ Fail \/ Exit \/ parse \/ FillLine \/ filleof \/ FillFails \/ yyerror
           \/ queueheredoc \/ sigchk \/ ParseFails \/ ParseEnds \/ UNCHANGED parservars
  <2>1. UNCHANGED chain
    BY <1>9 DEF Fail, Exit, parse, FillLine, filleof, FillFails, yyerror, queueheredoc,
                sigchk, ParseFails, ParseEnds, parservars, chain
  <2> QED
    BY <2>1, ChainStays DEF NestInv
<1> QED
  BY <1>1, <1>2, <1>3, <1>4, <1>5, <1>6, <1>7, <1>8, <1>9 DEF ParserNext

\* A step that leaves the parser alone.
LEMMA ParserStays ==
  ASSUME NestInv, UNCHANGED parser, pc \notin {"yyparse", "aborted"},
         pc' \notin {"yyparse", "get", "aborted"}
  PROVE  ParserTyped' /\ Placed' /\ (spoiled' \/ Tidy')
<1>1. ParserTyped' /\ Placed'
  BY DEF NestInv, ParserTyped, Placed, parser
<1>2. ASSUME ~ spoiled' PROVE Tidy'
  BY <1>2 DEF NestInv, Tidy, parser
<1> QED
  BY <1>1, <1>2

\* From a parse's assertions to yyparse(): nothing was left, so they hold.
LEMMA Begins ==
  ASSUME NestInv, NEW i, NEW e \in BOOLEAN, Begin(i, e), pc = "eval", frames' # << >>
  PROVE  ParserTyped' /\ Placed' /\ (spoiled' \/ Tidy')
<1>1. ParserTyped'
  BY DEF NestInv, ParserTyped, Begin, throw
<1>2. Placed'
  BY DEF Placed, Begin, throw
<1>3. ASSUME ~ spoiled' PROVE Tidy'
  <2>1. Tidy /\ ~ error /\ ~ history /\ ~ gcblocked
    BY <1>3 DEF NestInv, Tidy, Begin
  <2> QED
    BY <2>1 DEF Tidy, Begin, throw
<1> QED
  BY <1>1, <1>2, <1>3

LEMMA ParserStep ==
  ASSUME NestInv, [ParserNext]_parservars
  PROVE  ParserTyped' /\ Placed' /\ (spoiled' \/ Tidy')
<1>1. CASE runinput \/ Catch \/ Uncatch \/ Handle \/ runinputEnds \/ Unwind \/ Exit
  <2>1. UNCHANGED parser /\ pc \in {"eval", "throw"} /\ pc' \in {"eval", "throw"}
    BY <1>1 DEF runinput, Catch, Uncatch, Handle, runinputEnds, Unwind, Exit, CanPush
  <2> QED
    BY <2>1, ParserStays
<1>2. CASE Fail
  <2>1. pc = "eval" /\ pc' = "throw" /\ gcblocked' = FALSE /\ UNCHANGED <<error, erred, history, spoiled>>
    BY <1>2 DEF Fail, throw
  <2>2. ParserTyped' /\ Placed'
    BY <2>1 DEF NestInv, ParserTyped, Placed
  <2>3. ASSUME ~ spoiled' PROVE Tidy'
    BY <2>1, <2>3 DEF NestInv, Tidy
  <2> QED
    BY <2>2, <2>3
<1>3. CASE parse
  <2> DEFINE e == input \in ateof
  <2>1. e \in BOOLEAN /\ pc = "eval" /\ frames' # << >> /\ Begin(input, e)
    BY <1>3 DEF parse, chain
  <2> HIDE DEF e
  <2> QED
    BY <2>1, Begins
<1>4. CASE parseinput
  <2> DEFINE f == [kind |-> "term", fd |-> FALSE]
  <2>1. f \in Frame /\ f.kind # "catch"
    BY DEF Frame
  <2>2. Len(frames) < MaxFrames /\ PushInput(f)
    BY <1>4 DEF parseinput, CanPush
  <2> HIDE DEF f
  <2>3. frames' # << >>
    BY <2>1, <2>2, Pushes DEF NestInv
  <2> QED
    BY <1>4, <2>3, Begins DEF parseinput, CanPush
<1>5. CASE FillLine
  <2>1. Top.kind # "term"
    <3>1. frames # << >> /\ frames[input].fd
      BY <1>5 DEF FillLine, NestInv, Placed
    <3>2. ASSUME Top.kind = "term" PROVE FALSE
      <4>1. input = Len(frames)
        BY <3>1, <3>2, TopIsInnermost DEF NestInv
      <4>2. Top.fd = FALSE
        BY <3>1, <3>2, TopFacts DEF NestInv, ChainInv, Frame
      <4> QED
        BY <3>1, <4>1, <4>2 DEF Top
    <3> QED
      BY <3>2
  <2>2. /\ pc = "yyparse" /\ history' \in BOOLEAN
        /\ UNCHANGED <<chain, pc, error, erred, gcblocked, spoiled>>
    BY <1>5 DEF FillLine, addhistory, NestInv, ParserTyped
  <2>3. ParserTyped' /\ Placed'
    BY <2>2 DEF NestInv, ParserTyped, Placed, Top, chain
  <2>4. ASSUME ~ spoiled' PROVE Tidy'
    BY <2>1, <2>2, <2>4 DEF NestInv, Tidy, Top, chain
  <2> QED
    BY <2>3, <2>4
<1>6. CASE filleof \/ queueheredoc
  <2>1. UNCHANGED <<chain, pc, error, erred, history, gcblocked, spoiled>>
    BY <1>6 DEF filleof, queueheredoc, parser
  <2> QED
    BY <2>1 DEF NestInv, ParserTyped, Placed, Tidy, Top, chain
<1>7. CASE FillFails
  <2>1. /\ pc' = "throw" /\ gcblocked' = FALSE /\ spoiled' = TRUE
        /\ UNCHANGED <<chain, error, erred, history>>
    BY <1>7 DEF FillFails, throw
  <2> QED
    BY <2>1 DEF NestInv, ParserTyped, Placed
<1>8. CASE yyerror
  <2>1. /\ pc = "yyparse" /\ error' = TRUE /\ erred' = TRUE
        /\ UNCHANGED <<chain, pc, history, gcblocked, spoiled>>
    BY <1>8 DEF yyerror
  <2> QED
    BY <2>1 DEF NestInv, ParserTyped, Placed, Tidy, Top, chain
<1>9. CASE sigchk
  <2>1. /\ pc = "yyparse" /\ error' = FALSE /\ history' = FALSE /\ UNCHANGED <<chain, erred>>
        /\ \/ pc' = "throw" /\ gcblocked' = FALSE /\ spoiled' = spoiled
           \/ spoiled' = TRUE /\ UNCHANGED <<pc, gcblocked>>
    BY <1>9 DEF sigchk, resetparser, gethistory, throw
  <2> QED
    BY <2>1 DEF NestInv, ParserTyped, Placed, Tidy, Top, chain
<1>10. CASE ParseFails
  <2>1. /\ pc = "yyparse" /\ erred /\ error' = FALSE /\ erred' = FALSE /\ history' = FALSE
        /\ UNCHANGED <<chain, spoiled>>
        /\ IF error THEN pc' = "throw" /\ gcblocked' = FALSE
           ELSE pc' = "aborted" /\ gcblocked' = gcblocked
    BY <1>10 DEF ParseFails, gethistory, throw
  <2>2. ParserTyped' /\ Placed'
    BY <2>1 DEF NestInv, ParserTyped, Placed
  <2>3. ASSUME ~ spoiled' PROVE Tidy'
    BY <2>1, <2>3 DEF NestInv, Tidy
  <2> QED
    BY <2>2, <2>3
<1>11. CASE ParseEnds
  <2>1. /\ pc = "yyparse" /\ ~ error /\ gcblocked' = FALSE /\ erred' = FALSE
        /\ UNCHANGED <<chain, error, spoiled>>
        /\ IF Top.kind = "term" THEN pc' = "get" /\ history' = history
           ELSE pc' = "eval" /\ history' = FALSE
    BY <1>11 DEF ParseEnds, gethistory
  <2>2. ParserTyped' /\ Placed'
    BY <2>1 DEF NestInv, ParserTyped, Placed, Top, chain
  <2>3. ASSUME ~ spoiled' PROVE Tidy'
    BY <2>1, <2>3 DEF NestInv, Tidy
  <2> QED
    BY <2>2, <2>3
<1>12. CASE parseinputEnds
  <2>1. /\ pc = "get" /\ UNCHANGED <<error, erred, history, spoiled>>
        /\ \/ pc' = "eval" /\ gcblocked' = gcblocked
           \/ pc' = "throw" /\ gcblocked' = FALSE
    BY <1>12 DEF parseinputEnds, throw
  <2>2. ParserTyped' /\ Placed'
    BY <2>1 DEF NestInv, ParserTyped, Placed
  <2>3. ASSUME ~ spoiled' PROVE Tidy'
    BY <2>1, <2>3 DEF NestInv, Tidy
  <2> QED
    BY <2>2, <2>3
<1>13. CASE UNCHANGED parservars
  BY <1>13 DEF parservars, NestInv, ParserTyped, Placed, Tidy, Top
<1> QED
  BY <1>1, <1>2, <1>3, <1>4, <1>5, <1>6, <1>7, <1>8, <1>9, <1>10, <1>11, <1>12, <1>13 DEF ParserNext

LEMMA NestInit == ASSUME ParserInit PROVE NestInv
<1>1. frames = << >> /\ << >> \in Seq(Frame) /\ Len(<< >>) = 0 /\ DOMAIN << >> = {}
  BY EmptySeq DEF ParserInit
<1>2. ChainTyped
  BY <1>1, ParserAssumption DEF ParserInit, ChainTyped
<1>3. Live = {}
  BY <1>1 DEF Live, InputAt
<1>4. ChainIsSound
  BY <1>3 DEF ParserInit, ChainIsSound, Innermost, Live
<1>5. ParserTyped /\ Placed /\ Tidy
  BY DEF ParserInit, ParserTyped, Placed, Tidy
<1> QED
  BY <1>2, <1>4, <1>5 DEF NestInv, ChainInv

LEMMA NestStep == ASSUME NestInv, [ParserNext]_parservars PROVE NestInv'
BY ChainStep, ParserStep DEF NestInv

\* The invariant holds in every state, however deep the stack may become.
THEOREM NestAlways == ParserSpec => []NestInv
<1>1. ParserInit => NestInv
  BY NestInit
<1>2. NestInv /\ [ParserNext]_parservars => NestInv'
  BY NestStep
<1> QED
  BY <1>1, <1>2, PTL DEF ParserSpec

\* Inputs are nested as the frames that run them, and each one's descriptor or
\* text is given back once, when its frame is left, by whatever way (runinput,
\* parseinput and their handlers).
THEOREM ChainIsAlwaysSound == ParserSpec => []ChainIsSound
<1>1. NestInv => ChainIsSound
  BY DEF NestInv, ChainInv
<1> QED
  BY <1>1, NestAlways, PTL

\* No parse finds a message or history of an earlier one, or fails without a
\* message, and no exception finds the collector disabled, but for what a read
\* that fails or a signal without effect leaves (parse and throw).
THEOREM AssertionsHold == ParserSpec => []ParserAssertions
<1>1. NestInv => ParserAssertions
  BY DEF NestInv, Tidy, ParserAssertions
<1> QED
  BY <1>1, NestAlways, PTL
=============================================================================
