------------------------------ MODULE FdsProofs ------------------------------
(***************************************************************************)
(* Proofs about deferred redirection: the types, that every descriptor es  *)
(* owns is open and owned once, that redirections are undone in order, and *)
(* that a child sees what Redirect promises: lexically scoped ones.        *)
(***************************************************************************)
EXTENDS FdsView, SequenceTheorems, Induction

-----------------------------------------------------------------------------
\* What the list operations used by the specification return.
LEMMA FrontFacts ==
  ASSUME NEW S, NEW s \in Seq(S), s # << >>
  PROVE  /\ Front(s) \in Seq(S)
         /\ Len(Front(s)) = Len(s) - 1
         /\ \A i \in 1 .. Len(s) - 1 : Front(s)[i] = s[i]
         /\ Last(s) = s[Len(s)]
         /\ Len(s) \in Nat \ {0}
<1> DEFINE n == Len(s) - 1
<1>1. Len(s) \in Nat \ {0} /\ n \in Nat
  BY EmptySeq
<1>2. \A i \in 1 .. n : s[i] \in S
  <2> SUFFICES ASSUME NEW i \in 1 .. n PROVE s[i] \in S
    OBVIOUS
  <2>1. i \in 1 .. Len(s)
    BY <1>1
  <2> QED
    BY <2>1, ElementOfSeq
<1>3. Front(s) = SubSeq(s, 1, n) /\ Last(s) = s[Len(s)]
  BY DEF Front, Last
<1> HIDE DEF n
<1>4. /\ SubSeq(s, 1, n) \in Seq(S)
      /\ Len(SubSeq(s, 1, n)) = IF 1 <= n THEN n - 1 + 1 ELSE 0
      /\ \A i \in 1 .. n - 1 + 1 : SubSeq(s, 1, n)[i] = s[1 + i - 1]
  <2>1. 1 \in Int /\ n \in Int
    BY <1>1
  <2> QED
    BY <1>2, <2>1, SubSeqProperties
<1>5. /\ Front(s) \in Seq(S)
      /\ Len(Front(s)) = n
      /\ \A i \in 1 .. n : Front(s)[i] = s[i]
  BY <1>1, <1>3, <1>4
<1> QED
  BY <1>1, <1>3, <1>5 DEF n

LEMMA AppendFacts ==
  ASSUME NEW S, NEW s \in Seq(S), NEW e \in S
  PROVE  /\ Append(s, e) \in Seq(S)
         /\ Len(Append(s, e)) = Len(s) + 1
         /\ \A i \in 1 .. Len(s) : Append(s, e)[i] = s[i]
         /\ Append(s, e)[Len(s) + 1] = e
         /\ Len(s) \in Nat
OBVIOUS

LEMMA ConsFacts ==
  ASSUME NEW S, NEW s \in Seq(S), NEW e \in S
  PROVE  /\ <<e>> \o s \in Seq(S)
         /\ Len(<<e>> \o s) = Len(s) + 1
         /\ (<<e>> \o s)[1] = e
         /\ \A i \in 1 .. Len(s) : (<<e>> \o s)[i + 1] = s[i]
         /\ Len(s) \in Nat
<1>1. <<e>> \in Seq(S) /\ Len(<<e>>) = 1 /\ <<e>>[1] = e /\ Len(s) \in Nat
  OBVIOUS
<1> QED
  BY <1>1, ConcatProperties

LEMMA TailFacts ==
  ASSUME NEW S, NEW s \in Seq(S), s # << >>
  PROVE  /\ Tail(s) \in Seq(S)
         /\ Len(Tail(s)) = Len(s) - 1
         /\ \A i \in 1 .. Len(s) - 1 : Tail(s)[i] = s[i + 1]
         /\ Len(s) \in Nat \ {0}
BY HeadTailProperties, EmptySeq

\* The descriptors named by the pending entries and by the inputs.
LEMMA OwnedFacts ==
  ASSUME TypeOK
  PROVE  /\ Len(deftab) \in Nat /\ Len(frames) \in Nat
         /\ \A i \in 1 .. Len(deftab) :
              /\ deftab[i] \in Defer
              /\ deftab[i].real \in Fd \cup {None}
              /\ deftab[i].user \in UserFd
              /\ deftab[i].user \in Nat
         /\ \A i \in EntryFd : i \in 1 .. Len(deftab) /\ deftab[i].real \in Fd
         /\ \A p \in InputFd : p \in Internal /\ fdvar[p] \in Fd
         /\ \A i \in 1 .. Len(frames) : frames[i] \in Nat
<1>1. Len(deftab) \in Nat /\ Len(frames) \in Nat
  BY DEF TypeOK
<1>2. \A i \in 1 .. Len(deftab) : deftab[i] \in Defer
  BY ElementOfSeq DEF TypeOK
<1>3. \A i \in 1 .. Len(frames) : frames[i] \in Nat
  BY ElementOfSeq DEF TypeOK
<1>4. \A d \in Defer : /\ d.real \in Fd \cup {None}
                       /\ d.user \in UserFd /\ d.user \in Nat
  BY FdsAssumption DEF Defer
<1>5. \A i \in EntryFd : i \in 1 .. Len(deftab) /\ deftab[i].real # None
  BY <1>1 DEF EntryFd, Pending, TypeOK
<1>6. \A p \in InputFd : p \in Internal /\ fdvar[p] \in Fd
  BY DEF InputFd, TypeOK
<1> QED
  BY <1>1, <1>2, <1>3, <1>4, <1>5, <1>6

LEMMA DefcountFacts == ASSUME TypeOK, PcInv PROVE defcount \in Nat
<1>1. Len(deftab) \in Nat
  BY OwnedFacts
<1>2. CASE pc \in {"immediate", "immediate_apply", "throw"}
  BY <1>1, <1>2 DEF PcInv, defcount
<1>3. CASE pc \notin {"immediate", "immediate_apply", "throw"}
  BY <1>1, <1>3 DEF defcount
<1> QED
  BY <1>2, <1>3

LEMMA OwnedKept ==
  ASSUME OwnedOnce, UNCHANGED <<table, deftab, fdvar, registered, next>>
  PROVE  OwnedOnce'
<1>1. EntryFd' = EntryFd /\ InputFd' = InputFd
  BY DEF EntryFd, InputFd, Pending
<1> QED
  BY <1>1 DEF OwnedOnce, EntriesOpen, EntriesDistinct, InputsOpen,
     InputsDistinct, EntriesNotInputs

-----------------------------------------------------------------------------
LEMMA InitIInv == Init => IInv
<1> SUFFICES ASSUME Init PROVE IInv
  OBVIOUS
<1>0. deftab = << >> /\ frames = << >> /\ pc = "run" /\ next = 1
  BY DEF Init
<1>1. TypeOK
  <2>1. fdvar \in [Internal -> Fd \cup {None}] /\ registered \subseteq Internal
    BY FdsAssumption DEF Init, Fd, Std
  <2>2. deftab \in Seq(Defer) /\ frames \in Seq(Nat)
    BY <1>0, EmptySeq
  <2>3. pc \in PC /\ next \in Nat \ {0}
    BY <1>0 DEF PC
  <2> QED
    BY <2>1, <2>2, <2>3 DEF Init, TypeOK
<1>2. OwnedOnce
  <2>1. EntryFd = {}
    BY <1>0 DEF Pending, EntryFd
  <2>2. InputsOpen /\ InputsDistinct
    BY DEF Init, InputsOpen, InputsDistinct, InputFd
  <2> QED
    BY <2>1, <2>2
       DEF OwnedOnce, EntriesOpen, EntriesDistinct, EntriesNotInputs
<1>3. PcInv
  BY <1>0 DEF PcInv
<1>4. FramesInv
  BY <1>0 DEF FramesInv, Tickets, FramesOrdered
<1> QED
  BY <1>1, <1>2, <1>3, <1>4 DEF IInv

-----------------------------------------------------------------------------
(* Redirections of a parent.                                               *)

\* A new deferred entry: the lists grow by one, tickets stay in order.
LEMMA PushFacts ==
  ASSUME IInv, pc = "run", pc' = pc,
         NEW r \in Fd \cup {None}, NEW u \in UserFd,
         PushDefer(r, u)
  PROVE  /\ deftab' \in Seq(Defer)
         /\ Len(deftab') = Len(deftab) + 1
         /\ Len(deftab) \in Nat
         /\ \A i \in 1 .. Len(deftab) : deftab'[i] = deftab[i]
         /\ deftab'[Len(deftab) + 1] = [real |-> r, user |-> u]
         /\ frames' \in Seq(Nat)
         /\ FramesInv'
<1> DEFINE e == [real |-> r, user |-> u]
<1>0. TypeOK /\ FramesInv /\ e \in Defer
  BY DEF IInv, Defer
<1>1. /\ deftab' \in Seq(Defer)
      /\ Len(deftab') = Len(deftab) + 1
      /\ \A i \in 1 .. Len(deftab) : deftab'[i] = deftab[i]
      /\ deftab'[Len(deftab) + 1] = e
      /\ Len(deftab) \in Nat
  BY <1>0, AppendFacts DEF TypeOK, PushDefer
<1>2. /\ frames' \in Seq(Nat)
      /\ Len(frames') = Len(frames) + 1
      /\ \A i \in 1 .. Len(frames) : frames'[i] = frames[i]
      /\ frames'[Len(frames) + 1] = Len(deftab) + 1
      /\ Len(frames) \in Nat
  BY <1>0, <1>1, AppendFacts DEF TypeOK, PushDefer
<1>3. FramesInv'
  <2>1. \A i \in 1 .. Len(frames) : frames[i] \in Nat /\ frames[i] <= Len(deftab)
    BY <1>0, OwnedFacts DEF FramesInv, Tickets
  <2>2. FramesOrdered'
    <3> SUFFICES ASSUME NEW i \in 1 .. Len(frames'), NEW j \in 1 .. Len(frames'),
                        i < j, frames'[i] # CatchFrame, frames'[j] # CatchFrame
                 PROVE  frames'[i] < frames'[j]
      BY DEF FramesOrdered, CatchFrame
    <3>1. CASE j \in 1 .. Len(frames)
      <4>1. i \in 1 .. Len(frames)
        BY <3>1, <1>2
      <4>2. frames'[i] = frames[i] /\ frames'[j] = frames[j]
        BY <3>1, <4>1, <1>2
      <4> QED
        BY <1>0, <3>1, <4>1, <4>2 DEF FramesInv, Tickets, FramesOrdered
    <3>2. CASE j = Len(frames) + 1
      BY <1>1, <1>2, <2>1, <3>2
    <3>3. j \in 1 .. Len(frames) \/ j = Len(frames) + 1
      BY <1>2
    <3> QED
      BY <3>1, <3>2, <3>3
  <2>3. \A k \in 1 .. Len(deftab') : \E i \in 1 .. Len(frames') : frames'[i] = k
    <3> SUFFICES ASSUME NEW k \in 1 .. Len(deftab')
                 PROVE  \E i \in 1 .. Len(frames') : frames'[i] = k
      OBVIOUS
    <3>1. CASE k = Len(deftab) + 1
      BY <1>2, <3>1
    <3>2. CASE k \in 1 .. Len(deftab)
      <4>1. PICK i \in 1 .. Len(frames) : frames[i] = k
        BY <1>0, <3>2 DEF FramesInv, Tickets
      <4> QED
        BY <1>2, <4>1
    <3>3. k \in 1 .. Len(deftab) \/ k = Len(deftab) + 1
      BY <1>1
    <3> QED
      BY <3>1, <3>2, <3>3
  <2>4. \A i \in 1 .. Len(frames') : frames'[i] <= Len(deftab')
    BY <1>1, <1>2, <2>1
  <2> QED
    BY <2>2, <2>3, <2>4 DEF FramesInv, Tickets
<1> QED
  BY <1>1, <1>2, <1>3

\* A redirection that opens a fresh descriptor r preserves the invariant.
LEMMA PushFresh ==
  ASSUME IInv, pc = "run",
         NEW r \in Fd, NEW u \in UserFd, NEW f \in Content,
         table[r] = Closed, f # Closed,
         table' = [table EXCEPT ![r] = f],
         PushDefer(r, u),
         UNCHANGED <<fdvar, registered, child, pc, next, failed>>
  PROVE  IInv'
<1>0. TypeOK /\ OwnedOnce /\ PcInv /\ next = 1
  BY DEF IInv, PcInv
<1>1. /\ deftab' \in Seq(Defer)
      /\ Len(deftab') = Len(deftab) + 1
      /\ Len(deftab) \in Nat
      /\ \A i \in 1 .. Len(deftab) : deftab'[i] = deftab[i]
      /\ deftab'[Len(deftab) + 1] = [real |-> r, user |-> u]
      /\ frames' \in Seq(Nat)
      /\ FramesInv'
  BY PushFacts
<1>3. TypeOK'
  BY <1>0, <1>1 DEF TypeOK
<1>4. OwnedOnce'
  <2>1. EntryFd' = EntryFd \cup {Len(deftab) + 1} /\ InputFd' = InputFd
    BY <1>0, <1>1 DEF EntryFd, InputFd, Pending, Fd, None
  <2>2. \A i \in EntryFd : i \in 1 .. Len(deftab) /\ deftab[i].real \in Fd
    BY <1>0, OwnedFacts
  <2>3. \A p \in InputFd : fdvar[p] \in Fd
    BY <1>0 DEF InputFd, TypeOK
  <2>4. EntriesOpen'
    BY SMTT(30), <1>0, <1>1, <2>1, <2>2 DEF OwnedOnce, EntriesOpen, TypeOK
  <2>5. EntriesDistinct'
    BY SMTT(30), <1>0, <1>1, <2>1, <2>2 DEF OwnedOnce, EntriesOpen, EntriesDistinct
  <2>6. InputsOpen' /\ InputsDistinct'
    BY <1>0, <2>1, <2>3 DEF OwnedOnce, InputsOpen, InputsDistinct, TypeOK
  <2>7. EntriesNotInputs'
    BY <1>0, <1>1, <2>1, <2>2 DEF OwnedOnce, InputsOpen, EntriesNotInputs
  <2> QED
    BY <2>4, <2>5, <2>6, <2>7 DEF OwnedOnce
<1>5. PcInv'
  BY <1>0 DEF PcInv
<1> QED
  BY <1>1, <1>3, <1>4, <1>5 DEF IInv

LEMMA CloseRedirIInv ==
  ASSUME IInv, NEW u \in UserFd, CloseRedir(u) PROVE IInv'
<1>0. TypeOK /\ OwnedOnce /\ PcInv /\ next = 1 /\ pc = "run" /\ pc' = pc
  BY DEF IInv, PcInv, CloseRedir, Parent
<1>1. /\ deftab' \in Seq(Defer)
      /\ Len(deftab') = Len(deftab) + 1
      /\ Len(deftab) \in Nat
      /\ \A i \in 1 .. Len(deftab) : deftab'[i] = deftab[i]
      /\ deftab'[Len(deftab) + 1] = [real |-> None, user |-> u]
      /\ frames' \in Seq(Nat)
      /\ FramesInv'
  <2>1. None \in Fd \cup {None}
    OBVIOUS
  <2> QED
    BY <1>0, <2>1, PushFacts DEF CloseRedir
<1>2. TypeOK' /\ PcInv'
  BY <1>0, <1>1 DEF TypeOK, PcInv, CloseRedir
<1>3. EntryFd' = EntryFd /\ InputFd' = InputFd
  BY <1>0, <1>1 DEF EntryFd, InputFd, Pending, CloseRedir
<1>4. \A i \in EntryFd : deftab'[i] = deftab[i]
  BY <1>0, <1>1, OwnedFacts
<1>5. OwnedOnce'
  BY <1>0, <1>3, <1>4
     DEF OwnedOnce, EntriesOpen, EntriesDistinct, InputsOpen, InputsDistinct,
         EntriesNotInputs, CloseRedir
<1> QED
  BY <1>1, <1>2, <1>5 DEF IInv

LEMMA CatchIInv == ASSUME IInv, Catch PROVE IInv'
<1>0. /\ TypeOK /\ OwnedOnce /\ PcInv /\ FramesInv /\ pc = "run"
      /\ UNCHANGED <<table, deftab, fdvar, registered, child, pc, next, failed>>
  BY DEF IInv, Catch, Parent
<1>1. /\ frames' \in Seq(Nat)
      /\ Len(frames') = Len(frames) + 1
      /\ \A i \in 1 .. Len(frames) : frames'[i] = frames[i]
      /\ frames'[Len(frames) + 1] = CatchFrame
      /\ Len(frames) \in Nat
  BY <1>0, AppendFacts DEF TypeOK, Catch, CatchFrame
<1>2. TypeOK' /\ OwnedOnce' /\ PcInv'
  <2>1. OwnedOnce'
    BY <1>0, OwnedKept
  <2> QED
    BY <1>0, <1>1, <2>1 DEF TypeOK, PcInv, Held, HolderInternal, HolderDefer
<1>3. FramesOrdered'
  <2> SUFFICES ASSUME NEW i \in 1 .. Len(frames'), NEW j \in 1 .. Len(frames'),
                      i < j, frames'[i] # CatchFrame, frames'[j] # CatchFrame
               PROVE  frames'[i] < frames'[j]
    BY DEF FramesOrdered, CatchFrame
  <2>1. i # Len(frames) + 1 /\ j # Len(frames) + 1
    BY <1>1
  <2>2. i \in 1 .. Len(frames) /\ j \in 1 .. Len(frames)
    BY <1>1, <2>1
  <2> QED
    BY <1>0, <1>1, <2>2 DEF FramesInv, FramesOrdered
<1>4. \A k \in 1 .. Len(deftab) : \E i \in 1 .. Len(frames') : frames'[i] = k
  <2> SUFFICES ASSUME NEW k \in 1 .. Len(deftab)
               PROVE  \E i \in 1 .. Len(frames') : frames'[i] = k
    OBVIOUS
  <2>1. PICK i \in 1 .. Len(frames) : frames[i] = k
    BY <1>0 DEF FramesInv, Tickets
  <2> QED
    BY <1>1, <2>1
<1>5. \A i \in 1 .. Len(frames') : frames'[i] <= Len(deftab)
  BY <1>0, <1>1, OwnedFacts DEF FramesInv, Tickets, CatchFrame
<1>6. FramesInv'
  BY <1>0, <1>3, <1>4, <1>5 DEF FramesInv, Tickets
<1> QED
  BY <1>2, <1>6 DEF IInv

\* Dropping the innermost handler keeps the tickets in order.
LEMMA PopFacts ==
  ASSUME TypeOK, FramesInv, frames # << >>, frames' = Front(frames)
  PROVE  /\ frames' \in Seq(Nat)
         /\ Len(frames') = Len(frames) - 1
         /\ Len(frames) \in Nat \ {0}
         /\ \A i \in 1 .. Len(frames) - 1 : frames'[i] = frames[i]
         /\ Last(frames) = frames[Len(frames)]
         /\ FramesOrdered'
<1>1. /\ frames' \in Seq(Nat)
      /\ Len(frames') = Len(frames) - 1
      /\ Len(frames) \in Nat \ {0}
      /\ \A i \in 1 .. Len(frames) - 1 : frames'[i] = frames[i]
      /\ Last(frames) = frames[Len(frames)]
  BY FrontFacts DEF TypeOK
<1>2. FramesOrdered'
  <2> SUFFICES ASSUME NEW i \in 1 .. Len(frames'), NEW j \in 1 .. Len(frames'),
                      i < j, frames'[i] # CatchFrame, frames'[j] # CatchFrame
               PROVE  frames'[i] < frames'[j]
    BY DEF FramesOrdered, CatchFrame
  <2>1. /\ i \in 1 .. Len(frames) - 1 /\ j \in 1 .. Len(frames) - 1
        /\ i \in 1 .. Len(frames) /\ j \in 1 .. Len(frames)
    BY <1>1
  <2> QED
    BY <1>1, <2>1 DEF FramesInv, Tickets, FramesOrdered
<1> QED
  BY <1>1, <1>2

\* Undoing the newest entry: its descriptor, owned by nobody else, is closed.
LEMMA UndeferFacts ==
  ASSUME TypeOK, OwnedOnce, deftab # << >>, next <= Len(deftab),
         table' = ClosedAt(table, Last(deftab).real),
         deftab' = Front(deftab),
         UNCHANGED <<fdvar, registered, next>>
  PROVE  /\ table' \in [Fd -> Content]
         /\ deftab' \in Seq(Defer)
         /\ Len(deftab') = Len(deftab) - 1
         /\ Len(deftab) \in Nat \ {0}
         /\ OwnedOnce'
<1>1. /\ deftab' \in Seq(Defer)
      /\ Len(deftab') = Len(deftab) - 1
      /\ Len(deftab) \in Nat \ {0}
      /\ \A i \in 1 .. Len(deftab) - 1 : deftab'[i] = deftab[i]
      /\ Last(deftab) = deftab[Len(deftab)]
  BY FrontFacts DEF TypeOK
<1> DEFINE r == Last(deftab).real
<1>2. r \in Fd \cup {None}
  BY <1>1, OwnedFacts
<1>3. table' \in [Fd -> Content]
  BY DEF ClosedAt, TypeOK, Content
<1>4. \A n \in Fd : n # r => table'[n] = table[n]
  BY DEF ClosedAt, TypeOK
<1>5. InputFd' = InputFd
  BY DEF InputFd
<1>6. /\ \A i \in EntryFd' : i \in EntryFd /\ i \in 1 .. Len(deftab) - 1
      /\ r # None => Len(deftab) \in EntryFd
  BY <1>1 DEF EntryFd, Pending, TypeOK
<1>7. \A i \in EntryFd' : /\ deftab[i].real \in Fd /\ deftab[i].real # r
                          /\ deftab'[i] = deftab[i]
  <2>1. \A i \in EntryFd : deftab[i].real \in Fd /\ deftab[i].real # None
    BY OwnedFacts DEF EntryFd
  <2> QED
    BY <1>1, <1>6, <2>1 DEF OwnedOnce, EntriesDistinct
<1>8. \A p \in InputFd : fdvar[p] \in Fd /\ fdvar[p] # r
  <2>1. \A p \in InputFd : fdvar[p] \in Fd /\ fdvar[p] # None
    BY OwnedFacts DEF InputFd
  <2> QED
    BY <1>1, <1>6, <2>1 DEF OwnedOnce, EntriesNotInputs
<1>9. OwnedOnce'
  BY <1>4, <1>5, <1>6, <1>7, <1>8
     DEF OwnedOnce, EntriesOpen, EntriesDistinct, InputsOpen, InputsDistinct,
         EntriesNotInputs
<1> QED
  BY <1>1, <1>3, <1>9

\* The innermost handler's ticket is that of the last of n entries, and with
\* both gone the tickets are those of the others.
LEMMA PopTickets ==
  ASSUME TypeOK, FramesOrdered, NEW n \in Nat, Tickets(n), frames # << >>
  PROVE  /\ Last(frames) # CatchFrame => n >= 1 /\ Last(frames) = n
         /\ \A m \in Nat :
              /\ frames' = Front(frames)
              /\ m = IF Last(frames) = CatchFrame THEN n ELSE n - 1
              => Tickets(m)'
<1>1. /\ Len(frames) \in Nat \ {0}
      /\ Last(frames) = frames[Len(frames)]
      /\ \A i \in 1 .. Len(frames) : frames[i] \in Nat /\ frames[i] <= n
  BY FrontFacts, OwnedFacts DEF TypeOK, Tickets
<1>2. ASSUME Last(frames) # CatchFrame PROVE n >= 1 /\ Last(frames) = n
  <2>1. Len(frames) \in 1 .. Len(frames)
    BY <1>1
  <2>2. frames[Len(frames)] \in 1 .. n
    BY <1>1, <1>2, <2>1 DEF CatchFrame
  <2>3. n \in 1 .. n
    BY <2>2
  <2>4. PICK i \in 1 .. Len(frames) : frames[i] = n
    BY <2>3 DEF Tickets
  <2>5. CASE i < Len(frames)
    BY <1>1, <1>2, <2>1, <2>2, <2>4, <2>5 DEF FramesOrdered, CatchFrame
  <2> QED
    BY <1>1, <2>2, <2>4, <2>5
<1>3. ASSUME NEW m \in Nat, frames' = Front(frames),
             m = IF Last(frames) = CatchFrame THEN n ELSE n - 1
      PROVE  Tickets(m)'
  <2>1. /\ Len(frames') = Len(frames) - 1
        /\ \A i \in 1 .. Len(frames) - 1 : frames'[i] = frames[i]
    BY <1>3, FrontFacts DEF TypeOK
  <2>3. frames[Len(frames)] \notin 1 .. m
    BY <1>1, <1>2, <1>3 DEF CatchFrame
  <2>4. ASSUME NEW k \in 1 .. m PROVE \E i \in 1 .. Len(frames') : frames'[i] = k
    <3>1. k \in 1 .. n
      BY <1>3, <2>4
    <3>2. PICK i \in 1 .. Len(frames) : frames[i] = k
      BY <3>1 DEF Tickets
    <3>3. i \in 1 .. Len(frames) - 1
      BY <1>1, <2>3, <3>2
    <3> QED
      BY <2>1, <3>2, <3>3
  <2>5. ASSUME NEW i \in 1 .. Len(frames') PROVE frames'[i] <= m
    <3>1. i \in 1 .. Len(frames) /\ i < Len(frames) /\ frames'[i] = frames[i]
          /\ Len(frames) \in 1 .. Len(frames)
      BY <1>1, <2>1
    <3>2. CASE frames[i] = CatchFrame
      BY <3>1, <3>2 DEF CatchFrame
    <3>3. CASE Last(frames) = CatchFrame
      BY <1>1, <1>3, <3>1, <3>3
    <3>4. CASE frames[i] # CatchFrame /\ Last(frames) # CatchFrame
      <4>1. frames[i] < frames[Len(frames)]
        BY <1>1, <3>1, <3>4 DEF FramesOrdered
      <4> QED
        BY <1>1, <1>2, <1>3, <3>1, <3>4, <4>1
    <3> QED
      BY <3>2, <3>3, <3>4
  <2> QED
    BY <2>4, <2>5 DEF Tickets
<1> QED
  BY <1>2, <1>3

\* What undefer asserts of its ticket follows from the order of the tickets.
LEMMA InOrder == IInv => UndeferInOrder
<1> SUFFICES ASSUME IInv, pc \in {"run", "throw"}, frames # << >>,
                    Last(frames) # CatchFrame
             PROVE  Last(frames) = defcount
  BY DEF UndeferInOrder
<1>1. TypeOK /\ FramesInv /\ PcInv /\ Len(deftab) \in Nat
  BY OwnedFacts DEF IInv
<1>2. PICK n \in Nat : n = defcount
  BY <1>1, DefcountFacts
<1>3. Tickets(n) /\ FramesOrdered
  BY <1>1, <1>2 DEF FramesInv, Tickets, defcount
<1> QED
  BY <1>1, <1>2, <1>3, PopTickets

\* The innermost handler is left: with the newest entry, if it has a ticket.
LEMMA PoppedIInv ==
  ASSUME IInv, pc \in {"run", "throw"}, frames # << >>, frames' = Front(frames),
         IF Last(frames) = CatchFrame THEN UNCHANGED <<table, deftab>>
         ELSE table' = ClosedAt(table, Last(deftab).real) /\ deftab' = Front(deftab),
         UNCHANGED <<fdvar, registered, child, pc, next, failed>>
  PROVE  IInv'
<1>0. /\ TypeOK /\ OwnedOnce /\ PcInv /\ FramesInv /\ next = 1 /\ Len(deftab) \in Nat
  BY OwnedFacts DEF IInv, PcInv
<1>1. PICK n \in Nat : n = defcount
  BY <1>0, DefcountFacts
<1>2. frames' \in Seq(Nat) /\ FramesOrdered'
  BY <1>0, PopFacts
<1>3. Tickets(n) /\ FramesOrdered
  BY <1>0, <1>1 DEF FramesInv, Tickets, defcount
<1>4. Last(frames) # CatchFrame => n >= 1
  BY <1>0, <1>3, PopTickets
<1>5. PICK m \in Nat : m = IF Last(frames) = CatchFrame THEN n ELSE n - 1
  BY <1>4
<1>6. Tickets(m)'
  BY <1>0, <1>5, <1>3, PopTickets
<1>7. /\ table' \in [Fd -> Content] /\ deftab' \in Seq(Defer) /\ OwnedOnce'
      /\ Len(deftab') = IF Last(frames) = CatchFrame THEN Len(deftab) ELSE Len(deftab) - 1
  <2>1. CASE Last(frames) = CatchFrame
    <3>1. OwnedOnce'
      BY <1>0, <2>1, OwnedKept
    <3> QED
      BY <1>0, <2>1, <3>1 DEF TypeOK
  <2>2. CASE Last(frames) # CatchFrame
    <3>1. deftab # << >> /\ next <= Len(deftab)
      BY <1>0, <1>1, <1>4, <2>2 DEF defcount
    <3> QED
      BY <1>0, <2>2, <3>1, UndeferFacts
  <2> QED
    BY <2>1, <2>2
<1>8. TypeOK' /\ PcInv'
  BY <1>0, <1>1, <1>2, <1>4, <1>7 DEF TypeOK, PcInv, defcount
<1>9. FramesInv'
  <2>1. m = IF pc' = "run" THEN Len(deftab') ELSE Len(deftab') - 1
    BY <1>0, <1>1, <1>5, <1>7 DEF defcount
  <2> QED
    BY <1>0, <1>2, <1>6, <2>1 DEF FramesInv, Tickets
<1> QED
  BY <1>7, <1>8, <1>9 DEF IInv

LEMMA LeaveIInv == ASSUME IInv, Leave PROVE IInv'
BY PoppedIInv DEF Leave

-----------------------------------------------------------------------------
(* The shell's own descriptors.                                            *)

LEMMA OpenInputIInv ==
  ASSUME IInv, NEW p \in Internal, NEW f \in File, OpenInput(p, f)
  PROVE  IInv'
<1>0. /\ TypeOK /\ OwnedOnce /\ PcInv /\ FramesInv /\ f # Closed /\ f \in Content
      /\ UNCHANGED <<deftab, frames, child, pc, next, failed>> /\ pc = "run"
      /\ registered' = registered \cup {p} /\ p \notin registered
  BY FdsAssumption DEF IInv, OpenInput, Content
<1>1. PICK r \in Fd : /\ table[r] = Closed
                      /\ table' = [table EXCEPT ![r] = f]
                      /\ fdvar' = [fdvar EXCEPT ![p] = r]
  BY DEF OpenInput, IsLowestFree
<1>2. TypeOK'
  BY <1>0, <1>1 DEF TypeOK
<1>3. EntryFd' = EntryFd /\ InputFd' = InputFd \cup {p} /\ p \notin InputFd
  BY <1>0, <1>1 DEF EntryFd, InputFd, Pending, TypeOK, Fd, None
<1>4. \A i \in EntryFd : deftab[i].real \in Fd /\ deftab[i].real # r
  BY <1>0, <1>1, OwnedFacts DEF OwnedOnce, EntriesOpen
<1>5. \A q \in InputFd : fdvar[q] \in Fd /\ fdvar[q] # r /\ fdvar'[q] = fdvar[q]
  BY <1>0, <1>1, <1>3, OwnedFacts DEF OwnedOnce, InputsOpen, TypeOK
<1>6. fdvar'[p] = r /\ table'[r] = f
  BY <1>0, <1>1 DEF TypeOK
<1>7. \A n \in Fd : n # r => table'[n] = table[n]
  BY <1>0, <1>1 DEF TypeOK
<1>8. EntriesOpen' /\ EntriesDistinct'
  BY <1>0, <1>3, <1>4, <1>7 DEF OwnedOnce, EntriesOpen, EntriesDistinct
<1>9. InputsOpen' /\ InputsDistinct'
  BY <1>0, <1>3, <1>5, <1>6, <1>7 DEF OwnedOnce, InputsOpen, InputsDistinct
<1>10. EntriesNotInputs'
  BY <1>0, <1>3, <1>4, <1>5, <1>6 DEF OwnedOnce, EntriesNotInputs
<1>11. PcInv' /\ FramesInv'
  BY <1>0 DEF PcInv, FramesInv, Tickets, FramesOrdered
<1> QED
  BY <1>2, <1>8, <1>9, <1>10, <1>11 DEF IInv, OwnedOnce

\* Closing an input that is registered, or forgetting it.
LEMMA CloseInputFacts ==
  ASSUME IInv, pc = "run", NEW p \in registered,
         table' = ClosedAt(table, fdvar[p]),
         fdvar' = [fdvar EXCEPT ![p] = None],
         registered' \subseteq registered, registered \ {p} \subseteq registered',
         UNCHANGED <<deftab, frames, child, pc, next, failed>>
  PROVE  IInv'
<1>0. TypeOK /\ OwnedOnce /\ PcInv /\ FramesInv /\ p \in Internal
  BY DEF IInv, TypeOK
<1>1. TypeOK'
  BY <1>0 DEF TypeOK, ClosedAt, Content
<1>2. EntryFd' = EntryFd /\ InputFd' = InputFd \ {p}
  BY <1>0 DEF EntryFd, InputFd, Pending, TypeOK
<1>3. \A n \in Fd : n # fdvar[p] => table'[n] = table[n]
  BY <1>0 DEF TypeOK, ClosedAt
<1>4. \A i \in EntryFd : deftab[i].real \in Fd /\ deftab[i].real # fdvar[p]
  <2>1. fdvar[p] = None \/ p \in InputFd
    BY DEF InputFd
  <2>2. \A i \in EntryFd : deftab[i].real \in Fd /\ deftab[i].real # None
    BY <1>0, OwnedFacts DEF EntryFd
  <2> QED
    BY <1>0, <2>1, <2>2 DEF OwnedOnce, EntriesNotInputs
<1>5. \A q \in InputFd \ {p} : /\ fdvar[q] \in Fd /\ fdvar[q] # fdvar[p]
                               /\ fdvar'[q] = fdvar[q]
  <2>1. fdvar[p] = None \/ p \in InputFd
    BY DEF InputFd
  <2>2. \A q \in InputFd : q \in Internal /\ fdvar[q] \in Fd /\ fdvar[q] # None
    BY <1>0, OwnedFacts DEF InputFd
  <2> QED
    BY <1>0, <2>1, <2>2 DEF OwnedOnce, InputsDistinct, TypeOK
<1>6. OwnedOnce'
  BY <1>0, <1>2, <1>3, <1>4, <1>5
     DEF OwnedOnce, EntriesOpen, EntriesDistinct, InputsOpen, InputsDistinct,
         EntriesNotInputs
<1>7. PcInv' /\ FramesInv'
  BY <1>0 DEF PcInv, FramesInv, Tickets, FramesOrdered
<1> QED
  BY <1>1, <1>6, <1>7 DEF IInv

LEMMA InputIInv ==
  ASSUME IInv, NEW p \in Internal, EndOfInput(p) \/ CloseInput(p)
  PROVE  IInv'
<1>0. TypeOK
  BY DEF IInv
<1>1. CASE EndOfInput(p)
  <2>1. fdvar[p] \in Fd
    BY <1>0, <1>1 DEF TypeOK, EndOfInput
  <2>2. table' = ClosedAt(table, fdvar[p])
    BY <1>1, <2>1 DEF EndOfInput, ClosedAt
  <2> QED
    BY <1>1, <2>2, CloseInputFacts DEF EndOfInput
<1>2. CASE CloseInput(p)
  BY <1>2, CloseInputFacts DEF CloseInput
<1> QED
  BY <1>1, <1>2

-----------------------------------------------------------------------------
(* The steps of closefds() in a child, and of an immediate dodeferred().   *)

LEMMA ForkIInv == ASSUME IInv, Fork PROVE IInv'
<1>0. /\ TypeOK /\ OwnedOnce /\ PcInv /\ FramesInv /\ next = 1 /\ next' = 1
      /\ pc = "run" /\ pc' = "release"
      /\ UNCHANGED <<table, deftab, fdvar, registered, frames, child, failed>>
  BY DEF IInv, Fork, PcInv
<1>1. TypeOK' /\ PcInv' /\ FramesInv'
  BY <1>0, OwnedFacts DEF TypeOK, PC, PcInv, FramesInv, Tickets, FramesOrdered
<1>2. OwnedOnce'
  BY <1>0 DEF OwnedOnce, EntriesOpen, EntriesDistinct, InputsOpen,
     InputsDistinct, EntriesNotInputs, EntryFd, InputFd, Pending
<1> QED
  BY <1>1, <1>2 DEF IInv

\* releasefd(u) while entry next is being applied: whatever it moves stays
\* open and owned once, and u is nobody's afterwards.
LEMMA ReleaseFacts ==
  ASSUME TypeOK, OwnedOnce, next <= Len(deftab),
         NEW u, u = deftab[next].user, NEW after, NEW failing, after # failing,
         ReleaseTo(u, after, failing),
         UNCHANGED <<registered, next>>
  PROVE  /\ table' \in [Fd -> Content]
         /\ fdvar' \in [Internal -> Fd \cup {None}]
         /\ deftab' \in Seq(Defer)
         /\ Len(deftab') = Len(deftab)
         /\ deftab'[next] = deftab[next]
         /\ OwnedOnce'
         /\ pc' \in {after, failing}
         /\ pc' = after => ~ Held(u)'
<1>0. /\ next \in 1 .. Len(deftab) /\ Len(deftab) \in Nat
      /\ u \in Nat
  BY OwnedFacts DEF TypeOK
<1>1. CASE ~ Held(u)
  <2>1. UNCHANGED <<table, fdvar, deftab>> /\ pc' = after
    BY <1>1 DEF ReleaseTo
  <2>2. ~ Held(u)'
    BY <1>1, <2>1 DEF Held, HolderInternal, HolderDefer
  <2>3. OwnedOnce'
    BY <2>1 DEF OwnedOnce, EntriesOpen, EntriesDistinct, InputsOpen,
       InputsDistinct, EntriesNotInputs, EntryFd, InputFd, Pending
  <2> QED
    BY <1>0, <2>1, <2>2, <2>3 DEF TypeOK
<1>2. ASSUME NEW n \in Fd \cup {None}, MoveHolders(u, n)
      PROVE  /\ fdvar' \in [Internal -> Fd \cup {None}]
             /\ deftab' \in Seq(Defer)
             /\ Len(deftab') = Len(deftab)
             /\ \A i \in 1 .. Len(deftab) :
                  deftab'[i].real =
                    IF i \in HolderDefer(u) THEN n ELSE deftab[i].real
             /\ \A p \in Internal :
                  fdvar'[p] = IF p \in HolderInternal(u) THEN n ELSE fdvar[p]
             /\ deftab'[next] = deftab[next]
  <2>1. fdvar' \in [Internal -> Fd \cup {None}]
    BY <1>2 DEF MoveHolders, TypeOK
  <2>2. deftab' = [i \in 1 .. Len(deftab) |->
                     IF i \in HolderDefer(u)
                     THEN [deftab[i] EXCEPT !.real = n] ELSE deftab[i]]
    BY <1>2 DEF MoveHolders
  <2>3. \A i \in 1 .. Len(deftab) :
          /\ deftab'[i] \in Defer
          /\ deftab'[i].real =
               IF i \in HolderDefer(u) THEN n ELSE deftab[i].real
    BY <2>2, OwnedFacts DEF Defer
  <2>4. deftab' \in Seq(Defer) /\ Len(deftab') = Len(deftab)
    BY <1>0, <2>2, <2>3
  <2>5. deftab'[next] = deftab[next]
    BY <1>0, <2>2 DEF HolderDefer
  <2> QED
    BY <1>2, <2>1, <2>3, <2>4, <2>5 DEF MoveHolders
<1>3. \A i \in EntryFd : i \in 1 .. Len(deftab) /\ i >= next
                         /\ deftab[i].real \in Fd /\ deftab[i].real # None
                         /\ (i > next => (i \in HolderDefer(u) <=> deftab[i].real = u))
  BY <1>0, OwnedFacts DEF EntryFd, Pending, HolderDefer
<1>4. \A p \in InputFd : /\ p \in Internal /\ p \in registered
                         /\ fdvar[p] \in Fd /\ fdvar[p] # None
                         /\ (p \in HolderInternal(u) <=> fdvar[p] = u)
  BY <1>0, OwnedFacts DEF InputFd, HolderInternal, TypeOK
<1>5. /\ HolderDefer(u) \subseteq EntryFd
      /\ HolderInternal(u) \subseteq InputFd
  BY <1>0 DEF HolderDefer, HolderInternal, EntryFd, InputFd, Pending, None
<1>6. ASSUME Held(u)
      PROVE  /\ u \in Fd /\ table[u] # Closed
             /\ deftab[next].real # u
  <2>1. CASE HolderInternal(u) # {}
    <3>1. PICK p \in InputFd : fdvar[p] = u
      BY <1>4, <1>5, <2>1
    <3>2. next \in EntryFd \/ deftab[next].real = None
      BY <1>0 DEF EntryFd, Pending
    <3> QED
      BY <1>4, <3>1, <3>2 DEF OwnedOnce, InputsOpen, EntriesNotInputs
  <2>2. CASE HolderDefer(u) # {}
    <3>1. PICK i \in EntryFd : i > next /\ deftab[i].real = u
      BY <1>0, <1>3, <1>5, <2>2 DEF HolderDefer
    <3>2. next \in EntryFd \/ deftab[next].real = None
      BY <1>0 DEF EntryFd, Pending
    <3> QED
      BY <1>0, <1>3, <3>1, <3>2 DEF OwnedOnce, EntriesOpen, EntriesDistinct
  <2> QED
    BY <1>6, <2>1, <2>2 DEF Held
<1>7. ASSUME NEW n \in Fd, Held(u), IsLowestFree(n), MoveHolders(u, n),
             table' = [table EXCEPT ![n] = table[u], ![u] = Closed],
             pc' = after
      PROVE  /\ table' \in [Fd -> Content] /\ OwnedOnce' /\ ~ Held(u)'
  <2>1. table[n] = Closed /\ u \in Fd /\ n # u /\ table[u] # Closed
    BY <1>6, <1>7 DEF IsLowestFree
  <2>2. table' \in [Fd -> Content]
    BY <1>7, <2>1 DEF TypeOK
  <2>3. /\ table'[n] = table[u]
        /\ \A m \in Fd : m # n /\ m # u => table'[m] = table[m]
    BY <1>7, <2>1 DEF TypeOK
  <2>4. EntryFd' = EntryFd
    BY <1>0, <1>2, <1>3, <1>5, <1>7 DEF EntryFd, Pending, Fd, None
  <2>5. InputFd' = InputFd
    BY <1>2, <1>4, <1>5, <1>7 DEF InputFd, Fd, None, TypeOK
  <2>6. \A i \in EntryFd :
          /\ deftab[i].real # n
          /\ deftab'[i].real = IF deftab[i].real = u THEN n ELSE deftab[i].real
    BY <1>0, <1>2, <1>3, <1>6, <1>7, <2>1
       DEF OwnedOnce, EntriesOpen, HolderDefer
  <2>7. \A p \in InputFd :
          /\ fdvar[p] # n
          /\ fdvar'[p] = IF fdvar[p] = u THEN n ELSE fdvar[p]
    BY <1>2, <1>4, <1>7, <2>1 DEF OwnedOnce, InputsOpen
  <2>8. EntriesOpen' /\ InputsOpen'
    BY <1>3, <1>4, <2>1, <2>3, <2>4, <2>5, <2>6, <2>7
       DEF OwnedOnce, EntriesOpen, InputsOpen
  <2>9. EntriesDistinct' /\ InputsDistinct' /\ EntriesNotInputs'
    BY <2>4, <2>5, <2>6, <2>7
       DEF OwnedOnce, EntriesDistinct, InputsDistinct, EntriesNotInputs
  <2>10. ~ Held(u)'
    <3>1. HolderDefer(u)' = {}
      <4>1. \A i \in next + 1 .. Len(deftab) : deftab'[i].real # u
        BY <1>0, <1>2, <1>7, <2>1 DEF HolderDefer
      <4> QED
        BY <1>2, <1>7, <4>1 DEF HolderDefer
    <3>2. HolderInternal(u)' = {}
      BY <1>2, <1>7, <2>1 DEF HolderInternal, TypeOK
    <3> QED
      BY <3>1, <3>2 DEF Held
  <2> QED
    BY <2>2, <2>8, <2>9, <2>10 DEF OwnedOnce
<1>8. ASSUME Held(u), MoveHolders(u, None), pc' = failing, UNCHANGED table
      PROVE  OwnedOnce'
  <2>0. None \in Fd \cup {None}
    OBVIOUS
  <2>1. /\ EntryFd' \subseteq EntryFd
        /\ \A i \in EntryFd' : deftab'[i].real = deftab[i].real
    BY <1>0, <1>2, <1>8, <2>0 DEF EntryFd, Pending
  <2>2. /\ InputFd' \subseteq InputFd
        /\ \A p \in InputFd' : fdvar'[p] = fdvar[p]
    BY <1>2, <1>8, <2>0 DEF InputFd, TypeOK
  <2> QED
    BY <1>8, <2>1, <2>2
       DEF OwnedOnce, EntriesOpen, EntriesDistinct, InputsOpen, InputsDistinct,
           EntriesNotInputs
<1>9. CASE Held(u)
  <2>1. CASE \E n \in Fd :
               /\ IsLowestFree(n)
               /\ MoveHolders(u, n)
               /\ table' = [table EXCEPT ![n] = table[u], ![u] = Closed]
               /\ pc' = after
    BY <1>2, <1>7, <1>9, <2>1
  <2>2. CASE MoveHolders(u, None) /\ pc' = failing /\ UNCHANGED table
    BY <1>2, <1>8, <1>9, <2>2 DEF TypeOK
  <2> QED
    BY <1>9, <2>1, <2>2 DEF ReleaseTo
<1> QED
  BY <1>1, <1>9

LEMMA ReleaseIInv == ASSUME IInv, Release PROVE IInv'
<1>0. /\ TypeOK /\ OwnedOnce /\ PcInv /\ FramesInv /\ next <= Len(deftab)
      /\ pc = "release" /\ UNCHANGED <<registered, frames, child, next, failed>>
  BY DEF IInv, Release
<1>1. PICK u : u = deftab[next].user
  OBVIOUS
<1>2. ReleaseTo(u, "apply", "thrown")
  BY <1>1 DEF Release
<1>3. /\ table' \in [Fd -> Content]
      /\ fdvar' \in [Internal -> Fd \cup {None}]
      /\ deftab' \in Seq(Defer)
      /\ Len(deftab') = Len(deftab)
      /\ deftab'[next] = deftab[next]
      /\ OwnedOnce'
      /\ pc' \in {"apply", "thrown"}
      /\ pc' = "apply" => ~ Held(u)'
  <2>1. "apply" # "thrown"
    OBVIOUS
  <2> QED
    BY <1>0, <1>1, <1>2, <2>1, ReleaseFacts
<1>4. TypeOK'
  BY <1>0, <1>3 DEF TypeOK, PC
<1>5. PcInv'
  <2>1. u = deftab'[next'].user
    BY <1>0, <1>1, <1>3
  <2>2. pc' = "apply" => ~ Held(deftab[next].user)'
    BY <1>3, <2>1 DEF Held, HolderInternal, HolderDefer
  <2> QED
    BY <1>0, <1>3, <2>2 DEF PcInv
<1>6. FramesInv'
  BY <1>0, <1>3 DEF FramesInv, Tickets, FramesOrdered
<1> QED
  BY <1>3, <1>4, <1>5, <1>6 DEF IInv

\* Applying entry next once its user descriptor is nobody's: the descriptors
\* still owned by the other entries and by the inputs are not touched.
LEMMA ApplyFacts ==
  ASSUME TypeOK, OwnedOnce, next <= Len(deftab),
         NEW u, u = deftab[next].user, NEW r, r = deftab[next].real,
         ~ Held(u), NEW after, NEW failing,
         ApplyTo(r, u, after, failing)
  PROVE  /\ table' \in [Fd -> Content]
         /\ pc' \in {after, failing}
         /\ pc' # after => table' = table
         /\ \A i \in EntryFd \ {next} : table'[deftab[i].real] # Closed
         /\ \A p \in InputFd : table'[fdvar[p]] # Closed
<1>0. /\ next \in 1 .. Len(deftab) /\ Len(deftab) \in Nat
      /\ u \in Nat /\ r \in Fd \cup {None}
  BY OwnedFacts DEF TypeOK
<1>1. \A i \in EntryFd \ {next} :
        /\ i \in 1 .. Len(deftab) /\ i > next
        /\ deftab[i].real \in Fd /\ deftab[i].real # u /\ deftab[i].real # r
  <2>1. \A i \in EntryFd \ {next} :
          /\ i \in 1 .. Len(deftab) /\ i > next /\ i \in EntryFd
          /\ deftab[i].real \in Fd /\ deftab[i].real # None
    BY <1>0, OwnedFacts DEF EntryFd, Pending
  <2>2. \A i \in EntryFd \ {next} : deftab[i].real # u
    BY <1>0, <2>1 DEF Held, HolderDefer
  <2>3. next \in EntryFd \/ r = None
    BY <1>0 DEF EntryFd, Pending
  <2> QED
    BY <2>1, <2>2, <2>3 DEF OwnedOnce, EntriesDistinct
<1>2. \A p \in InputFd : /\ fdvar[p] \in Fd /\ fdvar[p] # u /\ fdvar[p] # r
  <2>1. \A p \in InputFd : fdvar[p] \in Fd /\ p \in registered /\ fdvar[p] # None
    BY OwnedFacts DEF InputFd
  <2>2. \A p \in InputFd : fdvar[p] # u
    BY <2>1 DEF Held, HolderInternal
  <2>3. next \in EntryFd \/ r = None
    BY <1>0 DEF EntryFd, Pending
  <2> QED
    BY <2>1, <2>2, <2>3 DEF OwnedOnce, EntriesNotInputs
<1>3. /\ table' \in [Fd -> Content]
      /\ pc' \in {after, failing}
      /\ pc' # after => table' = table
      /\ \A n \in Fd : n # u /\ n # r => table'[n] = table[n]
  <2>1. CASE r = None
    BY <2>1 DEF ApplyTo, ClosedAt, TypeOK, Content
  <2>2. CASE r # None /\ r = u
    BY <2>2 DEF ApplyTo, TypeOK
  <2>3. CASE r # None /\ r # u /\ u \in Fd
    BY <1>0, <2>3 DEF ApplyTo, TypeOK, Content
  <2>4. CASE r # None /\ u \notin Fd
    BY <1>0, <2>4 DEF ApplyTo, TypeOK
  <2> QED
    BY <2>1, <2>2, <2>3, <2>4
<1> QED
  BY <1>1, <1>2, <1>3 DEF OwnedOnce, EntriesOpen, InputsOpen

LEMMA ApplyIInv == ASSUME IInv, Apply PROVE IInv'
<1>0. /\ TypeOK /\ OwnedOnce /\ PcInv /\ FramesInv /\ next <= Len(deftab)
      /\ pc = "apply" /\ UNCHANGED <<deftab, fdvar, registered, frames, child, failed>>
      /\ ~ Held(deftab[next].user) /\ Len(deftab) \in Nat /\ next \in Nat \ {0}
  BY OwnedFacts DEF IInv, Apply, PcInv, TypeOK
<1>1. PICK u, r : u = deftab[next].user /\ r = deftab[next].real
  OBVIOUS
<1>2. ApplyTo(r, u, "release", "thrown")
  BY <1>1 DEF Apply
<1>3. /\ table' \in [Fd -> Content]
      /\ pc' \in {"release", "thrown"}
      /\ pc' # "release" => table' = table
      /\ \A i \in EntryFd \ {next} : table'[deftab[i].real] # Closed
      /\ \A p \in InputFd : table'[fdvar[p]] # Closed
  BY <1>0, <1>1, <1>2, ApplyFacts
<1>4. next' = IF pc' = "thrown" THEN next ELSE next + 1
  BY DEF Apply
<1>5. TypeOK' /\ PcInv' /\ FramesInv'
  BY <1>0, <1>3, <1>4 DEF TypeOK, PC, PcInv, FramesInv, Tickets, FramesOrdered
<1>6. OwnedOnce'
  <2>1. CASE pc' = "thrown"
    <3>1. table' = table /\ next' = next
      BY <1>3, <1>4, <2>1
    <3> QED
      BY <1>0, <3>1 DEF OwnedOnce, EntriesOpen, EntriesDistinct, InputsOpen,
         InputsDistinct, EntriesNotInputs, EntryFd, InputFd, Pending
  <2>2. CASE pc' = "release"
    <3>1. EntryFd' = EntryFd \ {next} /\ InputFd' = InputFd
      BY <1>0, <1>4, <2>2 DEF EntryFd, InputFd, Pending
    <3> QED
      BY <1>0, <1>3, <3>1 DEF OwnedOnce, EntriesOpen, EntriesDistinct,
         InputsOpen, InputsDistinct, EntriesNotInputs
  <2> QED
    BY <1>3, <2>1, <2>2
<1> QED
  BY <1>5, <1>6 DEF IInv

LEMMA CloseOnForkIInv == ASSUME IInv, CloseOnFork PROVE IInv'
<1>0. /\ TypeOK /\ deftab' = << >> /\ frames' = << >> /\ pc' = "run" /\ next' = 1
      /\ fdvar' = [p \in Internal |-> None] /\ registered' = registered
  BY DEF IInv, CloseOnFork
<1>1. TypeOK'
  <2>1. /\ deftab' \in Seq(Defer) /\ frames' \in Seq(Nat)
        /\ fdvar' \in [Internal -> Fd \cup {None}]
    BY <1>0, EmptySeq
  <2>2. table' \in [Fd -> Content]
    BY <1>0 DEF CloseOnFork, TypeOK, Content
  <2> QED
    BY <1>0, <2>1, <2>2 DEF TypeOK, PC, CloseOnFork
<1>2. PcInv' /\ FramesInv'
  BY <1>0 DEF PcInv, FramesInv, Tickets, FramesOrdered
<1>3. EntryFd' = {} /\ InputFd' = {}
  BY <1>0, <1>1 DEF EntryFd, InputFd, Pending, TypeOK
<1>4. OwnedOnce'
  BY <1>3 DEF OwnedOnce, EntriesOpen, EntriesDistinct, InputsOpen,
     InputsDistinct, EntriesNotInputs
<1> QED
  BY <1>1, <1>2, <1>4 DEF IInv

\* An immediate redirection: the pair's descriptor is fresh, or there is none.
LEMMA ImmediateFacts ==
  ASSUME IInv, DoneAtOnce, NEW r \in Fd \cup {None}, NEW u \in UserFd,
         Immediate(r, u),
         \/ r = None /\ UNCHANGED table
         \/ /\ r \in Fd /\ table[r] = Closed
            /\ \E f \in Content \ {Closed} : table' = [table EXCEPT ![r] = f]
  PROVE  IInv'
<1> DEFINE e == [real |-> r, user |-> u]
<1>0. /\ TypeOK /\ OwnedOnce /\ FramesInv /\ pc = "run" /\ pc' = "immediate"
      /\ next = 1 /\ next' = 1
      /\ UNCHANGED <<fdvar, registered, frames, child, failed>>
  BY DEF IInv, PcInv, DoneAtOnce, Immediate
<1>1. /\ deftab' \in Seq(Defer) /\ Len(deftab') = Len(deftab) + 1
      /\ deftab'[1].real = r
      /\ \A i \in 1 .. Len(deftab) : deftab'[i + 1] = deftab[i]
      /\ Len(deftab) \in Nat
  BY <1>0, ConsFacts DEF TypeOK, Immediate, Defer
<1>2. TypeOK'
  <2>1. table' \in [Fd -> Content]
    BY <1>0 DEF TypeOK
  <2> QED
    BY <1>0, <1>1, <2>1 DEF TypeOK, PC
<1>3. PcInv'
  BY <1>0, <1>1 DEF PcInv
<1>4. FramesInv'
  <2>1. Len(deftab') - 1 = Len(deftab)
    BY <1>1
  <2> QED
    BY <1>0, <2>1 DEF FramesInv, Tickets, FramesOrdered
<1>5. InputFd' = InputFd
  BY <1>0 DEF InputFd
<1>6. \A i \in EntryFd' :
        \/ i = 1 /\ r # None
        \/ i - 1 \in EntryFd /\ deftab'[i].real = deftab[i - 1].real
  <2> SUFFICES ASSUME NEW i \in EntryFd', i # 1
               PROVE  i - 1 \in EntryFd /\ deftab'[i].real = deftab[i - 1].real
    BY <1>1 DEF EntryFd
  <2>1. i \in 1 .. Len(deftab) + 1 /\ deftab'[i].real # None
    BY <1>0, <1>1 DEF EntryFd, Pending
  <2>2. i - 1 \in 1 .. Len(deftab) /\ i = (i - 1) + 1
    BY <1>1, <2>1
  <2>3. deftab'[i] = deftab[i - 1]
    BY <1>1, <2>2
  <2> QED
    BY <1>0, <2>1, <2>2, <2>3 DEF EntryFd, Pending
<1>7. /\ \A p \in InputFd : fdvar[p] \in Fd /\ fdvar[p] # None
      /\ \A i \in EntryFd : deftab[i].real \in Fd
  BY <1>0, OwnedFacts DEF InputFd
<1>8. /\ \A n \in Fd : n # r => table'[n] = table[n]
      /\ r # None => r \in Fd /\ table[r] = Closed /\ table'[r] # Closed
  BY <1>0 DEF TypeOK
<1>9. OwnedOnce'
  <2>1. \A i \in EntryFd : deftab[i].real # r /\ table'[deftab[i].real] # Closed
    BY <1>0, <1>7, <1>8 DEF OwnedOnce, EntriesOpen, Fd, None
  <2>2. \A p \in InputFd : fdvar[p] # r /\ table'[fdvar[p]] # Closed
    BY <1>0, <1>7, <1>8 DEF OwnedOnce, InputsOpen
  <2>3. EntriesOpen'
    BY <1>1, <1>6, <1>8, <2>1 DEF EntriesOpen
  <2>4. EntriesDistinct'
    <3> SUFFICES ASSUME NEW i \in EntryFd', NEW j \in EntryFd',
                        deftab'[i].real = deftab'[j].real
                 PROVE  i = j
      BY DEF EntriesDistinct
    <3>1. CASE i = 1 \/ j = 1
      BY <1>1, <1>6, <2>1, <3>1
    <3>2. CASE i # 1 /\ j # 1
      <4>1. /\ i - 1 \in EntryFd /\ j - 1 \in EntryFd
            /\ deftab[i - 1].real = deftab[j - 1].real
        BY <1>6, <3>2
      <4>2. i - 1 = j - 1
        BY <1>0, <4>1 DEF OwnedOnce, EntriesDistinct
      <4>3. i \in Int /\ j \in Int
        BY <1>0, <1>1 DEF EntryFd, Pending
      <4> QED
        BY <4>2, <4>3
    <3> QED
      BY <3>1, <3>2
  <2>5. InputsOpen' /\ InputsDistinct'
    BY <1>0, <1>5, <2>2 DEF OwnedOnce, InputsOpen, InputsDistinct
  <2>6. EntriesNotInputs'
    BY <1>0, <1>1, <1>5, <1>6, <2>2 DEF OwnedOnce, EntriesNotInputs
  <2> QED
    BY <2>3, <2>4, <2>5, <2>6 DEF OwnedOnce
<1> QED
  BY <1>2, <1>3, <1>4, <1>9 DEF IInv

LEMMA ImmediateReleaseIInv == ASSUME IInv, ImmediateRelease PROVE IInv'
<1>0. /\ TypeOK /\ OwnedOnce /\ PcInv /\ FramesInv /\ pc = "immediate"
      /\ next = 1 /\ Len(deftab) >= 1 /\ Len(deftab) \in Nat
      /\ UNCHANGED <<registered, frames, child, next>>
  BY OwnedFacts DEF IInv, ImmediateRelease, PcInv
<1>1. PICK u : u = deftab[next].user
  OBVIOUS
<1>2. ReleaseTo(u, "immediate_apply", "throw")
  BY <1>0, <1>1 DEF ImmediateRelease
<1>3. /\ table' \in [Fd -> Content]
      /\ fdvar' \in [Internal -> Fd \cup {None}]
      /\ deftab' \in Seq(Defer)
      /\ Len(deftab') = Len(deftab)
      /\ deftab'[next] = deftab[next]
      /\ OwnedOnce'
      /\ pc' \in {"immediate_apply", "throw"}
      /\ pc' = "immediate_apply" => ~ Held(u)'
  <2>1. "immediate_apply" # "throw" /\ next <= Len(deftab)
    BY <1>0
  <2> QED
    BY <1>0, <1>1, <1>2, <2>1, ReleaseFacts
<1>4. TypeOK'
  <2>1. failed' \in BOOLEAN
    BY DEF ImmediateRelease
  <2> QED
    BY <1>0, <1>3, <2>1 DEF TypeOK, PC
<1>5. PcInv'
  <2>1. u = deftab'[1].user
    BY <1>0, <1>1, <1>3
  <2>2. pc' = "immediate_apply" => ~ Held(deftab[1].user)'
    BY <1>3, <2>1 DEF Held, HolderInternal, HolderDefer
  <2>3. pc' = "throw" => failed'
    BY DEF ImmediateRelease
  <2> QED
    BY <1>0, <1>3, <2>2, <2>3 DEF PcInv
<1>6. FramesInv'
  BY <1>0, <1>3 DEF FramesInv, Tickets, FramesOrdered
<1> QED
  BY <1>3, <1>4, <1>5, <1>6 DEF IInv

\* The pair before the list is dropped: the entries keep what they have.
LEMMA PairDropped ==
  ASSUME IInv, pc \in {"immediate", "immediate_apply", "throw"}, pc' \in {"run", "exited"},
         deftab' = Tail(deftab), table' \in [Fd -> Content], failed' \in BOOLEAN,
         UNCHANGED <<fdvar, registered, child, next>>,
         \A i \in EntryFd \ {next} : table'[deftab[i].real] # Closed,
         \A p \in InputFd : table'[fdvar[p]] # Closed,
         frames' \in Seq(Nat), FramesOrdered',
         NEW n \in Nat, n = Len(deftab) - 1, Tickets(n)'
  PROVE  IInv'
<1>0. /\ TypeOK /\ OwnedOnce /\ next = 1 /\ Len(deftab) >= 1 /\ Len(deftab) \in Nat
  BY OwnedFacts DEF IInv, PcInv
<1>1. /\ deftab' \in Seq(Defer) /\ Len(deftab') = Len(deftab) - 1
      /\ \A i \in 1 .. Len(deftab) - 1 : deftab'[i] = deftab[i + 1]
  <2>1. deftab # << >>
    BY <1>0
  <2> QED
    BY <1>0, <2>1, TailFacts DEF TypeOK
<1>2. TypeOK' /\ PcInv'
  BY <1>0, <1>1 DEF TypeOK, PcInv, PC
<1>3. FramesInv'
  <2>1. Len(deftab') = n
    BY <1>1
  <2> QED
    BY <2>1 DEF FramesInv, Tickets
<1>4. InputFd' = InputFd
  BY DEF InputFd
<1>5. \A i \in EntryFd' : /\ i + 1 \in EntryFd \ {next} /\ i \in Int
                          /\ deftab'[i].real = deftab[i + 1].real
  <2> SUFFICES ASSUME NEW i \in EntryFd'
               PROVE  /\ i + 1 \in EntryFd \ {next} /\ i \in Int
                      /\ deftab'[i].real = deftab[i + 1].real
    OBVIOUS
  <2>1. i \in 1 .. Len(deftab) - 1 /\ deftab'[i].real # None
    BY <1>0, <1>1 DEF EntryFd, Pending
  <2>2. deftab'[i] = deftab[i + 1]
    BY <1>1, <2>1
  <2> QED
    BY <1>0, <2>1, <2>2 DEF EntryFd, Pending
<1>6. EntriesDistinct'
  <2> SUFFICES ASSUME NEW i \in EntryFd', NEW j \in EntryFd',
                      deftab'[i].real = deftab'[j].real
               PROVE  i = j
    BY DEF EntriesDistinct
  <2>1. /\ i + 1 \in EntryFd /\ i \in Int /\ deftab'[i].real = deftab[i + 1].real
        /\ j + 1 \in EntryFd /\ j \in Int /\ deftab'[j].real = deftab[j + 1].real
    BY <1>5
  <2>2. i + 1 = j + 1
    BY <1>0, <2>1 DEF OwnedOnce, EntriesDistinct
  <2> QED
    BY <2>1, <2>2
<1>7. OwnedOnce'
  BY <1>0, <1>4, <1>5, <1>6 DEF OwnedOnce, EntriesOpen, InputsOpen, InputsDistinct,
     EntriesNotInputs
<1> QED
  BY <1>2, <1>3, <1>7 DEF IInv

LEMMA ImmediateApplyIInv == ASSUME IInv, ImmediateApply PROVE IInv'
<1>0. /\ TypeOK /\ OwnedOnce /\ PcInv /\ FramesInv /\ pc = "immediate_apply"
      /\ next = 1 /\ Len(deftab) >= 1 /\ Len(deftab) \in Nat /\ ~ Held(deftab[1].user)
      /\ UNCHANGED <<fdvar, registered, frames, child, next>>
      /\ failed' \in BOOLEAN
  BY OwnedFacts DEF IInv, ImmediateApply, PcInv
<1>1. PICK u, r : u = deftab[next].user /\ r = deftab[next].real
  OBVIOUS
<1>2. ApplyTo(r, u, "run", "throw") /\ ~ Held(u) /\ next <= Len(deftab)
  BY <1>0, <1>1 DEF ImmediateApply
<1>3. /\ table' \in [Fd -> Content]
      /\ pc' \in {"run", "throw"}
      /\ pc' # "run" => table' = table
      /\ \A i \in EntryFd \ {next} : table'[deftab[i].real] # Closed
      /\ \A p \in InputFd : table'[fdvar[p]] # Closed
  BY <1>0, <1>1, <1>2, ApplyFacts
<1>4. CASE pc' = "run"
  <2>1. deftab' = Tail(deftab)
    BY <1>4 DEF ImmediateApply
  <2>2. PICK n \in Nat : n = Len(deftab) - 1
    BY <1>0
  <2>3. frames' \in Seq(Nat) /\ FramesOrdered' /\ Tickets(n)'
    BY <1>0, <2>2 DEF TypeOK, FramesInv, FramesOrdered, Tickets
  <2> QED
    BY <1>0, <1>3, <1>4, <2>1, <2>2, <2>3, PairDropped
<1>5. CASE pc' = "throw"
  <2>1. deftab' = deftab /\ table' = table /\ failed'
    BY <1>3, <1>5 DEF ImmediateApply
  <2>2. TypeOK' /\ PcInv' /\ FramesInv'
    BY <1>0, <1>5, <2>1 DEF TypeOK, PC, PcInv, FramesInv, Tickets, FramesOrdered
  <2>3. OwnedOnce'
    BY <1>0, <2>1 DEF OwnedOnce, EntriesOpen, EntriesDistinct, InputsOpen,
       InputsDistinct, EntriesNotInputs, EntryFd, InputFd, Pending
  <2> QED
    BY <2>2, <2>3 DEF IInv
<1> QED
  BY <1>3, <1>4, <1>5

LEMMA ThrowIInv == ASSUME IInv, Throw PROVE IInv'
<1>0. /\ TypeOK /\ OwnedOnce /\ PcInv /\ FramesInv /\ pc = "throw"
      /\ next = 1 /\ Len(deftab) >= 1 /\ Len(deftab) \in Nat
      /\ UNCHANGED <<fdvar, registered, child, next, failed>>
  BY OwnedFacts DEF IInv, Throw, PcInv
<1>1. CASE frames # << >> /\ Last(frames) # CatchFrame
  BY <1>0, <1>1, PoppedIInv DEF Throw
<1>2. CASE frames = << >> \/ Last(frames) = CatchFrame
  <2>1. /\ deftab' = Tail(deftab) /\ table' = table /\ pc' \in {"run", "exited"}
        /\ frames' = IF frames = << >> THEN frames ELSE Front(frames)
    BY <1>2 DEF Throw
  <2>2. PICK n \in Nat : n = Len(deftab) - 1
    BY <1>0
  <2>3. Tickets(n) /\ FramesOrdered
    BY <1>0, <2>2 DEF FramesInv, Tickets
  <2>4. frames' \in Seq(Nat) /\ FramesOrdered' /\ Tickets(n)'
    <3>1. CASE frames = << >>
      BY <1>0, <2>1, <2>3, <3>1 DEF TypeOK, FramesOrdered, Tickets
    <3>2. CASE frames # << >>
      <4>1. frames' \in Seq(Nat) /\ FramesOrdered'
        BY <1>0, <2>1, <3>2, PopFacts
      <4>2. n = IF Last(frames) = CatchFrame THEN n ELSE n - 1
        BY <1>2, <3>2
      <4>3. Tickets(n)'
        BY <1>0, <2>1, <2>3, <3>2, <4>2, PopTickets
      <4> QED
        BY <4>1, <4>3
    <3> QED
      BY <3>1, <3>2
  <2>5. /\ table' \in [Fd -> Content] /\ failed' \in BOOLEAN
        /\ \A i \in EntryFd \ {next} : table'[deftab[i].real] # Closed
        /\ \A p \in InputFd : table'[fdvar[p]] # Closed
    BY <1>0, <2>1 DEF TypeOK, OwnedOnce, EntriesOpen, InputsOpen
  <2> QED
    BY <1>0, <2>1, <2>2, <2>4, <2>5, PairDropped
<1> QED
  BY <1>1, <1>2

LEMMA UnwindIInv == ASSUME IInv, Unwind PROVE IInv'
<1>0. /\ TypeOK /\ OwnedOnce /\ PcInv /\ FramesInv /\ pc = "thrown"
      /\ next <= Len(deftab) /\ next \in Nat \ {0} /\ Len(deftab) \in Nat
      /\ UNCHANGED <<fdvar, registered, child, next, failed>>
  BY OwnedFacts DEF IInv, Unwind, PcInv, TypeOK
<1>1. CASE /\ pc' \in {"exited", "escaped", "panic"}
           /\ UNCHANGED <<table, deftab, frames>>
  <2>1. TypeOK' /\ PcInv' /\ FramesInv'
    BY <1>0, <1>1 DEF TypeOK, PC, PcInv, FramesInv, Tickets, FramesOrdered
  <2>2. OwnedOnce'
    BY <1>0, <1>1 DEF OwnedOnce, EntriesOpen, EntriesDistinct, InputsOpen,
       InputsDistinct, EntriesNotInputs, EntryFd, InputFd, Pending
  <2> QED
    BY <2>1, <2>2 DEF IInv
<1>2. CASE /\ frames # << >> /\ ~ (Len(deftab) <= next)
           /\ table' = ClosedAt(table, Last(deftab).real)
           /\ deftab' = Front(deftab)
           /\ frames' = Front(frames)
           /\ UNCHANGED pc
  <2>1. /\ table' \in [Fd -> Content]
        /\ deftab' \in Seq(Defer)
        /\ Len(deftab') = Len(deftab) - 1
        /\ OwnedOnce'
    <3>1. deftab # << >>
      BY <1>0, EmptySeq
    <3> QED
      BY <1>0, <1>2, <3>1, UndeferFacts
  <2>2. frames' \in Seq(Nat) /\ FramesOrdered'
    BY <1>0, <1>2, PopFacts
  <2>3. TypeOK' /\ PcInv' /\ FramesInv'
    BY <1>0, <1>2, <2>1, <2>2 DEF TypeOK, PcInv, FramesInv, Tickets
  <2> QED
    BY <2>1, <2>3 DEF IInv
<1> QED
  BY <1>1, <1>2 DEF Unwind

-----------------------------------------------------------------------------
LEMMA NextIInv == IInv /\ [Next]_vars => IInv'
<1> SUFFICES ASSUME IInv, [Next]_vars PROVE IInv'
  OBVIOUS
<1>0. TypeOK
  BY DEF IInv
<1>1. ASSUME NEW u \in UserFd, NEW f \in File, OpenRedir(u, f) PROVE IInv'
  <2>1. PICK r \in Fd : /\ table[r] = Closed
                        /\ table' = [table EXCEPT ![r] = f]
                        /\ PushDefer(r, u)
    BY <1>1 DEF OpenRedir, IsLowestFree
  <2>2. f \in Content /\ f # Closed
    BY FdsAssumption DEF Content
  <2> QED
    BY <1>1, <2>1, <2>2, PushFresh DEF OpenRedir, Parent
<1>2. ASSUME NEW u \in UserFd, NEW src \in UserFd, DupRedir(u, src) PROVE IInv'
  <2>1. PICK r \in Fd : /\ table[r] = Closed
                        /\ table' = [table EXCEPT ![r] = table[fdmap(src)]]
                        /\ PushDefer(r, u)
    BY <1>2 DEF DupRedir, IsLowestFree
  <2>2. PICK f \in Content : f = table[fdmap(src)] /\ f # Closed
    BY <1>0, <1>2 DEF DupRedir, TypeOK
  <2> QED
    BY <1>2, <2>1, <2>2, PushFresh DEF DupRedir, Parent
<1>3. ASSUME NEW u \in UserFd, NEW f \in File, OpenNow(u, f) PROVE IInv'
  <2>1. PICK r \in Fd : /\ table[r] = Closed
                        /\ table' = [table EXCEPT ![r] = f]
                        /\ Immediate(r, u)
    BY <1>3 DEF OpenNow, IsLowestFree
  <2>2. f \in Content \ {Closed}
    BY FdsAssumption DEF Content
  <2> QED
    BY <1>3, <2>1, <2>2, ImmediateFacts DEF OpenNow
<1>4. ASSUME NEW u \in UserFd, NEW src \in UserFd, DupNow(u, src) PROVE IInv'
  <2>1. PICK r \in Fd : /\ table[r] = Closed
                        /\ table' = [table EXCEPT ![r] = table[fdmap(src)]]
                        /\ Immediate(r, u)
    BY <1>4 DEF DupNow, IsLowestFree
  <2>2. table[fdmap(src)] \in Content \ {Closed}
    BY <1>0, <1>4 DEF DupNow, TypeOK
  <2> QED
    BY <1>4, <2>1, <2>2, ImmediateFacts DEF DupNow
<1>5. ASSUME NEW u \in UserFd, CloseNow(u) PROVE IInv'
  <2>1. None \in Fd \cup {None} /\ DoneAtOnce /\ Immediate(None, u)
        /\ UNCHANGED table
    BY <1>5 DEF CloseNow
  <2> QED
    BY <2>1, ImmediateFacts
<1>6. CASE Redirecting
  BY <1>1, <1>2, <1>6, CloseRedirIInv, CatchIInv, LeaveIInv DEF Redirecting
<1>7. CASE Reading
  BY <1>7, OpenInputIInv, InputIInv DEF Reading
<1>8. CASE Forking
  BY <1>8, ForkIInv, ReleaseIInv, ApplyIInv, CloseOnForkIInv, UnwindIInv
     DEF Forking
<1>9. CASE AtOnce
  BY <1>3, <1>4, <1>5, <1>9, ImmediateReleaseIInv, ImmediateApplyIInv,
     ThrowIInv
     DEF AtOnce
<1>10. CASE UNCHANGED vars
  <2>1. OwnedOnce'
    BY <1>10, OwnedKept DEF vars, IInv
  <2>2. TypeOK' /\ PcInv'
    BY <1>10 DEF vars, IInv, TypeOK, PcInv, Held, HolderInternal, HolderDefer
  <2>3. FramesInv'
    BY <1>10 DEF vars, IInv, FramesInv, Tickets, FramesOrdered
  <2> QED
    BY <2>1, <2>2, <2>3 DEF IInv
<1> QED
  BY <1>6, <1>7, <1>8, <1>9, <1>10 DEF Next

\* The inductive invariant holds throughout.
THEOREM Invariance == Spec => []IInv
BY InitIInv, NextIInv, PTL DEF Spec

\* The deferred list, the inputs and the descriptor table keep their types.
THEOREM TypeCorrect == Spec => []TypeOK
<1>1. IInv => TypeOK
  BY DEF IInv
<1> QED
  BY <1>1, Invariance, PTL

\* However redirections, inputs and forks interleave, and whatever fails,
\* every descriptor es owns stays open and has one owner. (fd.c: dodeferred,
\* undefer, releasefd, mvfd)
THEOREM Ownership == Spec => []OwnedOnce
<1>1. IInv => OwnedOnce
  BY DEF IInv
<1> QED
  BY <1>1, Invariance, PTL

\* The assertion ticket == defcount of undefer never fails outside a fork.
\* (fd.c: undefer; prim-io.c: run_redir)
THEOREM UndeferOrder == Spec => []UndeferInOrder
BY InOrder, Invariance, PTL

-----------------------------------------------------------------------------
(* The refinement of Redirect.  The view is a function of the last pending  *)
(* entry for each descriptor; what a step does to it is shown by what it    *)
(* does to that entry and to the descriptors that have none.                *)

\* Descriptors 0-2 stay open where the program does not close them.
LEMMA InitStd == Init => StdOpen
BY EmptySeq DEF Init, StdOpen, EntryFd, Pending

\* A descriptor handed out now is none of 0-2.
LEMMA FreshFd ==
  ASSUME StdOpen, pc \in {"run", "release", "immediate"}, NEW n \in Fd, table[n] = Closed
  PROVE  n \notin Std
BY DEF StdOpen

LEMMA PushStd ==
  ASSUME IInv, IInv', StdOpen, pc = "run", NEW r \in Fd \cup {None}, NEW u \in UserFd,
         PushDefer(r, u), UNCHANGED <<fdvar, registered, child, pc, next, failed>>,
         IF r = None THEN u \notin Std /\ UNCHANGED table
         ELSE table[r] = Closed /\ \E f \in File : table' = [table EXCEPT ![r] = f]
  PROVE  StdOpen'
<1>1. /\ Len(deftab') = Len(deftab) + 1 /\ Len(deftab) \in Nat /\ next = 1
      /\ \A i \in 1 .. Len(deftab) : deftab'[i] = deftab[i]
      /\ deftab'[Len(deftab) + 1] = [real |-> r, user |-> u]
  BY PushFacts DEF IInv, PcInv
<1>2. \A n \in Std : table'[n] # Closed
  <2>1. \A n \in Std : n \in Fd /\ table[n] # Closed
    BY FdsAssumption DEF StdOpen, Std, Fd
  <2>2. CASE r = None
    BY <2>1, <2>2
  <2>3. CASE r # None
    <3>1. PICK f \in File : table' = [table EXCEPT ![r] = f]
      BY <2>3
    <3> QED
      BY <2>1, <2>3, <3>1, FdsAssumption DEF IInv, TypeOK
  <2> QED
    BY <2>2, <2>3
<1>3. r = None \/ r \notin Std
  BY FreshFd
<1>4. \A i \in EntryFd' : deftab'[i].real \notin Std
  <2>1. \A i \in EntryFd' : i \in EntryFd \/ (i = Len(deftab) + 1 /\ r # None)
    BY <1>1 DEF EntryFd, Pending
  <2>2. \A i \in EntryFd : i \in 1 .. Len(deftab)
    BY OwnedFacts DEF IInv
  <2> QED
    BY <1>1, <1>3, <2>1, <2>2 DEF StdOpen
<1>5. \A i \in Pending(Len(deftab))' : deftab'[i].real = None => deftab'[i].user \notin Std
  <2>1. \A i \in Pending(Len(deftab))' : i \in Pending(Len(deftab)) \/ i = Len(deftab) + 1
    BY <1>1 DEF Pending
  <2> QED
    BY <1>1, <2>1 DEF StdOpen, Pending
<1> QED
  BY <1>2, <1>4, <1>5 DEF StdOpen

\* The innermost command ends.
LEMMA LeaveStd == ASSUME IInv, IInv', StdOpen, Leave PROVE StdOpen'
<1>0. /\ pc = "run" /\ pc' = "run" /\ next = 1 /\ next' = 1 /\ TypeOK /\ frames # << >>
      /\ UNCHANGED <<fdvar, registered, child>>
  BY DEF IInv, Leave, PcInv
<1>1. CASE UNCHANGED <<table, deftab>>
  BY <1>0, <1>1 DEF StdOpen, EntryFd, Pending
<1>2. CASE /\ Last(frames) # CatchFrame
           /\ table' = ClosedAt(table, Last(deftab).real) /\ deftab' = Front(deftab)
  <2>1. deftab # << >>
    <3>1. Last(frames) = Len(deftab)
      <4>1. defcount = Len(deftab)
        BY <1>0 DEF defcount
      <4> QED
        BY <1>0, <1>2, <4>1, InOrder DEF UndeferInOrder
    <3> QED
      BY <1>0, <1>2, <3>1 DEF CatchFrame
  <2>2. /\ Len(deftab') = Len(deftab) - 1 /\ Len(deftab) \in Nat \ {0}
        /\ \A i \in 1 .. Len(deftab) - 1 : deftab'[i] = deftab[i]
        /\ Last(deftab) = deftab[Len(deftab)]
    BY <1>0, <1>2, <2>1, FrontFacts DEF TypeOK
  <2>3. EntryFd' \subseteq EntryFd /\ \A i \in EntryFd' : deftab'[i] = deftab[i]
    BY <1>0, <2>2 DEF EntryFd, Pending
  <2>4. \A n \in Std : n \in Fd /\ table[n] # Closed
    BY <1>0, FdsAssumption DEF StdOpen, Std, Fd
  <2>5. Last(deftab).real \notin Std
    <3>1. Last(deftab).real = None \/ Len(deftab) \in EntryFd
      BY <1>0, <2>2 DEF EntryFd, Pending
    <3> QED
      BY <2>2, <3>1 DEF StdOpen, Std, None
  <2>6. \A n \in Std : table'[n] # Closed
    BY <1>0, <1>2, <2>4, <2>5 DEF ClosedAt, TypeOK
  <2>7. \A i \in Pending(Len(deftab))' : i \in Pending(Len(deftab)) /\ deftab'[i] = deftab[i]
    BY <1>0, <2>2 DEF Pending
  <2> QED
    BY <1>0, <2>3, <2>6, <2>7 DEF StdOpen
<1> QED
  BY <1>1, <1>2 DEF Leave

\* An input is opened on a fresh descriptor; none on 0-2 is closed.
LEMMA ReadingStd == ASSUME IInv, IInv', StdOpen, Reading PROVE StdOpen'
<1> PICK p \in Internal :
      (\E f \in File : OpenInput(p, f)) \/ EndOfInput(p) \/ CloseInput(p)
  BY DEF Reading
<1>0. /\ pc = "run" /\ TypeOK /\ UNCHANGED <<deftab, frames, child, pc, next, failed>>
      /\ \A n \in Std : n \in Fd /\ table[n] # Closed
  BY FdsAssumption DEF IInv, OpenInput, EndOfInput, CloseInput, StdOpen, Std, Fd
<1>1. \A n \in Std : table'[n] # Closed
  <2>1. CASE \E f \in File : OpenInput(p, f)
    BY <1>0, <2>1, FdsAssumption DEF OpenInput, TypeOK
  <2>2. CASE EndOfInput(p)
    BY <1>0, <2>2 DEF EndOfInput, TypeOK
  <2>3. CASE CloseInput(p)
    BY <1>0, <2>3 DEF CloseInput, ClosedAt, TypeOK
  <2> QED
    BY <2>1, <2>2, <2>3
<1> QED
  BY <1>0, <1>1 DEF StdOpen, EntryFd, Pending

\* releasefd(u): what holds u is moved to a fresh descriptor, which is none
\* of 0-2.
LEMMA ReleaseStd ==
  ASSUME IInv, IInv', StdOpen, pc \in {"release", "immediate"}, next <= Len(deftab),
         NEW after \in {"apply", "immediate_apply"}, NEW failing \in {"thrown", "throw"},
         ReleaseTo(deftab[next].user, after, failing),
         UNCHANGED <<registered, frames, child, next>>
  PROVE  StdOpen'
<1> DEFINE u == deftab[next].user
<1>0. /\ TypeOK /\ next \in 1 .. Len(deftab) /\ Len(deftab) \in Nat
      /\ \A n \in Std : n \in Fd /\ table[n] # Closed
  BY OwnedFacts, FdsAssumption DEF IInv, TypeOK, StdOpen, Std, Fd
<1>1. ASSUME NEW n \in Fd \cup {None}, MoveHolders(u, n), n \notin Std
      PROVE  /\ Len(deftab') = Len(deftab) /\ deftab'[next] = deftab[next]
             /\ \A i \in EntryFd' : deftab'[i].real \notin Std
             /\ \A i \in 1 .. Len(deftab) :
                  /\ deftab'[i].user = deftab[i].user
                  /\ n # None /\ deftab[i].real # None => deftab'[i].real # None
  <2>1. deftab' = [i \in 1 .. Len(deftab) |->
                     IF i \in HolderDefer(u)
                     THEN [deftab[i] EXCEPT !.real = n] ELSE deftab[i]]
    BY <1>1 DEF MoveHolders
  <2>2. Len(deftab') = Len(deftab)
    BY <1>0, <2>1
  <2>3. \A i \in 1 .. Len(deftab) :
          /\ deftab'[i].user = deftab[i].user
          /\ deftab'[i].real = IF i \in HolderDefer(u) THEN n ELSE deftab[i].real
    BY <2>1, <1>0, OwnedFacts DEF Defer
  <2>4. deftab'[next] = deftab[next]
    BY <1>0, <2>1 DEF HolderDefer
  <2>5. \A i \in EntryFd' : deftab'[i].real = n \/ (i \in EntryFd /\ deftab'[i].real = deftab[i].real)
    BY <1>0, <2>2, <2>3 DEF EntryFd, Pending
  <2> QED
    BY <1>1, <2>2, <2>3, <2>4, <2>5 DEF StdOpen
<1>2. CASE ~ Held(u) /\ pc' = after /\ UNCHANGED <<table, fdvar, deftab>>
  BY <1>0, <1>2 DEF StdOpen, EntryFd, Pending
<1>3. CASE \E n \in Fd :
             /\ IsLowestFree(n)
             /\ MoveHolders(u, n)
             /\ table' = [table EXCEPT ![n] = table[u], ![u] = Closed]
             /\ pc' = after
  <2>1. PICK n \in Fd : /\ IsLowestFree(n)
                        /\ MoveHolders(u, n)
                        /\ table' = [table EXCEPT ![n] = table[u], ![u] = Closed]
                        /\ pc' = after
    BY <1>3
  <2>2. n \notin Std /\ n # None
    BY <2>1, <1>0 DEF IsLowestFree, Fd, None
  <2>3. /\ Len(deftab') = Len(deftab) /\ deftab'[next] = deftab[next]
        /\ \A i \in EntryFd' : deftab'[i].real \notin Std
        /\ \A i \in 1 .. Len(deftab) :
             /\ deftab'[i].user = deftab[i].user
             /\ deftab[i].real # None => deftab'[i].real # None
    BY <1>1, <2>1, <2>2
  <2>4. \A m \in Std : m = u \/ table'[m] # Closed
    BY <1>0, <2>1, <2>2 DEF TypeOK
  <2>5. \A i \in Pending(Len(deftab))' :
          i \in Pending(Len(deftab)) /\ i \in 1 .. Len(deftab)
    BY <1>0, <2>3 DEF Pending
  <2>6. \A i \in Pending(Len(deftab)) : deftab[i].real = None => deftab[i].user \notin Std
    BY DEF StdOpen
  <2> QED
    BY <2>1, <2>3, <2>4, <2>5, <2>6 DEF StdOpen
<1>4. CASE MoveHolders(u, None) /\ pc' = failing
  <2>1. None \in Fd \cup {None} /\ None \notin Std
    BY DEF Std, None
  <2> QED
    BY <1>1, <1>4, <2>1 DEF StdOpen
<1> QED
  BY <1>2, <1>3, <1>4 DEF ReleaseTo

\* The rest of dodeferred(): an entry is put on its descriptor.
LEMMA ApplyStd ==
  ASSUME IInv, IInv', StdOpen, pc \in {"apply", "immediate_apply"}, next <= Len(deftab),
         NEW after \in {"release", "run"}, NEW failing \in {"thrown", "throw"},
         ApplyTo(deftab[next].real, deftab[next].user, after, failing),
         \/ deftab' = Tail(deftab) /\ next' = next /\ next = 1
         \/ deftab' = deftab /\ next' = IF pc' = failing THEN next ELSE next + 1,
         UNCHANGED <<fdvar, registered, frames, child>>
  PROVE  StdOpen'
<1>1. PICK u, r : u = deftab[next].user /\ r = deftab[next].real
  OBVIOUS
<1>2. /\ TypeOK /\ next \in 1 .. Len(deftab) /\ Len(deftab) \in Nat
      /\ \A n \in Std : n \in Fd /\ (n = u \/ table[n] # Closed)
      /\ r \in Fd \cup {None} /\ u \in Nat
  BY <1>1, OwnedFacts, FdsAssumption DEF IInv, TypeOK, StdOpen, Std, Fd
<1>3. next \in Pending(Len(deftab)) /\ (r = None \/ next \in EntryFd)
  BY <1>1, <1>2 DEF EntryFd, Pending
<1>4. r \notin Std /\ (r = None => u \notin Std)
  BY <1>1, <1>3 DEF StdOpen, Std, None
<1>5. pc' = after => \A n \in Std : table'[n] # Closed
  <2>1. CASE r = None
    BY <1>1, <1>2, <1>4, <2>1 DEF ApplyTo, ClosedAt, TypeOK
  <2>2. CASE r # None /\ r = u
    BY <1>1, <1>2, <1>4, <2>2 DEF ApplyTo
  <2>3. CASE r # None /\ r # u /\ u \in Fd
    <3>1. table' = [table EXCEPT ![u] = table[r], ![r] = Closed]
      BY <1>1, <2>3 DEF ApplyTo
    <3>2. table[r] # Closed
      BY <1>1, <1>3, <2>3 DEF IInv, OwnedOnce, EntriesOpen
    <3> QED
      BY <1>2, <1>4, <2>3, <3>1, <3>2 DEF TypeOK
  <2>4. CASE r # None /\ u \notin Fd
    BY <1>1, <1>2, <2>4 DEF ApplyTo
  <2> QED
    BY <2>1, <2>2, <2>3, <2>4
<1>6. pc' \in {after, failing}
  BY DEF ApplyTo
<1>7. /\ \A i \in EntryFd' : \E j \in EntryFd : deftab'[i] = deftab[j]
      /\ \A i \in Pending(Len(deftab))' : \E j \in Pending(Len(deftab)) : deftab'[i] = deftab[j]
  <2>1. CASE deftab' = deftab /\ next' \in {next, next + 1}
    BY <1>2, <2>1 DEF EntryFd, Pending
  <2>2. CASE deftab' = Tail(deftab) /\ next' = 1 /\ next = 1
    <3>1. /\ Len(deftab') = Len(deftab) - 1
          /\ \A i \in 1 .. Len(deftab) - 1 : deftab'[i] = deftab[i + 1]
      <4>1. deftab # << >>
        BY <1>2
      <4> QED
        BY <1>2, <2>2, <4>1, TailFacts DEF TypeOK
    <3>2. \A i \in Pending(Len(deftab))' :
            i + 1 \in Pending(Len(deftab)) /\ deftab'[i] = deftab[i + 1]
      BY <1>2, <2>2, <3>1 DEF Pending
    <3>3. \A i \in EntryFd' : i + 1 \in EntryFd /\ deftab'[i] = deftab[i + 1]
      BY <3>2 DEF EntryFd
    <3> QED
      BY <3>2, <3>3
  <2> QED
    BY <2>1, <2>2
<1> QED
  BY <1>5, <1>6, <1>7 DEF StdOpen

\* A redirection done at once: like a push.
LEMMA ImmediateStd ==
  ASSUME IInv, IInv', StdOpen, DoneAtOnce, NEW r \in Fd \cup {None}, NEW u \in UserFd,
         Immediate(r, u),
         IF r = None THEN u \notin Std /\ UNCHANGED table
         ELSE table[r] = Closed /\ \E f \in Content \ {Closed} : table' = [table EXCEPT ![r] = f]
  PROVE  StdOpen'
<1>1. /\ pc' = "immediate" /\ next = 1 /\ next' = 1 /\ pc = "run" /\ TypeOK
      /\ \A n \in Std : n \in Fd /\ table[n] # Closed
  BY FdsAssumption DEF Immediate, DoneAtOnce, IInv, PcInv, TypeOK, StdOpen, Std, Fd
<1>2. \A n \in Std : table'[n] # Closed
  <2>1. CASE r = None
    BY <1>1, <2>1
  <2>2. CASE r # None
    <3>1. PICK f \in Content \ {Closed} : table' = [table EXCEPT ![r] = f]
      BY <2>2
    <3> QED
      BY <1>1, <2>2, <3>1 DEF TypeOK
  <2> QED
    BY <2>1, <2>2
<1>3. r = None \/ r \notin Std
  BY <1>1, FreshFd
<1>4. /\ Len(deftab') = Len(deftab) + 1 /\ Len(deftab) \in Nat
      /\ deftab'[1].real = r /\ deftab'[1].user = u
      /\ \A i \in 1 .. Len(deftab) : deftab'[i + 1] = deftab[i]
  BY <1>1, ConsFacts DEF TypeOK, Immediate, Defer
<1>5. \A i \in Pending(Len(deftab))' :
        i = 1 \/ (i - 1 \in Pending(Len(deftab)) /\ deftab'[i] = deftab[i - 1])
  <2> SUFFICES ASSUME NEW i \in Pending(Len(deftab))', i # 1
               PROVE  i - 1 \in Pending(Len(deftab)) /\ deftab'[i] = deftab[i - 1]
    OBVIOUS
  <2>1. i - 1 \in 1 .. Len(deftab) /\ i = (i - 1) + 1
    BY <1>1, <1>4 DEF Pending
  <2> QED
    BY <1>1, <1>4, <2>1 DEF Pending
<1>6. \A i \in EntryFd' : (i = 1 /\ r # None) \/ (i - 1 \in EntryFd /\ deftab'[i] = deftab[i - 1])
  BY <1>4, <1>5 DEF EntryFd
<1>7. /\ \A i \in EntryFd' : deftab'[i].real \notin Std
      /\ \A i \in Pending(Len(deftab))' : deftab'[i].real = None => deftab'[i].user \notin Std
  BY <1>1, <1>3, <1>4, <1>5, <1>6 DEF StdOpen
<1> QED
  BY <1>1, <1>2, <1>7 DEF StdOpen

LEMMA NextStd ==
  ASSUME Closable \cap Std = {}, IInv, IInv', StdInv, [Next]_vars
  PROVE  StdInv'
<1> SUFFICES ASSUME StdOpen, ~ failed' PROVE StdOpen'
  <2>1. failed => failed'
    BY DEF Next, Redirecting, Reading, Forking, AtOnce, OpenRedir, DupRedir, CloseRedir, Catch,
       Leave, OpenInput, EndOfInput, CloseInput, Fork, Release, Apply, CloseOnFork, Unwind,
       OpenNow, DupNow, CloseNow, Immediate, ImmediateRelease, ImmediateApply, Throw, vars
  <2> QED
    BY <2>1 DEF StdInv
<1>0. TypeOK /\ PcInv
  BY DEF IInv
<1>1. ASSUME NEW u \in UserFd, NEW f \in File, OpenRedir(u, f) PROVE StdOpen'
  <2>1. PICK r \in Fd : /\ table[r] = Closed
                        /\ table' = [table EXCEPT ![r] = f]
                        /\ PushDefer(r, u)
    BY <1>1 DEF OpenRedir, IsLowestFree
  <2>2. r # None
    BY DEF Fd, None
  <2> QED
    BY <1>1, <2>1, <2>2, PushStd DEF OpenRedir, Parent
<1>2. ASSUME NEW u \in UserFd, NEW src \in UserFd, DupRedir(u, src) PROVE StdOpen'
  <2>1. PICK r \in Fd : /\ table[r] = Closed
                        /\ table' = [table EXCEPT ![r] = table[fdmap(src)]]
                        /\ PushDefer(r, u)
    BY <1>2 DEF DupRedir, IsLowestFree
  <2>2. table[fdmap(src)] \in File
    BY <1>0, <1>2 DEF DupRedir, TypeOK, Content
  <2>3. r # None
    BY DEF Fd, None
  <2> QED
    BY <1>2, <2>1, <2>2, <2>3, PushStd DEF DupRedir, Parent
<1>3. ASSUME NEW u \in UserFd, CloseRedir(u) PROVE StdOpen'
  <2>1. None \in Fd \cup {None} /\ u \notin Std
    BY <1>3 DEF CloseRedir
  <2> QED
    BY <1>3, <2>1, PushStd DEF CloseRedir, Parent
<1>4. CASE Catch
  BY <1>4 DEF Catch, StdOpen, EntryFd, Pending, Parent
<1>5. CASE Fork
  <2>1. next = 1 /\ next' = 1
    BY <1>0, <1>5 DEF Fork, PcInv
  <2> QED
    BY <1>5, <2>1 DEF Fork, StdOpen, EntryFd, Pending
<1>6. CASE Release
  <2>1. "apply" \in {"apply", "immediate_apply"} /\ "thrown" \in {"thrown", "throw"}
    OBVIOUS
  <2> QED
    BY <1>6, <2>1, ReleaseStd DEF Release
<1>7. CASE Apply
  <2>1. next <= Len(deftab) /\ pc = "apply"
    BY <1>0, <1>7 DEF Apply, PcInv
  <2>2. "release" \in {"release", "run"} /\ "thrown" \in {"thrown", "throw"}
    OBVIOUS
  <2> QED
    BY <1>7, <2>1, <2>2, ApplyStd DEF Apply
<1>8. CASE CloseOnFork
  <2>1. /\ deftab' = << >> /\ pc = "release" /\ pc' = "run" /\ next' = 1
        /\ \A n \in Std : n \in Fd /\ table[n] # Closed
    BY <1>8, FdsAssumption DEF CloseOnFork, StdOpen, Std, Fd
  <2>2. \A n \in Std : table'[n] # Closed
    BY <1>8, <2>1 DEF CloseOnFork, Std
  <2>3. Pending(Len(deftab))' = {}
    BY <2>1 DEF Pending
  <2> QED
    BY <2>1, <2>2, <2>3 DEF StdOpen, EntryFd
<1>9. CASE Unwind
  <2>1. /\ pc = "thrown" /\ next' = next /\ next \in Nat \ {0} /\ next <= Len(deftab)
        /\ pc' \in {"thrown", "exited", "escaped", "panic"}
    BY <1>0, <1>9 DEF Unwind, TypeOK, PcInv
  <2>2. /\ EntryFd' \subseteq EntryFd /\ \A i \in EntryFd' : deftab'[i] = deftab[i]
    <3>1. CASE deftab' = deftab
      BY <2>1, <3>1 DEF EntryFd, Pending
    <3>2. CASE deftab' = Front(deftab)
      <4>1. deftab # << >>
        BY <2>1
      <4>2. /\ Len(deftab') = Len(deftab) - 1 /\ Len(deftab) \in Nat \ {0}
            /\ \A i \in 1 .. Len(deftab) - 1 : deftab'[i] = deftab[i]
        BY <1>0, <3>2, <4>1, FrontFacts DEF TypeOK
      <4> QED
        BY <2>1, <4>2 DEF EntryFd, Pending
    <3> QED
      BY <1>9, <3>1, <3>2 DEF Unwind
  <2> QED
    BY <2>1, <2>2 DEF StdOpen
<1>10. ASSUME NEW u \in UserFd, NEW f \in File, OpenNow(u, f) PROVE StdOpen'
  <2>1. PICK r \in Fd : /\ table[r] = Closed
                        /\ table' = [table EXCEPT ![r] = f]
                        /\ Immediate(r, u)
    BY <1>10 DEF OpenNow, IsLowestFree
  <2>2. f \in Content \ {Closed} /\ r # None
    BY FdsAssumption DEF Content, Fd, None
  <2> QED
    BY <1>10, <2>1, <2>2, ImmediateStd DEF OpenNow
<1>11. ASSUME NEW u \in UserFd, NEW src \in UserFd, DupNow(u, src) PROVE StdOpen'
  <2>1. PICK r \in Fd : /\ table[r] = Closed
                        /\ table' = [table EXCEPT ![r] = table[fdmap(src)]]
                        /\ Immediate(r, u)
    BY <1>11 DEF DupNow, IsLowestFree
  <2>2. table[fdmap(src)] \in Content \ {Closed} /\ r # None
    BY <1>0, <1>11 DEF DupNow, TypeOK, Fd, None
  <2> QED
    BY <1>11, <2>1, <2>2, ImmediateStd DEF DupNow
<1>12. ASSUME NEW u \in UserFd, CloseNow(u) PROVE StdOpen'
  <2>1. None \in Fd \cup {None} /\ u \notin Std
    BY <1>12 DEF CloseNow
  <2> QED
    BY <1>12, <2>1, ImmediateStd DEF CloseNow
<1>13. CASE ImmediateRelease
  <2>1. /\ "immediate_apply" \in {"apply", "immediate_apply"} /\ "throw" \in {"thrown", "throw"}
        /\ next = 1 /\ next <= Len(deftab) /\ pc = "immediate"
    BY <1>0, <1>13 DEF ImmediateRelease, PcInv
  <2> QED
    BY <1>13, <2>1, ReleaseStd DEF ImmediateRelease
<1>14. CASE ImmediateApply
  <2>1. /\ "run" \in {"release", "run"} /\ "throw" \in {"thrown", "throw"}
        /\ next = 1 /\ next <= Len(deftab) /\ pc = "immediate_apply"
        /\ pc' \in {"run", "throw"}
    BY <1>0, <1>14 DEF ImmediateApply, ApplyTo, PcInv
  <2> QED
    BY <1>14, <2>1, ApplyStd DEF ImmediateApply
<1>16. CASE Throw
  BY <1>0, <1>16 DEF Throw, PcInv
<1>15. CASE UNCHANGED vars
  BY <1>15 DEF vars, StdOpen, EntryFd, Pending
<1> QED
  BY <1>1, <1>2, <1>3, <1>4, <1>5, <1>6, <1>7, <1>8, <1>9, <1>10, <1>11, <1>12, <1>13, <1>14,
     <1>15, <1>16, LeaveStd, ReadingStd DEF Next, Redirecting, Forking, AtOnce

-----------------------------------------------------------------------------
\* Entry i is the last of those from lo to k that are for u.
IsLast(D, lo, k, u, i) ==
  /\ i \in lo .. k
  /\ D[i].user = u
  /\ \A j \in i + 1 .. k : D[j].user # u

\* If there is an entry for u there is a last one.
LEMMA LastExists ==
  ASSUME NEW D, NEW lo \in Nat, NEW k \in Nat, NEW u, NEW i \in lo .. k, D[i].user = u
  PROVE  \E l \in lo .. k : IsLast(D, lo, k, u, l)
<1> DEFINE S == {k - j : j \in {n \in lo .. k : D[n].user = u}}
<1>1. S \in SUBSET Nat /\ k - i \in S
  OBVIOUS
<1>2. PICK m \in S : \A n \in S : m <= n
  BY <1>1, LeastNumber
<1>3. PICK l \in lo .. k : m = k - l /\ D[l].user = u
  BY <1>2
<1>4. ASSUME NEW j \in l + 1 .. k, D[j].user = u PROVE FALSE
  <2>1. k - j \in S
    BY <1>3, <1>4
  <2> HIDE DEF S
  <2>2. m <= k - j
    BY <1>2, <2>1
  <2> QED
    BY <1>3, <2>2
<1> QED
  BY <1>3, <1>4 DEF IsLast

\* What the view is, by the last entry for a descriptor or for want of one.
ViewFacts ==
  \A k \in Nat, u \in UserFd :
    /\ \A i \in Pending(k) :
         IsLast(deftab, next, k, u, i) => ViewUpTo(k)[u] = ContentOf(deftab[i].real)
    /\ \/ \E i \in Pending(k) : IsLast(deftab, next, k, u, i)
       \/ (\A i \in Pending(k) : deftab[i].user # u) /\ ViewUpTo(k)[u] = Base(u)

LEMMA ViewIs == TypeOK => ViewFacts
<1> SUFFICES ASSUME TypeOK, NEW k \in Nat, NEW u \in UserFd
             PROVE  /\ \A i \in Pending(k) : IsLast(deftab, next, k, u, i) =>
                         ViewUpTo(k)[u] = ContentOf(deftab[i].real)
                    /\ \/ \E i \in Pending(k) : IsLast(deftab, next, k, u, i)
                       \/ /\ \A i \in Pending(k) : deftab[i].user # u
                          /\ ViewUpTo(k)[u] = Base(u)
  BY DEF ViewFacts
<1>1. next \in Nat
  BY DEF TypeOK
<1>2. ASSUME NEW i \in Pending(k), IsLast(deftab, next, k, u, i)
      PROVE  ViewUpTo(k)[u] = ContentOf(deftab[i].real)
  <2>1. \A j \in Pending(k) : IsLast(deftab, next, k, u, j) => j = i
    BY <1>1, <1>2 DEF IsLast, Pending
  <2>2. LastFor(u, k) = i
    BY <1>2, <2>1 DEF LastFor, IsLast, Pending
  <2>3. deftab[i].user = u
    BY <1>2 DEF IsLast
  <2> QED
    BY <2>2, <2>3 DEF ViewUpTo
<1>3. CASE \E i \in Pending(k) : deftab[i].user = u
  <2>1. \E i \in Pending(k) : IsLast(deftab, next, k, u, i)
    BY <1>1, <1>3, LastExists DEF Pending
  <2> QED
    BY <1>2, <2>1
<1>4. CASE \A i \in Pending(k) : deftab[i].user # u
  BY <1>2, <1>4 DEF ViewUpTo
<1> QED
  BY <1>3, <1>4

LEMMA ViewIsNext == TypeOK' => ViewFacts'
BY ViewIs, PTL

LEMMA ViewType == ASSUME TypeOK, NEW k \in Nat PROVE ViewUpTo(k) \in [UserFd -> Content]
<1>1. \A u \in UserFd : ViewUpTo(k)[u] \in Content
  <2>1. \A r : ContentOf(r) \in Content
    BY DEF ContentOf, TypeOK, Content
  <2>2. \A u : Base(u) \in Content
    BY <2>1 DEF Base, Content
  <2> QED
    BY <2>1, <2>2, ViewIs DEF ViewFacts
<1> QED
  BY <1>1 DEF ViewUpTo

\* A step that keeps the users of the k first entries, what the descriptors
\* of the pending ones hold, and what is there without an entry, keeps the
\* view that they amount to.
LEMMA ViewKept ==
  ASSUME TypeOK, TypeOK', NEW k \in Nat, next' = next,
         \A i \in Pending(k) : /\ deftab'[i].user = deftab[i].user
                               /\ ContentOf(deftab[i].real)' = ContentOf(deftab[i].real),
         \A u \in UserFd : (\A i \in Pending(k) : deftab[i].user # u) => Base(u)' = Base(u)
  PROVE  ViewUpTo(k)' = ViewUpTo(k)
<1>1. ASSUME NEW u \in UserFd PROVE ViewUpTo(k)'[u] = ViewUpTo(k)[u]
  <2>1. CASE \E i \in Pending(k) : IsLast(deftab, next, k, u, i)
    <3>1. PICK i \in Pending(k) : IsLast(deftab, next, k, u, i)
      BY <2>1
    <3>2. ViewUpTo(k)[u] = ContentOf(deftab[i].real)
      BY <3>1, ViewIs DEF ViewFacts
    <3>3. \A j \in i + 1 .. k : j \in Pending(k)
      BY <3>1 DEF Pending, TypeOK
    <3>4. IsLast(deftab', next', k, u, i) /\ i \in Pending(k)'
      BY <3>1, <3>3 DEF IsLast, Pending
    <3>5. ViewUpTo(k)'[u] = ContentOf(deftab[i].real)'
      BY <3>4, ViewIsNext DEF ViewFacts
    <3> QED
      BY <3>1, <3>2, <3>5
  <2>2. CASE \A i \in Pending(k) : deftab[i].user # u
    <3>1. ViewUpTo(k)[u] = Base(u)
      BY <2>2, ViewIs DEF ViewFacts, IsLast
    <3>2. \A i \in Pending(k)' : deftab'[i].user # u
      BY <2>2 DEF Pending
    <3>3. ViewUpTo(k)'[u] = Base(u)'
      BY <3>2, ViewIsNext DEF ViewFacts, IsLast
    <3> QED
      BY <2>2, <3>1, <3>3
  <2> QED
    BY <2>1, <2>2, ViewIs DEF ViewFacts
<1>2. /\ ViewUpTo(k) = [u \in UserFd |-> ViewUpTo(k)[u]]
      /\ ViewUpTo(k)' = [u \in UserFd |-> ViewUpTo(k)'[u]]
  BY DEF ViewUpTo
<1> QED
  BY <1>1, <1>2

-----------------------------------------------------------------------------
(* The steps that push an entry, and those that undo one.                   *)

\* A descriptor without an entry keeps what it holds if it does, and if whom
\* it belongs to does not change.
LEMMA BaseKept ==
  ASSUME NEW u, u \in OwnedDefer <=> u \in OwnedDefer', u \in OwnedInternal <=> u \in OwnedInternal',
         ContentOf(u)' = ContentOf(u)
  PROVE  Base(u)' = Base(u)
BY DEF Base

\* An entry for u is pushed, with a fresh descriptor or none: the views of
\* the redirections around it are kept, and u has what is on the descriptor.
LEMMA EntryPushed ==
  ASSUME IInv, IInv', next = 1, next' = 1, NEW r \in Fd \cup {None}, NEW u \in UserFd,
         Len(deftab') = Len(deftab) + 1,
         \A i \in 1 .. Len(deftab) : deftab'[i] = deftab[i],
         deftab'[Len(deftab) + 1] = [real |-> r, user |-> u],
         UNCHANGED <<fdvar, registered>>,
         IF r = None THEN UNCHANGED table
         ELSE table[r] = Closed /\ \E f \in Content : table' = [table EXCEPT ![r] = f]
  PROVE  /\ \A k \in 0 .. Len(deftab) : ViewUpTo(k)' = ViewUpTo(k)
         /\ View' = [View EXCEPT ![u] = ContentOf(r)']
<1>0. /\ TypeOK /\ TypeOK' /\ OwnedOnce /\ Len(deftab) \in Nat
      /\ \A i \in EntryFd : i \in 1 .. Len(deftab) /\ deftab[i].real \in Fd
  BY OwnedFacts DEF IInv
<1>1. \A x : x # r => ContentOf(x)' = ContentOf(x)
  BY <1>0 DEF ContentOf, TypeOK
<1>2. EntryFd' = EntryFd \cup (IF r = None THEN {} ELSE {Len(deftab) + 1})
  BY <1>0 DEF EntryFd, Pending
<1>3. OwnedDefer' = OwnedDefer \cup (IF r = None THEN {} ELSE {r})
  BY <1>0, <1>2 DEF OwnedDefer
<1>4. OwnedInternal' = OwnedInternal
  BY DEF OwnedInternal, InputFd
<1>5. \A x : Base(x)' = Base(x)
  <2> SUFFICES ASSUME NEW x PROVE Base(x)' = Base(x)
    OBVIOUS
  <2>1. CASE x = r /\ r # None
    <3>1. Base(x) = Closed
      BY <2>1 DEF Base, ContentOf
    <3>2. Base(x)' = Closed
      BY <1>3, <2>1 DEF Base
    <3> QED
      BY <3>1, <3>2
  <2>2. CASE x # r \/ r = None
    <3>1. x \in OwnedDefer <=> x \in OwnedDefer'
      BY <1>3, <2>2
    <3>2. ContentOf(x)' = ContentOf(x)
      BY <1>1, <2>2 DEF ContentOf
    <3> QED
      BY <1>4, <3>1, <3>2, BaseKept
  <2> QED
    BY <2>1, <2>2
<1>6. \A i \in 1 .. Len(deftab) : ContentOf(deftab[i].real)' = ContentOf(deftab[i].real)
  <2> SUFFICES ASSUME NEW i \in 1 .. Len(deftab)
               PROVE  ContentOf(deftab[i].real)' = ContentOf(deftab[i].real)
    OBVIOUS
  <2>1. CASE deftab[i].real = None
    BY <2>1 DEF ContentOf, Fd, None
  <2>2. CASE deftab[i].real # None
    <3>1. i \in EntryFd
      BY <1>0, <2>2 DEF EntryFd, Pending
    <3>2. deftab[i].real # r
      <4>1. table[deftab[i].real] # Closed
        BY <1>0, <3>1 DEF OwnedOnce, EntriesOpen
      <4> QED
        BY <4>1, <2>2
    <3> QED
      BY <1>1, <3>2
  <2> QED
    BY <2>1, <2>2
<1>7. \A k \in 0 .. Len(deftab) : ViewUpTo(k)' = ViewUpTo(k)
  <2> SUFFICES ASSUME NEW k \in 0 .. Len(deftab) PROVE ViewUpTo(k)' = ViewUpTo(k)
    OBVIOUS
  <2>1. \A i \in Pending(k) : i \in 1 .. Len(deftab)
    BY <1>0 DEF Pending
  <2> QED
    BY <1>0, <1>5, <1>6, <2>1, ViewKept
<1>8. View' = [View EXCEPT ![u] = ContentOf(r)']
  <2>0. PICK n \in Nat : n = Len(deftab)
    BY <1>0
  <2>1. Pending(n + 1)' = Pending(n) \cup {n + 1} /\ n + 1 \in Nat /\ Pending(n)' = Pending(n)
    BY <1>0, <2>0 DEF Pending
  <2>2. ViewUpTo(n)' = ViewUpTo(n)
    BY <1>0, <1>7, <2>0
  <2>3. ASSUME NEW x \in UserFd PROVE ViewUpTo(n + 1)'[x] = IF x = u THEN ContentOf(r)' ELSE View[x]
    <3>1. CASE x = u
      <4>1. IsLast(deftab', next', n + 1, u, n + 1)
        BY <1>0, <2>0, <3>1 DEF IsLast
      <4> QED
        BY <1>0, <2>0, <2>1, <3>1, <4>1, ViewIsNext DEF ViewFacts
    <3>2. CASE x # u
      <4>1. CASE \E i \in Pending(n) : IsLast(deftab, next, n, x, i)
        <5>1. PICK i \in Pending(n) : IsLast(deftab, next, n, x, i)
          BY <4>1
        <5>2. View[x] = ContentOf(deftab[i].real)
          BY <1>0, <2>0, <5>1, ViewIs DEF ViewFacts, View
        <5>3. \A j \in i + 1 .. n + 1 : j \in i + 1 .. n \/ j = n + 1
          BY <1>0, <2>0, <5>1 DEF Pending
        <5>4. \A j \in i + 1 .. n : j \in 1 .. n
          BY <1>0, <2>0, <5>1 DEF Pending
        <5>5. IsLast(deftab', next', n + 1, x, i) /\ i \in Pending(n + 1)' /\ i \in 1 .. n
          BY <1>0, <2>0, <2>1, <3>2, <5>1, <5>3, <5>4 DEF IsLast, Pending
        <5>6. ViewUpTo(n + 1)'[x] = ContentOf(deftab[i].real)'
          BY <1>0, <2>0, <2>1, <5>5, ViewIsNext DEF ViewFacts
        <5> QED
          BY <1>6, <2>0, <3>2, <5>2, <5>5, <5>6
      <4>2. CASE \A i \in Pending(n) : deftab[i].user # x
        <5>1. View[x] = Base(x)
          BY <1>0, <2>0, <4>2, ViewIs DEF ViewFacts, View, IsLast
        <5>2. \A i \in Pending(n + 1)' : deftab'[i].user # x
          BY <1>0, <2>0, <2>1, <3>2, <4>2 DEF Pending
        <5>3. ViewUpTo(n + 1)'[x] = Base(x)'
          BY <1>0, <2>0, <2>1, <5>2, ViewIsNext DEF ViewFacts, IsLast
        <5> QED
          BY <1>5, <3>2, <5>1, <5>3
      <4> QED
        BY <1>0, <4>1, <4>2, ViewIs DEF ViewFacts
    <3> QED
      BY <3>1, <3>2
  <2>4. View' = ViewUpTo(n + 1)'
    BY <1>0, <2>0 DEF View
  <2>5. /\ View' = [x \in UserFd |-> View'[x]]
        /\ View \in [UserFd -> Content]
    BY <1>0, ViewType DEF View, ViewUpTo
  <2> QED
    BY <2>3, <2>4, <2>5
<1> QED
  BY <1>7, <1>8


\* A pair for u is put before the list, on which nothing is for u: u has what
\* is on the descriptor in the view of each redirection, and the rest stays.
LEMMA PairPushed ==
  ASSUME IInv, IInv', next = 1, next' = 1, NEW r \in Fd \cup {None}, NEW u \in UserFd,
         Len(deftab') = Len(deftab) + 1,
         \A i \in 1 .. Len(deftab) : deftab'[i + 1] = deftab[i],
         deftab'[1] = [real |-> r, user |-> u],
         \A i \in 1 .. Len(deftab) : deftab[i].user # u,
         UNCHANGED <<fdvar, registered>>,
         IF r = None THEN UNCHANGED table
         ELSE table[r] = Closed /\ \E f \in Content : table' = [table EXCEPT ![r] = f]
  PROVE  \A k \in 0 .. Len(deftab) :
           ViewUpTo(k + 1)' = [ViewUpTo(k) EXCEPT ![u] = ContentOf(r)']
<1>0. /\ TypeOK /\ TypeOK' /\ OwnedOnce /\ Len(deftab) \in Nat
      /\ \A i \in EntryFd : i \in 1 .. Len(deftab) /\ deftab[i].real \in Fd
  BY OwnedFacts DEF IInv
<1>1. \A x : x # r => ContentOf(x)' = ContentOf(x)
  BY <1>0 DEF ContentOf, TypeOK
<1>2. /\ \A i \in EntryFd : i + 1 \in EntryFd' /\ deftab'[i + 1].real = deftab[i].real
      /\ \A i \in EntryFd' : \/ i = 1 /\ r # None /\ deftab'[i].real = r
                             \/ i - 1 \in EntryFd /\ deftab'[i].real = deftab[i - 1].real
      /\ r # None => 1 \in EntryFd'
  <2>1. \A i \in EntryFd : i + 1 \in EntryFd' /\ deftab'[i + 1].real = deftab[i].real
    BY <1>0 DEF EntryFd, Pending
  <2>2. ASSUME NEW i \in EntryFd', i # 1
        PROVE  i - 1 \in EntryFd /\ deftab'[i].real = deftab[i - 1].real
    <3>1. i - 1 \in 1 .. Len(deftab) /\ i = (i - 1) + 1 /\ deftab'[i].real # None
      BY <1>0, <2>2 DEF EntryFd, Pending
    <3>2. deftab'[i] = deftab[i - 1]
      BY <3>1
    <3> QED
      BY <3>1, <3>2 DEF EntryFd, Pending
  <2>3. 1 \in EntryFd' <=> r # None
    BY <1>0 DEF EntryFd, Pending
  <2> QED
    BY <2>1, <2>2, <2>3
<1>3. OwnedDefer' = OwnedDefer \cup (IF r = None THEN {} ELSE {r})
  <2>1. \A x : x \in OwnedDefer' => x \in OwnedDefer \/ (r # None /\ x = r)
    BY <1>2 DEF OwnedDefer
  <2>2. \A x : x \in OwnedDefer => x \in OwnedDefer'
    <3> SUFFICES ASSUME NEW i \in EntryFd PROVE deftab[i].real \in OwnedDefer'
      BY DEF OwnedDefer
    <3>1. i + 1 \in EntryFd' /\ deftab'[i + 1].real = deftab[i].real
      BY <1>2
    <3> QED
      BY <3>1 DEF OwnedDefer
  <2>3. r # None => r \in OwnedDefer'
    BY <1>2 DEF OwnedDefer
  <2> QED
    BY <2>1, <2>2, <2>3
<1>4. OwnedInternal' = OwnedInternal
  BY DEF OwnedInternal, InputFd
<1>5. \A x : Base(x)' = Base(x)
  <2> SUFFICES ASSUME NEW x PROVE Base(x)' = Base(x)
    OBVIOUS
  <2>1. CASE x = r /\ r # None
    <3>1. Base(x) = Closed
      BY <2>1 DEF Base, ContentOf
    <3>2. Base(x)' = Closed
      BY <1>3, <2>1 DEF Base
    <3> QED
      BY <3>1, <3>2
  <2>2. CASE x # r \/ r = None
    <3>1. x \in OwnedDefer <=> x \in OwnedDefer'
      BY <1>3, <2>2
    <3>2. ContentOf(x)' = ContentOf(x)
      BY <1>1, <2>2 DEF ContentOf
    <3> QED
      BY <1>4, <3>1, <3>2, BaseKept
  <2> QED
    BY <2>1, <2>2
<1>6. \A i \in 1 .. Len(deftab) : ContentOf(deftab[i + 1].real)' = ContentOf(deftab[i].real)
  <2> SUFFICES ASSUME NEW i \in 1 .. Len(deftab)
               PROVE  ContentOf(deftab[i + 1].real)' = ContentOf(deftab[i].real)
    OBVIOUS
  <2>0. PICK x : x = deftab[i].real /\ x = deftab'[i + 1].real
    OBVIOUS
  <2>1. ContentOf(x)' = ContentOf(x)
    <3>1. CASE x = None
      BY <3>1 DEF ContentOf, Fd, None
    <3>2. CASE x # None
      <4>1. i \in EntryFd
        BY <1>0, <2>0, <3>2 DEF EntryFd, Pending
      <4>2. table[x] # Closed
        BY <1>0, <2>0, <4>1 DEF OwnedOnce, EntriesOpen
      <4> QED
        BY <1>1, <3>2, <4>2
    <3> QED
      BY <3>1, <3>2
  <2> QED
    BY <2>0, <2>1 DEF ContentOf
<1> SUFFICES ASSUME NEW k \in 0 .. Len(deftab)
             PROVE  ViewUpTo(k + 1)' = [ViewUpTo(k) EXCEPT ![u] = ContentOf(r)']
  OBVIOUS
<1>7. /\ k \in Nat /\ k + 1 \in Nat /\ Pending(k) = 1 .. k /\ Pending(k + 1)' = 1 .. k + 1
      /\ \A i \in 1 .. k : i \in 1 .. Len(deftab)
  BY <1>0 DEF Pending
<1>8. \A j \in 2 .. k + 1 : j - 1 \in 1 .. k /\ deftab'[j] = deftab[j - 1]
  <2> SUFFICES ASSUME NEW j \in 2 .. k + 1
               PROVE  j - 1 \in 1 .. k /\ deftab'[j] = deftab[j - 1]
    OBVIOUS
  <2>1. j - 1 \in 1 .. k /\ j = (j - 1) + 1
    BY <1>7
  <2> QED
    BY <1>7, <2>1
<1>9. ASSUME NEW x \in UserFd
      PROVE  ViewUpTo(k + 1)'[x] = IF x = u THEN ContentOf(r)' ELSE ViewUpTo(k)[x]
  <2>1. CASE x = u
    <3>1. ASSUME NEW j \in 1 + 1 .. k + 1 PROVE deftab'[j].user # u
      <4>1. j \in 2 .. k + 1
        BY <1>7
      <4>2. j - 1 \in 1 .. k /\ deftab'[j] = deftab[j - 1]
        BY <1>8, <4>1
      <4> QED
        BY <1>7, <4>2
    <3>2. IsLast(deftab', next', k + 1, u, 1) /\ 1 \in Pending(k + 1)'
      BY <1>7, <3>1 DEF IsLast
    <3>3. ViewUpTo(k + 1)'[u] = ContentOf(deftab[1].real)'
      BY <1>0, <1>7, <3>2, ViewIsNext DEF ViewFacts
    <3> QED
      BY <2>1, <3>3 DEF ContentOf
  <2>2. CASE x # u
    <3>1. CASE \E i \in Pending(k) : IsLast(deftab, next, k, x, i)
      <4>1. PICK i \in 1 .. k : IsLast(deftab, next, k, x, i)
        BY <1>7, <3>1
      <4>2. ViewUpTo(k)[x] = ContentOf(deftab[i].real)
        <5>1. ViewFacts /\ i \in Pending(k)
          BY <1>0, <1>7, ViewIs
        <5> QED
          BY SMTT(30), <1>7, <4>1, <5>1 DEF ViewFacts
      <4>3. i + 1 \in 2 .. k + 1 /\ deftab'[i + 1] = deftab[i]
        BY <1>7, <4>1
      <4>4. ASSUME NEW j \in (i + 1) + 1 .. k + 1 PROVE deftab'[j].user # x
        <5>1. j \in 2 .. k + 1 /\ j - 1 \in i + 1 .. k
          BY <1>7, <4>1
        <5> QED
          BY <1>8, <4>1, <5>1 DEF IsLast
      <4>5. IsLast(deftab', next', k + 1, x, i + 1) /\ i + 1 \in Pending(k + 1)'
        BY <1>7, <4>1, <4>3, <4>4 DEF IsLast
      <4>6. ViewUpTo(k + 1)'[x] = ContentOf(deftab[i + 1].real)'
        BY <1>0, <1>7, <4>5, ViewIsNext DEF ViewFacts
      <4>7. ContentOf(deftab[i + 1].real)' = ContentOf(deftab[i].real)
        BY <1>6, <1>7, <4>1
      <4> QED
        BY <2>2, <4>2, <4>6, <4>7
    <3>2. CASE \A i \in Pending(k) : deftab[i].user # x
      <4>1. ViewUpTo(k)[x] = Base(x)
        <5>1. ~ \E i \in Pending(k) : IsLast(deftab, next, k, x, i)
          BY <3>2 DEF IsLast
        <5> QED
          BY <1>0, <1>7, <5>1, ViewIs DEF ViewFacts
      <4>3. ASSUME NEW j \in Pending(k + 1)' PROVE deftab'[j].user # x
        <5>1. j = 1 \/ j \in 2 .. k + 1
          BY <1>7
        <5>2. CASE j = 1
          BY <2>2, <5>2
        <5>3. CASE j \in 2 .. k + 1
          <6>1. j - 1 \in 1 .. k /\ deftab'[j] = deftab[j - 1]
            BY <1>8, <5>3
          <6> QED
            BY <1>7, <3>2, <6>1
        <5> QED
          BY <5>1, <5>2, <5>3
      <4>4. ViewUpTo(k + 1)'[x] = Base(x)'
        <5>1. ~ \E i \in Pending(k + 1)' : IsLast(deftab', next', k + 1, x, i)
          BY <4>3 DEF IsLast
        <5> QED
          BY <1>0, <1>7, <5>1, ViewIsNext DEF ViewFacts
      <4> QED
        BY <1>5, <2>2, <4>1, <4>4
    <3> QED
      BY <1>0, <1>7, <3>1, <3>2, ViewIs DEF ViewFacts
  <2> QED
    BY <2>1, <2>2
<1>10. /\ ViewUpTo(k + 1)' = [x \in UserFd |-> ViewUpTo(k + 1)'[x]]
       /\ ViewUpTo(k) \in [UserFd -> Content]
  BY <1>0, <1>7, ViewType DEF ViewUpTo
<1> QED
  BY <1>9, <1>10

\* Only descriptor n changes hands, and nobody sees a file on it before or
\* after: what is there without an entry is kept.
LEMMA BaseMoved ==
  ASSUME NEW n, Base(n) = Closed, Base(n)' = Closed, NEW x,
         x # n => /\ x \in OwnedDefer <=> x \in OwnedDefer'
                  /\ x \in OwnedInternal <=> x \in OwnedInternal'
                  /\ ContentOf(x)' = ContentOf(x)
  PROVE  Base(x)' = Base(x)
<1>1. CASE x = n
  BY <1>1
<1>2. CASE x # n
  BY <1>2, BaseKept
<1> QED
  BY <1>1, <1>2

\* Opening and closing an input is not seen.
LEMMA ReadingView ==
  ASSUME IInv, IInv', StdOpen, Reading
  PROVE  \A k \in 0 .. Len(deftab) : ViewUpTo(k)' = ViewUpTo(k)
<1> PICK p \in Internal :
      (\E f \in File : OpenInput(p, f)) \/ EndOfInput(p) \/ CloseInput(p)
  BY DEF Reading
<1>0. /\ TypeOK /\ TypeOK' /\ OwnedOnce /\ pc = "run" /\ next' = next /\ deftab' = deftab
      /\ Len(deftab) \in Nat /\ next \in Nat \ {0}
      /\ \A i \in EntryFd : i \in 1 .. Len(deftab) /\ deftab[i].real \in Fd
      /\ \A q \in InputFd : q \in registered /\ fdvar[q] \in Fd /\ fdvar[q] # None
  BY OwnedFacts DEF IInv, TypeOK, OpenInput, EndOfInput, CloseInput, InputFd
<1>1. EntryFd' = EntryFd /\ OwnedDefer' = OwnedDefer
  BY <1>0 DEF EntryFd, OwnedDefer, Pending
<1>2. ASSUME NEW n \in Fd, Base(n) = Closed, Base(n)' = Closed, n \notin OwnedDefer,
             \A x : x # n => /\ x \in OwnedInternal <=> x \in OwnedInternal'
                             /\ ContentOf(x)' = ContentOf(x)
      PROVE  \A k \in 0 .. Len(deftab) : ViewUpTo(k)' = ViewUpTo(k)
  <2>1. \A x : Base(x)' = Base(x)
    <3> SUFFICES ASSUME NEW x PROVE Base(x)' = Base(x)
      OBVIOUS
    <3> QED
      BY <1>1, <1>2, BaseMoved
  <2>2. \A i \in 1 .. Len(deftab) : i \in Pending(Len(deftab)) => deftab[i].real # n
    BY <1>2 DEF OwnedDefer, EntryFd, Fd, None
  <2> SUFFICES ASSUME NEW k \in 0 .. Len(deftab) PROVE ViewUpTo(k)' = ViewUpTo(k)
    OBVIOUS
  <2>3. \A i \in Pending(k) : i \in 1 .. Len(deftab) /\ i \in Pending(Len(deftab))
    BY <1>0 DEF Pending
  <2>4. \A i \in Pending(k) : /\ deftab'[i].user = deftab[i].user
                              /\ ContentOf(deftab[i].real)' = ContentOf(deftab[i].real)
    BY <1>0, <1>2, <2>2, <2>3
  <2> QED
    BY <1>0, <2>1, <2>4, ViewKept
<1>3. CASE \E f \in File : OpenInput(p, f)
  <2>1. PICK f \in File, n \in Fd : /\ table[n] = Closed /\ table' = [table EXCEPT ![n] = f]
                                    /\ fdvar' = [fdvar EXCEPT ![p] = n]
    BY <1>3 DEF OpenInput, IsLowestFree
  <2>2. registered' = registered \cup {p} /\ p \notin registered
    BY <1>3 DEF OpenInput
  <2>3. n \notin Std /\ n >= 3 /\ n # None
    BY <1>0, <2>1, FreshFd, FdsAssumption DEF Std, Fd, None
  <2>4. InputFd' = InputFd \cup {p} /\ fdvar'[p] = n
    BY <1>0, <2>1, <2>2, <2>3 DEF InputFd, TypeOK
  <2>5. OwnedInternal' = OwnedInternal \cup {n}
    BY <1>0, <2>1, <2>2, <2>4 DEF OwnedInternal, TypeOK
  <2>6. Base(n) = Closed /\ Base(n)' = Closed
    BY <2>1, <2>3, <2>5 DEF Base, ContentOf
  <2>7. \A x : x # n => ContentOf(x)' = ContentOf(x)
    BY <1>0, <2>1 DEF ContentOf, TypeOK
  <2>8. n \notin OwnedDefer
    BY <1>0, <2>1 DEF OwnedDefer, OwnedOnce, EntriesOpen
  <2> QED
    BY <1>2, <2>5, <2>6, <2>7, <2>8
<1>4. CASE EndOfInput(p) \/ CloseInput(p)
  <2>1. /\ p \in registered /\ fdvar[p] \notin Std
        /\ fdvar' = [fdvar EXCEPT ![p] = None] /\ table' = ClosedAt(table, fdvar[p])
        /\ registered' \subseteq registered /\ registered \ {p} \subseteq registered'
    BY <1>0, <1>4 DEF EndOfInput, CloseInput, ClosedAt, TypeOK
  <2>2. InputFd' = InputFd \ {p}
    BY <1>0, <2>1 DEF InputFd, TypeOK
  <2>3. \A q \in InputFd' : fdvar'[q] = fdvar[q] /\ q # p
    BY <1>0, <2>1, <2>2 DEF TypeOK, InputFd
  <2>4. CASE fdvar[p] = None
    <3>1. InputFd' = InputFd
      BY <2>2, <2>4 DEF InputFd
    <3>2. OwnedInternal' = OwnedInternal /\ table' = table
      BY <2>1, <2>3, <2>4, <3>1 DEF OwnedInternal, ClosedAt, Fd, None
    <3>3. \A x : Base(x)' = Base(x)
      BY <1>1, <3>2, BaseKept DEF ContentOf
    <3> SUFFICES ASSUME NEW k \in 0 .. Len(deftab) PROVE ViewUpTo(k)' = ViewUpTo(k)
      OBVIOUS
    <3> QED
      BY <1>0, <3>2, <3>3, ViewKept DEF ContentOf
  <2>5. CASE fdvar[p] # None
    <3>0. PICK n \in Fd : n = fdvar[p]
      BY <1>0, <2>1, <2>5 DEF InputFd
    <3>1. p \in InputFd /\ n >= 3
      BY <2>1, <2>5, <3>0, FdsAssumption DEF InputFd, Std, Fd
    <3>2. OwnedInternal' = OwnedInternal \ {n} /\ n \in OwnedInternal
      <4>1. \A q \in InputFd' : fdvar[q] # n
        BY <1>0, <2>2, <2>3, <3>0, <3>1 DEF OwnedOnce, InputsDistinct
      <4> QED
        BY <2>2, <2>3, <3>0, <3>1, <4>1 DEF OwnedInternal
    <3>3. n \notin OwnedDefer
      BY <1>0, <3>0, <3>1 DEF OwnedDefer, OwnedOnce, EntriesNotInputs
    <3>4. table'[n] = Closed /\ \A x \in Fd : x # n => table'[x] = table[x]
      BY <1>0, <2>1, <3>0 DEF ClosedAt, TypeOK
    <3>5. Base(n) = Closed /\ Base(n)' = Closed
      BY <3>1, <3>2, <3>4 DEF Base, ContentOf
    <3>6. \A x : x # n => ContentOf(x)' = ContentOf(x)
      BY <3>4 DEF ContentOf
    <3> QED
      BY <1>2, <3>2, <3>3, <3>5, <3>6
  <2> QED
    BY <2>4, <2>5
<1> QED
  BY <1>3, <1>4

\* undefer closes a descriptor that only the newest entry showed: the views
\* of the redirections around it are kept.
LEMMA UndeferView ==
  ASSUME IInv, IInv', pc = "run", pc' = "run", deftab # << >>,
         table' = ClosedAt(table, Last(deftab).real), deftab' = Front(deftab),
         UNCHANGED <<fdvar, registered>>
  PROVE  /\ Len(deftab') = Len(deftab) - 1 /\ Len(deftab) \in Nat \ {0}
         /\ \A k \in 0 .. Len(deftab) - 1 : ViewUpTo(k)' = ViewUpTo(k)
<1>0. /\ TypeOK /\ TypeOK' /\ OwnedOnce /\ next = 1 /\ next' = 1
      /\ \A i \in EntryFd : i \in 1 .. Len(deftab) /\ deftab[i].real \in Fd
  BY OwnedFacts DEF IInv, PcInv
<1>1. /\ Len(deftab') = Len(deftab) - 1 /\ Len(deftab) \in Nat \ {0}
      /\ \A i \in 1 .. Len(deftab) - 1 : deftab'[i] = deftab[i]
      /\ Last(deftab) = deftab[Len(deftab)]
  BY <1>0, FrontFacts DEF TypeOK
<1>2. PICK r : r = deftab[Len(deftab)].real
  OBVIOUS
<1>3. \A x : x # r => ContentOf(x)' = ContentOf(x)
  BY <1>0, <1>1, <1>2 DEF ContentOf, ClosedAt, TypeOK
<1>4. EntryFd' = EntryFd \ {Len(deftab)}
  BY <1>0, <1>1 DEF EntryFd, Pending
<1>5. r = None \/ Len(deftab) \in EntryFd
  BY <1>0, <1>1, <1>2 DEF EntryFd, Pending
<1>6. \A i \in EntryFd' : /\ i \in 1 .. Len(deftab) - 1 /\ deftab'[i] = deftab[i]
                          /\ deftab[i].real # r
  <2>1. \A i \in EntryFd' : i \in EntryFd /\ i \in 1 .. Len(deftab) - 1
    BY <1>0, <1>1, <1>4
  <2>2. \A i \in EntryFd : deftab[i].real # None
    BY DEF EntryFd
  <2>3. \A i \in EntryFd' : i # Len(deftab)
    BY <1>4
  <2> QED
    BY <1>0, <1>1, <1>2, <1>5, <2>1, <2>2, <2>3 DEF OwnedOnce, EntriesDistinct
<1>7. OwnedDefer' = OwnedDefer \ {r}
  <2>1. \A i \in EntryFd : i \in EntryFd' \/ deftab[i].real = r
    BY <1>2, <1>4
  <2>2. \A i \in EntryFd' : i \in EntryFd
    BY <1>4
  <2> QED
    BY <1>6, <2>1, <2>2 DEF OwnedDefer
<1>8. OwnedInternal' = OwnedInternal
  BY DEF OwnedInternal, InputFd
<1>9. Base(r) = Closed /\ Base(r)' = Closed
  <2>1. Base(r) = Closed
    BY <1>2, <1>5 DEF Base, OwnedDefer, ContentOf, Fd, None
  <2>2. ContentOf(r)' = Closed
    BY <1>0, <1>1, <1>2 DEF ContentOf, ClosedAt, TypeOK
  <2> QED
    BY <2>1, <2>2 DEF Base
<1>10. \A x : Base(x)' = Base(x)
  <2> SUFFICES ASSUME NEW x PROVE Base(x)' = Base(x)
    OBVIOUS
  <2>1. x # r => (x \in OwnedDefer <=> x \in OwnedDefer')
    BY <1>7
  <2> QED
    BY <1>3, <1>8, <1>9, <2>1, BaseMoved
<1>11. ASSUME NEW k \in 0 .. Len(deftab) - 1 PROVE ViewUpTo(k)' = ViewUpTo(k)
  <2>1. \A i \in Pending(k) : i \in 1 .. Len(deftab) - 1 /\ i \in 1 .. Len(deftab)
    BY <1>0, <1>1 DEF Pending
  <2>2. \A i \in Pending(k) : ContentOf(deftab[i].real)' = ContentOf(deftab[i].real)
    <3> SUFFICES ASSUME NEW i \in Pending(k)
                 PROVE  ContentOf(deftab[i].real)' = ContentOf(deftab[i].real)
      OBVIOUS
    <3>1. CASE deftab[i].real = None
      BY <1>1, <2>1, <3>1 DEF ContentOf, Fd, None
    <3>2. CASE deftab[i].real # None
      <4>1. i \in EntryFd'
        BY <1>0, <1>1, <2>1, <3>2 DEF EntryFd, Pending
      <4> QED
        BY <1>3, <1>6, <4>1
    <3> QED
      BY <3>1, <3>2
  <2>3. \A i \in Pending(k) : deftab'[i].user = deftab[i].user
    BY <1>1, <2>1
  <2> QED
    BY <1>0, <1>1, <1>10, <2>2, <2>3, ViewKept
<1> QED
  BY <1>1, <1>11

\* releasefd(u) moves what es keeps on u out of the way: with an entry for u
\* pending, nobody sees it.
LEMMA ReleaseView ==
  ASSUME IInv, IInv', StdOpen, pc \in {"release", "immediate"}, next <= Len(deftab),
         NEW after, NEW failing, pc' # failing,
         ReleaseTo(deftab[next].user, after, failing),
         UNCHANGED <<registered, next>>
  PROVE  /\ Len(deftab') = Len(deftab)
         /\ \A k \in next .. Len(deftab) : ViewUpTo(k)' = ViewUpTo(k)
<1>0. /\ TypeOK /\ TypeOK' /\ OwnedOnce /\ Len(deftab) \in Nat /\ next \in 1 .. Len(deftab)
      /\ \A i \in EntryFd : i \in 1 .. Len(deftab) /\ deftab[i].real \in Fd
      /\ \A p \in InputFd : p \in Internal /\ fdvar[p] \in Fd
      /\ \A i \in 1 .. Len(deftab) : deftab[i] \in Defer
  BY OwnedFacts DEF IInv, TypeOK
<1>1. PICK u \in UserFd : u = deftab[next].user
  BY <1>0, OwnedFacts
<1>2. CASE ~ Held(u)
  <2>1. UNCHANGED <<table, fdvar, deftab>>
    BY <1>1, <1>2 DEF ReleaseTo
  <2> QED
    BY <2>1 DEF ViewUpTo, Base, ContentOf, OwnedDefer, OwnedInternal, EntryFd, InputFd,
       Pending, LastFor
<1>3. CASE Held(u)
  <2>1. PICK n \in Fd : /\ table[n] = Closed /\ MoveHolders(u, n)
                        /\ table' = [table EXCEPT ![n] = table[u], ![u] = Closed]
    BY <1>1, <1>3 DEF ReleaseTo, IsLowestFree
  <2>2. n \notin Std /\ n >= 3 /\ n # None
    BY <1>0, <2>1, FreshFd, FdsAssumption DEF Std, Fd, None
  <2>3. /\ \A p \in HolderInternal(u) : p \in InputFd /\ fdvar[p] = u
        /\ \A i \in HolderDefer(u) : i \in EntryFd /\ deftab[i].real = u /\ i # next
    <3>1. u # None
      BY FdsAssumption DEF None
    <3> QED
      BY <1>0, <3>1 DEF HolderInternal, HolderDefer, InputFd, EntryFd, Pending
  <2>4. u \in Fd /\ table[u] # Closed /\ u # n
    BY <1>0, <1>3, <2>1, <2>3 DEF Held, OwnedOnce, EntriesOpen, InputsOpen
  <2>5. /\ table'[n] = table[u] /\ table'[u] = Closed
        /\ \A x \in Fd : x # u /\ x # n => table'[x] = table[x]
    BY <1>0, <2>1, <2>4 DEF TypeOK
  <2>6. /\ Len(deftab') = Len(deftab)
        /\ \A i \in 1 .. Len(deftab) :
             /\ deftab'[i].user = deftab[i].user
             /\ deftab'[i].real = IF i \in HolderDefer(u) THEN n ELSE deftab[i].real
    <3>1. deftab' = [i \in 1 .. Len(deftab) |->
                       IF i \in HolderDefer(u) THEN [deftab[i] EXCEPT !.real = n] ELSE deftab[i]]
      BY <2>1 DEF MoveHolders
    <3>2. DOMAIN deftab' = 1 .. Len(deftab)
      BY <3>1
    <3>3. Len(deftab') = Len(deftab)
      BY <1>0, <3>2 DEF TypeOK
    <3> QED
      BY <1>0, <3>1, <3>3 DEF Defer
  <2>7. \A p \in Internal : fdvar'[p] = IF p \in HolderInternal(u) THEN n ELSE fdvar[p]
    BY <2>1 DEF MoveHolders
  <2>8. EntryFd' = EntryFd
    <3>1. Pending(Len(deftab))' = Pending(Len(deftab))
      BY <2>6 DEF Pending
    <3>2. \A i \in Pending(Len(deftab)) : i \in 1 .. Len(deftab)
      BY <1>0 DEF Pending
    <3> QED
      BY <2>2, <2>3, <2>6, <3>1, <3>2 DEF EntryFd
  <2>9. InputFd' = InputFd
    BY <1>0, <2>2, <2>3, <2>7 DEF InputFd, TypeOK
  <2>10. \A i \in EntryFd : deftab[i].real = u <=> i \in HolderDefer(u)
    <3>1. \A i \in EntryFd : deftab[i].real = u => i # next
      <4> SUFFICES ASSUME next \in EntryFd, deftab[next].real = u PROVE FALSE
        OBVIOUS
      <4>1. HolderDefer(u) = {}
        BY <2>3 DEF OwnedOnce, EntriesDistinct, IInv
      <4>2. HolderInternal(u) = {}
        BY <2>3 DEF OwnedOnce, EntriesNotInputs, IInv
      <4> QED
        BY <1>3, <4>1, <4>2 DEF Held
    <3>2. \A i \in EntryFd : i # next => i \in next + 1 .. Len(deftab)
      BY <1>0 DEF EntryFd, Pending
    <3> QED
      BY <2>3, <3>1, <3>2 DEF HolderDefer
  <2>11. \A p \in InputFd : fdvar[p] = u <=> p \in HolderInternal(u)
    BY DEF InputFd, HolderInternal
  <2>12. \A x : x # n /\ x # u => (x \in OwnedDefer' <=> x \in OwnedDefer)
    <3>1. \A i \in EntryFd : deftab'[i].real = IF deftab[i].real = u THEN n ELSE deftab[i].real
      BY <1>0, <2>6, <2>10
    <3> QED
      BY <2>8, <3>1 DEF OwnedDefer
  <2>13. \A x : x # n /\ x # u => (x \in OwnedInternal' <=> x \in OwnedInternal)
    <3>1. \A p \in InputFd : fdvar'[p] = IF fdvar[p] = u THEN n ELSE fdvar[p]
      BY <1>0, <2>7, <2>11
    <3> QED
      BY <2>9, <3>1 DEF OwnedInternal
  <2>14. Base(n) = Closed
    BY <2>1 DEF Base, ContentOf
  <2>15. Base(n)' = Closed
    <3>1. n \in OwnedDefer' \/ n \in OwnedInternal'
      <4>1. CASE HolderDefer(u) # {}
        BY <2>3, <2>6, <2>8, <4>1, <1>0 DEF OwnedDefer
      <4>2. CASE HolderInternal(u) # {}
        BY <2>3, <2>7, <2>9, <4>2, <1>0 DEF OwnedInternal
      <4> QED
        BY <1>3, <4>1, <4>2 DEF Held
    <3> QED
      BY <2>2, <3>1 DEF Base
  <2>16. \A x : x # u => Base(x)' = Base(x)
    <3> SUFFICES ASSUME NEW x, x # u PROVE Base(x)' = Base(x)
      OBVIOUS
    <3>1. x # n => ContentOf(x)' = ContentOf(x)
      BY <2>5 DEF ContentOf
    <3> QED
      BY <2>12, <2>13, <2>14, <2>15, <3>1, BaseMoved
  <2> SUFFICES ASSUME NEW k \in next .. Len(deftab) PROVE ViewUpTo(k)' = ViewUpTo(k)
    BY <2>6
  <2>17. k \in Nat /\ Pending(k) \subseteq Pending(Len(deftab))
    BY <1>0 DEF Pending
  <2>18. \A i \in Pending(k) : i \in 1 .. Len(deftab)
    BY <1>0, <2>17 DEF Pending
  <2>19. \A i \in Pending(k) : ContentOf(deftab[i].real)' = ContentOf(deftab[i].real)
    <3> SUFFICES ASSUME NEW i \in Pending(k)
                 PROVE  ContentOf(deftab[i].real)' = ContentOf(deftab[i].real)
      OBVIOUS
    <3>1. CASE deftab[i].real = None
      <4>1. deftab'[i].real = None
        BY <2>3, <2>6, <2>18, <3>1 DEF EntryFd
      <4> QED
        BY <3>1, <4>1 DEF ContentOf, Fd, None
    <3>2. CASE deftab[i].real # None
      <4>1. i \in EntryFd
        BY <2>17, <3>2 DEF EntryFd
      <4>2. CASE deftab[i].real = u
        <5>1. deftab'[i].real = n
          BY <2>6, <2>10, <2>18, <4>1, <4>2
        <5> QED
          BY <2>4, <2>5, <4>2, <5>1 DEF ContentOf
      <4>3. CASE deftab[i].real # u
        <5>1. deftab'[i].real = deftab[i].real
          BY <2>6, <2>10, <2>18, <4>1, <4>3
        <5>2. deftab[i].real # n /\ deftab[i].real \in Fd
          BY <1>0, <2>1, <4>1 DEF OwnedOnce, EntriesOpen
        <5> QED
          BY <2>5, <4>3, <5>1, <5>2 DEF ContentOf
      <4> QED
        BY <4>2, <4>3
    <3> QED
      BY <3>1, <3>2
  <2>20. \A x \in UserFd : (\A i \in Pending(k) : deftab[i].user # x) => Base(x)' = Base(x)
    <3>1. next \in Pending(k)
      BY <1>0, <2>17 DEF Pending
    <3> QED
      BY <1>1, <2>16, <3>1
  <2>21. \A i \in Pending(k) : deftab'[i].user = deftab[i].user
    BY <2>6, <2>18
  <2>22. ViewUpTo(k)' = ViewUpTo(k)
    BY <1>0, <2>19, <2>20, <2>21, ViewKept
  <2> QED
    BY <2>22
<1> QED
  BY <1>2, <1>3

\* dodeferred() puts on u what the entry has for it: with the entry gone, u
\* is what the entry made it, and the others are what they were.
LEMMA ApplyView ==
  ASSUME IInv, IInv', pc \in {"apply", "immediate_apply"}, next <= Len(deftab),
         NEW after, NEW failing, pc' # failing,
         ApplyTo(deftab[next].real, deftab[next].user, after, failing),
         UNCHANGED <<fdvar, registered>>, NEW s \in {0, 1},
         \/ s = 0 /\ next' = next + 1 /\ deftab' = deftab
         \/ s = 1 /\ next = 1 /\ next' = 1 /\ deftab' = Tail(deftab)
  PROVE  /\ Len(deftab') = Len(deftab) - s
         /\ \A k \in next .. Len(deftab) : ViewUpTo(k - s)' = ViewUpTo(k)
<1>0. /\ TypeOK /\ TypeOK' /\ OwnedOnce /\ Len(deftab) \in Nat /\ next \in 1 .. Len(deftab)
      /\ \A i \in EntryFd : i \in 1 .. Len(deftab) /\ deftab[i].real \in Fd
      /\ \A p \in InputFd : p \in Internal /\ fdvar[p] \in Fd
      /\ Len(deftab') \in Nat /\ next' \in Nat
  BY OwnedFacts DEF IInv, TypeOK
<1>1. PICK u \in UserFd, r \in Fd \cup {None} : u = deftab[next].user /\ r = deftab[next].real
  BY <1>0, OwnedFacts
<1>2. PICK n \in Nat, at \in Nat : n = Len(deftab) /\ at = next /\ at \in 1 .. n
  BY <1>0
<1>3. ~ Held(u)
  <2>1. pc \in {"apply", "immediate_apply"} => ~ Held(deftab[next].user)
    BY DEF IInv, PcInv
  <2> QED
    BY <1>1, <2>1
<1>4. /\ next' = at + 1 - s /\ Len(deftab') = n - s
      /\ \A i \in at + 1 .. n : deftab'[i - s] = deftab[i]
  <2>1. CASE s = 0 /\ next' = next + 1 /\ deftab' = deftab
    BY <1>2, <2>1
  <2>2. CASE s = 1 /\ next = 1 /\ next' = 1 /\ deftab' = Tail(deftab)
    <3>1. deftab # << >>
      BY <1>2
    <3>2. Len(deftab') = n - 1 /\ \A i \in 1 .. n - 1 : deftab'[i] = deftab[i + 1]
      BY <1>0, <1>2, <2>2, <3>1, TailFacts DEF TypeOK
    <3>3. \A i \in 2 .. n : i - 1 \in 1 .. n - 1 /\ i = (i - 1) + 1
      OBVIOUS
    <3>4. \A i \in 2 .. n : deftab'[i - 1] = deftab[i]
      BY <3>2, <3>3
    <3> QED
      BY <1>2, <2>2, <3>2, <3>4
  <2> QED
    BY <2>1, <2>2
<1>5. /\ \A j \in EntryFd' : /\ j + s \in EntryFd /\ j + s \in at + 1 .. n
                             /\ deftab'[j].real = deftab[j + s].real
      /\ \A i \in EntryFd : i # at => i - s \in EntryFd' /\ i \in at + 1 .. n
                                      /\ deftab'[i - s].real = deftab[i].real
  <2>1. ASSUME NEW j \in EntryFd'
        PROVE  /\ j + s \in EntryFd /\ j + s \in at + 1 .. n
               /\ deftab'[j].real = deftab[j + s].real
    <3>1. j \in at + 1 - s .. n - s /\ deftab'[j].real # None
      BY <1>4 DEF EntryFd, Pending
    <3>2. j + s \in at + 1 .. n /\ j = (j + s) - s
      BY <3>1
    <3>3. deftab'[j] = deftab[j + s]
      BY <1>4, <3>2
    <3> QED
      BY <1>2, <3>1, <3>2, <3>3 DEF EntryFd, Pending
  <2>2. ASSUME NEW i \in EntryFd, i # at
        PROVE  /\ i - s \in EntryFd' /\ i \in at + 1 .. n
               /\ deftab'[i - s].real = deftab[i].real
    <3>1. i \in at + 1 .. n /\ deftab[i].real # None
      BY <1>2, <2>2 DEF EntryFd, Pending
    <3>2. deftab'[i - s] = deftab[i] /\ i - s \in at + 1 - s .. n - s
      BY <1>4, <3>1
    <3> QED
      BY <1>4, <3>1, <3>2 DEF EntryFd, Pending
  <2> QED
    BY <2>1, <2>2
<1>6. InputFd' = InputFd /\ OwnedInternal' = OwnedInternal
  BY DEF OwnedInternal, InputFd
<1>7. r = None \/ at \in EntryFd
  BY <1>1, <1>2 DEF EntryFd, Pending
<1>8. \A i \in EntryFd : i # at => /\ deftab[i].real \in Fd /\ deftab[i].real # None
                                   /\ deftab[i].real # u /\ deftab[i].real # r
  <2>1. \A i \in EntryFd : i # at => deftab[i].real # u
    <3>1. \A i \in EntryFd : i # at => i \in next + 1 .. Len(deftab)
      BY <1>2, <1>5
    <3> QED
      BY <1>3, <3>1 DEF Held, HolderDefer
  <2>2. \A i \in EntryFd : deftab[i].real # None
    BY DEF EntryFd
  <2> QED
    BY <1>0, <1>1, <1>2, <1>7, <2>1, <2>2 DEF OwnedOnce, EntriesDistinct
<1>9. \A x : x # u /\ x # r => ContentOf(x)' = ContentOf(x)
  <2>1. \A x \in Fd : x # u /\ x # r => table'[x] = table[x]
    BY <1>0, <1>1 DEF ApplyTo, ClosedAt, TypeOK
  <2> QED
    BY <2>1 DEF ContentOf
<1>10. ContentOf(u)' = ContentOf(r)
  BY <1>0, <1>1 DEF ApplyTo, ClosedAt, ContentOf, TypeOK, Fd, None
<1>11. r # u => ContentOf(r)' = Closed
  BY <1>0, <1>1 DEF ApplyTo, ClosedAt, ContentOf, TypeOK, Fd, None
<1>12. u \notin OwnedDefer' /\ u \notin OwnedInternal'
  <2>1. u \notin OwnedDefer'
    <3> SUFFICES ASSUME NEW j \in EntryFd', deftab'[j].real = u PROVE FALSE
      BY DEF OwnedDefer
    <3>1. j + s \in EntryFd /\ j + s # at /\ deftab[j + s].real = u
      BY <1>5
    <3> QED
      BY <1>8, <3>1
  <2>2. u \notin OwnedInternal
    BY <1>3 DEF Held, HolderInternal, OwnedInternal, InputFd
  <2> QED
    BY <1>6, <2>1, <2>2
<1>13. Base(u)' = ContentOf(r)
  BY <1>10, <1>12 DEF Base
<1>14. \A x : x # u => Base(x)' = Base(x)
  <2> SUFFICES ASSUME NEW x, x # u PROVE Base(x)' = Base(x)
    OBVIOUS
  <2>1. CASE x = r
    <3>1. Base(r) = Closed
      BY <1>1, <1>2, <1>7 DEF Base, OwnedDefer, ContentOf, Fd, None
    <3>2. Base(r)' = Closed
      BY <1>11, <2>1 DEF Base
    <3> QED
      BY <2>1, <3>1, <3>2
  <2>2. CASE x # r
    <3>1. x \in OwnedDefer' <=> x \in OwnedDefer
      <4>1. ASSUME x \in OwnedDefer' PROVE x \in OwnedDefer
        BY <1>5, <4>1 DEF OwnedDefer
      <4>2. ASSUME x \in OwnedDefer PROVE x \in OwnedDefer'
        <5>1. PICK i \in EntryFd : x = deftab[i].real
          BY <4>2 DEF OwnedDefer
        <5>2. i # at
          BY <1>1, <1>2, <2>2, <5>1
        <5>3. i - s \in EntryFd' /\ deftab'[i - s].real = x
          BY <1>5, <5>1, <5>2
        <5> QED
          BY <5>3 DEF OwnedDefer
      <4> QED
        BY <4>1, <4>2
    <3> QED
      BY <1>6, <1>9, <2>2, <3>1, BaseKept
  <2> QED
    BY <2>1, <2>2
<1> SUFFICES ASSUME NEW k \in at .. n PROVE ViewUpTo(k - s)' = ViewUpTo(k)
  BY <1>2, <1>4
<1>15. /\ k \in Nat /\ k - s \in Nat /\ Pending(k) = at .. k
       /\ Pending(k - s)' = at + 1 - s .. k - s
       /\ \A j \in at + 1 .. k : j \in at + 1 .. n
  BY <1>2, <1>4 DEF Pending
<1>16. \A j \in at + 1 - s .. k - s : j + s \in at + 1 .. k /\ deftab'[j] = deftab[j + s]
  <2> SUFFICES ASSUME NEW j \in at + 1 - s .. k - s
               PROVE  j + s \in at + 1 .. k /\ deftab'[j] = deftab[j + s]
    OBVIOUS
  <2>1. j + s \in at + 1 .. k /\ j = (j + s) - s
    BY <1>15
  <2> QED
    BY <1>4, <1>15, <2>1
<1>17. ASSUME NEW x \in UserFd PROVE ViewUpTo(k - s)'[x] = ViewUpTo(k)[x]
  <2>1. CASE \E i \in at + 1 .. k : IsLast(deftab, next, k, x, i)
    <3>1. PICK i \in at + 1 .. k : IsLast(deftab, next, k, x, i)
      BY <2>1
    <3>2. ViewUpTo(k)[x] = ContentOf(deftab[i].real)
      <4>1. i \in Pending(k)
        BY <1>15
      <4> QED
        BY SMTT(30), <1>0, <1>15, <3>1, <4>1, ViewIs DEF ViewFacts
    <3>3. PICK j \in at + 1 - s .. k - s : j = i - s /\ deftab'[j] = deftab[i]
      <4>1. i \in at + 1 .. n
        BY <1>15, <3>1
      <4>2. i - s \in at + 1 - s .. k - s
        <5>1. at + 1 <= i /\ i <= k /\ i \in Int
          BY <3>1
        <5> QED
          BY <1>15, <5>1
      <4>3. deftab'[i - s] = deftab[i]
        BY <1>4, <4>1
      <4> QED
        BY <4>2, <4>3
    <3>4. ASSUME NEW l \in j + 1 .. k - s PROVE deftab'[l].user # x
      <4>1. l \in at + 1 - s .. k - s /\ l + s \in i + 1 .. k
        BY <1>15, <3>1, <3>3
      <4> QED
        BY <1>16, <3>1, <4>1 DEF IsLast
    <3>5. IsLast(deftab', next', k - s, x, j) /\ j \in Pending(k - s)'
      BY <1>4, <1>15, <3>1, <3>3, <3>4 DEF IsLast
    <3>6. ViewUpTo(k - s)'[x] = ContentOf(deftab[j].real)'
      BY <1>0, <1>15, <3>5, ViewIsNext DEF ViewFacts
    <3>7. PICK y : y = deftab[i].real /\ y = deftab'[j].real
      BY <3>3
    <3>8. ContentOf(y)' = ContentOf(y)
      <4>1. CASE y = None
        BY <4>1 DEF ContentOf, Fd, None
      <4>2. CASE y # None
        <5>1. i \in EntryFd /\ i # at
          <6>1. i \in at + 1 .. n /\ deftab[i].real # None
            BY <1>15, <3>1, <3>7, <4>2
          <6> QED
            BY <1>2, <6>1 DEF EntryFd, Pending
        <5> QED
          BY <1>8, <1>9, <3>7, <5>1
      <4> QED
        BY <4>1, <4>2
    <3> QED
      BY <3>2, <3>6, <3>7, <3>8 DEF ContentOf
  <2>2. CASE \A i \in at + 1 .. k : deftab[i].user # x
    <3>1. ViewUpTo(k - s)'[x] = Base(x)'
      <4>1. \A j \in Pending(k - s)' : deftab'[j].user # x
        BY <1>15, <1>16, <2>2
      <4> QED
        <5>1. ~ \E i \in Pending(k - s)' : IsLast(deftab', next', k - s, x, i)
          BY <4>1 DEF IsLast
        <5> QED
          BY <1>0, <1>15, <5>1, ViewIsNext DEF ViewFacts
    <3>2. CASE x = u
      <4>1. IsLast(deftab, next, k, x, at) /\ at \in Pending(k)
        BY <1>1, <1>2, <1>15, <2>2, <3>2 DEF IsLast
      <4>2. ViewUpTo(k)[x] = ContentOf(r)
        <5>1. ViewUpTo(k)[x] = ContentOf(deftab[at].real)
          BY <1>0, <1>15, <4>1, ViewIs DEF ViewFacts
        <5>2. deftab[at].real = r
          BY <1>1, <1>2
        <5> QED
          BY <5>1, <5>2
      <4> QED
        BY <1>13, <3>1, <3>2, <4>2
    <3>3. CASE x # u
      <4>1. \A i \in at .. k : i = at \/ i \in at + 1 .. k
        BY <1>15
      <4>2. \A i \in Pending(k) : deftab[i].user # x
        BY <1>1, <1>2, <1>15, <2>2, <3>3, <4>1
      <4>3. ViewUpTo(k)[x] = Base(x)
        <5>1. ~ \E i \in Pending(k) : IsLast(deftab, next, k, x, i)
          BY <4>2 DEF IsLast
        <5> QED
          BY <1>0, <1>15, <5>1, ViewIs DEF ViewFacts
      <4> QED
        BY <1>14, <3>1, <3>3, <4>3
    <3> QED
      BY <3>2, <3>3
  <2>3. (\E i \in at + 1 .. k : deftab[i].user = x)
          => \E i \in at + 1 .. k : IsLast(deftab, next, k, x, i)
    <3> SUFFICES ASSUME NEW j \in at + 1 .. k, deftab[j].user = x
                 PROVE  \E i \in at + 1 .. k : IsLast(deftab, next, k, x, i)
      OBVIOUS
    <3>0. at + 1 \in Nat
      OBVIOUS
    <3>1. PICK l \in at + 1 .. k : IsLast(deftab, at + 1, k, x, l)
      BY <1>15, <3>0, LastExists
    <3>2. IsLast(deftab, next, k, x, l)
      BY <1>2, <3>1 DEF IsLast
    <3> QED
      BY <3>1, <3>2
  <2> QED
    BY <2>1, <2>2, <2>3
<1>18. /\ ViewUpTo(k) = [x \in UserFd |-> ViewUpTo(k)[x]]
       /\ ViewUpTo(k - s)' = [x \in UserFd |-> ViewUpTo(k - s)'[x]]
  BY DEF ViewUpTo
<1> QED
  BY <1>17, <1>18

\* closefds() closes what is es's own, once every entry has been applied.
LEMMA CloseOnForkView == ASSUME IInv, IInv', CloseOnFork PROVE View' = View
<1>0. /\ TypeOK /\ TypeOK' /\ Len(deftab) \in Nat /\ Len(deftab') \in Nat
      /\ \A p \in InputFd : p \in registered /\ fdvar[p] \in Fd
      /\ next > Len(deftab) /\ next \in Nat /\ next' = 1 /\ deftab' = << >>
  BY OwnedFacts DEF IInv, TypeOK, CloseOnFork, InputFd
<1>1. Pending(Len(deftab)) = {} /\ Pending(Len(deftab))' = {}
  BY <1>0 DEF Pending
<1>2. OwnedDefer = {} /\ OwnedDefer' = {}
  BY <1>1 DEF OwnedDefer, EntryFd
<1>3. OwnedInternal' = {}
  BY <1>0 DEF OwnedInternal, InputFd, CloseOnFork, TypeOK
<1>4. ASSUME NEW x \in UserFd PROVE Base(x)' = Base(x)
  <2>1. Base(x)' = ContentOf(x)'
    BY <1>2, <1>3 DEF Base
  <2>2. x \in Nat
    BY FdsAssumption
  <2>3. x \in OwnedInternal <=> x \in Fd /\ \E p \in registered : fdvar[p] = x
    <3>1. x # None
      BY <2>2 DEF None
    <3> QED
      BY <1>0, <3>1 DEF OwnedInternal, InputFd
  <2>4. x \in Fd => table'[x] = IF x >= 3 /\ \E p \in registered : fdvar[p] = x
                                 THEN Closed ELSE table[x]
    BY DEF CloseOnFork
  <2>5. CASE x \in Fd
    BY <1>2, <2>1, <2>3, <2>4, <2>5 DEF Base, ContentOf
  <2>6. CASE x \notin Fd
    BY <1>2, <2>1, <2>6 DEF Base, ContentOf
  <2> QED
    BY <2>5, <2>6
<1>5. \A x \in UserFd : View[x] = Base(x) /\ View'[x] = Base(x)'
  <2>1. \A x \in UserFd : View[x] = Base(x)
    BY <1>1 DEF View, ViewUpTo
  <2>2. \A x \in UserFd : View'[x] = Base(x)'
    BY <1>1 DEF View, ViewUpTo
  <2> QED
    BY <2>1, <2>2
<1>6. View = [x \in UserFd |-> View[x]] /\ View' = [x \in UserFd |-> View'[x]]
  BY DEF View, ViewUpTo
<1> QED
  BY <1>4, <1>5, <1>6

-----------------------------------------------------------------------------
(* Deferral implements lexically scoped redirection.                        *)

\* While the shell works, the views to go back to are those of the outer
\* redirections.
LEMMA SavedFacts ==
  ASSUME TypeOK, pc = "run", ~ failed
  PROVE  /\ Saved \in Seq([UserFd -> Content])
         /\ Len(Saved) = Len(deftab)
         /\ Len(deftab) \in Nat
         /\ \A k \in 1 .. Len(deftab) : Saved[k] = ViewUpTo(k - 1)
<1>1. Len(deftab) \in Nat /\ Saved = [k \in 1 .. Len(deftab) |-> ViewUpTo(k - 1)]
  BY DEF TypeOK, Saved, Stopped, defcount
<1>2. \A k \in 1 .. Len(deftab) : ViewUpTo(k - 1) \in [UserFd -> Content]
  <2> SUFFICES ASSUME NEW k \in 1 .. Len(deftab) PROVE ViewUpTo(k - 1) \in [UserFd -> Content]
    OBVIOUS
  <2>1. k - 1 \in Nat
    BY <1>1
  <2> QED
    BY <2>1, ViewType
<1> QED
  BY <1>1, <1>2

ViewTypes == \A k \in Nat : ViewUpTo(k) \in [UserFd -> Content]

LEMMA AllViewTypes == TypeOK => ViewTypes
BY ViewType DEF ViewTypes

LEMMA ViewTypesNext == TypeOK' => ViewTypes'
BY AllViewTypes, PTL

LEMMA SavedFactsNext ==
  ASSUME TypeOK', pc' = "run", ~ failed'
  PROVE  /\ Saved' \in Seq([UserFd -> Content])
         /\ Len(Saved') = Len(deftab')
         /\ Len(deftab') \in Nat
         /\ \A k \in 1 .. Len(deftab') : Saved'[k] = ViewUpTo(k - 1)'
<1>1. Len(deftab') \in Nat /\ Saved' = [k \in 1 .. Len(deftab') |-> ViewUpTo(k - 1)']
  BY DEF TypeOK, Saved, Stopped, defcount
<1>2. \A k \in Nat : ViewUpTo(k)' \in [UserFd -> Content]
  BY ViewTypesNext DEF ViewTypes, Content
<1>3. \A k \in 1 .. Len(deftab') : k - 1 \in Nat
  BY <1>1
<1> QED
  BY <1>1, <1>2, <1>3

\* While one is done at once its pair stands before those of the others.
LEMMA SavedAtOnce ==
  ASSUME pc \in {"immediate", "immediate_apply"}, ~ failed
  PROVE  Saved = [k \in 1 .. Len(deftab) - 1 |-> ViewUpTo(k)]
BY DEF Saved, Stopped, defcount

LEMMA SavedAtOnceNext ==
  ASSUME pc' \in {"immediate", "immediate_apply"}, ~ failed'
  PROVE  Saved' = [k \in 1 .. Len(deftab') - 1 |-> ViewUpTo(k)']
BY DEF Saved, Stopped, defcount

LEMMA InitRefines == Init => Abstract!AbsInit
<1> SUFFICES ASSUME Init PROVE Abstract!AbsInit
  OBVIOUS
<1>1. TypeOK /\ pc = "run" /\ deftab = << >> /\ Len(deftab) = 0 /\ ~ failed
  BY InitIInv DEF IInv, Init
<1>2. Seen \in [UserFd -> Content]
  BY <1>1, ViewType DEF Seen, Stopped, View
<1>3. Saved = << >>
  BY <1>1, SavedFacts, EmptySeq
<1>4. Mode = "shell"
  BY <1>1 DEF Mode, Stopped, Init
<1> QED
  BY <1>2, <1>3, <1>4 DEF Abstract!AbsInit, Content, Abstract!Content

\* A redirection begins.
LEMMA BeginRefines ==
  ASSUME IInv, IInv', ~ failed, Parent, NEW r \in Fd \cup {None}, NEW u \in UserFd, PushDefer(r, u),
         UNCHANGED <<fdvar, registered, child, pc, next, failed>>,
         IF r = None THEN UNCHANGED table
         ELSE table[r] = Closed /\ \E f \in Content : table' = [table EXCEPT ![r] = f]
  PROVE  \E c \in Content : Abstract!Begin(u, c)
<1>0. /\ pc = "run" /\ pc' = "run" /\ TypeOK /\ TypeOK' /\ next = 1 /\ next' = 1
      /\ ~ failed /\ ~ failed'
  BY DEF Parent, IInv, PcInv
<1>1. /\ Len(deftab') = Len(deftab) + 1 /\ Len(deftab) \in Nat
      /\ \A i \in 1 .. Len(deftab) : deftab'[i] = deftab[i]
      /\ deftab'[Len(deftab) + 1] = [real |-> r, user |-> u]
  BY <1>0, PushFacts
<1>2. /\ \A k \in 0 .. Len(deftab) : ViewUpTo(k)' = ViewUpTo(k)
      /\ View' = [View EXCEPT ![u] = ContentOf(r)']
  BY <1>0, <1>1, EntryPushed
<1>3. ContentOf(r)' \in Content
  BY <1>0 DEF ContentOf, TypeOK, Content
<1>4. View \in [UserFd -> Content]
  BY <1>0, <1>1, ViewType DEF View
<1>5. Saved' = Append(Saved, View)
  <2>1. /\ Saved \in Seq([UserFd -> Content]) /\ Len(Saved) = Len(deftab)
        /\ \A k \in 1 .. Len(deftab) : Saved[k] = ViewUpTo(k - 1)
    BY <1>0, SavedFacts
  <2>2. /\ Saved' \in Seq([UserFd -> Content]) /\ Len(Saved') = Len(deftab')
        /\ \A k \in 1 .. Len(deftab') : Saved'[k] = ViewUpTo(k - 1)'
    BY <1>0, SavedFactsNext
  <2>3. /\ Append(Saved, View) \in Seq([UserFd -> Content])
        /\ Len(Append(Saved, View)) = Len(Saved) + 1
        /\ \A k \in 1 .. Len(Saved) : Append(Saved, View)[k] = Saved[k]
        /\ Append(Saved, View)[Len(Saved) + 1] = View
    BY <1>4, <2>1, AppendFacts
  <2>4. ASSUME NEW k \in 1 .. Len(Saved') PROVE Saved'[k] = Append(Saved, View)[k]
    <3>1. k \in 1 .. Len(deftab') /\ k - 1 \in 0 .. Len(deftab)
      BY <1>1, <2>2
    <3>2. Saved'[k] = ViewUpTo(k - 1)'
      BY <2>2, <3>1
    <3>3. ViewUpTo(k - 1)' = ViewUpTo(k - 1)
      BY <1>2, <3>1
    <3>4. CASE k \in 1 .. Len(deftab)
      BY <2>1, <2>3, <3>2, <3>3, <3>4
    <3>5. CASE k = Len(deftab) + 1
      <4>1. k - 1 = Len(deftab) /\ k = Len(Saved) + 1
        BY <1>1, <2>1, <3>5
      <4>2. ViewUpTo(k - 1) = View
        BY <4>1 DEF View
      <4> QED
        BY <2>3, <3>2, <3>3, <4>1, <4>2, Zenon
    <3>6. k \in 1 .. Len(deftab) \/ k = Len(deftab) + 1
      BY <1>1, <3>1
    <3> QED
      BY <3>4, <3>5, <3>6, Zenon
  <2> QED
    BY <1>1, <2>1, <2>2, <2>3, <2>4, SeqEqual
<1>6. Seen = View /\ Seen' = View' /\ Mode' = Mode /\ Mode \in {"shell", "child"}
  BY <1>0 DEF Seen, Mode, Stopped
<1> QED
  BY <1>2, <1>3, <1>5, <1>6 DEF Abstract!Begin, Abstract!Running

\* A command ends: what it redirected is undone.
LEMMA LeaveRefines ==
  ASSUME IInv, IInv', ~ failed, Leave PROVE Abstract!End \/ UNCHANGED <<Seen, Saved, Mode>>
<1>0. /\ pc = "run" /\ pc' = "run" /\ TypeOK /\ TypeOK' /\ frames # << >>
      /\ UNCHANGED <<fdvar, registered, child, next, failed>> /\ ~ failed /\ ~ failed'
  BY DEF IInv, Leave
<1>1. CASE UNCHANGED <<table, deftab>>
  <2>1. View' = View /\ Saved' = Saved
    BY <1>0, <1>1 DEF View, Saved, Stopped, defcount, ViewUpTo, Base, ContentOf, OwnedDefer, OwnedInternal, EntryFd,
       InputFd, Pending, LastFor
  <2> QED
    BY <1>0, <2>1 DEF Seen, Mode, Stopped
<1>2. CASE /\ Last(frames) # CatchFrame
           /\ table' = ClosedAt(table, Last(deftab).real) /\ deftab' = Front(deftab)
  <2>1. deftab # << >>
    <3>1. Last(frames) = Len(deftab)
      BY <1>0, <1>2, InOrder DEF UndeferInOrder, defcount
    <3> QED
      BY <1>2, <3>1 DEF CatchFrame
  <2>2. /\ Len(deftab') = Len(deftab) - 1 /\ Len(deftab) \in Nat \ {0}
        /\ \A k \in 0 .. Len(deftab) - 1 : ViewUpTo(k)' = ViewUpTo(k)
    BY <1>0, <1>2, <2>1, UndeferView
  <2>3. /\ Saved \in Seq([UserFd -> Content]) /\ Len(Saved) = Len(deftab)
        /\ \A k \in 1 .. Len(deftab) : Saved[k] = ViewUpTo(k - 1)
    BY <1>0, SavedFacts
  <2>4. /\ Saved' \in Seq([UserFd -> Content]) /\ Len(Saved') = Len(deftab')
        /\ \A k \in 1 .. Len(deftab') : Saved'[k] = ViewUpTo(k - 1)'
    BY <1>0, SavedFactsNext
  <2>5. Saved # << >>
    BY <2>2, <2>3
  <2>6. View' = Saved[Len(Saved)]
    <3>1. PICK n \in Nat : n = Len(deftab) - 1
      BY <2>2
    <3>2. View' = ViewUpTo(n)'
      BY <2>2, <3>1 DEF View
    <3> QED
      BY <2>2, <2>3, <3>1, <3>2
  <2>7. Saved' = SubSeq(Saved, 1, Len(Saved) - 1)
    <3>1. /\ Front(Saved) \in Seq([UserFd -> Content]) /\ Len(Front(Saved)) = Len(Saved) - 1
          /\ \A k \in 1 .. Len(Saved) - 1 : Front(Saved)[k] = Saved[k]
      BY <2>3, <2>5, FrontFacts
    <3>2. ASSUME NEW k \in 1 .. Len(Saved') PROVE Saved'[k] = Front(Saved)[k]
      <4>1. k \in 1 .. Len(deftab') /\ k \in 1 .. Len(deftab) /\ k - 1 \in 0 .. Len(deftab) - 1
        BY <2>2, <2>4
      <4>2. Saved'[k] = ViewUpTo(k - 1)' /\ ViewUpTo(k - 1)' = ViewUpTo(k - 1)
        BY <2>2, <2>4, <4>1
      <4> QED
        BY <2>2, <2>3, <2>4, <3>1, <4>1, <4>2
    <3>3. Saved' = Front(Saved)
      BY <2>2, <2>3, <2>4, <3>1, <3>2, SeqEqual
    <3> QED
      BY <3>3 DEF Front
  <2>8. Seen = View /\ Seen' = View' /\ Mode' = Mode /\ Mode \in {"shell", "child"}
    BY <1>0 DEF Seen, Mode, Stopped
  <2> QED
    BY <2>5, <2>6, <2>7, <2>8 DEF Abstract!End, Abstract!Running
<1> QED
  BY <1>1, <1>2 DEF Leave

\* Opening and closing an input changes no view.
LEMMA ReadingRefines ==
  ASSUME IInv, IInv', StdOpen, ~ failed, Reading PROVE UNCHANGED <<Seen, Saved, Mode>>
<1>0. /\ pc = "run" /\ TypeOK /\ TypeOK' /\ UNCHANGED <<deftab, child, pc, failed>> /\ ~ failed
  BY DEF IInv, Reading, OpenInput, EndOfInput, CloseInput
<1>1. Len(deftab) \in Nat /\ \A k \in 0 .. Len(deftab) : ViewUpTo(k)' = ViewUpTo(k)
  BY <1>0, ReadingView DEF TypeOK
<1>2. View' = View
  <2>1. PICK n \in Nat : n = Len(deftab)
    BY <1>1
  <2>2. View' = ViewUpTo(n)' /\ View = ViewUpTo(n)
    BY <1>0, <2>1 DEF View
  <2> QED
    BY <1>1, <2>1, <2>2
<1>3. Saved' = Saved
  <2>1. \A k \in 1 .. Len(deftab) : k - 1 \in 0 .. Len(deftab)
    BY <1>1
  <2> QED
    BY <1>0, <1>1, <2>1 DEF Saved, Stopped, defcount
<1> QED
  BY <1>0, <1>2, <1>3 DEF Seen, Mode, Stopped

\* A redirection is done at once, on a descriptor that none around it names.
LEMMA NowRefines ==
  ASSUME IInv, IInv', ~ failed, ~ Overtaken', DoneAtOnce, NEW r \in Fd \cup {None},
         NEW u \in UserFd, Immediate(r, u),
         IF r = None THEN UNCHANGED table
         ELSE table[r] = Closed /\ \E f \in Content : table' = [table EXCEPT ![r] = f]
  PROVE  \E c \in Content : Abstract!Set(u, c)
<1>0. /\ pc = "run" /\ pc' = "immediate" /\ TypeOK /\ TypeOK' /\ next = 1 /\ next' = 1
      /\ deftab \in Seq(Defer) /\ [real |-> r, user |-> u] \in Defer
      /\ UNCHANGED <<fdvar, registered, child, failed>> /\ ~ failed /\ ~ failed'
  BY DEF DoneAtOnce, Immediate, IInv, PcInv, TypeOK, Defer
<1>1. /\ Len(deftab') = Len(deftab) + 1 /\ Len(deftab) \in Nat
      /\ \A i \in 1 .. Len(deftab) : deftab'[i + 1] = deftab[i]
      /\ deftab'[1] = [real |-> r, user |-> u]
  BY <1>0, ConsFacts DEF Immediate
<1>2. \A i \in 1 .. Len(deftab) : deftab[i].user # u
  <2> SUFFICES ASSUME NEW i \in 1 .. Len(deftab), deftab[i].user = u PROVE FALSE
    OBVIOUS
  <2>1. i + 1 \in 2 .. Len(deftab') /\ deftab'[i + 1].user = u /\ deftab'[1].user = u
    BY <1>1
  <2> QED
    BY <1>0, <2>1 DEF Overtaken
<1>3. \A k \in 0 .. Len(deftab) : ViewUpTo(k + 1)' = [ViewUpTo(k) EXCEPT ![u] = ContentOf(r)']
  BY <1>0, <1>1, <1>2, PairPushed
<1>4. PICK c \in Content : c = ContentOf(r)'
  BY <1>0 DEF ContentOf, TypeOK, Content
<1>5. PICK n \in Nat : n = Len(deftab)
  BY <1>1
<1>6. View' = [View EXCEPT ![u] = c]
  <2>1. View' = ViewUpTo(n + 1)' /\ View = ViewUpTo(n)
    BY <1>1, <1>5 DEF View
  <2> QED
    BY <1>3, <1>4, <1>5, <2>1
<1>7. Saved' = [k \in 1 .. Len(Saved) |-> [Saved[k] EXCEPT ![u] = c]]
  <2>1. Len(Saved) = n /\ \A k \in 1 .. n : Saved[k] = ViewUpTo(k - 1)
    BY <1>0, <1>5, SavedFacts
  <2>2. Saved' = [k \in 1 .. n |-> ViewUpTo(k)']
    BY <1>0, <1>1, <1>5, SavedAtOnceNext
  <2>3. ASSUME NEW k \in 1 .. n PROVE ViewUpTo(k)' = [Saved[k] EXCEPT ![u] = c]
    <3>1. PICK j \in 0 .. n : k = j + 1 /\ j = k - 1
      BY <1>5
    <3>2. ViewUpTo(j + 1)' = [ViewUpTo(j) EXCEPT ![u] = c]
      BY <1>3, <1>4, <1>5, <3>1
    <3> QED
      BY <2>1, <3>1, <3>2
  <2> QED
    BY <2>1, <2>2, <2>3
<1>8. Seen = View /\ Seen' = View' /\ Mode' = Mode /\ Mode \in {"shell", "child"}
  BY <1>0 DEF Seen, Mode, Stopped
<1> QED
  BY <1>4, <1>6, <1>7, <1>8 DEF Abstract!Set, Abstract!Running

\* A process that cannot have the descriptor it needs gives up.
LEMMA GiveUpRefines ==
  ASSUME Stopped' PROVE Abstract!GiveUp
BY DEF Stopped, Seen, Saved, Mode, Abstract!GiveUp

\* A child is forked, and is ready when its redirections have been applied.
LEMMA ForkRefines == ASSUME IInv, ~ failed, Fork PROVE Abstract!Child
<1>0. /\ pc = "run" /\ pc' = "release" /\ next = 1 /\ next' = 1
      /\ UNCHANGED <<table, deftab, fdvar, registered, child, failed>> /\ ~ failed
  BY DEF Fork, IInv, PcInv
<1>1. View' = View
  BY <1>0 DEF View, ViewUpTo, Base, ContentOf, OwnedDefer, OwnedInternal, EntryFd,
     InputFd, Pending, LastFor
<1> QED
  BY <1>0, <1>1 DEF Seen, Saved, Mode, Stopped, Abstract!Child, Abstract!Running

LEMMA ReadyRefines == ASSUME IInv, IInv', ~ failed, CloseOnFork PROVE Abstract!Ready
<1>0. /\ pc = "release" /\ pc' = "run" /\ child' = TRUE /\ TypeOK' /\ deftab' = << >>
      /\ ~ failed /\ ~ failed'
  BY DEF CloseOnFork, IInv
<1>1. View' = View
  BY CloseOnForkView
<1>2. Saved = << >> /\ Saved' = << >>
  BY <1>0, SavedFactsNext, EmptySeq DEF Saved
<1> QED
  BY <1>0, <1>1, <1>2 DEF Seen, Mode, Stopped, Abstract!Ready

\* Each step of closefds() and of an immediate redirection changes no view.
LEMMA DeferredRefines ==
  ASSUME IInv, IInv', StdOpen, ~ failed, ~ Stopped',
         Release \/ Apply \/ ImmediateRelease \/ ImmediateApply
  PROVE  UNCHANGED <<Seen, Saved, Mode>>
<1>0. TypeOK /\ TypeOK' /\ PcInv /\ ~ failed /\ ~ failed' /\ Len(deftab) \in Nat
  BY DEF IInv, TypeOK, Stopped
<1>1. CASE Release
  <2>1. pc = "release" /\ pc' = "apply" /\ next <= Len(deftab) /\ next \in Nat
    BY <1>0, <1>1 DEF Release, ReleaseTo, Stopped, TypeOK
  <2>2. Len(deftab') = Len(deftab) /\ \A k \in next .. Len(deftab) : ViewUpTo(k)' = ViewUpTo(k)
    BY <1>1, <2>1, ReleaseView DEF Release
  <2>3. PICK n \in Nat : n = Len(deftab) /\ n \in next .. Len(deftab)
    BY <1>0, <2>1
  <2>4. View' = ViewUpTo(n)' /\ View = ViewUpTo(n)
    BY <2>2, <2>3 DEF View
  <2> QED
    BY <1>0, <1>1, <2>1, <2>2, <2>3, <2>4 DEF Seen, Saved, Mode, Stopped, Release
<1>2. CASE Apply
  <2>1. /\ pc = "apply" /\ pc' = "release" /\ next <= Len(deftab) /\ next \in Nat
        /\ next' = next + 1 /\ deftab' = deftab
    BY <1>0, <1>2 DEF Apply, ApplyTo, Stopped, PcInv, TypeOK
  <2>2. /\ Len(deftab') = Len(deftab) - 0
        /\ \A k \in next .. Len(deftab) : ViewUpTo(k - 0)' = ViewUpTo(k)
    BY <1>2, <2>1, ApplyView DEF Apply
  <2>3. PICK n \in Nat : n = Len(deftab) /\ n \in next .. Len(deftab) /\ n - 0 = n
    BY <1>0, <2>1
  <2>4. View' = ViewUpTo(n)' /\ View = ViewUpTo(n)
    BY <2>1, <2>3 DEF View
  <2>5. ViewUpTo(n - 0)' = ViewUpTo(n)
    BY <2>2, <2>3
  <2> QED
    BY <1>0, <1>2, <2>1, <2>3, <2>4, <2>5 DEF Seen, Saved, Mode, Stopped, Apply
<1>3. CASE ImmediateRelease
  <2>1. /\ pc = "immediate" /\ pc' = "immediate_apply" /\ child' = child
        /\ next = 1 /\ next' = 1 /\ Len(deftab) >= 1
    BY <1>0, <1>3 DEF ImmediateRelease, ReleaseTo, Stopped, PcInv
  <2>2. Len(deftab') = Len(deftab) /\ \A k \in next .. Len(deftab) : ViewUpTo(k)' = ViewUpTo(k)
    BY <1>0, <1>3, <2>1, ReleaseView DEF ImmediateRelease
  <2>3. PICK n \in Nat : n = Len(deftab) /\ n \in next .. Len(deftab)
    BY <1>0, <2>1
  <2>4. View' = ViewUpTo(n)' /\ View = ViewUpTo(n)
    BY <2>2, <2>3 DEF View
  <2>5. Saved' = Saved
    <3>1. \A k \in 1 .. n - 1 : k \in next .. Len(deftab)
      BY <2>1, <2>3
    <3>2. \A k \in 1 .. n - 1 : ViewUpTo(k)' = ViewUpTo(k)
      BY <2>2, <3>1
    <3>3. Saved = [k \in 1 .. n - 1 |-> ViewUpTo(k)] /\ Saved' = [k \in 1 .. n - 1 |-> ViewUpTo(k)']
      BY <1>0, <2>1, <2>2, <2>3, SavedAtOnce, SavedAtOnceNext
    <3> QED
      BY <3>2, <3>3
  <2> QED
    BY <1>0, <2>1, <2>2, <2>3, <2>4, <2>5 DEF Seen, Mode, Stopped
<1>4. CASE ImmediateApply
  <2>1. /\ pc = "immediate_apply" /\ pc' = "run" /\ child' = child
        /\ next = 1 /\ next' = 1 /\ Len(deftab) >= 1 /\ deftab' = Tail(deftab)
    BY <1>0, <1>4 DEF ImmediateApply, ApplyTo, Stopped, PcInv
  <2>2. /\ Len(deftab') = Len(deftab) - 1
        /\ \A k \in next .. Len(deftab) : ViewUpTo(k - 1)' = ViewUpTo(k)
    BY <1>0, <1>4, <2>1, ApplyView DEF ImmediateApply
  <2>3. PICK n \in Nat : n = Len(deftab) - 1 /\ n + 1 \in next .. Len(deftab) /\ n + 1 = Len(deftab)
    <3>1. /\ Len(deftab) - 1 \in Nat /\ (Len(deftab) - 1) + 1 = Len(deftab)
          /\ Len(deftab) \in next .. Len(deftab)
      BY <1>0, <2>1
    <3> QED
      BY <3>1
  <2>4. View' = View
    <3>1. View' = ViewUpTo(n)' /\ View = ViewUpTo(n + 1)
      BY <2>2, <2>3 DEF View
    <3>2. ViewUpTo(n + 1 - 1)' = ViewUpTo(n + 1) /\ n + 1 - 1 = n
      BY <2>2, <2>3
    <3> QED
      BY <3>1, <3>2
  <2>5. Saved' = Saved
    <3>1. \A k \in 1 .. n : k \in next .. Len(deftab)
      BY <2>1, <2>3
    <3>2. \A k \in 1 .. n : ViewUpTo(k - 1)' = ViewUpTo(k)
      BY <2>2, <3>1
    <3>3. Saved = [k \in 1 .. n |-> ViewUpTo(k)]
      BY <1>0, <2>1, <2>3, SavedAtOnce
    <3>4. Saved' = [k \in 1 .. n |-> ViewUpTo(k - 1)']
      BY <1>0, <2>1, <2>2, <2>3 DEF Saved, Stopped, defcount
    <3> QED
      BY <3>2, <3>3, <3>4
  <2> QED
    BY <1>0, <2>1, <2>4, <2>5 DEF Seen, Mode, Stopped
<1> QED
  BY <1>1, <1>2, <1>3, <1>4

LEMMA StepRefines ==
  ASSUME IInv, IInv', StdInv, ~ Overtaken', [Next]_vars
  PROVE  [Abstract!AbsNext]_(Abstract!absVars)
<1> DEFINE Step == Abstract!AbsNext
<1> DEFINE Same == UNCHANGED <<Seen, Saved, Mode>>
<1>0. TypeOK /\ File \subseteq Content
  BY DEF IInv, Content
<1>1. \A u \in UserFd : (\E c \in Content : Abstract!Begin(u, c) \/ Abstract!Set(u, c)) => Step
  BY DEF Abstract!AbsNext, Content, Abstract!Content
<1>2. Abstract!End \/ Abstract!Child \/ Abstract!Ready \/ Abstract!GiveUp => Step
  BY DEF Abstract!AbsNext
<1>a. CASE Stopped'
  BY <1>2, <1>a, GiveUpRefines
<1>b. CASE ~ Stopped'
  <2>1. failed => failed'
    BY DEF Next, Redirecting, Reading, Forking, AtOnce, OpenRedir, DupRedir, CloseRedir, Catch,
       Leave, OpenInput, EndOfInput, CloseInput, Fork, Release, Apply, CloseOnFork, Unwind,
       OpenNow, DupNow, CloseNow, Immediate, ImmediateRelease, ImmediateApply, Throw, vars
  <2>2. ~ failed' /\ ~ failed /\ StdOpen
    BY <1>b, <2>1 DEF Stopped, StdInv
  <2>3. ASSUME NEW u \in UserFd, NEW f \in File, OpenRedir(u, f) PROVE Step
    <3>1. PICK r \in Fd : /\ table[r] = Closed /\ table' = [table EXCEPT ![r] = f]
                          /\ PushDefer(r, u)
      BY <2>3 DEF OpenRedir, IsLowestFree
    <3>2. r # None /\ f \in Content
      BY <1>0 DEF Fd, None
    <3>3. \E c \in Content : Abstract!Begin(u, c)
      BY <2>2, <2>3, <3>1, <3>2, BeginRefines DEF OpenRedir
    <3> QED
      BY <1>1, <3>3
  <2>4. ASSUME NEW u \in UserFd, NEW src \in UserFd, DupRedir(u, src) PROVE Step
    <3>1. PICK r \in Fd : /\ table[r] = Closed /\ table' = [table EXCEPT ![r] = table[fdmap(src)]]
                          /\ PushDefer(r, u)
      BY <2>4 DEF DupRedir, IsLowestFree
    <3>2. r # None /\ table[fdmap(src)] \in Content
      BY <1>0, <2>4 DEF DupRedir, TypeOK, Fd, None
    <3>3. \E c \in Content : Abstract!Begin(u, c)
      BY <2>2, <2>4, <3>1, <3>2, BeginRefines DEF DupRedir
    <3> QED
      BY <1>1, <3>3
  <2>5. ASSUME NEW u \in UserFd, CloseRedir(u) PROVE Step
    <3>1. \E c \in Content : Abstract!Begin(u, c)
      BY <2>2, <2>5, BeginRefines DEF CloseRedir
    <3> QED
      BY <1>1, <3>1
  <2>6. ASSUME NEW u \in UserFd, NEW f \in File, OpenNow(u, f) PROVE Step
    <3>1. PICK r \in Fd : /\ table[r] = Closed /\ table' = [table EXCEPT ![r] = f]
                          /\ Immediate(r, u)
      BY <2>6 DEF OpenNow, IsLowestFree
    <3>2. r # None /\ f \in Content
      BY <1>0 DEF Fd, None
    <3>3. \E c \in Content : Abstract!Set(u, c)
      BY <2>2, <2>6, <3>1, <3>2, NowRefines DEF OpenNow
    <3> QED
      BY <1>1, <3>3
  <2>7. ASSUME NEW u \in UserFd, NEW src \in UserFd, DupNow(u, src) PROVE Step
    <3>1. PICK r \in Fd : /\ table[r] = Closed /\ table' = [table EXCEPT ![r] = table[fdmap(src)]]
                          /\ Immediate(r, u)
      BY <2>7 DEF DupNow, IsLowestFree
    <3>2. r # None /\ table[fdmap(src)] \in Content
      BY <1>0, <2>7 DEF DupNow, TypeOK, Fd, None
    <3>3. \E c \in Content : Abstract!Set(u, c)
      BY <2>2, <2>7, <3>1, <3>2, NowRefines DEF DupNow
    <3> QED
      BY <1>1, <3>3
  <2>8. ASSUME NEW u \in UserFd, CloseNow(u) PROVE Step
    <3>1. \E c \in Content : Abstract!Set(u, c)
      BY <2>2, <2>8, NowRefines DEF CloseNow
    <3> QED
      BY <1>1, <3>1
  <2>9. CASE Catch
    <3>1. pc = "run" /\ UNCHANGED <<table, deftab, fdvar, registered, child, pc, next, failed>>
      BY <2>9 DEF Catch, Parent
    <3>2. View' = View /\ Saved' = Saved
      BY <3>1 DEF View, Saved, Stopped, defcount, ViewUpTo, Base, ContentOf, OwnedDefer, OwnedInternal, EntryFd,
         InputFd, Pending, LastFor
    <3>3. Same
      BY <3>1, <3>2 DEF Seen, Mode, Stopped
    <3> QED
      BY <3>3 DEF Abstract!absVars
  <2>10. CASE Unwind
    BY <1>b, <2>10 DEF Unwind, Stopped
  <2>11. CASE Leave
    BY <1>2, <2>2, <2>11, LeaveRefines DEF Abstract!absVars
  <2>12. CASE Reading
    BY <2>2, <2>12, ReadingRefines DEF Abstract!absVars
  <2>13. CASE Fork \/ CloseOnFork
    BY <1>2, <2>2, <2>13, ForkRefines, ReadyRefines
  <2>14. CASE Release \/ Apply \/ ImmediateRelease \/ ImmediateApply
    BY <1>b, <2>2, <2>14, DeferredRefines DEF Abstract!absVars
  <2>15. CASE UNCHANGED vars
    <3>1. Same
      BY <2>15 DEF vars, Seen, Saved, Mode, Stopped, defcount, View, ViewUpTo, Base, ContentOf, OwnedDefer,
         OwnedInternal, EntryFd, InputFd, Pending, LastFor
    <3> QED
      BY <3>1 DEF Abstract!absVars
  <2>16. CASE Throw
    <3>1. pc = "throw"
      BY <2>16 DEF Throw
    <3>2. failed
      BY <3>1 DEF IInv, PcInv
    <3> QED
      BY <2>2, <3>2
  <2> QED
    BY <2>3, <2>4, <2>5, <2>6, <2>7, <2>8, <2>9, <2>10, <2>11, <2>12, <2>13, <2>14, <2>15, <2>16
       DEF Next, Redirecting, Forking, AtOnce
<1> QED
  BY <1>a, <1>b

\* Where the program closes none of descriptors 0-2, and does nothing at once
\* to a descriptor that a redirection still deferred around it names (only
\* $&exec can): for as long as every descriptor asked for could be had,
\* redirections last as long as their commands, those by exec stay, and a
\* child starts from what those around the fork add up to, without any of
\* the shell's own descriptors.  (fd.c: the comment before deftab, closefds)
THEOREM RedirectImplemented ==
  ASSUME Closable \cap Std = {} PROVE Spec /\ []~ Overtaken => Refines
<1>1. Init => Abstract!AbsInit
  BY InitRefines
<1>2. Spec => []StdInv
  <2>1. Init => StdInv
    BY InitStd DEF StdInv
  <2>2. IInv /\ IInv' /\ StdInv /\ [Next]_vars => StdInv'
    BY NextStd
  <2> QED
    BY <2>1, <2>2, Invariance, PTL DEF Spec
<1>3. IInv /\ IInv' /\ StdInv /\ ~ Overtaken' /\ [Next]_vars
        => [Abstract!AbsNext]_(Abstract!absVars)
  BY StepRefines
<1> QED
  BY <1>1, <1>2, <1>3, Invariance, PTL DEF Spec, Refines, Abstract!AbsSpec
=============================================================================
