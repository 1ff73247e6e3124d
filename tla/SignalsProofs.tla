--------------------------- MODULE SignalsProofs ----------------------------
(***************************************************************************)
(* Proof that sigchk() never runs off the table of caught signals, for any *)
(* number of signals and any nesting of handlers.                          *)
(***************************************************************************)
EXTENDS Signals, SequenceTheorems, FiniteSetTheorems, TLAPS

\* The signals counted are finitely many.
LEMMA CountedFinite ==
  ASSUME TypeOK
  PROVE  /\ IsFiniteSet(Sig) /\ IsFiniteSet(Counted)
         /\ Cardinality(Counted) \in Nat
<1>1. IsFiniteSet(Sig)
  BY SignalsAssumption, FS_Interval DEF Sig
<1>2. Counted \subseteq Sig
  BY DEF Counted, Caught
<1> QED
  BY <1>1, <1>2, FS_Subset, FS_CardinalityType

\* A count that does not grow is right while the set it counts does not shrink.
LEMMA CountGrows ==
  ASSUME TypeOK, TypeOK', CountInv, sigcount' <= sigcount,
         Counted \subseteq Counted'
  PROVE  CountInv'
<1>1. IsFiniteSet(Sig) /\ Counted' \subseteq Sig
  BY CountedFinite DEF Counted, Caught
<1>2. IsFiniteSet(Counted')
  BY <1>1, FS_Subset
<1>3. Cardinality(Counted) <= Cardinality(Counted')
  BY <1>2, FS_Subset
<1>4. Cardinality(Counted) \in Nat /\ Cardinality(Counted') \in Nat
  BY <1>2, CountedFinite, FS_CardinalityType
<1> QED
  BY <1>3, <1>4 DEF CountInv, TypeOK

\* What the innermost activation of catcher() is.
LEMMA TopFacts ==
  ASSUME TypeOK, catchers # << >>
  PROVE  /\ Len(catchers) \in Nat \ {0}
         /\ Len(catchers) \in 1 .. Len(catchers)
         /\ Top \in Activation
         /\ \A i \in 1 .. Len(catchers) : catchers[i] \in Activation
<1>1. Len(catchers) \in Nat \ {0}
  BY EmptySeq DEF TypeOK
<1>2. \A i \in 1 .. Len(catchers) : catchers[i] \in Activation
  BY ElementOfSeq DEF TypeOK
<1> QED
  BY <1>1, <1>2 DEF Top

\* Continuing an activation changes its place and register only.
LEMMA ContinueFacts ==
  ASSUME TypeOK, catchers # << >>,
         NEW at \in {"load", "store", "finish"}, NEW r \in Nat,
         Continue(at, r)
  PROVE  /\ catchers' \in Seq(Activation)
         /\ Len(catchers') = Len(catchers)
         /\ \A i \in 1 .. Len(catchers) :
              /\ catchers'[i].sig = catchers[i].sig
              /\ i # Len(catchers) => catchers'[i] = catchers[i]
         /\ catchers'[Len(catchers)].at = at
         /\ catchers'[Len(catchers)].reg = r
<1> DEFINE n == Len(catchers)
           new == [[catchers[n] EXCEPT !.at = at] EXCEPT !.reg = r]
<1>1. n \in 1 .. n /\ catchers[n] \in Activation /\ catchers \in Seq(Activation)
  BY TopFacts DEF TypeOK
<1>2. new \in Activation /\ new.sig = catchers[n].sig /\ new.at = at /\ new.reg = r
  BY <1>1 DEF Activation
<1>3. catchers' = [catchers EXCEPT ![n] = new]
  BY <1>1 DEF Continue
<1> QED
  BY <1>1, <1>2, <1>3, ExceptSeq

LEMMA InitIInv == Init => IInv
<1> SUFFICES ASSUME Init PROVE IInv
  OBVIOUS
<1>1. TypeOK
  <2>1. \A e \in Effects : dispositionOf(e) \in {"default", "ignore", "catcher"}
    BY DEF Effects, dispositionOf, Catching
  <2>2. /\ sigeffect \in [Sig -> Effects]
        /\ disposition \in [Sig -> {"default", "ignore", "catcher"}]
    BY <2>1, SignalsAssumption DEF Init
  <2>3. catchers \in Seq(Activation)
    BY EmptySeq DEF Init
  <2>4. pc \in PC /\ sig \in 0 .. NSIG /\ blocked \in 0 .. MaxBlock
    BY SignalsAssumption DEF Init, PC
  <2> QED
    BY <2>2, <2>3, <2>4 DEF Init, TypeOK
<1>2. CountInv
  BY <1>1, CountedFinite DEF CountInv, Init
<1>3. LoadedInv /\ ScanInv /\ SigchkFinds
  BY DEF Init, LoadedInv, ScanInv, SigchkFinds
<1> QED
  BY <1>1, <1>2, <1>3 DEF IInv

-----------------------------------------------------------------------------
(* catcher()                                                               *)

LEMMA ArriveIInv == ASSUME IInv, NEW s \in Sig, Arrive(s) PROVE IInv'
<1> DEFINE n == Len(catchers)
           a == [sig |-> s, at |-> "note", reg |-> 0]
<1>0. /\ TypeOK /\ CountInv /\ LoadedInv /\ ScanInv /\ SigchkFinds
      /\ UNCHANGED <<sigeffect, disposition, caught, sigcount, blocked, slow,
                     interrupted, hasforked, pc, sig, reg, thrown>>
  BY DEF IInv, Arrive
<1>1. /\ catchers' \in Seq(Activation) /\ n \in Nat
      /\ Len(catchers') = n + 1
      /\ \A i \in 1 .. n : catchers'[i] = catchers[i]
      /\ catchers'[n + 1] = a
  BY <1>0 DEF TypeOK, Arrive, Activation
<1>2. TypeOK'
  BY <1>0, <1>1 DEF TypeOK
<1>3. Counting' = Counting
  BY <1>1 DEF Counting
<1>4. Counted' = Counted
  BY <1>0, <1>3 DEF Counted, Caught
<1>5. CountInv' /\ ScanInv' /\ SigchkFinds'
  BY <1>0, <1>3, <1>4 DEF CountInv, ScanInv, SigchkFinds
<1>6. LoadedInv'
  <2>1. \A i \in 1 .. n : catchers[i].sig # s
    BY DEF Arrive, Masked
  <2> QED
    BY SMTT(30), <1>0, <1>1, <2>1 DEF LoadedInv
<1> QED
  BY <1>2, <1>5, <1>6 DEF IInv

\* The part of LoadedInv that only one activation's progress could disturb.
LEMMA ContinueLoaded ==
  ASSUME TypeOK, LoadedInv, catchers # << >>,
         NEW at \in {"load", "store", "finish"}, NEW r \in Nat,
         Continue(at, r), UNCHANGED <<pc, reg>>,
         sigcount' \in Nat, \A s \in Sig : caught[s] => caught'[s],
         \A i \in 1 .. Len(catchers) - 1 :
           catchers[i].at = "store" => catchers[i].reg <= sigcount',
         at = "store" => r = sigcount',
         at # "finish" => caught'[Top.sig],
         pc = "store" => reg <= sigcount'
  PROVE  LoadedInv'
<1> DEFINE n == Len(catchers)
<1>1. /\ Len(catchers') = n
      /\ \A i \in 1 .. n : /\ catchers'[i].sig = catchers[i].sig
                           /\ i # n => catchers'[i] = catchers[i]
      /\ catchers'[n].at = at
      /\ catchers'[n].reg = r
  BY ContinueFacts
<1>2. n \in Nat \ {0} /\ \A i \in 1 .. n : catchers[i] \in Activation
  BY TopFacts
<1>3. \A i \in 1 .. n : catchers'[i].at = "store" => catchers'[i].reg <= sigcount'
  BY <1>1, <1>2
<1>4. \A i \in 1 .. n : catchers'[i].at \in {"load", "store"}
                          => caught'[catchers'[i].sig]
  <2> SUFFICES ASSUME NEW i \in 1 .. n, catchers'[i].at \in {"load", "store"}
               PROVE  caught'[catchers'[i].sig]
    OBVIOUS
  <2>1. CASE i = n
    BY <1>1, <2>1 DEF Top
  <2>2. CASE i # n
    <3>1. catchers[i].sig \in Sig
      BY <1>2 DEF Activation
    <3> QED
      BY <1>1, <2>2, <3>1 DEF LoadedInv
  <2> QED
    BY <2>1, <2>2
<1>5. \A i, j \in 1 .. n : catchers'[i].sig = catchers'[j].sig => i = j
  BY <1>1 DEF LoadedInv
<1>6. \A i, j \in 1 .. n :
        i < j /\ catchers'[i].at = "store" /\ catchers'[j].at = "store"
          => catchers'[i].reg <= catchers'[j].reg
  <2> SUFFICES ASSUME NEW i \in 1 .. n, NEW j \in 1 .. n, i < j,
                      catchers'[i].at = "store", catchers'[j].at = "store"
               PROVE  catchers'[i].reg <= catchers'[j].reg
    OBVIOUS
  <2>1. i # n /\ catchers'[i] = catchers[i] /\ i \in 1 .. n - 1
    BY <1>1, <1>2
  <2>2. CASE j = n
    BY <1>1, <2>1, <2>2
  <2>3. CASE j # n
    BY <1>1, <2>1, <2>3 DEF LoadedInv
  <2> QED
    BY <2>2, <2>3
<1>7. pc = "store" =>
        \A i \in 1 .. n : catchers'[i].at = "store" => reg <= catchers'[i].reg
  <2> SUFFICES ASSUME pc = "store", NEW i \in 1 .. n, catchers'[i].at = "store"
               PROVE  reg <= catchers'[i].reg
    OBVIOUS
  <2>1. CASE i = n
    BY <1>1, <2>1
  <2>2. CASE i # n
    BY <1>1, <2>2 DEF LoadedInv
  <2> QED
    BY <2>1, <2>2
<1>8. pc' = "store" => reg' <= sigcount' /\ 0 < reg'
  BY DEF LoadedInv
<1> QED
  BY <1>1, <1>3, <1>4, <1>5, <1>6, <1>7, <1>8 DEF LoadedInv

\* Which signals are being counted when the innermost activation goes on.
LEMMA ContinueCounting ==
  ASSUME TypeOK, LoadedInv, catchers # << >>,
         NEW at \in {"load", "store", "finish"}, NEW r \in Nat,
         Continue(at, r)
  PROVE  /\ at \in {"load", "store"} => Counting' = Counting \cup {Top.sig}
         /\ at = "finish" => Counting' = Counting \ {Top.sig}
<1> DEFINE n == Len(catchers)
<1>1. /\ Len(catchers') = n
      /\ \A i \in 1 .. n : /\ catchers'[i].sig = catchers[i].sig
                           /\ i # n => catchers'[i] = catchers[i]
      /\ catchers'[n].at = at
      /\ n \in 1 .. n
      /\ Top.sig = catchers[n].sig
  BY ContinueFacts, TopFacts DEF Top
<1>2. \A s : s \in Counting <=> \E i \in 1 .. n : /\ catchers[i].sig = s
                                   /\ catchers[i].at \in {"load", "store"}
  BY DEF Counting
<1>3. \A s : s \in Counting' <=> \E i \in 1 .. n : /\ catchers'[i].sig = s
                                   /\ catchers'[i].at \in {"load", "store"}
  BY <1>1 DEF Counting
<1>4. \A i \in 1 .. n : i # n => catchers[i].sig # Top.sig
  BY <1>1 DEF LoadedInv
<1>5. \A s : s # Top.sig => (s \in Counting' <=> s \in Counting)
  BY <1>1, <1>2, <1>3
<1>6. Top.sig \in Counting' <=> at \in {"load", "store"}
  BY <1>1, <1>3, <1>4
<1> QED
  BY <1>5, <1>6

LEMMA NoteIInv == ASSUME IInv, Note PROVE IInv'
<1>0. /\ TypeOK /\ CountInv /\ LoadedInv /\ ScanInv /\ SigchkFinds
      /\ catchers # << >> /\ Top.at = "note" /\ pc # "exited"
      /\ UNCHANGED <<sigeffect, disposition, sigcount, blocked, slow,
                     interrupted, hasforked, sig, reg, thrown>>
  BY DEF IInv, Note, TopAt
<1>1. CASE hasforked
  <2>1. pc' = "exited" /\ UNCHANGED <<caught, catchers>>
    BY <1>1 DEF Note
  <2>2. TypeOK'
    BY <1>0, <2>1 DEF TypeOK, PC
  <2>3. Counted \subseteq Counted'
    BY <1>0, <2>1 DEF Counted, Caught, Counting
  <2>4. CountInv'
    BY <1>0, <2>2, <2>3, CountGrows DEF TypeOK
  <2> QED
    BY <1>0, <2>1, <2>2, <2>4 DEF IInv, LoadedInv, ScanInv, SigchkFinds
<1>2. CASE ~ hasforked
  <2> DEFINE s == Top.sig
             at == IF caught[s] THEN "finish" ELSE "load"
  <2>1. /\ caught' = [caught EXCEPT ![s] = TRUE]
        /\ Continue(at, 0) /\ at \in {"load", "store", "finish"}
        /\ UNCHANGED pc
    BY <1>2 DEF Note
  <2>2. s \in Sig
    BY <1>0, TopFacts DEF Activation
  <2>3. caught' \in [Sig -> BOOLEAN] /\ Caught' = Caught \cup {s}
    BY <1>0, <2>1, <2>2 DEF TypeOK, Caught
  <2>4. TypeOK'
    BY <1>0, <2>1, <2>3, ContinueFacts DEF TypeOK
  <2>5. Counting' = IF caught[s] THEN Counting \ {s} ELSE Counting \cup {s}
    BY <1>0, <2>1, ContinueCounting
  <2>6. s \notin Counting
    <3>1. \A i \in 1 .. Len(catchers) :
            catchers[i].sig = s => i = Len(catchers)
      BY <1>0, TopFacts DEF LoadedInv, Top
    <3> QED
      BY <1>0, <3>1 DEF Counting, Top
  <2>7. Counted \subseteq Counted'
    <3>1. \A x \in Counted : x \in Caught' /\ x \notin Counting'
      BY <2>3, <2>5 DEF Counted, Caught
    <3> QED
      BY <1>0, <2>1, <3>1 DEF Counted
  <2>8. CountInv'
    BY <1>0, <2>4, <2>7, CountGrows DEF TypeOK
  <2>9. LoadedInv'
    <3>1. /\ \A x \in Sig : caught[x] => caught'[x]
          /\ caught'[s]
      BY <1>0, <2>1, <2>2 DEF TypeOK
    <3>2. /\ sigcount' \in Nat /\ 0 \in Nat
          /\ \A i \in 1 .. Len(catchers) - 1 :
               catchers[i].at = "store" => catchers[i].reg <= sigcount'
          /\ pc = "store" => reg <= sigcount'
      <4>1. Len(catchers) \in Nat
        BY <1>0, TopFacts
      <4> QED
        BY <1>0, <4>1 DEF LoadedInv, TypeOK
    <3>3. (at = "store" => 0 = sigcount') /\ UNCHANGED <<pc, reg>>
      BY <1>0, <2>1
    <3> QED
      BY <1>0, <2>1, <3>1, <3>2, <3>3, ContinueLoaded
  <2>10. ScanInv' /\ SigchkFinds'
    <3>1. pc \in {"load", "store", "clear"} => sig \in Sig /\ caught[sig]
      BY <1>0 DEF ScanInv
    <3>2. \A x \in Sig : caught[x] => caught'[x]
      BY <1>0, <2>1, <2>2 DEF TypeOK
    <3>3. pc \in {"load", "store", "clear"} => sig \notin Counting'
      BY <1>0, <2>5, <3>1 DEF ScanInv
    <3>4. pc = "scan" => \E x \in Sig : x >= sig /\ caught'[x]
      BY <1>0, <3>2 DEF ScanInv
    <3> QED
      BY <1>0, <2>1, <3>1, <3>2, <3>3, <3>4 DEF ScanInv, SigchkFinds
  <2> QED
    BY <2>4, <2>8, <2>9, <2>10 DEF IInv
<1> QED
  BY <1>1, <1>2

LEMMA LoadCountIInv == ASSUME IInv, LoadCount PROVE IInv'
<1>0. /\ TypeOK /\ CountInv /\ LoadedInv /\ ScanInv /\ SigchkFinds
      /\ catchers # << >> /\ Top.at = "load" /\ Continue("store", sigcount)
      /\ UNCHANGED <<sigeffect, disposition, caught, sigcount, blocked, slow,
                     interrupted, hasforked, pc, sig, reg, thrown>>
      /\ sigcount \in Nat
  BY DEF IInv, LoadCount, TopAt, TypeOK
<1>1. TypeOK'
  BY <1>0, ContinueFacts DEF TypeOK
<1>2. Top.sig \in Counting /\ caught[Top.sig] /\ Len(catchers) \in Nat
  BY <1>0, TopFacts DEF Counting, LoadedInv, Top
<1>3. Counting' = Counting
  BY <1>0, <1>2, ContinueCounting
<1>4. CountInv' /\ ScanInv' /\ SigchkFinds'
  BY <1>0, <1>3 DEF CountInv, Counted, Caught, ScanInv, SigchkFinds
<1>5. LoadedInv'
  <2>1. \A i \in 1 .. Len(catchers) - 1 :
          catchers[i].at = "store" => catchers[i].reg <= sigcount'
    BY <1>0, <1>2 DEF LoadedInv
  <2>2. pc = "store" => reg <= sigcount'
    BY <1>0 DEF LoadedInv
  <2>3. sigcount = sigcount' /\ caught'[Top.sig] /\ sigcount' \in Nat
    BY <1>0, <1>2
  <2>4. \A s \in Sig : caught[s] => caught'[s]
    BY <1>0
  <2> QED
    BY <1>0, <2>1, <2>2, <2>3, <2>4, ContinueLoaded
<1> QED
  BY <1>1, <1>4, <1>5 DEF IInv

LEMMA StoreCountIInv == ASSUME IInv, StoreCount PROVE IInv'
<1> DEFINE s == Top.sig
<1>0. /\ TypeOK /\ CountInv /\ LoadedInv /\ ScanInv /\ SigchkFinds
      /\ catchers # << >> /\ Top.at = "store" /\ Continue("finish", 0)
      /\ UNCHANGED <<sigeffect, disposition, caught, blocked, slow,
                     interrupted, hasforked, pc, sig, reg, thrown>>
      /\ sigcount' = Top.reg + 1
  BY DEF IInv, StoreCount, TopAt
<1>1. s \in Counting /\ caught[s] /\ Len(catchers) \in Nat /\ s \in Sig
      /\ Top.reg \in Nat /\ Top.reg <= sigcount /\ sigcount \in Nat
  BY <1>0, TopFacts DEF Counting, LoadedInv, Top, Activation, TypeOK
<1>2. TypeOK'
  BY <1>0, <1>1, ContinueFacts DEF TypeOK
<1>3. Counting' = Counting \ {s}
  BY <1>0, ContinueCounting
<1>4. Counted' = Counted \cup {s} /\ s \notin Counted
  <2>1. pc = "clear" => sig # s
    BY <1>0, <1>1 DEF ScanInv
  <2> QED
    BY <1>0, <1>1, <1>3, <2>1 DEF Counted, Caught
<1>5. CountInv'
  <2>1. Cardinality(Counted') = Cardinality(Counted) + 1
        /\ Cardinality(Counted) \in Nat
    BY <1>0, <1>4, CountedFinite, FS_AddElement
  <2> QED
    BY <1>0, <1>1, <2>1 DEF CountInv
<1>6. ScanInv' /\ SigchkFinds'
  BY <1>0, <1>1, <1>3 DEF ScanInv, SigchkFinds
<1>7. LoadedInv'
  <2>1. \A i \in 1 .. Len(catchers) - 1 :
          catchers[i].at = "store" => catchers[i].reg <= sigcount'
    <3> SUFFICES ASSUME NEW i \in 1 .. Len(catchers) - 1,
                        catchers[i].at = "store"
                 PROVE  catchers[i].reg <= sigcount'
      OBVIOUS
    <3>1. /\ i \in 1 .. Len(catchers) /\ i < Len(catchers)
          /\ Len(catchers) \in 1 .. Len(catchers)
      BY <1>1
    <3>2. catchers[i].reg <= Top.reg
      BY <1>0, <3>1 DEF LoadedInv, Top
    <3>3. catchers[i].reg \in Nat
      BY <1>0, <3>1, TopFacts DEF Activation
    <3> QED
      BY <1>0, <1>1, <3>2, <3>3
  <2>2. pc = "store" => reg <= sigcount'
    <3>1. Len(catchers) \in 1 .. Len(catchers)
      BY <1>1, <1>0, TopFacts
    <3>2. pc = "store" => reg <= Top.reg
      BY <1>0, <3>1 DEF LoadedInv, Top
    <3> QED
      BY <1>0, <1>1, <3>2 DEF TypeOK
  <2>3. sigcount' \in Nat /\ 0 \in Nat
    BY <1>0, <1>1
  <2>4. \A x \in Sig : caught[x] => caught'[x]
    BY <1>0
  <2> QED
    BY <1>0, <2>1, <2>2, <2>3, <2>4, ContinueLoaded
<1> QED
  BY <1>2, <1>5, <1>6, <1>7 DEF IInv

LEMMA FinishIInv == ASSUME IInv, Finish PROVE IInv'
<1>0. /\ TypeOK /\ CountInv /\ LoadedInv /\ ScanInv /\ SigchkFinds
      /\ catchers # << >> /\ Top.at = "finish" /\ pc # "exited"
      /\ UNCHANGED <<sigeffect, disposition, caught, sigcount, blocked, slow,
                     hasforked, sig, reg, thrown>>
      /\ catchers' = IF slow THEN << >> ELSE Front(catchers)
      /\ pc' = IF slow THEN "leave" ELSE pc
      /\ interrupted' = TRUE
  BY DEF IInv, Finish, TopAt
<1>1. /\ catchers' \in Seq(Activation)
      /\ Len(catchers') \in Nat /\ Len(catchers') <= Len(catchers)
      /\ Len(catchers) \in Nat
      /\ \A i \in 1 .. Len(catchers') :
           i \in 1 .. Len(catchers) /\ catchers'[i] = catchers[i]
  <2>1. Len(catchers) \in Nat \ {0}
    BY <1>0, TopFacts
  <2>2. CASE slow
    BY <1>0, <2>1, <2>2, EmptySeq
  <2>3. CASE ~ slow
    <3>1. /\ Front(catchers) = SubSeq(catchers, 1, Len(catchers) - 1)
          /\ catchers' = Front(catchers)
      BY <1>0, <2>3 DEF Front
    <3> DEFINE n == Len(catchers) - 1
    <3>2. n \in Nat
      BY <2>1
    <3>3. \A i \in 1 .. n : catchers[i] \in Activation
      BY <1>0, <2>1, TopFacts
    <3> HIDE DEF n
    <3>4. /\ SubSeq(catchers, 1, n) \in Seq(Activation)
          /\ Len(SubSeq(catchers, 1, n)) = IF 1 <= n THEN n - 1 + 1 ELSE 0
          /\ \A i \in 1 .. n - 1 + 1 : SubSeq(catchers, 1, n)[i] = catchers[1 + i - 1]
      <4>1. 1 \in Int /\ n \in Int
        BY <3>2
      <4> QED
        BY <3>3, <4>1, SubSeqProperties
    <3>5. catchers' = SubSeq(catchers, 1, n)
      BY <3>1 DEF n
    <3>6. /\ catchers' \in Seq(Activation) /\ Len(catchers') = n
          /\ \A i \in 1 .. n : catchers'[i] = catchers[i]
      BY <3>2, <3>4, <3>5
    <3> QED
      BY <2>1, <3>6 DEF n
  <2> QED
    BY <2>2, <2>3
<1>2. TypeOK'
  <2>1. pc' \in PC
    BY <1>0 DEF TypeOK, PC
  <2> QED
    BY <1>0, <1>1, <2>1 DEF TypeOK
<1>3. Counting' \subseteq Counting
  BY <1>1 DEF Counting
<1>4. Counted \subseteq Counted'
  BY <1>0, <1>3 DEF Counted, Caught
<1>5. CountInv'
  BY <1>0, <1>2, <1>4, CountGrows DEF TypeOK
<1>6. LoadedInv'
  BY <1>0, <1>1 DEF LoadedInv
<1>7. ScanInv' /\ SigchkFinds'
  BY <1>0, <1>3 DEF ScanInv, SigchkFinds
<1> QED
  BY <1>2, <1>5, <1>6, <1>7 DEF IInv

-----------------------------------------------------------------------------
(* The shell's own steps: no handler is running.                           *)

LEMMA NoHandlers ==
  ASSUME TypeOK, catchers = << >>
  PROVE  /\ Counting = {}
         /\ Len(catchers) = 0
<1>1. Len(catchers) = 0
  BY EmptySeq
<1> QED
  BY <1>1 DEF Counting

\* Steps outside the scan and the decrement.
LEMMA QuietIInv ==
  ASSUME IInv, TypeOK', catchers = << >>,
         UNCHANGED <<caught, sigcount, catchers>>,
         pc' \notin {"scan", "load", "store", "clear", "overrun"},
         pc' \in {"deliver", "defaults"} => sig' \in Sig
  PROVE  IInv'
<1>1. Counted \subseteq Counted'
  BY DEF IInv, Counted, Caught, Counting
<1>2. CountInv'
  BY <1>1, CountGrows DEF IInv, TypeOK
<1>3. LoadedInv' /\ ScanInv' /\ SigchkFinds'
  BY NoHandlers DEF IInv, LoadedInv, ScanInv, SigchkFinds
<1> QED
  BY <1>2, <1>3 DEF IInv

LEMMA QuietSteps ==
  ASSUME IInv,
         \/ CheckSignals \/ Deliver \/ CatchException \/ unblocksignals
         \/ EnterCall \/ Calling \/ CallReturns \/ Fork \/ setsigdefaults
         \/ \E s \in Sig, e \in Effect : SetSignal(s, e)
  PROVE  IInv'
<1>0. TypeOK
  BY DEF IInv
<1>1. ASSUME catchers = << >>, UNCHANGED <<caught, sigcount, catchers>>,
             pc' \notin {"scan", "load", "store", "clear", "overrun"}, TypeOK',
             pc' \in {"deliver", "defaults"} => sig' \in Sig
      PROVE  IInv'
  BY <1>1, QuietIInv
<1>2. CASE CheckSignals
  BY <1>0, <1>1, <1>2 DEF CheckSignals, ShellAt, TypeOK, PC
<1>3. CASE Deliver
  <2>1. thrown' \in {0} \cup Sig
    BY <1>0, <1>3 DEF Deliver, ShellAt, TypeOK, Sig, IInv, ScanInv
  <2> QED
    BY <1>0, <1>1, <1>3, <2>1 DEF Deliver, ShellAt, TypeOK, PC
<1>4. CASE CatchException
  <2>1. blocked' \in 0 .. MaxBlock
    BY <1>0, <1>4, SignalsAssumption DEF CatchException, TypeOK
  <2> QED
    BY <1>0, <1>1, <1>4, <2>1 DEF CatchException, ShellAt, TypeOK, PC
<1>5. CASE unblocksignals
  <2>1. blocked' \in 0 .. MaxBlock
    BY <1>0, <1>5, SignalsAssumption DEF unblocksignals, TypeOK
  <2> QED
    BY <1>0, <1>1, <1>5, <2>1 DEF unblocksignals, ShellAt, TypeOK, PC
<1>6. CASE EnterCall
  BY <1>0, <1>1, <1>6 DEF EnterCall, ShellAt, TypeOK, PC
<1>7. CASE Calling
  <2>1. CASE ClearInterrupted
    BY <1>0, <1>1, <2>1 DEF ClearInterrupted, ShellAt, TypeOK, PC
  <2>2. CASE SetSlow
    BY <1>0, <1>1, <2>2 DEF SetSlow, ShellAt, TypeOK, PC
  <2>3. CASE TestInterrupted
    BY <1>0, <1>1, <2>3 DEF TestInterrupted, ShellAt, TypeOK, PC
  <2>4. CASE LeaveCall
    BY <1>0, <1>1, <2>4 DEF LeaveCall, ShellAt, TypeOK, PC
  <2> QED
    BY <1>7, <2>1, <2>2, <2>3, <2>4 DEF Calling
<1>8. CASE CallReturns
  BY <1>0, <1>1, <1>8 DEF CallReturns, ShellAt, TypeOK, PC
<1>9. CASE Fork
  <2>1. sig' \in 0 .. NSIG /\ sig' \in Sig
    BY <1>9, SignalsAssumption DEF Fork, Sig
  <2> QED
    BY <1>0, <1>1, <1>9, <2>1 DEF Fork, ShellAt, TypeOK, PC
<1>10. ASSUME NEW s \in Sig, NEW e \in Effects, esignal(s, e)
       PROVE  /\ sigeffect' \in [Sig -> Effects]
              /\ disposition' \in [Sig -> {"default", "ignore", "catcher"}]
  <2>1. dispositionOf(e) \in {"default", "ignore", "catcher"}
    BY DEF Effects, dispositionOf, Catching
  <2> QED
    BY <1>0, <1>10, <2>1 DEF esignal, TypeOK
<1>11. CASE setsigdefaults
  <2>1. sig \in Sig
    BY <1>0, <1>11 DEF setsigdefaults, ShellAt, IInv, ScanInv
  <2>2. /\ sig' \in 0 .. NSIG /\ pc' \in {"run", "defaults"}
        /\ pc' = "defaults" => sig' \in Sig
    BY <1>11, <2>1, SignalsAssumption DEF setsigdefaults, Sig
  <2>3. /\ sigeffect' \in [Sig -> Effects]
        /\ disposition' \in [Sig -> {"default", "ignore", "catcher"}]
    BY <1>0, <1>10, <1>11, <2>1 DEF setsigdefaults, TypeOK, Effects
  <2>4. TypeOK'
    BY <1>0, <1>11, <2>2, <2>3 DEF setsigdefaults, ShellAt, TypeOK, PC
  <2> QED
    BY <1>1, <1>11, <2>2, <2>4 DEF setsigdefaults, ShellAt
<1>12. ASSUME NEW s \in Sig, NEW e \in Effect, SetSignal(s, e) PROVE IInv'
  <2>1. e \in Effects
    BY SignalsAssumption
  <2>2. TypeOK'
    BY <1>0, <1>10, <1>12, <2>1 DEF SetSignal, TypeOK
  <2> QED
    BY <1>1, <1>12, <2>2 DEF SetSignal, ShellAt
<1> QED
  BY <1>2, <1>3, <1>4, <1>5, <1>6, <1>7, <1>8, <1>9, <1>11, <1>12

\* sigchk goes to the scan only if something is counted, hence noted.
LEMMA SigchkIInv == ASSUME IInv, sigchk PROVE IInv'
<1>0. /\ TypeOK /\ CountInv /\ LoadedInv /\ ScanInv
      /\ catchers = << >> /\ catchers' = << >> /\ pc = "sigchk" /\ sig' = 1
      /\ UNCHANGED <<caught, sigcount, catchers>>
      /\ pc' = IF sigcount = 0 \/ blocked > 0 THEN "run"
               ELSE IF hasforked THEN "exited" ELSE "scan"
  BY DEF IInv, sigchk, ShellAt
<1>1. TypeOK'
  <2>1. sig' \in 0 .. NSIG /\ pc' \in PC
    BY <1>0, SignalsAssumption DEF PC
  <2> QED
    BY <1>0, <2>1 DEF sigchk, TypeOK
<1>2. CASE pc' # "scan"
  BY <1>0, <1>1, <1>2, QuietIInv
<1>3. CASE pc' = "scan"
  <2>1. sigcount > 0 /\ sigcount \in Nat
    BY <1>0, <1>3 DEF TypeOK
  <2>2. Counted # {}
    BY <1>0, <2>1, FS_EmptySet DEF CountInv
  <2>3. \E s \in Sig : s >= 1 /\ caught[s]
    BY <2>2 DEF Counted, Caught, Sig
  <2>4. CountInv'
    <3>1. Counted \subseteq Counted'
      BY <1>0, <1>3 DEF Counted, Caught, Counting
    <3> QED
      BY <1>0, <1>1, <3>1, CountGrows DEF TypeOK
  <2> QED
    BY <1>0, <1>1, <1>3, <2>1, <2>3, <2>4, NoHandlers
       DEF IInv, LoadedInv, ScanInv, SigchkFinds
<1> QED
  BY <1>2, <1>3

\* The scan stops at a signal that is noted, before NSIG.
LEMMA ScanIInv == ASSUME IInv, Scan PROVE IInv'
<1>0. /\ TypeOK /\ CountInv /\ LoadedInv /\ ScanInv
      /\ catchers = << >> /\ catchers' = << >> /\ pc = "scan"
      /\ UNCHANGED <<caught, sigcount, catchers>>
      /\ sigcount > 0 /\ sig \in Nat
  BY DEF IInv, Scan, ShellAt, ScanInv, TypeOK
<1>1. PICK s \in Sig : s >= sig /\ caught[s]
  BY <1>0 DEF ScanInv
<1>2. sig < NSIG
  BY <1>0, <1>1, SignalsAssumption DEF Sig
<1>3. /\ pc' = IF caught[sig] THEN "load" ELSE "scan"
      /\ sig' = IF ~ caught[sig] THEN sig + 1 ELSE sig
  BY <1>2, SignalsAssumption DEF Scan
<1>4. TypeOK'
  <2>1. sig' \in 0 .. NSIG /\ pc' \in PC
    BY <1>0, <1>2, <1>3, SignalsAssumption DEF PC
  <2> QED
    BY <1>0, <2>1 DEF Scan, TypeOK
<1>5. CountInv'
  <2>1. Counted \subseteq Counted'
    BY <1>0, <1>3 DEF Counted, Caught, Counting
  <2> QED
    BY <1>0, <1>4, <2>1, CountGrows DEF TypeOK
<1>6. Counting' = {} /\ Len(catchers') = 0
  BY <1>0, <1>4, EmptySeq DEF Counting
<1>7. CASE caught[sig]
  <2>1. sig \in Sig
    BY <1>7, <1>0, <1>2, SignalsAssumption DEF ScanInv, Sig, TypeOK
  <2> QED
    BY <1>0, <1>3, <1>4, <1>5, <1>6, <1>7, <2>1
       DEF IInv, LoadedInv, ScanInv, SigchkFinds
<1>8. CASE ~ caught[sig]
  <2>1. s >= sig + 1
    BY <1>0, <1>1, <1>8, SignalsAssumption DEF Sig
  <2> QED
    BY <1>0, <1>1, <1>3, <1>4, <1>5, <1>6, <1>8, <2>1
       DEF IInv, LoadedInv, ScanInv, SigchkFinds
<1> QED
  BY <1>7, <1>8

LEMMA DecrementIInv ==
  ASSUME IInv, LoadForDecrement \/ Decrement \/ Clear PROVE IInv'
<1>0. /\ TypeOK /\ CountInv /\ LoadedInv /\ ScanInv
      /\ catchers = << >> /\ catchers' = << >>
      /\ sig \in Sig /\ caught[sig] /\ UNCHANGED sig
      /\ Counting = {} /\ sigcount \in Nat
  BY NoHandlers
     DEF IInv, LoadForDecrement, Decrement, Clear, ShellAt, ScanInv, TypeOK
<1>1. Len(catchers') = 0 /\ Counting' = {}
  BY <1>0, EmptySeq DEF Counting
<1>2. CASE LoadForDecrement
  <2>1. pc = "load" /\ pc' = "store" /\ reg' = sigcount /\ 0 < sigcount
        /\ UNCHANGED <<caught, sigcount>>
    BY <1>0, <1>2 DEF LoadForDecrement, ShellAt, ScanInv
  <2>2. TypeOK'
    BY <1>0, <1>2, <2>1 DEF LoadForDecrement, TypeOK, PC
  <2>3. Counted' = Counted
    BY <1>0, <1>1, <2>1 DEF Counted, Caught
  <2> QED
    BY <1>0, <1>1, <2>1, <2>2, <2>3
       DEF IInv, CountInv, LoadedInv, ScanInv, SigchkFinds
<1>3. CASE Decrement
  <2>1. /\ pc = "store" /\ pc' = "clear" /\ sigcount' = reg - 1
        /\ UNCHANGED <<caught, reg>> /\ 0 < reg /\ reg <= sigcount /\ reg \in Nat
    BY <1>0, <1>3 DEF Decrement, ShellAt, LoadedInv, TypeOK
  <2>2. TypeOK'
    <3>1. sigcount' \in Nat
      BY <2>1
    <3> QED
      BY <1>0, <1>3, <2>1, <3>1 DEF Decrement, TypeOK, PC
  <2>3. Counted' = Counted \ {sig} /\ sig \in Counted
    BY <1>0, <1>1, <2>1 DEF Counted, Caught
  <2>4. Cardinality(Counted') = Cardinality(Counted) - 1
        /\ Cardinality(Counted) \in Nat
    BY <1>0, <2>3, CountedFinite, FS_RemoveElement
  <2>5. CountInv'
    BY <1>0, <2>1, <2>4 DEF CountInv
  <2> QED
    BY <1>0, <1>1, <2>1, <2>2, <2>5
       DEF IInv, LoadedInv, ScanInv, SigchkFinds
<1>4. CASE Clear
  <2>1. /\ pc = "clear" /\ pc' = "deliver"
        /\ caught' = [caught EXCEPT ![sig] = FALSE] /\ UNCHANGED sigcount
    BY <1>4 DEF Clear, ShellAt
  <2>2. TypeOK'
    BY <1>0, <1>4, <2>1 DEF Clear, TypeOK, PC
  <2>3. Counted' = Counted
    BY <1>0, <1>1, <2>1 DEF Counted, Caught, TypeOK
  <2> QED
    BY <1>0, <1>1, <2>1, <2>2, <2>3
       DEF IInv, CountInv, LoadedInv, ScanInv, SigchkFinds
<1> QED
  BY <1>2, <1>3, <1>4

-----------------------------------------------------------------------------
LEMMA NextIInv == IInv /\ [Next]_vars => IInv'
<1> SUFFICES ASSUME IInv, [Next]_vars PROVE IInv'
  OBVIOUS
<1>1. CASE \E s \in Sig : Arrive(s)
  BY <1>1, ArriveIInv
<1>2. CASE Catcher
  BY <1>2, NoteIInv, LoadCountIInv, StoreCountIInv, FinishIInv DEF Catcher
<1>3. CASE Checking
  BY <1>3, SigchkIInv, ScanIInv, DecrementIInv, QuietSteps DEF Checking
<1>4. CASE \/ CheckSignals \/ CatchException \/ unblocksignals \/ EnterCall
           \/ Calling \/ CallReturns \/ Fork \/ setsigdefaults
           \/ \E s \in Sig, e \in Effect : SetSignal(s, e)
  BY <1>4, QuietSteps
<1>5. CASE UNCHANGED vars
  BY <1>5 DEF vars, IInv, TypeOK, CountInv, Counted, Caught, Counting,
     LoadedInv, ScanInv, SigchkFinds
<1> QED
  BY <1>1, <1>2, <1>3, <1>4, <1>5 DEF Next

\* However many signals are caught, in whatever nesting, and whatever updates
\* of sigcount they lose: types are kept. (signal.c)
THEOREM TypeCorrect == Spec => []TypeOK
<1>1. IInv => TypeOK
  BY DEF IInv
<1> QED
  BY <1>1, InitIInv, NextIInv, PTL DEF Spec

\* sigchk() always finds the signal it scans for: caught[] is never read past
\* its end, although the loop tests the index only after the read.
\* (signal.c: sigchk)
THEOREM ScanStaysInTable == Spec => []SigchkFinds
<1>1. IInv => SigchkFinds
  BY DEF IInv
<1> QED
  BY <1>1, InitIInv, NextIInv, PTL DEF Spec

-----------------------------------------------------------------------------
(* The setjmp, slow, interrupted protocol of the blocking calls.           *)

CallInv ==
  /\ JumpIsLive
  /\ pc \in {"blocked", "returned"} => ~ interrupted

LEMMA CallStep == CallInv /\ [Next]_vars => CallInv'
<1> SUFFICES ASSUME CallInv, [Next]_vars PROVE CallInv'
  OBVIOUS
<1> USE DEF CallInv, JumpIsLive
<1>1. CASE \E s \in Sig : Arrive(s)
  BY <1>1 DEF Arrive
<1>2. CASE Catcher
  BY <1>2 DEF Catcher, Note, LoadCount, StoreCount, Finish, TopAt
<1>3. CASE Checking
  BY <1>3 DEF Checking, sigchk, Scan, LoadForDecrement, Decrement, Clear,
     Deliver, ShellAt
<1>4. CASE CheckSignals \/ CatchException \/ unblocksignals \/ EnterCall
  BY <1>4 DEF CheckSignals, CatchException, unblocksignals, EnterCall, ShellAt
<1>5. CASE Calling \/ CallReturns
  BY <1>5 DEF Calling, ClearInterrupted, SetSlow, TestInterrupted, LeaveCall,
     CallReturns, ShellAt
<1>6. CASE Fork \/ setsigdefaults
  BY <1>6 DEF Fork, setsigdefaults, ShellAt
<1>7. CASE \E s \in Sig, e \in Effect : SetSignal(s, e)
  BY <1>7 DEF SetSignal, ShellAt
<1>8. CASE UNCHANGED vars
  BY <1>8 DEF vars
<1> QED
  BY <1>1, <1>2, <1>3, <1>4, <1>5, <1>6, <1>7, <1>8 DEF Next

\* catcher() only ever jumps into a live setjmp, and no handler returns into
\* a call that blocks. (signal.c: catcher; util.c: eread; proc.c: dowait)
THEOREM InterruptedCalls == Spec => [](JumpIsLive /\ NeverBlockedInterrupted)
<1>1. Init => CallInv
  BY DEF Init, CallInv, JumpIsLive
<1>2. CallInv => JumpIsLive /\ NeverBlockedInterrupted
  BY DEF CallInv, NeverBlockedInterrupted, ShellAt
<1> QED
  BY <1>1, <1>2, CallStep, PTL DEF Spec

\* catcher() never jumps to a label whose frame has returned. (signal.c:82;
\* util.c: eread; proc.c: dowait)
THEOREM JumpsAreLive == Spec => []JumpIsLive
  BY InterruptedCalls, PTL
=============================================================================
