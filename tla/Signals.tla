------------------------------ MODULE Signals -------------------------------
(***************************************************************************)
(* Signals (signal.c) and the slow system calls they interrupt (eread in   *)
(* util.c, dowait in proc.c, callreadline in input.c).                     *)
(*                                                                         *)
(* The kernel runs catcher() between any two steps of the shell, also on   *)
(* top of the catcher of another signal: sa_mask is empty, so only the     *)
(* signal being handled is masked.  catcher() only notes the signal in     *)
(* caught[] and sigcount; sigchk(), called by the shell where it is safe,  *)
(* turns the note into an exception.  ++ and -- on the volatile sigcount   *)
(* are a load and a store.  A system call that may block is entered with   *)
(* slow set, and then catcher() leaves it with a longjmp.                  *)
(*                                                                         *)
(* One process is followed, through a fork into the child.  The shell's    *)
(* block on garbage collection, which sigchk lifts before it throws, is    *)
(* not part of this module.                                                *)
(***************************************************************************)
EXTENDS Naturals, Sequences, FiniteSets, SequencesExt

CONSTANTS
  NSIG,      \* signal numbers are 1 .. NSIG - 1
  SIGINT,    \* the one signal that may be special
  Effect,    \* the effects a program gives its signals
  MaxBlock   \* bound on the nesting of blocksignals()

Effects == {"default", "ignore", "catch", "noop", "special"}

ASSUME SignalsAssumption ==
  /\ NSIG \in Nat /\ NSIG > 1
  /\ SIGINT \in 1 .. NSIG - 1
  /\ Effect \subseteq Effects
  /\ MaxBlock \in Nat

VARIABLES
  sigeffect,    \* what the shell does with each signal
  disposition,  \* what the kernel does with it
  caught,       \* the signals noted by catcher()
  sigcount,     \* how many of them, so the shell believes
  blocked,      \* nesting of blocksignals()
  slow,         \* a longjmp out of catcher() is wanted
  interrupted,  \* some signal was caught
  hasforked,    \* the process is a child
  catchers,     \* activations of catcher(), innermost last
  pc,           \* where the shell is
  sig,          \* the signal number sigchk or setsigdefaults is at
  reg,          \* sigcount as --sigcount has loaded it
  thrown        \* the signal of the exception being raised, 0 for none

vars == <<sigeffect, disposition, caught, sigcount, blocked, slow, interrupted,
          hasforked, catchers, pc, sig, reg, thrown>>

Sig == 1 .. NSIG - 1
Catching == {"catch", "noop", "special"}
PC == {"run", "sigchk", "scan", "load", "store", "clear", "deliver", "overrun",
       "enter", "label", "set_slow", "test", "blocked", "returned", "leave",
       "defaults", "exited"}
Activation == [sig : Sig, at : {"note", "load", "store", "finish"}, reg : Nat]

dispositionOf(e) ==
  CASE e = "default" -> "default"
    [] e = "ignore"  -> "ignore"
    [] e \in Catching -> "catcher"

\* initsignals: SIGINT is special, ignored signals stay ignored.
Init ==
  /\ sigeffect \in [Sig -> Effect]
  /\ \A s \in Sig \ {SIGINT} : sigeffect[s] # "special"
  /\ disposition = [s \in Sig |-> dispositionOf(sigeffect[s])]
  /\ caught = [s \in Sig |-> FALSE]
  /\ sigcount = 0
  /\ blocked = 0
  /\ slow = FALSE
  /\ interrupted = FALSE
  /\ hasforked = FALSE
  /\ catchers = << >>
  /\ pc = "run"
  /\ sig = 0
  /\ reg = 0
  /\ thrown = 0

-----------------------------------------------------------------------------
(* catcher(): the innermost activation runs, everything else waits.        *)

Masked == {catchers[i].sig : i \in 1 .. Len(catchers)}
Top == catchers[Len(catchers)]

Arrive(s) ==
  /\ pc # "exited"
  /\ s \notin Masked
  /\ disposition[s] = "catcher"
  /\ catchers' = Append(catchers, [sig |-> s, at |-> "note", reg |-> 0])
  /\ UNCHANGED <<sigeffect, disposition, caught, sigcount, blocked, slow,
                 interrupted, hasforked, pc, sig, reg, thrown>>

TopAt(at) == pc # "exited" /\ catchers # << >> /\ Top.at = at

Continue(at, r) ==
  catchers' = [catchers EXCEPT ![Len(catchers)].at = at,
                               ![Len(catchers)].reg = r]

\* Mutant: a signal that is already noted is counted again.
NoteCountsAgain ==
  /\ TopAt("note")
  /\ IF hasforked
     THEN /\ pc' = "exited"
          /\ UNCHANGED <<caught, catchers>>
     ELSE /\ caught' = [caught EXCEPT ![Top.sig] = TRUE]
          /\ Continue("load", 0)
          /\ UNCHANGED pc
  /\ UNCHANGED <<sigeffect, disposition, sigcount, blocked, slow, interrupted,
                 hasforked, sig, reg, thrown>>

\* In a child exit(1); else note the signal, once.
Note ==
  /\ TopAt("note")
  /\ IF hasforked
     THEN /\ pc' = "exited"
          /\ UNCHANGED <<caught, catchers>>
     ELSE /\ caught' = [caught EXCEPT ![Top.sig] = TRUE]
          /\ Continue(IF caught[Top.sig] THEN "finish" ELSE "load", 0)
          /\ UNCHANGED pc
  /\ UNCHANGED <<sigeffect, disposition, sigcount, blocked, slow, interrupted,
                 hasforked, sig, reg, thrown>>

LoadCount ==
  /\ TopAt("load")
  /\ Continue("store", sigcount)
  /\ UNCHANGED <<sigeffect, disposition, caught, sigcount, blocked, slow,
                 interrupted, hasforked, pc, sig, reg, thrown>>

StoreCount ==
  /\ TopAt("store")
  /\ sigcount' = Top.reg + 1
  /\ Continue("finish", 0)
  /\ UNCHANGED <<sigeffect, disposition, caught, blocked, slow, interrupted,
                 hasforked, pc, sig, reg, thrown>>

\* The longjmp leaves every activation, whatever it was doing.
Finish ==
  /\ TopAt("finish")
  /\ interrupted' = TRUE
  /\ catchers' = IF slow THEN << >> ELSE Front(catchers)
  /\ pc' = IF slow THEN "leave" ELSE pc
  /\ UNCHANGED <<sigeffect, disposition, caught, sigcount, blocked, slow,
                 hasforked, sig, reg, thrown>>

Catcher == Note \/ LoadCount \/ StoreCount \/ Finish

-----------------------------------------------------------------------------
(* sigchk()                                                                *)

ShellAt(at) == catchers = << >> /\ pc = at

CheckSignals ==
  /\ ShellAt("run")
  /\ thrown = 0
  /\ pc' = "sigchk"
  /\ UNCHANGED <<sigeffect, disposition, caught, sigcount, blocked, slow,
                 interrupted, hasforked, catchers, sig, reg, thrown>>

\* Mutant: the last signal is left for the next sigchk().
sigchkLeavesOne ==
  /\ ShellAt("sigchk")
  /\ pc' = IF sigcount <= 1 \/ blocked > 0 THEN "run"
           ELSE IF hasforked THEN "exited" ELSE "scan"
  /\ sig' = 1
  /\ UNCHANGED <<sigeffect, disposition, caught, sigcount, blocked, slow,
                 interrupted, hasforked, catchers, reg, thrown>>

sigchk ==
  /\ ShellAt("sigchk")
  /\ pc' = IF sigcount = 0 \/ blocked > 0 THEN "run"
           ELSE IF hasforked THEN "exited" ELSE "scan"
  /\ sig' = 1
  /\ UNCHANGED <<sigeffect, disposition, caught, sigcount, blocked, slow,
                 interrupted, hasforked, catchers, reg, thrown>>

\* caught[sig] is read before sig is compared with NSIG.
Scan ==
  /\ ShellAt("scan")
  /\ pc' = IF sig = NSIG THEN "overrun"
           ELSE IF caught[sig] THEN "load" ELSE "scan"
  /\ sig' = IF sig < NSIG /\ ~ caught[sig] THEN sig + 1 ELSE sig
  /\ UNCHANGED <<sigeffect, disposition, caught, sigcount, blocked, slow,
                 interrupted, hasforked, catchers, reg, thrown>>

LoadForDecrement ==
  /\ ShellAt("load")
  /\ reg' = sigcount
  /\ pc' = "store"
  /\ UNCHANGED <<sigeffect, disposition, caught, sigcount, blocked, slow,
                 interrupted, hasforked, catchers, sig, thrown>>

Decrement ==
  /\ ShellAt("store")
  /\ sigcount' = reg - 1
  /\ pc' = "clear"
  /\ UNCHANGED <<sigeffect, disposition, caught, blocked, slow, interrupted,
                 hasforked, catchers, sig, reg, thrown>>

Clear ==
  /\ ShellAt("clear")
  /\ caught' = [caught EXCEPT ![sig] = FALSE]
  /\ pc' = "deliver"
  /\ UNCHANGED <<sigeffect, disposition, sigcount, blocked, slow, interrupted,
                 hasforked, catchers, sig, reg, thrown>>

Deliver ==
  /\ ShellAt("deliver")
  /\ thrown' = IF sigeffect[sig] \in {"catch", "special"} THEN sig ELSE 0
  /\ pc' = "run"
  /\ UNCHANGED <<sigeffect, disposition, caught, sigcount, blocked, slow,
                 interrupted, hasforked, catchers, sig, reg>>

\* $&catch takes the exception: signals are blocked while its catcher runs.
CatchException ==
  /\ ShellAt("run")
  /\ thrown # 0
  /\ blocked < MaxBlock
  /\ thrown' = 0
  /\ blocked' = blocked + 1
  /\ UNCHANGED <<sigeffect, disposition, caught, sigcount, slow, interrupted,
                 hasforked, catchers, pc, sig, reg>>

\* Mutant: signals may be unblocked twice.
unblocksignalsTwice ==
  /\ ShellAt("run")
  /\ thrown = 0
  /\ blocked' = blocked - 1
  /\ UNCHANGED <<sigeffect, disposition, caught, sigcount, slow, interrupted,
                 hasforked, catchers, pc, sig, reg, thrown>>

\* The catcher of $&catch returns, throws or asks for a retry.
unblocksignals ==
  /\ ShellAt("run")
  /\ thrown = 0
  /\ blocked > 0
  /\ blocked' = blocked - 1
  /\ UNCHANGED <<sigeffect, disposition, caught, sigcount, slow, interrupted,
                 hasforked, catchers, pc, sig, reg, thrown>>

-----------------------------------------------------------------------------
(* A slow system call: eread, dowait, callreadline.                        *)

EnterCall ==
  /\ ShellAt("run")
  /\ thrown = 0
  /\ pc' = "enter"
  /\ UNCHANGED <<sigeffect, disposition, caught, sigcount, blocked, slow,
                 interrupted, hasforked, catchers, sig, reg, thrown>>

ClearInterrupted ==
  /\ ShellAt("enter")
  /\ interrupted' = FALSE
  /\ pc' = "set_slow"
  /\ UNCHANGED <<sigeffect, disposition, caught, sigcount, blocked, slow,
                 hasforked, catchers, sig, reg, thrown>>

SetSlow ==
  /\ ShellAt("set_slow")
  /\ slow' = TRUE
  /\ pc' = "test"
  /\ UNCHANGED <<sigeffect, disposition, caught, sigcount, blocked,
                 interrupted, hasforked, catchers, sig, reg, thrown>>

\* Mutant: the call is made without a look at interrupted.
TestInterruptedNever ==
  /\ ShellAt("test")
  /\ pc' = "blocked"
  /\ UNCHANGED <<sigeffect, disposition, caught, sigcount, blocked, slow,
                 interrupted, hasforked, catchers, sig, reg, thrown>>

TestInterrupted ==
  /\ ShellAt("test")
  /\ pc' = IF interrupted THEN "leave" ELSE "blocked"
  /\ UNCHANGED <<sigeffect, disposition, caught, sigcount, blocked, slow,
                 interrupted, hasforked, catchers, sig, reg, thrown>>

\* The kernel completes the call; nothing says that it ever does.
CallReturns ==
  /\ ShellAt("blocked")
  /\ pc' = "returned"
  /\ UNCHANGED <<sigeffect, disposition, caught, sigcount, blocked, slow,
                 interrupted, hasforked, catchers, sig, reg, thrown>>

\* Mutant: slow stays set after the call.
LeaveCallSlow ==
  /\ ShellAt("returned") \/ ShellAt("leave")
  /\ pc' = "sigchk"
  /\ UNCHANGED <<sigeffect, disposition, caught, sigcount, blocked, slow,
                 interrupted, hasforked, catchers, sig, reg, thrown>>

\* slow = FALSE, then SIGCHK().
LeaveCall ==
  /\ ShellAt("returned") \/ ShellAt("leave")
  /\ slow' = FALSE
  /\ pc' = "sigchk"
  /\ UNCHANGED <<sigeffect, disposition, caught, sigcount, blocked,
                 interrupted, hasforked, catchers, sig, reg, thrown>>

-----------------------------------------------------------------------------
(* The variable signals is assigned: esignal(), for each signal.           *)

esignal(s, e) ==
  /\ sigeffect' = [sigeffect EXCEPT ![s] = e]
  /\ disposition' = [disposition EXCEPT ![s] = dispositionOf(e)]

SetSignal(s, e) ==
  /\ ShellAt("run")
  /\ thrown = 0
  /\ e # sigeffect[s]
  /\ e = "special" => s = SIGINT
  /\ esignal(s, e)
  /\ UNCHANGED <<caught, sigcount, blocked, slow, interrupted, hasforked,
                 catchers, pc, sig, reg, thrown>>

\* efork, in the child: hasforked, then setsigdefaults signal by signal.
Fork ==
  /\ ShellAt("run")
  /\ thrown = 0
  /\ ~ hasforked
  /\ hasforked' = TRUE
  /\ pc' = "defaults"
  /\ sig' = 1
  /\ UNCHANGED <<sigeffect, disposition, caught, sigcount, blocked, slow,
                 interrupted, catchers, reg, thrown>>

setsigdefaults ==
  /\ ShellAt("defaults")
  /\ IF sigeffect[sig] \in Catching
     THEN esignal(sig, "default")
     ELSE UNCHANGED <<sigeffect, disposition>>
  /\ pc' = IF sig = NSIG - 1 THEN "run" ELSE "defaults"
  /\ sig' = sig + 1
  /\ UNCHANGED <<caught, sigcount, blocked, slow, interrupted, hasforked,
                 catchers, reg, thrown>>

-----------------------------------------------------------------------------
Checking == \/ sigchk \/ Scan \/ LoadForDecrement \/ Decrement \/ Clear
            \/ Deliver

Calling == \/ ClearInterrupted \/ SetSlow \/ TestInterrupted \/ LeaveCall

Next ==
  \/ \E s \in Sig : Arrive(s)
  \/ Catcher
  \/ CheckSignals
  \/ Checking
  \/ CatchException
  \/ unblocksignals
  \/ EnterCall
  \/ Calling
  \/ CallReturns
  \/ \E s \in Sig, e \in Effect : SetSignal(s, e)
  \/ Fork
  \/ setsigdefaults

Spec == Init /\ [][Next]_vars

\* Every instruction of the shell and of its handlers is eventually executed,
\* however often it is interrupted; the shell comes back to SIGCHK (walk,
\* eval.c) and catchers of $&catch end.  Nothing is said of CallReturns.
Fairness ==
  /\ \A s \in Sig : SF_vars(Catcher /\ Top.sig = s)
  /\ SF_vars(CheckSignals)
  /\ SF_vars(Checking)
  /\ SF_vars(CatchException)
  /\ SF_vars(unblocksignals)
  /\ SF_vars(Calling)
  /\ SF_vars(setsigdefaults)

FairSpec == Spec /\ Fairness

-----------------------------------------------------------------------------
TypeOK ==
  /\ sigeffect \in [Sig -> Effects]
  /\ disposition \in [Sig -> {"default", "ignore", "catcher"}]
  /\ caught \in [Sig -> BOOLEAN]
  /\ sigcount \in Nat
  /\ blocked \in 0 .. MaxBlock
  /\ slow \in BOOLEAN /\ interrupted \in BOOLEAN /\ hasforked \in BOOLEAN
  /\ catchers \in Seq(Activation)
  /\ pc \in PC
  /\ sig \in 0 .. NSIG
  /\ reg \in Nat
  /\ thrown \in {0} \cup Sig

Caught == {s \in Sig : caught[s]}

\* Whatever increments are lost or abandoned, the count is never above the
\* number of signals noted, so sigchk always finds the one it looks for and
\* never reads past caught[]. (signal.c: the loop of sigchk)
SigchkFinds == pc # "overrun"

-----------------------------------------------------------------------------
(* Why sigcount is never too high: the signals counted are noted, are not  *)
(* still being counted by an activation of catcher(), and are not the one  *)
(* sigchk has just uncounted.                                              *)

Counting == {catchers[i].sig : i \in {j \in 1 .. Len(catchers) :
                                        catchers[j].at \in {"load", "store"}}}
Counted == (Caught \ Counting) \ (IF pc = "clear" THEN {sig} ELSE {})

CountInv == sigcount <= Cardinality(Counted)

\* Nested activations only add to what an outer one, or sigchk, has loaded.
LoadedInv ==
  /\ \A i \in 1 .. Len(catchers) :
       /\ catchers[i].at = "store" => catchers[i].reg <= sigcount
       /\ catchers[i].at \in {"load", "store"} => caught[catchers[i].sig]
  /\ \A i, j \in 1 .. Len(catchers) :
       i < j /\ catchers[i].at = "store" /\ catchers[j].at = "store"
         => catchers[i].reg <= catchers[j].reg
  /\ pc = "store" =>
       /\ reg <= sigcount /\ 0 < reg
       /\ \A i \in 1 .. Len(catchers) :
            catchers[i].at = "store" => reg <= catchers[i].reg
  /\ \A i, j \in 1 .. Len(catchers) :
       catchers[i].sig = catchers[j].sig => i = j

ScanInv ==
  /\ pc \in {"deliver", "defaults"} => sig \in Sig
  /\ pc = "scan" => /\ 0 < sigcount /\ 0 < sig
                    /\ \E s \in Sig : s >= sig /\ caught[s]
  /\ pc \in {"load", "store", "clear"} =>
       sig \in Sig /\ caught[sig] /\ sig \notin Counting
  /\ pc = "load" => 0 < sigcount

IInv == TypeOK /\ CountInv /\ LoadedInv /\ ScanInv /\ SigchkFinds

-----------------------------------------------------------------------------
\* Once a signal has been handled, the shell is not left inside a blocking
\* call. (signal.c: catcher; util.c: eread; proc.c: dowait)
NeverBlockedInterrupted ==
  ShellAt("blocked") \/ ShellAt("returned") => ~ interrupted

\* The jump target is live whenever catcher() may jump to it.
\* (proc.c, util.c: slow = TRUE only between setjmp and slow = FALSE)
JumpIsLive ==
  pc # "exited" => (slow <=> pc \in {"test", "blocked", "returned", "leave"})

\* A signal that is noted stays counted until sigchk takes it.
\* (es.1: an exception is raised when the shell itself receives a signal)
NoneLost ==
  ShellAt("run") /\ Caught # {} => sigcount > 0

\* The shell does not block in a system call with a signal to deliver.
\* (es.1: as above)
NoneWaitsForCall ==
  ShellAt("blocked") => Caught = {}

\* As long as signals are counted, sigchk takes one in the end, unless the
\* shell sits in a system call or has exited. (signal.c: sigchk)
Delivered ==
  (sigcount > 0) ~> (pc \in {"deliver", "blocked", "exited"})
=============================================================================
