------------------------------- MODULE Procs --------------------------------
(***************************************************************************)
(* The list of child processes (proc.c): mkproc and efork put a child on   *)
(* it, ewait takes one off, by way of dowait and reap.  The list is doubly *)
(* linked through malloc'ed cells, and the kernel picks the pids.          *)
(*                                                                         *)
(* dowait() runs wait3() in the protocol of module Signals: a signal may   *)
(* make it return EINTR before wait3() has taken a child, or after.        *)
(***************************************************************************)
EXTENDS Naturals, FiniteSets

CONSTANTS
  Pid,         \* process identifiers
  Status,      \* exit statuses
  Junk,        \* what a fresh cell holds for a status
  Cell,        \* addresses of Proc structures: bounds the list
  Nil,         \* the null pointer
  Recycle      \* the kernel may reuse the pid of a child still listed

ASSUME ProcsAssumption ==
  /\ IsFiniteSet(Cell)
  /\ Nil \notin Cell
  /\ Junk \notin Status
  /\ 0 \notin Pid   \* no child has pid 0, which stands for any
  /\ Recycle \in BOOLEAN

VARIABLES
  kernel,      \* each pid's child: "none", "running" or "zombie"
  ending,      \* the status it ended with, Junk before
  proc,        \* contents of the cells
  allocated,   \* cells that are not free
  proclist,    \* head of the list
  pc,          \* where ewait is, "idle" outside it
  call,        \* ewait's arguments and locals
  result,      \* what ewait returns, when it does
  signalled    \* history: a signal has interrupted a wait

vars == <<kernel, ending, proc, allocated, proclist, pc, call, result,
          signalled>>
listVars == <<proc, allocated, proclist>>

NoPid == 0
NoReport == [pid |-> "none"]
Failed(p) == [failed |-> p]
Pointer == Cell \cup {Nil}
Proc == [pid : Pid \cup {NoPid}, status : Status \cup {Junk}, alive : BOOLEAN,
         background : BOOLEAN, next : Pointer, prev : Pointer]

\* A cell that is free: its contents no longer matter.
Free == [pid |-> NoPid, status |-> Junk, alive |-> FALSE, background |-> FALSE,
         next |-> Nil, prev |-> Nil]

\* proc is Nil in a wait for any child; status is then the local that wait3
\* stores to.
Call(p, intr) == [pid |-> p, interruptible |-> intr, proc |-> Nil,
                  seen_eintr |-> FALSE, status |-> Junk, deadpid |-> NoPid]
NoCall == Call(NoPid, FALSE)

Init ==
  /\ kernel = [p \in Pid |-> "none"]
  /\ ending = [p \in Pid |-> Junk]
  /\ proc = [c \in Cell |-> Free]
  /\ allocated = {}
  /\ proclist = Nil
  /\ pc = "idle"
  /\ call = NoCall
  /\ result = NoReport
  /\ signalled = FALSE

-----------------------------------------------------------------------------
(* Walking the list from proclist.  A walk that meets a free cell, or that *)
(* comes back to a cell, is a broken list.                                 *)

\* The cells reached in at most n steps.
Size == Cardinality(Cell)
Walk[n \in 0 .. Size] ==
  IF n = 0 THEN proclist
  ELSE LET c == Walk[n - 1] IN IF c = Nil THEN Nil ELSE proc[c].next

Listed == {Walk[n] : n \in 0 .. Size} \ {Nil}

\* The first listed cell with property Test, Nil if there is none.
First(Test(_)) ==
  LET at == {n \in 0 .. Size : Walk[n] # Nil /\ Test(Walk[n])}
  IN IF at = {} THEN Nil ELSE Walk[CHOOSE n \in at : \A m \in at : n <= m]

HasPid(p) == First(LAMBDA c : proc[c].pid = p)

-----------------------------------------------------------------------------
(* efork() in the parent, with mkproc().                                   *)

\* Mutant: the old head of the list does not point back.
LinkNoPrev(c, old) == proc' = [proc EXCEPT ![c] = old]

Link(c, old) ==
  proc' = IF proclist = Nil THEN [proc EXCEPT ![c] = old]
          ELSE [[proc EXCEPT ![c] = old] EXCEPT ![proclist].prev = c]

Fresh(p, background) ==
  \E c \in Cell \ allocated :
    /\ Link(c, [pid |-> p, status |-> Junk, alive |-> TRUE,
                background |-> background, next |-> proclist, prev |-> Nil])
    /\ allocated' = allocated \cup {c}
    /\ proclist' = c

\* The pid is being recycled: the cell is reused where it is.
Reused(c, p, background) ==
  /\ Link(c, [proc[c] EXCEPT !.alive = TRUE, !.background = background,
                             !.prev = Nil])
  /\ proclist' = c
  /\ UNCHANGED allocated

Fork(p, background) ==
  /\ pc = "idle"
  /\ kernel[p] = "none"
  /\ HasPid(p) # Nil => Recycle
  /\ kernel' = [kernel EXCEPT ![p] = "running"]
  /\ IF HasPid(p) = Nil THEN Fresh(p, background)
     ELSE Reused(HasPid(p), p, background)
  /\ pc' = IF HasPid(p) # Nil /\ proc[HasPid(p)].alive THEN "assert" ELSE pc
  /\ ending' = [ending EXCEPT ![p] = Junk]
  /\ result' = NoReport
  /\ UNCHANGED <<call, signalled>>

Exit(p, s) ==
  /\ kernel[p] = "running"
  /\ kernel' = [kernel EXCEPT ![p] = "zombie"]
  /\ ending' = [ending EXCEPT ![p] = s]
  /\ result' = NoReport
  /\ UNCHANGED <<listVars, pc, call, signalled>>

-----------------------------------------------------------------------------
(* ewait(): called for a command the shell runs, for a pipe's or           *)
(* backquote's children, or by $&wait, the only interruptible call.        *)

Ewait(p, intr) ==
  /\ pc = "idle"
  /\ pc' = "top"
  /\ call' = Call(p, intr)
  /\ result' = NoReport
  /\ UNCHANGED <<kernel, ending, listVars, signalled>>

\* A wait for any child is answered by one that is dead.
Answers(c) == proc[c].pid = call.pid \/ (call.pid = NoPid /\ ~ proc[c].alive)

\* The first entry that answers the call; a dead one need not be waited for.
Top ==
  /\ pc = "top"
  /\ LET c == First(Answers)
     IN IF c = Nil /\ call.pid # NoPid
        THEN pc' = "idle" /\ call' = NoCall /\ result' = Failed(call.pid)
        ELSE /\ pc' = IF c # Nil /\ ~ proc[c].alive THEN "unlink" ELSE "wait3"
             /\ call' = [call EXCEPT !.proc = c]
             /\ UNCHANGED result
  /\ UNCHANGED <<kernel, ending, listVars, signalled>>

\* wait3() stores the status through its argument, &proc->status or &status.
TakeChild(p) ==
  /\ pc = "wait3"
  /\ kernel[p] = "zombie"
  /\ kernel' = [kernel EXCEPT ![p] = "none"]
  /\ IF call.proc = Nil
     THEN call' = [call EXCEPT !.deadpid = p, !.status = ending[p]] /\ UNCHANGED proc
     ELSE /\ call' = [call EXCEPT !.deadpid = p]
          /\ proc' = [proc EXCEPT ![call.proc].status = ending[p]]
  /\ pc' = "taken"
  /\ UNCHANGED <<ending, allocated, proclist, result, signalled>>

\* A signal: dowait returns EINTR whatever wait3 has done.  sigchk may throw
\* in an interruptible call; another one waits again.
Interrupted ==
  /\ pc \in {"wait3", "taken"}
  /\ signalled' = TRUE
  /\ \/ /\ pc' = "wait3"
        /\ call' = [call EXCEPT !.seen_eintr = (call.proc # Nil), !.deadpid = NoPid]
     \/ /\ call.interruptible
        /\ pc' = "idle"
        /\ call' = NoCall
  /\ UNCHANGED <<kernel, ending, listVars, result>>

\* ECHILD: after an interruption the child is taken to be gone.
NoChildren ==
  /\ pc = "wait3"
  /\ \A p \in Pid : kernel[p] = "none"
  /\ IF call.proc # Nil /\ call.seen_eintr
     THEN /\ proc' = [proc EXCEPT ![call.proc].alive = FALSE]
          /\ pc' = "unlink"
          /\ UNCHANGED <<call, result>>
     ELSE /\ pc' = "idle"
          /\ call' = NoCall
          /\ result' = Failed(call.pid)
          /\ UNCHANGED proc
  /\ UNCHANGED <<kernel, ending, allocated, proclist, signalled>>

\* Mutant: the child's status is not kept.
reapNoStatus(s) ==
  LET c == HasPid(call.deadpid)
  IN /\ proc' = IF c = Nil THEN proc ELSE [proc EXCEPT ![c].alive = FALSE]
     /\ pc' = IF call.proc = Nil THEN "top" ELSE "wait3"

\* Mutant: the child is not marked dead.
reapAlive(s) ==
  LET c == HasPid(call.deadpid)
  IN /\ proc' = IF c = Nil THEN proc ELSE [proc EXCEPT ![c].status = s]
     /\ pc' = IF call.proc = Nil THEN "top" ELSE "wait3"

\* reap(deadpid, status) marks another child's entry, if it has one.
reap(s) ==
  LET c == HasPid(call.deadpid)
  IN /\ proc' = IF c = Nil THEN proc
                ELSE [proc EXCEPT ![c].alive = FALSE, ![c].status = s]
     /\ pc' = IF c # Nil /\ ~ proc[c].alive THEN "assert"
              ELSE IF call.proc = Nil THEN "top" ELSE "wait3"

\* A wait for any child goes on as a wait for the one that wait3() returned.
Answered ==
  [call EXCEPT !.deadpid = NoPid, !.status = Junk,
               !.pid = IF call.proc = Nil THEN call.deadpid ELSE @]

\* Mutant: the loop goes on after the child waited for is found.
TakenGoesOn ==
  /\ pc = "taken"
  /\ reap(IF call.proc = Nil THEN call.status ELSE proc[call.proc].status)
  /\ call' = Answered
  /\ UNCHANGED <<kernel, ending, allocated, proclist, result, signalled>>

Taken ==
  /\ pc = "taken"
  /\ IF call.proc # Nil /\ call.deadpid = call.pid
     THEN /\ proc' = [proc EXCEPT ![call.proc].alive = FALSE]
          /\ pc' = "unlink"
     ELSE reap(IF call.proc = Nil THEN call.status ELSE proc[call.proc].status)
  /\ call' = Answered
  /\ UNCHANGED <<kernel, ending, allocated, proclist, result, signalled>>

\* The entry is taken off the list, freed and reported.
Unlink ==
  /\ pc = "unlink"
  /\ LET c == call.proc
         next == proc[c].next
         prev == proc[c].prev
     IN /\ proc' = [d \in Cell |->
                      IF d = c THEN Free
                      ELSE [proc[d] EXCEPT
                              !.prev = IF d = next THEN prev ELSE @,
                              !.next = IF d = prev THEN next ELSE @]]
        /\ proclist' = IF prev # Nil THEN proclist ELSE next
        /\ allocated' = allocated \ {c}
        /\ result' = [pid |-> proc[c].pid, status |-> proc[c].status]
  /\ pc' = "idle"
  /\ call' = NoCall
  /\ UNCHANGED <<kernel, ending, signalled>>

-----------------------------------------------------------------------------
Waiting == Top \/ (\E p \in Pid : TakeChild(p)) \/ NoChildren \/ Taken \/ Unlink

Next ==
  \/ \E p \in Pid, background \in BOOLEAN : Fork(p, background)
  \/ \E p \in Pid, s \in Status : Exit(p, s)
  \/ \E p \in Pid \cup {NoPid}, intr \in BOOLEAN : Ewait(p, intr)
  \/ Waiting
  \/ Interrupted

Spec == Init /\ [][Next]_vars

\* The shell and the kernel's wait3 make progress; children need not exit.
FairSpec == Spec /\ WF_vars(Waiting)

\* $&apids: the background children thought to be alive.
apids == {proc[c].pid : c \in {d \in Listed : proc[d].background /\ proc[d].alive}}
=============================================================================
