------------------------------ MODULE ProcsView -----------------------------
(***************************************************************************)
(* The properties of the list of children, and the refinement of Children. *)
(***************************************************************************)
EXTENDS Procs

PC == {"idle", "top", "wait3", "taken", "unlink", "assert"}

TypeOK ==
  /\ kernel \in [Pid -> {"none", "running", "zombie"}]
  /\ ending \in [Pid -> Status \cup {Junk}]
  /\ proc \in [Cell -> Proc]
  /\ allocated \subseteq Cell
  /\ proclist \in Pointer
  /\ pc \in PC
  /\ call \in [pid : Pid \cup {NoPid}, interruptible : BOOLEAN, proc : Pointer,
               seen_eintr : BOOLEAN, status : Status \cup {Junk},
               deadpid : Pid \cup {NoPid}]
  /\ result \in {NoReport} \cup {Failed(p) : p \in Pid \cup {NoPid}}
                 \cup [pid : Pid, status : Status \cup {Junk}]
  /\ signalled \in BOOLEAN

\* The list holds exactly the cells that are allocated, once each, and every
\* one's prev is the cell before it: no child is lost, nothing is freed
\* twice or used after it is freed; and the assertions of mkproc and reap
\* hold. (proc.c: mkproc, efork, the unlinking in ewait; "are we recycling
\* pids?", "if false, violates unix semantics")
ListIsSound ==
  /\ TypeOK
  /\ Listed = allocated
  /\ proclist # Nil => proc[proclist].prev = Nil
  /\ \A c \in Listed : proc[c].next # Nil => proc[proc[c].next].prev = c
  /\ \A c, d \in Listed : proc[c].pid = proc[d].pid => c = d
  /\ pc # "assert"

\* The list says of a child what the kernel does, also when a signal made the
\* shell lose what wait3 returned: one that has to be waited for can be, by its
\* pid, one that is taken for dead has ended, and every background process
\* $&apids lists is still a child, if no signal has made the shell lose one.
\* (proc.c: ewait, its "is not a child of this shell", reap, apids; es.1: %apids)
ListMatchesKernel ==
  /\ \A p \in Pid :
       kernel[p] # "none" => HasPid(p) # Nil /\ proc[HasPid(p)].alive
  /\ \A c \in Listed : ~ proc[c].alive => kernel[proc[c].pid] = "none"
  /\ pc = "idle" /\ ~ signalled => \A p \in apids : kernel[p] # "none"

\* ewait returns the status the process it names has ended with.
\* (proc.c: "ewait -- wait for a specific process to die")
OwnStatus ==
  "status" \in DOMAIN result => result.status = ending[result.pid]

\* A wait for a child that has ended returns, whatever other children do,
\* unless signals interrupt it. (proc.c: ewait)
WaitEnds ==
  \A p \in Pid :
    (pc # "idle" /\ call.pid = p /\ kernel[p] = "zombie")
      ~> (pc = "idle" \/ signalled)

-----------------------------------------------------------------------------
\* A child that wait3 has taken is unreported until its cell is unlinked.

Abstract ==
  INSTANCE Children WITH
    state <- [p \in Pid |-> IF kernel[p] = "running" THEN "running"
                            ELSE IF HasPid(p) # Nil THEN "ended" ELSE "none"],
    report <- result

\* ewait reports each child once, after it has ended, and with its own status
\* if no signal has interrupted a wait. (proc.c: "ewait -- wait for a specific
\* process to die")
Refines == Abstract!AbsSpec
=============================================================================
