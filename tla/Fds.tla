-------------------------------- MODULE Fds ---------------------------------
(***************************************************************************)
(* Deferred file descriptor operations (fd.c), as the redirection          *)
(* primitives of prim-io.c and the input sources of input.c use them.      *)
(*                                                                         *)
(* While es works as a parent shell, a redirection only opens its file and *)
(* pushes a pair (realfd, userfd); the user's descriptor changes when a    *)
(* child is forked and closefds() applies the pairs to the child's own     *)
(* table.  The descriptors es needs for itself are registered, so that     *)
(* they can be moved out of a user descriptor's way and closed in a child. *)
(*                                                                         *)
(* One process is followed: when it forks, the parent's table does not     *)
(* change, so the behaviour continues either in the parent (no step) or in *)
(* the child (action Fork and the steps of closefds).                      *)
(***************************************************************************)
EXTENDS Integers, Sequences, SequencesExt

CONSTANTS
  NFd,        \* size of the process's descriptor table (RLIMIT_NOFILE)
  UserFd,     \* descriptor numbers a program names; some may exceed NFd
  File,       \* open files
  Closed,     \* content of a free table slot
  Internal,   \* the addresses es registers (the fd field of each Input)
  Closable,   \* descriptors the program closes (>[n=])
  MaxFrames   \* bound on the nesting of redirections and catches

ASSUME FdsAssumption ==
  /\ NFd \in Nat /\ NFd > 3
  /\ UserFd \subseteq Nat
  /\ Closed \notin File
  /\ MaxFrames \in Nat
  /\ Closable \subseteq UserFd

VARIABLES
  table,      \* the kernel's descriptor table of the process
  deftab,     \* deferred operations, outermost first: deftab[0..defcount-1]
  fdvar,      \* value of each internal descriptor variable, -1 for none
  registered, \* internal addresses on the reserved list
  frames,     \* activations with a handler, outermost first: the ticket of
              \* a run_redir, or CatchFrame for a $&catch
  child,      \* the process is a forked child (eval_inchild may be set)
  pc,         \* where the process is in closefds(), "run" outside it
  next,       \* remapfds: index of the deferred operation it is at
  failed      \* a redirection done at once has failed (kept for properties)

vars == <<table, deftab, fdvar, registered, frames, child, pc, next, failed>>

Fd == 0 .. NFd - 1
Std == 0 .. 2
None == -1
Content == File \cup {Closed}
CatchFrame == 0
Defer == [real : Fd \cup {None}, user : UserFd]
PC == {"run", "release", "apply", "thrown", "panic", "escaped", "exited",
       "immediate", "immediate_apply", "throw"}

\* The kernel hands out the lowest free descriptor; none is free at EMFILE.
IsLowestFree(n) ==
  /\ n \in Fd
  /\ table[n] = Closed
  /\ \A m \in Fd : m < n => table[m] # Closed

TableFull == \A n \in Fd : table[n] # Closed

-----------------------------------------------------------------------------
(* Startup: checkfd() has opened descriptors 0-2; the shell reads commands *)
(* from descriptor 0, from a script it opened, or from a string (-c).      *)

Init ==
  /\ table \in [Fd -> Content]
  /\ \A n \in Std : table[n] # Closed
  /\ \/ /\ fdvar = [p \in Internal |-> None]
        /\ registered = {}
     \/ \E p \in Internal, n \in {0} \cup (Fd \ Std) :
          /\ table[n] # Closed
          /\ fdvar = [q \in Internal |-> IF q = p THEN n ELSE None]
          /\ registered = {p}
  /\ deftab = << >>
  /\ frames = << >>
  /\ child = FALSE
  /\ pc = "run"
  /\ next = 1
  /\ failed = FALSE

-----------------------------------------------------------------------------
(* fdmap() walks the deferred list from the newest entry down.  mapped[i]  *)
(* is what descriptor fd has become once the entries above i are passed.   *)

fdmap(fd) ==
  LET step(e, d) == IF d # None /\ e.user = d THEN e.real ELSE d
      mapped[i \in 0 .. Len(deftab)] ==
        IF i = 0 THEN fd ELSE step(deftab[Len(deftab) - i + 1], mapped[i - 1])
  IN mapped[Len(deftab)]

isdeferred(n) == \E i \in 1 .. Len(deftab) : deftab[i].user = n

-----------------------------------------------------------------------------
(* Redirections of a parent shell: run_redir with defer_mvfd, defer_close. *)

Parent == pc = "run" /\ Len(frames) < MaxFrames

\* Mutant: the ticket is the count before it is incremented.
PushDeferLowTicket(r, u) ==
  /\ deftab' = Append(deftab, [real |-> r, user |-> u])
  /\ frames' = Append(frames, Len(deftab))

PushDefer(r, u) ==
  /\ deftab' = Append(deftab, [real |-> r, user |-> u])
  /\ frames' = Append(frames, Len(deftab) + 1)

\* $&openfile and $&here: a fresh descriptor for a file or a pipe's end.
OpenRedir(u, f) ==
  /\ Parent
  /\ \E r \in Fd :
       /\ IsLowestFree(r)
       /\ table' = [table EXCEPT ![r] = f]
       /\ PushDefer(r, u)
  /\ UNCHANGED <<fdvar, registered, child, pc, next, failed>>

\* $&dup: the source is looked up through the deferred list, then dup()ed.
DupRedir(u, src) ==
  /\ Parent
  /\ fdmap(src) \in Fd
  /\ table[fdmap(src)] # Closed
  /\ \E r \in Fd :
       /\ IsLowestFree(r)
       /\ table' = [table EXCEPT ![r] = table[fdmap(src)]]
       /\ PushDefer(r, u)
  /\ UNCHANGED <<fdvar, registered, child, pc, next, failed>>

\* $&close
CloseRedir(u) ==
  /\ Parent
  /\ u \in Closable
  /\ PushDefer(None, u)
  /\ UNCHANGED <<table, fdvar, registered, child, pc, next, failed>>

\* $&catch around a body; only its place among the handlers matters here.
Catch ==
  /\ Parent
  /\ frames' = Append(frames, CatchFrame)
  /\ UNCHANGED <<table, deftab, fdvar, registered, child, pc, next, failed>>

ClosedAt(t, r) == IF r \in Fd THEN [t EXCEPT ![r] = Closed] ELSE t

\* The innermost command ends, normally or by an exception passing through:
\* run_redir calls undefer(ticket) either way.
Leave ==
  /\ pc = "run"
  /\ frames # << >>
  /\ frames' = Front(frames)
  /\ IF Last(frames) = CatchFrame
     THEN UNCHANGED <<table, deftab>>
     ELSE /\ table' = ClosedAt(table, Last(deftab).real)
          /\ deftab' = Front(deftab)
  /\ UNCHANGED <<fdvar, registered, child, pc, next, failed>>

-----------------------------------------------------------------------------
(* The shell's own descriptors: runfd, fdfill at end of file, fdcleanup.   *)

OpenInput(p, f) ==
  /\ pc = "run"
  /\ p \notin registered
  /\ \E r \in Fd :
       /\ IsLowestFree(r)
       /\ table' = [table EXCEPT ![r] = f]
       /\ fdvar' = [fdvar EXCEPT ![p] = r]
  /\ registered' = registered \cup {p}
  /\ UNCHANGED <<deftab, frames, child, pc, next, failed>>

\* End of file on a script: fdfill closes it and leaves -1 behind.  (A shell
\* that reads from descriptor 0 itself ends with its input.)
EndOfInput(p) ==
  /\ pc = "run"
  /\ p \in registered
  /\ fdvar[p] \notin Std \cup {None}
  /\ table' = [table EXCEPT ![fdvar[p]] = Closed]
  /\ fdvar' = [fdvar EXCEPT ![p] = None]
  /\ UNCHANGED <<deftab, registered, frames, child, pc, next, failed>>

\* runinput is left, at end of file or by an exception: fdcleanup.
CloseInput(p) ==
  /\ pc = "run"
  /\ p \in registered
  /\ fdvar[p] \notin Std
  /\ table' = ClosedAt(table, fdvar[p])
  /\ fdvar' = [fdvar EXCEPT ![p] = None]
  /\ registered' = registered \ {p}
  /\ UNCHANGED <<deftab, frames, child, pc, next, failed>>

-----------------------------------------------------------------------------
(* A child, or an $&exec that replaces the shell (efork without a fork):   *)
(* closefds() is remapfds(), one dodeferred() per entry, and then the      *)
(* closing of the reserved descriptors.                                    *)

Fork ==
  /\ pc = "run"
  /\ pc' = "release"
  /\ next' = 1
  /\ UNCHANGED <<table, deftab, fdvar, registered, frames, child, failed>>

\* releasefd(u): whoever on the reserved list holds u is moved to a fresh
\* descriptor.  The entry being applied has been unregistered.
HolderInternal(u) == {p \in registered : fdvar[p] = u}

\* Mutant: releasefd() does not look at deferred descriptors.
HolderDeferNone(u) == {}

HolderDefer(u) == {i \in next + 1 .. Len(deftab) : deftab[i].real = u}
Held(u) == HolderInternal(u) # {} \/ HolderDefer(u) # {}

MoveHolders(u, n) ==
  /\ fdvar' = [p \in Internal |->
                 IF p \in HolderInternal(u) THEN n ELSE fdvar[p]]
  /\ deftab' = [i \in 1 .. Len(deftab) |->
                  IF i \in HolderDefer(u)
                  THEN [deftab[i] EXCEPT !.real = n] ELSE deftab[i]]

ReleaseTo(u, after, failing) ==
  \/ /\ ~ Held(u)
     /\ pc' = after
     /\ UNCHANGED <<table, fdvar, deftab>>
  \/ /\ Held(u)
     /\ \E n \in Fd :
          /\ IsLowestFree(n)
          /\ MoveHolders(u, n)
          /\ table' = [table EXCEPT ![n] = table[u], ![u] = Closed]
     /\ pc' = after
  \/ /\ Held(u)
     /\ TableFull                     \* dup() fails; the variable holds -1
     /\ MoveHolders(u, None)
     /\ pc' = failing
     /\ UNCHANGED table

\* The rest of dodeferred(): close(userfd), or mvfd(realfd, userfd).
ApplyTo(r, u, after, failing) ==
  \/ /\ r = None
     /\ table' = ClosedAt(table, u)
     /\ pc' = after
  \/ /\ r # None /\ r = u
     /\ pc' = after
     /\ UNCHANGED table
  \/ /\ r # None /\ r # u /\ u \in Fd
     /\ table' = [table EXCEPT ![u] = table[r], ![r] = Closed]
     /\ pc' = after
  \/ /\ r # None /\ u \notin Fd       \* dup2() fails: EBADF
     /\ pc' = failing
     /\ UNCHANGED table

Release ==
  /\ pc = "release"
  /\ next <= Len(deftab)
  /\ ReleaseTo(deftab[next].user, "apply", "thrown")
  /\ UNCHANGED <<registered, frames, child, next, failed>>

Apply ==
  /\ pc = "apply"
  /\ ApplyTo(deftab[next].real, deftab[next].user, "release", "thrown")
  /\ next' = IF pc' = "thrown" THEN next ELSE next + 1
  /\ UNCHANGED <<deftab, fdvar, registered, frames, child, failed>>

\* Mutant: the reserved descriptors are not closed in the child.
CloseOnForkKeeps ==
  /\ pc = "release"
  /\ next > Len(deftab)
  /\ fdvar' = [p \in Internal |-> None]
  /\ deftab' = << >>
  /\ frames' = << >>
  /\ child' = TRUE
  /\ pc' = "run"
  /\ next' = 1
  /\ UNCHANGED <<table, registered, failed>>

\* closefds() after remapfds(), then newchildcatcher(): the handlers of the
\* parent are gone, and nothing of its stack is ever returned to.
CloseOnFork ==
  /\ pc = "release"
  /\ next > Len(deftab)
  /\ table' = [n \in Fd |->
                 IF n >= 3 /\ \E p \in registered : fdvar[p] = n
                 THEN Closed ELSE table[n]]
  /\ fdvar' = [p \in Internal |-> None]
  /\ deftab' = << >>
  /\ frames' = << >>
  /\ child' = TRUE
  /\ pc' = "run"
  /\ next' = 1
  /\ UNCHANGED <<registered, failed>>

-----------------------------------------------------------------------------
(* What runs with eval_inchild, a child's last command or the command of   *)
(* $&exec in any shell, has its redirections done at once: the same        *)
(* dodeferred() on a pair that is never put on the list.  While its two    *)
(* steps run that pair stands before the list, where next passes it over;  *)
(* the redirections deferred around it, if any, stay deferred.             *)

Immediate(r, u) ==
  /\ deftab' = <<[real |-> r, user |-> u]>> \o deftab
  /\ pc' = "immediate"
  /\ UNCHANGED <<fdvar, registered, frames, child, next, failed>>

DoneAtOnce == pc = "run"

OpenNow(u, f) ==
  /\ DoneAtOnce
  /\ \E r \in Fd :
       /\ IsLowestFree(r)
       /\ table' = [table EXCEPT ![r] = f]
       /\ Immediate(r, u)

DupNow(u, src) ==
  /\ DoneAtOnce
  /\ fdmap(src) \in Fd
  /\ table[fdmap(src)] # Closed
  /\ \E r \in Fd :
       /\ IsLowestFree(r)
       /\ table' = [table EXCEPT ![r] = table[fdmap(src)]]
       /\ Immediate(r, u)

CloseNow(u) ==
  /\ DoneAtOnce
  /\ u \in Closable
  /\ Immediate(None, u)
  /\ UNCHANGED table

ImmediateRelease ==
  /\ pc = "immediate"
  /\ ReleaseTo(deftab[1].user, "immediate_apply", "throw")
  /\ failed' = (failed \/ pc' = "throw")
  /\ UNCHANGED <<registered, frames, child, next>>

ImmediateApply ==
  /\ pc = "immediate_apply"
  /\ ApplyTo(deftab[1].real, deftab[1].user, "run", "throw")
  /\ deftab' = IF pc' = "run" THEN Tail(deftab) ELSE deftab
  /\ failed' = (failed \/ pc' = "throw")
  /\ UNCHANGED <<fdvar, registered, frames, child, next>>

\* fail() in an immediate dodeferred(), before run_redir has a handler: the
\* pair is forgotten with its descriptor open, and the handlers run.  With
\* none left an interactive shell goes on, any other process exits.
Throw ==
  /\ pc = "throw"
  /\ \/ /\ frames = << >>
        /\ pc' \in IF child THEN {"exited"} ELSE {"run", "exited"}
        /\ deftab' = Tail(deftab)
        /\ UNCHANGED <<table, frames>>
     \/ /\ frames # << >>
        /\ Last(frames) = CatchFrame
        /\ pc' = "run"
        /\ deftab' = Tail(deftab)
        /\ frames' = Front(frames)
        /\ UNCHANGED table
     \/ /\ frames # << >>
        /\ Last(frames) # CatchFrame
        /\ table' = ClosedAt(table, Last(deftab).real)
        /\ deftab' = Front(deftab)
        /\ frames' = Front(frames)
        /\ UNCHANGED pc
  /\ UNCHANGED <<fdvar, registered, child, next, failed>>

-----------------------------------------------------------------------------
(* fail() inside closefds(): efork() has not called newchildcatcher() yet, *)
(* so the child runs the handlers it inherited.  Each run_redir calls      *)
(* undefer(ticket), whose unregisterfd() panics on an entry that remapfds  *)
(* has already taken off the list; a $&catch handles the exception.        *)

Unwind ==
  /\ pc = "thrown"
  /\ \/ /\ frames = << >>
        /\ pc' = "exited"
        /\ UNCHANGED <<table, deftab, frames>>
     \/ /\ frames # << >>
        /\ Last(frames) = CatchFrame
        /\ pc' = "escaped"
        /\ UNCHANGED <<table, deftab, frames>>
     \/ /\ frames # << >>
        /\ Last(frames) # CatchFrame
        /\ IF Len(deftab) <= next
           THEN /\ pc' = "panic"
                /\ UNCHANGED <<table, deftab, frames>>
           ELSE /\ table' = ClosedAt(table, Last(deftab).real)
                /\ deftab' = Front(deftab)
                /\ frames' = Front(frames)
                /\ UNCHANGED pc
  /\ UNCHANGED <<fdvar, registered, child, next, failed>>

-----------------------------------------------------------------------------
Redirecting ==
  \/ \E u \in UserFd, f \in File : OpenRedir(u, f)
  \/ \E u, src \in UserFd : DupRedir(u, src)
  \/ \E u \in UserFd : CloseRedir(u)
  \/ Catch
  \/ Leave

Reading ==
  \E p \in Internal :
    \/ \E f \in File : OpenInput(p, f)
    \/ EndOfInput(p)
    \/ CloseInput(p)

Forking ==
  \/ Fork
  \/ Release
  \/ Apply
  \/ CloseOnFork
  \/ Unwind

AtOnce ==
  \/ \E u \in UserFd, f \in File : OpenNow(u, f)
  \/ \E u, src \in UserFd : DupNow(u, src)
  \/ \E u \in UserFd : CloseNow(u)
  \/ ImmediateRelease
  \/ ImmediateApply
  \/ Throw

Next == Redirecting \/ Reading \/ Forking \/ AtOnce

Spec == Init /\ [][Next]_vars
=============================================================================
