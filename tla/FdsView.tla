------------------------------- MODULE FdsView -------------------------------
(***************************************************************************)
(* The properties of deferred redirection.  View says what the deferred    *)
(* list and the reserved list amount to: the table a child would see.  It  *)
(* is the refinement mapping to module Redirect.                           *)
(***************************************************************************)
EXTENDS Fds

\* Entries still to be applied: all of them outside a fork.
Pending(k) == next .. k

\* The descriptors that belong to es and not to the program it runs.
EntryFd == {i \in Pending(Len(deftab)) : deftab[i].real # None}
InputFd == {p \in registered : fdvar[p] # None}
OwnedDefer == {deftab[i].real : i \in EntryFd}
OwnedInternal == {fdvar[p] : p \in InputFd}

LastFor(u, k) ==
  CHOOSE i \in Pending(k) :
    /\ deftab[i].user = u
    /\ \A j \in i + 1 .. k : deftab[j].user # u

ContentOf(r) == IF r \in Fd THEN table[r] ELSE Closed

\* Descriptors 0-2 are shared: es may read its commands from descriptor 0.
Base(u) ==
  IF u \in OwnedDefer \/ (u >= 3 /\ u \in OwnedInternal) THEN Closed
  ELSE ContentOf(u)

\* What user descriptor u is, considering the k outermost redirections.
ViewUpTo(k) ==
  [u \in UserFd |->
     IF \E i \in Pending(k) : deftab[i].user = u
     THEN ContentOf(deftab[LastFor(u, k)].real)
     ELSE Base(u)]

View == ViewUpTo(Len(deftab))

\* How many are on the list: while a redirection is done at once its pair,
\* which stands before the list, is not one of them.
defcount ==
  IF pc \in {"immediate", "immediate_apply", "throw"} THEN Len(deftab) - 1
  ELSE Len(deftab)

-----------------------------------------------------------------------------
TypeOK ==
  /\ table \in [Fd -> Content]
  /\ deftab \in Seq(Defer)
  /\ fdvar \in [Internal -> Fd \cup {None}]
  /\ registered \subseteq Internal
  /\ frames \in Seq(Nat)
  /\ child \in BOOLEAN
  /\ pc \in PC
  /\ next \in Nat \ {0}
  /\ failed \in BOOLEAN

EntriesOpen == \A i \in EntryFd : table[deftab[i].real] # Closed
EntriesDistinct ==
  \A i, j \in EntryFd : deftab[i].real = deftab[j].real => i = j
InputsOpen == \A p \in InputFd : table[fdvar[p]] # Closed
InputsDistinct == \A p, q \in InputFd : fdvar[p] = fdvar[q] => p = q
EntriesNotInputs ==
  \A i \in EntryFd, p \in InputFd : deftab[i].real # fdvar[p]

\* Every descriptor es believes it owns is open, and owned once: releasefd,
\* undefer, mvfd and the closing of an input never close or move one that
\* another variable still names.  (fd.c: dodeferred, undefer, releasefd)
OwnedOnce ==
  /\ EntriesOpen
  /\ EntriesDistinct
  /\ InputsOpen
  /\ InputsDistinct
  /\ EntriesNotInputs

\* Redirections are undone last in, first out: the ticket run_redir gives
\* back is that of the newest entry. (fd.c: assert(ticket == defcount) in
\* undefer)
UndeferInOrder ==
  pc \in {"run", "throw"} /\ frames # << >> /\ Last(frames) # CatchFrame =>
    Last(frames) = defcount

-----------------------------------------------------------------------------
(* What makes the invariants above inductive.                              *)

\* Where closefds() or an immediate dodeferred() is, and what that implies
\* for the entry it works on: releasefd() has cleared its descriptor.
PcInv ==
  /\ pc = "run" => next = 1
  /\ pc = "release" => next <= Len(deftab) + 1
  /\ pc \in {"apply", "thrown"} => next <= Len(deftab)
  /\ pc = "apply" => ~ Held(deftab[next].user)
  /\ pc \in {"immediate", "immediate_apply", "throw"} => Len(deftab) >= 1 /\ next = 1
  /\ pc = "throw" => failed
  /\ pc = "immediate_apply" => ~ Held(deftab[1].user)

\* The tickets on the handler stack are 1, 2, ... defcount, in order.
FramesOrdered ==
  \A i, j \in 1 .. Len(frames) :
    i < j /\ frames[i] # CatchFrame /\ frames[j] # CatchFrame
      => frames[i] < frames[j]

Tickets(n) ==
  /\ \A k \in 1 .. n : \E i \in 1 .. Len(frames) : frames[i] = k
  /\ \A i \in 1 .. Len(frames) : frames[i] <= n

FramesInv ==
  /\ FramesOrdered
  /\ pc \in {"run", "release", "apply"} => Tickets(Len(deftab))
  /\ pc \in {"immediate", "immediate_apply", "throw"} => Tickets(Len(deftab) - 1)

IInv == TypeOK /\ OwnedOnce /\ PcInv /\ FramesInv

\* Where the program closes none of 0-2 they stay open, but for the one that
\* an entry is about to be put on, so that no descriptor es opens for itself
\* is one of them.  A failing dup() in a redirection done at once breaks it:
\* the entry that held the descriptor now closes what it was to redirect.
StdOpen ==
  /\ pc \in {"run", "release", "immediate"} => \A n \in Std : table[n] # Closed
  /\ pc \in {"apply", "immediate_apply"} =>
       \A n \in Std : n = deftab[next].user \/ table[n] # Closed
  /\ \A i \in EntryFd : deftab[i].real \notin Std
  /\ pc \in {"run", "release", "apply", "immediate", "immediate_apply"} =>
       \A i \in Pending(Len(deftab)) : deftab[i].real = None => deftab[i].user \notin Std

StdInv == failed \/ StdOpen

-----------------------------------------------------------------------------
(* The refinement: redirections last as long as their commands, a child    *)
(* starts with the view at the fork, and none of the shell's descriptors.  *)
(* Once a descriptor could not be had nothing is promised of the views.    *)

Stopped == failed \/ pc \in {"thrown", "panic", "escaped", "exited"}

Seen == IF Stopped THEN [u \in UserFd |-> Closed] ELSE View
Saved ==
  IF Stopped \/ pc \in {"release", "apply"} THEN << >>
  ELSE [k \in 1 .. defcount |->
          IF pc = "run" THEN ViewUpTo(k - 1) ELSE ViewUpTo(k)]
Mode ==
  IF Stopped THEN "dead"
  ELSE IF pc \in {"release", "apply"} THEN "forking"
  ELSE IF child THEN "child" ELSE "shell"

Abstract == INSTANCE Redirect WITH view <- Seen, saved <- Saved, mode <- Mode

\* Deferral implements lexically scoped redirection, and a redirection by
\* exec applies to the shell from then on.  (fd.c: the comment before deftab,
\* and closefds; es.1: "If the exec contains only redirections, then these
\* redirections apply to the current shell")
Refines == Abstract!AbsSpec

\* A redirection is done at once on a descriptor that one still deferred
\* around it redirects too: closefds() will apply the older one over it.
Overtaken ==
  pc = "immediate" /\ \E i \in 2 .. Len(deftab) : deftab[i].user = deftab[1].user

\* A deferred descriptor is looked up as the child would see it.
\* (fd.c: "fdmap -- turn a deferred (user) fd into a real fd")
FdmapFindsDeferred ==
  pc = "run" =>
    \A u \in UserFd :
      isdeferred(u) => ContentOf(fdmap(u)) = View[u]

\* When the child has applied its redirections, nothing es keeps for itself
\* is on standard output or standard error, where closefds() would leave it
\* open. (fd.c: "when we fork, we close all the descriptors on this list")
ReservedAreClosable ==
  pc = "release" /\ next > Len(deftab) =>
    \A p \in registered : fdvar[p] \notin {1, 2}

\* unregisterfd is only ever asked for an address on the reserved list.
\* (fd.c: the panic at the end of unregisterfd)
NeverPanics == pc # "panic"

\* A new child does not run the handlers of its parent.
\* (except.c: "newchildcatcher -- remove the current handler chain for a new
\* child")
NeverEscapes == pc # "escaped"
=============================================================================
