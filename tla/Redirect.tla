------------------------------ MODULE Redirect ------------------------------
(***************************************************************************)
(* What redirection promises to a program run by es, with no mention of    *)
(* how it is kept: every user descriptor has a file or is closed, a        *)
(* redirection lasts exactly as long as its command, a redirection by exec *)
(* alone stays, and a forked child starts from what the redirections       *)
(* around the fork add up to.                                              *)
(***************************************************************************)
EXTENDS Naturals, Sequences

CONSTANTS
  UserFd,   \* the descriptor numbers a program may name
  File,     \* the open files
  Closed    \* what a closed descriptor holds: not a file

VARIABLES
  view,     \* what each user descriptor is to a program started now
  saved,    \* the views to go back to, one per redirection still open
  mode      \* "shell", "forking" (a child that is not ready yet), "child", or
            \* "dead": stopped for lack of a descriptor

absVars == <<view, saved, mode>>

Content == File \cup {Closed}

AbsInit ==
  /\ view \in [UserFd -> Content]
  /\ saved = << >>
  /\ mode = "shell"

Running == mode \in {"shell", "child"}

\* A command begins with descriptor u redirected (to a file, or closed).
Begin(u, c) ==
  /\ Running
  /\ saved' = Append(saved, view)
  /\ view' = [view EXCEPT ![u] = c]
  /\ UNCHANGED mode

\* The command ends: everything is as it was before it.
End ==
  /\ Running
  /\ saved # << >>
  /\ view' = saved[Len(saved)]
  /\ saved' = SubSeq(saved, 1, Len(saved) - 1)
  /\ UNCHANGED mode

\* A redirection by exec, or of a child's last command, applies to the shell
\* itself: the end of a command around it does not take it back.
Set(u, c) ==
  /\ Running
  /\ view' = [view EXCEPT ![u] = c]
  /\ saved' = [k \in 1 .. Len(saved) |-> [saved[k] EXCEPT ![u] = c]]
  /\ UNCHANGED mode

\* The history goes on in a child, which returns to no enclosing command.
Child ==
  /\ Running
  /\ mode' = "forking"
  /\ saved' = << >>
  /\ UNCHANGED view

\* However much the child has to move about, it starts from the same view.
Ready ==
  /\ mode = "forking"
  /\ mode' = "child"
  /\ UNCHANGED <<view, saved>>

\* A descriptor could not be had: the process gives up.
GiveUp ==
  /\ mode' = "dead"
  /\ view' = [u \in UserFd |-> Closed]
  /\ saved' = << >>

AbsNext ==
  \/ \E u \in UserFd, c \in Content : Begin(u, c) \/ Set(u, c)
  \/ End
  \/ Child
  \/ Ready
  \/ GiveUp

AbsSpec == AbsInit /\ [][AbsNext]_absVars
=============================================================================
