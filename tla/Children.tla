------------------------------ MODULE Children ------------------------------
(***************************************************************************)
(* What waiting for child processes promises: each child that is started   *)
(* runs, ends with a status, and is reported to whoever waits for it once, *)
(* after it has ended, and with its own status if no wait was interrupted. *)
(***************************************************************************)
CONSTANTS
  Pid,      \* process identifiers
  Status,   \* exit statuses
  Junk      \* the status of a child that has not ended

VARIABLES
  state,    \* "none", "running" or "ended", of each child
  ending,   \* the status a child has ended with
  report,   \* the last child reported, with its status, or a wait that failed
  signalled \* a signal has interrupted a wait

absVars == <<state, ending, report, signalled>>

NoPid == 0
NoReport == [pid |-> "none"]
Failed(p) == [failed |-> p]

AbsInit ==
  /\ state = [p \in Pid |-> "none"]
  /\ ending = [p \in Pid |-> Junk]
  /\ report = NoReport
  /\ signalled = FALSE

Start(p) ==
  /\ report' = NoReport
  /\ UNCHANGED signalled
  /\ ending' = [ending EXCEPT ![p] = Junk]
  /\ state[p] = "none"
  /\ state' = [state EXCEPT ![p] = "running"]

End(p, s) ==
  /\ report' = NoReport
  /\ UNCHANGED signalled
  /\ ending' = [ending EXCEPT ![p] = s]
  /\ state[p] = "running"
  /\ state' = [state EXCEPT ![p] = "ended"]

AskFor ==
  /\ report' = NoReport
  /\ UNCHANGED <<ending, signalled, state>>

Report(p, s) ==
  /\ report' = [pid |-> p, status |-> s]
  /\ UNCHANGED <<ending, signalled>>
  /\ s = ending[p] \/ signalled
  /\ state[p] = "ended"
  /\ state' = [state EXCEPT ![p] = "none"]

\* A wait for a child, or for any, fails only for want of it.
Fail(p) ==
  /\ report' = Failed(p)
  /\ \/ p # NoPid /\ state[p] = "none"
     \/ p = NoPid /\ \A q \in Pid : state[q] = "none"
     \/ signalled
  /\ UNCHANGED <<ending, signalled, state>>

Signal ==
  /\ signalled' = TRUE
  /\ UNCHANGED <<report, ending, state>>

AbsNext ==
  \/ \E p \in Pid : Start(p)
  \/ \E p \in Pid \cup {NoPid} : Fail(p)
  \/ \E p \in Pid, s \in Status : End(p, s)
  \/ \E p \in Pid, s \in Status \cup {Junk} : Report(p, s)
  \/ AskFor
  \/ Signal

AbsSpec == AbsInit /\ [][AbsNext]_absVars
=============================================================================
