----------------------------- MODULE MCChildren -----------------------------
(***************************************************************************)
(* The list of two children, and pipelines of up to four commands, under   *)
(* fairness: a behaviour is one of one or the other, whose variables stay  *)
(* where nothing can be done.                                              *)
(***************************************************************************)
EXTENDS ProcsView, Pipes

\* Standard output and input, and wires that may collide with a pipe's ends.
MCWires == {[out |-> 1, in |-> 0], [out |-> 2, in |-> 3], [out |-> 3, in |-> 0]}

\* Nothing is piped.
NoPipes ==
  /\ op = "here" /\ wires = <<[out |-> 1, in |-> 0]>> /\ endless = FALSE
  /\ fds = [p \in {Shell} \cup Child |-> NoFds]
  /\ step = [p \in {Shell} \cup Child |-> IF p = Shell THEN "done" ELSE "none"]
  /\ argv = [k \in Child |-> [r |-> None, w |-> None, inpipe |-> None]]
  /\ io = [k \in Child |-> [read |-> None, write |-> None]]
  /\ hand = [k \in Child |-> FALSE]
  /\ filled = [q \in Pipe |-> 0]

MCInit == Init /\ (PipesInit \/ NoPipes)

MCNext ==
  \/ NoPipes /\ Next /\ UNCHANGED pipevars
  \/ PipesNext /\ UNCHANGED vars

MCSpec ==
  /\ MCInit /\ [][MCNext]_<<vars, pipevars>>
  /\ WF_vars(Waiting) /\ PipesFairness
=============================================================================
