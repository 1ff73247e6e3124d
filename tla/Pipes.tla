-------------------------------- MODULE Pipes --------------------------------
(***************************************************************************)
(* The primitives of prim-io.c that run commands joined by pipes: $&pipe,  *)
(* $&here, $&readfrom, $&writeto and $&backquote. Every command is a child *)
(* of the shell, with a copy of its descriptors; a read blocks while there *)
(* is nothing in the pipe and a write end of it is open anywhere, and a    *)
(* write while the pipe is full and a read end is.                         *)
(*                                                                         *)
(* The commands are external ones. The redirection of the last one is      *)
(* deferred: only its process sees it (module Fds).                        *)
(***************************************************************************)
EXTENDS Integers, Sequences, FiniteSets

CONSTANTS
  Commands,   \* bound: commands of a pipeline
  Wires,      \* the pairs of descriptors that |[out=in] joins
  MaxFd,      \* bound on descriptors
  Cap         \* what a pipe holds

ASSUME PipesAssumption ==
  /\ Commands \in Nat /\ Commands > 1
  /\ MaxFd \in Nat /\ MaxFd > 4
  /\ Cap \in Nat \ {0}
  /\ \A wire \in Wires : wire.out \in 0 .. MaxFd /\ wire.in \in 0 .. MaxFd

VARIABLES
  op,         \* the primitive
  wires,      \* its wires; the last one's "in" is where the last command reads
  endless,    \* the first command writes for ever, and the last one stops
  fds,        \* the descriptors of the shell, 0, and of its children
  step,       \* where each is
  argv,       \* what the shell had in p[0], p[1] and inpipe at each fork
  io,         \* where each command reads and writes
  hand,       \* it has read what it has not written yet
  filled      \* what is in each pipe

pipevars == <<op, wires, endless, fds, step, argv, io, hand, filled>>

None == -1
Fd == 0 .. MaxFd
Child == 1 .. Commands
Shell == 0
Pipe == 1 .. Commands - 1
End == [pipe : Pipe, side : {"r", "w"}]
File == [pipe |-> 0, side |-> "none"]
Closed == [pipe |-> 0, side |-> "closed"]

AtStart == [d \in Fd |-> IF d < 3 THEN File ELSE Closed]
NoFds == [d \in Fd |-> Closed]
N == Len(wires) + 1     \* the last command

PipesInit ==
  /\ op \in {"pipe", "here", "readfrom", "writeto", "backquote"}
  /\ wires \in UNION {[1 .. n -> Wires] : n \in 1 .. Commands - 1}
  /\ op # "pipe" => Len(wires) = 1
  /\ op \in {"readfrom", "writeto", "backquote"} => wires[1] = [out |-> 1, in |-> 0]
  /\ endless \in BOOLEAN
  /\ op \in {"here", "backquote"} => ~endless
  /\ fds = [p \in {Shell} \cup Child |-> IF p = Shell THEN AtStart ELSE NoFds]
  /\ step = [p \in {Shell} \cup Child |-> IF p = Shell THEN "loop" ELSE "none"]
  /\ argv = [k \in Child |-> [r |-> None, w |-> None, inpipe |-> None]]
  /\ io = [k \in Child |-> [read |-> None, write |-> None]]
  /\ hand = [k \in Child |-> FALSE]
  /\ filled = [q \in Pipe |-> 0]

-----------------------------------------------------------------------------
(* Descriptors of one process.                                             *)

Least(S) == CHOOSE d \in S : \A e \in S : d <= e
Open(t) == {d \in Fd : t[d] = Closed}
Lower(t) == Least(Open(t))
Upper(t) == Least(Open(t) \ {Lower(t)})

close(t, d) == IF d = None THEN t ELSE [t EXCEPT ![d] = Closed]
mvfd(t, old, new) == IF old = new THEN t ELSE [t EXCEPT ![new] = t[old], ![old] = Closed]

\* Anyone's write or read ends of a pipe.
Ends(q, side) == {p \in {Shell} \cup Child : \E d \in Fd : fds[p][d] = [pipe |-> q, side |-> side]}

-----------------------------------------------------------------------------
(* The shell.                                                              *)

Forked == Cardinality({k \in Child : step[k] # "none"})

\* Mutant: the shell keeps the write end of the pipe of a backquote.
forkedKeeping(t, r, w, inpipe) ==
  IF op = "writeto" THEN close(t, r)
  ELSE IF op = "backquote" THEN t ELSE close(close(t, inpipe), w)

\* What the shell closes after it has forked a child for one end of a pipe.
forked(t, r, w, inpipe) ==
  IF op = "writeto" THEN close(t, r) ELSE close(close(t, inpipe), w)

\* pipefork and the rest of the loop of $&pipe, or the start of another one.
pipefork ==
  LET k == Forked + 1
      t == fds[Shell]
      r == Lower(t)
      w == Upper(t)
      inpipe == IF k = 1 \/ op # "pipe" THEN None ELSE argv[k - 1].r
      both == [t EXCEPT ![r] = [pipe |-> k, side |-> "r"], ![w] = [pipe |-> k, side |-> "w"]]
  IN /\ step[Shell] = "loop" /\ k < N
     /\ fds' = [fds EXCEPT ![k] = both, ![Shell] = forked(both, r, w, inpipe)]
     /\ step' = [step EXCEPT ![k] = "wire"]
     /\ argv' = [argv EXCEPT ![k] = [r |-> r, w |-> w, inpipe |-> inpipe]]
     /\ UNCHANGED <<op, wires, endless, io, hand, filled>>

\* pipe() or fork() fails: nothing that is open is closed, and no child is
\* waited for.
pipeforkFails ==
  LET t == fds[Shell]
  IN /\ step[Shell] = "loop" /\ Forked + 1 < N
     /\ \/ UNCHANGED fds
        \/ fds' = [fds EXCEPT ![Shell][Lower(t)] = [pipe |-> Forked + 1, side |-> "r"],
                              ![Shell][Upper(t)] = [pipe |-> Forked + 1, side |-> "w"]]
     /\ step' = [step EXCEPT ![Shell] = "failed"]
     /\ UNCHANGED <<op, wires, endless, argv, io, hand, filled>>

\* The last command, whose child makes the deferred redirection; bqinput, for
\* a backquote.
runlast ==
  LET end == argv[N - 1].r
      t == fds[Shell]
      to == wires[N - 1].in
  IN /\ step[Shell] = "loop" /\ Forked = N - 1
     /\ UNCHANGED <<op, wires, endless, argv, hand, filled>>
     /\ IF op = "backquote"
        THEN step' = [step EXCEPT ![Shell] = "bqinput"] /\ UNCHANGED <<fds, io>>
        ELSE /\ step' = [step EXCEPT ![Shell] = "eval", ![N] = "run"]
             /\ fds' = [fds EXCEPT ![N] = IF op \in {"pipe", "here"} THEN mvfd(t, end, to) ELSE t]
             /\ io' = [io EXCEPT ![N] =
                         CASE op \in {"pipe", "here"} -> [read |-> to, write |-> None]
                           [] op = "readfrom" -> [read |-> end, write |-> None]
                           [] op = "writeto" -> [read |-> None, write |-> argv[1].w]]

\* The end of the pipe that the shell keeps for the last command.
Kept == IF op = "writeto" THEN argv[1].w ELSE argv[N - 1].r

\* The last command has ended, or a signal or an error leaves it, and the
\* shell undoes the redirection or closes the pipe. $&pipe lets its children
\* run on if it is left.
evalEnds ==
  /\ step[Shell] = "eval"
  /\ \/ step[N] = "ended" /\ step' = [step EXCEPT ![Shell] = IF op = "here" THEN "done" ELSE "wait"]
     \/ step' = [step EXCEPT ![Shell] = IF op \in {"pipe", "here"} THEN "thrown" ELSE "waitthrow"]
  /\ fds' = [fds EXCEPT ![Shell] = close(@, Kept)]
  /\ UNCHANGED <<op, wires, endless, argv, io, hand, filled>>

\* ewaitfor, the last child first.
ewaitfor ==
  /\ step[Shell] \in {"wait", "waitthrow"}
  /\ \E k \in 1 .. N - 1 :
       /\ step[k] = "ended" /\ \A j \in k + 1 .. N - 1 : step[j] = "waited"
       /\ step' = [step EXCEPT ![k] = "waited",
                               ![Shell] = IF k > 1 THEN @
                                          ELSE IF @ = "wait" THEN "done" ELSE "thrown"]
  /\ UNCHANGED <<op, wires, endless, fds, argv, io, hand, filled>>

\* bqinput: the shell reads until there is no write end. A signal leaves it
\* with the pipe open and the child not waited for.
bqinput ==
  /\ step[Shell] = "bqinput"
  /\ UNCHANGED <<op, wires, endless, argv, io, hand>>
  /\ \/ /\ filled[1] > 0
        /\ filled' = [filled EXCEPT ![1] = @ - 1]
        /\ UNCHANGED <<fds, step>>
     \/ /\ filled[1] = 0 /\ Ends(1, "w") = {}
        /\ fds' = [fds EXCEPT ![Shell] = close(@, argv[1].r)]
        /\ step' = [step EXCEPT ![Shell] = "wait"]
        /\ UNCHANGED filled

bqinputThrows ==
  /\ step[Shell] = "bqinput"
  /\ step' = [step EXCEPT ![Shell] = "failed"]
  /\ UNCHANGED <<op, wires, endless, fds, argv, io, hand, filled>>

-----------------------------------------------------------------------------
(* The children.                                                           *)

\* Mutant: the child of $&pipe keeps the read end.
wiredKeeping(t, k) ==
  LET a == argv[k]
      in == IF a.inpipe = None THEN t ELSE mvfd(t, a.inpipe, wires[k - 1].in)
  IN CASE op = "pipe" -> mvfd(in, a.w, wires[k].out)
       [] op = "here" -> close(t, a.r)
       [] op = "readfrom" -> mvfd(close(t, a.r), a.w, 1)
       [] op = "writeto" -> mvfd(close(t, a.w), a.r, 0)
       [] op = "backquote" -> close(mvfd(t, a.w, 1), a.r)

\* The descriptors of a child when it runs its command. releasefd() moves
\* nothing: the ends of the pipe are not registered any more.
wired(t, k) ==
  LET a == argv[k]
      in == IF a.inpipe = None THEN t ELSE mvfd(t, a.inpipe, wires[k - 1].in)
  IN CASE op = "pipe" -> close(mvfd(in, a.w, wires[k].out), a.r)
       [] op = "here" -> close(t, a.r)
       [] op = "readfrom" -> mvfd(close(t, a.r), a.w, 1)
       [] op = "writeto" -> mvfd(close(t, a.w), a.r, 0)
       [] op = "backquote" -> close(mvfd(t, a.w, 1), a.r)

Wire(k) ==
  /\ step[k] = "wire"
  /\ fds' = [fds EXCEPT ![k] = wired(@, k)]
  /\ step' = [step EXCEPT ![k] = "run"]
  /\ io' = [io EXCEPT ![k] =
              CASE op = "pipe" -> [read |-> IF k = 1 THEN None ELSE wires[k - 1].in,
                                   write |-> wires[k].out]
                [] op = "here" -> [read |-> None, write |-> argv[k].w]
                [] op = "writeto" -> [read |-> 0, write |-> None]
                [] OTHER -> [read |-> None, write |-> 1]]
  /\ UNCHANGED <<op, wires, endless, argv, hand, filled>>

\* A command reads something and then writes something; the first one has it
\* already.
Ready(k) == hand[k] \/ io[k].read = None

Ended(k) ==
  /\ step' = [step EXCEPT ![k] = "ended"]
  /\ fds' = [fds EXCEPT ![k] = NoFds]
  /\ UNCHANGED <<hand, filled>>

Read(k) ==
  LET end == fds[k][io[k].read]
      q == end.pipe
  IN /\ step[k] = "run" /\ ~Ready(k)
     /\ UNCHANGED <<op, wires, endless, argv, io>>
     /\ \/ /\ end \in End /\ filled[q] > 0
           /\ filled' = [filled EXCEPT ![q] = @ - 1]
           /\ hand' = [hand EXCEPT ![k] = io[k].write # None]
           /\ UNCHANGED <<step, fds>>
        \/ /\ end \in End => filled[q] = 0 /\ Ends(q, "w") = {}
           /\ Ended(k)

Write(k) ==
  LET end == fds[k][io[k].write]
      q == end.pipe
  IN /\ step[k] = "run" /\ Ready(k) /\ io[k].write # None
     /\ UNCHANGED <<op, wires, endless, argv, io>>
     /\ \/ /\ end \in End /\ Ends(q, "r") # {} /\ filled[q] < Cap
           /\ filled' = [filled EXCEPT ![q] = @ + 1]
           /\ hand' = [hand EXCEPT ![k] = FALSE]
           /\ UNCHANGED <<step, fds>>
        \/ /\ end \in End => Ends(q, "r") = {}     \* SIGPIPE
           /\ Ended(k)

\* The one that need not read stops by itself, or the one that need not write.
Source(k) == step[k] = "run" /\ io[k].read = None
Sink(k) == step[k] = "run" /\ io[k].write = None
Stop(k) ==
  /\ IF endless THEN Sink(k) ELSE Source(k)
  /\ Ended(k)
  /\ UNCHANGED <<op, wires, endless, argv, io>>

-----------------------------------------------------------------------------
ShellNext == pipefork \/ runlast \/ (step[N] = "ended" /\ evalEnds) \/ ewaitfor \/ bqinput
ChildNext(k) == Wire(k) \/ Read(k) \/ Write(k)

PipesNext ==
  \/ pipefork \/ pipeforkFails \/ runlast \/ evalEnds \/ ewaitfor \/ bqinput \/ bqinputThrows
  \/ \E k \in Child : Wire(k) \/ Read(k) \/ Write(k) \/ Stop(k)

\* The kernel runs every process that can go on, and a command that stops by
\* itself does so some time.
PipesFairness ==
  /\ WF_pipevars(ShellNext)
  /\ \A k \in Child : WF_pipevars(ChildNext(k)) /\ WF_pipevars(Stop(k))

PipesSpec == PipesInit /\ [][PipesNext]_pipevars /\ PipesFairness

-----------------------------------------------------------------------------
\* A wire with the number of an end of the pipe that its command is given.
Collides(k) ==
  LET a == argv[k]
  IN op = "pipe" /\ (\/ wires[k].out = a.r
                     \/ k > 1 /\ wires[k - 1].in \in {a.r, a.w, wires[k].out})
Collided == \E k \in 1 .. Forked : k < N /\ Collides(k)

\* A command holds the ends of pipes that it is to read and write, where it is
\* to, and no other, so that a reader sees the end of what it reads when the
\* writer ends, and the writer is told when the reader has; but for wires that
\* collide with the pipe (the children of prim-io.c and their parent).
EndsOf(p) == {d \in Fd : fds[p][d] \in End}
Joined(k) ==
  EndsOf(k) = {d \in {io[k].read, io[k].write} : d # None}
    /\ (io[k].write # None => fds[k][io[k].write].side = "w")
    /\ (io[k].read # None => fds[k][io[k].read].side = "r")
PipesJoin ==
  /\ \A k \in Child :
       step[k] = "run" /\ ~Collided => Joined(k)
  /\ step[Shell] \in {"done", "thrown"} => EndsOf(Shell) = {}
  /\ step[Shell] = "done" /\ op # "here" => \A k \in 1 .. N - 1 : step[k] = "waited"

\* Every command of a pipeline ends, and the shell's wait for it, as soon as
\* its source has stopped or its sink has: no process holds on to an end of a
\* pipe that another one waits for; also when an exception leaves the last
\* command. Left out is what a fork that fails, or a signal in a backquote,
\* leaves behind.
PipelinesEnd ==
  <>[](\/ step[Shell] = "failed" \/ Collided
       \/ /\ step[Shell] \in {"done", "thrown"}
          /\ \A k \in 1 .. Forked : step[k] \in {"ended", "waited"})
=============================================================================
