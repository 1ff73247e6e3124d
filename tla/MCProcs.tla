------------------------------ MODULE MCProcs -------------------------------
(***************************************************************************)
(* Procs on a small instance: values are interchangeable, and a list of    *)
(* three cells has a head, a middle and an end to unlink.                  *)
(***************************************************************************)
EXTENDS ProcsView

LOCAL INSTANCE TLC

Symmetry == Permutations(Pid) \cup Permutations(Status) \cup Permutations(Cell)
=============================================================================
