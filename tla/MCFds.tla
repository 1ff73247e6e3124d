-------------------------------- MODULE MCFds --------------------------------
(***************************************************************************)
(* Small instances of FdsView for TLC.  The initial states are cut to one  *)
(* terminal on descriptors 0-2 and at most one inherited descriptor.       *)
(***************************************************************************)
EXTENDS FdsView

CONSTANT Tty   \* the file open on descriptors 0-2 at startup

MCInit ==
  /\ Init
  /\ \A n \in Std : table[n] = Tty
  /\ \A n \in Fd \ Std : table[n] \in {Closed, Tty}
  /\ \A m, n \in Fd \ Std : table[m] # Closed /\ table[n] # Closed => m = n

MCSpec == MCInit /\ [][Next]_vars

\* The programs that do nothing at once to a descriptor already redirected.
MCLexical == MCInit /\ [][Next /\ ~ Overtaken']_vars
=============================================================================
