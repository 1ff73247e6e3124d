---------------------------- MODULE MCExceptions ----------------------------
(***************************************************************************)
(* Small instances of ExceptionsView.  A settor multiplies the states, so  *)
(* activations are bounded tighter where there is one.                     *)
(***************************************************************************)
EXTENDS ExceptionsView

MCMaxStack == [s \in Settors |-> IF s = "none" THEN 6 ELSE 4]
=============================================================================
