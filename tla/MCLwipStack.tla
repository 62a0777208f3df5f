---------------------------- MODULE MCLwipStack ----------------------------
(* LwipStack for model checking. *)
EXTENDS LwipStack, TLC

Symmetry == Permutations(Conns)
=============================================================================
