----------------------------- MODULE MCTcpConn -----------------------------
(* TcpConn and its refinement mapping for model checking. *)
EXTENDS TcpStream, TLC

Symmetry == Permutations(Conns)
=============================================================================
