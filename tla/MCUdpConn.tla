----------------------------- MODULE MCUdpConn -----------------------------
(* UdpConn for TLC: sessions are interchangeable. *)
EXTENDS UdpConn, TLC

Symmetry == Permutations(Sessions)
=============================================================================
