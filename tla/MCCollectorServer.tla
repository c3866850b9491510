-------------------------- MODULE MCCollectorServer --------------------------
(* CollectorServer with what TLC needs on top: sessions are interchangeable. *)
EXTENDS CollectorServer, TLC

Symmetry == Permutations(Sessions)
=============================================================================
