----------------------------- MODULE MCDelivery -----------------------------
(* Delivery with what TLC needs on top: processes and slots are             *)
(* interchangeable in the safety runs.                                      *)
EXTENDS Delivery, TLC

Symmetry == Permutations(Procs) \cup Permutations(Slots)
=============================================================================
