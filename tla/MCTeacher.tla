------------------------------ MODULE MCTeacher ------------------------------
(* Teacher with what TLC needs on top: runs are interchangeable.            *)
EXTENDS Teacher, TLC

Symmetry == Permutations(Runs)
=============================================================================
