------------------------------ MODULE MCCondVar ------------------------------
(* Instances of CondVar for TLC.                                           *)
EXTENDS CondVar

\* The threads are interchangeable, but for the restored one.
Symmetry == Permutations(Threads \ Restored)
=============================================================================
