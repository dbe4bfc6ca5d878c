----------------------------- MODULE MCVSocket -----------------------------
(* Instances of VSocket for TLC. *)
EXTENDS VSocket, TLC

(* Threads are interchangeable in every safety property. *)
ThreadSymmetry == Permutations(Threads)
=============================================================================
