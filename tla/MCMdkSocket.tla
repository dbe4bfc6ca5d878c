---------------------------- MODULE MCMdkSocket -----------------------------
(* Instances of MdkSocket for TLC. *)
EXTENDS MdkSocket, TLC

(* Threads are interchangeable in every safety property. *)
ThreadSymmetry == Permutations(Threads)
=============================================================================
