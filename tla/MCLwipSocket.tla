---------------------------- MODULE MCLwipSocket ----------------------------
(* Instances of LwipSocket for TLC. *)
EXTENDS LwipSocket, TLC

(* Threads are interchangeable in every safety property. *)
ThreadSymmetry == Permutations(Threads)
=============================================================================
