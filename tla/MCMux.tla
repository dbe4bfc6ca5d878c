------------------------------- MODULE MCMux --------------------------------
(* Instances of Mux for TLC. *)
EXTENDS Mux, TLC

(* Threads and the APIs are interchangeable. *)
Symmetry == Permutations(Threads) \cup Permutations(Apis)
=============================================================================
