--------------------------- MODULE MCEthInterface ---------------------------
(* Instances of EthInterface for TLC. *)
EXTENDS EthInterface, TLC
=============================================================================
