--------------------------- MODULE MCFreeRtosLayer ---------------------------
(* The FreeRTOS+TCP layer on a small instance.                             *)
EXTENDS FreeRtosLayer, TLC
=============================================================================
