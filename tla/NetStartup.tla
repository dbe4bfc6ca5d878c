----------------------------- MODULE NetStartup -----------------------------
(***************************************************************************)
(* layer/FreeRTOS_Plus_TCP/socket_startup.c: the stack is initialised, and *)
(* the thread that starts the application waits for the network, which the *)
(* stack's event hook reports through the variable NetUp.                  *)
(*                                                                         *)
(* NetUp is shared without volatile.  osDelay is a call the compiler       *)
(* cannot see into, so NetUp is read again after it; a value read since    *)
(* may be used again by the test after the loop.                           *)
(***************************************************************************)
EXTENDS Integers

CONSTANTS StartupTimeout,   (* ms to wait for the network, 30000           *)
          StartupStep       (* ms between two looks at NetUp, 200          *)

ASSUME StartupAssumption == /\ StartupStep \in Nat \ {0}
                            /\ StartupTimeout \in Nat
                            /\ StartupTimeout % StartupStep = 0

VARIABLES
  NetUp,      (* set by the event hook                                     *)
  spc,        (* where socket_startup is                                   *)
  tout,       (* its counter                                               *)
  seenUp,     (* it has read 1 from NetUp since the last osDelay           *)
  stackReady, (* FreeRTOS_IPInit has succeeded: the IP task runs           *)
  wasUp,      (* history: the network has been up                          *)
  waited      (* history: ms spent in osDelay                              *)

startup == <<NetUp, spc, tout, seenUp, stackReady, wasUp, waited>>

StartupInit == /\ NetUp = 0
               /\ spc = "init"
               /\ tout = 0
               /\ seenUp = FALSE
               /\ stackReady = FALSE
               /\ wasUp = FALSE
               /\ waited = 0

StartupTypeOK == /\ NetUp \in {0, 1}
                 /\ spc \in {"init", "loop", "delay", "test", "up", "down", "running"}
                 /\ tout \in 0 .. StartupTimeout
                 /\ seenUp \in BOOLEAN
                 /\ stackReady \in BOOLEAN
                 /\ wasUp \in BOOLEAN
                 /\ waited \in 0 .. StartupTimeout

(* FreeRTOS_IPInit, which may fail.                                        *)
IpInit ==
  /\ spc = "init"
  /\ \/ stackReady' = TRUE /\ spc' = "loop" /\ tout' = StartupTimeout
     \/ spc' = "test" /\ UNCHANGED <<stackReady, tout>>
  /\ UNCHANGED <<NetUp, seenUp, wasUp, waited>>

(* What a read of NetUp may give.                                          *)
ReadNetUp == {NetUp} \cup (IF seenUp THEN {1} ELSE {})

(* One round of the loop: without a delay when the network is up.          *)
LookStays ==   \* mutant: the counter counts delays only
  /\ spc = "loop" /\ tout # 0
  /\ \/ 0 \in ReadNetUp /\ spc' = "delay" /\ UNCHANGED <<tout, seenUp>>
     \/ 1 \in ReadNetUp /\ seenUp' = TRUE /\ UNCHANGED <<spc, tout>>
  /\ UNCHANGED <<NetUp, stackReady, wasUp, waited>>

Look ==
  /\ spc = "loop" /\ tout # 0
  /\ \/ 0 \in ReadNetUp /\ spc' = "delay" /\ UNCHANGED <<tout, seenUp>>
     \/ 1 \in ReadNetUp /\ seenUp' = TRUE /\ tout' = tout - StartupStep /\ UNCHANGED spc
  /\ UNCHANGED <<NetUp, stackReady, wasUp, waited>>

DelayedTwice ==   \* mutant: the round with a delay counts twice
  /\ spc = "delay"
  /\ tout' = IF tout > StartupStep THEN tout - 2 * StartupStep ELSE 0
  /\ waited' = waited + StartupStep
  /\ seenUp' = FALSE
  /\ spc' = "loop"
  /\ UNCHANGED <<NetUp, stackReady, wasUp>>

Delayed ==
  /\ spc = "delay"
  /\ tout' = tout - StartupStep
  /\ waited' = waited + StartupStep
  /\ seenUp' = FALSE
  /\ spc' = "loop"
  /\ UNCHANGED <<NetUp, stackReady, wasUp>>

LoopEnds ==
  /\ spc = "loop" /\ tout = 0
  /\ spc' = "test"
  /\ UNCHANGED <<NetUp, tout, seenUp, stackReady, wasUp, waited>>

(* The result, from NetUp or from the value loaded in the last round.      *)
OutcomeIgnored ==   \* mutant: the result is not looked at
  /\ spc = "test"
  /\ spc' = "up"
  /\ UNCHANGED <<NetUp, tout, seenUp, stackReady, wasUp, waited>>

Outcome ==
  /\ spc = "test"
  /\ \/ 1 \in ReadNetUp /\ spc' = "up"
     \/ 0 \in ReadNetUp /\ spc' = "down"
  /\ UNCHANGED <<NetUp, tout, seenUp, stackReady, wasUp, waited>>

(* vApplicationIPNetworkEventHook, called by the IP task.                  *)
NetworkEvent ==
  /\ stackReady
  /\ NetUp' = 1 - NetUp
  /\ wasUp' = TRUE
  /\ UNCHANGED <<spc, tout, seenUp, stackReady, waited>>

StartupStepTaken == IpInit \/ Look \/ Delayed \/ LoopEnds \/ Outcome
=============================================================================
