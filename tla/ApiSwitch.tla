------------------------------ MODULE ApiSwitch ------------------------------
(***************************************************************************)
(* What include/iot_socket_mux.h promises of the multiplexer: one socket   *)
(* API is registered at a time, or none; a call is served by the API that  *)
(* is registered at one moment of it, and refused when none is.            *)
(***************************************************************************)
CONSTANTS Threads, Apis, Null

VARIABLES
  current,   (* the registered API, or Null                                *)
  serving    (* for each thread: the API that serves its call, "refused",  *)
             (* or "none"                                                  *)

vars == <<current, serving>>

Init == /\ current = Null
        /\ serving = [t \in Threads |-> "none"]

Register(a) == /\ current' = a
               /\ UNCHANGED serving

Dispatch(t) == /\ serving[t] = "none"
               /\ serving' = [serving EXCEPT ![t] = IF current = Null THEN "refused" ELSE current]
               /\ UNCHANGED current

Finish(t) == /\ serving[t] # "none"
             /\ serving' = [serving EXCEPT ![t] = "none"]
             /\ UNCHANGED current

Next == \/ \E a \in Apis \cup {Null} : Register(a)
        \/ \E t \in Threads : Dispatch(t) \/ Finish(t)

Spec == Init /\ [][Next]_vars
=============================================================================
