---------------------------- MODULE FreeRtosLayer ----------------------------
(***************************************************************************)
(* The FreeRTOS+TCP layer: socket_startup brings the network up and then   *)
(* the threads of the application call the IoT Socket API.                 *)
(***************************************************************************)
EXTENDS NetStartup, FreeRtosSocket

vars == <<startup, sockets, calls>>

Init == StartupInit /\ StackInit /\ CallsInit

(* The application goes on when socket_startup has returned 0.  What there *)
(* is to remember of the wait is dropped, and the network event hook is    *)
(* followed no further: nobody reads NetUp any more.                       *)
AppStarts ==
  /\ spc = "up"
  /\ spc' = "running"
  /\ seenUp' = FALSE /\ waited' = 0 /\ tout' = 0
  /\ NetUp' = 1
  /\ UNCHANGED <<stackReady, wasUp, sockets, calls>>

Starting == /\ \/ StartupStepTaken
               \/ spc # "running" /\ NetworkEvent
            /\ UNCHANGED <<sockets, calls>>
Running  == /\ spc = "running"
            /\ \/ \E t \in Threads : Call(t) \/ Step(t)
               \/ Network
            /\ UNCHANGED startup

Next == Starting \/ AppStarts \/ Running
Spec == Init /\ [][Next]_vars

(* The thread of socket_startup is not starved: osDelay ends and the loop  *)
(* is executed.  Nothing obliges the network to act.                       *)
FairSpec == Spec /\ WF_vars(StartupStepTaken /\ UNCHANGED <<sockets, calls>>)

(***************************************************************************)
(* Properties.                                                             *)
(***************************************************************************)
(* The variables have their types.                                         *)
TypeOK == StartupTypeOK /\ StackTypeOK /\ CallsTypeOK

(* No socket is lost, and none is held that is gone: the application holds *)
(* the sockets of the stack and no others.  A Close that could not reach   *)
(* the IP task leaves the socket in both places, for the application to    *)
(* close it again.                                                         *)
SocketsAccounted == Allocated = HeldSockets

(* A socket that FIONBIO made non-blocking waits nowhere: both block times *)
(* are 0, whatever calls of SetOpt overlapped and whether or not it came   *)
(* out of Accept, until something else is asked of it.                     *)
NonBlockingNeverWaits ==
  \A a \in Allocated : /\ asked[a].rcv = "nowait" => sockets[a].rcv = 0
                       /\ asked[a].snd = "nowait" => sockets[a].snd = 0

(* The API is used only with a stack that runs and a network that has been *)
(* up: socket_startup lets the application go on in no other case, a       *)
(* failure of FreeRTOS_IPInit and a network that comes and goes included.  *)
StackIsThere == (\E t \in Threads : pc[t] # "idle") => stackReady /\ wasUp

(* A network that never came up is waited for as long as announced before  *)
(* it is called down.                                                      *)
StartupWaits == spc = "down" /\ stackReady /\ ~wasUp => waited = StartupTimeout

(* socket_startup returns, however the network comes and goes meanwhile.   *)
StartupReturns == <>(spc \in {"down", "up", "running"})

(* A call on a socket whose timeout was set to 0 does not give up: it goes *)
(* on until there is a connection, an end of the attempt or a datagram,    *)
(* whatever is set meanwhile and wherever the socket came from.            *)
Unanswered(t) ==
  LET s == sockets[req[t].a]
  IN  \/ pc[t] = "accept"   /\ s.kind = "tcp" /\ s.st = "listening" /\ s.pend = 0
      \/ pc[t] = "connect"  /\ s.st = "connecting"
      \/ pc[t] = "recvfrom" /\ s.kind = "udp" /\ s.st = "bound" /\ s.rx = 0

UnlimitedCallsWait ==
  [][\A t \in Threads : req[t].asks = "forever" /\ Unanswered(t) => pc'[t] = pc[t]]_vars
=============================================================================
