------------------------------ MODULE BsdStack ------------------------------
(***************************************************************************)
(* The TCP/IP stack under source/lwip and source/mdk_network, external to  *)
(* the repository: blocking BSD socket calls and select.                   *)
(*                                                                         *)
(* StackX(s) is the set of outcomes of call X in the present state of the  *)
(* stack.  An outcome carries the returned number n, below 0 on failure,   *)
(* the name of the error and the stack's next table of sockets.  A call    *)
(* that has to wait has no outcome yet.  Time is not measured: a wait that *)
(* is limited may end at any moment.                                       *)
(***************************************************************************)
EXTENDS Integers

CONSTANTS
  Stack,     (* "lwip" or "mdk", which differ in the first socket number,  *)
             (* in two errors and in what an accepted socket inherits      *)
  NumSocks,  (* NUM_SOCKS, the number of sockets                           *)
  MaxPend,   (* bound: connection requests queued at a listening socket    *)
  MaxRx      (* bound: units of data received and not read yet             *)

ASSUME StackAssumption == /\ Stack \in {"lwip", "mdk"}
                          /\ NumSocks \in Nat \ {0}
                          /\ MaxPend \in Nat /\ MaxRx \in Nat

VARIABLE stack   (* the stack's sockets *)

First == IF Stack = "lwip" THEN 0 ELSE 1
Socks == First .. First + NumSocks - 1

TimedOut == IF Stack = "lwip" THEN "EWOULDBLOCK" ELSE "ETIMEDOUT"
Refused  == IF Stack = "lwip" THEN "ECONNRESET" ELSE "ECONNREFUSED"

(* A socket: its life, its queues, whether it has a local address, and its *)
(* options: non-blocking mode, receive timeout in ms (0 is no timeout).    *)
SockStates == {"free", "open", "listening", "connecting", "refused", "connected", "eof"}

StackSock == [st : SockStates, pend : Nat, rx : Nat, named : BOOLEAN,
              nbio : BOOLEAN, timeo : Nat]

Fresh(st) == [st |-> st, pend |-> 0, rx |-> 0, named |-> FALSE,
              nbio |-> FALSE, timeo |-> 0]

St(s)     == IF s \in Socks THEN stack[s].st ELSE "free"
FreeSocks == {s \in Socks : stack[s].st = "free"}

StackInit   == stack = [s \in Socks |-> Fresh("free")]
StackTypeOK == stack \in [Socks -> StackSock]

Success(n, st)   == [n |-> n, err |-> "none", stack |-> st]
Failure(e)       == [n |-> -1, err |-> e, stack |-> stack]
Become(s, st)    == [stack EXCEPT ![s].st = st]

(* How long a call on s may wait, in ms: 0 returns at once.                *)
Forever    == -1
OwnWait(s) == IF s \notin Socks \/ stack[s].nbio THEN 0
              ELSE IF stack[s].timeo = 0 THEN Forever ELSE stack[s].timeo

NotReady(s) == CASE OwnWait(s) = Forever -> {}
                 [] OwnWait(s) = 0       -> {Failure("EWOULDBLOCK")}
                 [] OTHER                -> {Failure(TimedOut)}

StackSocket == IF FreeSocks = {} THEN {Failure("ENOMEM")}
               ELSE {Success(s, [stack EXCEPT ![s] = Fresh("open")]) : s \in FreeSocks}

(* Binding a socket a second time: the address it has, or another one.     *)
StackBind(s) ==
  CASE St(s) = "free" -> {Failure("EBADF")}
    [] St(s) = "open" /\ ~stack[s].named ->
         {Success(0, [stack EXCEPT ![s].named = TRUE]), Failure("EADDRINUSE")}
    [] St(s) = "open" /\ stack[s].named -> {Failure("EADDRINUSE"), Failure("EINVAL")}
    [] OTHER -> {Failure("EINVAL")}

(* lwIP does not ask for a local address.                                  *)
StackListen(s) ==
  CASE St(s) = "free" -> {Failure("EBADF")}
    [] St(s) = "open" /\ (Stack = "lwip" \/ stack[s].named) -> {Success(0, Become(s, "listening"))}
    [] St(s) = "connected" -> {Failure("EISCONN")}
    [] OTHER -> {Failure("EINVAL")}

Accepted(s) == [Fresh("connected") EXCEPT
                  !.named = TRUE,
                  !.nbio  = Stack = "mdk" /\ stack[s].nbio,
                  !.timeo = IF Stack = "mdk" THEN stack[s].timeo ELSE 0]

StackAccept(s) ==
  CASE St(s) = "free" -> {Failure("EBADF")}
    [] St(s) \notin {"free", "listening"} -> {Failure("EINVAL")}
    [] St(s) = "listening" /\ stack[s].pend = 0 -> NotReady(s)
    [] St(s) = "listening" /\ stack[s].pend > 0 ->
         IF FreeSocks = {} THEN {Failure("ENOMEM")}
         ELSE {Success(n, [stack EXCEPT ![s].pend = @ - 1, ![n] = Accepted(s)])
               : n \in FreeSocks}

(* A connection attempt is started; StackConnected is its end, which a     *)
(* call in blocking mode waits for.  lwIP does not connect a socket again  *)
(* that was refused.                                                       *)
StackConnect(s) ==
  CASE St(s) = "free" -> {Failure("EBADF")}
    [] St(s) = "open" ->
         {[Failure("EINPROGRESS") EXCEPT !.stack = [stack EXCEPT ![s].st = "connecting",
                                                                 ![s].named = TRUE]]}
    [] St(s) = "listening"  -> {Failure("EINVAL")}
    [] St(s) = "connecting" -> {Failure("EALREADY")}
    [] St(s) = "refused"    -> {[Failure(Refused) EXCEPT !.stack =
                                   IF Stack = "mdk" THEN Become(s, "open") ELSE stack]}
    [] St(s) \in {"connected", "eof"} -> {Failure("EISCONN")}

StackConnected(s) ==
  CASE St(s) = "connecting" -> {}
    [] St(s) \in {"connected", "eof"} -> {Success(0, stack)}
    [] St(s) = "refused" -> StackConnect(s)
    [] OTHER -> {Failure("ENOTCONN")}

StackRecv(s) ==
  CASE St(s) = "free" -> {Failure("EBADF")}
    [] St(s) \notin {"free", "connected", "eof"} -> {Failure("ENOTCONN")}
    [] St(s) \in {"connected", "eof"} /\ stack[s].rx > 0 ->
         {Success(1, [stack EXCEPT ![s].rx = @ - 1])}
    [] St(s) = "connected" /\ stack[s].rx = 0 -> NotReady(s)
    [] St(s) = "eof" /\ stack[s].rx = 0 -> {Success(0, stack)}

(* The send buffer may be full; then a send waits for the send timeout.    *)
StackSend(s) ==
  CASE St(s) = "free" -> {Failure("EBADF")}
    [] St(s) = "connected" ->
         {Success(1, stack), Failure(IF stack[s].nbio THEN "EWOULDBLOCK" ELSE TimedOut)}
    [] St(s) = "eof" -> {Success(1, stack), Failure("ECONNRESET")}
    [] St(s) = "connecting" /\ Stack = "lwip" -> {Failure("EINPROGRESS")}
    [] OTHER -> {Failure("ENOTCONN")}

(* select for one socket: the number of ready sockets, -1 for an error.    *)
Readable(s) == \/ St(s) = "eof"
               \/ St(s) \in {"connected", "listening"} /\ stack[s].rx + stack[s].pend > 0

SelectRead(s, wait) == CASE St(s) = "free" -> {-1}
                         [] Readable(s)    -> {1}
                         [] OTHER          -> IF wait = Forever THEN {} ELSE {0}

SelectWrite(s) == IF St(s) = "free" THEN {-1}
                  ELSE IF St(s) \in {"connected", "eof"} THEN {0, 1} ELSE {0}

StackGetSockName(s) == IF St(s) = "free" THEN {Failure("EBADF")} ELSE {Success(0, stack)}

StackSetMode(s, nbio) == IF St(s) = "free" THEN {Failure("EBADF")}
                         ELSE {Success(0, [stack EXCEPT ![s].nbio = nbio])}

StackSetTimeo(s, msec) == IF St(s) = "free" THEN {Failure("EBADF")}
                          ELSE {Success(0, [stack EXCEPT ![s].timeo = msec])}

StackClose(s) ==
  IF St(s) = "free" THEN {Failure("EBADF")}
  ELSE {Success(0, [stack EXCEPT ![s] = Fresh("free")])}
         \cup (IF Stack = "mdk" /\ stack[s].nbio THEN {Failure("EWOULDBLOCK")} ELSE {})

(***************************************************************************)
(* What the network does to the stack's sockets meanwhile.                 *)
(***************************************************************************)
RequestArrives(s) == /\ stack[s].st = "listening"
                     /\ stack[s].pend < MaxPend
                     /\ stack' = [stack EXCEPT ![s].pend = @ + 1]

DataArrives(s) == /\ stack[s].st = "connected"
                  /\ stack[s].rx < MaxRx
                  /\ stack' = [stack EXCEPT ![s].rx = @ + 1]

ConnectEnds(s) == /\ stack[s].st = "connecting"
                  /\ \E st \in {"connected", "refused"} : stack' = Become(s, st)

PeerCloses(s) == /\ stack[s].st = "connected"
                 /\ stack' = Become(s, "eof")

StackStep == \E s \in Socks : \/ RequestArrives(s)
                              \/ DataArrives(s)
                              \/ ConnectEnds(s)
                              \/ PeerCloses(s)
=============================================================================
