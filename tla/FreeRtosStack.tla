---------------------------- MODULE FreeRtosStack ----------------------------
(***************************************************************************)
(* The sockets of FreeRTOS+TCP, external to the repository, as             *)
(* source/freertos_plus_tcp/iot_socket.c uses them: the answers are those  *)
(* the file tests for and explains.                                        *)
(*                                                                         *)
(* StackX is the set of outcomes of call X in the present state of the     *)
(* stack: the error, or "none", the number returned without one, and the   *)
(* stack's next sockets.  A call that has to wait has no outcome yet; how  *)
(* long it may wait is settled when it starts, in ticks.                   *)
(***************************************************************************)
EXTENDS Integers

CONSTANTS
  Heap,       (* the addresses the heap has for sockets                    *)
  MaxPend,    (* bound: connection requests queued at a listening socket   *)
  MaxRx       (* bound: units of data received and not read yet            *)

ASSUME HeapAssumption == /\ Heap \subseteq Nat \ {0}
                         /\ MaxPend \in Nat /\ MaxRx \in Nat

VARIABLE sockets   (* the sockets by address *)

(* ipconfigSOCK_DEFAULT_RECEIVE_BLOCK_TIME and ..._SEND_BLOCK_TIME,        *)
(* ipconfigUDP_MAX_SEND_BLOCK_TIME_TICKS with a tick of 1 ms; portMAX_DELAY*)
(* as the number that means no limit.                                      *)
DefaultReceiveBlockTime == 10000
DefaultSendBlockTime    == 10000
UdpMaxSendBlockTime     == 5000
MaxDelay                == -1

Kinds  == {"none", "tcp", "udp"}
States == {"free", "open", "bound", "listening", "connecting", "connected", "closing"}
Times  == Nat \cup {MaxDelay}

StackSock == [kind : Kinds, st : States, pend : Nat, rx : Nat, rcv : Times, snd : Times]

UdpSendTime(v) == IF v = MaxDelay \/ v > UdpMaxSendBlockTime THEN UdpMaxSendBlockTime ELSE v

New(kind) == [kind |-> kind, st |-> "open", pend |-> 0, rx |-> 0,
              rcv |-> DefaultReceiveBlockTime,
              snd |-> IF kind = "udp" THEN UdpMaxSendBlockTime ELSE DefaultSendBlockTime]
Free      == [New("none") EXCEPT !.st = "free"]

IsTcp(a)  == sockets[a].kind = "tcp"
Allocated == {a \in Heap : sockets[a].st # "free"}

StackInit   == sockets = [a \in Heap |-> Free]
StackTypeOK == sockets \in [Heap -> StackSock]

Success(n, next) == [err |-> "none", n |-> n, sockets |-> next]
Failure(e)       == [err |-> e, n |-> 0, sockets |-> sockets]
Become(a, st)    == [sockets EXCEPT ![a].st = st]

(* The end of a wait of at most w ticks that was in vain.                  *)
TimedOut(w, outcome) == IF w = MaxDelay THEN {} ELSE {outcome}

StackSocket(kind) ==
  IF Allocated = Heap THEN {Failure("INVALID_SOCKET")}
  ELSE {Success(a, [sockets EXCEPT ![a] = New(kind)]) : a \in Heap \ Allocated}

(* EINVAL: bound already, or the port is used; ECANCELED: the IP task does *)
(* not respond.                                                            *)
StackBind(a) ==
  {Failure("EINVAL"), Failure("ECANCELED")}
    \cup (IF sockets[a].st = "open" THEN {Success(0, Become(a, "bound"))} ELSE {})

StackListen(a) == IF IsTcp(a) /\ sockets[a].st = "bound"
                  THEN {Success(0, Become(a, "listening"))} ELSE {Failure("EOPNOTSUPP")}

(* NULL at the end of the wait.  The new socket has the block times of the *)
(* listening one.                                                          *)
Child(a) == [sockets[a] EXCEPT !.st = "connected", !.pend = 0]

StackAccept(a, w) ==
  CASE ~IsTcp(a) \/ sockets[a].st # "listening" -> {Failure("INVALID_SOCKET")}
    [] OTHER ->
         TimedOut(w, Failure("NULL"))
           \cup (IF sockets[a].pend = 0 THEN {}
                 ELSE {Success(c, [sockets EXCEPT ![a].pend = @ - 1, ![c] = Child(a)])
                       : c \in Heap \ Allocated})

(* An attempt starts; without a block time it goes on by itself.           *)
StackConnect(a) ==
  CASE ~IsTcp(a)                       -> {Failure("EBADF")}
    [] IsTcp(a) /\ sockets[a].st = "connected"  -> {Failure("EISCONN")}
    [] IsTcp(a) /\ sockets[a].st = "connecting" -> {Failure("EINPROGRESS")}
    [] IsTcp(a) /\ sockets[a].st \in {"open", "bound"} ->
         {[Failure("EWOULDBLOCK") EXCEPT !.sockets = Become(a, "connecting")], Failure("EINVAL")}
    [] OTHER -> {Failure("EAGAIN")}

StackConnected(a, w) == IF sockets[a].st = "connected" THEN {Success(0, sockets)}
                        ELSE TimedOut(w, Failure("ETIMEDOUT"))

Taken(a) == Success(1, [sockets EXCEPT ![a].rx = @ - 1])

(* A TCP socket without data answers 0 at the end of the wait.             *)
StackRecv(a, w) ==
  CASE ~IsTcp(a) -> {Failure("EINVAL")}
    [] IsTcp(a) /\ sockets[a].rx > 0 -> {Taken(a)}
    [] IsTcp(a) /\ sockets[a].rx = 0 ->
         IF sockets[a].st # "connected" THEN {Failure("ENOTCONN")}
         ELSE {Failure("ENOMEM")} \cup TimedOut(w, Success(0, sockets))

StackRecvFrom(a, w) ==
  CASE IsTcp(a) \/ sockets[a].st # "bound" -> {Failure("EINVAL")}
    [] OTHER -> IF sockets[a].rx > 0 THEN {Taken(a)} ELSE TimedOut(w, Failure("EWOULDBLOCK"))

(* Space in the transmit buffer is not modelled: it may be there or not.   *)
StackSend(a, w) ==
  CASE ~IsTcp(a) -> {Failure("EINVAL")}
    [] IsTcp(a) /\ sockets[a].st # "connected" -> {Failure("ENOTCONN")}
    [] OTHER -> {Success(1, sockets), Failure("ENOMEM")} \cup TimedOut(w, Failure("ENOSPC"))

(* 0 on an error or at the end of the wait; the socket is bound first.     *)
StackSendTo(a, w) ==
  IF IsTcp(a) THEN {Success(0, sockets)}
  ELSE {Success(n, Become(a, "bound")) : n \in {0, 1}}

StackSetRcv(a, v) == {Success(0, [sockets EXCEPT ![a].rcv = v])}
StackSetSnd(a, v) == LET time == IF IsTcp(a) THEN v ELSE UdpSendTime(v)
                     IN  {Success(0, [sockets EXCEPT ![a].snd = time])}

(* 1: the socket is gone; -1: the IP task could not be informed.           *)
StackClose(a) == {Success(1, [sockets EXCEPT ![a] = Free]), Success(-1, sockets)}

(***************************************************************************)
(* What the network does to the sockets meanwhile.                         *)
(***************************************************************************)
RequestArrives(a) == /\ sockets[a].st = "listening"
                     /\ sockets[a].pend < MaxPend
                     /\ sockets' = [sockets EXCEPT ![a].pend = @ + 1]

DataArrives(a) == /\ \/ sockets[a].st = "connected"
                     \/ sockets[a].st = "bound" /\ sockets[a].kind = "udp"
                  /\ sockets[a].rx < MaxRx
                  /\ sockets' = [sockets EXCEPT ![a].rx = @ + 1]

ConnectEnds(a) == /\ sockets[a].st = "connecting"
                  /\ \E st \in {"connected", "closing"} : sockets' = Become(a, st)

PeerCloses(a) == /\ sockets[a].st = "connected"
                 /\ sockets' = Become(a, "closing")

StackStep == \E a \in Heap : \/ RequestArrives(a) \/ DataArrives(a)
                             \/ ConnectEnds(a) \/ PeerCloses(a)
=============================================================================
