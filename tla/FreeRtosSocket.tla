--------------------------- MODULE FreeRtosSocket ---------------------------
(***************************************************************************)
(* source/freertos_plus_tcp/iot_socket.c: the IoT Socket API over          *)
(* FreeRTOS+TCP.  The file keeps no state: a socket is the address of the  *)
(* stack's socket, cast to int32_t, and its options are the stack's block  *)
(* times.                                                                  *)
(*                                                                         *)
(* A call of the API is one call of the stack, or two for FIONBIO, and     *)
(* what the file makes of the result.  A call of the stack that answers at *)
(* once is one step; one that may wait is entered in a step, when its wait *)
(* is settled, and answered in another.  The answers that change what the  *)
(* application has are part of the steps; the others go to the caller and  *)
(* change nothing here.  Calls with an argument the file refuses, and      *)
(* iotSocketGetOpt, GetSockName, GetPeerName and GetHostByName, leave      *)
(* everything as it is and are no steps.  The application passes sockets   *)
(* it holds, and closes a socket when no other call on it is in progress.  *)
(***************************************************************************)
EXTENDS FreeRtosStack, IotSocketCodes

CONSTANTS
  Threads,      (* the threads that call the API                           *)
  Waiters,      (* bound: those of them that make calls that may wait      *)
  AddrSpan,     (* the number of addresses, 2^32                           *)
  Modes,        (* values given to SetOpt(FIONBIO)                         *)
  Timeouts      (* values given to SetOpt(RCVTIMEO) and (SNDTIMEO), ms     *)

ASSUME FreeRtosAssumption == /\ Waiters \subseteq Threads
                             /\ AddrSpan \in Nat /\ AddrSpan % 2 = 0
                             /\ Heap \subseteq 1 .. AddrSpan - 2
                             /\ Modes \subseteq Nat
                             /\ Timeouts \subseteq Nat

(* A Socket_t cast to int32_t, and back.                                   *)
ToInt(a)    == IF a >= AddrSpan \div 2 THEN a - AddrSpan ELSE a
ToSocket(i) == i % AddrSpan

VARIABLES
  pc,      (* where each thread is in the call it executes                 *)
  req,     (* the socket's address and the block time in force when the    *)
           (* call started; history: what was asked of the socket then, or *)
           (* what a FIONBIO in progress asks                              *)
  held,    (* history: the numbers of the sockets the application holds    *)
  asked    (* history: what SetOpt asked of each socket, for receiving and *)
           (* for sending: see Asked                                       *)

calls == <<pc, req, held, asked>>

(* "nowait" and "blocking" are what FIONBIO asks with a value and with 0,  *)
(* "forever" and "limited" what the timeouts ask with 0 and with a value.  *)
(* While FIONBIO is at work it is "setting", and when calls that ask       *)
(* different things overlapped "mixed", until the next call.               *)
Pcs    == {"idle", "accept", "connect", "recv", "recvfrom", "send", "sendto", "sndtimeo"}
Asked  == {"unset", "nowait", "blocking", "forever", "limited", "setting", "mixed"}
Both(x)     == [rcv |-> x, snd |-> x]
ModeAsk(v)  == IF v = 0 THEN "blocking" ELSE "nowait"
TimeoAsk(v) == IF v = 0 THEN "forever" ELSE "limited"

NoSock == 0
NoReq  == [a |-> NoSock, wait |-> 0, asks |-> "unset"]

CallsInit == /\ pc    = [t \in Threads |-> "idle"]
             /\ req   = [t \in Threads |-> NoReq]
             /\ held  = {}
             /\ asked = [a \in Heap |-> Both("unset")]

CallsTypeOK == /\ pc \in [Threads -> Pcs]
               /\ req \in [Threads -> [a : Heap \cup {NoSock}, wait : Times, asks : Asked]]
               /\ held \subseteq {ToInt(a) : a \in Heap}
               /\ asked \in [Heap -> [rcv : Asked, snd : Asked]]

HeldSockets == {ToSocket(i) : i \in held}

(***************************************************************************)
(* The answers that hand out or close a socket: what the file makes of the *)
(* results of the stack.                                                   *)
(***************************************************************************)
CreateAnswer(o) == IF o.err = "INVALID_SOCKET" THEN ENOMEM ELSE ToInt(o.n)

AcceptAnswerNull(o) ==   \* mutant: the end of the wait is not looked for
  IF o.err = "INVALID_SOCKET" THEN EINVAL ELSE ToInt(o.n)

AcceptAnswer(o) == CASE o.err = "NULL"           -> EAGAIN
                     [] o.err = "INVALID_SOCKET" -> EINVAL
                     [] OTHER                    -> ToInt(o.n)

CloseAnswerOk(o) == IF o.n = 0 THEN ESOCK ELSE OK   \* mutant: -1 is taken for success

CloseAnswer(o) == CASE o.n = 0  -> ESOCK
                    [] o.n = -1 -> EAGAIN
                    [] OTHER    -> OK

(***************************************************************************)
(* Calls.                                                                  *)
(***************************************************************************)
Goto(t, p) == pc' = [pc EXCEPT ![t] = p]

Enter(t, a, wait, asks) == req' = [req EXCEPT ![t] = [a |-> a, wait |-> wait, asks |-> asks]]

(* A call the stack answers at once.                                       *)
AtOnce(t, outcomes) == /\ pc[t] = "idle"
                       /\ \E o \in outcomes : sockets' = o.sockets
                       /\ UNCHANGED calls

(* A call that may wait for as long as the block time w says, of which x   *)
(* was asked.                                                              *)
Waits(t, a, w, x, p) == /\ pc[t] = "idle"
                        /\ Enter(t, a, w, x)
                        /\ Goto(t, p)
                        /\ UNCHANGED <<sockets, held, asked>>

(* The application is given number r: a socket, or an error if negative.   *)
GivenNumber(r) == held' = IF r >= 0 THEN held \cup {r} ELSE held

(* Only IPv4; the protocol is not looked at.                               *)
Create(t) ==
  /\ pc[t] = "idle"
  /\ \E kind \in {"tcp", "udp"} : \E o \in StackSocket(kind) :
       sockets' = o.sockets /\ GivenNumber(CreateAnswer(o))
  /\ UNCHANGED <<pc, req, asked>>

Bind(t, a)   == AtOnce(t, StackBind(a))
Listen(t, a) == AtOnce(t, StackListen(a))
Accept(t, a) == Waits(t, a, sockets[a].rcv, asked[a].rcv, "accept")

(* With a block time the call waits for the attempt it has started.        *)
Connect(t, a) ==
  /\ pc[t] = "idle"
  /\ \E o \in StackConnect(a) :
       /\ sockets' = o.sockets
       /\ IF o.err = "EWOULDBLOCK" /\ sockets[a].rcv # 0
          THEN Enter(t, a, sockets[a].rcv, asked[a].rcv) /\ Goto(t, "connect")
          ELSE UNCHANGED <<pc, req>>
  /\ UNCHANGED <<held, asked>>

(* With length 0 they check the socket and neither wait nor change it.     *)
Recv(t, a)     == Waits(t, a, sockets[a].rcv, asked[a].rcv, "recv")
RecvFrom(t, a) == Waits(t, a, sockets[a].rcv, asked[a].rcv, "recvfrom")
Send(t, a)     == Waits(t, a, sockets[a].snd, asked[a].snd, "send")
SendTo(t, a)   == Waits(t, a, sockets[a].snd, asked[a].snd, "sendto")

(* The threads half through a FIONBIO on the socket.                       *)
InMode(a) == {u \in Threads : pc[u] = "sndtimeo" /\ req[u].a = a}

(* SetOpt(FIONBIO) sets both block times to 0, whatever the value is.      *)
SetMode(t, a, v) ==
  /\ pc[t] = "idle"
  /\ \E o \in StackSetRcv(a, 0) : sockets' = o.sockets
  /\ Enter(t, a, 0, ModeAsk(v))
  /\ Goto(t, "sndtimeo")
  /\ asked' = [asked EXCEPT ![a] = Both(IF \A u \in InMode(a) : req[u].asks = ModeAsk(v)
                                       THEN "setting" ELSE "mixed")]
  /\ UNCHANGED held

(* SetOpt(RCVTIMEO) and SetOpt(SNDTIMEO): 0 is no limit; ms are taken for  *)
(* ticks.                                                                  *)
TickOfZero(v) == v   \* mutant: 0 is left as it is

TickOf(v) == IF v = 0 THEN MaxDelay ELSE v

Asks(a, v) == IF InMode(a) = {} THEN TimeoAsk(v) ELSE "mixed"

SetRcvTimeo(t, a, v) ==
  /\ pc[t] = "idle"
  /\ \E o \in StackSetRcv(a, TickOf(v)) : sockets' = o.sockets
  /\ asked' = [asked EXCEPT ![a].rcv = Asks(a, v)]
  /\ UNCHANGED <<pc, req, held>>

SetSndTimeo(t, a, v) ==
  /\ pc[t] = "idle"
  /\ \E o \in StackSetSnd(a, TickOf(v)) : sockets' = o.sockets
  /\ asked' = [asked EXCEPT ![a].snd = Asks(a, v)]
  /\ UNCHANGED <<pc, req, held>>

(* A socket that is closed is not held from now on.                        *)
Close(t, a) ==
  /\ pc[t] = "idle"
  /\ \A u \in Threads : req[u].a # a
  /\ \E o \in StackClose(a) :
       /\ sockets' = o.sockets
       /\ IF CloseAnswer(o) = OK
          THEN held' = held \ {ToInt(a)} /\ asked' = [asked EXCEPT ![a] = Both("unset")]
          ELSE UNCHANGED <<held, asked>>
  /\ UNCHANGED <<pc, req>>

(***************************************************************************)
(* The ends of calls in progress.                                          *)
(***************************************************************************)
Returns(t, p) == /\ pc[t] = p
                 /\ Goto(t, "idle")
                 /\ req' = [req EXCEPT ![t] = NoReq]

Ends(t, p, outcomes) == /\ Returns(t, p)
                        /\ \E o \in outcomes : sockets' = o.sockets
                        /\ UNCHANGED <<held, asked>>

(* The new socket is asked what the listening one was.                     *)
AcceptEnds(t) ==
  /\ Returns(t, "accept")
  /\ \E o \in StackAccept(req[t].a, req[t].wait) :
       /\ sockets' = o.sockets
       /\ GivenNumber(AcceptAnswer(o))
       /\ asked' = IF o.err = "none" THEN [asked EXCEPT ![o.n] = asked[req[t].a]] ELSE asked

ConnectAnswered(t) == Ends(t, "connect", StackConnected(req[t].a, req[t].wait))
RecvEnds(t)        == Ends(t, "recv", StackRecv(req[t].a, req[t].wait))
RecvFromEnds(t)    == Ends(t, "recvfrom", StackRecvFrom(req[t].a, req[t].wait))
SendEnds(t)        == Ends(t, "send", StackSend(req[t].a, req[t].wait))
SendToEnds(t)      == Ends(t, "sendto", StackSendTo(req[t].a, req[t].wait))

(* What FIONBIO asked is in force unless a call came between.              *)
Now(t, x)   == IF x \in {"setting", req[t].asks} THEN req[t].asks ELSE "mixed"
NowAsked(t) == asked' = [asked EXCEPT ![req[t].a] = [rcv |-> Now(t, @.rcv), snd |-> Now(t, @.snd)]]

SetModeHalf(t) ==   \* mutant: the send timeout is left
  Returns(t, "sndtimeo") /\ NowAsked(t) /\ UNCHANGED <<sockets, held>>

SetModeEnds(t) ==
  /\ Returns(t, "sndtimeo")
  /\ \E o \in StackSetSnd(req[t].a, 0) : sockets' = o.sockets
  /\ NowAsked(t)
  /\ UNCHANGED held

Call(t) ==
  \/ Create(t)
  \/ \E a \in HeldSockets :
       \/ Bind(t, a) \/ Listen(t, a)
       \/ /\ t \in Waiters
          /\ \/ Accept(t, a) \/ Connect(t, a)
             \/ Recv(t, a) \/ RecvFrom(t, a) \/ Send(t, a) \/ SendTo(t, a)
       \/ \E v \in Modes : SetMode(t, a, v)
       \/ \E v \in Timeouts : SetRcvTimeo(t, a, v) \/ SetSndTimeo(t, a, v)
       \/ Close(t, a)

Step(t) == \/ AcceptEnds(t) \/ ConnectAnswered(t) \/ RecvEnds(t) \/ RecvFromEnds(t)
           \/ SendEnds(t) \/ SendToEnds(t) \/ SetModeEnds(t)

Network == StackStep /\ UNCHANGED calls
=============================================================================
