------------------------------ MODULE ApiProofs ------------------------------
(***************************************************************************)
(* What the calls of a BSD stack keep and change: the facts about BsdStack *)
(* and ApiCalls that the theorems about LwipSocket and MdkSocket cite.     *)
(***************************************************************************)
EXTENDS ApiCalls, TLAPS

LEMMA StackConstants == First \in {0, 1} /\ NumSocks \in Nat \ {0} /\ Socks \subseteq Nat
  BY StackAssumption DEF First, Socks

-----------------------------------------------------------------------------
(***************************************************************************)
(* What a step of the stack leaves a socket: there, with its options, in   *)
(* the listening state, and with its local address, which every socket has *)
(* that was connected (Tied).  A socket that a step is not about is steady *)
(* as well: it is not named and neither leaves nor enters the open state.  *)
(***************************************************************************)
Tied == {"connecting", "refused", "connected", "eof"}

SameSock(old, new) == /\ new.st = "free" <=> old.st = "free"
                      /\ new.nbio = old.nbio
                      /\ new.timeo = old.timeo
                      /\ old.named => new.named
                      /\ old.st = "listening" => new.st = "listening"
                      /\ old.st \notin Tied \/ old.named => new.st \notin Tied \/ new.named

Steady(old, new) == new.named = old.named /\ (new.st = "open" <=> old.st = "open")

Keeps(st) == /\ st \in [Socks -> StackSock]
             /\ \A b \in Socks : SameSock(stack[b], st[b])

KeepsOthers(st, s) == /\ st \in [Socks -> StackSock]
                      /\ \A b \in Socks \ {s} : SameSock(stack[b], st[b]) /\ Steady(stack[b], st[b])

(* lwIP has no open socket with a local address but by a bind.             *)
NotBound(st) == Stack = "lwip" =>
                  \A b \in Socks : st[b].st = "open" /\ st[b].named
                                     => stack[b].st = "open" /\ stack[b].named

(* The step is about socket s at most.                                     *)
KeepsAll(st, s) == Keeps(st) /\ KeepsOthers(st, s) /\ NotBound(st)

LEMMA KeepsSame == StackTypeOK => \A s : KeepsAll(stack, s)
  BY DEF StackTypeOK, KeepsAll, Keeps, KeepsOthers, SameSock, Steady, NotBound

LEMMA KeepsStack == StackTypeOK => Keeps(stack)
  BY KeepsSame DEF KeepsAll

LEMMA KeepsBecome ==
  ASSUME StackTypeOK, NEW s \in Socks, NEW st \in SockStates \ {"free"},
         stack[s].st \notin {"free", "listening"}, st \in Tied => stack[s].st \in Tied,
         st = "open" => Stack # "lwip"
  PROVE  KeepsAll(Become(s, st), s)
<1>1. /\ Become(s, st) \in [Socks -> StackSock]
      /\ Become(s, st)[s] = [stack[s] EXCEPT !.st = st]
      /\ \A b \in Socks \ {s} : Become(s, st)[b] = stack[b]
  BY DEF StackTypeOK, StackSock, Become
<1>2. SameSock(stack[s], [stack[s] EXCEPT !.st = st]) /\ [stack[s] EXCEPT !.st = st].st = st
  BY DEF StackTypeOK, StackSock, SameSock
<1>3. \A b \in Socks : SameSock(stack[b], stack[b]) /\ Steady(stack[b], stack[b])
  BY DEF SameSock, Steady
<1>. QED  BY <1>1, <1>2, <1>3 DEF KeepsAll, Keeps, KeepsOthers, NotBound

LEMMA KeepsBind ==
  ASSUME StackTypeOK, NEW s, NEW o \in StackBind(s)
  PROVE  /\ Keeps(o.stack) /\ KeepsOthers(o.stack, s)
         /\ \/ o.n = -1 /\ o.stack = stack
            \/ o.n = 0 /\ s \in Socks /\ o.stack[s].st = "open" /\ o.stack[s].named
         /\ o.err = "EADDRINUSE" => s \in Socks /\ stack[s].st = "open" /\ o.n = -1
<1>. DEFINE bound == [stack EXCEPT ![s].named = TRUE]
<1>1. \/ o.n = -1 /\ o.stack = stack
         /\ (o.err = "EADDRINUSE" => s \in Socks /\ stack[s].st = "open")
      \/ /\ s \in Socks /\ stack[s].st = "open" /\ o.n = 0 /\ o.err = "none"
         /\ o.stack = bound
  <2>1. CASE St(s) # "open"
    BY <2>1 DEF StackBind, Failure
  <2>2. CASE St(s) = "open"
    <3>1. s \in Socks /\ stack[s].st = "open" /\ stack[s].named \in BOOLEAN
      BY <2>2 DEF St, StackTypeOK, StackSock
    <3>2. CASE ~stack[s].named
      <4>1. o \in {Success(0, bound), Failure("EADDRINUSE")}
        BY <2>2, <3>1, <3>2 DEF StackBind
      <4>. HIDE DEF bound
      <4>. QED  BY <3>1, <4>1 DEF Success, Failure
    <3>3. CASE stack[s].named
      BY <2>2, <3>1, <3>3 DEF StackBind, Failure
    <3>. QED  BY <3>1, <3>2, <3>3
  <2>. QED  BY <2>1, <2>2
<1>2. ASSUME s \in Socks, stack[s].st = "open"
      PROVE  /\ Keeps(bound) /\ KeepsOthers(bound, s)
             /\ bound[s].st = "open" /\ bound[s].named
  BY <1>2 DEF StackTypeOK, StackSock, Keeps, KeepsOthers, SameSock, Steady
<1>3. Keeps(stack) /\ KeepsOthers(stack, s)
  BY KeepsSame DEF KeepsAll
<1>. HIDE DEF bound
<1>. QED  BY <1>1, <1>2, <1>3

LEMMA KeepsListen ==
  ASSUME StackTypeOK, NEW s, NEW o \in StackListen(s)
  PROVE  /\ KeepsAll(o.stack, s)
         /\ \/ o.n = -1 /\ o.err # "none"
            \/ o.n = 0 /\ s \in Socks /\ o.stack[s].st = "listening"
<1>1. \/ o.n = -1 /\ o.err # "none" /\ o.stack = stack
      \/ s \in Socks /\ stack[s].st = "open" /\ o.n = 0 /\ o.stack = Become(s, "listening")
  BY DEF StackListen, St, Success, Failure
<1>2. ASSUME s \in Socks, stack[s].st = "open"
      PROVE  KeepsAll(Become(s, "listening"), s)
  BY <1>2, KeepsBecome DEF SockStates, Tied
<1>3. ASSUME s \in Socks PROVE Become(s, "listening")[s].st = "listening"
  BY <1>3 DEF Become, StackTypeOK, StackSock
<1>. QED  BY <1>1, <1>2, <1>3, KeepsSame

LEMMA KeepsConnect ==
  ASSUME StackTypeOK, NEW s, NEW o \in StackConnect(s)
  PROVE  /\ KeepsAll(o.stack, s) /\ o.n = -1
         /\ o.err = "EINPROGRESS" => s \in Socks
<1>1. St(s) \in SockStates
  BY DEF St, StackTypeOK, StackSock, SockStates
<1>2. CASE St(s) = "open"
  <2>. DEFINE begun == [stack EXCEPT ![s].st = "connecting", ![s].named = TRUE]
  <2>1. s \in Socks /\ stack[s].st = "open"
    BY <1>2 DEF St
  <2>2. o.n = -1 /\ o.stack = begun
    BY <1>2 DEF StackConnect, Failure
  <2>3. /\ begun \in [Socks -> StackSock]
        /\ \A b \in Socks \ {s} : begun[b] = stack[b]
        /\ begun[s].st = "connecting" /\ begun[s].named
        /\ begun[s].nbio = stack[s].nbio /\ begun[s].timeo = stack[s].timeo
    BY <2>1 DEF StackTypeOK, StackSock, SockStates
  <2>. HIDE DEF begun
  <2>4. \A b \in Socks \ {s} : SameSock(stack[b], begun[b]) /\ Steady(stack[b], begun[b])
    BY <2>3 DEF SameSock, Steady
  <2>5. SameSock(stack[s], begun[s])
    BY <2>1, <2>3 DEF SameSock
  <2>. QED  BY <2>1, <2>2, <2>3, <2>4, <2>5 DEF KeepsAll, Keeps, KeepsOthers, NotBound
<1>3. CASE St(s) = "refused"
  <2>1. s \in Socks /\ stack[s].st = "refused"
    BY <1>3 DEF St
  <2>2. o.n = -1 /\ o.err # "EINPROGRESS"
        /\ (o.stack = stack \/ (Stack = "mdk" /\ o.stack = Become(s, "open")))
    BY <1>3 DEF StackConnect, Failure, Refused
  <2>3. Stack = "mdk" => KeepsAll(Become(s, "open"), s)
    BY <2>1, KeepsBecome DEF SockStates, Tied
  <2>. QED  BY <2>2, <2>3, KeepsSame
<1>4. CASE St(s) \in SockStates \ {"open", "refused"}
  BY <1>4, KeepsSame DEF StackConnect, Failure, SockStates
<1>. QED  BY <1>1, <1>2, <1>3, <1>4

LEMMA KeepsConnected ==
  ASSUME StackTypeOK, NEW s, NEW o \in StackConnected(s)
  PROVE  /\ KeepsAll(o.stack, s)
         /\ o.n = -1 \/ (o.n = 0 /\ s \in Socks /\ o.stack[s].st \in Tied)
<1>1. \/ o.n = -1 /\ o.stack = stack
      \/ o.n = 0 /\ s \in Socks /\ stack[s].st \in Tied /\ o.stack = stack
      \/ o \in StackConnect(s)
  BY DEF StackConnected, St, Success, Failure, Tied
<1>. QED  BY <1>1, KeepsSame, KeepsConnect

LEMMA NotReadyFails ==
  ASSUME NEW s, NEW o \in NotReady(s)
  PROVE  o.stack = stack /\ o.n = -1 /\ o.err # "none"
  BY DEF NotReady, Failure, OwnWait, Forever, TimedOut

LEMMA KeepsRecv ==
  ASSUME StackTypeOK, NEW s, NEW o \in StackRecv(s)
  PROVE  KeepsAll(o.stack, s) /\ o.n \in Int
<1>1. \/ o.stack = stack /\ o.n \in Int
      \/ /\ s \in Socks /\ stack[s].rx > 0 /\ o.n = 1
         /\ o.stack = [stack EXCEPT ![s].rx = @ - 1]
  <2>1. s \in Socks => stack[s].rx > 0 \/ stack[s].rx = 0
    BY DEF StackTypeOK, StackSock
  <2>. QED  BY <2>1, NotReadyFails DEF StackRecv, St, Success, Failure
<1>2. ASSUME s \in Socks, stack[s].rx > 0
      PROVE  KeepsAll([stack EXCEPT ![s].rx = @ - 1], s)
  <2>1. stack[s].rx - 1 \in Nat
    BY <1>2 DEF StackTypeOK, StackSock
  <2>. QED  BY <1>2, <2>1 DEF StackTypeOK, StackSock, KeepsAll, Keeps, KeepsOthers, SameSock,
                              Steady, NotBound
<1>. QED  BY <1>1, <1>2, KeepsSame

LEMMA KeepsSend ==
  ASSUME NEW s, NEW o \in StackSend(s)
  PROVE  /\ o.stack = stack /\ o.n \in {-1, 1}
         /\ o.err = "EINPROGRESS" => s \in Socks
  BY DEF StackSend, St, Success, Failure, TimedOut

LEMMA KeepsName ==
  ASSUME NEW s, NEW o \in StackGetSockName(s)
  PROVE  o.stack = stack /\ (o.n = -1 \/ (o.n = 0 /\ s \in Socks))
  BY DEF StackGetSockName, St, Success, Failure

(* The network is about none of the sockets.                               *)
LEMMA KeepsNetwork == StackTypeOK /\ StackStep => \A b : KeepsAll(stack', b)
<1>. SUFFICES ASSUME StackTypeOK, NEW s \in Socks,
                     RequestArrives(s) \/ DataArrives(s) \/ ConnectEnds(s) \/ PeerCloses(s)
              PROVE  \A b : KeepsAll(stack', b)
  BY DEF StackStep
<1>1. CASE RequestArrives(s) \/ DataArrives(s)
  BY <1>1 DEF RequestArrives, DataArrives, StackTypeOK, StackSock, KeepsAll, Keeps, KeepsOthers,
              SameSock, Steady, NotBound
<1>2. CASE ConnectEnds(s) \/ PeerCloses(s)
  <2>1. PICK st \in {"connected", "refused", "eof"} :
          stack[s].st \in {"connecting", "connected"} /\ stack' = Become(s, st)
    BY <1>2 DEF ConnectEnds, PeerCloses
  <2>2. KeepsAll(stack', s)
    BY <2>1, KeepsBecome DEF SockStates, Tied
  <2>3. Steady(stack[s], stack'[s])
    BY <2>1 DEF Become, StackTypeOK, StackSock, Steady
  <2>. QED  BY <2>2, <2>3 DEF KeepsAll, Keeps, KeepsOthers
<1>. QED  BY <1>1, <1>2

-----------------------------------------------------------------------------
(***************************************************************************)
(* The calls that change one socket.                                       *)
(***************************************************************************)
(* A socket that was free is handed out with the given options; it has a   *)
(* local address if it is connected.                                       *)
Grants(st, n, nbio, timeo) ==
  /\ n \in Socks /\ stack[n].st = "free"
  /\ KeepsOthers(st, n)
  /\ st[n].st # "free" /\ st[n].nbio = nbio /\ st[n].timeo = timeo
  /\ st[n].st = "open" => ~st[n].named
  /\ st[n].st \in Tied => st[n].named

LEMMA GrantsSocket ==
  ASSUME StackTypeOK, NEW o \in StackSocket
  PROVE  \/ o.n = -1 /\ o.err # "none" /\ o.stack = stack
         \/ Grants(o.stack, o.n, FALSE, 0)
<1>1. \/ o = Failure("ENOMEM")
      \/ \E n \in Socks : /\ stack[n].st = "free"
                          /\ o = Success(n, [stack EXCEPT ![n] = Fresh("open")])
  BY DEF StackSocket, FreeSocks
<1>2. CASE o = Failure("ENOMEM")
  BY <1>2 DEF Failure
<1>3. ASSUME NEW n \in Socks, stack[n].st = "free",
             o = Success(n, [stack EXCEPT ![n] = Fresh("open")])
      PROVE  Grants(o.stack, o.n, FALSE, 0)
  BY <1>3 DEF Success, Grants, KeepsOthers, SameSock, Steady, Tied, Fresh, StackTypeOK, StackSock,
              SockStates
<1>. QED  BY <1>1, <1>2, <1>3

LEMMA GrantsAccept ==
  ASSUME StackTypeOK, NEW s, NEW o \in StackAccept(s)
  PROVE  \/ o.n = -1 /\ o.err # "none" /\ o.stack = stack
         \/ /\ s \in Socks /\ stack[s].st = "listening"
            /\ Grants(o.stack, o.n, Accepted(s).nbio, Accepted(s).timeo)
<1>1. s \in Socks => stack[s].pend > 0 \/ stack[s].pend = 0
  BY DEF StackTypeOK, StackSock
<1>2. \/ o.n = -1 /\ o.err # "none" /\ o.stack = stack
      \/ /\ s \in Socks /\ stack[s].st = "listening" /\ stack[s].pend > 0
         /\ \E n \in Socks : /\ stack[n].st = "free"
                             /\ o = Success(n, [stack EXCEPT ![s].pend = @ - 1,
                                                            ![n] = Accepted(s)])
  <2>1. CASE St(s) # "listening"
    BY <2>1 DEF StackAccept, Failure
  <2>2. CASE St(s) = "listening" /\ stack[s].pend = 0
    BY <2>2, NotReadyFails DEF StackAccept
  <2>3. CASE St(s) = "listening" /\ stack[s].pend > 0
    <3>1. s \in Socks /\ stack[s].st = "listening"
      BY <2>3 DEF St
    <3>2. CASE FreeSocks = {}
      BY <2>3, <3>1, <3>2 DEF StackAccept, Failure, StackTypeOK, StackSock
    <3>3. CASE FreeSocks # {}
      <4>. DEFINE handed(n) == Success(n, [stack EXCEPT ![s].pend = @ - 1, ![n] = Accepted(s)])
      <4>0. StackAccept(s) =
              CASE St(s) = "free" -> {Failure("EBADF")}
                [] St(s) \notin {"free", "listening"} -> {Failure("EINVAL")}
                [] St(s) = "listening" /\ stack[s].pend = 0 -> NotReady(s)
                [] St(s) = "listening" /\ stack[s].pend > 0 ->
                     IF FreeSocks = {} THEN {Failure("ENOMEM")} ELSE {handed(n) : n \in FreeSocks}
        BY DEF StackAccept
      <4>. HIDE DEF handed
      <4>1. stack[s].pend \in Nat /\ stack[s].pend # 0
        BY <2>3, <3>1 DEF StackTypeOK, StackSock
      <4>2. o \in {handed(n) : n \in FreeSocks}
        BY <2>3, <3>1, <3>3, <4>0, <4>1
      <4>. QED  BY <2>3, <3>1, <4>2 DEF FreeSocks, handed
    <3>. QED  BY <3>2, <3>3
  <2>. QED  BY <1>1, <2>1, <2>2, <2>3 DEF St
<1>3. ASSUME s \in Socks, stack[s].st = "listening", stack[s].pend > 0,
             NEW n \in Socks, stack[n].st = "free",
             o = Success(n, [stack EXCEPT ![s].pend = @ - 1, ![n] = Accepted(s)])
      PROVE  Grants(o.stack, o.n, Accepted(s).nbio, Accepted(s).timeo)
  <2>. DEFINE one == [stack EXCEPT ![s].pend = @ - 1]
  <2>1. o.n = n /\ o.stack = [one EXCEPT ![n] = Accepted(s)]
    BY <1>3 DEF Success
  <2>2. one \in [Socks -> StackSock] /\ \A b \in Socks : SameSock(stack[b], one[b]) /\ Steady(stack[b], one[b])
    BY <1>3 DEF StackTypeOK, StackSock, SameSock, Steady
  <2>3. Accepted(s) \in StackSock /\ Accepted(s).st = "connected" /\ Accepted(s).named
    BY <1>3 DEF Accepted, Fresh, StackTypeOK, StackSock, SockStates
  <2>. HIDE DEF one
  <2>. QED  BY <1>3, <2>1, <2>2, <2>3 DEF Grants, KeepsOthers
<1>. QED  BY <1>2, <1>3

(* An option is set; nothing else changes.                                 *)
Sets(st, s, nbio, timeo) ==
  /\ s \in Socks /\ stack[s].st # "free"
  /\ KeepsOthers(st, s)
  /\ st[s].st = stack[s].st /\ st[s].named = stack[s].named
  /\ st[s].nbio = nbio /\ st[s].timeo = timeo

LEMMA SetsMode ==
  ASSUME StackTypeOK, NEW s, NEW nbio \in BOOLEAN, NEW o \in StackSetMode(s, nbio)
  PROVE  \/ o.n = -1 /\ o.stack = stack
         \/ o.n = 0 /\ Sets(o.stack, s, nbio, stack[s].timeo)
  BY DEF StackSetMode, St, Success, Failure, Sets, KeepsOthers, SameSock, Steady,
         StackTypeOK, StackSock

LEMMA SetsTimeo ==
  ASSUME StackTypeOK, NEW s, NEW v \in Nat, NEW o \in StackSetTimeo(s, v)
  PROVE  \/ o.n = -1 /\ o.stack = stack
         \/ o.n = 0 /\ Sets(o.stack, s, stack[s].nbio, v)
  BY DEF StackSetTimeo, St, Success, Failure, Sets, KeepsOthers, SameSock, Steady,
         StackTypeOK, StackSock

LEMMA FreesClose ==
  ASSUME StackTypeOK, NEW s, NEW o \in StackClose(s)
  PROVE  \/ o.n = -1 /\ o.stack = stack
         \/ /\ o.n = 0 /\ s \in Socks /\ stack[s].st # "free"
            /\ KeepsOthers(o.stack, s) /\ o.stack[s].st = "free"
<1>1. \/ o.n = -1 /\ o.stack = stack
      \/ /\ o.n = 0 /\ s \in Socks /\ stack[s].st # "free"
         /\ o.stack = [stack EXCEPT ![s] = Fresh("free")]
  BY DEF StackClose, St, Success, Failure
<1>2. Fresh("free") \in StackSock /\ Fresh("free").st = "free"
  BY DEF Fresh, StackSock, SockStates
<1>. QED  BY <1>1, <1>2 DEF KeepsOthers, SameSock, Steady, StackTypeOK
=============================================================================
