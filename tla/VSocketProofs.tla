--------------------------- MODULE VSocketProofs ---------------------------
(***************************************************************************)
(* Proofs about VSocket, for every number of sockets and threads and any   *)
(* set of operations and timeouts: first for every application, disciplined*)
(* or not; then, for one that keeps to Serial or Timed, about the options. *)
(***************************************************************************)
EXTENDS VSocket, TLAPS

(* Where a call can be, by operation: the program counter tells which call *)
(* is executed, and past the range check its socket is in the table.       *)
ControlOf(t) ==
  LET op == req[t].op  known == req[t].sock \in Socks
  IN  /\ pc[t] = "accept"    => op = "Accept" /\ known
      /\ pc[t] = "connect"   => op = "Connect" /\ known
      /\ pc[t] = "recvTimeo" => op = "Recv" /\ known /\ ~req[t].nbio
      /\ pc[t] = "recv"      => op = "Recv" /\ known
      /\ pc[t] = "sleep"     => /\ op \in {"Accept", "Connect", "Recv"} => known /\ ~req[t].nbio
                                /\ op \in {"Accept", "Connect", "Recv", "GetHostByName"}
      /\ pc[t] = "resolve"   => op = "GetHostByName"
      /\ pc[t] = "clear"     => op = "Close" /\ known
      /\ pc[t] \in {"loadMode", "storeMode", "loadTimeo", "storeTimeo"} =>
           op \in {"Create", "Accept", "SetMode", "SetTimeo"} /\ Target(t) \in Socks
      /\ pc[t] \in {"loadMode", "storeMode"}   => op # "SetTimeo"
      /\ pc[t] \in {"loadTimeo", "storeTimeo"} => op # "SetMode"
      /\ op = "Accept" /\ pc[t] # "done" => known
      /\ op \in {"Create", "Accept"} /\ pc[t] = "done" /\ io[t] >= 0 => io[t] \in Socks
      /\ op = "Recv" /\ pc[t] \in {"recv", "sleep"} /\ ~req[t].nbio => delay[t] > 0

Control == \A t \in Threads : ControlOf(t)

(* How far the loop of a blocking receive has come.                        *)
Blocking(t) == req[t].op = "Recv" /\ ~req[t].nbio /\ req[t].sock \in Socks

LoopCountOf(t) ==
  /\ pc[t] = "idle" => hist[t] = NoHistory /\ io[t] = Uninit
  /\ pc[t] = "recvTimeo" => hist[t].waited = 0 /\ io[t] = Uninit
  /\ Blocking(t) /\ pc[t] \in {"recv", "sleep"} =>
       hist[t].waited + delay[t] = Delays(hist[t].limit)
  /\ Blocking(t) /\ pc[t] = "sleep" => io[t] = EAGAIN
  /\ Blocking(t) /\ pc[t] = "done" /\ io[t] = EAGAIN =>
       hist[t].waited = Delays(hist[t].limit)
  /\ req[t].op = "Recv" /\ req[t].sock \notin Socks => pc[t] = "done" /\ io[t] = EINVAL

LoopCount == \A t \in Threads : LoopCountOf(t)

(* What the host has handed over so far.                                   *)
Storing == {"loadMode", "storeMode", "loadTimeo", "storeTimeo"}

GainOf(t) ==
  LET r == req[t]  g == hist[t].gain
  IN  /\ pc[t] = "idle" => g = "none"
      /\ g = "conn" => r.op = "Accept" /\ pc[t] \in Storing \cup {"done"} /\ io[t] >= 0
      /\ r.op = "Accept" /\ pc[t] \in Storing => g = "conn"
      /\ r.op = "Accept" /\ pc[t] = "done" /\ io[t] >= 0 => g = "conn"
      /\ g = "data" => r.op = "Recv" /\ pc[t] = "done" /\ io[t] > 0
      /\ r.op = "Recv" /\ pc[t] = "done" /\ io[t] > 0 => g = "data"
      /\ r.op = "Recv" => pc[t] \in {"recvTimeo", "recv", "sleep", "done"}
      /\ r.op = "Recv" /\ pc[t] # "done" => io[t] \in {Uninit, EAGAIN}

GainSoFar == \A t \in Threads : GainOf(t)

IInv == TypeOK /\ Control /\ LoopCount /\ GainSoFar

-----------------------------------------------------------------------------
(***************************************************************************)
(* The host: every outcome is a return value and a table of sockets, and a *)
(* new socket is in the table.                                             *)
(***************************************************************************)
Outcome == [ret : Int, host : [Socks -> HostSock]]

LEMMA RefuseType == ASSUME HostTypeOK, NEW r \in Int PROVE Refuse(r) \in Outcome
BY DEF Refuse, Outcome, HostTypeOK

LEMMA AnswerType ==
  ASSUME HostTypeOK, NEW r \in Int, NEW s, NEW h \in HostSock
  PROVE  Answer(r, s, h) \in Outcome
BY DEF Answer, Outcome, HostTypeOK

LEMMA FreshType == ASSUME NEW st \in SockStates PROVE Fresh(st) \in HostSock
BY DEF Fresh, HostSock

LEMMA CodesType ==
  /\ {OK, ERROR, ESOCK, EINVAL, ENOTSUP, ENOMEM, EAGAIN, EINPROGRESS, ETIMEDOUT, EISCONN,
      ENOTCONN, ECONNREFUSED, ECONNRESET, ECONNABORTED, EALREADY, EADDRINUSE,
      EHOSTNOTFOUND, Uninit} \subseteq Int
  /\ EAGAIN < 0 /\ EINVAL < 0 /\ OK = 0 /\ Uninit < 0 /\ Uninit # EAGAIN
BY DEF OK, ERROR, ESOCK, EINVAL, ENOTSUP, ENOMEM, EAGAIN, EINPROGRESS, ETIMEDOUT, EISCONN,
      ENOTCONN, ECONNREFUSED, ECONNRESET, ECONNABORTED, EALREADY, EADDRINUSE,
      EHOSTNOTFOUND, Uninit

LEMMA SocksInt == Socks \subseteq Nat
BY NumSocksAssumption DEF Socks

LEMMA HostCreateType ==
  ASSUME HostTypeOK, NEW o \in HostCreate
  PROVE  o \in Outcome /\ (o.ret >= 0 => o.ret \in Socks)
<1>1. CASE FreeSocks = {}
  <2>1. o = Refuse(ENOMEM)  BY <1>1 DEF HostCreate
  <2>2. QED  BY <2>1, RefuseType, CodesType DEF Refuse, ENOMEM
<1>2. CASE FreeSocks # {}
  <2>1. PICK s \in FreeSocks : o = Answer(s, s, Fresh("open"))  BY <1>2 DEF HostCreate
  <2>2. s \in Socks /\ s \in Int
    <3>1. s \in Socks  BY DEF FreeSocks
    <3>2. QED  BY <3>1, SocksInt
  <2>3. o \in Outcome  BY <2>1, <2>2, AnswerType, FreshType DEF SockStates
  <2>4. QED  BY <2>1, <2>2, <2>3 DEF Answer
<1>3. QED  BY <1>1, <1>2

LEMMA HostBindType == ASSUME HostTypeOK, NEW s, NEW o \in HostBind(s) PROVE o \in Outcome
BY RefuseType, AnswerType, FreshType, CodesType DEF HostBind, SockStates

LEMMA HostListenType == ASSUME HostTypeOK, NEW s, NEW o \in HostListen(s) PROVE o \in Outcome
BY RefuseType, AnswerType, FreshType, CodesType DEF HostListen, SockStates

LEMMA HostCloseType == ASSUME HostTypeOK, NEW s, NEW o \in HostClose(s) PROVE o \in Outcome
BY RefuseType, AnswerType, FreshType, CodesType DEF HostClose, SockStates

LEMMA HostConnectType == ASSUME HostTypeOK, NEW s, NEW o \in HostConnect(s) PROVE o \in Outcome
<1>1. St(s) \in SockStates  BY DEF St, HostTypeOK, HostSock, SockStates
<1>2. QED
  BY <1>1, RefuseType, AnswerType, FreshType, CodesType DEF HostConnect, SockStates

LEMMA HostAcceptType ==
  ASSUME HostTypeOK, NEW s, NEW o \in HostAccept(s)
  PROVE  o \in Outcome /\ (o.ret >= 0 => o.ret \in Socks)
<1>1. CASE St(s) = "listening" /\ host[s].pend > 0 /\ FreeSocks # {}
  <2>1. s \in Socks /\ host[s] \in HostSock  BY <1>1 DEF St, HostTypeOK
  <2>2. PICK n \in FreeSocks :
          o = [ret  |-> n,
               host |-> [host EXCEPT ![s].pend = @ - 1, ![n] = Fresh("connected")]]
    BY <1>1 DEF HostAccept
  <2>3. n \in Socks /\ n \in Int  BY SocksInt DEF FreeSocks
  <2>4. [host[s] EXCEPT !.pend = @ - 1] \in HostSock  BY <1>1, <2>1 DEF HostSock
  <2>5. Fresh("connected") \in HostSock  BY FreshType DEF SockStates
  <2>6. [host EXCEPT ![s].pend = @ - 1, ![n] = Fresh("connected")] \in [Socks -> HostSock]
    BY <2>1, <2>4, <2>5 DEF HostTypeOK
  <2>7. QED  BY <2>2, <2>3, <2>6 DEF Outcome
<1>2. CASE ~(St(s) = "listening" /\ host[s].pend > 0 /\ FreeSocks # {})
  <2>1. CASE St(s) = "listening"
    <3>1. s \in Socks /\ host[s].pend \in Nat  BY <2>1 DEF St, HostTypeOK, HostSock
    <3>2. o = Refuse(EAGAIN) \/ o = Refuse(ENOMEM)  BY <1>2, <2>1, <3>1 DEF HostAccept
    <3>3. QED  BY <3>2, RefuseType, CodesType DEF Refuse, EAGAIN, ENOMEM
  <2>2. CASE St(s) # "listening"
    <3>1. o = Refuse(ESOCK) \/ o = Refuse(EINVAL)  BY <2>2 DEF HostAccept
    <3>2. QED  BY <3>1, RefuseType, CodesType DEF Refuse, ESOCK, EINVAL
  <2>3. QED  BY <2>1, <2>2
<1>3. QED  BY <1>1, <1>2

LEMMA HostRecvType ==
  ASSUME HostTypeOK, NEW s, NEW len, NEW o \in HostRecv(s, len)
  PROVE  o \in Outcome
<1>1. CASE St(s) \in {"connected", "eof"} /\ host[s].rx > 0
  <2>1. s \in Socks /\ host[s] \in HostSock  BY <1>1 DEF St, HostTypeOK
  <2>2. [host[s] EXCEPT !.rx = @ - 1] \in HostSock  BY <1>1, <2>1 DEF HostSock
  <2>3. o = Refuse(OK) \/ o = Answer(1, s, [host[s] EXCEPT !.rx = @ - 1])
    BY <1>1 DEF HostRecv
  <2>4. Refuse(OK) \in Outcome  BY RefuseType, CodesType
  <2>5. 1 \in Int  OBVIOUS
  <2>6. Answer(1, s, [host[s] EXCEPT !.rx = @ - 1]) \in Outcome  BY <2>2, <2>5, AnswerType
  <2>7. QED  BY <2>3, <2>4, <2>6
<1>2. CASE St(s) \in {"connected", "eof"} /\ ~(host[s].rx > 0)
  <2>1. s \in Socks /\ host[s].rx \in Nat  BY <1>2 DEF St, HostTypeOK, HostSock
  <2>2. o = Refuse(EAGAIN) \/ o = Refuse(OK)  BY <1>2, <2>1 DEF HostRecv
  <2>3. QED  BY <2>2, RefuseType, CodesType
<1>3. CASE St(s) \notin {"connected", "eof"}
  <2>1. o = Refuse(ESOCK) \/ o = Refuse(ENOTCONN)  BY <1>3 DEF HostRecv
  <2>2. QED  BY <2>1, RefuseType, CodesType
<1>4. QED  BY <1>1, <1>2, <1>3

LEMMA HostStepType == ASSUME HostTypeOK, HostStep PROVE HostTypeOK'
<1>1. PICK s \in Socks : \/ RequestArrives(s) \/ DataArrives(s) \/ ConnectEnds(s) \/ PeerCloses(s)
  BY DEF HostStep
<1>2. host[s] \in HostSock  BY DEF HostTypeOK
<1>3. CASE RequestArrives(s)
  <2>1. [host[s] EXCEPT !.pend = @ + 1] \in HostSock  BY <1>2 DEF HostSock
  <2>2. QED  BY <1>3, <2>1 DEF RequestArrives, HostTypeOK
<1>4. CASE DataArrives(s)
  <2>1. [host[s] EXCEPT !.rx = @ + 1] \in HostSock  BY <1>2 DEF HostSock
  <2>2. QED  BY <1>4, <2>1 DEF DataArrives, HostTypeOK
<1>5. CASE ConnectEnds(s)
  <2>1. \A st \in {"connected", "refused"} : [host[s] EXCEPT !.st = st] \in HostSock
    BY <1>2 DEF HostSock, SockStates
  <2>2. QED  BY <1>5, <2>1 DEF ConnectEnds, HostTypeOK
<1>6. CASE PeerCloses(s)
  <2>1. [host[s] EXCEPT !.st = "eof"] \in HostSock  BY <1>2 DEF HostSock, SockStates
  <2>2. QED  BY <1>6, <2>1 DEF PeerCloses, HostTypeOK
<1>7. QED  BY <1>1, <1>3, <1>4, <1>5, <1>6

-----------------------------------------------------------------------------
(***************************************************************************)
(* Type correctness.  It needs Control: what a thread stores is an         *)
(* attribute word because of the operation it executes there.              *)
(***************************************************************************)
LEMMA NewModeType ==
  ASSUME TypeOK, Control, NEW t \in Threads, pc[t] = "loadMode"
  PROVE  NewMode(t) \in BOOLEAN
<1>1. req[t] \in Request  BY DEF TypeOK, CallsTypeOK
<1>2. req[t].op \in {"Create", "Accept", "SetMode"}  BY DEF Control, ControlOf
<1>3. CASE req[t].op = "Create"   BY <1>3 DEF NewMode, NewAttr
<1>4. CASE req[t].op = "Accept"   BY <1>1, <1>4 DEF NewMode, Request
<1>5. CASE req[t].op = "SetMode"  BY <1>5 DEF NewMode
<1>6. QED  BY <1>2, <1>3, <1>4, <1>5

LEMMA NewTimeoType ==
  ASSUME TypeOK, Control, NEW t \in Threads, pc[t] = "loadTimeo"
  PROVE  NewTimeo(t) \in 0 .. TimeoMod - 1
<1>1. req[t] \in Request  BY DEF TypeOK, CallsTypeOK
<1>2. req[t].op \in {"Create", "Accept", "SetTimeo"}  BY DEF Control, ControlOf
<1>3. CASE req[t].op = "Create"  BY <1>3, TimeoAssumption DEF NewTimeo, NewAttr
<1>4. CASE req[t].op = "Accept"
  <2>1. req[t].sock \in Socks  BY <1>4 DEF Control, ControlOf
  <2>2. NewTimeo(t) = attr[req[t].sock].to_msec  BY <1>4 DEF NewTimeo
  <2>3. QED  BY <2>1, <2>2 DEF TypeOK, CallsTypeOK, Attr
<1>5. CASE req[t].op = "SetTimeo"
  <2>1. req[t].val \in Nat  BY <1>1 DEF Request
  <2>2. req[t].val % TimeoMod \in 0 .. TimeoMod - 1  BY <2>1, TimeoAssumption
  <2>3. QED  BY <1>5, <2>2 DEF NewTimeo, InField
<1>6. QED  BY <1>2, <1>3, <1>4, <1>5

LEMMA DelaysType == ASSUME NEW m \in Nat PROVE Delays(m) \in Nat
BY DEF Delays

LEMMA InitType == Init => TypeOK
BY TimeoAssumption, CodesType
   DEF Init, TypeOK, CallsTypeOK, OptionsTypeOK, Options, HostInit, HostTypeOK, HostSock, SockStates, Fresh, Attr, NoAttr, Pcs,
       Request, NoRequest, AllOps, SockArgs, History, NoHistory

LEMMA CallType ==
  ASSUME TypeOK, Control, NEW t \in Threads, Call(t)
  PROVE  HostTypeOK' /\ CallsTypeOK'
<1> USE DEF TypeOK, CallsTypeOK, owner, Goto, Result, Enter
<1>0. HostTypeOK  OBVIOUS
<1>1. CASE Create(t)
  <2>1. PICK o \in HostCreate : /\ host' = o.host
                                /\ io' = [io EXCEPT ![t] = o.ret]
                                /\ pc' = [pc EXCEPT ![t] = IF o.ret >= 0 THEN "loadMode" ELSE "done"]
    BY <1>1 DEF Create
  <2>2. o \in Outcome  BY <1>0, HostCreateType
  <2>3. HostTypeOK'  BY <2>1, <2>2 DEF HostTypeOK, Outcome
  <2>4. io' \in [Threads -> Int]  BY <2>1, <2>2 DEF Outcome
  <2>5. pc' \in [Threads -> Pcs]  BY <2>1 DEF Pcs
  <2>6. req' \in [Threads -> Request]
    BY <1>1 DEF Create, Request, AllOps, SockArgs
  <2>7. QED  BY <1>1, <2>3, <2>4, <2>5, <2>6 DEF Create, ghost, owner
<1>2. CASE GetHostByName(t)
  <2>1. req' \in [Threads -> Request]
    BY <1>2 DEF GetHostByName, Request, AllOps, SockArgs
  <2>2. QED  BY <1>2, <2>1 DEF GetHostByName, ghost, owner, Pcs, HostTypeOK
<1>3. ASSUME NEW s \in SockArgs, Bind(t, s) PROVE HostTypeOK' /\ CallsTypeOK'
  <2>1. HostTypeOK'  BY <1>0, <1>3, HostBindType DEF Bind, Outcome, HostTypeOK
  <2>2. QED  BY <1>3, <2>1 DEF Bind, local, ghost, owner
<1>4. ASSUME NEW s \in SockArgs, Listen(t, s) PROVE HostTypeOK' /\ CallsTypeOK'
  <2>1. HostTypeOK'  BY <1>0, <1>4, HostListenType DEF Listen, Outcome, HostTypeOK
  <2>2. QED  BY <1>4, <2>1 DEF Listen, local, ghost, owner
<1>5. ASSUME NEW s \in SockArgs, NEW op \in AllOps, NEW v \in Nat, NEW next \in Pcs,
             CallWithMode(t, op, s, v, next)
      PROVE  HostTypeOK' /\ CallsTypeOK'
  <2>1. CASE s \in Socks
    <3>1. attr[s].ionbio \in BOOLEAN  BY <2>1 DEF Attr
    <3>2. req' = [req EXCEPT ![t] = [op |-> op, sock |-> s, val |-> v, nbio |-> attr[s].ionbio]]
      BY <1>5, <2>1 DEF CallWithMode
    <3>3. req' \in [Threads -> Request]  BY <3>1, <3>2 DEF Request
    <3>4. pc' \in [Threads -> Pcs]  BY <1>5, <2>1 DEF CallWithMode, Pcs
    <3>5. QED  BY <1>5, <2>1, <3>3, <3>4 DEF CallWithMode, ghost, owner, HostTypeOK
  <2>2. CASE s \notin Socks
    <3>1. req' = [req EXCEPT ![t] = [op |-> op, sock |-> s, val |-> v, nbio |-> FALSE]]
      BY <1>5, <2>2 DEF CallWithMode
    <3>2. req' \in [Threads -> Request]  BY <3>1 DEF Request
    <3>3. pc' \in [Threads -> Pcs]  BY <1>5, <2>2 DEF CallWithMode, Pcs
    <3>4. io' \in [Threads -> Int]  BY <1>5, <2>2, CodesType DEF CallWithMode
    <3>5. QED  BY <1>5, <3>2, <3>3, <3>4 DEF CallWithMode, ghost, owner, HostTypeOK
  <2>3. QED  BY <2>1, <2>2
<1>6. ASSUME NEW s \in SockArgs, NEW op \in AllOps, NEW v \in Nat, NEW next \in Pcs,
             SetOpt(t, op, s, v, next)
      PROVE  HostTypeOK' /\ CallsTypeOK'
  <2>1. req' \in [Threads -> Request]  BY <1>6 DEF SetOpt, Request
  <2>2. pc' \in [Threads -> Pcs]  BY <1>6 DEF SetOpt, Pcs
  <2>3. io' \in [Threads -> Int]  BY <1>6, CodesType DEF SetOpt
  <2>4. QED  BY <1>6, <2>1, <2>2, <2>3 DEF SetOpt, ghost, owner, HostTypeOK
<1>7. ASSUME NEW s \in SockArgs, GetTimeo(t, s) PROVE HostTypeOK' /\ CallsTypeOK'
  <2>1. req' \in [Threads -> Request]  BY <1>7 DEF GetTimeo, Request, AllOps
  <2>2. pc' \in [Threads -> Pcs]  BY <1>7 DEF GetTimeo, Pcs
  <2>3. (IF s \in Socks THEN attr[s].to_msec ELSE EINVAL) \in Int
    BY CodesType, TimeoAssumption DEF Attr
  <2>4. io' \in [Threads -> Int]  BY <1>7, <2>3 DEF GetTimeo
  <2>5. QED  BY <1>7, <2>1, <2>2, <2>4 DEF GetTimeo, ghost, owner, HostTypeOK
<1>8. ASSUME NEW s \in SockArgs, Close(t, s) PROVE HostTypeOK' /\ CallsTypeOK'
  <2>1. PICK o \in HostClose(s) :
          /\ host' = o.host
          /\ io' = [io EXCEPT ![t] = o.ret]
          /\ pc' = [pc EXCEPT ![t] = IF o.ret = OK THEN "clear" ELSE "done"]
          /\ held' = IF o.ret = OK THEN held \ {s} ELSE held
    BY <1>8 DEF Close
  <2>2. o \in Outcome  BY <1>0, HostCloseType
  <2>3. HostTypeOK'  BY <2>1, <2>2 DEF HostTypeOK, Outcome
  <2>4. io' \in [Threads -> Int]  BY <2>1, <2>2 DEF Outcome
  <2>5. pc' \in [Threads -> Pcs]  BY <2>1 DEF Pcs
  <2>6. req' \in [Threads -> Request]  BY <1>8 DEF Close, Request, AllOps
  <2>7. held' \in SUBSET Socks  BY <2>1
  <2>8. QED  BY <1>8, <2>3, <2>4, <2>5, <2>6, <2>7 DEF Close
<1>9. QED
  <2>1. \A v \in {0, 1} : v \in Nat  OBVIOUS
  <2>2. \A v \in RcvTimeouts : v \in Nat  BY TimeoAssumption
  <2>3. {"accept", "connect", "recvTimeo", "loadMode", "loadTimeo"} \subseteq Pcs  BY DEF Pcs
  <2>4. {"Accept", "Connect", "Recv", "SetMode", "SetTimeo"} \subseteq AllOps  BY DEF AllOps
  <2>5. 0 \in Nat  OBVIOUS
  <2>6. CASE \E s \in SockArgs : Bind(t, s) \/ Listen(t, s) \/ GetTimeo(t, s) \/ Close(t, s)
    BY <2>6, <1>3, <1>4, <1>7, <1>8
  <2>7. CASE \E s \in SockArgs : Accept(t, s) \/ Connect(t, s) \/ \E len \in {0, 1} : Recv(t, s, len)
    BY <2>7, <1>5, <2>1, <2>3, <2>4, <2>5 DEF Accept, Connect, Recv
  <2>8. CASE \E s \in SockArgs : \/ \E v \in {0, 1} : SetMode(t, s, v)
                                 \/ \E v \in RcvTimeouts : SetTimeo(t, s, v)
    BY <2>8, <1>6, <2>1, <2>2, <2>3, <2>4 DEF SetMode, SetTimeo
  <2>9. QED  BY <1>1, <1>2, <2>6, <2>7, <2>8 DEF Call

LEMMA StepType ==
  ASSUME TypeOK, Control, NEW t \in Threads, Step(t)
  PROVE  HostTypeOK' /\ CallsTypeOK'
<1> USE DEF TypeOK, CallsTypeOK, owner, Goto, Result
<1>0. HostTypeOK /\ req[t] \in Request /\ hist[t] \in History  OBVIOUS
<1>1. CASE AcceptHost(t)
  <2>1. PICK o \in HostAccept(req[t].sock) :
          /\ host' = o.host
          /\ io' = [io EXCEPT ![t] = o.ret]
          /\ pc' = [pc EXCEPT ![t] = IF o.ret >= 0 THEN "loadMode"
                                     ELSE IF o.ret = EAGAIN /\ ~req[t].nbio THEN "sleep" ELSE "done"]
          /\ hist' = [hist EXCEPT ![t].gain = IF o.ret >= 0 THEN "conn" ELSE "none"]
    BY <1>1 DEF AcceptHost, Received
  <2>2. o \in Outcome  BY <1>0, HostAcceptType
  <2>3. HostTypeOK' /\ io' \in [Threads -> Int]  BY <2>1, <2>2 DEF HostTypeOK, Outcome
  <2>4. pc' \in [Threads -> Pcs]  BY <2>1 DEF Pcs
  <2>5. hist' \in [Threads -> History]  BY <2>1, <1>0 DEF History
  <2>6. QED  BY <1>1, <2>3, <2>4, <2>5 DEF AcceptHost
<1>2. CASE ConnectHost(t)
  <2>1. PICK o \in HostConnect(req[t].sock) :
          /\ host' = o.host
          /\ io' = [io EXCEPT ![t] = IF o.ret = EISCONN /\ ~req[t].nbio THEN OK ELSE o.ret]
          /\ pc' = [pc EXCEPT ![t] = IF ConnectPending(o.ret) /\ ~req[t].nbio THEN "sleep" ELSE "done"]
    BY <1>2 DEF ConnectHost
  <2>2. o \in Outcome  BY <1>0, HostConnectType
  <2>3. HostTypeOK' /\ io' \in [Threads -> Int]
    BY <2>1, <2>2, CodesType DEF HostTypeOK, Outcome
  <2>4. pc' \in [Threads -> Pcs]  BY <2>1 DEF Pcs
  <2>5. QED  BY <1>2, <2>3, <2>4 DEF ConnectHost, ghost, owner
<1>3. CASE RecvHost(t)
  <2>1. PICK o \in HostRecv(req[t].sock, req[t].val) :
          LET r == IF req[t].nbio THEN o.ret ELSE NoData(o.ret, req[t].val)
          IN  /\ host' = o.host
              /\ io' = [io EXCEPT ![t] = r]
              /\ pc' = [pc EXCEPT ![t] = IF r = EAGAIN /\ ~req[t].nbio THEN "sleep" ELSE "done"]
              /\ hist' = [hist EXCEPT ![t].gain = IF o.ret > 0 THEN "data" ELSE "none"]
    BY <1>3 DEF RecvHost, Received
  <2>2. o \in Outcome  BY <1>0, HostRecvType
  <2>3. HostTypeOK'  BY <2>1, <2>2 DEF HostTypeOK, Outcome
  <2>4. io' \in [Threads -> Int]  BY <2>1, <2>2, CodesType DEF NoData, Outcome
  <2>5. pc' \in [Threads -> Pcs]  BY <2>1 DEF Pcs
  <2>6. hist' \in [Threads -> History]  BY <2>1, <1>0 DEF History
  <2>7. QED  BY <1>3, <2>3, <2>4, <2>5, <2>6 DEF RecvHost
<1>4. CASE GetHostByNameHost(t)
  <2>1. \A o \in HostGetHostByName : o.ret \in Int  BY CodesType DEF HostGetHostByName, Refuse
  <2>2. QED  BY <1>4, <2>1 DEF GetHostByNameHost, ghost, owner, Pcs, HostTypeOK
<1>5. CASE RecvTimeo(t)
  <2>1. req[t].sock \in Socks  BY <1>5 DEF RecvTimeo, Control, ControlOf
  <2>2. attr[req[t].sock].to_msec \in Nat  BY <2>1, TimeoAssumption DEF Attr
  <2>3. delay' \in [Threads -> Nat]  BY <1>5, <2>2, DelaysType DEF RecvTimeo
  <2>4. hist' \in [Threads -> History]  BY <1>5, <1>0, <2>2 DEF RecvTimeo, History
  <2>5. pc' \in [Threads -> Pcs]  BY <1>5 DEF RecvTimeo, Pcs
  <2>6. QED  BY <1>5, <2>3, <2>4, <2>5 DEF RecvTimeo, HostTypeOK
<1>6. CASE Wake(t)
  <2>1. req[t].op \in {"Accept", "Connect", "GetHostByName"}  BY <1>6 DEF Wake, Control, ControlOf
  <2>2. WakeAs[req[t].op] \in Pcs  BY <2>1 DEF WakeAs, Pcs
  <2>3. QED  BY <1>6, <2>2 DEF Wake, ghost, owner, HostTypeOK
<1>7. CASE WakeRecv(t)
  <2>1. delay[t] > 0  BY <1>7 DEF WakeRecv, Control, ControlOf
  <2>2. delay' \in [Threads -> Nat]  BY <1>7, <2>1 DEF WakeRecv
  <2>3. hist' \in [Threads -> History]  BY <1>7, <1>0 DEF WakeRecv, History
  <2>4. pc' \in [Threads -> Pcs]  BY <1>7 DEF WakeRecv, Pcs
  <2>5. QED  BY <1>7, <2>2, <2>3, <2>4 DEF WakeRecv, HostTypeOK
<1>8. CASE LoadMode(t)
  <2>1. pc[t] = "loadMode" /\ Target(t) \in Socks  BY <1>8 DEF LoadMode, Control, ControlOf
  <2>2. NewMode(t) \in BOOLEAN  BY <2>1, NewModeType
  <2>3. [attr[Target(t)] EXCEPT !.ionbio = NewMode(t)] \in Attr  BY <2>1, <2>2 DEF Attr
  <2>4. word' \in [Threads -> Attr]  BY <1>8, <2>3 DEF LoadMode
  <2>5. pc' \in [Threads -> Pcs]  BY <1>8 DEF LoadMode, Pcs
  <2>6. QED  BY <1>8, <2>4, <2>5 DEF LoadMode, ghost, HostTypeOK
<1>9. CASE StoreMode(t)
  BY <1>9 DEF StoreMode, ghost, owner, Pcs, HostTypeOK
<1>10. CASE LoadTimeo(t)
  <2>1. pc[t] = "loadTimeo" /\ Target(t) \in Socks  BY <1>10 DEF LoadTimeo, Control, ControlOf
  <2>2. NewTimeo(t) \in 0 .. TimeoMod - 1  BY <2>1, NewTimeoType
  <2>3. [attr[Target(t)] EXCEPT !.to_msec = NewTimeo(t)] \in Attr  BY <2>1, <2>2 DEF Attr
  <2>4. word' \in [Threads -> Attr]  BY <1>10, <2>3 DEF LoadTimeo
  <2>5. pc' \in [Threads -> Pcs]  BY <1>10 DEF LoadTimeo, Pcs
  <2>6. QED  BY <1>10, <2>4, <2>5 DEF LoadTimeo, HostTypeOK
<1>11. CASE StoreTimeo(t)
  BY <1>11 DEF StoreTimeo, ghost, owner, Pcs, HostTypeOK
<1>12. CASE ClearAttr(t)
  <2>1. NoAttr \in Attr  BY TimeoAssumption DEF NoAttr, Attr
  <2>2. QED  BY <1>12, <2>1 DEF ClearAttr, ghost, owner, Pcs, HostTypeOK
<1>13. CASE Return(t)
  <2>1. NoRequest \in Request /\ NoHistory \in History /\ NoAttr \in Attr
    BY TimeoAssumption DEF NoRequest, Request, AllOps, SockArgs, NoHistory, History, NoAttr, Attr
  <2>2. held' \in SUBSET Socks
    <3>1. CASE req[t].op \in {"Create", "Accept"} /\ io[t] >= 0
      <4>1. io[t] \in Socks  BY <1>13, <3>1 DEF Return, Control, ControlOf
      <4>2. QED  BY <1>13, <3>1, <4>1 DEF Return
    <3>2. CASE ~(req[t].op \in {"Create", "Accept"} /\ io[t] >= 0)
      BY <1>13, <3>2 DEF Return
    <3>3. QED  BY <3>1, <3>2
  <2>3. QED  BY <1>13, <2>1, <2>2, CodesType DEF Return, Pcs, HostTypeOK
<1>14. QED
  BY <1>1, <1>2, <1>3, <1>4, <1>5, <1>6, <1>7, <1>8, <1>9, <1>10, <1>11, <1>12, <1>13
     DEF Step

(* The histories of the options.                                           *)
LEMMA HandedOutType ==
  ASSUME TypeOK, NEW n \in Socks, NEW from, HandedOut(n, from)
  PROVE  tainted' \in SUBSET Socks
BY DEF HandedOut, TypeOK, OptionsTypeOK

LEMMA OptionsType ==
  ASSUME TypeOK, Control, NEW t \in Threads, Call(t) \/ Step(t)
  PROVE  OptionsTypeOK'
<1> USE DEF OptionsTypeOK, Options, Asks, owner, ghost
<1>0. OptionsTypeOK /\ HostTypeOK /\ ControlOf(t)  BY DEF TypeOK, Control
<1>1. NoAttr \in Options /\ DefaultTimeo \in Nat  BY TimeoAssumption DEF NoAttr
<1>2. CASE Create(t)
  <2>1. PICK o \in HostCreate : IF o.ret >= 0 THEN HandedOut(o.ret, -1) ELSE UNCHANGED tainted
    BY <1>2 DEF Create
  <2>2. tainted' \in SUBSET Socks  BY <1>0, <2>1, HostCreateType, HandedOutType
  <2>3. QED  BY <1>0, <1>1, <1>2, <2>2 DEF Create
<1>3. CASE GetHostByName(t)  BY <1>0, <1>3 DEF GetHostByName
<1>4. ASSUME NEW s \in SockArgs, Bind(t, s) \/ Listen(t, s) \/ GetTimeo(t, s)
      PROVE  OptionsTypeOK'
  BY <1>0, <1>4 DEF Bind, Listen, GetTimeo
<1>5. ASSUME NEW s \in SockArgs, Accept(t, s) PROVE OptionsTypeOK'
  BY <1>0, <1>1, <1>5 DEF Accept, CallWithMode
<1>6. ASSUME NEW s \in SockArgs, Connect(t, s) \/ \E len \in {0, 1} : Recv(t, s, len)
      PROVE  OptionsTypeOK'
  BY <1>0, <1>6 DEF Connect, Recv, CallWithMode
<1>7. ASSUME NEW s \in SockArgs, NEW v \in Nat, SetMode(t, s, v) \/ SetTimeo(t, s, v)
      PROVE  OptionsTypeOK'
  <2>1. [ionbio |-> v # 0, to_msec |-> 0] \in Options /\ [ionbio |-> FALSE, to_msec |-> v] \in Options
    OBVIOUS
  <2>2. tainted' = tainted /\ opt' = opt  BY <1>7 DEF SetMode, SetTimeo, SetOpt
  <2>3. ask' \in [Threads -> Options]  BY <1>0, <1>7, <2>1 DEF SetMode, SetTimeo
  <2>4. QED  BY <1>0, <2>2, <2>3
<1>8. ASSUME NEW s \in SockArgs, Close(t, s) PROVE OptionsTypeOK'
  <2>1. \/ /\ tainted' = tainted \ {s}
           /\ opt' = [opt EXCEPT ![s] = NoAttr]
        \/ UNCHANGED <<tainted, opt>>
    BY <1>8 DEF Close
  <2>2. ask' = ask  BY <1>8 DEF Close
  <2>3. QED  BY <1>0, <1>1, <2>1, <2>2
<1>9. CASE AcceptHost(t)
  <2>1. PICK o \in HostAccept(req[t].sock) :
          IF o.ret >= 0 THEN HandedOut(o.ret, req[t].sock) ELSE UNCHANGED tainted
    BY <1>9 DEF AcceptHost
  <2>2. tainted' \in SUBSET Socks  BY <1>0, <2>1, HostAcceptType, HandedOutType
  <2>3. QED  BY <1>0, <1>9, <2>2 DEF AcceptHost
<1>10. CASE \/ ConnectHost(t) \/ RecvHost(t) \/ GetHostByNameHost(t) \/ RecvTimeo(t)
            \/ Wake(t) \/ WakeRecv(t) \/ LoadMode(t) \/ ClearAttr(t)
  BY <1>0, <1>10 DEF ConnectHost, RecvHost, GetHostByNameHost, RecvTimeo, Wake, WakeRecv,
                     LoadMode, ClearAttr
<1>11. CASE StoreMode(t) \/ StoreTimeo(t)
  <2>1. opt' \in [Socks -> Options]
    <3>1. ask[t] \in Options  BY <1>0
    <3>2. CASE StoreMode(t)   BY <1>0, <3>1, <3>2 DEF StoreMode
    <3>3. CASE StoreTimeo(t)  BY <1>0, <3>1, <3>3 DEF StoreTimeo
    <3>4. QED  BY <1>11, <3>2, <3>3
  <2>2. QED  BY <1>0, <1>11, <2>1 DEF StoreMode, StoreTimeo
<1>12. CASE LoadTimeo(t)
  <2>1. req[t].op = "Accept" => req[t].sock \in Socks
    BY <1>0, <1>12 DEF LoadTimeo, ControlOf
  <2>2. ask' \in [Threads -> Options]  BY <1>0, <1>12, <2>1 DEF LoadTimeo
  <2>3. QED  BY <1>0, <1>12, <2>2 DEF LoadTimeo
<1>13. CASE Return(t)  BY <1>0, <1>1, <1>13 DEF Return
<1>14. QED
  <2>1. \A v \in RcvTimeouts \cup {0, 1} : v \in Nat  BY TimeoAssumption
  <2>2. CASE Call(t)
    BY <2>1, <2>2, <1>2, <1>3, <1>4, <1>5, <1>6, <1>7, <1>8 DEF Call
  <2>3. CASE Step(t)
    BY <2>3, <1>9, <1>10, <1>11, <1>12, <1>13 DEF Step
  <2>4. QED  BY <2>2, <2>3

(* A step of a thread leaves the local variables of the others alone.      *)
Same(u) == /\ ask'[u] = ask[u]
           /\ pc'[u] = pc[u] /\ req'[u] = req[u] /\ io'[u] = io[u]
           /\ delay'[u] = delay[u] /\ hist'[u] = hist[u] /\ word'[u] = word[u]

LEMMA OthersUnchanged ==
  ASSUME TypeOK, NEW t \in Threads, NEW u \in Threads \ {t}, Call(t) \/ Step(t)
  PROVE  Same(u)
<1> USE DEF TypeOK, CallsTypeOK, OptionsTypeOK, Goto, Result, Enter, Received, Asks, Same,
            ghost, owner, local
<1>1. CASE Call(t)
  <2>1. CASE Create(t)         BY <2>1 DEF Create
  <2>2. CASE GetHostByName(t)  BY <2>2 DEF GetHostByName
  <2>3. ASSUME NEW s \in SockArgs, Bind(t, s) \/ Listen(t, s) PROVE Same(u)
    BY <2>3 DEF Bind, Listen
  <2>4. ASSUME NEW s \in SockArgs, NEW op, NEW v, NEW next, CallWithMode(t, op, s, v, next),
               ask'[u] = ask[u]
        PROVE  Same(u)
    BY <2>4 DEF CallWithMode
  <2>5. ASSUME NEW s \in SockArgs, NEW op, NEW v, NEW next, SetOpt(t, op, s, v, next),
               ask'[u] = ask[u]
        PROVE  Same(u)
    BY <2>5 DEF SetOpt
  <2>6. ASSUME NEW s \in SockArgs, GetTimeo(t, s) PROVE Same(u)  BY <2>6 DEF GetTimeo
  <2>7. ASSUME NEW s \in SockArgs, Close(t, s) PROVE Same(u)     BY <2>7 DEF Close
  <2>8. QED
    BY <1>1, <2>1, <2>2, <2>3, <2>4, <2>5, <2>6, <2>7
       DEF Call, Accept, Connect, Recv, SetMode, SetTimeo
<1>2. CASE Step(t)
  <2>1. CASE AcceptHost(t)         BY <2>1 DEF AcceptHost
  <2>2. CASE ConnectHost(t)        BY <2>2 DEF ConnectHost
  <2>3. CASE RecvHost(t)           BY <2>3 DEF RecvHost
  <2>4. CASE GetHostByNameHost(t)  BY <2>4 DEF GetHostByNameHost
  <2>5. CASE RecvTimeo(t)          BY <2>5 DEF RecvTimeo
  <2>6. CASE Wake(t) \/ WakeRecv(t)         BY <2>6 DEF Wake, WakeRecv
  <2>7. CASE LoadMode(t) \/ StoreMode(t)    BY <2>7 DEF LoadMode, StoreMode
  <2>8. CASE LoadTimeo(t) \/ StoreTimeo(t)  BY <2>8 DEF LoadTimeo, StoreTimeo
  <2>9. CASE ClearAttr(t)          BY <2>9 DEF ClearAttr
  <2>10. CASE Return(t)            BY <2>10 DEF Return
  <2>11. QED
    BY <1>2, <2>1, <2>2, <2>3, <2>4, <2>5, <2>6, <2>7, <2>8, <2>9, <2>10 DEF Step
<1>3. QED  BY <1>1, <1>2

-----------------------------------------------------------------------------
(***************************************************************************)
(* Control is preserved.                                                   *)
(***************************************************************************)
LEMMA CallControl ==
  ASSUME TypeOK, Control, NEW t \in Threads, Call(t)
  PROVE  ControlOf(t)'
<1> USE DEF TypeOK, CallsTypeOK, owner, Goto, Result, Enter, ControlOf, Control, Target
<1>0. HostTypeOK  OBVIOUS
<1>1. CASE Create(t)
  <2>1. PICK o \in HostCreate : /\ io' = [io EXCEPT ![t] = o.ret]
                                /\ pc' = [pc EXCEPT ![t] = IF o.ret >= 0 THEN "loadMode" ELSE "done"]
    BY <1>1 DEF Create
  <2>2. o.ret \in Int /\ (o.ret >= 0 => o.ret \in Socks)  BY <1>0, HostCreateType DEF Outcome
  <2>3. req'[t].op = "Create"  BY <1>1 DEF Create
  <2>4. QED  BY <2>1, <2>2, <2>3
<1>2. CASE GetHostByName(t)  BY <1>2 DEF GetHostByName
<1>3. ASSUME NEW s \in SockArgs, Bind(t, s) \/ Listen(t, s) PROVE ControlOf(t)'
  BY <1>3 DEF Bind, Listen, local, ghost, owner
<1>4. ASSUME NEW s \in SockArgs, Accept(t, s) PROVE ControlOf(t)'
  BY <1>4, CodesType DEF Accept, CallWithMode
<1>5. ASSUME NEW s \in SockArgs, Connect(t, s) PROVE ControlOf(t)'
  BY <1>5 DEF Connect, CallWithMode
<1>6. ASSUME NEW s \in SockArgs, NEW len \in {0, 1}, Recv(t, s, len) PROVE ControlOf(t)'
  BY <1>6 DEF Recv, CallWithMode
<1>7. ASSUME NEW s \in SockArgs, NEW v, SetMode(t, s, v) PROVE ControlOf(t)'
  BY <1>7 DEF SetMode, SetOpt
<1>8. ASSUME NEW s \in SockArgs, NEW v, SetTimeo(t, s, v) PROVE ControlOf(t)'
  BY <1>8 DEF SetTimeo, SetOpt
<1>9. ASSUME NEW s \in SockArgs, GetTimeo(t, s) PROVE ControlOf(t)'
  BY <1>9 DEF GetTimeo
<1>10. ASSUME NEW s \in SockArgs, Close(t, s) PROVE ControlOf(t)'
  <2>1. PICK o \in HostClose(s) : pc' = [pc EXCEPT ![t] = IF o.ret = OK THEN "clear" ELSE "done"]
    BY <1>10 DEF Close
  <2>2. ASSUME o.ret = OK PROVE s \in Socks
    <3>1. CASE s \in Socks  BY <3>1
    <3>2. CASE s \notin Socks
      <4>1. o = Refuse(ESOCK)  BY <3>2 DEF HostClose, St
      <4>2. QED  BY <2>2, <4>1 DEF Refuse, OK, ESOCK
    <3>3. QED  BY <3>1, <3>2
  <2>3. req'[t].op = "Close" /\ req'[t].sock = s  BY <1>10 DEF Close
  <2>4. QED  BY <2>1, <2>2, <2>3
<1>11. QED
  BY <1>1, <1>2, <1>3, <1>4, <1>5, <1>6, <1>7, <1>8, <1>9, <1>10 DEF Call

LEMMA StepControl ==
  ASSUME TypeOK, Control, NEW t \in Threads, Step(t)
  PROVE  ControlOf(t)'
<1> USE DEF TypeOK, CallsTypeOK, owner, Goto, Result, ControlOf, Control, Target
<1>0. HostTypeOK  OBVIOUS
<1>1. CASE AcceptHost(t)
  <2>1. PICK o \in HostAccept(req[t].sock) :
          /\ io' = [io EXCEPT ![t] = o.ret]
          /\ pc' = [pc EXCEPT ![t] = IF o.ret >= 0 THEN "loadMode"
                                     ELSE IF o.ret = EAGAIN /\ ~req[t].nbio THEN "sleep" ELSE "done"]
    BY <1>1 DEF AcceptHost
  <2>2. o.ret \in Int /\ (o.ret >= 0 => o.ret \in Socks)  BY <1>0, HostAcceptType DEF Outcome
  <2>3. req' = req /\ pc[t] = "accept"  BY <1>1 DEF AcceptHost
  <2>4. QED  BY <2>1, <2>2, <2>3
<1>2. CASE ConnectHost(t)         BY <1>2 DEF ConnectHost
<1>3. CASE RecvHost(t)            BY <1>3 DEF RecvHost
<1>4. CASE GetHostByNameHost(t)   BY <1>4 DEF GetHostByNameHost
<1>5. CASE RecvTimeo(t)
  <2>1. req[t].sock \in Socks  BY <1>5 DEF RecvTimeo
  <2>2. attr[req[t].sock].to_msec \in Nat  BY <2>1, TimeoAssumption DEF Attr
  <2>3. Delays(attr[req[t].sock].to_msec) \in Nat  BY <2>2, DelaysType
  <2>4. QED  BY <1>5, <2>3 DEF RecvTimeo
<1>6. CASE Wake(t)                BY <1>6 DEF Wake, WakeAs
<1>7. CASE WakeRecv(t)            BY <1>7 DEF WakeRecv
<1>8. CASE LoadMode(t) \/ StoreMode(t)    BY <1>8 DEF LoadMode, StoreMode, ghost, owner
<1>9. CASE LoadTimeo(t) \/ StoreTimeo(t)  BY <1>9 DEF LoadTimeo, StoreTimeo, ghost, owner
<1>10. CASE ClearAttr(t)          BY <1>10 DEF ClearAttr
<1>11. CASE Return(t)             BY <1>11 DEF Return, NoRequest
<1>12. QED
  BY <1>1, <1>2, <1>3, <1>4, <1>5, <1>6, <1>7, <1>8, <1>9, <1>10, <1>11 DEF Step

LEMMA InitControl == Init => Control
BY DEF Init, Control, ControlOf, NoRequest

(* TypeOK and Control together are preserved by every step.                *)
LEMMA TypeControlStep == TypeOK /\ Control /\ [Next]_vars => TypeOK' /\ Control'
<1> SUFFICES ASSUME TypeOK, Control, [Next]_vars PROVE TypeOK' /\ Control'
  OBVIOUS
<1>1. ASSUME NEW t \in Threads, Call(t) \/ Step(t) PROVE TypeOK' /\ Control'
  <2>1. TypeOK'  BY <1>1, CallType, StepType, OptionsType DEF TypeOK
  <2>2. ControlOf(t)'  BY <1>1, CallControl, StepControl
  <2>3. ASSUME NEW u \in Threads \ {t} PROVE ControlOf(u)'
    <3>1. Same(u)  BY <1>1, OthersUnchanged
    <3>2. ControlOf(u)  BY DEF Control
    <3>3. QED  BY <3>1, <3>2 DEF Same, ControlOf, Target
  <2>4. QED  BY <2>1, <2>2, <2>3 DEF Control
<1>2. CASE Network
  <2>1. HostTypeOK'  BY <1>2, HostStepType DEF Network, TypeOK, CallsTypeOK
  <2>2. QED  BY <1>2, <2>1 DEF Network, local, ghost, owner, TypeOK, CallsTypeOK, OptionsTypeOK, Control, ControlOf, Target
<1>3. CASE UNCHANGED vars
  BY <1>3 DEF vars, local, ghost, owner, TypeOK, CallsTypeOK, OptionsTypeOK, HostTypeOK, Control, ControlOf, Target
<1>4. QED  BY <1>1, <1>2, <1>3 DEF Next

(* Type correctness, for every instance.                                   *)
THEOREM TypeCorrect == Spec => [](TypeOK /\ Control)
<1>1. Init => TypeOK /\ Control  BY InitType, InitControl
<1>2. TypeOK /\ Control /\ [Next]_vars => (TypeOK /\ Control)'  BY TypeControlStep
<1>3. QED  BY <1>1, <1>2, PTL DEF Spec

-----------------------------------------------------------------------------
(***************************************************************************)
(* The loop of a blocking receive: the delays made and the delays left add *)
(* up to the timeout it started with.                                      *)
(***************************************************************************)
LEMMA DelaysRound ==
  ASSUME NEW m \in Nat
  PROVE  m <= 10 * Delays(m) /\ 10 * Delays(m) < m + 10
BY DEF Delays

LEMMA OneMoved == ASSUME NEW a \in Nat, NEW b \in Nat PROVE (a + 1) + (b - 1) = a + b
OBVIOUS

LEMMA CallLoopCount ==
  ASSUME TypeOK, Control, LoopCount, NEW t \in Threads, Call(t)
  PROVE  LoopCountOf(t)'
<1> USE DEF TypeOK, CallsTypeOK, owner, Goto, Result, Enter, LoopCount, LoopCountOf, Blocking
<1>1. CASE Create(t)         BY <1>1 DEF Create
<1>2. CASE GetHostByName(t)  BY <1>2 DEF GetHostByName
<1>3. ASSUME NEW s \in SockArgs, Bind(t, s) \/ Listen(t, s) PROVE LoopCountOf(t)'
  BY <1>3 DEF Bind, Listen, local, ghost, owner
<1>4. ASSUME NEW s \in SockArgs, Accept(t, s) \/ Connect(t, s) PROVE LoopCountOf(t)'
  BY <1>4 DEF Accept, Connect, CallWithMode, ghost, owner
<1>5. ASSUME NEW s \in SockArgs, NEW len \in {0, 1}, Recv(t, s, len) PROVE LoopCountOf(t)'
  <2>1. CASE s \in Socks
    <3>1. pc'[t] \in {"recvTimeo", "recv"} /\ io' = io /\ hist' = hist /\ pc[t] = "idle"
      BY <1>5, <2>1 DEF Recv, CallWithMode, MayCall, ghost, owner
    <3>2. /\ req'[t].nbio = attr[s].ionbio /\ req'[t].sock = s
          /\ pc'[t] = "recv" => attr[s].ionbio
      BY <1>5, <2>1 DEF Recv, CallWithMode
    <3>3. hist'[t].waited = 0 /\ io'[t] = Uninit /\ pc'[t] \notin {"idle", "sleep", "done"}
      BY <3>1 DEF NoHistory
    <3>4. ~(Blocking(t)' /\ pc'[t] = "recv")  BY <3>2
    <3>5. QED  BY <2>1, <3>1, <3>2, <3>3, <3>4
  <2>2. CASE s \notin Socks
    BY <1>5, <2>2 DEF Recv, CallWithMode
  <2>3. QED  BY <2>1, <2>2
<1>6. ASSUME NEW s \in SockArgs, NEW v, SetMode(t, s, v) \/ SetTimeo(t, s, v) PROVE LoopCountOf(t)'
  BY <1>6 DEF SetMode, SetTimeo, SetOpt
<1>7. ASSUME NEW s \in SockArgs, GetTimeo(t, s) PROVE LoopCountOf(t)'
  BY <1>7 DEF GetTimeo
<1>8. ASSUME NEW s \in SockArgs, Close(t, s) PROVE LoopCountOf(t)'
  BY <1>8 DEF Close
<1>9. QED  BY <1>1, <1>2, <1>3, <1>4, <1>5, <1>6, <1>7, <1>8 DEF Call

LEMMA StepLoopCount ==
  ASSUME TypeOK, Control, LoopCount, NEW t \in Threads, Step(t)
  PROVE  LoopCountOf(t)'
<1> USE DEF TypeOK, CallsTypeOK, owner, Goto, Result, LoopCount, LoopCountOf, Blocking, Control, ControlOf
<1>1. CASE AcceptHost(t)         BY <1>1 DEF AcceptHost
<1>2. CASE ConnectHost(t)        BY <1>2 DEF ConnectHost, ghost, owner
<1>3. CASE RecvHost(t)
  <2>1. PICK o \in HostRecv(req[t].sock, req[t].val) :
          LET r == IF req[t].nbio THEN o.ret ELSE NoData(o.ret, req[t].val)
          IN  /\ io' = [io EXCEPT ![t] = r]
              /\ pc' = [pc EXCEPT ![t] = IF r = EAGAIN /\ ~req[t].nbio THEN "sleep" ELSE "done"]
              /\ hist' = [hist EXCEPT ![t].gain = IF o.ret > 0 THEN "data" ELSE "none"]
    BY <1>3 DEF RecvHost, Received
  <2>2. req' = req /\ delay' = delay /\ pc[t] = "recv"  BY <1>3 DEF RecvHost
  <2>3. hist[t] \in History  OBVIOUS
  <2>4. hist'[t].waited = hist[t].waited /\ hist'[t].limit = hist[t].limit
    BY <2>1, <2>3 DEF History
  <2>5. QED  BY <2>1, <2>2, <2>4
<1>4. CASE GetHostByNameHost(t)  BY <1>4 DEF GetHostByNameHost, ghost, owner
<1>5. CASE RecvTimeo(t)
  <2>1. req[t].sock \in Socks  BY <1>5 DEF RecvTimeo
  <2>2. attr[req[t].sock].to_msec \in Nat  BY <2>1, TimeoAssumption DEF Attr
  <2>3. hist[t] \in History  OBVIOUS
  <2>4. hist'[t].limit = attr[req[t].sock].to_msec /\ hist'[t].waited = 0
    BY <1>5, <2>3 DEF RecvTimeo, History
  <2>5. delay'[t] = Delays(attr[req[t].sock].to_msec)  BY <1>5 DEF RecvTimeo
  <2>6. delay'[t] \in Nat  BY <2>2, <2>5, DelaysType
  <2>7. pc'[t] \in {"done", "recv"} /\ io'[t] = Uninit  BY <1>5 DEF RecvTimeo
  <2>8. req' = req  BY <1>5 DEF RecvTimeo
  <2>9. QED  BY <2>1, <2>4, <2>5, <2>6, <2>7, <2>8, CodesType
<1>6. CASE Wake(t)
  <2>1. req[t].op \in {"Accept", "Connect", "GetHostByName"} /\ req' = req  BY <1>6 DEF Wake
  <2>2. pc'[t] \in {"accept", "connect", "resolve"}  BY <1>6, <2>1 DEF Wake, WakeAs
  <2>3. QED  BY <2>1, <2>2
<1>7. CASE WakeRecv(t)
  <2>1. pc[t] = "sleep" /\ req' = req /\ io' = io  BY <1>7 DEF WakeRecv
  <2>2. delay'[t] = delay[t] - 1 /\ hist[t] \in History  BY <1>7 DEF WakeRecv
  <2>3. hist'[t].waited = hist[t].waited + 1 /\ hist'[t].limit = hist[t].limit
    BY <1>7, <2>2 DEF WakeRecv, History
  <2>4. pc'[t] = IF delay'[t] = 0 THEN "done" ELSE "recv"  BY <1>7 DEF WakeRecv
  <2>5. hist[t].waited \in Nat /\ delay[t] \in Nat  BY <2>2 DEF History
  <2>6. ASSUME Blocking(t) PROVE hist'[t].waited + delay'[t] = Delays(hist'[t].limit)
    <3>1. hist[t].waited + delay[t] = Delays(hist[t].limit)  BY <2>1, <2>6
    <3>2. (hist[t].waited + 1) + (delay[t] - 1) = hist[t].waited + delay[t]  BY <2>5, OneMoved
    <3>3. QED  BY <2>2, <2>3, <3>1, <3>2
  <2>7. delay'[t] = 0 => hist'[t].waited + delay'[t] = hist'[t].waited
    BY <2>2, <2>3, <2>5
  <2>8. QED  BY <2>1, <2>4, <2>6, <2>7
<1>8. CASE LoadMode(t) \/ StoreMode(t)    BY <1>8 DEF LoadMode, StoreMode, ghost, owner
<1>9. CASE LoadTimeo(t) \/ StoreTimeo(t)  BY <1>9 DEF LoadTimeo, StoreTimeo, ghost, owner
<1>10. CASE ClearAttr(t)          BY <1>10 DEF ClearAttr
<1>11. CASE Return(t)             BY <1>11 DEF Return, NoRequest
<1>12. QED
  BY <1>1, <1>2, <1>3, <1>4, <1>5, <1>6, <1>7, <1>8, <1>9, <1>10, <1>11 DEF Step

LEMMA InitLoopGain == Init => LoopCount /\ GainSoFar
BY DEF Init, LoopCount, LoopCountOf, GainSoFar, GainOf, Blocking, NoRequest, NoHistory, Storing

(***************************************************************************)
(* What the host hands over is held until the call returns.                *)
(***************************************************************************)
LEMMA CallGain ==
  ASSUME TypeOK, Control, LoopCount, GainSoFar, NEW t \in Threads, Call(t)
  PROVE  GainOf(t)'
<1> USE DEF TypeOK, CallsTypeOK, owner, Goto, Result, Enter, MayCall, GainSoFar, GainOf, Storing
<1>0. hist[t].gain = "none" \/ pc[t] # "idle"  OBVIOUS
<1>1. CASE Create(t)         BY <1>0, <1>1 DEF Create, ghost, owner
<1>2. CASE GetHostByName(t)  BY <1>0, <1>2 DEF GetHostByName, ghost, owner
<1>3. ASSUME NEW s \in SockArgs, Bind(t, s) \/ Listen(t, s) PROVE GainOf(t)'
  BY <1>3 DEF Bind, Listen, local, ghost, owner
<1>4. ASSUME NEW s \in SockArgs, Accept(t, s) \/ Connect(t, s) PROVE GainOf(t)'
  BY <1>0, <1>4, CodesType DEF Accept, Connect, CallWithMode, ghost, owner
<1>5. ASSUME NEW s \in SockArgs, NEW len \in {0, 1}, Recv(t, s, len) PROVE GainOf(t)'
  <2>1. pc[t] = "idle" /\ hist' = hist  BY <1>5 DEF Recv, CallWithMode, ghost, owner
  <2>2. io[t] = Uninit  BY <2>1 DEF LoopCount, LoopCountOf
  <2>3. \/ pc'[t] \in {"recvTimeo", "recv"} /\ io' = io
        \/ pc'[t] = "done" /\ io'[t] = EINVAL
    BY <1>5 DEF Recv, CallWithMode
  <2>4. req'[t].op = "Recv"  BY <1>5 DEF Recv, CallWithMode
  <2>5. QED  BY <1>0, <2>1, <2>2, <2>3, <2>4, CodesType
<1>6. ASSUME NEW s \in SockArgs, NEW v, SetMode(t, s, v) \/ SetTimeo(t, s, v) PROVE GainOf(t)'
  BY <1>0, <1>6 DEF SetMode, SetTimeo, SetOpt, ghost, owner
<1>7. ASSUME NEW s \in SockArgs, GetTimeo(t, s) PROVE GainOf(t)'
  BY <1>0, <1>7 DEF GetTimeo, ghost, owner
<1>8. ASSUME NEW s \in SockArgs, Close(t, s) PROVE GainOf(t)'
  BY <1>0, <1>8 DEF Close
<1>9. QED  BY <1>1, <1>2, <1>3, <1>4, <1>5, <1>6, <1>7, <1>8 DEF Call

LEMMA StepGain ==
  ASSUME TypeOK, Control, LoopCount, GainSoFar, NEW t \in Threads, Step(t)
  PROVE  GainOf(t)'
<1> USE DEF TypeOK, CallsTypeOK, owner, Goto, Result, GainSoFar, GainOf, Storing, Control, ControlOf
<1>0. HostTypeOK /\ hist[t] \in History  OBVIOUS
<1>1. CASE AcceptHost(t)
  <2>1. PICK o \in HostAccept(req[t].sock) :
          /\ io' = [io EXCEPT ![t] = o.ret]
          /\ pc' = [pc EXCEPT ![t] = IF o.ret >= 0 THEN "loadMode"
                                     ELSE IF o.ret = EAGAIN /\ ~req[t].nbio THEN "sleep" ELSE "done"]
          /\ hist' = [hist EXCEPT ![t].gain = IF o.ret >= 0 THEN "conn" ELSE "none"]
    BY <1>1 DEF AcceptHost, Received
  <2>2. hist'[t].gain = IF o.ret >= 0 THEN "conn" ELSE "none"  BY <2>1, <1>0 DEF History
  <2>3. req' = req /\ req[t].op = "Accept"  BY <1>1 DEF AcceptHost
  <2>4. QED  BY <2>1, <2>2, <2>3
<1>2. CASE ConnectHost(t)         BY <1>2 DEF ConnectHost, ghost, owner
<1>3. CASE RecvHost(t)
  <2>1. PICK o \in HostRecv(req[t].sock, req[t].val) :
          LET r == IF req[t].nbio THEN o.ret ELSE NoData(o.ret, req[t].val)
          IN  /\ io' = [io EXCEPT ![t] = r]
              /\ pc' = [pc EXCEPT ![t] = IF r = EAGAIN /\ ~req[t].nbio THEN "sleep" ELSE "done"]
              /\ hist' = [hist EXCEPT ![t].gain = IF o.ret > 0 THEN "data" ELSE "none"]
    BY <1>3 DEF RecvHost, Received
  <2>2. hist'[t].gain = IF o.ret > 0 THEN "data" ELSE "none"  BY <2>1, <1>0 DEF History
  <2>3. req' = req /\ req[t].op = "Recv"  BY <1>3 DEF RecvHost
  <2>4. o.ret \in Int  BY <1>0, HostRecvType DEF Outcome
  <2>5. o.ret > 0 => NoData(o.ret, req[t].val) = o.ret  BY <2>4 DEF NoData
  <2>6. ~(o.ret > 0) => ~(NoData(o.ret, req[t].val) > 0)  BY <2>4, CodesType DEF NoData
  <2>7. EAGAIN < 0 /\ EAGAIN \in Int  BY CodesType
  <2>8. QED  BY <2>1, <2>2, <2>3, <2>4, <2>5, <2>6, <2>7
<1>4. CASE GetHostByNameHost(t)   BY <1>4 DEF GetHostByNameHost, ghost, owner
<1>5. CASE RecvTimeo(t)
  <2>1. io[t] = Uninit /\ pc[t] = "recvTimeo"  BY <1>5 DEF RecvTimeo, LoopCount, LoopCountOf
  <2>2. hist'[t].gain = hist[t].gain  BY <1>0, <1>5 DEF RecvTimeo, History
  <2>3. pc'[t] \in {"done", "recv"} /\ io' = io /\ req' = req  BY <1>5 DEF RecvTimeo
  <2>4. QED  BY <2>1, <2>2, <2>3, CodesType
<1>6. CASE Wake(t)
  <2>1. req[t].op \in {"Accept", "Connect", "GetHostByName"} /\ req' = req  BY <1>6 DEF Wake
  <2>2. pc'[t] \in {"accept", "connect", "resolve"}  BY <1>6, <2>1 DEF Wake, WakeAs
  <2>3. QED  BY <1>6, <2>1, <2>2 DEF Wake, ghost, owner
<1>7. CASE WakeRecv(t)
  <2>1. hist'[t].gain = hist[t].gain  BY <1>0, <1>7 DEF WakeRecv, History
  <2>2. pc[t] = "sleep" /\ pc'[t] \in {"done", "recv"} /\ io' = io /\ req' = req
    BY <1>7 DEF WakeRecv
  <2>3. ~(io[t] > 0)
    <3>1. io[t] \in {Uninit, EAGAIN}  BY <1>7, <2>2 DEF WakeRecv
    <3>2. QED  BY <3>1 DEF Uninit, EAGAIN
  <2>4. req[t].op = "Recv" /\ hist[t].gain = "none"  BY <1>0, <1>7, <2>2 DEF WakeRecv, History
  <2>5. QED  BY <2>1, <2>2, <2>3, <2>4, <1>7 DEF WakeRecv
<1>8. CASE LoadMode(t) \/ StoreMode(t)    BY <1>8 DEF LoadMode, StoreMode, ghost, owner
<1>9. CASE LoadTimeo(t) \/ StoreTimeo(t)  BY <1>9 DEF LoadTimeo, StoreTimeo, ghost, owner
<1>10. CASE ClearAttr(t)          BY <1>10 DEF ClearAttr, ghost, owner
<1>11. CASE Return(t)             BY <1>11 DEF Return, NoRequest, NoHistory
<1>12. QED
  BY <1>1, <1>2, <1>3, <1>4, <1>5, <1>6, <1>7, <1>8, <1>9, <1>10, <1>11 DEF Step

LEMMA LoopGainStep ==
  IInv /\ [Next]_vars => LoopCount' /\ GainSoFar'
<1> SUFFICES ASSUME IInv, [Next]_vars PROVE LoopCount' /\ GainSoFar'
  OBVIOUS
<1> USE DEF IInv
<1>1. ASSUME NEW t \in Threads, Call(t) \/ Step(t) PROVE LoopCount' /\ GainSoFar'
  <2>1. LoopCountOf(t)' /\ GainOf(t)'  BY <1>1, CallLoopCount, StepLoopCount, CallGain, StepGain
  <2>2. ASSUME NEW u \in Threads \ {t} PROVE LoopCountOf(u)' /\ GainOf(u)'
    <3>1. Same(u)  BY <1>1, OthersUnchanged
    <3>2. LoopCountOf(u) /\ GainOf(u)  BY DEF LoopCount, GainSoFar
    <3>3. QED  BY <3>1, <3>2 DEF Same, LoopCountOf, GainOf, Blocking
  <2>3. QED  BY <2>1, <2>2 DEF LoopCount, GainSoFar
<1>2. CASE Network
  BY <1>2 DEF Network, local, ghost, owner, LoopCount, LoopCountOf, GainSoFar, GainOf, Blocking
<1>3. CASE UNCHANGED vars
  BY <1>3 DEF vars, local, ghost, owner, LoopCount, LoopCountOf, GainSoFar, GainOf, Blocking
<1>4. QED  BY <1>1, <1>2, <1>3 DEF Next

(* The inductive invariant: the types, where each call is, how far the     *)
(* loop of a blocking receive has come (delays made plus delays left are   *)
(* the timeout it started with) and what the host has handed over so far.  *)
THEOREM Invariant == Spec => []IInv
<1>1. Init => IInv  BY InitType, InitControl, InitLoopGain DEF IInv
<1>2. IInv /\ [Next]_vars => IInv'  BY TypeControlStep, LoopGainStep DEF IInv
<1>3. QED  BY <1>1, <1>2, PTL DEF Spec

(* Every poll that brings something ends the call, and the call returns it.*)
THEOREM NothingIsLost == Spec => []NothingLost
<1>1. IInv => NothingLost
  <2> SUFFICES ASSUME IInv, NEW t \in Threads
               PROVE  /\ pc[t] = "sleep" => hist[t].gain = "none"
                      /\ pc[t] = "done"  =>
                           /\ hist[t].gain = "data" <=> req[t].op = "Recv" /\ io[t] > 0
                           /\ hist[t].gain = "conn" <=> req[t].op = "Accept" /\ io[t] >= 0
    BY DEF NothingLost
  <2>1. GainOf(t)  BY DEF IInv, GainSoFar
  <2>2. hist[t].gain \in {"none", "data", "conn"}  BY DEF IInv, TypeOK, CallsTypeOK, History
  <2>3. QED  BY <2>1, <2>2 DEF GainOf, Storing
<1>2. QED  BY <1>1, Invariant, PTL

(* A blocking receive that gives up has waited for its whole timeout.      *)
THEOREM TimeoutIsHonoured == Spec => []TimeoutHonoured
<1>1. IInv => TimeoutHonoured
  <2> SUFFICES ASSUME IInv, NEW t \in Threads,
                      pc[t] = "done", req[t].op = "Recv", ~req[t].nbio, io[t] = EAGAIN
               PROVE  /\ hist[t].limit <= 10 * hist[t].waited
                      /\ 10 * hist[t].waited < hist[t].limit + 10
    BY DEF TimeoutHonoured
  <2>1. req[t].sock \in Socks  BY DEF IInv, LoopCount, LoopCountOf, EINVAL, EAGAIN
  <2>2. hist[t].waited = Delays(hist[t].limit)
    BY <2>1 DEF IInv, LoopCount, LoopCountOf, Blocking
  <2>3. hist[t].limit \in Nat  BY DEF IInv, TypeOK, CallsTypeOK, History
  <2>4. QED  BY <2>2, <2>3, DelaysRound
<1>2. QED  BY <1>1, Invariant, PTL


(* The poll that ends a blocking Connect decided it: with success the      *)
(* socket has its connection at that step.                                 *)
LEMMA ConnectDecides ==
  ASSUME TypeOK, Control, NEW t \in Threads, ConnectHost(t), ~req[t].nbio, pc'[t] = "done"
  PROVE  /\ io'[t] \notin {EINPROGRESS, EALREADY, EISCONN}
         /\ io'[t] = OK => host'[req[t].sock].st \in {"connected", "eof"}
<1> USE DEF OK, EINPROGRESS, EALREADY, EISCONN
<1> DEFINE s == req[t].sock
<1>1. /\ host \in [Socks -> HostSock] /\ t \in DOMAIN io /\ t \in DOMAIN pc
  BY DEF TypeOK, CallsTypeOK, HostTypeOK
<1>2. PICK o \in HostConnect(s) :
        /\ host' = o.host
        /\ io' = [io EXCEPT ![t] = IF o.ret = EISCONN THEN OK ELSE o.ret]
        /\ pc' = [pc EXCEPT ![t] = IF ConnectPending(o.ret) THEN "sleep" ELSE "done"]
  BY DEF ConnectHost, Result, Goto
<1>3. o.ret \notin {EINPROGRESS, EALREADY}
  BY <1>1, <1>2 DEF ConnectPending
<1>4. io'[t] = IF o.ret = EISCONN THEN OK ELSE o.ret  BY <1>1, <1>2
<1>5. St(s) \in SockStates  BY <1>1 DEF St, HostSock, SockStates
<1>6. CASE o.ret \in {OK, EISCONN}
  <2>1. \/ St(s) \in {"open", "bound"} /\ o = Answer(OK, s, Fresh("connected"))
        \/ St(s) \in {"connected", "eof"} /\ o = Refuse(EISCONN)
    BY <1>5, <1>6 DEF HostConnect, Refuse, Answer, SockStates, ESOCK, EINVAL, ECONNREFUSED
  <2>2. s \in Socks  BY <2>1 DEF St
  <2>3. host'[s].st \in {"connected", "eof"}
    BY <1>1, <1>2, <2>1, <2>2 DEF Answer, Refuse, Fresh, St
  <2>4. QED  BY <1>4, <1>6, <2>3
<1>7. CASE o.ret \notin {OK, EISCONN}  BY <1>3, <1>4, <1>7
<1>8. QED  BY <1>6, <1>7

(* The answers that mean "not decided yet" or "decided before" never end a *)
(* blocking Connect, and success means a connection, for any number of     *)
(* threads that connect, receive on and close the same sockets.            *)
THEOREM ConnectsSettle == Spec => ConnectSettles
<1>1. TypeOK /\ Control /\ [Next]_vars =>
        [\A t \in Threads :
           (ConnectHost(t) /\ ~req[t].nbio /\ pc'[t] = "done") =>
             /\ io'[t] \notin {EINPROGRESS, EALREADY, EISCONN}
             /\ io'[t] = OK => host'[req[t].sock].st \in {"connected", "eof"}]_vars
  BY ConnectDecides
<1>2. QED  BY <1>1, TypeCorrect, PTL DEF Spec, ConnectSettles

-----------------------------------------------------------------------------
(***************************************************************************)
(* The options.  What the application must do for them: pass only sockets  *)
(* it holds, close none that an Accept or SetOpt uses, and set the options *)
(* of one socket one after the other; and the timeouts it sets fit in 31   *)
(* bits.  (Without these OptionsKept is false; with them it holds of every *)
(* socket but those that a Close in progress may still clear.)             *)
(***************************************************************************)
Setters == {"SetMode", "SetTimeo"}
Users   == {"Accept", "Recv"} \cup Setters

Serial == /\ Disciplined
          /\ \A op \in Users \ {"Recv"} : {"Close", op} \in Apart
          /\ \A p, q \in Setters : {p, q} \in Apart
          /\ \A v \in RcvTimeouts : v < TimeoMod

(* The call has a new socket, which the application does not hold yet.     *)
NewSocket == {"Create", "Accept"}

Born(t)  == req[t].op \in NewSocket /\ pc[t] \in Storing \cup {"done"} /\ io[t] >= 0
Taken(n) == n \in held \/ \E u \in Threads : Born(u) /\ io[u] = n

(* Who has which number: the host has it in use; a new one is nobody       *)
(* else's; the socket of a call in progress stays the application's; a     *)
(* number that a Close has still to clear is free or tainted.              *)
HeldUsed     == \A s \in held : host[s].st # "free"
BornUsed     == \A t \in Threads : Born(t) => io[t] \notin held /\ host[io[t]].st # "free"
BornApart    == \A t, u \in Threads : t # u /\ Born(t) /\ Born(u) => io[t] # io[u]
UsesHeld     == \A t \in Threads :
                  req[t].op \in Users /\ {"Close", req[t].op} \in Apart => req[t].sock \in held
SettersApart == \A t, u \in Threads :
                  t # u /\ req[t].op \in Setters /\ req[u].op \in Setters => req[t].sock # req[u].sock
ClearsOwn    == \A t \in Threads : pc[t] = "clear" /\ Taken(req[t].sock) => req[t].sock \in tainted

Ownership == HeldUsed /\ BornUsed /\ BornApart /\ UsesHeld /\ SettersApart /\ ClearsOwn

(* What a call asks for is what it was called for, as long as its sockets  *)
(* are sound, and a socket accepted from a tainted one is tainted.         *)
AskOf(t) ==
  /\ req[t].op = "Create" => ask[t] = [ionbio |-> FALSE, to_msec |-> DefaultTimeo]
  /\ req[t].op = "Accept" /\ req[t].sock \notin tainted => ask[t].ionbio = req[t].nbio
  /\ req[t].op = "Accept" /\ Born(t) /\ req[t].sock \in tainted => io[t] \in tainted
  /\ req[t].op = "SetMode" => ask[t].ionbio = (req[t].val # 0)
  /\ req[t].op = "SetTimeo" => ask[t].to_msec = req[t].val /\ req[t].val \in RcvTimeouts

(* How far the writing of a sound entry has come: the word about to be     *)
(* stored differs from the entry in the field asked for and nothing else,  *)
(* and a new socket has got the fields written so far.                     *)
WorkOf(t) ==
  LET a == attr[Target(t)]  o == opt[Target(t)]
  IN  Target(t) \notin tainted =>
        /\ pc[t] = "storeMode"  => word[t].ionbio = ask[t].ionbio /\ word[t].to_msec = a.to_msec
        /\ pc[t] = "storeTimeo" => word[t].to_msec = ask[t].to_msec /\ word[t].ionbio = a.ionbio
        /\ pc[t] \in {"loadTimeo", "storeTimeo"} /\ req[t].op \in NewSocket => a.ionbio = o.ionbio
        /\ pc[t] = "done" /\ Born(t) => a = o

KeptInv == Ownership /\ OptionsKept /\ \A t \in Threads : AskOf(t) /\ WorkOf(t)

(* The host gives a number up only to iotSocketClose, and hands out only a *)
(* number that was free.                                                   *)
Kept(h) == \A n \in Socks : host[n].st # "free" => h[n].st # "free"
Newborn(o) == o.ret >= 0 => host[o.ret].st = "free" /\ o.host[o.ret].st # "free"

LEMMA FreshUsed == \A st : Fresh(st).st = st
BY DEF Fresh

LEMMA RefuseKept == ASSUME NEW r PROVE Kept(Refuse(r).host)
BY DEF Kept, Refuse

LEMMA AnswerKept ==
  ASSUME HostTypeOK, NEW r, NEW s \in Socks, NEW h, h.st # "free"
  PROVE  Kept(Answer(r, s, h).host)
BY DEF Kept, Answer, HostTypeOK

LEMMA StTabled == ASSUME NEW s, St(s) # "free" PROVE s \in Socks /\ host[s].st = St(s)
BY DEF St

LEMMA BindKept == ASSUME HostTypeOK, NEW s, NEW o \in HostBind(s) PROVE Kept(o.host)
<1>1. CASE St(s) = "open"
  <2>1. s \in Socks  BY <1>1, StTabled
  <2>2. o = Answer(OK, s, Fresh("bound")) \/ o = Refuse(EADDRINUSE)  BY <1>1 DEF HostBind
  <2>3. Kept(Answer(OK, s, Fresh("bound")).host)  BY <2>1, FreshUsed, AnswerKept
  <2>4. QED  BY <2>2, <2>3, RefuseKept
<1>2. CASE St(s) # "open"
  <2>1. o = Refuse(ESOCK) \/ o = Refuse(EINVAL)  BY <1>2 DEF HostBind
  <2>2. QED  BY <2>1, RefuseKept
<1>3. QED  BY <1>1, <1>2

LEMMA ListenKept == ASSUME HostTypeOK, NEW s, NEW o \in HostListen(s) PROVE Kept(o.host)
<1>1. CASE St(s) = "bound"
  <2>1. s \in Socks  BY <1>1, StTabled
  <2>2. o = Answer(OK, s, Fresh("listening"))  BY <1>1 DEF HostListen
  <2>3. QED  BY <2>1, <2>2, FreshUsed, AnswerKept
<1>2. CASE St(s) # "bound"
  <2>1. o = Refuse(ESOCK) \/ o = Refuse(EINVAL) \/ o = Refuse(EISCONN)  BY <1>2 DEF HostListen
  <2>2. QED  BY <2>1, RefuseKept
<1>3. QED  BY <1>1, <1>2

LEMMA ConnectKept == ASSUME HostTypeOK, NEW s, NEW o \in HostConnect(s) PROVE Kept(o.host)
<1>0. St(s) \in SockStates  BY DEF St, HostTypeOK, HostSock, SockStates
<1>1. CASE St(s) \in {"open", "bound", "refused"}
  <2>1. s \in Socks  BY <1>1, StTabled
  <2>2. \/ o = Answer(EINPROGRESS, s, Fresh("connecting"))
        \/ o = Answer(OK, s, Fresh("connected"))
        \/ o = Answer(ECONNREFUSED, s, Fresh("open"))
    BY <1>1 DEF HostConnect
  <2>3. \A st : Fresh(st).st = st  BY FreshUsed
  <2>4. Kept(Answer(EINPROGRESS, s, Fresh("connecting")).host)  BY <2>1, <2>3, AnswerKept
  <2>5. Kept(Answer(OK, s, Fresh("connected")).host)  BY <2>1, <2>3, AnswerKept
  <2>6. Kept(Answer(ECONNREFUSED, s, Fresh("open")).host)  BY <2>1, <2>3, AnswerKept
  <2>7. QED  BY <2>2, <2>4, <2>5, <2>6
<1>2. CASE St(s) \notin {"open", "bound", "refused"}
  <2>1. \/ o = Refuse(ESOCK) \/ o = Refuse(EINVAL)
        \/ o = Refuse(EALREADY) \/ o = Refuse(EISCONN)
    BY <1>0, <1>2 DEF HostConnect, SockStates
  <2>2. QED  BY <2>1, RefuseKept
<1>3. QED  BY <1>1, <1>2

LEMMA RecvKept ==
  ASSUME HostTypeOK, NEW s, NEW len, NEW o \in HostRecv(s, len)
  PROVE  Kept(o.host) /\ o.ret # Uninit
<1>0. /\ Uninit \notin {OK, ESOCK, ENOTCONN, EAGAIN} /\ 1 # Uninit
      /\ \A r : Refuse(r).ret = r
      /\ \A h : Answer(1, s, h).ret = 1
  BY DEF Uninit, OK, ESOCK, ENOTCONN, EAGAIN, Refuse, Answer
<1>1. CASE St(s) \in {"connected", "eof"} /\ host[s].rx > 0
  <2>1. s \in Socks /\ host[s] \in HostSock /\ host[s].st # "free"
    BY <1>1, StTabled DEF HostTypeOK
  <2>2. [host[s] EXCEPT !.rx = @ - 1].st = host[s].st  BY <2>1 DEF HostSock
  <2>3. o = Refuse(OK) \/ o = Answer(1, s, [host[s] EXCEPT !.rx = @ - 1])
    BY <1>1 DEF HostRecv
  <2>4. Kept(Answer(1, s, [host[s] EXCEPT !.rx = @ - 1]).host)  BY <2>1, <2>2, AnswerKept
  <2>5. QED  BY <1>0, <2>3, <2>4, RefuseKept
<1>2. CASE ~(St(s) \in {"connected", "eof"} /\ host[s].rx > 0)
  <2>1. \/ o = Refuse(OK) \/ o = Refuse(EAGAIN)
        \/ o = Refuse(ESOCK) \/ o = Refuse(ENOTCONN)
    <3>1. St(s) \in {"connected", "eof"} => host[s].rx \in Nat
      BY StTabled DEF HostTypeOK, HostSock
    <3>2. St(s) \in {"connected", "eof"} => host[s].rx = 0  BY <1>2, <3>1
    <3>3. QED  BY <1>2, <3>2 DEF HostRecv
  <2>2. QED  BY <1>0, <2>1, RefuseKept
<1>3. QED  BY <1>1, <1>2

LEMMA CreateKept == ASSUME HostTypeOK, NEW o \in HostCreate PROVE Kept(o.host) /\ Newborn(o)
<1>1. CASE FreeSocks = {}
  <2>1. o = Refuse(ENOMEM)  BY <1>1 DEF HostCreate
  <2>2. QED  BY <2>1, RefuseKept DEF Newborn, Refuse, ENOMEM
<1>2. CASE FreeSocks # {}
  <2>1. PICK s \in FreeSocks : o = Answer(s, s, Fresh("open"))  BY <1>2 DEF HostCreate
  <2>2. s \in Socks /\ host[s].st = "free"  BY DEF FreeSocks
  <2>3. Kept(o.host)  BY <2>1, <2>2, FreshUsed, AnswerKept
  <2>4. o.ret = s /\ o.host[s].st = "open"
    BY <2>1, <2>2, FreshUsed DEF Answer, HostTypeOK
  <2>5. QED  BY <2>2, <2>3, <2>4 DEF Newborn
<1>3. QED  BY <1>1, <1>2

LEMMA AcceptKept ==
  ASSUME HostTypeOK, NEW s, NEW o \in HostAccept(s)
  PROVE  Kept(o.host) /\ Newborn(o)
<1>1. CASE St(s) = "listening" /\ host[s].pend > 0 /\ FreeSocks # {}
  <2>1. s \in Socks /\ host[s] \in HostSock /\ host[s].st = "listening"
    BY <1>1, StTabled DEF HostTypeOK
  <2>2. PICK n \in FreeSocks :
          o = [ret  |-> n,
               host |-> [host EXCEPT ![s].pend = @ - 1, ![n] = Fresh("connected")]]
    BY <1>1 DEF HostAccept
  <2>3. n \in Socks /\ host[n].st = "free"  BY DEF FreeSocks
  <2>4. o.ret = n /\ o.host = [host EXCEPT ![s].pend = @ - 1, ![n] = Fresh("connected")]
    BY <2>2
  <2>5. [host[s] EXCEPT !.pend = @ - 1].st = "listening"  BY <2>1 DEF HostSock
  <2>6. /\ o.host[n] = Fresh("connected")
        /\ s # n => o.host[s] = [host[s] EXCEPT !.pend = @ - 1]
        /\ \A m \in Socks \ {s, n} : o.host[m] = host[m]
    BY <2>1, <2>3, <2>4 DEF HostTypeOK
  <2>7. o.host[n].st # "free" /\ o.host[s].st # "free"
    BY <2>1, <2>3, <2>5, <2>6, FreshUsed
  <2>8. Kept(o.host)  BY <2>6, <2>7 DEF Kept
  <2>9. QED  BY <2>3, <2>4, <2>7, <2>8 DEF Newborn
<1>2. CASE ~(St(s) = "listening" /\ host[s].pend > 0 /\ FreeSocks # {})
  <2>1. \/ o = Refuse(EAGAIN) \/ o = Refuse(ENOMEM)
        \/ o = Refuse(ESOCK) \/ o = Refuse(EINVAL)
    <3>1. St(s) = "listening" => host[s].pend \in Nat
      BY StTabled DEF HostTypeOK, HostSock
    <3>2. QED  BY <1>2, <3>1 DEF HostAccept
  <2>2. QED  BY <2>1, RefuseKept DEF Newborn, Refuse, EAGAIN, ENOMEM, ESOCK, EINVAL
<1>3. QED  BY <1>1, <1>2

(* Closing frees the number it is given, or nothing.                       *)
LEMMA CloseKept ==
  ASSUME HostTypeOK, NEW s, NEW o \in HostClose(s)
  PROVE  /\ \A n \in Socks \ {s} : o.host[n] = host[n]
         /\ o.ret # OK => Kept(o.host)
<1>1. \/ o = Refuse(ESOCK) \/ o = Refuse(EAGAIN)
      \/ s \in Socks /\ o = Answer(OK, s, Fresh("free"))
  BY StTabled DEF HostClose
<1>2. CASE o = Refuse(ESOCK) \/ o = Refuse(EAGAIN)
  BY <1>2, RefuseKept DEF Refuse
<1>3. CASE s \in Socks /\ o = Answer(OK, s, Fresh("free"))
  BY <1>3 DEF Answer, HostTypeOK
<1>4. QED  BY <1>1, <1>2, <1>3

LEMMA HostStepKept == ASSUME HostTypeOK, HostStep PROVE Kept(host')
<1>1. PICK s \in Socks : \/ RequestArrives(s) \/ DataArrives(s) \/ ConnectEnds(s) \/ PeerCloses(s)
  BY DEF HostStep
<1>2. host[s] \in HostSock  BY DEF HostTypeOK
<1>3. \A n \in Socks \ {s} : host'[n] = host[n]
  BY <1>1 DEF RequestArrives, DataArrives, ConnectEnds, PeerCloses, HostTypeOK
<1>4. host'[s].st # "free"
  <2>1. CASE RequestArrives(s)  BY <1>2, <2>1 DEF RequestArrives, HostTypeOK, HostSock
  <2>2. CASE DataArrives(s)     BY <1>2, <2>2 DEF DataArrives, HostTypeOK, HostSock
  <2>3. CASE ConnectEnds(s)     BY <1>2, <2>3 DEF ConnectEnds, HostTypeOK, HostSock
  <2>4. CASE PeerCloses(s)      BY <1>2, <2>4 DEF PeerCloses, HostTypeOK, HostSock
  <2>5. QED  BY <1>1, <2>1, <2>2, <2>3, <2>4
<1>5. QED  BY <1>3, <1>4 DEF Kept

(***************************************************************************)
(* The kinds of steps of a thread, by what they do to the numbers and the  *)
(* options.                                                                *)
(***************************************************************************)
StoreAt == {"storeMode", "storeTimeo"}

(* A step that concerns neither.                                           *)
Calm(t) == /\ attr' = attr /\ opt' = opt /\ held' = held /\ tainted' = tainted
           /\ Kept(host')
           /\ pc'[t] # "clear"
           /\ Born(t)' => Born(t) /\ io'[t] = io[t]

(* The host answers a Create or an Accept.                                 *)
NewNumber(t) ==
  LET n == io'[t]
  IN  /\ n \in Socks /\ host[n].st = "free" /\ host'[n].st # "free"
      /\ pc'[t] = "loadMode" /\ HandedOut(n, req'[t].sock)

Hands(t) == /\ attr' = attr /\ opt' = opt /\ held' = held /\ Kept(host')
            /\ req'[t].op \in NewSocket /\ pc'[t] \in {"loadMode", "sleep", "done"}
            /\ NewNumber(t) \/ (~Born(t)' /\ tainted' = tainted)

Stores(t) == /\ pc[t] \in StoreAt /\ pc'[t] \in {"loadTimeo", "done"}
             /\ host' = host /\ held' = held /\ tainted' = tainted
             /\ req' = req /\ io' = io
             /\ attr' = [attr EXCEPT ![Target(t)] = word[t]]

Closes(t, s) == /\ s \in held
                /\ \A u \in Threads \ {t} : req[u].op \in Users /\ {"Close", req[u].op} \in Apart
                                              => req[u].sock # s
                /\ attr' = attr /\ opt' = [opt EXCEPT ![s] = NoAttr]
                /\ held' = held \ {s} /\ tainted' = tainted \ {s}
                /\ \A n \in Socks \ {s} : host'[n] = host[n]
                /\ pc'[t] = "clear" /\ req'[t].op = "Close" /\ req'[t].sock = s

LEMMA HandsOut ==
  ASSUME TypeOK, Control, NEW t \in Threads, Create(t) \/ AcceptHost(t) PROVE Hands(t)
<1>0. /\ HostTypeOK /\ pc \in [Threads -> Pcs] /\ req \in [Threads -> Request]
      /\ io \in [Threads -> Int]
  BY DEF TypeOK, CallsTypeOK
<1> USE DEF Goto, Result, Enter
<1>1. ASSUME NEW o, o \in HostCreate \/ (\E s : o \in HostAccept(s)), NEW from,
             host' = o.host, io'[t] = o.ret, req'[t].op \in NewSocket, req'[t].sock = from,
             attr' = attr, opt' = opt, held' = held,
             pc'[t] \in {"loadMode", "sleep", "done"}, o.ret >= 0 <=> pc'[t] = "loadMode",
             IF o.ret >= 0 THEN HandedOut(o.ret, from) ELSE UNCHANGED tainted
      PROVE  Hands(t)
  <2>1. Kept(o.host) /\ Newborn(o)  BY <1>0, <1>1, CreateKept, AcceptKept
  <2>2. o.ret >= 0 => o.ret \in Socks  BY <1>0, <1>1, HostCreateType, HostAcceptType
  <2>3. CASE o.ret >= 0
    <3>1. NewNumber(t)  BY <1>1, <2>1, <2>2, <2>3 DEF NewNumber, Newborn
    <3>2. QED  BY <1>1, <2>1, <3>1 DEF Hands
  <2>4. CASE ~(o.ret >= 0)
    <3>1. ~Born(t)'  BY <1>1, <2>4 DEF Born
    <3>2. QED  BY <1>1, <2>1, <2>4, <3>1 DEF Hands
  <2>5. QED  BY <2>3, <2>4
<1>2. CASE Create(t)
  <2>1. /\ req'[t].op = "Create" /\ req'[t].sock = -1
        /\ attr' = attr /\ opt' = opt /\ held' = held
    BY <1>0, <1>2 DEF Create
  <2>2. PICK o \in HostCreate :
          /\ host' = o.host
          /\ io' = [io EXCEPT ![t] = o.ret]
          /\ pc' = [pc EXCEPT ![t] = IF o.ret >= 0 THEN "loadMode" ELSE "done"]
          /\ IF o.ret >= 0 THEN HandedOut(o.ret, -1) ELSE UNCHANGED tainted
    BY <1>2 DEF Create
  <2>3. io'[t] = o.ret /\ pc'[t] = IF o.ret >= 0 THEN "loadMode" ELSE "done"
    BY <1>0, <2>2
  <2>4. QED  BY <1>1, <2>1, <2>2, <2>3 DEF NewSocket
<1>3. CASE AcceptHost(t)
  <2>1. /\ req' = req /\ req[t].op = "Accept"
        /\ attr' = attr /\ opt' = opt /\ held' = held
    BY <1>3 DEF AcceptHost, Control, ControlOf
  <2>2. PICK o \in HostAccept(req[t].sock) :
          /\ host' = o.host
          /\ io' = [io EXCEPT ![t] = o.ret]
          /\ pc' = [pc EXCEPT ![t] = IF o.ret >= 0 THEN "loadMode"
                                     ELSE IF o.ret = EAGAIN /\ ~req[t].nbio THEN "sleep" ELSE "done"]
          /\ IF o.ret >= 0 THEN HandedOut(o.ret, req[t].sock) ELSE UNCHANGED tainted
    BY <1>3 DEF AcceptHost
  <2>3. io'[t] = o.ret /\ pc'[t] = IF o.ret >= 0 THEN "loadMode"
                                   ELSE IF o.ret = EAGAIN /\ ~req[t].nbio THEN "sleep" ELSE "done"
    BY <1>0, <2>2
  <2>4. QED  BY <1>1, <2>1, <2>2, <2>3 DEF NewSocket
<1>4. QED  BY <1>2, <1>3

LEMMA CalmCall ==
  ASSUME TypeOK, Control, NEW t \in Threads, Call(t), ~Create(t), \A s \in SockArgs : ~Close(t, s)
  PROVE  Calm(t)
<1>0. /\ HostTypeOK /\ pc \in [Threads -> Pcs] /\ req \in [Threads -> Request]
  BY DEF TypeOK, CallsTypeOK
<1>1. host' = host => Kept(host')  BY DEF Kept
<1> USE <1>0, <1>1 DEF Goto, Enter, ghost, owner, local, Calm, Born, NewSocket, Storing
<1>2. CASE GetHostByName(t)  BY <1>2 DEF GetHostByName
<1>3. ASSUME NEW s \in SockArgs, Bind(t, s) PROVE Calm(t)
  BY <1>3, BindKept DEF Bind, MayCall
<1>4. ASSUME NEW s \in SockArgs, Listen(t, s) PROVE Calm(t)
  BY <1>4, ListenKept DEF Listen, MayCall
<1>5. ASSUME NEW s \in SockArgs, NEW op \in {"Accept", "Connect", "Recv"}, NEW v,
             NEW next \in {"accept", "connect", "recvTimeo"}, CallWithMode(t, op, s, v, next)
      PROVE  Calm(t)
  <2>1. CASE s \in Socks  BY <1>5, <2>1 DEF CallWithMode
  <2>2. CASE s \notin Socks
    <3>1. ~(EINVAL >= 0)  BY CodesType
    <3>2. io'[t] = EINVAL  BY <1>5, <2>2 DEF CallWithMode, Result, TypeOK, CallsTypeOK
    <3>3. QED  BY <1>5, <2>2, <3>1, <3>2 DEF CallWithMode
  <2>3. QED  BY <2>1, <2>2
<1>6. ASSUME NEW s \in SockArgs, NEW op \in Setters, NEW v, NEW next \in {"loadMode", "loadTimeo"},
             SetOpt(t, op, s, v, next)
      PROVE  Calm(t)
  BY <1>6 DEF SetOpt, Setters
<1>7. ASSUME NEW s \in SockArgs, GetTimeo(t, s) PROVE Calm(t)  BY <1>7 DEF GetTimeo
<1>8. QED
  BY <1>2, <1>3, <1>4, <1>5, <1>6, <1>7
     DEF Call, Accept, Connect, Recv, SetMode, SetTimeo, Setters

LEMMA CalmStep ==
  ASSUME TypeOK, Control, NEW t \in Threads,
         \/ ConnectHost(t) \/ RecvHost(t) \/ GetHostByNameHost(t) \/ RecvTimeo(t)
         \/ Wake(t) \/ WakeRecv(t) \/ LoadMode(t) \/ LoadTimeo(t)
  PROVE  Calm(t)
<1>0. /\ HostTypeOK /\ pc \in [Threads -> Pcs] /\ ControlOf(t)
  BY DEF TypeOK, CallsTypeOK, Control
<1>1. host' = host => Kept(host')  BY DEF Kept
<1> USE <1>0, <1>1 DEF Goto, ghost, owner, local, Calm, Born, NewSocket, Storing
<1>2. CASE ConnectHost(t)        BY <1>2, ConnectKept DEF ConnectHost, ControlOf
<1>3. CASE RecvHost(t)           BY <1>3, RecvKept DEF RecvHost, ControlOf
<1>4. CASE GetHostByNameHost(t)  BY <1>4 DEF GetHostByNameHost, ControlOf
<1>5. CASE RecvTimeo(t)          BY <1>5 DEF RecvTimeo, ControlOf
<1>6. CASE Wake(t)
  <2>1. req[t].op \in {"Accept", "Connect", "GetHostByName"}  BY <1>6 DEF Wake, ControlOf
  <2>2. WakeAs[req[t].op] \in {"accept", "connect", "resolve"}  BY <2>1 DEF WakeAs
  <2>3. QED  BY <1>6, <2>2 DEF Wake
<1>7. CASE WakeRecv(t)           BY <1>7 DEF WakeRecv
<1>8. CASE LoadMode(t)           BY <1>8 DEF LoadMode
<1>9. CASE LoadTimeo(t)          BY <1>9 DEF LoadTimeo
<1>10. QED  BY <1>2, <1>3, <1>4, <1>5, <1>6, <1>7, <1>8, <1>9

LEMMA StoresStep ==
  ASSUME TypeOK, NEW t \in Threads, StoreMode(t) \/ StoreTimeo(t) PROVE Stores(t)
BY DEF StoreMode, StoreTimeo, Goto, Stores, StoreAt, TypeOK, CallsTypeOK, owner

LEMMA ClosesStep ==
  ASSUME TypeOK, Disciplined, NEW t \in Threads, NEW s \in SockArgs, Close(t, s)
  PROVE  Closes(t, s) \/ Calm(t)
<1>0. /\ HostTypeOK /\ pc \in [Threads -> Pcs] /\ req \in [Threads -> Request]
  BY DEF TypeOK, CallsTypeOK
<1>1. PICK o \in HostClose(s) :
        /\ host' = o.host
        /\ pc' = [pc EXCEPT ![t] = IF o.ret = OK THEN "clear" ELSE "done"]
        /\ IF o.ret = OK
           THEN /\ held'    = held \ {s}
                /\ tainted' = tainted \ {s}
                /\ opt'     = [opt EXCEPT ![s] = NoAttr]
           ELSE UNCHANGED <<owner, opt>>
  BY DEF Close, Goto
<1>2. /\ req'[t].op = "Close" /\ req'[t].sock = s /\ attr' = attr
      /\ pc'[t] = IF o.ret = OK THEN "clear" ELSE "done"
  BY <1>0, <1>1 DEF Close, Enter
<1>3. s \in held /\ Undisturbed(t, "Close", s)  BY DEF Close, MayPass
<1>4. /\ \A n \in Socks \ {s} : o.host[n] = host[n]
      /\ o.ret # OK => Kept(o.host)
  BY <1>0, CloseKept
<1>5. CASE o.ret = OK
  <2>1. \A u \in Threads \ {t} : req[u].op \in Users /\ {"Close", req[u].op} \in Apart
                                   => req[u].sock # s
    BY <1>3 DEF Undisturbed, Users, Setters
  <2>2. QED  BY <1>1, <1>2, <1>3, <1>4, <1>5, <2>1 DEF Closes
<1>6. CASE o.ret # OK
  BY <1>1, <1>2, <1>4, <1>6 DEF Calm, owner, Born, NewSocket
<1>7. QED  BY <1>5, <1>6

(* Every step is of one of these kinds, or is the memset, or a return.     *)
LEMMA StepKinds ==
  ASSUME TypeOK, Control, Disciplined, NEW t \in Threads, Call(t) \/ Step(t)
  PROVE  \/ Calm(t) \/ Hands(t) \/ Stores(t) \/ ClearAttr(t) \/ Return(t)
         \/ \E s \in Socks : Closes(t, s)
<1>1. CASE \E s \in SockArgs : Close(t, s)
  BY <1>1, ClosesStep DEF Closes, TypeOK, CallsTypeOK
<1>2. CASE Call(t) /\ ~\E s \in SockArgs : Close(t, s)  BY <1>2, CalmCall, HandsOut
<1>3. CASE Step(t)  BY <1>3, CalmStep, HandsOut, StoresStep DEF Step
<1>4. QED  BY <1>1, <1>2, <1>3

(***************************************************************************)
(* Who has which number.                                                   *)
(***************************************************************************)

(* A user starts on a socket the application holds, and a setter on one    *)
(* that no other setter works on.                                          *)
LEMMA UserStarts ==
  ASSUME TypeOK, NEW t \in Threads, Call(t) \/ Step(t), req'[t].op \in Users
  PROVE  req'[t] = req[t] \/ (MayPass(t, req'[t].op, req'[t].sock) /\ pc[t] = "idle")
<1>0. req \in [Threads -> Request]  BY DEF TypeOK, CallsTypeOK
<1> USE <1>0 DEF Enter, Users, Setters, local
<1>1. CASE Create(t) \/ GetHostByName(t)  BY <1>1 DEF Create, GetHostByName
<1>2. ASSUME NEW s \in SockArgs, Bind(t, s) \/ Listen(t, s) \/ GetTimeo(t, s) \/ Close(t, s)
      PROVE  req'[t] = req[t]
  BY <1>2 DEF Bind, Listen, GetTimeo, Close
<1>3. ASSUME NEW s \in SockArgs, NEW op, NEW v, NEW next,
             CallWithMode(t, op, s, v, next) \/ SetOpt(t, op, s, v, next)
      PROVE  MayPass(t, req'[t].op, req'[t].sock) /\ pc[t] = "idle"
  <2>1. req'[t].op = op /\ req'[t].sock = s  BY <1>3 DEF CallWithMode, SetOpt
  <2>2. QED  BY <1>3, <2>1 DEF CallWithMode, SetOpt, MayCall
<1>4. CASE Step(t)
  <2>1. CASE ~Return(t)
    BY <1>4, <2>1
       DEF Step, AcceptHost, ConnectHost, RecvHost, GetHostByNameHost, RecvTimeo, Wake,
           WakeRecv, LoadMode, StoreMode, LoadTimeo, StoreTimeo, ClearAttr
  <2>2. CASE Return(t)  BY <2>2 DEF Return, NoRequest
  <2>3. QED  BY <2>1, <2>2
<1>5. QED
  BY <1>1, <1>2, <1>3, <1>4 DEF Call, Accept, Connect, Recv, SetMode, SetTimeo

(* What a step that is no Close leaves of the numbers in use.              *)
Steady(t) ==
  /\ Kept(host') /\ held \subseteq held'
  /\ \A n \in held' : n \in held \/ (Born(t) /\ n = io[t])
  /\ Born(t)' => held' = held
  /\ Born(t)' => NewNumber(t) \/ (Born(t) /\ io'[t] = io[t])
  /\ pc'[t] # "clear"
  /\ \A n \in Socks : host[n].st # "free" => (n \in tainted' <=> n \in tainted)

LEMMA SteadyStep ==
  ASSUME TypeOK, Control, NEW t \in Threads,
         Calm(t) \/ Hands(t) \/ Stores(t) \/ ClearAttr(t) \/ Return(t)
  PROVE  Steady(t)
<1>0. pc \in [Threads -> Pcs]  BY DEF TypeOK, CallsTypeOK
<1>1. host' = host => Kept(host')  BY DEF Kept
<1> USE <1>0, <1>1 DEF Steady
<1>2. CASE Calm(t)    BY <1>2 DEF Calm
<1>3. CASE Hands(t)
  <2>1. \A n \in Socks : host[n].st # "free" => (n \in tainted' <=> n \in tainted)
    BY <1>3 DEF Hands, NewNumber, HandedOut
  <2>2. QED  BY <1>3, <2>1 DEF Hands
<1>4. CASE Stores(t)  BY <1>4 DEF Stores, Born, Storing, StoreAt
<1>5. CASE ClearAttr(t)
  <2>1. req[t].op = "Close"  BY <1>5 DEF ClearAttr, Control, ControlOf
  <2>2. QED  BY <1>5, <2>1 DEF ClearAttr, Goto, ghost, owner, Born, NewSocket
<1>6. CASE Return(t)
  <2>1. pc'[t] = "idle" /\ pc[t] = "done"  BY <1>6 DEF Return, Goto
  <2>2. ~Born(t)'  BY <2>1 DEF Born, Storing
  <2>3. \A n \in held' : n \in held \/ (Born(t) /\ n = io[t])
    BY <1>6, <2>1 DEF Return, Born, NewSocket
  <2>4. QED  BY <1>6, <2>1, <2>2, <2>3 DEF Return
<1>7. QED  BY <1>2, <1>3, <1>4, <1>5, <1>6

LEMMA BornInTable ==
  ASSUME TypeOK, Control, NEW t \in Threads, Born(t) PROVE io[t] \in Socks
BY DEF Control, ControlOf, Born, NewSocket, Storing, Target

LEMMA BornSame ==
  ASSUME NEW u \in Threads, Same(u) PROVE (Born(u)' <=> Born(u)) /\ Target(u)' = Target(u)
BY DEF Same, Born, Target

LEMMA SteadyOwnership ==
  ASSUME TypeOK, Control, Ownership, NEW t \in Threads, Call(t) \/ Step(t), Steady(t)
  PROVE  HeldUsed' /\ BornUsed' /\ BornApart' /\ ClearsOwn'
<1>0. held \subseteq Socks  BY DEF TypeOK, CallsTypeOK
<1>1. \A u \in Threads \ {t} : Same(u)  BY OthersUnchanged
<1>2. \A u \in Threads \ {t} : (Born(u)' <=> Born(u)) /\ io'[u] = io[u] /\ pc'[u] = pc[u]
                               /\ req'[u] = req[u]
  BY <1>1, BornSame DEF Same
<1>3. \A u \in Threads : Born(u) => /\ io[u] \in Socks /\ io[u] \notin held
                                    /\ host[io[u]].st # "free"
  BY BornInTable DEF Ownership, BornUsed
<1>4. \A u \in Threads : Born(u)' => (Born(u) /\ io'[u] = io[u]) \/ (u = t /\ NewNumber(t))
  BY <1>2 DEF Steady
<1>5. HeldUsed'
  BY <1>0, <1>3 DEF Steady, Ownership, HeldUsed, Kept
<1>6. BornUsed'
  <2> SUFFICES ASSUME NEW u \in Threads, Born(u)'
               PROVE  io'[u] \notin held' /\ host'[io'[u]].st # "free"
    BY DEF BornUsed
  <2>1. CASE u = t /\ NewNumber(t)
    <3>1. io'[t] \notin held  BY <2>1 DEF NewNumber, Ownership, HeldUsed
    <3>2. QED  BY <2>1, <3>1 DEF NewNumber, Steady
  <2>2. CASE Born(u) /\ io'[u] = io[u]
    <3>1. host'[io[u]].st # "free"  BY <1>3, <2>2 DEF Steady, Kept
    <3>2. io[u] \notin held'
      BY <1>3, <2>2 DEF Steady, Ownership, BornApart
    <3>3. QED  BY <2>2, <3>1, <3>2
  <2>3. QED  BY <1>4, <2>1, <2>2
<1>7. BornApart'
  <2> SUFFICES ASSUME NEW u \in Threads, NEW w \in Threads, u # w, Born(u)', Born(w)'
               PROVE  io'[u] # io'[w]
    BY DEF BornApart
  <2>1. CASE Born(u) /\ io'[u] = io[u] /\ Born(w) /\ io'[w] = io[w]
    BY <2>1 DEF Ownership, BornApart
  <2>2. CASE u = t /\ NewNumber(t)  BY <1>2, <1>3, <2>2 DEF NewNumber
  <2>3. CASE w = t /\ NewNumber(t)  BY <1>2, <1>3, <2>3 DEF NewNumber
  <2>4. QED  BY <1>4, <2>1, <2>2, <2>3
<1>8. ClearsOwn'
  <2> SUFFICES ASSUME NEW u \in Threads, pc'[u] = "clear", Taken(req[u].sock)', u # t
               PROVE  req[u].sock \in tainted'
    BY <1>2 DEF ClearsOwn, Steady
  <2> DEFINE c == req[u].sock
  <2>1. pc[u] = "clear" /\ c \in Socks  BY <1>2 DEF Control, ControlOf
  <2>2. CASE NewNumber(t) /\ io'[t] = c
    BY <2>1, <2>2 DEF NewNumber, HandedOut
  <2>3. CASE ~(NewNumber(t) /\ io'[t] = c)
    <3>1. Taken(c)  BY <1>2, <1>4, <2>3 DEF Taken, Steady
    <3>2. c \in tainted  BY <2>1, <3>1 DEF Ownership, ClearsOwn
    <3>3. host[c].st # "free"  BY <1>3, <3>1 DEF Taken, Ownership, HeldUsed
    <3>4. QED  BY <2>1, <3>2, <3>3 DEF Steady
  <2>4. QED  BY <2>2, <2>3
<1>9. QED  BY <1>5, <1>6, <1>7, <1>8

LEMMA CloseOwnership ==
  ASSUME TypeOK, Control, Ownership, NEW t \in Threads, Call(t) \/ Step(t),
         NEW s \in Socks, Closes(t, s)
  PROVE  HeldUsed' /\ BornUsed' /\ BornApart' /\ ClearsOwn'
<1>0. held \subseteq Socks  BY DEF TypeOK, CallsTypeOK
<1>1. \A u \in Threads \ {t} : Same(u)  BY OthersUnchanged
<1>2. \A u \in Threads \ {t} : (Born(u)' <=> Born(u)) /\ io'[u] = io[u] /\ pc'[u] = pc[u]
                               /\ req'[u] = req[u]
  BY <1>1, BornSame DEF Same
<1>3. ~Born(t)'  BY DEF Closes, Born, NewSocket
<1>4. \A u \in Threads : Born(u) => io[u] \in Socks /\ io[u] \notin held
  BY BornInTable DEF Ownership, BornUsed
<1>5. HeldUsed'  BY <1>0 DEF Closes, Ownership, HeldUsed
<1>6. BornUsed'  BY <1>2, <1>3, <1>4 DEF Closes, Ownership, BornUsed
<1>7. BornApart'  BY <1>2, <1>3 DEF Ownership, BornApart
<1>8. \A c : Taken(c)' => Taken(c) /\ c # s
  BY <1>2, <1>3, <1>4 DEF Taken, Closes
<1>9. ClearsOwn'
  BY <1>2, <1>8 DEF ClearsOwn, Closes, Ownership
<1>10. QED  BY <1>5, <1>6, <1>7, <1>9

LEMMA OwnershipStep ==
  ASSUME TypeOK, Control, Serial, Ownership, NEW t \in Threads, Call(t) \/ Step(t)
  PROVE  Ownership'
<1>0. req \in [Threads -> Request]  BY DEF TypeOK, CallsTypeOK
<1>1. \A u \in Threads \ {t} : req'[u] = req[u]  BY OthersUnchanged DEF Same
<1>2. \/ Steady(t)
      \/ \E s \in Socks : Closes(t, s)
  BY StepKinds, SteadyStep DEF Serial
<1>3. HeldUsed' /\ BornUsed' /\ BornApart' /\ ClearsOwn'
  BY <1>2, SteadyOwnership, CloseOwnership
<1>4. \A n \in held : n \in held' \/ Closes(t, n)
  BY <1>2 DEF Steady, Closes
<1>5. UsesHeld'
  <2> SUFFICES ASSUME NEW u \in Threads, req'[u].op \in Users, {"Close", req'[u].op} \in Apart
               PROVE  req'[u].sock \in held'
    BY DEF UsesHeld
  <2>1. CASE u # t
    <3>1. req[u].sock \in held  BY <1>1, <2>1 DEF Ownership, UsesHeld
    <3>2. ~Closes(t, req[u].sock)  BY <1>1, <2>1 DEF Closes
    <3>3. QED  BY <1>1, <1>4, <2>1, <3>1, <3>2
  <2>2. CASE u = t
    <3>1. req'[t].op # "Close"  BY <2>2 DEF Users, Setters
    <3>2. req'[t].sock \in held
      <4>1. CASE req'[t] = req[t]  BY <2>2, <4>1 DEF Ownership, UsesHeld
      <4>2. CASE MayPass(t, req'[t].op, req'[t].sock)  BY <4>2 DEF MayPass, Serial
      <4>3. QED  BY <2>2, <4>1, <4>2, UserStarts
    <3>3. QED  BY <1>4, <2>2, <3>1, <3>2 DEF Closes
  <2>3. QED  BY <2>1, <2>2
<1>6. SettersApart'
  <2>1. ASSUME NEW u \in Threads \ {t}, req'[t].op \in Setters, req'[u].op \in Setters
        PROVE  req'[t].sock # req'[u].sock
    <3>1. CASE req'[t] = req[t]  BY <1>1, <2>1, <3>1 DEF Ownership, SettersApart
    <3>2. CASE MayPass(t, req'[t].op, req'[t].sock)
      BY <1>1, <2>1, <3>2 DEF MayPass, Undisturbed, Serial, Setters
    <3>3. QED  BY <2>1, <3>1, <3>2, UserStarts DEF Users
  <2>2. ASSUME NEW u \in Threads \ {t}, NEW w \in Threads \ {t}, u # w,
               req'[u].op \in Setters, req'[w].op \in Setters
        PROVE  req'[u].sock # req'[w].sock
    BY <1>1, <2>2 DEF Ownership, SettersApart
  <2>3. QED  BY <2>1, <2>2 DEF SettersApart
<1>7. QED  BY <1>3, <1>5, <1>6 DEF Ownership

(***************************************************************************)
(* The options that are asked for and written.                             *)
(***************************************************************************)
LEMMA SameOptions ==
  ASSUME NEW a \in Attr, NEW o \in Options, a.ionbio = o.ionbio, a.to_msec = o.to_msec
  PROVE  a = o
BY DEF Attr, Options

LEMMA TargetInTable ==
  ASSUME Control, NEW t \in Threads, pc[t] \in Storing PROVE Target(t) \in Socks
BY DEF Control, ControlOf, Storing

(* The number whose entry a call writes, or has written for a new socket,  *)
(* is a new socket or one the application holds, and nobody else's.        *)
Works(t) == pc[t] \in Storing \/ Born(t)

LEMMA WorkTarget ==
  ASSUME TypeOK, Control, Serial, Ownership, NEW t \in Threads, Works(t)
  PROVE  /\ Target(t) \in Socks /\ Taken(Target(t)) /\ host[Target(t)].st # "free"
         /\ req[t].op \in NewSocket \cup Setters
         /\ req[t].op \in NewSocket => Born(t) /\ Target(t) = io[t] /\ Target(t) \notin held
         /\ req[t].op \in Setters   => ~Born(t) /\ Target(t) = req[t].sock /\ Target(t) \in held
<1>1. req[t].op \in NewSocket \cup Setters
  BY DEF Control, ControlOf, Works, Storing, Born, NewSocket, Setters
<1>2. CASE req[t].op \in NewSocket
  <2>1. Target(t) = io[t]  BY <1>2 DEF Target, NewSocket
  <2>2. Born(t)
    <3>1. pc[t] \in Storing => io[t] \in Nat  BY <2>1, TargetInTable, SocksInt
    <3>2. QED  BY <1>2, <3>1 DEF Works, Born
  <2>3. io[t] \in Socks  BY <2>2, BornInTable
  <2>4. QED  BY <1>2, <2>1, <2>2, <2>3 DEF Ownership, BornUsed, Taken, NewSocket, Setters
<1>3. CASE req[t].op \in Setters
  <2>1. ~Born(t) /\ Target(t) = req[t].sock  BY <1>3 DEF Born, NewSocket, Setters, Target
  <2>2. Target(t) \in Socks  BY <2>1, TargetInTable DEF Works
  <2>3. {"Close", req[t].op} \in Apart  BY <1>3 DEF Serial, Users, Setters
  <2>4. req[t].sock \in held  BY <1>3, <2>3 DEF Ownership, UsesHeld, Users
  <2>5. QED  BY <1>3, <2>1, <2>2, <2>4 DEF Ownership, HeldUsed, Taken, NewSocket, Setters
<1>4. QED  BY <1>1, <1>2, <1>3

LEMMA TargetsApart ==
  ASSUME TypeOK, Control, Serial, Ownership,
         NEW t \in Threads, NEW u \in Threads \ {t}, Works(t), Works(u)
  PROVE  Target(t) # Target(u)
<1>1. CASE req[t].op \in NewSocket /\ req[u].op \in NewSocket
  BY <1>1, WorkTarget DEF Ownership, BornApart
<1>2. CASE req[t].op \in Setters /\ req[u].op \in Setters
  BY <1>2, WorkTarget DEF Ownership, SettersApart
<1>3. QED  BY <1>1, <1>2, WorkTarget

(* A number in use is tainted or not until it is closed.                   *)
LEMMA TaintStays ==
  ASSUME TypeOK, Control, Serial, Ownership, NEW t \in Threads, Call(t) \/ Step(t),
         NEW n \in Socks, Taken(n), ~Closes(t, n)
  PROVE  n \in tainted' <=> n \in tainted
<1>1. host[n].st # "free"
  BY DEF Taken, Ownership, HeldUsed, BornUsed
<1>2. CASE Steady(t)  BY <1>1, <1>2 DEF Steady
<1>3. CASE \E s \in Socks : Closes(t, s)  BY <1>3 DEF Closes
<1>4. QED  BY <1>2, <1>3, StepKinds, SteadyStep DEF Serial

(* A number in use stays so, with its options, its entry and its taint, if *)
(* the step is no Close of it and writes no entry of it.                   *)
LEMMA EntryStays ==
  ASSUME TypeOK, Control, Serial, KeptInv, NEW t \in Threads, Call(t) \/ Step(t),
         NEW n \in Socks, Taken(n), n \notin tainted', ~Closes(t, n),
         pc[t] \in StoreAt => n # Target(t)
  PROVE  attr'[n] = attr[n] /\ opt'[n] = opt[n] /\ n \notin tainted
<1>0. /\ attr \in [Socks -> Attr] /\ opt \in [Socks -> Options] /\ Ownership
  BY DEF TypeOK, CallsTypeOK, OptionsTypeOK, KeptInv
<1>2. n \notin tainted  BY <1>0, TaintStays
<1>3. CASE Calm(t) \/ Hands(t)  BY <1>2, <1>3 DEF Calm, Hands
<1>4. CASE Stores(t)
  <2>1. Target(t) \in Socks  BY <1>4, TargetInTable DEF Stores, StoreAt, Storing
  <2>2. n # Target(t)  BY <1>4 DEF Stores
  <2>3. attr'[n] = attr[n]  BY <1>0, <1>4, <2>1, <2>2 DEF Stores
  <2>4. opt'[n] = opt[n]
    <3>1. Step(t)
      BY <1>4 DEF Stores, StoreAt, Call, Create, GetHostByName, Bind, Listen, Accept, Connect,
                  Recv, CallWithMode, SetMode, SetTimeo, SetOpt, GetTimeo, Close, MayCall
    <3>2. StoreMode(t) \/ StoreTimeo(t)
      BY <1>4, <3>1
         DEF Stores, StoreAt, Step, AcceptHost, ConnectHost, RecvHost, GetHostByNameHost,
             RecvTimeo, Wake, WakeRecv, LoadMode, LoadTimeo, ClearAttr, Return
    <3>3. CASE StoreMode(t)   BY <1>0, <2>1, <2>2, <3>3 DEF StoreMode
    <3>4. CASE StoreTimeo(t)  BY <1>0, <2>1, <2>2, <3>4 DEF StoreTimeo
    <3>5. QED  BY <3>2, <3>3, <3>4
  <2>5. QED  BY <1>2, <2>3, <2>4
<1>5. CASE ClearAttr(t)
  <2>1. req[t].sock # n
    BY <1>2, <1>5 DEF ClearAttr, KeptInv, Ownership, ClearsOwn
  <2>2. attr' = [attr EXCEPT ![req[t].sock] = NoAttr] /\ opt' = opt
    BY <1>5 DEF ClearAttr, ghost
  <2>3. QED  BY <1>0, <1>2, <2>1, <2>2
<1>6. CASE Return(t)  BY <1>2, <1>6 DEF Return
<1>7. CASE \E s \in Socks : Closes(t, s)
  <2>1. PICK s \in Socks : Closes(t, s)  BY <1>7
  <2>2. s # n  BY <2>1
  <2>3. QED  BY <1>0, <1>2, <2>1, <2>2 DEF Closes
<1>8. QED  BY <1>3, <1>4, <1>5, <1>6, <1>7, StepKinds DEF Serial

(* The threads that do not move.                                           *)
LEMMA OthersWork ==
  ASSUME TypeOK, Control, Serial, KeptInv, NEW t \in Threads, Call(t) \/ Step(t),
         NEW u \in Threads \ {t}
  PROVE  AskOf(u)' /\ WorkOf(u)'
<1>0. Ownership /\ AskOf(u) /\ WorkOf(u)  BY DEF KeptInv
<1>1. Same(u)  BY OthersUnchanged
<1>2. (Born(u)' <=> Born(u)) /\ Target(u)' = Target(u)  BY <1>1, BornSame
<1>3. WorkOf(u)'
  <2>1. CASE ~Works(u)
    BY <1>1, <1>2, <2>1 DEF Works, WorkOf, Same, Storing
  <2>2. CASE Works(u) /\ Target(u) \in tainted'
    BY <1>2, <2>2 DEF WorkOf
  <2>3. CASE Works(u) /\ Target(u) \notin tainted'
    <3>1. Target(u) \in Socks /\ Taken(Target(u))  BY <1>0, <2>3, WorkTarget
    <3>2. pc[t] \in StoreAt => Target(u) # Target(t)
      BY <1>0, <2>3, TargetsApart DEF Works, StoreAt, Storing
    <3>3. ~Closes(t, Target(u))
      <4>1. CASE req[u].op \in NewSocket  BY <1>0, <2>3, <4>1, WorkTarget DEF Closes
      <4>2. CASE req[u].op \in Setters
        <5>1. Target(u) = req[u].sock  BY <1>0, <2>3, <4>2, WorkTarget
        <5>2. QED  BY <4>2, <5>1 DEF Closes, Serial, Users, Setters
      <4>3. QED  BY <1>0, <2>3, <4>1, <4>2, WorkTarget
    <3>4. /\ attr'[Target(u)] = attr[Target(u)] /\ opt'[Target(u)] = opt[Target(u)]
          /\ Target(u) \notin tainted
      BY <2>3, <3>1, <3>2, <3>3, EntryStays
    <3>5. QED  BY <1>0, <1>1, <1>2, <3>4 DEF WorkOf, Same
  <2>4. QED  BY <2>1, <2>2, <2>3
<1>4. AskOf(u)'
  <2>1. ASSUME req[u].op = "Accept"
        PROVE  /\ req[u].sock \in tainted' <=> req[u].sock \in tainted
               /\ Born(u) /\ io[u] \in tainted => io[u] \in tainted'
    <3>1. req[u].sock \in held /\ req[u].sock \in Socks
      BY <1>0, <2>1 DEF Ownership, UsesHeld, Serial, Users, TypeOK, CallsTypeOK
    <3>2. ~Closes(t, req[u].sock)  BY <2>1 DEF Closes, Serial, Users, Setters
    <3>3. Born(u) => io[u] \in Socks /\ Taken(io[u]) /\ ~Closes(t, io[u])
      BY <1>0, BornInTable DEF Ownership, BornUsed, Taken, Closes
    <3>4. QED  BY <1>0, <3>1, <3>2, <3>3, TaintStays DEF Taken
  <2>2. QED  BY <1>0, <1>1, <1>2, <2>1 DEF AskOf, Same
<1>5. QED  BY <1>3, <1>4

(***************************************************************************)
(* The thread that moves.                                                  *)
(***************************************************************************)

(* A store of a field brings the entry what was asked for in that field    *)
(* and leaves it the other one.                                            *)
LEMMA EntryStored ==
  ASSUME TypeOK, Control, NEW t \in Threads, WorkOf(t), Target(t) \notin tainted,
         StoreMode(t) \/ StoreTimeo(t)
  PROVE  LET T == Target(t)
         IN  /\ attr'[T] \in Attr /\ opt'[T] \in Options
             /\ StoreMode(t)  => /\ attr'[T].ionbio = opt'[T].ionbio
                                 /\ attr'[T].to_msec = attr[T].to_msec
                                 /\ opt'[T].to_msec = opt[T].to_msec
             /\ StoreTimeo(t) => /\ attr'[T].to_msec = opt'[T].to_msec
                                 /\ attr'[T].ionbio = attr[T].ionbio
                                 /\ opt'[T].ionbio = opt[T].ionbio
<1> DEFINE T == Target(t)
<1>0. /\ attr \in [Socks -> Attr] /\ opt \in [Socks -> Options]
      /\ word \in [Threads -> Attr] /\ ask \in [Threads -> Options]
  BY DEF TypeOK, CallsTypeOK, OptionsTypeOK
<1>1. T \in Socks  BY TargetInTable DEF StoreMode, StoreTimeo, Storing
<1>2. attr' = [attr EXCEPT ![T] = word[t]]  BY DEF StoreMode, StoreTimeo
<1>3. attr'[T] = word[t] /\ attr'[T] \in Attr  BY <1>0, <1>1, <1>2
<1>4. opt[T] \in Options /\ ask[t] \in Options  BY <1>0, <1>1
<1>5. CASE StoreMode(t)
  <2>1. opt' = [opt EXCEPT ![T].ionbio = ask[t].ionbio] /\ pc[t] = "storeMode"
    BY <1>5 DEF StoreMode
  <2>2. opt'[T] = [opt[T] EXCEPT !.ionbio = ask[t].ionbio]  BY <1>0, <1>1, <2>1
  <2>3. /\ opt'[T] \in Options /\ opt'[T].ionbio = ask[t].ionbio
        /\ opt'[T].to_msec = opt[T].to_msec
    BY <1>4, <2>2 DEF Options
  <2>4. word[t].ionbio = ask[t].ionbio /\ word[t].to_msec = attr[T].to_msec
    BY <2>1 DEF WorkOf
  <2>5. ~StoreTimeo(t)  BY <2>1 DEF StoreTimeo
  <2>6. QED  BY <1>3, <2>3, <2>4, <2>5
<1>6. CASE StoreTimeo(t)
  <2>1. opt' = [opt EXCEPT ![T].to_msec = ask[t].to_msec] /\ pc[t] = "storeTimeo"
    BY <1>6 DEF StoreTimeo
  <2>2. opt'[T] = [opt[T] EXCEPT !.to_msec = ask[t].to_msec]  BY <1>0, <1>1, <2>1
  <2>3. /\ opt'[T] \in Options /\ opt'[T].to_msec = ask[t].to_msec
        /\ opt'[T].ionbio = opt[T].ionbio
    BY <1>4, <2>2 DEF Options
  <2>4. word[t].to_msec = ask[t].to_msec /\ word[t].ionbio = attr[T].ionbio
    BY <2>1 DEF WorkOf
  <2>5. ~StoreMode(t)  BY <2>1 DEF StoreMode
  <2>6. QED  BY <1>3, <2>3, <2>4, <2>5
<1>7. QED  BY <1>5, <1>6

LEMMA StoresOnly ==
  ASSUME NEW t \in Threads, Call(t) \/ Step(t), pc[t] \in StoreAt
  PROVE  StoreMode(t) \/ StoreTimeo(t)
BY DEF StoreAt, Call, Create, GetHostByName, Bind, Listen, Accept, Connect, Recv, CallWithMode,
       SetMode, SetTimeo, SetOpt, GetTimeo, Close, MayCall,
       Step, AcceptHost, ConnectHost, RecvHost, GetHostByNameHost,
       RecvTimeo, Wake, WakeRecv, LoadMode, LoadTimeo, ClearAttr, Return

LEMMA OptionsStep ==
  ASSUME TypeOK, Control, Serial, KeptInv, NEW t \in Threads, Call(t) \/ Step(t)
  PROVE  OptionsKept'
<1> SUFFICES ASSUME NEW s \in Sound' PROVE attr'[s] = opt'[s]
  BY DEF OptionsKept
<1>0. Ownership /\ WorkOf(t) /\ held \subseteq Socks  BY DEF KeptInv, TypeOK, CallsTypeOK
<1>1. s \in held' /\ s \notin tainted' /\ ~Closes(t, s)  BY DEF Sound, Closes
<1>2. s \in held \/ (Born(t) /\ pc[t] = "done" /\ io[t] = s)
  <2>1. CASE Return(t)  BY <1>1, <2>1 DEF Return, Born, NewSocket
  <2>2. CASE ~Return(t)
    BY <1>1, <2>2, StepKinds DEF Calm, Hands, Stores, ClearAttr, ghost, owner, Closes, Serial
  <2>3. QED  BY <2>1, <2>2
<1>3. s \in Socks /\ Taken(s)  BY <1>0, <1>2, BornInTable DEF Taken
<1>4. CASE ~(pc[t] \in StoreAt /\ s = Target(t))
  <2>1. attr'[s] = attr[s] /\ opt'[s] = opt[s] /\ s \notin tainted
    BY <1>1, <1>3, <1>4, EntryStays
  <2>2. CASE s \in held  BY <2>1, <2>2 DEF KeptInv, OptionsKept, Sound
  <2>3. CASE Born(t) /\ pc[t] = "done" /\ io[t] = s
    <3>1. Target(t) = s  BY <2>3 DEF Born, NewSocket, Target
    <3>2. attr[s] = opt[s]  BY <1>0, <2>1, <2>3, <3>1 DEF WorkOf
    <3>3. QED  BY <2>1, <3>2
  <2>4. QED  BY <1>2, <2>2, <2>3
<1>5. CASE pc[t] \in StoreAt /\ s = Target(t)
  <2>1. StoreMode(t) \/ StoreTimeo(t)  BY <1>5, StoresOnly
  <2>2. tainted' = tainted  BY <2>1 DEF StoreMode, StoreTimeo, owner
  <2>3. s \in held /\ s \notin tainted  BY <1>1, <1>2, <1>5, <2>2 DEF StoreAt
  <2>4. attr[s] = opt[s]  BY <2>3 DEF KeptInv, OptionsKept, Sound
  <2>5. /\ attr'[s] \in Attr /\ opt'[s] \in Options
        /\ attr'[s].ionbio = opt'[s].ionbio /\ attr'[s].to_msec = opt'[s].to_msec
    BY <1>0, <1>5, <2>1, <2>3, <2>4, EntryStored
  <2>6. QED  BY <2>5, SameOptions
<1>6. QED  BY <1>4, <1>5

(* What is asked for, when a call starts and when its new socket is there. *)
LEMMA CallAsks ==
  ASSUME TypeOK, Control, Serial, KeptInv, NEW t \in Threads, Call(t)
  PROVE  AskOf(t)'
<1>0. /\ pc \in [Threads -> Pcs] /\ req \in [Threads -> Request] /\ ask \in [Threads -> Options]
      /\ held \subseteq Socks
  BY DEF TypeOK, CallsTypeOK, OptionsTypeOK
<1> USE <1>0 DEF Enter, Asks, Goto, AskOf
<1>1. CASE Create(t)  BY <1>1 DEF Create
<1>2. CASE GetHostByName(t)  BY <1>2 DEF GetHostByName
<1>3. ASSUME NEW s \in SockArgs, Bind(t, s) \/ Listen(t, s) PROVE AskOf(t)'
  BY <1>3 DEF Bind, Listen, local, ghost, owner, KeptInv, Born
<1>4. ASSUME NEW s \in SockArgs, Accept(t, s) PROVE AskOf(t)'
  <2>1. s \in held /\ s \in Socks
    BY <1>4 DEF Accept, CallWithMode, MayPass, Serial
  <2>2. /\ req'[t].op = "Accept" /\ req'[t].sock = s /\ req'[t].nbio = attr[s].ionbio
        /\ ask'[t] = opt[s] /\ tainted' = tainted /\ pc'[t] = "accept"
    BY <1>4, <2>1 DEF Accept, CallWithMode, owner
  <2>3. s \notin tainted => attr[s] = opt[s]  BY <2>1 DEF KeptInv, OptionsKept, Sound
  <2>4. ~Born(t)'  BY <2>2 DEF Born, Storing
  <2>5. QED  BY <2>2, <2>3, <2>4
<1>5. ASSUME NEW s \in SockArgs, Connect(t, s) \/ \E len \in {0, 1} : Recv(t, s, len)
      PROVE  AskOf(t)'
  <2>1. req'[t].op \in {"Connect", "Recv"}  BY <1>5 DEF Connect, Recv, CallWithMode
  <2>2. QED  BY <2>1
<1>6. ASSUME NEW s \in SockArgs, NEW v \in {0, 1}, SetMode(t, s, v) PROVE AskOf(t)'
  BY <1>6 DEF SetMode, SetOpt
<1>7. ASSUME NEW s \in SockArgs, NEW v \in RcvTimeouts, SetTimeo(t, s, v) PROVE AskOf(t)'
  BY <1>7 DEF SetTimeo, SetOpt
<1>8. ASSUME NEW s \in SockArgs, GetTimeo(t, s) \/ Close(t, s) PROVE AskOf(t)'
  <2>1. req'[t].op \in {"GetTimeo", "Close"}  BY <1>8 DEF GetTimeo, Close
  <2>2. QED  BY <2>1
<1>9. QED  BY <1>1, <1>2, <1>3, <1>4, <1>5, <1>6, <1>7, <1>8 DEF Call

LEMMA StepAsks ==
  ASSUME TypeOK, Control, Serial, KeptInv, NEW t \in Threads, Step(t)
  PROVE  AskOf(t)'
<1>0. /\ pc \in [Threads -> Pcs] /\ req \in [Threads -> Request] /\ ask \in [Threads -> Options]
      /\ held \subseteq Socks /\ AskOf(t) /\ Ownership
  BY DEF TypeOK, CallsTypeOK, OptionsTypeOK, KeptInv
<1>1. CASE AcceptHost(t)
  <2>1. req' = req /\ req[t].op = "Accept" /\ ask' = ask /\ Hands(t)
    BY <1>1, HandsOut DEF AcceptHost, Control, ControlOf
  <2>2. req[t].sock \in held
    BY <1>0, <2>1 DEF Ownership, UsesHeld, Serial, Users, Setters
  <2>3. host[req[t].sock].st # "free"  BY <1>0, <2>2 DEF Ownership, HeldUsed
  <2>4. CASE NewNumber(t)
    BY <1>0, <2>1, <2>3, <2>4 DEF NewNumber, HandedOut, AskOf
  <2>5. CASE ~NewNumber(t)  BY <1>0, <2>1, <2>5 DEF Hands, AskOf
  <2>6. QED  BY <2>4, <2>5
<1>2. CASE LoadTimeo(t)
  <2>1. /\ req' = req /\ io' = io /\ tainted' = tainted /\ (Born(t)' => Born(t))
        /\ req[t].op # "Accept" => ask' = ask
    BY <1>2 DEF LoadTimeo, owner, Born, Goto, Storing, TypeOK, CallsTypeOK
  <2>2. req[t].op = "Accept" => ask'[t].ionbio = ask[t].ionbio
    BY <1>0, <1>2 DEF LoadTimeo, Options
  <2>3. QED  BY <1>0, <2>1, <2>2 DEF AskOf
<1>3. CASE Return(t)
  <2>1. req'[t].op = "none"  BY <1>0, <1>3 DEF Return, NoRequest
  <2>2. QED  BY <2>1 DEF AskOf
<1>4. CASE ~AcceptHost(t) /\ ~LoadTimeo(t) /\ ~Return(t)
  <2>1. req' = req /\ ask' = ask /\ tainted' = tainted
    BY <1>4 DEF Step, ConnectHost, RecvHost, GetHostByNameHost, RecvTimeo, Wake, WakeRecv,
                LoadMode, StoreMode, StoreTimeo, ClearAttr, ghost, owner
  <2>2. Born(t)' => Born(t) /\ io'[t] = io[t]
    <3>1. Calm(t) \/ Stores(t) \/ ClearAttr(t)
      BY <1>4, CalmStep, StoresStep DEF Step
    <3>2. CASE ClearAttr(t)
      BY <2>1, <3>2 DEF ClearAttr, Control, ControlOf, Born, NewSocket
    <3>3. CASE Stores(t)  BY <3>3 DEF Stores, Born, Storing, StoreAt
    <3>4. QED  BY <3>1, <3>2, <3>3 DEF Calm
  <2>3. QED  BY <1>0, <2>1, <2>2 DEF AskOf
<1>5. QED  BY <1>1, <1>2, <1>3, <1>4

(* A call that is at no store and has no new socket with anything written. *)
LEMMA NoWork ==
  ASSUME NEW t \in Threads, pc'[t] \notin StoreAt,
         pc'[t] = "loadTimeo" => req'[t].op \notin NewSocket, ~(pc'[t] = "done" /\ Born(t)')
  PROVE  WorkOf(t)'
BY DEF WorkOf, StoreAt

LEMMA CallWork ==
  ASSUME TypeOK, NEW t \in Threads, Call(t) PROVE WorkOf(t)'
<1>0. /\ pc \in [Threads -> Pcs] /\ req \in [Threads -> Request] /\ io \in [Threads -> Int]
  BY DEF TypeOK, CallsTypeOK
<1> USE <1>0 DEF Enter, Goto, Result, StoreAt
<1>1. ASSUME pc'[t] \in {"idle", "accept", "connect", "recvTimeo", "recv", "resolve", "loadMode",
                         "loadTimeo", "clear", "done"},
             pc'[t] = "loadTimeo" => req'[t].op \notin NewSocket,
             pc'[t] = "done" => req'[t].op \notin NewSocket \/ ~(io'[t] >= 0)
      PROVE  WorkOf(t)'
  BY <1>1, NoWork DEF Born
<1>2. CASE Create(t)
  <2>1. PICK o \in HostCreate :
          /\ io' = [io EXCEPT ![t] = o.ret]
          /\ pc' = [pc EXCEPT ![t] = IF o.ret >= 0 THEN "loadMode" ELSE "done"]
    BY <1>2 DEF Create
  <2>2. QED  BY <1>1, <2>1
<1>3. CASE GetHostByName(t)  BY <1>1, <1>3 DEF GetHostByName
<1>4. ASSUME NEW s \in SockArgs, Bind(t, s) \/ Listen(t, s) PROVE WorkOf(t)'
  <2>1. pc'[t] = "idle"  BY <1>4 DEF Bind, Listen, MayCall, local
  <2>2. QED  BY <1>1, <2>1
<1>5. ASSUME NEW s \in SockArgs, NEW op \in {"Accept", "Connect", "Recv"}, NEW v,
             NEW next \in {"accept", "connect", "recvTimeo"}, CallWithMode(t, op, s, v, next)
      PROVE  WorkOf(t)'
  <2>1. CASE s \in Socks
    <3>1. pc'[t] \in {"recv", "accept", "connect", "recvTimeo"}
      BY <1>5, <2>1 DEF CallWithMode
    <3>2. QED  BY <1>1, <3>1
  <2>2. CASE s \notin Socks
    <3>1. pc'[t] = "done" /\ io'[t] = EINVAL /\ ~(EINVAL >= 0)
      BY <1>5, <2>2, CodesType DEF CallWithMode
    <3>2. QED  BY <1>1, <3>1
  <2>3. QED  BY <2>1, <2>2
<1>6. ASSUME NEW s \in SockArgs, NEW op \in Setters, NEW v, NEW next \in {"loadMode", "loadTimeo"},
             SetOpt(t, op, s, v, next)
      PROVE  WorkOf(t)'
  <2>1. req'[t].op \notin NewSocket /\ pc'[t] \in {"loadMode", "loadTimeo", "done"}
    BY <1>6 DEF SetOpt, Setters, NewSocket
  <2>2. QED  BY <1>1, <2>1
<1>7. ASSUME NEW s \in SockArgs, GetTimeo(t, s) PROVE WorkOf(t)'
  <2>1. req'[t].op \notin NewSocket /\ pc'[t] = "done"  BY <1>7 DEF GetTimeo, NewSocket
  <2>2. QED  BY <1>1, <2>1
<1>8. ASSUME NEW s \in SockArgs, Close(t, s) PROVE WorkOf(t)'
  <2>1. req'[t].op \notin NewSocket /\ pc'[t] \in {"clear", "done"}  BY <1>8 DEF Close, NewSocket
  <2>2. QED  BY <1>1, <2>1
<1>9. QED
  BY <1>2, <1>3, <1>4, <1>5, <1>6, <1>7, <1>8
     DEF Call, Accept, Connect, Recv, SetMode, SetTimeo, Setters

LEMMA PollWork ==
  ASSUME TypeOK, Control, NEW t \in Threads,
         \/ AcceptHost(t) \/ ConnectHost(t) \/ RecvHost(t) \/ GetHostByNameHost(t) \/ RecvTimeo(t)
         \/ Wake(t) \/ WakeRecv(t) \/ ClearAttr(t) \/ Return(t)
  PROVE  WorkOf(t)'
<1>0. pc \in [Threads -> Pcs] /\ ControlOf(t)  BY DEF TypeOK, CallsTypeOK, Control
<1>1. CASE AcceptHost(t)
  <2>1. Hands(t)  BY <1>1, HandsOut
  <2>2. QED  BY <2>1, NoWork DEF Hands, NewNumber, StoreAt
<1>2. CASE Return(t)  BY <1>0, <1>2, NoWork DEF Return, Goto, StoreAt
<1>3. CASE ClearAttr(t)
  BY <1>0, <1>3, NoWork DEF ClearAttr, Goto, StoreAt, ControlOf, Born, NewSocket
<1>4. CASE \/ ConnectHost(t) \/ RecvHost(t) \/ GetHostByNameHost(t) \/ RecvTimeo(t)
           \/ Wake(t) \/ WakeRecv(t)
  <2>1. ~Born(t)
    BY <1>4 DEF ConnectHost, RecvHost, GetHostByNameHost, RecvTimeo, Wake, WakeRecv, Born, Storing
  <2>2. ~Born(t)'  BY <1>4, <2>1, CalmStep DEF Calm
  <2>3. pc'[t] \in {"sleep", "done", "recv", "accept", "connect", "resolve"}
    <3>1. CASE Wake(t)
      <4>1. req[t].op \in {"Accept", "Connect", "GetHostByName"}
        BY <1>0, <3>1 DEF Wake, ControlOf
      <4>2. WakeAs[req[t].op] \in {"accept", "connect", "resolve"}  BY <4>1 DEF WakeAs
      <4>3. QED  BY <1>0, <3>1, <4>2 DEF Wake, Goto
    <3>2. CASE ~Wake(t)
      BY <1>0, <1>4, <3>2
         DEF ConnectHost, RecvHost, GetHostByNameHost, RecvTimeo, WakeRecv, Goto
    <3>3. QED  BY <3>1, <3>2
  <2>4. QED  BY <2>2, <2>3, NoWork DEF StoreAt
<1>5. QED  BY <1>1, <1>2, <1>3, <1>4

(* A sound new socket comes from a sound listening socket.                 *)
LEMMA SoundOrigin ==
  ASSUME TypeOK, Control, Serial, KeptInv, NEW t \in Threads, pc[t] \in Storing,
         Target(t) \notin tainted, req[t].op = "Accept"
  PROVE  req[t].sock \in Sound /\ req[t].sock \in Socks
<1>1. Ownership /\ AskOf(t)  BY DEF KeptInv
<1>2. Born(t) /\ Target(t) = io[t]  BY <1>1, WorkTarget DEF Works, NewSocket
<1>3. req[t].sock \notin tainted  BY <1>1, <1>2 DEF AskOf
<1>4. req[t].sock \in held  BY <1>1 DEF Ownership, UsesHeld, Serial, Users, Setters
<1>5. QED  BY <1>3, <1>4 DEF Sound, TypeOK, CallsTypeOK

LEMMA LoadModeWork ==
  ASSUME TypeOK, Control, Serial, KeptInv, NEW t \in Threads, LoadMode(t) PROVE WorkOf(t)'
<1> DEFINE T == Target(t)
<1>0. /\ pc \in [Threads -> Pcs] /\ word \in [Threads -> Attr] /\ attr \in [Socks -> Attr]
      /\ AskOf(t) /\ ControlOf(t)
  BY DEF TypeOK, CallsTypeOK, KeptInv, Control
<1>1. /\ pc[t] = "loadMode" /\ pc'[t] = "storeMode" /\ T' = T
      /\ attr' = attr /\ tainted' = tainted /\ ask' = ask
      /\ word' = [word EXCEPT ![t] = [attr[T] EXCEPT !.ionbio = NewMode(t)]]
  BY <1>0 DEF LoadMode, Goto, ghost, owner, Target
<1>2. T \in Socks  BY <1>1, TargetInTable DEF Storing
<1>3. word'[t].ionbio = NewMode(t) /\ word'[t].to_msec = attr[T].to_msec
  BY <1>0, <1>1, <1>2 DEF Attr
<1>4. T \notin tainted => NewMode(t) = ask[t].ionbio
  <2>1. req[t].op \in {"Create", "Accept", "SetMode"}  BY <1>0, <1>1 DEF ControlOf
  <2>2. CASE req[t].op = "Create"   BY <1>0, <2>2 DEF NewMode, AskOf, NewAttr
  <2>3. CASE req[t].op = "Accept"
    <3>1. T \notin tainted => req[t].sock \notin tainted
      BY <1>1, <2>3, SoundOrigin DEF Sound, Storing
    <3>2. QED  BY <1>0, <2>3, <3>1 DEF NewMode, AskOf
  <2>4. CASE req[t].op = "SetMode"  BY <1>0, <2>4 DEF NewMode, AskOf
  <2>5. QED  BY <2>1, <2>2, <2>3, <2>4
<1>5. QED  BY <1>1, <1>3, <1>4 DEF WorkOf

LEMMA StoreModeWork ==
  ASSUME TypeOK, Control, Serial, KeptInv, NEW t \in Threads, StoreMode(t) PROVE WorkOf(t)'
<1> DEFINE T == Target(t)
<1>0. pc \in [Threads -> Pcs] /\ WorkOf(t)  BY DEF TypeOK, CallsTypeOK, KeptInv
<1>1. /\ pc'[t] = IF req[t].op = "SetMode" THEN "done" ELSE "loadTimeo"
      /\ T' = T /\ tainted' = tainted /\ req' = req
  BY <1>0 DEF StoreMode, Goto, owner, Target
<1>2. T \notin tainted => attr'[T].ionbio = opt'[T].ionbio  BY <1>0, EntryStored
<1>3. pc'[t] = "done" => ~Born(t)'  BY <1>1 DEF Born, NewSocket
<1>4. QED  BY <1>1, <1>2, <1>3 DEF WorkOf

LEMMA LoadTimeoWork ==
  ASSUME TypeOK, Control, Serial, KeptInv, NEW t \in Threads, LoadTimeo(t) PROVE WorkOf(t)'
<1> DEFINE T == Target(t)
<1>0. /\ pc \in [Threads -> Pcs] /\ word \in [Threads -> Attr] /\ attr \in [Socks -> Attr]
      /\ ask \in [Threads -> Options] /\ AskOf(t) /\ ControlOf(t) /\ WorkOf(t)
  BY DEF TypeOK, CallsTypeOK, OptionsTypeOK, KeptInv, Control
<1>1. /\ pc[t] = "loadTimeo" /\ pc'[t] = "storeTimeo" /\ T' = T
      /\ attr' = attr /\ opt' = opt /\ tainted' = tainted /\ req' = req
      /\ word' = [word EXCEPT ![t] = [attr[T] EXCEPT !.to_msec = NewTimeo(t)]]
      /\ ask' = IF req[t].op = "Accept"
                THEN [ask EXCEPT ![t].to_msec = opt[req[t].sock].to_msec] ELSE ask
  BY <1>0 DEF LoadTimeo, Goto, owner, Target
<1>2. T \in Socks  BY <1>1, TargetInTable DEF Storing
<1>3. word'[t].to_msec = NewTimeo(t) /\ word'[t].ionbio = attr[T].ionbio
  BY <1>0, <1>1, <1>2 DEF Attr
<1>4. T \notin tainted => NewTimeo(t) = ask'[t].to_msec
  <2>1. req[t].op \in {"Create", "Accept", "SetTimeo"}  BY <1>0, <1>1 DEF ControlOf
  <2>2. CASE req[t].op = "Create"   BY <1>0, <1>1, <2>2 DEF NewTimeo, AskOf, NewAttr
  <2>3. CASE req[t].op = "Accept"
    <3>1. NewTimeo(t) = attr[req[t].sock].to_msec  BY <2>3 DEF NewTimeo
    <3>2. ask'[t].to_msec = opt[req[t].sock].to_msec  BY <1>0, <1>1, <2>3 DEF Options
    <3>3. T \notin tainted => req[t].sock \in Sound  BY <1>1, <2>3, SoundOrigin DEF Storing
    <3>4. QED  BY <3>1, <3>2, <3>3 DEF KeptInv, OptionsKept
  <2>4. CASE req[t].op = "SetTimeo"
    <3>1. req[t].val \in RcvTimeouts /\ ask'[t].to_msec = req[t].val
      BY <1>0, <1>1, <2>4 DEF AskOf
    <3>2. req[t].val \in Nat /\ req[t].val < TimeoMod /\ TimeoMod \in Nat
      BY <3>1, TimeoAssumption DEF Serial
    <3>3. req[t].val % TimeoMod = req[t].val  BY <3>2
    <3>4. QED  BY <2>4, <3>1, <3>3 DEF NewTimeo, InField
  <2>5. QED  BY <2>1, <2>2, <2>3, <2>4
<1>5. QED  BY <1>0, <1>1, <1>3, <1>4 DEF WorkOf

LEMMA StoreTimeoWork ==
  ASSUME TypeOK, Control, Serial, KeptInv, NEW t \in Threads, StoreTimeo(t) PROVE WorkOf(t)'
<1> DEFINE T == Target(t)
<1>0. pc \in [Threads -> Pcs] /\ WorkOf(t)  BY DEF TypeOK, CallsTypeOK, KeptInv
<1>1. /\ pc[t] = "storeTimeo" /\ pc'[t] = "done" /\ T' = T /\ tainted' = tainted
      /\ req' = req /\ io' = io
  BY <1>0 DEF StoreTimeo, Goto, owner, Target
<1>2. ASSUME T \notin tainted, Born(t)' PROVE attr'[T] = opt'[T]
  <2>1. req[t].op \in NewSocket  BY <1>1, <1>2 DEF Born
  <2>2. attr[T].ionbio = opt[T].ionbio  BY <1>0, <1>1, <1>2, <2>1 DEF WorkOf
  <2>3. /\ attr'[T] \in Attr /\ opt'[T] \in Options
        /\ attr'[T].to_msec = opt'[T].to_msec /\ attr'[T].ionbio = opt'[T].ionbio
    BY <1>0, <1>2, <2>2, EntryStored
  <2>4. QED  BY <2>3, SameOptions
<1>3. QED  BY <1>1, <1>2 DEF WorkOf

LEMMA KeptInit == Init => KeptInv
BY DEF Init, HostInit, Fresh, KeptInv, Ownership, HeldUsed, BornUsed, BornApart, UsesHeld,
       SettersApart, ClearsOwn, Born, Storing, OptionsKept, Sound, AskOf, WorkOf, NoRequest,
       Users, Setters

LEMMA KeptStep ==
  ASSUME TypeOK, Control, Serial, KeptInv, [Next]_vars PROVE KeptInv'
<1>1. ASSUME NEW t \in Threads, Call(t) \/ Step(t) PROVE KeptInv'
  <2>1. Ownership' /\ OptionsKept'  BY <1>1, OwnershipStep, OptionsStep DEF KeptInv
  <2>2. \A u \in Threads \ {t} : AskOf(u)' /\ WorkOf(u)'  BY <1>1, OthersWork
  <2>3. AskOf(t)'  BY <1>1, CallAsks, StepAsks
  <2>4. WorkOf(t)'
    BY <1>1, CallWork, PollWork, LoadModeWork, StoreModeWork, LoadTimeoWork, StoreTimeoWork
       DEF Step
  <2>5. QED  BY <2>1, <2>2, <2>3, <2>4 DEF KeptInv
<1>2. ASSUME UNCHANGED <<attr, local, ghost>>, Kept(host') PROVE KeptInv'
  <2> USE <1>2 DEF local, ghost, owner, Born
  <2>1. HeldUsed'  BY DEF KeptInv, Ownership, HeldUsed, Kept, TypeOK, CallsTypeOK
  <2>2. BornUsed'
    <3>1. \A t \in Threads : Born(t) => io[t] \in Socks  BY BornInTable
    <3>2. QED  BY <3>1 DEF KeptInv, Ownership, BornUsed, Kept
  <2>3. BornApart' /\ UsesHeld' /\ SettersApart' /\ ClearsOwn'
    BY DEF KeptInv, Ownership, BornApart, UsesHeld, SettersApart, ClearsOwn, Taken
  <2>4. OptionsKept'  BY DEF KeptInv, OptionsKept, Sound
  <2>5. \A t \in Threads : AskOf(t)' /\ WorkOf(t)'
    BY DEF KeptInv, AskOf, WorkOf, Target
  <2>6. QED  BY <2>1, <2>2, <2>3, <2>4, <2>5 DEF KeptInv, Ownership
<1>3. CASE Network
  BY <1>2, <1>3, HostStepKept DEF Network, TypeOK
<1>4. CASE UNCHANGED vars
  BY <1>2, <1>4 DEF vars, Kept
<1>5. QED  BY <1>1, <1>3, <1>4 DEF Next

(* For an application that passes only sockets it holds, closes none that  *)
(* an Accept or SetOpt uses and sets the options of one socket in turn, the*)
(* table gives every sound socket the options that were asked for it: an   *)
(* Accept that copies them, a SetOpt that stores a field of the word and a *)
(* Close that still clears the entry of a reused number work on different  *)
(* entries, or the entry is tainted.                                       *)
THEOREM OptionsAreKept == ASSUME Serial PROVE Spec => []OptionsKept
<1>1. Init => IInv /\ KeptInv
  BY InitType, InitControl, InitLoopGain, KeptInit DEF IInv
<1>2. IInv /\ KeptInv /\ [Next]_vars => (IInv /\ KeptInv)'
  <2> SUFFICES ASSUME IInv, KeptInv, [Next]_vars PROVE IInv' /\ KeptInv'
    OBVIOUS
  <2>1. IInv'  BY TypeControlStep, LoopGainStep DEF IInv
  <2>2. KeptInv'  BY KeptStep DEF IInv
  <2>3. QED  BY <2>1, <2>2
<1>3. KeptInv => OptionsKept  BY DEF KeptInv
<1>4. QED  BY <1>1, <1>2, <1>3, PTL DEF Spec

-----------------------------------------------------------------------------
(***************************************************************************)
(* The uninitialised result.  The application also closes no socket under  *)
(* a Recv and sets no timeout 0, and the default timeout is not 0.         *)
(***************************************************************************)
Timed == Serial /\ {"Close", "Recv"} \in Apart /\ DefaultTimeo # 0 /\ 0 \notin RcvTimeouts

(* Every sound socket, and every sound entry written so far, is to have a  *)
(* timeout, and a receive on such a socket has a result when it is done.   *)
HeldTimed == \A s \in Sound : opt[s].to_msec # 0

AskedTimed(t) == pc[t] = "storeTimeo" /\ Target(t) \notin tainted => ask[t].to_msec # 0
BornTimed(t)  == pc[t] = "done" /\ Born(t) /\ io[t] \notin tainted => opt[io[t]].to_msec # 0
RecvTimed(t)  == req[t].sock \notin tainted => RecvAsked(t)

TimedInv == HeldTimed /\ \A t \in Threads : AskedTimed(t) /\ BornTimed(t) /\ RecvTimed(t)

LEMMA RecvHeld ==
  ASSUME TypeOK, Timed, Ownership, NEW t \in Threads, req[t].op = "Recv"
  PROVE  req[t].sock \in held /\ req[t].sock \in Socks
BY DEF Timed, Ownership, UsesHeld, Users, TypeOK, CallsTypeOK

LEMMA OthersTimed ==
  ASSUME TypeOK, Control, Timed, KeptInv, TimedInv, NEW t \in Threads, Call(t) \/ Step(t),
         NEW u \in Threads \ {t}
  PROVE  AskedTimed(u)' /\ BornTimed(u)' /\ RecvTimed(u)'
<1>0. Ownership /\ Serial /\ AskedTimed(u) /\ BornTimed(u) /\ RecvTimed(u)
  BY DEF KeptInv, TimedInv, Timed
<1>1. Same(u)  BY OthersUnchanged
<1>2. (Born(u)' <=> Born(u)) /\ Target(u)' = Target(u)  BY <1>1, BornSame
<1>3. ASSUME Works(u), Target(u) \notin tainted'
      PROVE  opt'[Target(u)] = opt[Target(u)] /\ Target(u) \notin tainted
  <2>1. Target(u) \in Socks /\ Taken(Target(u))  BY <1>0, <1>3, WorkTarget
  <2>2. pc[t] \in StoreAt => Target(u) # Target(t)
    BY <1>0, <1>3, TargetsApart DEF Works, StoreAt, Storing
  <2>3. ~Closes(t, Target(u))
    <3>1. CASE req[u].op \in NewSocket  BY <1>0, <1>3, <3>1, WorkTarget DEF Closes
    <3>2. CASE req[u].op \in Setters
      <4>1. Target(u) = req[u].sock  BY <1>0, <1>3, <3>2, WorkTarget
      <4>2. QED  BY <1>0, <3>2, <4>1 DEF Closes, Serial, Users, Setters
    <3>3. QED  BY <1>0, <1>3, <3>1, <3>2, WorkTarget
  <2>4. QED  BY <1>0, <1>3, <2>1, <2>2, <2>3, EntryStays
<1>4. AskedTimed(u)'
  BY <1>0, <1>1, <1>2, <1>3 DEF AskedTimed, Works, Storing, Same
<1>5. BornTimed(u)'
  <2>1. Born(u) => Target(u) = io[u]  BY DEF Born, NewSocket, Target
  <2>2. QED  BY <1>0, <1>1, <1>2, <1>3, <2>1 DEF BornTimed, Works, Same
<1>6. RecvTimed(u)'
  <2>1. ASSUME req[u].op = "Recv" PROVE req[u].sock \in tainted' <=> req[u].sock \in tainted
    <3>1. req[u].sock \in held /\ req[u].sock \in Socks  BY <1>0, <2>1, RecvHeld
    <3>2. ~Closes(t, req[u].sock)  BY <2>1 DEF Closes, Timed, Users
    <3>3. QED  BY <1>0, <3>1, <3>2, TaintStays DEF Taken
  <2>2. QED  BY <1>0, <1>1, <2>1 DEF RecvTimed, RecvAsked, Same
<1>7. QED  BY <1>4, <1>5, <1>6

LEMMA HeldTimedStep ==
  ASSUME TypeOK, Control, Serial, KeptInv, TimedInv, NEW t \in Threads, Call(t) \/ Step(t)
  PROVE  HeldTimed'
<1> SUFFICES ASSUME NEW s \in Sound' PROVE opt'[s].to_msec # 0
  BY DEF HeldTimed
<1>0. /\ Ownership /\ WorkOf(t) /\ held \subseteq Socks /\ AskedTimed(t) /\ BornTimed(t)
      /\ opt \in [Socks -> Options]
  BY DEF KeptInv, TypeOK, CallsTypeOK, OptionsTypeOK, TimedInv
<1>1. s \in held' /\ s \notin tainted' /\ ~Closes(t, s)  BY DEF Sound, Closes
<1>2. s \in held \/ (Born(t) /\ pc[t] = "done" /\ io[t] = s)
  <2>1. CASE Return(t)  BY <1>1, <2>1 DEF Return, Born, NewSocket
  <2>2. CASE ~Return(t)
    BY <1>1, <2>2, StepKinds DEF Calm, Hands, Stores, ClearAttr, ghost, owner, Closes, Serial
  <2>3. QED  BY <2>1, <2>2
<1>3. s \in Socks /\ Taken(s)  BY <1>0, <1>2, BornInTable DEF Taken
<1>4. CASE ~(pc[t] \in StoreAt /\ s = Target(t))
  <2>1. opt'[s] = opt[s] /\ s \notin tainted  BY <1>1, <1>3, <1>4, EntryStays
  <2>2. QED  BY <1>0, <1>2, <2>1 DEF TimedInv, HeldTimed, Sound, BornTimed
<1>5. CASE pc[t] \in StoreAt /\ s = Target(t)
  <2>1. StoreMode(t) \/ StoreTimeo(t)  BY <1>5, StoresOnly
  <2>2. tainted' = tainted  BY <2>1 DEF StoreMode, StoreTimeo, owner
  <2>3. s \in held /\ s \notin tainted  BY <1>1, <1>2, <1>5, <2>2 DEF StoreAt
  <2>4. opt[s].to_msec # 0  BY <2>3 DEF TimedInv, HeldTimed, Sound
  <2>5. CASE StoreMode(t)
    <3>1. opt'[s].to_msec = opt[s].to_msec  BY <1>0, <1>5, <2>3, <2>5, EntryStored
    <3>2. QED  BY <2>4, <3>1
  <2>6. CASE StoreTimeo(t)
    <3>1. opt'[s].to_msec = ask[t].to_msec
      BY <1>0, <1>3, <1>5, <2>6 DEF StoreTimeo, Options
    <3>2. ask[t].to_msec # 0  BY <1>0, <1>5, <2>3, <2>6 DEF StoreTimeo, AskedTimed
    <3>3. QED  BY <3>1, <3>2
  <2>7. QED  BY <2>1, <2>5, <2>6
<1>6. QED  BY <1>4, <1>5

LEMMA AskedTimedStep ==
  ASSUME TypeOK, Control, Timed, KeptInv, TimedInv, NEW t \in Threads, Call(t) \/ Step(t)
  PROVE  AskedTimed(t)'
<1> SUFFICES ASSUME pc'[t] = "storeTimeo", Target(t)' \notin tainted' PROVE ask'[t].to_msec # 0
  BY DEF AskedTimed
<1>0. /\ pc \in [Threads -> Pcs] /\ ask \in [Threads -> Options] /\ AskOf(t) /\ ControlOf(t)
      /\ TimeoMod \in Nat
  BY TimeoAssumption DEF TypeOK, CallsTypeOK, OptionsTypeOK, KeptInv, Control
<1>1. LoadTimeo(t)
  <2>1. CASE Call(t)
    <3>1. pc'[t] # "storeTimeo"
      BY <1>0, <2>1
         DEF Call, Create, GetHostByName, Bind, Listen, Accept, Connect, Recv, CallWithMode,
             SetMode, SetTimeo, SetOpt, GetTimeo, Close, MayCall, Goto, local
    <3>2. QED  BY <3>1
  <2>2. CASE Step(t)
    <3>1. ~Wake(t)
      <4>1. Wake(t) => req[t].op \in {"Accept", "Connect", "GetHostByName"}
        BY <1>0 DEF Wake, ControlOf
      <4>2. Wake(t) => WakeAs[req[t].op] \in {"accept", "connect", "resolve"}
        BY <4>1 DEF WakeAs
      <4>3. QED  BY <1>0, <4>2 DEF Wake, Goto
    <3>2. QED
      BY <1>0, <2>2, <3>1
         DEF Step, AcceptHost, ConnectHost, RecvHost, GetHostByNameHost, RecvTimeo, WakeRecv,
             LoadMode, StoreMode, StoreTimeo, ClearAttr, Return, Goto
  <2>3. QED  BY <2>1, <2>2
<1>2. /\ pc[t] = "loadTimeo" /\ Target(t)' = Target(t) /\ tainted' = tainted
      /\ ask' = IF req[t].op = "Accept"
                THEN [ask EXCEPT ![t].to_msec = opt[req[t].sock].to_msec] ELSE ask
  BY <1>1 DEF LoadTimeo, owner, Target
<1>3. req[t].op \in {"Create", "Accept", "SetTimeo"}  BY <1>0, <1>2 DEF ControlOf
<1>4. CASE req[t].op = "Create"    BY <1>0, <1>2, <1>4 DEF AskOf, Timed
<1>5. CASE req[t].op = "SetTimeo"  BY <1>0, <1>2, <1>5 DEF AskOf, Timed
<1>6. CASE req[t].op = "Accept"
  <2>1. req[t].sock \in Sound  BY <1>2, <1>6, SoundOrigin DEF Storing, Timed
  <2>2. ask'[t].to_msec = opt[req[t].sock].to_msec  BY <1>0, <1>2, <1>6 DEF Options
  <2>3. QED  BY <2>1, <2>2 DEF TimedInv, HeldTimed
<1>7. QED  BY <1>3, <1>4, <1>5, <1>6

(* Only the store of the timeout ends a call with a new socket.            *)
LEMMA BornDone ==
  ASSUME TypeOK, Control, Disciplined, NEW t \in Threads, Call(t) \/ Step(t),
         pc'[t] = "done", Born(t)'
  PROVE  StoreTimeo(t)
<1>0. pc \in [Threads -> Pcs]  BY DEF TypeOK, CallsTypeOK
<1>1. ~Hands(t)  BY DEF Hands, NewNumber
<1>2. ~Return(t) /\ ~\E s \in Socks : Closes(t, s)  BY <1>0 DEF Return, Goto, Closes
<1>3. ~ClearAttr(t)  BY DEF ClearAttr, Control, ControlOf, Born, NewSocket
<1>4. CASE Stores(t)
  <2>1. StoreMode(t) \/ StoreTimeo(t)  BY <1>4, StoresOnly DEF Stores
  <2>2. ~StoreMode(t)  BY <1>0 DEF StoreMode, Goto, Born, NewSocket
  <2>3. QED  BY <2>1, <2>2
<1>5. CASE Calm(t)
  <2>1. Born(t)  BY <1>5 DEF Calm
  <2>2. pc[t] \in Storing \cup {"done"}  BY <2>1 DEF Born
  <2>3. Step(t)
    BY <2>2 DEF Storing, Call, Create, GetHostByName, Bind, Listen, Accept, Connect, Recv,
                CallWithMode, SetMode, SetTimeo, SetOpt, GetTimeo, Close, MayCall
  <2>4. LoadMode(t) \/ StoreMode(t) \/ LoadTimeo(t) \/ StoreTimeo(t)
    BY <1>2, <2>2, <2>3
       DEF Storing, Step, AcceptHost, ConnectHost, RecvHost, GetHostByNameHost, RecvTimeo, Wake,
           WakeRecv, ClearAttr
  <2>5. ~LoadMode(t) /\ ~LoadTimeo(t)  BY <1>0 DEF LoadMode, LoadTimeo, Goto
  <2>6. ~StoreMode(t)  BY <1>0 DEF StoreMode, Goto, Born, NewSocket
  <2>7. QED  BY <2>4, <2>5, <2>6
<1>6. QED  BY <1>1, <1>2, <1>3, <1>4, <1>5, StepKinds

LEMMA BornTimedStep ==
  ASSUME TypeOK, Control, Serial, KeptInv, TimedInv, NEW t \in Threads, Call(t) \/ Step(t)
  PROVE  BornTimed(t)'
<1> SUFFICES ASSUME pc'[t] = "done", Born(t)', io'[t] \notin tainted'
             PROVE  opt'[io'[t]].to_msec # 0
  BY DEF BornTimed
<1>0. /\ opt \in [Socks -> Options] /\ AskedTimed(t)
  BY DEF TypeOK, OptionsTypeOK, TimedInv
<1>1. StoreTimeo(t)  BY BornDone DEF Serial
<1>2. /\ pc[t] = "storeTimeo" /\ io' = io /\ req' = req /\ tainted' = tainted
      /\ opt' = [opt EXCEPT ![Target(t)].to_msec = ask[t].to_msec]
  BY <1>1 DEF StoreTimeo, owner
<1>3. Target(t) = io[t]  BY <1>2 DEF Born, NewSocket, Target
<1>4. Target(t) \in Socks  BY <1>2, TargetInTable DEF Storing
<1>5. ask[t].to_msec # 0  BY <1>0, <1>2, <1>3 DEF AskedTimed
<1>6. QED  BY <1>0, <1>2, <1>3, <1>4, <1>5 DEF Options

LEMMA SomeDelays ==
  ASSUME NEW m \in Nat, m # 0 PROVE Delays(m) # 0
BY DEF Delays

LEMMA RecvTimedStep ==
  ASSUME IInv, Timed, KeptInv, TimedInv, NEW t \in Threads, Call(t) \/ Step(t)
  PROVE  RecvTimed(t)'
<1> SUFFICES ASSUME pc'[t] = "done", req'[t].op = "Recv", req'[t].sock \notin tainted'
             PROVE  io'[t] # Uninit
  BY DEF RecvTimed, RecvAsked
<1>0. /\ TypeOK /\ HostTypeOK /\ LoopCountOf(t) /\ ControlOf(t) /\ Ownership
      /\ pc \in [Threads -> Pcs] /\ io \in [Threads -> Int] /\ req \in [Threads -> Request]
      /\ attr \in [Socks -> Attr] /\ delay \in [Threads -> Nat] /\ held \subseteq Socks
  BY DEF IInv, TypeOK, CallsTypeOK, LoopCount, Control, KeptInv
<1> USE DEF Goto, Result, Enter
<1>1. CASE Call(t)
  <2>1. ASSUME NEW s \in SockArgs, NEW len, Recv(t, s, len) PROVE FALSE
    <3>1. s \in Socks  BY <1>0, <2>1 DEF Recv, CallWithMode, MayPass, Timed, Serial
    <3>2. pc'[t] # "done"  BY <1>0, <2>1, <3>1 DEF Recv, CallWithMode
    <3>3. QED  BY <3>2
  <2>2. ~Create(t) /\ ~GetHostByName(t)  BY <1>0 DEF Create, GetHostByName
  <2>3. \A s : ~Bind(t, s) /\ ~Listen(t, s)  BY DEF Bind, Listen, MayCall, local
  <2>4. \A s : ~Accept(t, s) /\ ~Connect(t, s)  BY <1>0 DEF Accept, Connect, CallWithMode
  <2>5. \A s, v : ~SetMode(t, s, v) /\ ~SetTimeo(t, s, v)  BY <1>0 DEF SetMode, SetTimeo, SetOpt
  <2>6. \A s : ~GetTimeo(t, s) /\ ~Close(t, s)  BY <1>0 DEF GetTimeo, Close
  <2>7. QED  BY <1>1, <2>1, <2>2, <2>3, <2>4, <2>5, <2>6 DEF Call
<1>2. CASE RecvHost(t)
  <2>1. PICK o \in HostRecv(req[t].sock, req[t].val) :
          io' = [io EXCEPT ![t] = IF req[t].nbio THEN o.ret ELSE NoData(o.ret, req[t].val)]
    BY <1>2 DEF RecvHost
  <2>2. o.ret # Uninit  BY <1>0, RecvKept
  <2>3. NoData(o.ret, req[t].val) # Uninit  BY <2>2, CodesType DEF NoData
  <2>4. QED  BY <1>0, <2>1, <2>2, <2>3
<1>3. CASE RecvTimeo(t)
  <2>1. /\ req' = req /\ tainted' = tainted
        /\ delay'[t] = Delays(attr[req[t].sock].to_msec) /\ delay'[t] = 0
    BY <1>0, <1>3 DEF RecvTimeo, owner
  <2>2. req[t].sock \in Sound /\ req[t].sock \in Socks
    BY <1>0, <2>1, RecvHeld DEF Sound
  <2>3. attr[req[t].sock].to_msec # 0
    BY <2>2 DEF TimedInv, HeldTimed, KeptInv, OptionsKept
  <2>4. attr[req[t].sock].to_msec \in Nat  BY <1>0, <2>2, TimeoAssumption DEF Attr
  <2>5. QED  BY <2>1, <2>3, <2>4, SomeDelays
<1>4. CASE WakeRecv(t)
  <2>1. pc[t] = "sleep" /\ req[t].op = "Recv" /\ io' = io  BY <1>4 DEF WakeRecv
  <2>2. Blocking(t)  BY <1>0, <2>1 DEF ControlOf, Blocking
  <2>3. QED  BY <1>0, <2>1, <2>2, CodesType DEF LoopCountOf
<1>5. CASE Step(t) /\ ~RecvHost(t) /\ ~RecvTimeo(t) /\ ~WakeRecv(t)
  <2>1. ~Return(t)  BY <1>0 DEF Return
  <2>2. req' = req
    BY <1>5, <2>1 DEF Step, AcceptHost, ConnectHost, GetHostByNameHost, Wake, LoadMode,
                      StoreMode, LoadTimeo, StoreTimeo, ClearAttr
  <2>3. QED
    BY <1>0, <1>5, <2>1, <2>2
       DEF ControlOf, Step, AcceptHost, ConnectHost, GetHostByNameHost, Wake, LoadMode,
           StoreMode, LoadTimeo, StoreTimeo, ClearAttr
<1>6. QED  BY <1>1, <1>2, <1>3, <1>4, <1>5

LEMMA TimedInit == Init => TimedInv
BY DEF Init, TimedInv, HeldTimed, Sound, AskedTimed, BornTimed, RecvTimed, RecvAsked, NoRequest

LEMMA TimedStep ==
  ASSUME IInv, Timed, KeptInv, TimedInv, [Next]_vars PROVE TimedInv'
<1>0. TypeOK /\ Control /\ Serial  BY DEF IInv, Timed
<1>1. ASSUME NEW t \in Threads, Call(t) \/ Step(t) PROVE TimedInv'
  <2>1. HeldTimed'  BY <1>0, <1>1, HeldTimedStep
  <2>2. AskedTimed(t)' /\ BornTimed(t)' /\ RecvTimed(t)'
    BY <1>0, <1>1, AskedTimedStep, BornTimedStep, RecvTimedStep
  <2>3. \A u \in Threads \ {t} : AskedTimed(u)' /\ BornTimed(u)' /\ RecvTimed(u)'
    BY <1>0, <1>1, OthersTimed
  <2>4. QED  BY <2>1, <2>2, <2>3 DEF TimedInv
<1>2. CASE UNCHANGED <<attr, local, ghost>>
  BY <1>2 DEF local, ghost, owner, TimedInv, HeldTimed, Sound, AskedTimed, BornTimed, RecvTimed,
              RecvAsked, Born, Target
<1>3. QED  BY <1>1, <1>2 DEF Next, Network, vars

(* No Recv or RecvFrom on a sound socket returns the uninitialised ret_val:*)
(* the socket has a timeout that is not 0, so the loop makes a poll.       *)
(* Create and Accept give it one before they return, Close takes it away   *)
(* only from a socket no call uses, and no store of the mode undoes it.    *)
THEOREM RecvHasAsked == ASSUME Timed PROVE Spec => []SoundRecvAsks
<1>1. Init => IInv /\ KeptInv /\ TimedInv
  BY InitType, InitControl, InitLoopGain, KeptInit, TimedInit DEF IInv
<1>2. IInv /\ KeptInv /\ TimedInv /\ [Next]_vars => (IInv /\ KeptInv /\ TimedInv)'
  <2> SUFFICES ASSUME IInv, KeptInv, TimedInv, [Next]_vars PROVE IInv' /\ KeptInv' /\ TimedInv'
    OBVIOUS
  <2>1. IInv'  BY TypeControlStep, LoopGainStep DEF IInv
  <2>2. KeptInv'  BY KeptStep DEF IInv, Timed
  <2>3. TimedInv'  BY TimedStep
  <2>4. QED  BY <2>1, <2>2, <2>3
<1>3. TimedInv => SoundRecvAsks  BY DEF TimedInv, RecvTimed, SoundRecvAsks
<1>4. QED  BY <1>1, <1>2, <1>3, PTL DEF Spec

=============================================================================
