------------------------ MODULE FreeRtosSocketProofs ------------------------
(***************************************************************************)
(* Theorems about the sockets of FreeRtosLayer, for any threads, heap,     *)
(* modes, timeouts and bounds: types, sockets that are accounted for,      *)
(* non-blocking sockets that do not wait and unlimited calls that do.      *)
(***************************************************************************)
EXTENDS FreeRtosProofs

-----------------------------------------------------------------------------
(***************************************************************************)
(* Addresses and the numbers the application sees.                         *)
(***************************************************************************)
LEMMA HeapRange == /\ AddrSpan \in Nat
                   /\ Heap \subseteq 1 .. AddrSpan - 2
                   /\ Timeouts \subseteq Nat
  BY FreeRtosAssumption

LEMMA RemainderOfLess == \A n \in Nat \ {0} : \A a \in 0 .. n - 1 : a % n = a
  OBVIOUS

(* A number that is not negative is the address itself.                    *)
LEMMA Numbers ==
  ASSUME NEW a \in Heap
  PROVE  /\ ToInt(a) \in Int
         /\ ToInt(a) >= 0 <=> a < AddrSpan \div 2
         /\ a < AddrSpan \div 2 => ToInt(a) = a
  BY HeapRange DEF ToInt

LEMMA Addresses == \A a \in Heap : ToSocket(a) = a
<1>. SUFFICES ASSUME NEW a \in Heap PROVE a % AddrSpan = a
  BY DEF ToSocket
<1>1. AddrSpan \in Nat \ {0} /\ a \in 0 .. AddrSpan - 1
  BY HeapRange
<1>. QED  BY <1>1, RemainderOfLess

-----------------------------------------------------------------------------
(***************************************************************************)
(* What the calls of the stack keep.  Most of them and the network keep    *)
(* which sockets there are and their block times.                          *)
(***************************************************************************)
Kept(s) == /\ s \in [Heap -> StackSock]
           /\ \A b \in Heap : /\ s[b].st = "free" <=> sockets[b].st = "free"
                              /\ s[b].rcv = sockets[b].rcv
                              /\ s[b].snd = sockets[b].snd

LEMMA KeptSame == StackTypeOK => Kept(sockets)
  BY DEF StackTypeOK, Kept

LEMMA KeptBecome ==
  ASSUME StackTypeOK, NEW a \in Allocated, NEW st \in States \ {"free"}
  PROVE  Kept(Become(a, st))
  BY DEF StackTypeOK, StackSock, Allocated, Kept, Become

LEMMA KeptTaken ==
  ASSUME StackTypeOK, NEW a \in Heap, sockets[a].rx > 0
  PROVE  Kept(Taken(a).sockets)
  BY DEF StackTypeOK, StackSock, Kept, Taken, Success

LEMMA KeptAtOnce ==
  ASSUME StackTypeOK, NEW a \in Allocated,
         NEW o \in StackBind(a) \cup StackListen(a) \cup StackConnect(a)
  PROVE  Kept(o.sockets)
<1>. USE KeptSame, KeptBecome
<1>1. CASE o \in StackBind(a)
  BY <1>1 DEF StackBind, Success, Failure, States
<1>2. CASE o \in StackListen(a)
  BY <1>2 DEF StackListen, Success, Failure, States
<1>3. CASE o \in StackConnect(a)
  BY <1>3 DEF StackConnect, Success, Failure, States
<1>. QED  BY <1>1, <1>2, <1>3

LEMMA KeptWaiting ==
  ASSUME StackTypeOK, NEW a \in Allocated, NEW w,
         NEW o \in StackConnected(a, w) \cup StackRecv(a, w) \cup StackRecvFrom(a, w)
                     \cup StackSend(a, w) \cup StackSendTo(a, w)
  PROVE  Kept(o.sockets)
<1>. USE KeptSame, KeptBecome DEF TimedOut
<1>1. CASE o \in StackConnected(a, w)
  BY <1>1 DEF StackConnected, Success, Failure
<1>2. CASE o \in StackRecv(a, w)
  <2>1. sockets[a].rx > 0 \/ sockets[a].rx = 0
    BY DEF StackTypeOK, StackSock, Allocated
  <2>2. (o = Taken(a) /\ sockets[a].rx > 0) \/ o.sockets = sockets
    BY <1>2, <2>1 DEF StackRecv, Success, Failure
  <2>. QED  BY <2>2, KeptTaken DEF Allocated
<1>3. CASE o \in StackRecvFrom(a, w)
  <2>1. (o = Taken(a) /\ sockets[a].rx > 0) \/ o.sockets = sockets
    BY <1>3 DEF StackRecvFrom, Failure
  <2>. QED  BY <2>1, KeptTaken DEF Allocated
<1>4. CASE o \in StackSend(a, w)
  BY <1>4 DEF StackSend, Success, Failure
<1>5. CASE o \in StackSendTo(a, w)
  BY <1>5 DEF StackSendTo, Success, States
<1>. QED  BY <1>1, <1>2, <1>3, <1>4, <1>5

LEMMA KeptNetwork == StackTypeOK /\ StackStep => Kept(sockets')
<1>. SUFFICES ASSUME StackTypeOK, StackStep PROVE Kept(sockets')
  OBVIOUS
<1>1. PICK a \in Heap : RequestArrives(a) \/ DataArrives(a) \/ ConnectEnds(a) \/ PeerCloses(a)
  BY DEF StackStep
<1>2. CASE RequestArrives(a)
  BY <1>2 DEF RequestArrives, StackTypeOK, StackSock, Kept
<1>3. CASE DataArrives(a)
  BY <1>3 DEF DataArrives, StackTypeOK, StackSock, Kept
<1>4. CASE ConnectEnds(a) \/ PeerCloses(a)
  BY <1>4, KeptBecome DEF ConnectEnds, PeerCloses, Allocated, States
<1>. QED  BY <1>1, <1>2, <1>3, <1>4

-----------------------------------------------------------------------------
(***************************************************************************)
(* The invariant of the calls.  A call is on a socket that stays; one that *)
(* was to wait without limit has no limit, and one of FIONBIO asks for a   *)
(* mode.  What is asked of a socket, or being set, says what its block     *)
(* times are, and is dropped when it is closed.  The application holds the *)
(* sockets whose addresses are not negative as int32_t.                    *)
(***************************************************************************)
Modal   == {"nowait", "blocking"}
Patient == {"accept", "connect", "recvfrom"}

Typed   == StackTypeOK /\ CallsTypeOK
Busy    == \A t \in Threads :
             /\ pc[t] = "idle" => req[t].a = NoSock
             /\ pc[t] # "idle" => req[t].a \in Allocated
             /\ pc[t] = "sndtimeo" => req[t].asks \in Modal
             /\ pc[t] \in Patient /\ req[t].asks = "forever" => req[t].wait = MaxDelay
Holding == held = {a \in Allocated : a < AddrSpan \div 2}
Fits(m, s) == /\ m.rcv \in {"setting", "nowait"} => s.rcv = 0
              /\ m.rcv = "forever" => s.rcv = MaxDelay
              /\ m.snd = "nowait" => s.snd = 0
Marks   == \A a \in Heap : /\ a \notin Allocated => asked[a] = Both("unset")
                           /\ Fits(asked[a], sockets[a])

SocketInv == Typed /\ Busy /\ Holding /\ Marks

(* Only those sockets are used that the application has been given.        *)
LEMMA HeldAllocated == Holding => HeldSockets \subseteq Allocated /\ HeldSockets = held
  BY Addresses DEF Holding, HeldSockets, Allocated

(* Every thread goes on, returns or has entered a call on a socket that    *)
(* is there.                                                               *)
Entered(t) == /\ pc'[t] \in Pcs \ {"idle", "sndtimeo"}
              /\ req'[t].a \in Allocated
              /\ pc'[t] \in Patient /\ req'[t].asks = "forever" => req'[t].wait = MaxDelay

Moves == /\ pc' \in [Threads -> Pcs]
         /\ req' \in [Threads -> [a : Heap \cup {NoSock}, wait : Times, asks : Asked]]
         /\ \A t \in Threads : \/ pc'[t] = pc[t] /\ req'[t] = req[t]
                               \/ pc'[t] = "idle" /\ req'[t].a = NoSock
                               \/ Entered(t)

LEMMA MovesStay == Typed /\ UNCHANGED <<pc, req>> => Moves
  BY DEF Typed, CallsTypeOK, Moves

LEMMA MovesReturn ==
  ASSUME Typed, NEW t \in Threads, NEW p, Returns(t, p)
  PROVE  Moves
  BY DEF Typed, CallsTypeOK, Returns, Goto, Moves, Pcs, Asked, NoReq, Times, MaxDelay

LEMMA MovesEnter ==
  ASSUME Typed, NEW t \in Threads, NEW a \in Allocated, NEW w \in Times,
         NEW x \in Asked, NEW p \in Pcs \ {"idle", "sndtimeo"},
         p \in Patient /\ x = "forever" => w = MaxDelay,
         Enter(t, a, w, x), Goto(t, p)
  PROVE  Moves
  BY DEF Typed, CallsTypeOK, Enter, Goto, Moves, Entered, Allocated

(* A step that keeps sockets and marks.                                    *)
LEMMA KeptStep ==
  ASSUME SocketInv, Kept(sockets'), Moves, UNCHANGED <<held, asked>>
  PROVE  SocketInv'
<1>1. Allocated' = Allocated
  BY DEF Kept, Allocated
<1>2. Typed'
  BY DEF SocketInv, Typed, StackTypeOK, CallsTypeOK, Kept, Moves
<1>3. Busy'
  BY <1>1 DEF SocketInv, Busy, Moves, Entered, Patient
<1>4. Holding'
  BY <1>1 DEF SocketInv, Holding
<1>5. Marks'
  BY <1>1 DEF SocketInv, Marks, Kept, Fits
<1>. QED  BY <1>2, <1>3, <1>4, <1>5 DEF SocketInv

LEMMA BlockTimes ==
  ASSUME Typed, NEW a \in Heap
  PROVE  /\ sockets[a].rcv \in Times /\ sockets[a].snd \in Times
         /\ asked[a].rcv \in Asked /\ asked[a].snd \in Asked
  BY DEF Typed, StackTypeOK, StackSock, CallsTypeOK

LEMMA WaitsStep ==
  ASSUME SocketInv, NEW t \in Threads, NEW a \in Allocated,
         Accept(t, a) \/ Recv(t, a) \/ RecvFrom(t, a) \/ Send(t, a) \/ SendTo(t, a)
  PROVE  SocketInv'
<1>1. PICK w \in Times, x \in Asked, p \in Pcs \ {"idle", "sndtimeo"} :
        /\ Waits(t, a, w, x, p)
        /\ p \in Patient => w = sockets[a].rcv /\ x = asked[a].rcv
  <2>1. /\ {"accept", "recv", "recvfrom", "send", "sendto"} \subseteq Pcs \ {"idle", "sndtimeo"}
        /\ "send" \notin Patient /\ "sendto" \notin Patient /\ a \in Heap
    BY DEF Pcs, Patient, Allocated
  <2>2. /\ sockets[a].rcv \in Times /\ sockets[a].snd \in Times
        /\ asked[a].rcv \in Asked /\ asked[a].snd \in Asked
    BY <2>1, BlockTimes DEF SocketInv
  <2>3. CASE Accept(t, a)
    BY <2>1, <2>2, <2>3 DEF Accept
  <2>4. CASE Recv(t, a)
    BY <2>1, <2>2, <2>4 DEF Recv
  <2>5. CASE RecvFrom(t, a)
    BY <2>1, <2>2, <2>5 DEF RecvFrom
  <2>6. CASE Send(t, a)
    BY <2>1, <2>2, <2>6 DEF Send
  <2>7. CASE SendTo(t, a)
    BY <2>1, <2>2, <2>7 DEF SendTo
  <2>. QED  BY <2>3, <2>4, <2>5, <2>6, <2>7
<1>2. p \in Patient /\ x = "forever" => w = MaxDelay
  BY <1>1 DEF SocketInv, Marks, Fits, Allocated
<1>3. Moves
  BY <1>1, <1>2, MovesEnter DEF Waits, SocketInv
<1>4. Kept(sockets')
  BY <1>1, KeptSame DEF Waits, SocketInv, Typed, StackTypeOK, Kept
<1>. QED  BY <1>1, <1>3, <1>4, KeptStep DEF Waits

LEMMA AtOnceStep ==
  ASSUME SocketInv, NEW t \in Threads, NEW a \in Allocated, Bind(t, a) \/ Listen(t, a)
  PROVE  SocketInv'
<1>1. PICK o \in StackBind(a) \cup StackListen(a) : sockets' = o.sockets
  BY DEF Bind, Listen, AtOnce
<1>2. Kept(sockets')
  BY <1>1, KeptAtOnce DEF SocketInv, Typed
<1>3. UNCHANGED <<pc, req, held, asked>>
  BY DEF Bind, Listen, AtOnce, calls
<1>. QED  BY <1>2, <1>3, MovesStay, KeptStep DEF SocketInv

LEMMA ConnectStep ==
  ASSUME SocketInv, NEW t \in Threads, NEW a \in Allocated, Connect(t, a)
  PROVE  SocketInv'
<1>1. PICK o \in StackConnect(a) :
        /\ sockets' = o.sockets
        /\ \/ Enter(t, a, sockets[a].rcv, asked[a].rcv) /\ Goto(t, "connect")
           \/ UNCHANGED <<pc, req>>
  BY DEF Connect
<1>2. Kept(sockets')
  BY <1>1, KeptAtOnce DEF SocketInv, Typed
<1>3. Moves
  <2>1. /\ sockets[a].rcv \in Times /\ asked[a].rcv \in Asked
        /\ "connect" \in Pcs \ {"idle", "sndtimeo"}
    BY BlockTimes DEF SocketInv, Allocated, Pcs
  <2>2. asked[a].rcv = "forever" => sockets[a].rcv = MaxDelay
    BY DEF SocketInv, Marks, Fits, Allocated
  <2>. QED  BY <1>1, <2>1, <2>2, MovesEnter, MovesStay DEF SocketInv
<1>. QED  BY <1>2, <1>3, KeptStep DEF Connect

LEMMA EndsStep ==
  ASSUME SocketInv, NEW t \in Threads,
         ConnectAnswered(t) \/ RecvEnds(t) \/ RecvFromEnds(t) \/ SendEnds(t) \/ SendToEnds(t)
  PROVE  SocketInv'
<1>1. PICK p \in Pcs \ {"idle"} : Returns(t, p)
  BY DEF ConnectAnswered, RecvEnds, RecvFromEnds, SendEnds, SendToEnds, Ends, Pcs
<1>2. req[t].a \in Allocated
  BY <1>1 DEF Returns, SocketInv, Busy
<1>3. Kept(sockets')
  BY <1>2, KeptWaiting
     DEF ConnectAnswered, RecvEnds, RecvFromEnds, SendEnds, SendToEnds, Ends, SocketInv, Typed
<1>4. UNCHANGED <<held, asked>>
  BY DEF ConnectAnswered, RecvEnds, RecvFromEnds, SendEnds, SendToEnds, Ends
<1>. QED  BY <1>1, <1>3, <1>4, MovesReturn, KeptStep DEF SocketInv

(***************************************************************************)
(* The steps that add, remove or mark a socket.                            *)
(***************************************************************************)
LEMMA CreateStep ==
  ASSUME SocketInv, NEW t \in Threads, Create(t)
  PROVE  SocketInv'
<1>1. PICK kind \in {"tcp", "udp"} :
        \E o \in StackSocket(kind) : sockets' = o.sockets /\ GivenNumber(CreateAnswer(o))
  BY DEF Create
<1>5. PICK o \in StackSocket(kind) : sockets' = o.sockets /\ GivenNumber(CreateAnswer(o))
  BY <1>1
<1>2. UNCHANGED <<pc, req, asked>>
  BY DEF Create
<1>3. CASE o = Failure("INVALID_SOCKET")
  <2>1. sockets' = sockets /\ held' = held
    BY <1>5, <1>3 DEF Failure, GivenNumber, CreateAnswer, ENOMEM
  <2>2. Kept(sockets')
    BY <2>1, KeptSame DEF SocketInv, Typed
  <2>. QED  BY <1>2, <2>1, <2>2, MovesStay, KeptStep DEF SocketInv
<1>4. CASE \E a \in Heap \ Allocated : o = Success(a, [sockets EXCEPT ![a] = New(kind)])
  <2>1. PICK a \in Heap \ Allocated : o = Success(a, [sockets EXCEPT ![a] = New(kind)])
    BY <1>4
  <2>2. sockets' = [sockets EXCEPT ![a] = New(kind)]
    BY <1>5, <2>1 DEF Success
  <2>3. held' = IF ToInt(a) >= 0 THEN held \cup {ToInt(a)} ELSE held
    BY <1>5, <2>1 DEF Success, GivenNumber, CreateAnswer
  <2>4. New(kind) \in StackSock /\ New(kind).st = "open"
    BY DEF New, StackSock, Kinds, States, Times, DefaultReceiveBlockTime,
           DefaultSendBlockTime, UdpMaxSendBlockTime
  <2>5. Allocated' = Allocated \cup {a}
    BY <2>2, <2>4 DEF SocketInv, Typed, StackTypeOK, Allocated
  <2>6. Typed'
    BY <1>2, <2>2, <2>3, <2>4 DEF SocketInv, Typed, StackTypeOK, CallsTypeOK
  <2>7. Busy'
    BY <1>2, <2>5 DEF SocketInv, Busy
  <2>8. Holding'
    <3>1. held' = IF a < AddrSpan \div 2 THEN held \cup {a} ELSE held
      BY <2>3, Numbers
    <3>. QED  BY <3>1, <2>5 DEF SocketInv, Holding
  <2>9. Marks'
    <3>1. \A b \in Heap \ {a} : sockets'[b] = sockets[b]
      BY <2>2 DEF SocketInv, Typed, StackTypeOK
    <3>2. asked[a] = Both("unset")
      BY <2>1 DEF SocketInv, Marks
    <3>. QED  BY <1>2, <2>5, <3>1, <3>2 DEF SocketInv, Marks, Fits, Both
  <2>. QED  BY <2>6, <2>7, <2>8, <2>9 DEF SocketInv
<1>. QED  BY <1>3, <1>4 DEF StackSocket

LEMMA AcceptStep ==
  ASSUME SocketInv, NEW t \in Threads, AcceptEnds(t)
  PROVE  SocketInv'
<1>. DEFINE a == req[t].a
<1>1. a \in Allocated /\ Returns(t, "accept")
  BY DEF AcceptEnds, Returns, SocketInv, Busy
<1>2. PICK o \in StackAccept(a, req[t].wait) :
        /\ sockets' = o.sockets
        /\ GivenNumber(AcceptAnswer(o))
        /\ asked' = IF o.err = "none" THEN [asked EXCEPT ![o.n] = asked[a]] ELSE asked
  BY DEF AcceptEnds
<1>3. Moves
  BY <1>1, MovesReturn DEF SocketInv
<1>4. CASE o = Failure("NULL") \/ o = Failure("INVALID_SOCKET")
  <2>1. sockets' = sockets /\ asked' = asked /\ held' = held
    BY <1>2, <1>4 DEF Failure, GivenNumber, AcceptAnswer, EAGAIN, EINVAL
  <2>2. Kept(sockets')
    BY <2>1, KeptSame DEF SocketInv, Typed
  <2>. QED  BY <1>3, <2>1, <2>2, KeptStep
<1>5. CASE \E c \in Heap \ Allocated :
             /\ sockets[a].pend # 0
             /\ o = Success(c, [sockets EXCEPT ![a].pend = @ - 1, ![c] = Child(a)])
  <2>1. PICK c \in Heap \ Allocated :
             /\ sockets[a].pend # 0
             /\ o = Success(c, [sockets EXCEPT ![a].pend = @ - 1, ![c] = Child(a)])
    BY <1>5
  <2>2. /\ sockets' = [sockets EXCEPT ![a].pend = @ - 1, ![c] = Child(a)]
        /\ asked' = [asked EXCEPT ![c] = asked[a]]
        /\ held' = IF ToInt(c) >= 0 THEN held \cup {ToInt(c)} ELSE held
    BY <1>2, <2>1 DEF Success, GivenNumber, AcceptAnswer
  <2>3. a \in Heap /\ a # c
    BY <1>1, <2>1 DEF Allocated
  <2>4. /\ Child(a) \in StackSock
        /\ Child(a).st = "connected"
        /\ Child(a).rcv = sockets[a].rcv
        /\ Child(a).snd = sockets[a].snd
    BY <2>3 DEF Child, SocketInv, Typed, StackTypeOK, StackSock, States
  <2>5. /\ sockets' \in [Heap -> StackSock]
        /\ sockets'[c] = Child(a)
        /\ \A b \in Heap \ {c} : /\ sockets'[b].st = sockets[b].st
                                 /\ sockets'[b].rcv = sockets[b].rcv
                                 /\ sockets'[b].snd = sockets[b].snd
    <3>. DEFINE one == [sockets EXCEPT ![a].pend = @ - 1]
    <3>1. /\ one \in [Heap -> StackSock]
          /\ \A b \in Heap : /\ one[b].st = sockets[b].st
                             /\ one[b].rcv = sockets[b].rcv
                             /\ one[b].snd = sockets[b].snd
      BY <2>1, <2>3 DEF SocketInv, Typed, StackTypeOK, StackSock
    <3>2. sockets' = [one EXCEPT ![c] = Child(a)]
      BY <2>2
    <3>. HIDE DEF one
    <3>. QED  BY <2>3, <2>4, <3>1, <3>2
  <2>6. Allocated' = Allocated \cup {c}
    BY <2>4, <2>5 DEF Allocated
  <2>7. /\ asked' \in [Heap -> [rcv : Asked, snd : Asked]]
        /\ asked'[c] = asked[a]
        /\ \A b \in Heap \ {c} : asked'[b] = asked[b]
    BY <2>2, <2>3 DEF SocketInv, Typed, CallsTypeOK
  <2>8. Typed'
    BY <1>3, <2>2, <2>5, <2>7 DEF SocketInv, Typed, StackTypeOK, CallsTypeOK, Moves
  <2>9. Busy'
    BY <1>3, <2>6 DEF SocketInv, Busy, Moves, Entered, Patient
  <2>10. Holding'
    <3>1. held' = IF c < AddrSpan \div 2 THEN held \cup {c} ELSE held
      BY <2>2, Numbers
    <3>. QED  BY <3>1, <2>6 DEF SocketInv, Holding
  <2>11. Marks'
    BY <2>3, <2>4, <2>5, <2>6, <2>7 DEF SocketInv, Marks, Fits
  <2>. QED  BY <2>8, <2>9, <2>10, <2>11 DEF SocketInv
<1>. QED  BY <1>4, <1>5 DEF StackAccept, TimedOut

(* A step that gives socket a new block times and a new mark.              *)
LEMMA MarkStep ==
  ASSUME SocketInv, NEW a \in Allocated, NEW m \in [rcv : Asked, snd : Asked],
         sockets' \in [Heap -> StackSock],
         \A b \in Heap : sockets'[b].st = sockets[b].st,
         \A b \in Heap \ {a} : sockets'[b] = sockets[b],
         Fits(m, sockets'[a]),
         asked' = [asked EXCEPT ![a] = m],
         held' = held,
         pc' \in [Threads -> Pcs],
         req' \in [Threads -> [a : Heap \cup {NoSock}, wait : Times, asks : Asked]],
         \A t \in Threads : \/ pc'[t] = pc[t] /\ req'[t] = req[t]
                            \/ pc'[t] = "idle" /\ req'[t].a = NoSock
                            \/ pc'[t] = "sndtimeo" /\ req'[t].a = a /\ req'[t].asks \in Modal
  PROVE  SocketInv'
<1>1. a \in Heap
  BY DEF Allocated
<1>2. /\ asked' \in [Heap -> [rcv : Asked, snd : Asked]]
      /\ asked'[a] = m
      /\ \A b \in Heap \ {a} : asked'[b] = asked[b]
  BY <1>1 DEF SocketInv, Typed, CallsTypeOK
<1>3. Allocated' = Allocated
  BY DEF Allocated
<1>4. Typed'
  BY <1>2 DEF SocketInv, Typed, StackTypeOK, CallsTypeOK
<1>5. Busy'
  BY <1>3 DEF SocketInv, Busy, Patient
<1>6. Holding'
  BY <1>3 DEF SocketInv, Holding
<1>7. Marks'
  BY <1>1, <1>2, <1>3 DEF SocketInv, Marks, Fits
<1>. QED  BY <1>4, <1>5, <1>6, <1>7 DEF SocketInv

LEMMA SetModeStep ==
  ASSUME SocketInv, NEW t \in Threads, NEW a \in Allocated, NEW v \in Modes, SetMode(t, a, v)
  PROVE  SocketInv'
<1>1. /\ a \in Heap /\ sockets[a].snd \in Times /\ 0 \in Times
      /\ ModeAsk(v) \in Modal /\ ModeAsk(v) \in Asked
  BY BlockTimes DEF SocketInv, Allocated, Times, ModeAsk, Modal, Asked
<1>2. /\ sockets' \in [Heap -> StackSock]
      /\ sockets'[a].rcv = 0
      /\ \A b \in Heap : sockets'[b].st = sockets[b].st
      /\ \A b \in Heap \ {a} : sockets'[b] = sockets[b]
  BY <1>1 DEF SetMode, StackSetRcv, Success, SocketInv, Typed, StackTypeOK, StackSock
<1>3. /\ pc' \in [Threads -> Pcs]
      /\ req' \in [Threads -> [a : Heap \cup {NoSock}, wait : Times, asks : Asked]]
      /\ pc'[t] = "sndtimeo" /\ req'[t].a = a /\ req'[t].asks \in Modal
      /\ \A u \in Threads \ {t} : pc'[u] = pc[u] /\ req'[u] = req[u]
  BY <1>1 DEF SetMode, Goto, Enter, SocketInv, Typed, CallsTypeOK, Pcs
<1>4. PICK x \in {"setting", "mixed"} : asked' = [asked EXCEPT ![a] = Both(x)]
  BY DEF SetMode
<1>. DEFINE m == Both(x)
<1>5. held' = held /\ m \in [rcv : Asked, snd : Asked] /\ Fits(m, sockets'[a])
  BY <1>2 DEF SetMode, Both, Asked, Fits
<1>6. asked' = [asked EXCEPT ![a] = m]
  BY <1>4
<1>. HIDE DEF m
<1>7. \A u \in Threads : \/ pc'[u] = pc[u] /\ req'[u] = req[u]
                         \/ pc'[u] = "sndtimeo" /\ req'[u].a = a /\ req'[u].asks \in Modal
  BY <1>3
<1>. QED  BY <1>2, <1>3, <1>5, <1>6, <1>7, MarkStep

LEMMA TimeoAsks ==
  ASSUME NEW a, NEW v \in Timeouts
  PROVE  /\ TickOf(v) \in Times /\ UdpSendTime(TickOf(v)) \in Times
         /\ Asks(a, v) \in {"forever", "limited", "mixed"}
         /\ Asks(a, v) = "forever" => TickOf(v) = MaxDelay
  BY HeapRange DEF TickOf, Asks, TimeoAsk, UdpSendTime, UdpMaxSendBlockTime, MaxDelay, Times

LEMMA SetRcvTimeoStep ==
  ASSUME SocketInv, NEW t \in Threads, NEW a \in Allocated, NEW v \in Timeouts,
         SetRcvTimeo(t, a, v)
  PROVE  SocketInv'
<1>. DEFINE m == [asked[a] EXCEPT !.rcv = Asks(a, v)]
<1>1. a \in Heap /\ asked[a] \in [rcv : Asked, snd : Asked] /\ sockets[a] \in StackSock
  BY DEF SocketInv, Typed, StackTypeOK, CallsTypeOK, Allocated
<1>2. sockets' = [sockets EXCEPT ![a].rcv = TickOf(v)] /\ UNCHANGED <<pc, req, held>>
  BY DEF SetRcvTimeo, StackSetRcv, Success
<1>3. /\ sockets' \in [Heap -> StackSock]
      /\ sockets'[a].rcv = TickOf(v) /\ sockets'[a].snd = sockets[a].snd
      /\ \A b \in Heap : sockets'[b].st = sockets[b].st
      /\ \A b \in Heap \ {a} : sockets'[b] = sockets[b]
  BY <1>1, <1>2, TimeoAsks DEF SocketInv, Typed, StackTypeOK, StackSock
<1>4. asked' = [asked EXCEPT ![a] = m]
  BY <1>1 DEF SetRcvTimeo
<1>5. /\ m \in [rcv : Asked, snd : Asked]
      /\ m.rcv = Asks(a, v) /\ m.snd = asked[a].snd
  BY <1>1, TimeoAsks DEF Asked
<1>. HIDE DEF m
<1>6. Fits(m, sockets'[a])
  BY <1>1, <1>3, <1>5, TimeoAsks DEF Fits, SocketInv, Marks
<1>. QED  BY <1>2, <1>3, <1>4, <1>5, <1>6, MarkStep DEF SocketInv, Typed, CallsTypeOK

LEMMA SetSndTimeoStep ==
  ASSUME SocketInv, NEW t \in Threads, NEW a \in Allocated, NEW v \in Timeouts,
         SetSndTimeo(t, a, v)
  PROVE  SocketInv'
<1>. DEFINE m == [asked[a] EXCEPT !.snd = Asks(a, v)]
<1>1. a \in Heap /\ asked[a] \in [rcv : Asked, snd : Asked] /\ sockets[a] \in StackSock
  BY DEF SocketInv, Typed, StackTypeOK, CallsTypeOK, Allocated
<1>2. PICK w \in Times : sockets' = [sockets EXCEPT ![a].snd = w]
  BY TimeoAsks DEF SetSndTimeo, StackSetSnd, Success
<1>3. /\ sockets' \in [Heap -> StackSock]
      /\ sockets'[a].rcv = sockets[a].rcv
      /\ \A b \in Heap : sockets'[b].st = sockets[b].st
      /\ \A b \in Heap \ {a} : sockets'[b] = sockets[b]
  BY <1>1, <1>2 DEF SocketInv, Typed, StackTypeOK, StackSock
<1>4. asked' = [asked EXCEPT ![a] = m] /\ UNCHANGED <<pc, req, held>>
  BY <1>1 DEF SetSndTimeo
<1>5. /\ m \in [rcv : Asked, snd : Asked]
      /\ m.rcv = asked[a].rcv /\ m.snd = Asks(a, v)
  BY <1>1, TimeoAsks DEF Asked
<1>. HIDE DEF m
<1>6. Fits(m, sockets'[a])
  BY <1>1, <1>3, <1>5, TimeoAsks DEF Fits, SocketInv, Marks
<1>. QED  BY <1>3, <1>4, <1>5, <1>6, MarkStep DEF SocketInv, Typed, CallsTypeOK

LEMMA SetModeEndsStep ==
  ASSUME SocketInv, NEW t \in Threads, SetModeEnds(t)
  PROVE  SocketInv'
<1>. DEFINE a == req[t].a
            m == [rcv |-> Now(t, asked[a].rcv), snd |-> Now(t, asked[a].snd)]
<1>1. /\ a \in Allocated /\ a \in Heap /\ Returns(t, "sndtimeo")
      /\ req[t].asks \in Modal /\ held' = held
  BY DEF SetModeEnds, Returns, SocketInv, Busy, Allocated
<1>2. sockets[a].rcv \in Times /\ 0 \in Times /\ sockets[a] \in StackSock
  BY <1>1, BlockTimes DEF SocketInv, Typed, StackTypeOK, Times
<1>3. asked' = [asked EXCEPT ![a] = m]
  BY <1>1 DEF SetModeEnds, NowAsked, SocketInv, Typed, CallsTypeOK
<1>4. /\ m \in [rcv : Asked, snd : Asked]
      /\ m.rcv \in {"nowait", "blocking", "mixed"} /\ m.snd \in {"nowait", "blocking", "mixed"}
      /\ m.rcv = "nowait" => asked[a].rcv \in {"setting", "nowait"}
  BY <1>1 DEF Now, Modal, Asked
<1>5. /\ sockets' \in [Heap -> StackSock]
      /\ sockets'[a].snd = 0 /\ sockets'[a].rcv = sockets[a].rcv
      /\ \A b \in Heap : sockets'[b].st = sockets[b].st
      /\ \A b \in Heap \ {a} : sockets'[b] = sockets[b]
  <2>1. UdpSendTime(0) = 0
    BY DEF UdpSendTime, MaxDelay, UdpMaxSendBlockTime
  <2>2. sockets' = [sockets EXCEPT ![a].snd = 0]
    BY <2>1 DEF SetModeEnds, StackSetSnd, Success
  <2>. QED  BY <1>1, <1>2, <2>2 DEF SocketInv, Typed, StackTypeOK, StackSock
<1>6. /\ pc' \in [Threads -> Pcs]
      /\ req' \in [Threads -> [a : Heap \cup {NoSock}, wait : Times, asks : Asked]]
      /\ pc'[t] = "idle" /\ req'[t].a = NoSock
      /\ \A u \in Threads \ {t} : pc'[u] = pc[u] /\ req'[u] = req[u]
  BY <1>1, <1>2 DEF Returns, Goto, NoReq, SocketInv, Typed, CallsTypeOK, Pcs, Asked
<1>. HIDE DEF m
<1>7. Fits(m, sockets'[a])
  BY <1>1, <1>4, <1>5 DEF Fits, SocketInv, Marks
<1>. HIDE DEF a
<1>. QED  BY <1>1, <1>3, <1>4, <1>5, <1>6, <1>7, MarkStep

LEMMA CloseStep ==
  ASSUME SocketInv, NEW t \in Threads, NEW a \in Allocated, a \in HeldSockets, Close(t, a)
  PROVE  SocketInv'
<1>1. PICK o \in StackClose(a) :
       /\ sockets' = o.sockets
       /\ IF CloseAnswer(o) = OK
          THEN held' = held \ {ToInt(a)} /\ asked' = [asked EXCEPT ![a] = Both("unset")]
          ELSE UNCHANGED <<held, asked>>
  BY DEF Close
<1>2. pc' = pc /\ req' = req /\ \A u \in Threads : req[u].a # a
  BY DEF Close
<1>3. CASE o = Success(-1, sockets)
  <2>1. sockets' = sockets /\ UNCHANGED <<held, asked>>
    BY <1>1, <1>3 DEF Success, CloseAnswer, OK, EAGAIN
  <2>2. Kept(sockets')
    BY <2>1, KeptSame DEF SocketInv, Typed
  <2>. QED  BY <1>2, <2>1, <2>2, MovesStay, KeptStep DEF SocketInv
<1>4. CASE o = Success(1, [sockets EXCEPT ![a] = Free])
  <2>1. /\ sockets' = [sockets EXCEPT ![a] = Free]
        /\ held' = held \ {ToInt(a)}
        /\ asked' = [asked EXCEPT ![a] = Both("unset")]
    BY <1>1, <1>4 DEF Success, CloseAnswer, OK
  <2>2. Free \in StackSock /\ Free.st = "free"
    BY DEF Free, New, StackSock, Kinds, States, Times, DefaultReceiveBlockTime,
           DefaultSendBlockTime
  <2>3. a \in Heap /\ ToInt(a) = a
    <3>1. a \in held
      BY HeldAllocated DEF SocketInv
    <3>2. a \in Heap /\ a < AddrSpan \div 2
      BY <3>1 DEF SocketInv, Holding, Allocated
    <3>. QED  BY <3>2, Numbers
  <2>4. Allocated' = Allocated \ {a}
    BY <2>1, <2>2 DEF SocketInv, Typed, StackTypeOK, Allocated
  <2>5. Typed'
    <3>1. Both("unset") \in [rcv : Asked, snd : Asked]
      BY DEF Both, Asked
    <3>. QED  BY <1>2, <2>1, <2>2, <3>1 DEF SocketInv, Typed, StackTypeOK, CallsTypeOK
  <2>6. Busy'
    BY <1>2, <2>1, <2>4 DEF SocketInv, Typed, CallsTypeOK, Busy, Allocated
  <2>7. Holding'
    BY <2>1, <2>3, <2>4 DEF SocketInv, Holding
  <2>8. Marks'
    <3>1. /\ \A b \in Heap \ {a} : sockets'[b] = sockets[b] /\ asked'[b] = asked[b]
          /\ asked'[a] = Both("unset")
      BY <2>1, <2>3 DEF SocketInv, Typed, StackTypeOK, CallsTypeOK
    <3>. QED  BY <2>4, <3>1 DEF SocketInv, Marks, Fits, Both
  <2>. QED  BY <2>5, <2>6, <2>7, <2>8 DEF SocketInv
<1>. QED  BY <1>3, <1>4 DEF StackClose

-----------------------------------------------------------------------------
(***************************************************************************)
(* The layer.                                                              *)
(***************************************************************************)
LEMMA CallStep ==
  ASSUME SocketInv, NEW t \in Threads, Call(t)
  PROVE  SocketInv'
<1>1. HeldSockets \subseteq Allocated
  BY HeldAllocated DEF SocketInv
<1>2. CASE Create(t)
  BY <1>2, CreateStep
<1>3. CASE \E a \in HeldSockets : \/ Accept(t, a) \/ Recv(t, a) \/ RecvFrom(t, a)
                                \/ Send(t, a) \/ SendTo(t, a)
  BY <1>1, <1>3, WaitsStep
<1>4. CASE \E a \in HeldSockets : Bind(t, a) \/ Listen(t, a) \/ Connect(t, a)
  BY <1>1, <1>4, AtOnceStep, ConnectStep
<1>5. CASE \E a \in HeldSockets :
             \/ \E v \in Modes : SetMode(t, a, v)
             \/ \E v \in Timeouts : SetRcvTimeo(t, a, v) \/ SetSndTimeo(t, a, v)
  BY <1>1, <1>5, SetModeStep, SetRcvTimeoStep, SetSndTimeoStep
<1>6. CASE \E a \in HeldSockets : Close(t, a)
  BY <1>1, <1>6, CloseStep
<1>. QED  BY <1>2, <1>3, <1>4, <1>5, <1>6 DEF Call

LEMMA SocketUnchanged == SocketInv /\ UNCHANGED <<sockets, calls>> => SocketInv'
<1>. SUFFICES ASSUME SocketInv, UNCHANGED <<sockets, calls>> PROVE SocketInv'
  OBVIOUS
<1>1. Kept(sockets') /\ Moves
  BY KeptSame, MovesStay DEF calls, SocketInv, Typed
<1>. QED  BY <1>1, KeptStep DEF calls

LEMMA SocketInit == Init => SocketInv
<1>. SUFFICES ASSUME Init PROVE SocketInv
  OBVIOUS
<1>1. Free \in StackSock /\ Free.st = "free"
  BY DEF Free, New, StackSock, Kinds, States, Times, DefaultReceiveBlockTime,
         DefaultSendBlockTime
<1>2. Allocated = {}
  BY <1>1 DEF Init, StackInit, Allocated
<1>3. Typed
  BY <1>1 DEF Init, StackInit, CallsInit, Typed, StackTypeOK, CallsTypeOK, Pcs, Asked, Both,
              NoReq, Times
<1>4. Busy
  BY DEF Init, CallsInit, Busy, NoReq, Patient
<1>5. Holding
  BY <1>2 DEF Init, CallsInit, Holding
<1>6. Marks
  BY DEF Init, CallsInit, Marks, Fits, Both
<1>. QED  BY <1>3, <1>4, <1>5, <1>6 DEF SocketInv

LEMMA SocketStep == SocketInv /\ [Next]_vars => SocketInv'
<1>. SUFFICES ASSUME SocketInv, [Next]_vars PROVE SocketInv'
  OBVIOUS
<1>1. CASE UNCHANGED <<sockets, calls>>
  BY <1>1, SocketUnchanged
<1>2. CASE \E t \in Threads : Call(t)
  BY <1>2, CallStep
<1>3. CASE \E t \in Threads : Step(t)
  BY <1>3, AcceptStep, EndsStep, SetModeEndsStep DEF Step
<1>4. CASE Network
  <2>1. Kept(sockets')
    BY <1>4, KeptNetwork DEF Network, SocketInv, Typed
  <2>2. Moves /\ UNCHANGED <<held, asked>>
    BY <1>4, MovesStay DEF Network, calls, SocketInv
  <2>. QED  BY <2>1, <2>2, KeptStep
<1>. QED  BY <1>1, <1>2, <1>3, <1>4 DEF Next, Starting, AppStarts, Running, vars

LEMMA SocketAlways == Spec => []SocketInv
<1>. QED  BY SocketInit, SocketStep, PTL DEF Spec

(* Every variable of the layer keeps its type (TypeOK), so that no step    *)
(* leaves a counter below 0 or a call without its socket.                  *)
THEOREM TypeCorrect == Spec => []TypeOK
<1>1. LayerInv /\ SocketInv => TypeOK
  BY StartTypes DEF LayerInv, SocketInv, Typed, TypeOK
<1>. QED  BY <1>1, LayerAlways, SocketAlways, PTL

(* A socket that FIONBIO made non-blocking waits nowhere                   *)
(* (NonBlockingNeverWaits), for any threads that set its options at a      *)
(* time, any values, and the sockets that come out of Accept included.     *)
THEOREM NonBlockingAlways == Spec => []NonBlockingNeverWaits
<1>1. SocketInv => NonBlockingNeverWaits
  BY DEF SocketInv, Marks, Fits, NonBlockingNeverWaits, Allocated
<1>. QED  BY <1>1, SocketAlways, PTL

(* Where the heap lies below 2^31 the application holds the sockets of the *)
(* stack and no others (SocketsAccounted).  A socket above would be lost:  *)
(* its number is negative, which the caller takes for an error.            *)
THEOREM NoSocketIsLost ==
  ASSUME \A a \in Heap : a < AddrSpan \div 2
  PROVE  Spec => []SocketsAccounted
<1>1. SocketInv => SocketsAccounted
  BY HeldAllocated DEF SocketInv, Holding, SocketsAccounted, Allocated
<1>. QED  BY <1>1, SocketAlways, PTL

(* No step ends a call that waits without limit and has nothing yet.       *)
LEMMA UnlimitedStep ==
  ASSUME SocketInv, [Next]_vars, NEW t \in Threads,
         req[t].asks = "forever", Unanswered(t)
  PROVE  pc'[t] = pc[t]
<1>. DEFINE a == req[t].a
<1>1. /\ pc[t] \in Patient /\ pc[t] \in Pcs /\ req[t].wait = MaxDelay
      /\ a \in Heap /\ pc \in [Threads -> Pcs]
  BY DEF Unanswered, Patient, Pcs, SocketInv, Busy, Typed, CallsTypeOK, Allocated
<1>2. CASE AcceptEnds(t)
  <2>1. StackAccept(a, MaxDelay) = {}
    <3>1. pc[t] = "accept"
      BY <1>2 DEF AcceptEnds, Returns
    <3>. QED  BY <3>1 DEF Unanswered, StackAccept, IsTcp, TimedOut
  <2>. QED  BY <1>1, <1>2, <2>1 DEF AcceptEnds
<1>3. CASE ConnectAnswered(t)
  <2>1. StackConnected(a, MaxDelay) = {}
    <3>1. pc[t] = "connect"
      BY <1>3 DEF ConnectAnswered, Ends, Returns
    <3>. QED  BY <3>1 DEF Unanswered, StackConnected, TimedOut
  <2>. QED  BY <1>1, <1>3, <2>1 DEF ConnectAnswered, Ends
<1>4. CASE RecvFromEnds(t)
  <2>1. StackRecvFrom(a, MaxDelay) = {}
    <3>1. pc[t] = "recvfrom"
      BY <1>4 DEF RecvFromEnds, Ends, Returns
    <3>. QED  BY <3>1 DEF Unanswered, StackRecvFrom, IsTcp, TimedOut
  <2>. QED  BY <1>1, <1>4, <2>1 DEF RecvFromEnds, Ends
<1>5. ~(RecvEnds(t) \/ SendEnds(t) \/ SendToEnds(t) \/ SetModeEnds(t))
  BY <1>1 DEF RecvEnds, SendEnds, SendToEnds, SetModeEnds, Ends, Returns, Patient
<1>6. ~Call(t)
  <2>1. pc[t] # "idle"
    BY <1>1 DEF Patient
  <2>. QED  BY <2>1 DEF Call, Create, Bind, Listen, AtOnce, Accept, Connect, Recv, RecvFrom, Send,
                        SendTo, Waits, SetMode, SetRcvTimeo, SetSndTimeo, Close
<1>7. CASE Step(t)
  BY <1>2, <1>3, <1>4, <1>5, <1>7 DEF Step
<1>8. ASSUME NEW u \in Threads \ {t}, Step(u) \/ Call(u)
      PROVE  pc'[t] = pc[t]
  <2>1. UNCHANGED pc \/ \E p : pc' = [pc EXCEPT ![u] = p]
    <3>1. CASE Step(u)
      BY <3>1 DEF Step, AcceptEnds, ConnectAnswered, RecvEnds, RecvFromEnds, SendEnds, SendToEnds,
                  SetModeEnds, Ends, Returns, Goto
    <3>2. CASE Call(u)
      BY <3>2 DEF Call, Create, Bind, Listen, AtOnce, calls, Accept, Connect, Recv, RecvFrom, Send,
                  SendTo, Waits, SetMode, SetRcvTimeo, SetSndTimeo, Close, Goto
    <3>. QED  BY <1>8, <3>1, <3>2
  <2>. QED  BY <1>1, <2>1
<1>9. CASE UNCHANGED calls
  BY <1>9 DEF calls
<1>. QED  BY <1>6, <1>7, <1>8, <1>9 DEF Next, Starting, AppStarts, Running, Network, vars, calls

(* A call on a socket whose timeout was set to 0 does not give up          *)
(* (UnlimitedCallsWait), for any threads that set options meanwhile, any   *)
(* values, and the sockets that come out of Accept included.               *)
THEOREM UnlimitedAlways == Spec => UnlimitedCallsWait
<1>1. SocketInv /\ [Next]_vars =>
        [\A t \in Threads : req[t].asks = "forever" /\ Unanswered(t) => pc'[t] = pc[t]]_vars
  BY UnlimitedStep
<1>. QED  BY <1>1, SocketAlways, PTL DEF Spec, UnlimitedCallsWait
=============================================================================
