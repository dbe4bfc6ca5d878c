------------------------------ MODULE MdkProofs ------------------------------
(***************************************************************************)
(* Theorems about MdkSocket, for any threads, numbers of sockets, modes,   *)
(* timeouts and bounds.                                                    *)
(***************************************************************************)
EXTENDS MdkSocket, ApiProofs

(* What the application is to respect for the copy to be right: a call     *)
(* that changes the options of a socket, or closes it, overlaps with no    *)
(* other call on the socket, and a number the application does not hold is *)
(* none of a socket.                                                       *)
Discipline == /\ {"SetMode", "SetTimeo", "Close"} \subseteq Alone
              /\ Strays \cap Socks = {}

SetOps == {"SetMode", "SetTimeo"}

-----------------------------------------------------------------------------
(***************************************************************************)
(* Types, and what a call has at each of its places.                       *)
(***************************************************************************)
ControlOf(t) ==
  /\ pc[t] = "idle" => req[t] = NoRequest
  /\ pc[t] = "clear" => \/ req[t].op = "Create" /\ res[t] \in Socks
                        \/ req[t].op = "Close" /\ req[t].sock \in Socks
  /\ pc[t] = "accept"  => req[t].op = "Accept"
  /\ pc[t] = "connect" => req[t].op = "Connect"
  /\ pc[t] = "recv"    => req[t].op = "Recv"
  /\ pc[t] \in {"tv_sec", "tv_msec", "select"} => req[t].op = "Recv" /\ req[t].sock \in Socks
  /\ pc[t] \notin {"tv_msec", "select"} => limit[t] = 0
  /\ pc[t] \in {"load", "store"} =>
       /\ req[t].sock \in Socks
       /\ \/ req[t].op = "Accept"   /\ field[t] = "all" /\ res[t] \in Socks
          \/ req[t].op = "SetMode"  /\ field[t] = "ionbio"
          \/ req[t].op = "SetTimeo" /\ field[t] \in {"tv_sec", "tv_msec"}
                                    /\ req[t].val \in RcvTimeouts

Control == \A t \in Threads : ControlOf(t)
TypeInv == TypeOK /\ Control

-----------------------------------------------------------------------------
(***************************************************************************)
(* The invariant of the copy.                                              *)
(***************************************************************************)
(* Thread t has a new socket to return, which the application does not     *)
(* hold yet: no other thread has it, and no call is made on it.            *)
Given(t) == \/ req[t].op = "Create"
            \/ req[t].op = "Accept" /\ pc[t] \in {"load", "store"}

SetterAlone == \A t, u \in Threads :
                 t # u /\ req[t].op \in SetOps /\ req[u].sock = req[t].sock => req[u].op = "Close"
InUse    == \A t \in Threads :
              req[t].op \notin {"Create", "Close"} /\ req[t].sock \in Socks => req[t].sock \in held
HeldUsed == \A s \in held : stack[s].st # "free"
GivenNew == \A t \in Threads :
              Given(t) => /\ stack[res[t]].st # "free" /\ res[t] \notin held
                          /\ \A u \in Threads \ {t} : Given(u) => res[u] # res[t]
NoClear  == \A t \in Threads :
              req[t].op = "Close" => stack[req[t].sock].st = "free" \/ req[t].sock \in tainted

Ownership == SetterAlone /\ InUse /\ HeldUsed /\ GivenNew /\ NoClear

(* Attributes a are those of the socket k of the stack.                    *)
ModeCopied(a, k) == a.ionbio = 1 <=> k.nbio
TimeCopied(a, k) == 1000 * a.tv_sec + a.tv_msec = k.timeo

Settled == \A s \in Sound : Setting(s) \/ (ModeCopied(attr[s], stack[s]) /\ TimeCopied(attr[s], stack[s]))

(* How far a call is that has something to store.                          *)
CreateAt(t) == req[t].op = "Create" => ~stack[res[t]].nbio /\ stack[res[t]].timeo = 0
AcceptAt(t) ==
  req[t].op = "Accept" /\ pc[t] \in {"load", "store"} /\ res[t] \notin tainted =>
    /\ req[t].sock \notin tainted
    /\ stack[res[t]].nbio = stack[req[t].sock].nbio
    /\ stack[res[t]].timeo = stack[req[t].sock].timeo
    /\ pc[t] = "store" => word[t] = attr[req[t].sock]
SetModeAt(t) ==
  req[t].op = "SetMode" /\ req[t].sock \notin tainted =>
    LET s == req[t].sock IN
    /\ stack[s].nbio <=> req[t].val # 0
    /\ TimeCopied(attr[s], stack[s])
    /\ pc[t] = "store" => ModeCopied(word[t], stack[s]) /\ TimeCopied(word[t], stack[s])
SetTimeoAt(t) ==
  req[t].op = "SetTimeo" /\ req[t].sock \notin tainted =>
    LET s == req[t].sock
        v == req[t].val IN
    /\ stack[s].timeo = v
    /\ ModeCopied(attr[s], stack[s])
    /\ field[t] = "tv_msec" => attr[s].tv_sec = v \div 1000
    /\ pc[t] = "store" => ModeCopied(word[t], stack[s]) /\ word[t].tv_sec = v \div 1000
    /\ pc[t] = "store" /\ field[t] = "tv_msec" => word[t].tv_msec = v % 1000
CheckAt(t) ==
  req[t].sock \in Sound =>
    LET s == req[t].sock IN
    /\ pc[t] \in {"tv_sec", "tv_msec"} => ~stack[s].nbio
    /\ pc[t] = "tv_msec" => limit[t] = 1000 * attr[s].tv_sec
    /\ pc[t] = "select"  => limit[t] = OwnWait(s)

CourseOf(t) == CreateAt(t) /\ AcceptAt(t) /\ SetModeAt(t) /\ SetTimeoAt(t) /\ CheckAt(t)
Course == \A t \in Threads : CourseOf(t)

CopyInv == Ownership /\ Settled /\ Course

-----------------------------------------------------------------------------
(***************************************************************************)
(* Numbers and words.                                                      *)
(***************************************************************************)
LEMMA SockNumbers == /\ Socks = 1 .. NumSocks /\ Socks \subseteq Nat \ {0}
                     /\ SecMod \in Nat \ {0} /\ RcvTimeouts \subseteq Nat /\ Modes \subseteq Nat
  BY MdkAssumption, StackAssumption, CallsAssumption DEF Socks, First

LEMMA Division == \A v \in Nat : /\ v \div 1000 \in Nat /\ v % 1000 \in 0 .. 999
                                 /\ 1000 * (v \div 1000) + (v % 1000) = v
  OBVIOUS

LEMMA RemainderRange == \A n \in Nat \ {0}, a \in Nat : a % n \in 0 .. n - 1
  OBVIOUS

LEMMA RemainderOfLess == \A n \in Nat \ {0} : \A a \in 0 .. n - 1 : a % n = a
  OBVIOUS

(* The seconds of a timeout fit into their field.                          *)
LEMMA Seconds == \A v \in RcvTimeouts : (v \div 1000) % SecMod = v \div 1000
<1>. SUFFICES ASSUME NEW v \in RcvTimeouts PROVE (v \div 1000) % SecMod = v \div 1000
  OBVIOUS
<1>. DEFINE q == v \div 1000
<1>1. q \in Nat /\ q < SecMod /\ SecMod \in Nat \ {0}
  BY SockNumbers, Division, MdkAssumption
<1>. HIDE DEF q
<1>2. q \in 0 .. SecMod - 1
  BY <1>1
<1>. QED  BY <1>1, <1>2, RemainderOfLess DEF q

LEMMA ChangedAttr ==
  ASSUME NEW a \in Attr, NEW f \in {"all", "ionbio", "tv_sec", "tv_msec"}, NEW v \in Nat
  PROVE  Changed(a, f, v) \in Attr
<1>1. v % 1000 \in 0 .. 999
  BY Division
<1>2. (v \div 1000) % SecMod \in 0 .. SecMod - 1
  BY Division, RemainderRange, SockNumbers
<1>. DEFINE q == (v \div 1000) % SecMod
            m == v % 1000
<1>3. Changed(a, f, v) = CASE f = "all"     -> a
                           [] f = "ionbio"  -> [a EXCEPT !.ionbio = IF v = 0 THEN 0 ELSE 1]
                           [] f = "tv_sec"  -> [a EXCEPT !.tv_sec = q]
                           [] f = "tv_msec" -> [a EXCEPT !.tv_msec = m]
  BY DEF Changed
<1>4. q \in 0 .. SecMod - 1 /\ m \in 0 .. 999
  BY <1>1, <1>2
<1>. HIDE DEF q, m
<1>. QED  BY <1>3, <1>4 DEF Attr

LEMMA ErrorsNegative ==
  \A e : e # "none" => RcBsdToIot(e) \in Int /\ RcBsdToIot(e) < 0
  BY DEF RcBsdToIot, ESOCK, EINVAL, ENOTSUP, ENOMEM, EAGAIN, ETIMEDOUT, EINPROGRESS, ENOTCONN,
         EISCONN, ECONNREFUSED, ECONNRESET, ECONNABORTED, EALREADY, EADDRINUSE,
         EHOSTNOTFOUND, ERROR

LEMMA FailureNegative == \A o : o.n = -1 /\ o.err # "none" => Rc(o) \in Int /\ Rc(o) < 0
  BY ErrorsNegative DEF Rc

-----------------------------------------------------------------------------
(***************************************************************************)
(* A step of thread t, and what it does to the thread.                     *)
(***************************************************************************)
ThreadsTyped == /\ pc \in [Threads -> Pcs] /\ req \in [Threads -> Request]
                /\ res \in [Threads -> Int] /\ limit \in [Threads -> Int]
                /\ field \in [Threads -> Fields] /\ word \in [Threads -> Attr]

OthersStay(t) == \A u \in Threads \ {t} :
                   /\ pc'[u] = pc[u] /\ req'[u] = req[u] /\ res'[u] = res[u]
                   /\ limit'[u] = limit[u] /\ field'[u] = field[u] /\ word'[u] = word[u]

Moved(t) == ThreadsTyped' /\ OthersStay(t) /\ ControlOf(t)'

LEMMA TypeStep ==
  ASSUME TypeInv, NEW t \in Threads, Moved(t), StackTypeOK', attr' \in [Socks -> Attr],
         held' \subseteq Socks, tainted' \subseteq Socks
  PROVE  TypeInv'
<1>1. TypeOK'
  BY DEF Moved, ThreadsTyped, TypeOK, CallsTypeOK
<1>2. ASSUME NEW u \in Threads PROVE ControlOf(u)'
  <2>1. CASE u = t
    BY <2>1 DEF Moved
  <2>2. CASE u # t
    BY <2>2 DEF Moved, OthersStay, TypeInv, Control, ControlOf
  <2>. QED  BY <2>1, <2>2
<1>. QED  BY <1>1, <1>2 DEF TypeInv, Control

LEMMA AttrRange == NoAttr \in Attr
  BY SockNumbers DEF NoAttr, Attr

LEMMA ReqRange == NoRequest \in Request /\ None \notin Socks
  BY SockNumbers DEF NoRequest, Request, SockArgs, None

(* The thread returns.                                                     *)
Returned(t) == /\ Moved(t) /\ req'[t] = NoRequest /\ pc'[t] = "idle"
               /\ limit'[t] = 0

LEMMA EndsReturned ==
  ASSUME TypeInv, NEW t \in Threads, NEW r, Ends(t, r)
  PROVE  Returned(t)
<1>1. ThreadsTyped'
  BY AttrRange, ReqRange
     DEF Ends, Answer, Goto, ThreadsTyped, TypeInv, TypeOK, CallsTypeOK, Pcs, Fields, OK
<1>2. OthersStay(t) /\ pc'[t] = "idle" /\ req'[t] = NoRequest /\ limit'[t] = 0
  BY DEF Ends, Answer, Goto, TypeInv, TypeOK, CallsTypeOK, OthersStay
<1>3. ControlOf(t)'
  BY <1>2 DEF ControlOf
<1>. QED  BY <1>1, <1>2, <1>3 DEF Returned, Moved

(* The thread enters a call on a socket it may use.                        *)
Entered(t, op, s, v, p) ==
  /\ Moved(t) /\ pc[t] = "idle" /\ pc'[t] = p
  /\ req'[t].op = op /\ req'[t].sock = s /\ req'[t].val = v
  /\ limit'[t] = 0

LEMMA EnterTyped ==
  ASSUME TypeInv, NEW t \in Threads, NEW op \in AllOps, NEW s \in SockArgs, NEW v \in Nat,
         NEW p \in Pcs, Enter(t, op, s, v, 0), Goto(t, p)
  PROVE  /\ pc' \in [Threads -> Pcs] /\ req' \in [Threads -> Request]
         /\ pc'[t] = p
         /\ req'[t].op = op /\ req'[t].sock = s /\ req'[t].val = v
         /\ \A u \in Threads \ {t} : pc'[u] = pc[u] /\ req'[u] = req[u]
<1>1. [op |-> op, sock |-> s, val |-> v, wait |-> 0] \in Request
  BY DEF Request
<1>. QED  BY <1>1 DEF Enter, Goto, TypeInv, TypeOK, CallsTypeOK

-----------------------------------------------------------------------------
(***************************************************************************)
(* Type correctness, one lemma per action.                                 *)
(***************************************************************************)
LEMMA MayCallSock ==
  ASSUME TypeInv, NEW t, NEW op, NEW s, MayCall(t, op, s)
  PROVE  /\ pc[t] = "idle" /\ s \in SockArgs
         /\ op # "Create" => s \in held \cup Strays /\ Undisturbed(t, op, s)
  BY DEF MayCall, TypeInv, TypeOK, CallsTypeOK, SockArgs

(* Entering a call leaves the rest of the thread as it is.                 *)
LEMMA EnteredStep ==
  ASSUME TypeInv, NEW t \in Threads, NEW op \in AllOps, NEW s \in SockArgs, NEW v \in Nat,
         NEW p \in {"accept", "connect", "recv", "tv_sec", "select"},
         pc[t] = "idle", Enter(t, op, s, v, 0), Goto(t, p),
         UNCHANGED <<res, limit, field, word>>,
         p = "accept" => op = "Accept",
         p = "connect" => op = "Connect",
         p = "recv" => op = "Recv",
         p \in {"tv_sec", "select"} => op = "Recv" /\ s \in Socks
  PROVE  Entered(t, op, s, v, p)
<1>1. /\ pc' \in [Threads -> Pcs] /\ req' \in [Threads -> Request]
      /\ pc'[t] = p /\ req'[t].op = op /\ req'[t].sock = s /\ req'[t].val = v
      /\ \A u \in Threads \ {t} : pc'[u] = pc[u] /\ req'[u] = req[u]
  BY EnterTyped DEF Pcs
<1>2. limit'[t] = 0
  BY DEF TypeInv, Control, ControlOf
<1>3. ControlOf(t)'
  BY <1>1, <1>2 DEF ControlOf
<1>4. ThreadsTyped' /\ OthersStay(t)
  BY <1>1 DEF ThreadsTyped, OthersStay, TypeInv, TypeOK, CallsTypeOK
<1>. QED  BY <1>1, <1>2, <1>3, <1>4 DEF Entered, Moved

(* Entering a call that has the number n of the stack already.             *)
LEMMA BegunStep ==
  ASSUME TypeInv, NEW t \in Threads, NEW op \in {"Create", "SetMode", "SetTimeo", "Close"},
         NEW s \in SockArgs, NEW v \in Nat, NEW p \in {"clear", "load"},
         NEW n \in Int, NEW f \in Fields,
         pc[t] = "idle", Enter(t, op, s, v, 0), Goto(t, p), Result(t, n),
         field' = [field EXCEPT ![t] = f], UNCHANGED <<limit, word>>,
         p = "clear" => \/ op = "Create" /\ n \in Socks
                        \/ op = "Close" /\ s \in Socks,
         p = "load" => /\ s \in Socks
                       /\ \/ op = "SetMode" /\ f = "ionbio"
                          \/ op = "SetTimeo" /\ f = "tv_sec" /\ v \in RcvTimeouts
  PROVE  Entered(t, op, s, v, p) /\ res'[t] = n /\ field'[t] = f
<1>1. /\ pc' \in [Threads -> Pcs] /\ req' \in [Threads -> Request]
      /\ pc'[t] = p /\ req'[t].op = op /\ req'[t].sock = s /\ req'[t].val = v
      /\ \A u \in Threads \ {t} : pc'[u] = pc[u] /\ req'[u] = req[u]
  BY EnterTyped DEF Pcs, AllOps
<1>2. limit'[t] = 0
  BY DEF TypeInv, Control, ControlOf
<1>3. ThreadsTyped' /\ OthersStay(t) /\ res'[t] = n /\ field'[t] = f
  BY <1>1 DEF ThreadsTyped, OthersStay, TypeInv, TypeOK, CallsTypeOK, Result
<1>4. ControlOf(t)'
  BY <1>1, <1>2, <1>3 DEF ControlOf
<1>. QED  BY <1>1, <1>2, <1>3, <1>4 DEF Entered, Moved

(* Nothing of the calls, the attributes or the holders changes.            *)
LEMMA TypeStays ==
  ASSUME TypeInv, StackTypeOK', UNCHANGED <<calls, owner, attr, field, word>>
  PROVE  TypeInv'
<1>. USE DEF calls, owner
<1>1. TypeOK'
  BY DEF TypeInv, TypeOK, CallsTypeOK
<1>2. Control'
  BY DEF TypeInv, Control, ControlOf
<1>. QED  BY <1>1, <1>2 DEF TypeInv

(* Create: nothing, or a new socket n.                                     *)
Created(t, n) == /\ Grants(stack', n, FALSE, 0)
                 /\ Entered(t, "Create", None, 0, "clear") /\ res'[t] = n
                 /\ HandedOut(n, None)
                 /\ UNCHANGED <<held, attr>>

LEMMA CreateEffect ==
  ASSUME TypeInv, NEW t \in Threads, Create(t)
  PROVE  UNCHANGED vars \/ \E n \in Socks : Created(t, n)
<1>1. PICK o \in StackSocket : /\ Begin(t, "Create", None, 0, o, "clear")
                               /\ IF o.n > 0 THEN HandedOut(o.n, None) ELSE UNCHANGED tainted
  BY DEF Create
<1>2. MayCall(t, "Create", None) /\ UNCHANGED <<limit, held, attr, field, word>>
  BY DEF Create
<1>3. CASE o.n = -1 /\ o.stack = stack
  BY <1>1, <1>2, <1>3 DEF Begin, vars, calls, owner
<1>4. CASE Grants(o.stack, o.n, FALSE, 0)
  <2>1. o.n \in Socks /\ o.n \in Int /\ o.n > 0
    BY <1>4, SockNumbers DEF Grants
  <2>2. /\ stack' = o.stack /\ HandedOut(o.n, None) /\ Enter(t, "Create", None, 0, 0)
        /\ Goto(t, "clear") /\ Result(t, o.n)
    BY <1>1, <2>1 DEF Begin
  <2>. DEFINE f == field[t]
  <2>3. f \in Fields /\ field' = [field EXCEPT ![t] = f] /\ UNCHANGED <<limit, word>>
    BY <1>2 DEF TypeInv, TypeOK
  <2>. HIDE DEF f
  <2>4. pc[t] = "idle" /\ None \in SockArgs
    BY <1>2, MayCallSock
  <2>5. Entered(t, "Create", None, 0, "clear") /\ res'[t] = o.n
    BY <2>1, <2>2, <2>3, <2>4, BegunStep
  <2>. QED  BY <1>2, <1>4, <2>1, <2>2, <2>5 DEF Created
<1>5. StackTypeOK
  BY DEF TypeInv, TypeOK
<1>. QED  BY <1>3, <1>4, <1>5, GrantsSocket

LEMMA TaintedType ==
  ASSUME TypeInv, NEW n \in Socks, NEW from, HandedOut(n, from)
  PROVE  tainted' \subseteq Socks
  BY DEF HandedOut, TypeInv, TypeOK, CallsTypeOK

LEMMA GrantsTyped ==
  ASSUME NEW n, NEW nbio, NEW timeo, Grants(stack', n, nbio, timeo)
  PROVE  StackTypeOK' /\ n \in Socks
  BY DEF Grants, KeepsOthers, StackTypeOK

LEMMA CreateTypes ==
  ASSUME TypeInv, NEW t \in Threads, NEW n \in Socks, Created(t, n)
  PROVE  TypeInv'
<1>1. StackTypeOK' /\ tainted' \subseteq Socks
  BY GrantsTyped, TaintedType DEF Created
<1>2. Moved(t) /\ held' \subseteq Socks /\ attr' \in [Socks -> Attr]
  BY DEF Created, Entered, TypeInv, TypeOK, CallsTypeOK
<1>. QED  BY <1>1, <1>2, TypeStep

(* The stack keeps its sockets and their options, the file and the         *)
(* application keep everything: Bind, Listen, a failing call, the network. *)
Stays == Keeps(stack') /\ UNCHANGED <<calls, owner, attr, field, word>>

LEMMA UnchangedStays == TypeInv /\ UNCHANGED vars => Stays
  BY KeepsStack DEF TypeInv, TypeOK, Keeps, Stays, vars, StackTypeOK

LEMMA StaysEffect ==
  ASSUME TypeInv
  PROVE  /\ \A t \in Threads, s \in held \cup Strays : Bind(t, s) \/ Listen(t, s) => Stays
         /\ Network => Stays
<1>1. StackTypeOK
  BY DEF TypeInv, TypeOK
<1>. QED  BY <1>1, KeepsBind, KeepsListen, KeepsNetwork DEF Bind, Listen, Network, Stays, KeepsAll

LEMMA KeepsTyped == ASSUME Keeps(stack') PROVE StackTypeOK'
  BY DEF Keeps, StackTypeOK

LEMMA StaysTypes == TypeInv /\ Stays => TypeInv'
  BY KeepsTyped, TypeStays DEF Stays

(* A call on socket s begins and has asked nothing of the stack, but for   *)
(* the start of a connection.                                              *)
Uses(t, op, s, v, p) ==
  /\ Keeps(stack') /\ Entered(t, op, s, v, p)
  /\ op \in {"Accept", "Connect", "Recv"} /\ s \in held \cup Strays /\ Undisturbed(t, op, s)
  /\ p \in {"accept", "connect", "recv", "tv_sec", "select"}
  /\ p = "tv_sec" => attr[s].ionbio # 1
  /\ p = "select" => attr[s].ionbio = 1
  /\ UNCHANGED <<owner, attr>>

LEMMA UsesEffect ==
  ASSUME TypeInv, NEW t \in Threads, NEW s, NEW len \in {0, 1},
         Accept(t, s) \/ Connect(t, s) \/ Recv(t, s, len)
  PROVE  Stays \/ \E op, v, p : Uses(t, op, s, v, p)
<1>1. Keeps(stack)
  BY KeepsStack DEF TypeInv, TypeOK
<1>2. CASE Accept(t, s)
  <2>1. MayCall(t, "Accept", s) /\ UNCHANGED <<res, limit, field, word>>
    BY <1>2 DEF Accept
  <2>2. /\ pc[t] = "idle" /\ s \in SockArgs /\ s \in held \cup Strays
        /\ Undisturbed(t, "Accept", s)
    BY <2>1, MayCallSock
  <2>3. Entered(t, "Accept", s, 0, "accept")
    BY <1>2, <2>1, <2>2, EnteredStep DEF Accept, AllOps
  <2>4. Uses(t, "Accept", s, 0, "accept")
    BY <1>1, <1>2, <2>2, <2>3 DEF Uses, Accept
  <2>. QED  BY <2>4
<1>3. CASE Connect(t, s)
  <2>1. MayCall(t, "Connect", s) /\ UNCHANGED <<res, limit, owner, attr, field, word>>
    BY <1>3 DEF Connect
  <2>2. /\ pc[t] = "idle" /\ s \in SockArgs /\ s \in held \cup Strays
        /\ Undisturbed(t, "Connect", s)
    BY <2>1, MayCallSock
  <2>3. Keeps(stack')
    BY <1>3, KeepsConnect DEF Connect, TypeInv, TypeOK, KeepsAll
  <2>4. CASE UNCHANGED <<pc, req>>
    BY <2>1, <2>3, <2>4 DEF Stays, calls, owner
  <2>5. CASE Enter(t, "Connect", s, 0, 0) /\ Goto(t, "connect")
    <3>1. Entered(t, "Connect", s, 0, "connect")
      BY <2>1, <2>2, <2>5, EnteredStep DEF AllOps
    <3>2. Uses(t, "Connect", s, 0, "connect")
      BY <2>1, <2>2, <2>3, <3>1 DEF Uses
    <3>. QED  BY <3>2
  <2>. QED  BY <1>3, <2>4, <2>5 DEF Connect
<1>4. CASE Recv(t, s, len)
  <2>1. MayCall(t, "Recv", s) /\ UNCHANGED <<stack, res, limit, owner, attr, field, word>>
    BY <1>4 DEF Recv
  <2>2. /\ pc[t] = "idle" /\ s \in SockArgs /\ s \in held \cup Strays
        /\ Undisturbed(t, "Recv", s)
    BY <2>1, MayCallSock
  <2>3. Keeps(stack')
    BY <1>1, <2>1 DEF Keeps
  <2>4. CASE UNCHANGED <<pc, req>>
    BY <2>1, <2>3, <2>4 DEF Stays, calls, owner
  <2>5. ASSUME NEW p \in {"recv", "tv_sec", "select"},
               Enter(t, "Recv", s, len, 0), Goto(t, p),
               p # "recv" => s \in Socks,
               p = "tv_sec" => attr[s].ionbio # 1, p = "select" => attr[s].ionbio = 1
        PROVE  Uses(t, "Recv", s, len, p)
    <3>1. Entered(t, "Recv", s, len, p)
      BY <2>1, <2>2, <2>5, EnteredStep DEF AllOps
    <3>. QED  BY <2>1, <2>2, <2>3, <2>5, <3>1 DEF Uses
  <2>6. \/ UNCHANGED <<pc, req>>
        \/ Enter(t, "Recv", s, len, 0) /\ Goto(t, "recv")
        \/ /\ s \in Socks /\ Enter(t, "Recv", s, len, 0)
           /\ Goto(t, IF attr[s].ionbio = 1 THEN "select" ELSE "tv_sec")
    BY <1>4 DEF Recv
  <2>7. CASE Enter(t, "Recv", s, len, 0) /\ Goto(t, "recv")
    <3>1. Uses(t, "Recv", s, len, "recv")
      BY <2>5, <2>7
    <3>. QED  BY <3>1
  <2>8. CASE /\ s \in Socks /\ Enter(t, "Recv", s, len, 0)
             /\ Goto(t, IF attr[s].ionbio = 1 THEN "select" ELSE "tv_sec")
    <3>1. CASE attr[s].ionbio = 1
      <4>1. Uses(t, "Recv", s, len, "select")
        BY <2>5, <2>8, <3>1
      <4>. QED  BY <4>1
    <3>2. CASE attr[s].ionbio # 1
      <4>1. Uses(t, "Recv", s, len, "tv_sec")
        BY <2>5, <2>8, <3>2
      <4>. QED  BY <4>1
    <3>. QED  BY <3>1, <3>2
  <2>. QED  BY <2>4, <2>6, <2>7, <2>8
<1>. QED  BY <1>2, <1>3, <1>4

LEMMA UsesTypes ==
  ASSUME TypeInv, NEW t \in Threads, NEW op, NEW s, NEW v, NEW p, Uses(t, op, s, v, p)
  PROVE  TypeInv'
<1>1. StackTypeOK'
  BY KeepsTyped DEF Uses
<1>2. Moved(t) /\ held' \subseteq Socks /\ tainted' \subseteq Socks /\ attr' \in [Socks -> Attr]
  BY DEF Uses, Entered, owner, TypeInv, TypeOK, CallsTypeOK
<1>. QED  BY <1>1, <1>2, TypeStep

(* SetOpt has changed the stack and has its copy to store.                 *)
SetAt(t, op, s, v, f) == /\ Entered(t, op, s, v, "load") /\ field'[t] = f
                         /\ s \in held \cup Strays /\ Undisturbed(t, op, s)
                         /\ UNCHANGED <<owner, attr>>

ModeSet(t, s, v)  == /\ SetAt(t, "SetMode", s, v, "ionbio")
                     /\ Sets(stack', s, v # 0, stack[s].timeo)
TimeoSet(t, s, v) == /\ SetAt(t, "SetTimeo", s, v, "tv_sec")
                     /\ Sets(stack', s, stack[s].nbio, v)

LEMMA SetModeEffect ==
  ASSUME TypeInv, NEW t \in Threads, NEW s, NEW v \in Modes, SetMode(t, s, v)
  PROVE  Stays \/ ModeSet(t, s, v)
<1>1. PICK o \in StackSetMode(s, v # 0) : /\ Begin(t, "SetMode", s, v, o, "load")
                              /\ StoreNext(t, o, "ionbio")
  BY DEF SetMode
<1>2. MayCall(t, "SetMode", s) /\ UNCHANGED <<limit, owner, attr, word>>
  BY DEF SetMode
<1>3. /\ pc[t] = "idle" /\ s \in SockArgs /\ s \in held \cup Strays
      /\ Undisturbed(t, "SetMode", s)
  BY <1>2, MayCallSock
<1>4. StackTypeOK
  BY DEF TypeInv, TypeOK
<1>5. CASE o.n = -1 /\ o.stack = stack
  <2>1. UNCHANGED vars
    BY <1>1, <1>2, <1>5 DEF Begin, StoreNext, vars, calls
  <2>. QED  BY <2>1, UnchangedStays
<1>6. CASE o.n = 0 /\ Sets(o.stack, s, v # 0, stack[s].timeo)
  <2>1. /\ stack' = o.stack /\ Enter(t, "SetMode", s, v, 0) /\ Goto(t, "load") /\ Result(t, 0)
        /\ field' = [field EXCEPT ![t] = "ionbio"]
    BY <1>1, <1>6 DEF Begin, StoreNext, Storing
  <2>2. s \in Socks /\ v \in Nat
    BY <1>6, SockNumbers DEF Sets
  <2>3. "ionbio" \in Fields /\ UNCHANGED <<limit, word>> /\ 0 \in Int
    BY <1>2 DEF Fields
  <2>4. Entered(t, "SetMode", s, v, "load") /\ field'[t] = "ionbio"
    BY <1>3, <2>1, <2>2, <2>3, BegunStep
  <2>. QED  BY <1>2, <1>3, <1>6, <2>1, <2>4 DEF ModeSet, SetAt
<1>. QED  BY <1>1, <1>4, <1>5, <1>6, SetsMode

LEMMA SetTimeoEffect ==
  ASSUME TypeInv, NEW t \in Threads, NEW s, NEW v \in RcvTimeouts, SetTimeo(t, s, v)
  PROVE  Stays \/ TimeoSet(t, s, v)
<1>1. PICK o \in StackSetTimeo(s, v) : /\ Begin(t, "SetTimeo", s, v, o, "load")
                              /\ StoreNext(t, o, "tv_sec")
  BY DEF SetTimeo
<1>2. MayCall(t, "SetTimeo", s) /\ UNCHANGED <<limit, owner, attr, word>>
  BY DEF SetTimeo
<1>3. /\ pc[t] = "idle" /\ s \in SockArgs /\ s \in held \cup Strays
      /\ Undisturbed(t, "SetTimeo", s)
  BY <1>2, MayCallSock
<1>4. StackTypeOK
  BY DEF TypeInv, TypeOK
<1>5. CASE o.n = -1 /\ o.stack = stack
  <2>1. UNCHANGED vars
    BY <1>1, <1>2, <1>5 DEF Begin, StoreNext, vars, calls
  <2>. QED  BY <2>1, UnchangedStays
<1>6. CASE o.n = 0 /\ Sets(o.stack, s, stack[s].nbio, v)
  <2>1. /\ stack' = o.stack /\ Enter(t, "SetTimeo", s, v, 0) /\ Goto(t, "load") /\ Result(t, 0)
        /\ field' = [field EXCEPT ![t] = "tv_sec"]
    BY <1>1, <1>6 DEF Begin, StoreNext, Storing
  <2>2. s \in Socks /\ v \in Nat
    BY <1>6, SockNumbers DEF Sets
  <2>3. "tv_sec" \in Fields /\ UNCHANGED <<limit, word>> /\ 0 \in Int
    BY <1>2 DEF Fields
  <2>4. Entered(t, "SetTimeo", s, v, "load") /\ field'[t] = "tv_sec"
    BY <1>3, <2>1, <2>2, <2>3, BegunStep
  <2>. QED  BY <1>2, <1>3, <1>6, <2>1, <2>4 DEF TimeoSet, SetAt
<1>7. v \in Nat
  BY SockNumbers
<1>. QED  BY <1>1, <1>4, <1>5, <1>6, <1>7, SetsTimeo

LEMMA SetTypes ==
  ASSUME TypeInv, NEW t \in Threads, NEW s, NEW v, ModeSet(t, s, v) \/ TimeoSet(t, s, v)
  PROVE  TypeInv'
<1>1. StackTypeOK'
  BY DEF ModeSet, TimeoSet, Sets, KeepsOthers, StackTypeOK
<1>2. Moved(t) /\ held' \subseteq Socks /\ tainted' \subseteq Socks /\ attr' \in [Socks -> Attr]
  BY DEF ModeSet, TimeoSet, SetAt, Entered, owner, TypeInv, TypeOK, CallsTypeOK
<1>. QED  BY <1>1, <1>2, TypeStep

(* The stack has released the socket; its entry is to be cleared.          *)
Closed(t, s) == /\ Entered(t, "Close", s, 0, "clear")
                /\ s \in held \cup Strays /\ Undisturbed(t, "Close", s)
                /\ s \in Socks /\ KeepsOthers(stack', s) /\ stack'[s].st = "free"
                /\ held' = held \ {s} /\ UNCHANGED <<tainted, attr>>

LEMMA CloseEffect ==
  ASSUME TypeInv, NEW t \in Threads, NEW s, Close(t, s)
  PROVE  Stays \/ Closed(t, s)
<1>1. PICK o \in StackClose(s) : /\ Begin(t, "Close", s, 0, o, "clear")
                                 /\ held' = IF o.n = 0 THEN held \ {s} ELSE held
  BY DEF Close
<1>2. MayCall(t, "Close", s) /\ UNCHANGED <<limit, tainted, attr, field, word>>
  BY DEF Close
<1>3. /\ pc[t] = "idle" /\ s \in SockArgs /\ s \in held \cup Strays
      /\ Undisturbed(t, "Close", s)
  BY <1>2, MayCallSock
<1>4. StackTypeOK
  BY DEF TypeInv, TypeOK
<1>5. CASE o.n = -1 /\ o.stack = stack
  <2>1. UNCHANGED vars
    BY <1>1, <1>2, <1>5 DEF Begin, vars, calls, owner
  <2>. QED  BY <2>1, UnchangedStays
<1>6. CASE /\ o.n = 0 /\ s \in Socks /\ stack[s].st # "free"
           /\ KeepsOthers(o.stack, s) /\ o.stack[s].st = "free"
  <2>1. /\ stack' = o.stack /\ Enter(t, "Close", s, 0, 0) /\ Goto(t, "clear") /\ Result(t, 0)
        /\ held' = held \ {s}
    BY <1>1, <1>6 DEF Begin
  <2>. DEFINE f == field[t]
  <2>2. f \in Fields /\ field' = [field EXCEPT ![t] = f] /\ UNCHANGED <<limit, word>>
    BY <1>2 DEF TypeInv, TypeOK
  <2>. HIDE DEF f
  <2>3. 0 \in Int /\ 0 \in Nat
    OBVIOUS
  <2>4. Entered(t, "Close", s, 0, "clear")
    BY <1>3, <1>6, <2>1, <2>2, <2>3, BegunStep
  <2>. QED  BY <1>2, <1>3, <1>6, <2>1, <2>4 DEF Closed
<1>. QED  BY <1>1, <1>4, <1>5, <1>6, FreesClose

LEMMA CloseTypes ==
  ASSUME TypeInv, NEW t \in Threads, NEW s, Closed(t, s)
  PROVE  TypeInv'
<1>1. StackTypeOK'
  BY DEF Closed, KeepsOthers, StackTypeOK
<1>2. Moved(t) /\ held' \subseteq Socks /\ tainted' \subseteq Socks /\ attr' \in [Socks -> Attr]
  BY DEF Closed, Entered, TypeInv, TypeOK, CallsTypeOK
<1>. QED  BY <1>1, <1>2, TypeStep

(* The memset of Create and of Close, the last step of the call.           *)
Cleared(t, n) ==
  /\ pc[t] = "clear" /\ Returned(t) /\ n \in Socks
  /\ attr' = [attr EXCEPT ![n] = NoAttr]
  /\ \/ req[t].op = "Create" /\ n = res[t] /\ held' = held \cup {n}
     \/ req[t].op = "Close"  /\ n = req[t].sock /\ held' = held
  /\ UNCHANGED <<stack, tainted>>

LEMMA ClearEffect ==
  ASSUME TypeInv, NEW t \in Threads, Clear(t)
  PROVE  \E n \in Socks : Cleared(t, n)
<1>1. /\ pc[t] = "clear" /\ Ends(t, res[t]) /\ UNCHANGED <<stack, tainted>>
      /\ attr' = [attr EXCEPT ![IF req[t].op = "Create" THEN res[t] ELSE req[t].sock] = NoAttr]
  BY DEF Clear
<1>2. \/ req[t].op = "Create" /\ res[t] \in Socks
      \/ req[t].op = "Close" /\ req[t].sock \in Socks
  BY <1>1 DEF TypeInv, Control, ControlOf
<1>3. Returned(t)
  BY <1>1, EndsReturned
<1>4. CASE req[t].op = "Create" /\ res[t] \in Socks
  <2>1. res[t] >= 0
    BY <1>4, SockNumbers
  <2>2. held' = held \cup {res[t]}
    BY <1>1, <1>4, <2>1 DEF Ends, Answer
  <2>. QED  BY <1>1, <1>3, <1>4, <2>2 DEF Cleared
<1>5. CASE req[t].op = "Close" /\ req[t].sock \in Socks
  <2>1. held' = held
    BY <1>1, <1>5 DEF Ends, Answer
  <2>. QED  BY <1>1, <1>3, <1>5, <2>1 DEF Cleared
<1>. QED  BY <1>2, <1>4, <1>5

LEMMA ClearTypes ==
  ASSUME TypeInv, NEW t \in Threads, NEW n, Cleared(t, n)
  PROVE  TypeInv'
<1>1. Moved(t) /\ held' \subseteq Socks /\ tainted' \subseteq Socks /\ attr' \in [Socks -> Attr]
  BY AttrRange DEF Cleared, Returned, TypeInv, TypeOK, CallsTypeOK
<1>2. StackTypeOK'
  BY DEF Cleared, TypeInv, TypeOK, StackTypeOK
<1>. QED  BY <1>1, <1>2, TypeStep

(* A call that waited returns, without a socket.                           *)
Quits(t) == /\ Keeps(stack') /\ Returned(t) /\ UNCHANGED <<owner, attr>>
            /\ pc[t] \in {"accept", "connect", "select", "recv"}

LEMMA QuitsEffect ==
  ASSUME TypeInv, NEW t \in Threads, ConnectEnded(t) \/ Select(t) \/ RecvEnds(t)
  PROVE  Quits(t)
<1>1. StackTypeOK /\ Keeps(stack)
  BY KeepsStack DEF TypeInv, TypeOK
<1>2. \E r : Ends(t, r)
  BY DEF ConnectEnded, Select, RecvEnds
<1>3. pc[t] \in {"connect", "select", "recv"} /\ UNCHANGED <<tainted, attr>>
  BY DEF ConnectEnded, Select, RecvEnds
<1>4. req[t].op \in {"Connect", "Recv"}
  BY <1>3 DEF TypeInv, Control, ControlOf
<1>5. held' = held
  BY <1>2, <1>4 DEF Ends, Answer
<1>6. Keeps(stack')
  <2>1. CASE ConnectEnded(t)
    BY <1>1, <2>1, KeepsConnected DEF ConnectEnded, KeepsAll
  <2>2. CASE Select(t)
    BY <1>1, <2>2 DEF Select
  <2>3. CASE RecvEnds(t)
    BY <1>1, <2>3, KeepsRecv DEF RecvEnds, KeepsAll
  <2>. QED  BY <2>1, <2>2, <2>3
<1>7. Returned(t)
  BY <1>2, EndsReturned
<1>. QED  BY <1>3, <1>5, <1>6, <1>7 DEF Quits, owner

LEMMA QuitsTypes == ASSUME TypeInv, NEW t \in Threads, Quits(t) PROVE TypeInv'
<1>1. StackTypeOK'
  BY KeepsTyped DEF Quits
<1>2. Moved(t) /\ held' \subseteq Socks /\ tainted' \subseteq Socks /\ attr' \in [Socks -> Attr]
  BY DEF Quits, Returned, owner, TypeInv, TypeOK, CallsTypeOK
<1>. QED  BY <1>1, <1>2, TypeStep

(* The thread goes on inside its call.                                     *)
Goes(t, from, to) == /\ Moved(t) /\ pc[t] = from /\ pc'[t] = to /\ req'[t] = req[t]

(* Accept has a new socket n, with the options of the listening one.       *)
AcceptGiven(t, n) ==
  LET s == req[t].sock IN
  /\ Goes(t, "accept", "load") /\ res'[t] = n
  /\ s \in Socks /\ stack[s].st = "listening"
  /\ Grants(stack', n, stack[s].nbio, stack[s].timeo)
  /\ HandedOut(n, s) /\ UNCHANGED <<held, attr>>

LEMMA AcceptEffect ==
  ASSUME TypeInv, NEW t \in Threads, AcceptEnds(t)
  PROVE  Quits(t) \/ \E n \in Socks : AcceptGiven(t, n)
<1>. DEFINE s == req[t].sock
<1>0. pc[t] = "accept" /\ req[t].op = "Accept" /\ attr' = attr /\ StackTypeOK /\ Keeps(stack)
  BY KeepsStack DEF AcceptEnds, TypeInv, TypeOK, Control, ControlOf
<1>1. PICK o \in StackAccept(s) :
        /\ stack' = o.stack
        /\ IF o.n > 0
           THEN /\ HandedOut(o.n, s)
                /\ Storing(t, "all") /\ Goto(t, "load") /\ Result(t, o.n)
                /\ UNCHANGED <<req, limit, held, word>>
           ELSE Ends(t, Rc(o)) /\ UNCHANGED tainted
  BY DEF AcceptEnds
<1>2. CASE o.n = -1 /\ o.err # "none" /\ o.stack = stack
  <2>1. Ends(t, Rc(o)) /\ UNCHANGED tainted
    BY <1>1, <1>2
  <2>2. ~(Rc(o) >= 0)
    BY <1>2, FailureNegative
  <2>3. held' = held
    BY <2>1, <2>2 DEF Ends, Answer
  <2>. QED  BY <1>0, <1>1, <1>2, <2>1, <2>3, EndsReturned DEF Quits, owner
<1>3. CASE /\ s \in Socks /\ stack[s].st = "listening"
           /\ Grants(o.stack, o.n, Accepted(s).nbio, Accepted(s).timeo)
  <2>1. o.n \in Socks /\ o.n \in Int /\ o.n > 0
    BY <1>3, SockNumbers DEF Grants
  <2>2. /\ HandedOut(o.n, s) /\ Storing(t, "all") /\ Goto(t, "load") /\ Result(t, o.n)
        /\ UNCHANGED <<req, limit, held, word>>
    BY <1>1, <2>1
  <2>3. ThreadsTyped' /\ OthersStay(t)
        /\ pc'[t] = "load" /\ req'[t] = req[t] /\ res'[t] = o.n /\ field'[t] = "all"
        /\ limit'[t] = limit[t]
    BY <2>1, <2>2 DEF ThreadsTyped, OthersStay, TypeInv, TypeOK, CallsTypeOK, Storing, Goto,
                      Result, Pcs, Fields
  <2>4. limit[t] = 0
    BY <1>0 DEF TypeInv, Control, ControlOf
  <2>5. ControlOf(t)'
    BY <1>0, <1>3, <2>1, <2>3, <2>4 DEF ControlOf
  <2>6. /\ Accepted(s).nbio = stack[s].nbio
        /\ Accepted(s).timeo = stack[s].timeo
    BY <1>0, <1>3, MdkAssumption DEF Accepted, Fresh, StackTypeOK, StackSock
  <2>7. AcceptGiven(t, o.n)
    BY <1>0, <1>1, <1>3, <2>2, <2>3, <2>5, <2>6 DEF AcceptGiven, Goes, Moved
  <2>. QED  BY <2>1, <2>7
<1>. QED  BY <1>0, <1>2, <1>3, GrantsAccept

LEMMA AcceptTypes ==
  ASSUME TypeInv, NEW t \in Threads, NEW n \in Socks, AcceptGiven(t, n)
  PROVE  TypeInv'
<1>1. StackTypeOK' /\ tainted' \subseteq Socks
  BY GrantsTyped, TaintedType DEF AcceptGiven
<1>2. Moved(t) /\ held' \subseteq Socks /\ attr' \in [Socks -> Attr]
  BY DEF AcceptGiven, Goes, TypeInv, TypeOK, CallsTypeOK
<1>. QED  BY <1>1, <1>2, TypeStep

(* socket_check_read reads the two fields of the timeout.                  *)
SecRead(t) == /\ Goes(t, "tv_sec", "tv_msec")
              /\ limit'[t] = 1000 * attr[req[t].sock].tv_sec
              /\ UNCHANGED <<stack, owner, attr>>
MsecRead(t) == /\ Goes(t, "tv_msec", "select")
               /\ limit'[t] = NoTimeout(limit[t] + attr[req[t].sock].tv_msec)
               /\ UNCHANGED <<stack, owner, attr>>

LEMMA AttrNumbers == \A a \in Attr : a.tv_sec \in Int /\ a.tv_msec \in Int /\ a.ionbio \in {0, 1}
<1>. SUFFICES ASSUME NEW a \in Attr
              PROVE  a.tv_sec \in Int /\ a.tv_msec \in Int /\ a.ionbio \in {0, 1}
  OBVIOUS
<1>1. SecMod \in Int
  BY MdkAssumption
<1>2. a.tv_sec \in 0 .. SecMod - 1 /\ a.tv_msec \in 0 .. 999 /\ a.ionbio \in {0, 1}
  BY Zenon DEF Attr
<1>3. ASSUME NEW n \in Int, NEW m \in 0 .. n - 1 PROVE m \in Int
  BY <1>3
<1>. QED  BY <1>1, <1>2, <1>3

LEMMA CheckEffect ==
  ASSUME TypeInv, NEW t \in Threads
  PROVE  /\ CheckSec(t) => SecRead(t)
         /\ CheckMsec(t) => MsecRead(t)
<1>1. ASSUME NEW from \in {"tv_sec", "tv_msec"}, NEW to \in {"tv_msec", "select"}, NEW l \in Int,
             pc[t] = from, Goto(t, to), limit' = [limit EXCEPT ![t] = l],
             UNCHANGED <<stack, req, res, owner, attr, field, word>>
      PROVE  Goes(t, from, to) /\ limit'[t] = l
  <2>1. ThreadsTyped' /\ OthersStay(t) /\ pc'[t] = to /\ req'[t] = req[t] /\ limit'[t] = l
    BY <1>1 DEF ThreadsTyped, OthersStay, TypeInv, TypeOK, CallsTypeOK, Goto, Pcs
  <2>2. ControlOf(t)'
    BY <1>1, <2>1 DEF ControlOf, TypeInv, Control
  <2>. QED  BY <1>1, <2>1, <2>2 DEF Goes, Moved
<1>2. ASSUME pc[t] \in {"tv_sec", "tv_msec"}
      PROVE  attr[req[t].sock].tv_sec \in Int /\ attr[req[t].sock].tv_msec \in Int
  <2>1. req[t].sock \in Socks
    BY <1>2 DEF TypeInv, Control, ControlOf
  <2>2. attr[req[t].sock] \in Attr
    BY <2>1 DEF TypeInv, TypeOK
  <2>. QED  BY <2>2, AttrNumbers
<1>3. ASSUME CheckSec(t) PROVE SecRead(t)
  <2>. DEFINE l == 1000 * attr[req[t].sock].tv_sec
  <2>1. l \in Int
    BY <1>2, <1>3 DEF CheckSec
  <2>2. /\ pc[t] = "tv_sec" /\ Goto(t, "tv_msec") /\ limit' = [limit EXCEPT ![t] = l]
        /\ UNCHANGED <<stack, req, res, owner, attr, field, word>>
    BY <1>3 DEF CheckSec
  <2>3. SecRead(t) <=> /\ Goes(t, "tv_sec", "tv_msec") /\ limit'[t] = l
                       /\ UNCHANGED <<stack, owner, attr>>
    BY DEF SecRead
  <2>. HIDE DEF l
  <2>. QED  BY <1>1, <2>1, <2>2, <2>3
<1>4. ASSUME CheckMsec(t) PROVE MsecRead(t)
  <2>. DEFINE l == NoTimeout(limit[t] + attr[req[t].sock].tv_msec)
  <2>1. l \in Int
    BY <1>2, <1>4 DEF CheckMsec, NoTimeout, Forever, TypeInv, TypeOK, CallsTypeOK
  <2>2. /\ pc[t] = "tv_msec" /\ Goto(t, "select") /\ limit' = [limit EXCEPT ![t] = l]
        /\ UNCHANGED <<stack, req, res, owner, attr, field, word>>
    BY <1>4 DEF CheckMsec, TypeInv, TypeOK, CallsTypeOK
  <2>3. MsecRead(t) <=> /\ Goes(t, "tv_msec", "select") /\ limit'[t] = l
                        /\ UNCHANGED <<stack, owner, attr>>
    BY DEF MsecRead
  <2>. HIDE DEF l
  <2>. QED  BY <1>1, <2>1, <2>2, <2>3
<1>. QED  BY <1>3, <1>4

(* A word is loaded and changed; and it is stored, at the end of the call  *)
(* or before the milliseconds.                                             *)
Loaded(t) == /\ Goes(t, "load", "store") /\ field'[t] = field[t] /\ res'[t] = res[t]
             /\ word'[t] = Changed(attr[req[t].sock], field[t], req[t].val)
             /\ UNCHANGED <<stack, owner, attr>>
SecStored(t) == /\ Goes(t, "store", "load") /\ req[t].op = "SetTimeo"
                /\ field[t] = "tv_sec" /\ field'[t] = "tv_msec"
                /\ attr' = [attr EXCEPT ![req[t].sock] = word[t]]
                /\ UNCHANGED <<stack, owner>>
Stored(t, n) == /\ pc[t] = "store" /\ field[t] # "tv_sec" /\ Returned(t) /\ n \in Socks
                /\ attr' = [attr EXCEPT ![n] = word[t]]
                /\ \/ req[t].op = "Accept" /\ n = res[t] /\ held' = held \cup {n}
                   \/ req[t].op \in SetOps /\ n = req[t].sock /\ held' = held
                /\ UNCHANGED <<stack, tainted>>

LEMMA LoadEffect ==
  ASSUME TypeInv, NEW t \in Threads, Load(t)
  PROVE  Loaded(t)
<1>. DEFINE w == Changed(attr[req[t].sock], field[t], req[t].val)
<1>1. /\ pc[t] = "load" /\ word' = [word EXCEPT ![t] = w] /\ Goto(t, "store")
      /\ UNCHANGED <<stack, req, res, limit, owner, attr, field>>
  BY DEF Load
<1>2. w \in Attr
  <2>1. req[t].sock \in Socks /\ field[t] \in {"all", "ionbio", "tv_sec", "tv_msec"}
    BY <1>1 DEF TypeInv, Control, ControlOf
  <2>2. attr[req[t].sock] \in Attr /\ req[t].val \in Nat
    BY <2>1 DEF TypeInv, TypeOK, CallsTypeOK, Request
  <2>. QED  BY <2>1, <2>2, ChangedAttr
<1>3. Loaded(t) <=> /\ Goes(t, "load", "store") /\ field'[t] = field[t] /\ res'[t] = res[t]
                    /\ word'[t] = w /\ UNCHANGED <<stack, owner, attr>>
  BY DEF Loaded
<1>. HIDE DEF w
<1>4. /\ ThreadsTyped' /\ OthersStay(t) /\ pc'[t] = "store" /\ req'[t] = req[t]
      /\ res'[t] = res[t] /\ field'[t] = field[t] /\ limit'[t] = limit[t] /\ word'[t] = w
  BY <1>1, <1>2 DEF ThreadsTyped, OthersStay, TypeInv, TypeOK, CallsTypeOK, Goto, Pcs
<1>5. ControlOf(t)'
  BY <1>1, <1>4 DEF ControlOf, TypeInv, Control
<1>. QED  BY <1>1, <1>3, <1>4, <1>5 DEF Goes, Moved

LEMMA StoreEffect ==
  ASSUME TypeInv, NEW t \in Threads, Store(t)
  PROVE  SecStored(t) \/ \E n \in Socks : Stored(t, n)
<1>1. /\ pc[t] = "store" /\ UNCHANGED <<stack, tainted>>
      /\ attr' = [attr EXCEPT ![Target(t)] = word[t]]
      /\ IF field[t] = "tv_sec"
         THEN /\ Storing(t, "tv_msec") /\ Goto(t, "load")
              /\ UNCHANGED <<req, res, limit, held, word>>
         ELSE Ends(t, res[t])
  BY DEF Store
<1>2. /\ req[t].sock \in Socks
      /\ \/ req[t].op = "Accept"   /\ field[t] = "all" /\ res[t] \in Socks
         \/ req[t].op = "SetMode"  /\ field[t] = "ionbio"
         \/ req[t].op = "SetTimeo" /\ field[t] \in {"tv_sec", "tv_msec"}
                                   /\ req[t].val \in RcvTimeouts
      /\ limit[t] = 0
  BY <1>1 DEF TypeInv, Control, ControlOf
<1>3. CASE field[t] = "tv_sec"
  <2>1. /\ Storing(t, "tv_msec") /\ Goto(t, "load")
        /\ UNCHANGED <<req, res, limit, held, word>>
    BY <1>1, <1>3
  <2>2. req[t].op = "SetTimeo" /\ req[t].val \in RcvTimeouts
    BY <1>2, <1>3
  <2>3. attr' = [attr EXCEPT ![req[t].sock] = word[t]]
    BY <1>1, <2>2 DEF Target
  <2>4. /\ ThreadsTyped' /\ OthersStay(t) /\ pc'[t] = "load" /\ req'[t] = req[t]
        /\ field'[t] = "tv_msec" /\ limit'[t] = 0
    BY <1>2, <2>1 DEF ThreadsTyped, OthersStay, TypeInv, TypeOK, CallsTypeOK, Goto, Storing,
                      Pcs, Fields
  <2>5. ControlOf(t)'
    BY <1>2, <2>2, <2>4 DEF ControlOf
  <2>. QED  BY <1>1, <1>3, <2>1, <2>2, <2>3, <2>4, <2>5 DEF SecStored, Goes, Moved, owner
<1>4. CASE field[t] # "tv_sec"
  <2>1. Ends(t, res[t])
    BY <1>1, <1>4
  <2>2. Returned(t)
    BY <2>1, EndsReturned
  <2>3. CASE req[t].op = "Accept" /\ res[t] \in Socks
    <3>1. res[t] >= 0
      BY <2>3, SockNumbers
    <3>2. held' = held \cup {res[t]} /\ Target(t) = res[t]
      BY <2>1, <2>3, <3>1 DEF Ends, Answer, Target
    <3>. QED  BY <1>1, <1>4, <2>2, <2>3, <3>2 DEF Stored
  <2>4. CASE req[t].op \in SetOps
    <3>1. held' = held /\ Target(t) = req[t].sock
      BY <2>1, <2>4 DEF Ends, Answer, Target, SetOps
    <3>. QED  BY <1>1, <1>2, <1>4, <2>2, <2>4, <3>1 DEF Stored
  <2>. QED  BY <1>2, <2>3, <2>4 DEF SetOps
<1>. QED  BY <1>3, <1>4

LEMMA StoreTypes ==
  ASSUME TypeInv, NEW t \in Threads,
         \/ SecRead(t) \/ MsecRead(t) \/ Loaded(t) \/ SecStored(t)
         \/ \E n \in Socks : Stored(t, n)
  PROVE  TypeInv'
<1>1. Moved(t) /\ held' \subseteq Socks /\ tainted' \subseteq Socks /\ attr' \in [Socks -> Attr]
  BY DEF SecRead, MsecRead, Loaded, SecStored, Stored, Goes, Returned, owner,
         TypeInv, TypeOK, CallsTypeOK
<1>2. StackTypeOK'
  BY DEF SecRead, MsecRead, Loaded, SecStored, Stored, TypeInv, TypeOK, StackTypeOK
<1>. QED  BY <1>1, <1>2, TypeStep

-----------------------------------------------------------------------------
(***************************************************************************)
(* Every step has one of these effects.                                    *)
(***************************************************************************)
Effect ==
  \/ Stays
  \/ \E t \in Threads :
       \/ \E n \in Socks : \/ Created(t, n) \/ AcceptGiven(t, n)
                           \/ Cleared(t, n) \/ Stored(t, n)
       \/ \E op, s, v, p : Uses(t, op, s, v, p)
       \/ \E s : Closed(t, s)
       \/ \E s, v : ModeSet(t, s, v) /\ v \in Modes
       \/ \E s, v : TimeoSet(t, s, v) /\ v \in RcvTimeouts
       \/ Quits(t)
       \/ SecRead(t) \/ MsecRead(t) \/ Loaded(t) \/ SecStored(t)

LEMMA StepEffect == ASSUME TypeInv, [Next]_vars PROVE Effect
<1>1. CASE UNCHANGED vars
  BY <1>1, UnchangedStays DEF Effect
<1>2. CASE Network
  BY <1>2, StaysEffect DEF Effect
<1>3. ASSUME NEW t \in Threads, Call(t) PROVE Effect
  <2>1. CASE Create(t)
    BY <2>1, CreateEffect, UnchangedStays DEF Effect
  <2>2. ASSUME NEW s \in held \cup Strays, Bind(t, s) \/ Listen(t, s) PROVE Effect
    BY <2>2, StaysEffect DEF Effect
  <2>3. ASSUME NEW s, NEW len \in {0, 1}, Accept(t, s) \/ Connect(t, s) \/ Recv(t, s, len)
        PROVE  Effect
    BY <2>3, UsesEffect DEF Effect
  <2>4. ASSUME NEW s, NEW v \in Modes, SetMode(t, s, v) PROVE Effect
    BY <2>4, SetModeEffect DEF Effect
  <2>5. ASSUME NEW s, NEW v \in RcvTimeouts, SetTimeo(t, s, v) PROVE Effect
    BY <2>5, SetTimeoEffect DEF Effect
  <2>6. ASSUME NEW s, Close(t, s) PROVE Effect
    BY <2>6, CloseEffect DEF Effect
  <2>. QED  BY <1>3, <2>1, <2>2, <2>3, <2>4, <2>5, <2>6 DEF Call
<1>4. ASSUME NEW t \in Threads, Step(t) PROVE Effect
  <2>1. CASE Clear(t)
    BY <2>1, ClearEffect DEF Effect
  <2>2. CASE AcceptEnds(t)
    BY <2>2, AcceptEffect DEF Effect
  <2>3. CASE ConnectEnded(t) \/ Select(t) \/ RecvEnds(t)
    BY <2>3, QuitsEffect DEF Effect
  <2>4. CASE CheckSec(t) \/ CheckMsec(t)
    BY <2>4, CheckEffect DEF Effect
  <2>5. CASE Load(t)
    BY <2>5, LoadEffect DEF Effect
  <2>6. CASE Store(t)
    BY <2>6, StoreEffect DEF Effect
  <2>. QED  BY <1>4, <2>1, <2>2, <2>3, <2>4, <2>5, <2>6 DEF Step
<1>. QED  BY <1>1, <1>2, <1>3, <1>4 DEF Next

LEMMA TypeInit == Init => TypeInv
<1>. SUFFICES ASSUME Init PROVE TypeInv
  OBVIOUS
<1>. USE AttrRange, ReqRange DEF Init, StackInit, CallsInit
<1>1. Fresh("free") \in StackSock
  BY DEF Fresh, StackSock, SockStates
<1>2. TypeOK
  BY <1>1 DEF TypeOK, StackTypeOK, CallsTypeOK, Pcs, Fields, OK
<1>3. Control
  BY DEF Control, ControlOf
<1>. QED  BY <1>2, <1>3 DEF TypeInv

LEMMA TypeNext == TypeInv /\ [Next]_vars => TypeInv'
<1>. SUFFICES ASSUME TypeInv, [Next]_vars PROVE TypeInv'
  OBVIOUS
<1>1. Effect
  BY StepEffect
<1>. QED  BY <1>1, StaysTypes, CreateTypes, AcceptTypes, ClearTypes, StoreTypes, UsesTypes,
             CloseTypes, SetTypes, QuitsTypes DEF Effect

(* Every variable has its type, whatever the threads do: a socket number   *)
(* reaches the table only when it has an entry there, and what is stored   *)
(* in the bit fields fits into them (the whole file).                      *)
THEOREM TypeCorrect == Spec => []TypeOK
<1>1. TypeInv => TypeOK
  BY DEF TypeInv
<1>. QED  BY <1>1, TypeInit, TypeNext, PTL DEF Spec

-----------------------------------------------------------------------------
(***************************************************************************)
(* The copy, under the discipline.  What an effect leaves to the threads   *)
(* that do not move.                                                       *)
(***************************************************************************)
Inv == TypeInv /\ CopyInv

(* The operation of a call tells where it is and what it has.              *)
LEMMA Places ==
  ASSUME TypeInv, NEW t \in Threads
  PROVE  /\ req[t].op = "Create" => pc[t] = "clear" /\ res[t] \in Socks
         /\ req[t].op = "Close" => pc[t] = "clear" /\ req[t].sock \in Socks
         /\ req[t].op \in SetOps => pc[t] \in {"load", "store"} /\ req[t].sock \in Socks
         /\ req[t].op = "Accept" => pc[t] \in {"accept", "load", "store"}
         /\ Given(t) => res[t] \in Socks
         /\ req[t].op = "Accept" /\ pc[t] \in {"load", "store"} => req[t].sock \in Socks
<1>1. pc[t] \in Pcs
  BY DEF TypeInv, TypeOK
<1>. QED  BY <1>1 DEF TypeInv, Control, ControlOf, Pcs, NoRequest, SetOps, Given

LEMMA HeldSocks == ASSUME TypeInv PROVE held \subseteq Socks /\ Sound \subseteq held
  BY DEF TypeInv, TypeOK, CallsTypeOK, Sound

LEMMA SameWait ==
  ASSUME NEW s \in Socks, SameSock(stack[s], stack'[s])
  PROVE  OwnWait(s)' = OwnWait(s)
  BY DEF SameSock, OwnWait

(* Nothing of socket b changes that a call on it relies on.                *)
Untouched(b) == /\ SameSock(stack[b], stack'[b])
                /\ b \in tainted \/ attr'[b] = attr[b]
                /\ b \in tainted' <=> b \in tainted
                /\ b \in held' <=> b \in held

Spared(u) == /\ pc'[u] = pc[u] /\ req'[u] = req[u] /\ res'[u] = res[u]
             /\ limit'[u] = limit[u] /\ field'[u] = field[u] /\ word'[u] = word[u]
             /\ req[u].op \notin {"Create", "Close"} /\ req[u].sock \in Socks
                  => Untouched(req[u].sock)
             /\ Given(u) => Untouched(res[u])

Spares(t) == \A u \in Threads \ {t} : Spared(u)

(* The course of a thread that does not move.                              *)
LEMMA CourseStays ==
  ASSUME Inv, NEW u \in Threads, Spared(u)
  PROVE  CourseOf(u)'
<1>9. PICK s : req[u].sock = s
  OBVIOUS
<1>0. CourseOf(u) /\ TypeInv
  BY DEF Inv, CopyInv, Course
<1>1. /\ pc'[u] = pc[u] /\ req'[u] = req[u] /\ res'[u] = res[u]
      /\ limit'[u] = limit[u] /\ field'[u] = field[u] /\ word'[u] = word[u]
  BY DEF Spared
<1>. USE <1>9
<1>2. req[u].op \notin {"Create", "Close"} /\ s \in Socks => Untouched(s)
  BY DEF Spared
<1>3. Given(u) => Untouched(res[u])
  BY DEF Spared
<1>4. CreateAt(u)'
  BY <1>0, <1>1, <1>3 DEF CourseOf, CreateAt, Given, Untouched, SameSock
<1>5. AcceptAt(u)'
  <2>. SUFFICES ASSUME req[u].op = "Accept", pc[u] \in {"load", "store"}, res[u] \notin tainted'
                PROVE  /\ s \notin tainted'
                       /\ stack'[res[u]].nbio = stack'[s].nbio
                       /\ stack'[res[u]].timeo = stack'[s].timeo
                       /\ pc[u] = "store" => word[u] = attr'[s]
    BY <1>1 DEF AcceptAt
  <2>1. Untouched(s) /\ Untouched(res[u])
    BY <1>0, <1>2, <1>3, Places DEF Given
  <2>. QED  BY <1>0, <2>1 DEF CourseOf, AcceptAt, Untouched, SameSock
<1>6. ASSUME req[u].op \in SetOps, s \notin tainted'
      PROVE  /\ s \notin tainted /\ attr'[s] = attr[s]
             /\ stack'[s].nbio = stack[s].nbio /\ stack'[s].timeo = stack[s].timeo
             /\ \A a : /\ ModeCopied(a, stack'[s]) = ModeCopied(a, stack[s])
                      /\ TimeCopied(a, stack'[s]) = TimeCopied(a, stack[s])
  <2>1. Untouched(s)
    BY <1>0, <1>2, <1>6, Places DEF SetOps
  <2>. QED  BY <1>6, <2>1 DEF Untouched, SameSock, ModeCopied, TimeCopied
<1>7. SetModeAt(u)' /\ SetTimeoAt(u)'
  BY <1>0, <1>1, <1>6 DEF CourseOf, SetModeAt, SetTimeoAt, SetOps
<1>8. CheckAt(u)'
  <2>. SUFFICES ASSUME s \in Sound', pc[u] \in {"tv_sec", "tv_msec", "select"} PROVE CheckAt(u)'
    BY <1>1, Zenon DEF CheckAt
  <2>1. s \in Socks /\ req[u].op = "Recv"
    BY <1>0 DEF TypeInv, Control, ControlOf
  <2>2. Untouched(s)
    BY <1>2, <2>1
  <2>3. s \in Sound /\ attr'[s] = attr[s] /\ stack'[s].nbio = stack[s].nbio
    BY <2>2 DEF Sound, Untouched, SameSock
  <2>4. OwnWait(s)' = OwnWait(s)
    BY <2>1, <2>2, SameWait DEF Untouched
  <2>. QED  BY <1>0, <1>1, <2>3, <2>4 DEF CourseOf, CheckAt
<1>. QED  BY <1>4, <1>5, <1>7, <1>8 DEF CourseOf

LEMMA CourseStep ==
  ASSUME Inv, NEW t \in Threads, Spares(t), CourseOf(t)'
  PROVE  Course'
  BY CourseStays DEF Course, Spares

(* What thread t's own request is to be for the sockets to stay owned.     *)
Apart(t) == \A u \in Threads \ {t} :
              /\ req'[t].op \in SetOps /\ req[u].sock = req'[t].sock => req[u].op = "Close"
              /\ req[u].op \in SetOps /\ req'[t].sock = req[u].sock => req'[t].op = "Close"
Rightful(t) == req'[t].op \notin {"Create", "Close"} /\ req'[t].sock \in Socks
              => req'[t].sock \in held'
Brings(t) == Given(t)' => /\ stack'[res'[t]].st # "free" /\ res'[t] \notin held'
                          /\ \A u \in Threads \ {t} : Given(u) => res[u] # res'[t]

LEMMA OwnershipStep ==
  ASSUME Inv, NEW t \in Threads, Spares(t), Apart(t), Rightful(t), Brings(t), HeldUsed', NoClear'
  PROVE  Ownership'
<1>. USE DEF Inv, CopyInv, Ownership
<1>1. \A u \in Threads \ {t} : /\ req'[u] = req[u] /\ res'[u] = res[u] /\ pc'[u] = pc[u]
                               /\ Given(u)' = Given(u)
  BY DEF Spares, Spared, Given
<1>2. SetterAlone'
  <2>. SUFFICES ASSUME NEW u \in Threads, NEW w \in Threads, u # w, req'[u].op \in SetOps,
                       req'[w].sock = req'[u].sock
                PROVE  req'[w].op = "Close"
    BY DEF SetterAlone
  <2>1. CASE u = t
    BY <1>1, <2>1 DEF Apart
  <2>2. CASE w = t
    BY <1>1, <2>2 DEF Apart
  <2>3. CASE u # t /\ w # t
    BY <1>1, <2>3 DEF SetterAlone
  <2>. QED  BY <2>1, <2>2, <2>3
<1>3. InUse'
  <2>. SUFFICES ASSUME NEW u \in Threads, req'[u].op \notin {"Create", "Close"},
                       req'[u].sock \in Socks
                PROVE  req'[u].sock \in held'
    BY DEF InUse, Socks, First
  <2>1. CASE u = t
    BY <2>1 DEF Rightful
  <2>2. CASE u # t
    BY <1>1, <2>2 DEF InUse, Spares, Spared, Untouched
  <2>. QED  BY <2>1, <2>2
<1>4. GivenNew'
  <2>. SUFFICES ASSUME NEW u \in Threads, Given(u)'
                PROVE  /\ stack'[res'[u]].st # "free" /\ res'[u] \notin held'
                       /\ \A w \in Threads \ {u} : Given(w)' => res'[w] # res'[u]
    BY DEF GivenNew
  <2>1. CASE u = t
    BY <1>1, <2>1 DEF Brings
  <2>2. CASE u # t
    BY <1>1, <2>2 DEF GivenNew, Spares, Spared, Untouched, SameSock, Brings
  <2>. QED  BY <2>1, <2>2
<1>. QED  BY <1>2, <1>3, <1>4

LEMMA InvStep ==
  ASSUME Inv, NEW t \in Threads, Spares(t), Apart(t), Rightful(t), Brings(t), HeldUsed', NoClear',
         Settled', CourseOf(t)'
  PROVE  CopyInv'
  BY OwnershipStep, CourseStep DEF CopyInv

(* A call that begins finds no other in its way.                           *)
LEMMA BegunApart ==
  ASSUME Discipline, NEW t \in Threads, NEW op \in AllOps \ {"Create"}, NEW s,
         Undisturbed(t, op, s), req'[t].op = op, req'[t].sock = s
  PROVE  /\ Apart(t)
         /\ op # "Close" => \A u \in Threads \ {t} : req[u].sock = s => req[u].op \notin SetOps
         /\ op \in SetOps \cup {"Close"} =>
              \A u \in Threads \ {t} : req[u].sock = s => req[u].op = "Close"
  BY DEF Discipline, Undisturbed, Apart, SetOps

LEMMA SettingStays ==
  ASSUME NEW t \in Threads, OthersStay(t), NEW s,
         req[t].op \notin SetOps \/ req[t].sock # s
         \/ (req'[t].op \in SetOps /\ req'[t].sock = s)
  PROVE  Setting(s) => Setting(s)'
  BY DEF Setting, OthersStay, SetOps

(* A step that keeps the sockets, the attributes and what is held.         *)
LEMMA SparesAll ==
  ASSUME Inv, NEW t \in Threads, OthersStay(t), Keeps(stack'), UNCHANGED <<owner, attr>>
  PROVE  Spares(t) /\ HeldUsed'
<1>1. \A b \in Socks : Untouched(b)
  BY DEF Keeps, Untouched, owner
<1>2. \A u \in Threads : Given(u) => res[u] \in Socks
  BY Places DEF Inv
<1>3. HeldUsed'
  BY HeldSocks DEF Inv, CopyInv, Ownership, HeldUsed, Keeps, SameSock, owner
<1>. QED  BY <1>1, <1>2, <1>3 DEF Spares, Spared, OthersStay

LEMMA CopiedStays ==
  ASSUME NEW s \in Socks, SameSock(stack[s], stack'[s])
  PROVE  \A a : /\ ModeCopied(a, stack'[s]) = ModeCopied(a, stack[s])
                /\ TimeCopied(a, stack'[s]) = TimeCopied(a, stack[s])
  BY DEF SameSock, ModeCopied, TimeCopied

LEMMA SettledKept ==
  ASSUME Inv, Keeps(stack'), UNCHANGED <<owner, attr>>,
         \A s \in Sound : Setting(s) => Setting(s)'
  PROVE  Settled'
<1>. SUFFICES ASSUME NEW s \in Sound, ~Setting(s)'
              PROVE  ModeCopied(attr'[s], stack'[s]) /\ TimeCopied(attr'[s], stack'[s])
  BY DEF Settled, Sound, owner
<1>1. s \in Socks /\ SameSock(stack[s], stack'[s])
  BY HeldSocks DEF Inv, Keeps
<1>2. ModeCopied(attr[s], stack[s]) /\ TimeCopied(attr[s], stack[s])
  BY DEF Inv, CopyInv, Settled
<1>. QED  BY <1>1, <1>2, CopiedStays

LEMMA NoClearKept ==
  ASSUME Inv, NEW t \in Threads, OthersStay(t), Keeps(stack'), UNCHANGED owner,
         req'[t] = req[t] \/ req'[t].op # "Close"
  PROVE  NoClear'
<1>. SUFFICES ASSUME NEW u \in Threads, req'[u].op = "Close"
              PROVE  stack'[req'[u].sock].st = "free" \/ req'[u].sock \in tainted'
  BY DEF NoClear
<1>1. req'[u] = req[u]
  BY DEF OthersStay
<1>2. req[u].sock \in Socks
  BY <1>1, Places DEF Inv
<1>. QED  BY <1>1, <1>2 DEF Inv, CopyInv, Ownership, NoClear, Keeps, SameSock, owner

LEMMA StaysCopy == ASSUME Inv, Stays PROVE CopyInv'
<1>. USE DEF Stays, calls
<1>1. HeldUsed'
  BY HeldSocks DEF Inv, CopyInv, Ownership, HeldUsed, Keeps, SameSock, owner
<1>2. Settled'
  <2>1. \A s \in Sound : Setting(s) => Setting(s)'
    BY DEF Setting
  <2>. QED  BY <2>1, SettledKept
<1>3. CASE Threads = {}
  BY <1>1, <1>2, <1>3 DEF CopyInv, Ownership, SetterAlone, InUse, GivenNew, NoClear, Course
<1>4. ASSUME NEW t \in Threads PROVE CopyInv'
  <2>1. OthersStay(t)
    BY DEF OthersStay
  <2>2. Spares(t) /\ NoClear'
    BY <1>4, <2>1, SparesAll, NoClearKept
  <2>3. Spared(t)
    <3>1. \A b \in Socks : Untouched(b)
      BY DEF Keeps, Untouched, owner
    <3>2. Given(t) => res[t] \in Socks
      BY <1>4, Places DEF Inv
    <3>. QED  BY <3>1, <3>2 DEF Spared
  <2>4. CourseOf(t)'
    BY <1>4, <2>3, CourseStays
  <2>5. Apart(t) /\ Rightful(t)
    BY <1>4 DEF Inv, CopyInv, Ownership, Apart, SetterAlone, Rightful, InUse, owner
  <2>6. Brings(t)
    <3>1. Given(t)' <=> Given(t)
      BY DEF Given
    <3>2. Given(t) => res[t] \in Socks
      BY <1>4, Places DEF Inv
    <3>. QED  BY <1>4, <3>1, <3>2
              DEF Inv, CopyInv, Ownership, GivenNew, Brings, Keeps, SameSock, owner
  <2>. QED  BY <1>1, <1>2, <1>4, <2>2, <2>4, <2>5, <2>6, InvStep
<1>. QED  BY <1>3, <1>4

(* Steps that keep the sockets, the attributes and what is held.           *)
LEMMA KeptCopy ==
  ASSUME Inv, NEW t \in Threads, OthersStay(t), Keeps(stack'), UNCHANGED <<owner, attr>>,
         Apart(t), Rightful(t), Brings(t), req'[t] = req[t] \/ req'[t].op # "Close",
         req[t].op \notin SetOps \/ req'[t] = req[t], CourseOf(t)'
  PROVE  CopyInv'
<1>1. Spares(t) /\ HeldUsed' /\ NoClear'
  BY SparesAll, NoClearKept
<1>2. \A s \in Sound : Setting(s) => Setting(s)'
  BY SettingStays
<1>3. Settled'
  BY <1>2, SettledKept
<1>. QED  BY <1>1, <1>3, InvStep

(* A thread with no request has nothing in its way.                        *)
LEMMA ReturnedFree ==
  ASSUME TypeInv, NEW t \in Threads, Returned(t)
  PROVE  Apart(t) /\ Rightful(t) /\ Brings(t) /\ CourseOf(t)' /\ OthersStay(t)
<1>1. /\ req'[t].op = "none" /\ req'[t].sock = None /\ pc'[t] = "idle" /\ OthersStay(t)
  BY DEF Returned, Moved, NoRequest
<1>2. \A u \in Threads : req[u].op \in SetOps => req[u].sock # None
  BY Places, ReqRange
<1>3. Apart(t) /\ Rightful(t) /\ Brings(t)
  BY <1>1, <1>2, ReqRange DEF Apart, Rightful, Brings, Given, SetOps
<1>4. CourseOf(t)'
  BY <1>1 DEF CourseOf, CreateAt, AcceptAt, SetModeAt, SetTimeoAt, CheckAt
<1>. QED  BY <1>1, <1>3, <1>4

LEMMA QuitsCopy == ASSUME Inv, NEW t \in Threads, Quits(t) PROVE CopyInv'
<1>1. Apart(t) /\ Rightful(t) /\ Brings(t) /\ CourseOf(t)' /\ OthersStay(t)
  BY ReturnedFree DEF Quits, Inv
<1>2. req'[t].op # "Close" /\ req[t].op \notin SetOps
  BY Places DEF Quits, Returned, NoRequest, Inv, SetOps
<1>. QED  BY <1>1, <1>2, KeptCopy DEF Quits

LEMMA UsesCopy ==
  ASSUME Inv, Discipline, NEW t \in Threads, NEW op, NEW s, NEW v, NEW p, Uses(t, op, s, v, p)
  PROVE  CopyInv'
<1>1. /\ OthersStay(t) /\ pc[t] = "idle" /\ pc'[t] = p /\ limit'[t] = 0
      /\ req'[t].op = op /\ req'[t].sock = s
      /\ op \in {"Accept", "Connect", "Recv"} /\ s \in held \cup Strays
      /\ p \in {"accept", "connect", "recv", "tv_sec", "select"}
      /\ Keeps(stack') /\ UNCHANGED <<owner, attr>>
  BY DEF Uses, Entered, Moved
<1>2. Apart(t) /\ \A u \in Threads \ {t} : req[u].sock = s => req[u].op \notin SetOps
  <2>1. op \in AllOps \ {"Create"} /\ op # "Close" /\ Undisturbed(t, op, s)
    BY <1>1 DEF Uses, AllOps
  <2>. QED  BY <1>1, <2>1, BegunApart
<1>3. req[t].op = "none"
  BY <1>1 DEF Inv, TypeInv, Control, ControlOf, NoRequest
<1>4. Rightful(t) /\ Brings(t)
  BY <1>1 DEF Rightful, Brings, Given, Discipline, owner
<1>5. CheckAt(t)'
  <2>. SUFFICES ASSUME s \in Sound', p \in {"tv_sec", "select"}
                PROVE  /\ p = "tv_sec" => ~stack'[s].nbio
                       /\ p = "select" => 0 = OwnWait(s)'
    BY <1>1 DEF CheckAt
  <2>1. s \in Sound /\ s \in Socks /\ SameSock(stack[s], stack'[s])
    BY <1>1, HeldSocks DEF Sound, owner, Keeps, Inv
  <2>2. ~Setting(s)
    BY <1>2, <1>3 DEF Setting, SetOps
  <2>3. ModeCopied(attr[s], stack[s])
    BY <2>1, <2>2 DEF Inv, CopyInv, Settled
  <2>4. p = "tv_sec" => ~stack[s].nbio
    BY <2>3 DEF Uses, ModeCopied
  <2>5. p = "select" => OwnWait(s) = 0
    BY <2>3 DEF Uses, ModeCopied, OwnWait
  <2>. QED  BY <2>1, <2>4, <2>5, SameWait DEF SameSock
<1>6. CourseOf(t)'
  BY <1>1, <1>5 DEF CourseOf, CreateAt, AcceptAt, SetModeAt, SetTimeoAt
<1>7. req'[t].op # "Close" /\ req[t].op \notin SetOps
  BY <1>1, <1>3 DEF SetOps
<1>. QED  BY <1>1, <1>2, <1>4, <1>6, <1>7, KeptCopy

(* Thread t goes on with its call.                                         *)
LEMMA GoesOwned ==
  ASSUME Inv, NEW t \in Threads, req'[t] = req[t], res'[t] = res[t], Given(t)' => Given(t),
         stack' = stack, held' = held
  PROVE  Apart(t) /\ Rightful(t) /\ Brings(t)
  BY DEF Inv, CopyInv, Ownership, Apart, SetterAlone, Rightful, InUse, Brings, GivenNew

LEMMA SameSocks == TypeInv /\ UNCHANGED stack => Keeps(stack')
  BY KeepsStack DEF TypeInv, TypeOK, Keeps

(* A socket that a call other than SetOpt and Close is on has its options  *)
(* settled.                                                                *)
LEMMA SettledInUse ==
  ASSUME Inv, NEW t \in Threads, NEW s \in Socks, req[t].sock = s,
         req[t].op \notin SetOps \cup {"Create", "Close"}, s \notin tainted
  PROVE  ModeCopied(attr[s], stack[s]) /\ TimeCopied(attr[s], stack[s])
<1>1. s \in Sound
  BY DEF Inv, CopyInv, Ownership, InUse, Sound, SetOps
<1>2. ~Setting(s)
  BY DEF Inv, CopyInv, Ownership, SetterAlone, Setting, SetOps
<1>. QED  BY <1>1, <1>2 DEF Inv, CopyInv, Settled

LEMMA ReadCopy ==
  ASSUME Inv, NEW t \in Threads, SecRead(t) \/ MsecRead(t)
  PROVE  CopyInv'
<1>1. PICK s : req[t].sock = s
  OBVIOUS
<1>2. /\ OthersStay(t) /\ req'[t] = req[t] /\ UNCHANGED <<stack, owner, attr>>
      /\ pc[t] \in {"tv_sec", "tv_msec"}
  BY DEF SecRead, MsecRead, Goes, Moved
<1>3. s \in Socks /\ req[t].op = "Recv"
  BY <1>1, <1>2 DEF Inv, TypeInv, Control, ControlOf
<1>4. CheckAt(t)'
  <2>. SUFFICES ASSUME s \in Sound PROVE CheckAt(t)'
    BY <1>1, <1>2 DEF CheckAt, Sound, owner
  <2>1. ModeCopied(attr[s], stack[s]) /\ TimeCopied(attr[s], stack[s])
    BY <1>1, <1>3, SettledInUse DEF Sound, SetOps
  <2>2. ~stack[s].nbio /\ (pc[t] = "tv_msec" => limit[t] = 1000 * attr[s].tv_sec)
    BY <1>1, <1>2 DEF Inv, CopyInv, Course, CourseOf, CheckAt
  <2>3. OwnWait(s)' = OwnWait(s) /\ stack'[s].nbio = stack[s].nbio
    BY <1>2, <1>3 DEF OwnWait
  <2>4. CASE SecRead(t)
    BY <1>1, <1>2, <2>2, <2>3, <2>4 DEF SecRead, Goes, CheckAt, owner
  <2>5. CASE MsecRead(t)
    <3>1. pc'[t] = "select" /\ limit'[t] = NoTimeout(1000 * attr[s].tv_sec + attr[s].tv_msec)
      BY <1>1, <2>2, <2>5 DEF MsecRead, Goes
    <3>2. limit'[t] = NoTimeout(stack[s].timeo)
      BY <2>1, <3>1 DEF TimeCopied
    <3>3. limit'[t] = OwnWait(s)
      BY <1>3, <2>2, <3>2 DEF OwnWait, NoTimeout
    <3>. QED  BY <1>1, <1>2, <2>3, <3>1, <3>3 DEF CheckAt
  <2>. QED  BY <2>4, <2>5 DEF SecRead, MsecRead
<1>5. CourseOf(t)'
  BY <1>2, <1>3, <1>4 DEF CourseOf, CreateAt, AcceptAt, SetModeAt, SetTimeoAt
<1>6. Apart(t) /\ Rightful(t) /\ Brings(t)
  BY <1>2, <1>3 DEF Inv, CopyInv, Ownership, Apart, SetterAlone, Rightful, InUse, Brings, Given, owner
<1>7. Keeps(stack')
  BY <1>2, SameSocks DEF Inv
<1>. QED  BY <1>2, <1>5, <1>6, <1>7, KeptCopy

LEMMA LoadedCopy == ASSUME Inv, NEW t \in Threads, Loaded(t) PROVE CopyInv'
<1>1. PICK s : req[t].sock = s
  OBVIOUS
<1>2. /\ OthersStay(t) /\ req'[t] = req[t] /\ UNCHANGED <<stack, owner, attr>>
      /\ pc[t] = "load" /\ pc'[t] = "store" /\ res'[t] = res[t] /\ field'[t] = field[t]
      /\ word'[t] = Changed(attr[s], field[t], req[t].val)
  BY <1>1 DEF Loaded, Goes, Moved
<1>3. /\ s \in Socks
      /\ \/ req[t].op = "Accept"   /\ field[t] = "all"
         \/ req[t].op = "SetMode"  /\ field[t] = "ionbio"
         \/ req[t].op = "SetTimeo" /\ field[t] \in {"tv_sec", "tv_msec"}
                                   /\ req[t].val \in RcvTimeouts
  BY <1>1, <1>2 DEF Inv, TypeInv, Control, ControlOf
<1>4. attr[s] \in Attr
  BY <1>3 DEF Inv, TypeInv, TypeOK
<1>5. CourseOf(t)
  BY DEF Inv, CopyInv, Course
<1>6. AcceptAt(t)'
  <2>. SUFFICES ASSUME req[t].op = "Accept" PROVE AcceptAt(t)'
    BY <1>2 DEF AcceptAt
  <2>1. word'[t] = attr[s]
    BY <1>2, <1>3 DEF Changed
  <2>. QED  BY <1>1, <1>2, <1>5, <2>1 DEF CourseOf, AcceptAt, owner
<1>7. SetModeAt(t)'
  <2>. SUFFICES ASSUME req[t].op = "SetMode", s \notin tainted PROVE SetModeAt(t)'
    BY <1>1, <1>2 DEF SetModeAt, owner
  <2>1. /\ stack[s].nbio <=> req[t].val # 0
        /\ TimeCopied(attr[s], stack[s])
    BY <1>1, <1>5 DEF CourseOf, SetModeAt
  <2>2. word'[t] = [attr[s] EXCEPT !.ionbio = IF req[t].val = 0 THEN 0 ELSE 1]
    BY <1>2, <1>3 DEF Changed
  <2>3. /\ word'[t].ionbio = (IF req[t].val = 0 THEN 0 ELSE 1)
        /\ word'[t].tv_sec = attr[s].tv_sec /\ word'[t].tv_msec = attr[s].tv_msec
    BY <1>4, <2>2 DEF Attr
  <2>4. ModeCopied(word'[t], stack[s]) /\ TimeCopied(word'[t], stack[s])
    BY <2>1, <2>3 DEF ModeCopied, TimeCopied
  <2>. QED  BY <1>1, <1>2, <2>1, <2>4 DEF SetModeAt
<1>8. SetTimeoAt(t)'
  <2>. SUFFICES ASSUME req[t].op = "SetTimeo", s \notin tainted PROVE SetTimeoAt(t)'
    BY <1>1, <1>2 DEF SetTimeoAt, owner
  <2>. DEFINE v == req[t].val
  <2>1. /\ stack[s].timeo = v
        /\ ModeCopied(attr[s], stack[s])
        /\ field[t] = "tv_msec" => attr[s].tv_sec = v \div 1000
    BY <1>1, <1>5 DEF CourseOf, SetTimeoAt
  <2>2. /\ word'[t].ionbio = attr[s].ionbio /\ word'[t].tv_sec = v \div 1000
        /\ field[t] = "tv_msec" => word'[t].tv_msec = v % 1000
    <3>0. v \in RcvTimeouts
      BY <1>3
    <3>. HIDE DEF v
    <3>1. CASE field[t] = "tv_sec"
      <4>. DEFINE q == (v \div 1000) % SecMod
      <4>1. word'[t] = [attr[s] EXCEPT !.tv_sec = q]
        BY <1>2, <3>1 DEF Changed, v
      <4>2. q = v \div 1000
        BY <3>0, Seconds
      <4>. HIDE DEF q
      <4>3. word'[t].ionbio = attr[s].ionbio /\ word'[t].tv_sec = q
        BY <1>4, <4>1 DEF Attr
      <4>. QED  BY <3>1, <4>2, <4>3
    <3>2. CASE field[t] = "tv_msec"
      <4>. DEFINE m == v % 1000
      <4>1. word'[t] = [attr[s] EXCEPT !.tv_msec = m]
        BY <1>2, <3>2 DEF Changed, v
      <4>. HIDE DEF m
      <4>2. /\ word'[t].ionbio = attr[s].ionbio /\ word'[t].tv_sec = attr[s].tv_sec
            /\ word'[t].tv_msec = m
        BY <1>4, <4>1 DEF Attr
      <4>. QED  BY <2>1, <3>2, <4>2 DEF m, v
    <3>. QED  BY <1>3, <3>1, <3>2
  <2>3. ModeCopied(word'[t], stack[s])
    BY <2>1, <2>2 DEF ModeCopied
  <2>. QED  BY <1>1, <1>2, <2>1, <2>2, <2>3 DEF SetTimeoAt
<1>9. CourseOf(t)'
  BY <1>2, <1>3, <1>6, <1>7, <1>8 DEF CourseOf, CreateAt, CheckAt
<1>10. Given(t)' => Given(t)
  BY <1>2 DEF Given
<1>11. Apart(t) /\ Rightful(t) /\ Brings(t) /\ Keeps(stack')
  BY <1>2, <1>10, GoesOwned, SameSocks DEF owner, Inv
<1>. QED  BY <1>2, <1>9, <1>11, KeptCopy

(* A socket is handed out: nobody uses it, and it is no thread's to return.*)
LEMMA GrantsSpares ==
  ASSUME Inv, NEW t \in Threads, NEW n \in Socks, NEW nbio, NEW timeo, NEW from,
         Grants(stack', n, nbio, timeo), HandedOut(n, from), OthersStay(t), UNCHANGED <<held, attr>>
  PROVE  /\ Spares(t) /\ HeldUsed' /\ n \notin held
         /\ \A u \in Threads : Given(u) => res[u] # n
         /\ \A b \in Socks \ {n} : Untouched(b)
<1>1. \A b \in Socks \ {n} : Untouched(b)
  BY DEF Grants, KeepsOthers, HandedOut, Untouched
<1>2. n \notin held
  BY DEF Inv, CopyInv, Ownership, HeldUsed, Grants
<1>3. \A u \in Threads : Given(u) => res[u] # n /\ res[u] \in Socks
  BY Places DEF Inv, CopyInv, Ownership, GivenNew, Grants
<1>4. \A u \in Threads : req[u].op \notin {"Create", "Close"} /\ req[u].sock \in Socks
                           => req[u].sock \in Socks \ {n}
  BY <1>2 DEF Inv, CopyInv, Ownership, InUse
<1>5. Spares(t)
  BY <1>1, <1>3, <1>4 DEF Spares, Spared, OthersStay
<1>6. HeldUsed'
  BY <1>1, <1>2, HeldSocks DEF Inv, CopyInv, Ownership, HeldUsed, Untouched, SameSock
<1>. QED  BY <1>1, <1>2, <1>3, <1>5, <1>6

LEMMA GrantsNoClear ==
  ASSUME Inv, NEW t \in Threads, NEW n \in Socks, NEW nbio, NEW timeo, NEW from,
         Grants(stack', n, nbio, timeo), HandedOut(n, from), OthersStay(t),
         req'[t].op # "Close"
  PROVE  NoClear'
<1>. SUFFICES ASSUME NEW u \in Threads, req'[u].op = "Close"
              PROVE  stack'[req'[u].sock].st = "free" \/ req'[u].sock \in tainted'
  BY DEF NoClear
<1>1. req'[u] = req[u]
  BY DEF OthersStay
<1>2. req[u].sock \in Socks /\ pc[u] = "clear"
  BY <1>1, Places DEF Inv
<1>3. stack[req[u].sock].st = "free" \/ req[u].sock \in tainted
  BY <1>1 DEF Inv, CopyInv, Ownership, NoClear
<1>4. CASE req[u].sock = n
  BY <1>1, <1>2, <1>4 DEF HandedOut
<1>5. CASE req[u].sock # n
  BY <1>1, <1>2, <1>3, <1>5 DEF HandedOut, Grants, KeepsOthers, SameSock
<1>. QED  BY <1>4, <1>5

(* The options of the sockets that are held stay settled.                  *)
LEMMA SettledOthers ==
  ASSUME Inv, NEW s \in Sound, Untouched(s), Setting(s) => Setting(s)'
  PROVE  Setting(s)' \/ (ModeCopied(attr'[s], stack'[s]) /\ TimeCopied(attr'[s], stack'[s]))
<1>1. s \in Socks /\ attr'[s] = attr[s] /\ SameSock(stack[s], stack'[s])
  BY HeldSocks DEF Inv, Sound, Untouched
<1>. QED  BY <1>1, CopiedStays DEF Inv, CopyInv, Settled

LEMMA GrantsSettled ==
  ASSUME Inv, NEW t \in Threads, NEW n \in Socks, n \notin held,
         \A b \in Socks \ {n} : Untouched(b), UNCHANGED held, OthersStay(t),
         req[t].op \notin SetOps
  PROVE  Settled'
<1>. SUFFICES ASSUME NEW s \in Sound'
              PROVE  Setting(s)' \/ (ModeCopied(attr'[s], stack'[s]) /\ TimeCopied(attr'[s], stack'[s]))
  BY DEF Settled
<1>1. s \in Socks \ {n} /\ Untouched(s)
  BY HeldSocks DEF Inv, Sound
<1>2. s \in Sound
  BY <1>1 DEF Sound, Untouched
<1>. QED  BY <1>1, <1>2, SettledOthers, SettingStays

LEMMA CreateCopy ==
  ASSUME Inv, NEW t \in Threads, NEW n \in Socks, Created(t, n)
  PROVE  CopyInv'
<1>1. /\ OthersStay(t) /\ pc[t] = "idle" /\ pc'[t] = "clear" /\ res'[t] = n
      /\ req'[t].op = "Create" /\ req'[t].sock = None
      /\ Grants(stack', n, FALSE, 0) /\ HandedOut(n, None) /\ UNCHANGED <<held, attr>>
  BY DEF Created, Entered, Moved
<1>2. /\ Spares(t) /\ HeldUsed' /\ NoClear' /\ n \notin held
      /\ \A u \in Threads : Given(u) => res[u] # n
      /\ \A b \in Socks \ {n} : Untouched(b)
  BY <1>1, GrantsSpares, GrantsNoClear
<1>3. req[t].op = "none"
  BY <1>1 DEF Inv, TypeInv, Control, ControlOf, NoRequest
<1>4. Settled'
  BY <1>1, <1>2, <1>3, GrantsSettled DEF SetOps
<1>5. \A u \in Threads : req[u].op \in SetOps => req[u].sock # None
  BY Places, ReqRange DEF Inv
<1>6. Apart(t) /\ Rightful(t)
  BY <1>1, <1>5 DEF Apart, Rightful, SetOps
<1>7. Brings(t)
  BY <1>1, <1>2 DEF Brings, Grants
<1>8. CourseOf(t)'
  <2>1. CreateAt(t)'
    BY <1>1 DEF CreateAt, Grants
  <2>. QED  BY <1>1, <2>1 DEF CourseOf, AcceptAt, SetModeAt, SetTimeoAt, CheckAt
<1>. QED  BY <1>2, <1>4, <1>6, <1>7, <1>8, InvStep

LEMMA AcceptCopy ==
  ASSUME Inv, NEW t \in Threads, NEW n \in Socks, AcceptGiven(t, n)
  PROVE  CopyInv'
<1>1. PICK s : req[t].sock = s
  OBVIOUS
<1>2. /\ OthersStay(t) /\ pc[t] = "accept" /\ pc'[t] = "load" /\ res'[t] = n /\ req'[t] = req[t]
      /\ s \in Socks /\ stack[s].st = "listening"
      /\ Grants(stack', n, stack[s].nbio, stack[s].timeo)
      /\ HandedOut(n, s) /\ UNCHANGED <<held, attr>>
  BY <1>1 DEF AcceptGiven, Goes, Moved
<1>3. req[t].op = "Accept" /\ s # n
  BY <1>2 DEF Inv, TypeInv, Control, ControlOf, Grants
<1>4. /\ Spares(t) /\ HeldUsed' /\ NoClear' /\ n \notin held
      /\ \A u \in Threads : Given(u) => res[u] # n
      /\ \A b \in Socks \ {n} : Untouched(b)
  BY <1>2, <1>3, GrantsSpares, GrantsNoClear
<1>5. Settled'
  BY <1>2, <1>3, <1>4, GrantsSettled DEF SetOps
<1>6. Apart(t) /\ Rightful(t)
  BY <1>2, <1>3 DEF Inv, CopyInv, Ownership, Apart, SetterAlone, Rightful, InUse, SetOps
<1>7. Brings(t)
  BY <1>2, <1>4 DEF Brings, Grants
<1>8. CourseOf(t)'
  <2>1. AcceptAt(t)'
    <3>. SUFFICES ASSUME n \notin tainted'
                  PROVE  /\ s \notin tainted'
                         /\ stack'[n].nbio = stack'[s].nbio /\ stack'[n].timeo = stack'[s].timeo
      BY <1>1, <1>2 DEF AcceptAt
    <3>1. Untouched(s)
      BY <1>2, <1>3, <1>4
    <3>2. s \notin tainted'
      BY <1>2, <3>1 DEF HandedOut, Untouched
    <3>. QED  BY <1>2, <3>1, <3>2 DEF Grants, Untouched, SameSock
  <2>. QED  BY <1>2, <1>3, <2>1 DEF CourseOf, CreateAt, SetModeAt, SetTimeoAt, CheckAt
<1>. QED  BY <1>4, <1>5, <1>6, <1>7, <1>8, InvStep

(* A step on socket s that no other call but a Close is on.                *)
LEMMA SparesOne ==
  ASSUME Inv, NEW t \in Threads, NEW s \in Socks, s \in held, OthersStay(t),
         \A u \in Threads \ {t} : req[u].sock = s => req[u].op = "Close",
         \A b \in Socks \ {s} : Untouched(b)
  PROVE  Spares(t)
<1>1. \A u \in Threads : Given(u) => res[u] \in Socks \ {s}
  BY Places DEF Inv, CopyInv, Ownership, GivenNew
<1>. QED  BY <1>1 DEF Spares, Spared, OthersStay

LEMMA ClosedCopy ==
  ASSUME Inv, Discipline, NEW t \in Threads, NEW s, Closed(t, s)
  PROVE  CopyInv'
<1>1. /\ OthersStay(t) /\ pc[t] = "idle" /\ pc'[t] = "clear"
      /\ req'[t].op = "Close" /\ req'[t].sock = s
      /\ s \in Socks /\ s \in held /\ Undisturbed(t, "Close", s)
      /\ KeepsOthers(stack', s) /\ stack'[s].st = "free"
      /\ held' = held \ {s} /\ UNCHANGED <<tainted, attr>>
  BY DEF Closed, Entered, Moved, Discipline
<1>2. Apart(t) /\ \A u \in Threads \ {t} : req[u].sock = s => req[u].op = "Close"
  <2>1. "Close" \in AllOps \ {"Create"}
    BY DEF AllOps
  <2>. QED  BY <1>1, <2>1, BegunApart
<1>3. \A b \in Socks \ {s} : Untouched(b)
  BY <1>1 DEF KeepsOthers, Untouched
<1>4. Spares(t)
  BY <1>1, <1>2, <1>3, SparesOne
<1>5. HeldUsed'
  BY <1>1, <1>3, HeldSocks DEF Inv, CopyInv, Ownership, HeldUsed, Untouched, SameSock
<1>6. NoClear'
  <2>. SUFFICES ASSUME NEW u \in Threads, req'[u].op = "Close", req'[u].sock # s
                PROVE  stack'[req'[u].sock].st = "free" \/ req'[u].sock \in tainted'
    BY <1>1 DEF NoClear
  <2>1. req'[u] = req[u]
    BY <1>1 DEF OthersStay
  <2>2. req[u].sock \in Socks \ {s}
    BY <2>1, Places DEF Inv
  <2>. QED  BY <1>1, <1>3, <2>1, <2>2 DEF Inv, CopyInv, Ownership, NoClear, Untouched, SameSock
<1>7. Settled'
  <2>. SUFFICES ASSUME NEW b \in Sound'
                PROVE  Setting(b)' \/ (ModeCopied(attr'[b], stack'[b]) /\ TimeCopied(attr'[b], stack'[b]))
    BY DEF Settled
  <2>1. b \in Sound /\ b \in Socks \ {s} /\ Untouched(b)
    BY <1>1, <1>3, HeldSocks DEF Sound, Inv
  <2>2. req[t].op \notin SetOps
    BY <1>1 DEF Inv, TypeInv, Control, ControlOf, NoRequest, SetOps
  <2>. QED  BY <1>1, <2>1, <2>2, SettledOthers, SettingStays
<1>8. Rightful(t) /\ Brings(t) /\ CourseOf(t)'
  BY <1>1 DEF Rightful, Brings, Given, CourseOf, CreateAt, AcceptAt, SetModeAt, SetTimeoAt, CheckAt
<1>. QED  BY <1>2, <1>4, <1>5, <1>6, <1>7, <1>8, InvStep

(* The stack has a new option of socket s; the copy has the old one.       *)
LEMMA SetCopy ==
  ASSUME Inv, Discipline, NEW t \in Threads, NEW op \in SetOps, NEW s, NEW v, NEW f,
         NEW nbio, NEW timeo, SetAt(t, op, s, v, f), Sets(stack', s, nbio, timeo),
         s \notin tainted /\ ModeCopied(attr[s], stack[s]) /\ TimeCopied(attr[s], stack[s])
           => CourseOf(t)',
         s \in tainted' => CourseOf(t)'
  PROVE  CopyInv'
<1>1. /\ OthersStay(t) /\ pc[t] = "idle" /\ req'[t].op = op /\ req'[t].sock = s
      /\ s \in Socks /\ s \in held /\ Undisturbed(t, op, s)
      /\ KeepsOthers(stack', s) /\ stack'[s].st = stack[s].st
      /\ UNCHANGED <<held, tainted, attr>>
  BY DEF SetAt, Sets, Entered, Moved, Discipline, owner
<1>2. Apart(t) /\ \A u \in Threads \ {t} : req[u].sock = s => req[u].op = "Close"
  <2>1. op \in AllOps \ {"Create"}
    BY DEF AllOps, SetOps
  <2>. QED  BY <1>1, <2>1, BegunApart
<1>3. \A b \in Socks \ {s} : Untouched(b)
  BY <1>1 DEF KeepsOthers, Untouched
<1>4. Spares(t)
  BY <1>1, <1>2, <1>3, SparesOne
<1>5. HeldUsed'
  BY <1>1, <1>3, HeldSocks DEF Inv, CopyInv, Ownership, HeldUsed, Untouched, SameSock
<1>6. NoClear'
  <2>. SUFFICES ASSUME NEW u \in Threads, req'[u].op = "Close"
                PROVE  stack'[req'[u].sock].st = "free" \/ req'[u].sock \in tainted'
    BY DEF NoClear
  <2>1. req'[u] = req[u]
    BY <1>1 DEF OthersStay, SetOps
  <2>2. req[u].sock \in Socks
    BY <2>1, Places DEF Inv
  <2>3. stack'[req[u].sock].st = "free" <=> stack[req[u].sock].st = "free"
    BY <1>1, <2>2 DEF KeepsOthers, SameSock
  <2>. QED  BY <1>1, <2>1, <2>3 DEF Inv, CopyInv, Ownership, NoClear
<1>7. req[t].op = "none"
  BY <1>1 DEF Inv, TypeInv, Control, ControlOf, NoRequest
<1>8. Settled'
  <2>. SUFFICES ASSUME NEW b \in Sound'
                PROVE  Setting(b)' \/ (ModeCopied(attr'[b], stack'[b]) /\ TimeCopied(attr'[b], stack'[b]))
    BY DEF Settled
  <2>1. b \in Sound
    BY <1>1 DEF Sound
  <2>2. CASE b = s
    BY <1>1, <2>2 DEF Setting, SetOps
  <2>3. CASE b # s
    <3>1. Untouched(b)
      BY <1>3, <2>1, <2>3, HeldSocks DEF Inv
    <3>. QED  BY <1>1, <1>7, <2>1, <3>1, SettledOthers, SettingStays DEF SetOps
  <2>. QED  BY <2>2, <2>3
<1>9. Rightful(t) /\ Brings(t)
  BY <1>1 DEF Rightful, Brings, Given, SetOps
<1>10. CourseOf(t)'
  <2>1. CASE s \in tainted
    BY <1>1, <2>1
  <2>2. CASE s \notin tainted
    <3>1. s \in Sound /\ ~Setting(s)
      BY <1>1, <1>2, <1>7, <2>2 DEF Sound, Setting, SetOps
    <3>2. ModeCopied(attr[s], stack[s]) /\ TimeCopied(attr[s], stack[s])
      BY <3>1 DEF Inv, CopyInv, Settled
    <3>. QED  BY <2>2, <3>2
  <2>. QED  BY <2>1, <2>2
<1>. QED  BY <1>2, <1>4, <1>5, <1>6, <1>8, <1>9, <1>10, InvStep

LEMMA ModeSetCopy ==
  ASSUME Inv, Discipline, NEW t \in Threads, NEW s, NEW v, ModeSet(t, s, v)
  PROVE  CopyInv'
<1>1. /\ req'[t].op = "SetMode" /\ req'[t].sock = s /\ req'[t].val = v /\ pc'[t] = "load"
      /\ stack'[s].timeo = stack[s].timeo /\ attr' = attr
  BY DEF ModeSet, SetAt, Entered, Sets
<1>2. CreateAt(t)' /\ AcceptAt(t)' /\ SetTimeoAt(t)' /\ CheckAt(t)'
  BY <1>1 DEF CreateAt, AcceptAt, SetTimeoAt, CheckAt
<1>3. ASSUME TimeCopied(attr[s], stack[s]) PROVE SetModeAt(t)'
  <2>1. TimeCopied(attr'[s], stack'[s])
    BY <1>1, <1>3 DEF TimeCopied
  <2>2. stack'[s].nbio <=> v # 0
    BY Zenon DEF ModeSet, Sets
  <2>. QED  BY <1>1, <2>1, <2>2, Zenon DEF SetModeAt
<1>4. s \in tainted' => SetModeAt(t)'
  BY <1>1 DEF SetModeAt
<1>. QED  BY <1>2, <1>3, <1>4, SetCopy DEF ModeSet, CourseOf, SetOps

LEMMA TimeoSetCopy ==
  ASSUME Inv, Discipline, NEW t \in Threads, NEW s, NEW v, TimeoSet(t, s, v)
  PROVE  CopyInv'
<1>1. /\ req'[t].op = "SetTimeo" /\ req'[t].sock = s /\ req'[t].val = v /\ pc'[t] = "load"
      /\ field'[t] = "tv_sec"
      /\ stack'[s].nbio = stack[s].nbio /\ stack'[s].timeo = v /\ attr' = attr
  BY DEF TimeoSet, SetAt, Entered, Sets
<1>2. CreateAt(t)' /\ AcceptAt(t)' /\ SetModeAt(t)' /\ CheckAt(t)'
  BY <1>1 DEF CreateAt, AcceptAt, SetModeAt, CheckAt
<1>3. ASSUME ModeCopied(attr[s], stack[s]) PROVE SetTimeoAt(t)'
  BY <1>1, <1>3 DEF SetTimeoAt, ModeCopied
<1>4. s \in tainted' => SetTimeoAt(t)'
  BY <1>1 DEF SetTimeoAt
<1>. QED  BY <1>2, <1>3, <1>4, SetCopy DEF TimeoSet, CourseOf, SetOps

(* The thread that returns what it was given: all others are spared.       *)
LEMMA GivenSpares ==
  ASSUME Inv, NEW t \in Threads, NEW n, Given(t), n = res[t], OthersStay(t),
         UNCHANGED <<stack, tainted>>, held' = held \cup {n},
         \A b \in Socks \ {n} : attr'[b] = attr[b]
  PROVE  Spares(t) /\ HeldUsed' /\ \A b \in Socks \ {n} : Untouched(b)
<1>1. n \in Socks /\ n \notin held /\ stack[n].st # "free"
  BY Places DEF Inv, CopyInv, Ownership, GivenNew
<1>2. \A b \in Socks \ {n} : Untouched(b)
  <2>1. \A b \in Socks : SameSock(stack[b], stack'[b])
    BY DEF SameSock
  <2>. QED  BY <2>1 DEF Untouched
<1>3. \A u \in Threads \ {t} : Given(u) => res[u] \in Socks \ {n}
  BY Places DEF Inv, CopyInv, Ownership, GivenNew
<1>4. \A u \in Threads : req[u].op \notin {"Create", "Close"} /\ req[u].sock \in Socks
                           => req[u].sock \in Socks \ {n}
  BY <1>1 DEF Inv, CopyInv, Ownership, InUse
<1>5. HeldUsed'
  BY <1>1 DEF Inv, CopyInv, Ownership, HeldUsed
<1>. QED  BY <1>2, <1>3, <1>4, <1>5 DEF Spares, Spared, OthersStay

(* A return that leaves stack and tainted alone takes no entry to clear.   *)
LEMMA ReturnedNoClear ==
  ASSUME Inv, NEW t \in Threads, Returned(t), UNCHANGED <<stack, tainted>>
  PROVE  NoClear'
<1>. SUFFICES ASSUME NEW u \in Threads, req'[u].op = "Close"
              PROVE  stack'[req'[u].sock].st = "free" \/ req'[u].sock \in tainted'
  BY DEF NoClear
<1>1. req'[u] = req[u]
  BY DEF Returned, Moved, OthersStay, NoRequest
<1>. QED  BY <1>1 DEF Inv, CopyInv, Ownership, NoClear

(* The settled options after the return of a call on entry n.              *)
LEMMA SettledBut ==
  ASSUME Inv, NEW t \in Threads, NEW n, OthersStay(t), \A b \in Socks \ {n} : Untouched(b),
         req[t].op \in SetOps => req[t].sock = n \/ req'[t] = req[t],
         n \in Sound' => \/ Setting(n)'
                         \/ ModeCopied(attr'[n], stack'[n]) /\ TimeCopied(attr'[n], stack'[n]),
         held' \subseteq Socks
  PROVE  Settled'
<1>. SUFFICES ASSUME NEW s \in Sound', s # n
              PROVE  Setting(s)' \/ (ModeCopied(attr'[s], stack'[s]) /\ TimeCopied(attr'[s], stack'[s]))
  BY DEF Settled
<1>1. s \in Socks \ {n} /\ Untouched(s)
  BY DEF Sound
<1>2. s \in Sound
  BY <1>1 DEF Sound, Untouched
<1>3. Setting(s) => Setting(s)'
  BY SettingStays
<1>. QED  BY <1>1, <1>2, <1>3, SettledOthers

LEMMA ClearedCopy ==
  ASSUME Inv, NEW t \in Threads, NEW n, Cleared(t, n)
  PROVE  CopyInv'
<1>1. /\ n \in Socks /\ attr'[n] = NoAttr
      /\ \A b \in Socks \ {n} : attr'[b] = attr[b]
      /\ UNCHANGED <<stack, tainted>> /\ Returned(t)
  BY DEF Cleared, Inv, TypeInv, TypeOK
<1>2. Apart(t) /\ Rightful(t) /\ Brings(t) /\ CourseOf(t)' /\ OthersStay(t)
  BY <1>1, ReturnedFree DEF Inv
<1>3. NoClear'
  BY <1>1, ReturnedNoClear
<1>4. held' \subseteq Socks
  BY <1>1, HeldSocks DEF Cleared, Inv
<1>5. CASE req[t].op = "Create" /\ n = res[t] /\ held' = held \cup {n}
  <2>1. Spares(t) /\ HeldUsed' /\ \A b \in Socks \ {n} : Untouched(b)
    BY <1>1, <1>2, <1>5, GivenSpares DEF Given
  <2>2. ModeCopied(attr'[n], stack'[n]) /\ TimeCopied(attr'[n], stack'[n])
    <3>1. ~stack[n].nbio /\ stack[n].timeo = 0
      BY <1>5 DEF Inv, CopyInv, Course, CourseOf, CreateAt
    <3>2. ModeCopied(NoAttr, stack[n])
      BY <3>1 DEF ModeCopied, NoAttr
    <3>3. TimeCopied(NoAttr, stack[n])
      BY <3>1 DEF TimeCopied, NoAttr
    <3>. QED  BY <1>1, <3>2, <3>3
  <2>3. Settled'
    BY <1>2, <1>4, <1>5, <2>1, <2>2, SettledBut DEF SetOps
  <2>. QED  BY <1>2, <1>3, <2>1, <2>3, InvStep
<1>6. CASE req[t].op = "Close" /\ n = req[t].sock /\ held' = held
  <2>1. stack[n].st = "free" \/ n \in tainted
    BY <1>6 DEF Inv, CopyInv, Ownership, NoClear
  <2>2. \A b \in Socks : SameSock(stack[b], stack'[b])
    BY <1>1 DEF SameSock
  <2>3. \A b \in Socks : b # n \/ n \in tainted => Untouched(b)
    BY <1>1, <1>6, <2>2 DEF Untouched
  <2>4. \A u \in Threads : Given(u) => Untouched(res[u])
    BY <2>1, <2>3, Places DEF Inv, CopyInv, Ownership, GivenNew
  <2>5. \A u \in Threads : req[u].op \notin {"Create", "Close"} /\ req[u].sock \in Socks
                             => Untouched(req[u].sock)
    BY <2>1, <2>3 DEF Inv, CopyInv, Ownership, InUse, HeldUsed
  <2>6. Spares(t)
    BY <1>2, <2>4, <2>5 DEF Spares, Spared, OthersStay
  <2>7. HeldUsed'
    BY <1>1, <1>6 DEF Inv, CopyInv, Ownership, HeldUsed
  <2>8. n \notin Sound'
    BY <1>1, <1>6, <2>1 DEF Inv, CopyInv, Ownership, HeldUsed, Sound
  <2>9. Settled'
    BY <1>2, <1>4, <1>6, <2>3, <2>8, SettledBut DEF SetOps
  <2>. QED  BY <1>2, <1>3, <2>6, <2>7, <2>9, InvStep
<1>. QED  BY <1>5, <1>6 DEF Cleared

LEMMA SecStoredCopy ==
  ASSUME Inv, NEW t \in Threads, SecStored(t)
  PROVE  CopyInv'
<1>1. PICK s : req[t].sock = s
  OBVIOUS
<1>2. /\ OthersStay(t) /\ pc[t] = "store" /\ pc'[t] = "load" /\ req'[t] = req[t]
      /\ req[t].op = "SetTimeo" /\ field[t] = "tv_sec" /\ field'[t] = "tv_msec"
      /\ attr' = [attr EXCEPT ![s] = word[t]]
      /\ UNCHANGED <<stack, held, tainted>>
  BY <1>1 DEF SecStored, Goes, Moved, owner
<1>3. s \in Socks /\ s \in held
  BY <1>1, <1>2, Places DEF Inv, CopyInv, Ownership, InUse, SetOps
<1>4. attr'[s] = word[t] /\ \A b \in Socks \ {s} : attr'[b] = attr[b]
  BY <1>2, <1>3 DEF Inv, TypeInv, TypeOK
<1>5. \A b \in Socks \ {s} : Untouched(b)
  <2>1. \A b \in Socks : SameSock(stack[b], stack'[b])
    BY <1>2 DEF SameSock
  <2>. QED  BY <1>2, <1>4, <2>1 DEF Untouched
<1>6. \A u \in Threads \ {t} : req[u].sock = s => req[u].op = "Close"
  BY <1>1, <1>2 DEF Inv, CopyInv, Ownership, SetterAlone, SetOps
<1>7. Spares(t)
  BY <1>2, <1>3, <1>5, <1>6, SparesOne
<1>8. Apart(t) /\ Rightful(t) /\ Brings(t) /\ HeldUsed'
  BY <1>2 DEF Inv, CopyInv, Ownership, Apart, SetterAlone, Rightful, InUse, Brings, Given, HeldUsed
<1>9. NoClear'
  BY <1>2 DEF Inv, CopyInv, Ownership, NoClear, OthersStay
<1>10. Setting(s)'
  BY <1>1, <1>2 DEF Setting
<1>11. Settled'
  BY <1>2, <1>5, <1>10, HeldSocks, SettledBut DEF Inv
<1>12. CourseOf(t)'
  <2>1. SetTimeoAt(t)'
    <3>. SUFFICES ASSUME s \notin tainted PROVE SetTimeoAt(t)'
      BY <1>1, <1>2 DEF SetTimeoAt
    <3>1. /\ stack[s].timeo = req[t].val
          /\ ModeCopied(word[t], stack[s])
          /\ word[t].tv_sec = req[t].val \div 1000
      BY <1>1, <1>2 DEF Inv, CopyInv, Course, CourseOf, SetTimeoAt
    <3>. QED  BY <1>1, <1>2, <1>4, <3>1 DEF SetTimeoAt
  <2>. QED  BY <1>2, <2>1 DEF CourseOf, CreateAt, AcceptAt, SetModeAt, CheckAt
<1>. QED  BY <1>7, <1>8, <1>9, <1>11, <1>12, InvStep

LEMMA StoredCopy ==
  ASSUME Inv, NEW t \in Threads, NEW n, Stored(t, n)
  PROVE  CopyInv'
<1>1. /\ n \in Socks /\ attr'[n] = word[t] /\ pc[t] = "store" /\ field[t] # "tv_sec"
      /\ \A b \in Socks \ {n} : attr'[b] = attr[b]
      /\ UNCHANGED <<stack, tainted>> /\ Returned(t)
  BY DEF Stored, Inv, TypeInv, TypeOK
<1>2. Apart(t) /\ Rightful(t) /\ Brings(t) /\ CourseOf(t)' /\ OthersStay(t)
  BY <1>1, ReturnedFree DEF Inv
<1>3. NoClear'
  BY <1>1, ReturnedNoClear
<1>4. held' \subseteq Socks
  BY <1>1, HeldSocks DEF Stored, Inv
<1>5. CourseOf(t)
  BY DEF Inv, CopyInv, Course
<1>6. CASE req[t].op = "Accept" /\ n = res[t] /\ held' = held \cup {n}
  <2>1. Spares(t) /\ HeldUsed' /\ \A b \in Socks \ {n} : Untouched(b)
    BY <1>1, <1>2, <1>6, GivenSpares DEF Given
  <2>2. ASSUME n \notin tainted
        PROVE  ModeCopied(word[t], stack[n]) /\ TimeCopied(word[t], stack[n])
    <3>1. PICK s : req[t].sock = s
      OBVIOUS
    <3>2. /\ s \notin tainted /\ stack[n].nbio = stack[s].nbio /\ stack[n].timeo = stack[s].timeo
          /\ word[t] = attr[s]
      BY <1>1, <1>5, <1>6, <2>2, <3>1 DEF CourseOf, AcceptAt
    <3>3. s \in Socks
      BY <1>1, <1>6, <3>1, Places DEF Inv
    <3>4. ModeCopied(attr[s], stack[s]) /\ TimeCopied(attr[s], stack[s])
      BY <1>6, <3>1, <3>2, <3>3, SettledInUse DEF SetOps
    <3>. QED  BY <3>2, <3>4 DEF ModeCopied, TimeCopied
  <2>3. n \in Sound' => ModeCopied(attr'[n], stack'[n]) /\ TimeCopied(attr'[n], stack'[n])
    BY <1>1, <2>2 DEF Sound
  <2>4. Settled'
    BY <1>2, <1>4, <1>6, <2>1, <2>3, SettledBut DEF SetOps
  <2>. QED  BY <1>2, <1>3, <2>1, <2>4, InvStep
<1>7. CASE req[t].op \in SetOps /\ n = req[t].sock /\ held' = held
  <2>1. n \in held
    BY <1>1, <1>7 DEF Inv, CopyInv, Ownership, InUse, SetOps
  <2>2. \A b \in Socks \ {n} : Untouched(b)
    <3>1. \A b \in Socks : SameSock(stack[b], stack'[b])
      BY <1>1 DEF SameSock
    <3>. QED  BY <1>1, <1>7, <3>1 DEF Untouched
  <2>3. \A u \in Threads \ {t} : req[u].sock = n => req[u].op = "Close"
    BY <1>7 DEF Inv, CopyInv, Ownership, SetterAlone
  <2>4. Spares(t)
    BY <1>1, <1>2, <2>1, <2>2, <2>3, SparesOne
  <2>5. HeldUsed'
    BY <1>1, <1>7 DEF Inv, CopyInv, Ownership, HeldUsed
  <2>6. ASSUME n \notin tainted
        PROVE  ModeCopied(word[t], stack[n]) /\ TimeCopied(word[t], stack[n])
    <3>1. CASE req[t].op = "SetMode"
      BY <1>1, <1>5, <1>7, <2>6, <3>1 DEF CourseOf, SetModeAt
    <3>2. CASE req[t].op = "SetTimeo"
      <4>. DEFINE v == req[t].val
      <4>1. field[t] = "tv_msec" /\ v \in Nat
        BY <1>1, <3>2, SockNumbers DEF Inv, TypeInv, Control, ControlOf
      <4>2. /\ stack[n].timeo = v /\ ModeCopied(word[t], stack[n])
            /\ word[t].tv_sec = v \div 1000 /\ word[t].tv_msec = v % 1000
        BY <1>1, <1>5, <1>7, <2>6, <3>2, <4>1 DEF CourseOf, SetTimeoAt
      <4>. HIDE DEF v
      <4>3. 1000 * (v \div 1000) + (v % 1000) = v
        BY <4>1, Division
      <4>. QED  BY <4>2, <4>3 DEF TimeCopied
    <3>. QED  BY <1>7, <3>1, <3>2 DEF SetOps
  <2>7. n \in Sound' => ModeCopied(attr'[n], stack'[n]) /\ TimeCopied(attr'[n], stack'[n])
    BY <1>1, <2>6 DEF Sound
  <2>8. Settled'
    BY <1>2, <1>4, <1>7, <2>2, <2>7, SettledBut
  <2>. QED  BY <1>2, <1>3, <2>4, <2>5, <2>8, InvStep
<1>. QED  BY <1>6, <1>7 DEF Stored

-----------------------------------------------------------------------------
(***************************************************************************)
(* The theorems.                                                           *)
(***************************************************************************)
LEMMA CopyInit == Init => Inv
<1>. SUFFICES ASSUME Init PROVE Inv
  OBVIOUS
<1>1. held = {} /\ \A t \in Threads : req[t] = NoRequest /\ pc[t] = "idle"
  BY DEF Init, CallsInit
<1>2. \A t \in Threads : req[t].op = "none" /\ req[t].sock = None
  BY <1>1 DEF NoRequest
<1>3. Ownership
  BY <1>1, <1>2, ReqRange
     DEF Ownership, SetterAlone, InUse, HeldUsed, GivenNew, Given, NoClear, SetOps
<1>4. Settled /\ Course
  BY <1>1, <1>2 DEF Settled, Sound, Course, CourseOf, CreateAt, AcceptAt, SetModeAt, SetTimeoAt, CheckAt
<1>. QED  BY <1>3, <1>4, TypeInit DEF Inv, CopyInv

LEMMA CopyNext == ASSUME Discipline PROVE Inv /\ [Next]_vars => Inv'
<1>. SUFFICES ASSUME Inv, [Next]_vars PROVE Inv'
  OBVIOUS
<1>1. TypeInv'
  BY TypeNext DEF Inv
<1>2. Effect
  BY StepEffect DEF Inv
<1>3. CopyInv'
  BY <1>2, StaysCopy, CreateCopy, AcceptCopy, ClearedCopy, StoredCopy, UsesCopy, ClosedCopy,
     ModeSetCopy, TimeoSetCopy, QuitsCopy, ReadCopy, LoadedCopy, SecStoredCopy DEF Effect
<1>. QED  BY <1>1, <1>3 DEF Inv

(* The wait a settled copy asks for is the one of the stack.               *)
LEMMA CopiedWait ==
  ASSUME NEW s \in Socks, ModeCopied(attr[s], stack[s]), TimeCopied(attr[s], stack[s])
  PROVE  AttrWait(s) = OwnWait(s)
  BY DEF ModeCopied, TimeCopied, AttrWait, OwnWait, NoTimeout

LEMMA InvMirrored == Inv => OptionsMirrored /\ CheckWaitsLikeRecv
<1>. SUFFICES ASSUME Inv PROVE OptionsMirrored /\ CheckWaitsLikeRecv
  OBVIOUS
<1>1. OptionsMirrored
  <2>. SUFFICES ASSUME NEW s \in Sound, ~Setting(s) PROVE AttrWait(s) = OwnWait(s)
    BY DEF OptionsMirrored
  <2>1. s \in Socks
    BY HeldSocks DEF Inv
  <2>2. ModeCopied(attr[s], stack[s]) /\ TimeCopied(attr[s], stack[s])
    BY DEF Inv, CopyInv, Settled
  <2>. QED  BY <2>1, <2>2, CopiedWait
<1>2. CheckWaitsLikeRecv
  BY DEF CheckWaitsLikeRecv, Inv, CopyInv, Course, CourseOf, CheckAt
<1>. QED  BY <1>1, <1>2

(* Under the discipline the file's copy of the options of a socket is what *)
(* the stack uses, whenever no SetOpt is between the two: the stores of    *)
(* SetOpt, of Accept and of the memset of Create and Close never reach a   *)
(* socket of somebody else.                                                *)
THEOREM Mirrored == ASSUME Discipline PROVE Spec => []OptionsMirrored
<1>1. Inv /\ [Next]_vars => Inv'
  BY CopyNext
<1>2. Inv => OptionsMirrored
  BY InvMirrored
<1>. QED  BY <1>1, <1>2, CopyInit, PTL DEF Spec

(* Under the discipline a check for data waits as long as a receive would: *)
(* the two fields that socket_check_read puts together are of one timeout. *)
THEOREM ChecksWait == ASSUME Discipline PROVE Spec => []CheckWaitsLikeRecv
<1>1. Inv /\ [Next]_vars => Inv'
  BY CopyNext
<1>2. Inv => CheckWaitsLikeRecv
  BY InvMirrored
<1>. QED  BY <1>1, <1>2, CopyInit, PTL DEF Spec
=============================================================================
