----------------------------- MODULE LwipProofs ------------------------------
(***************************************************************************)
(* Theorems about LwipSocket, for any threads, numbers of sockets, modes,  *)
(* timeouts and bounds.                                                    *)
(***************************************************************************)
EXTENDS LwipSocket, ApiProofs

(* The operations that store into the attributes of their socket.          *)
WriterOps == {"Bind", "Connect", "SetMode", "SetTimeo"}

(* What the application is to respect for the copy to be right: a call     *)
(* that writes the attributes of a socket, or closes it, overlaps with no  *)
(* other call on the socket, and a number the application does not hold is *)
(* none of a socket.                                                       *)
Discipline == /\ WriterOps \cup {"Close"} \subseteq Alone
              /\ Strays \cap Socks = {}

-----------------------------------------------------------------------------
(***************************************************************************)
(* Types, and what a call has at each of its places.                       *)
(***************************************************************************)
ControlOf(t) ==
  /\ pc[t] = "idle" => req[t] = NoRequest
  /\ pc[t] = "clear" => \/ req[t].op = "Create" /\ res[t] \in Socks
                        \/ req[t].op = "Close" /\ req[t].sock \in Socks
  /\ pc[t] = "accept"  => req[t].op = "Accept"
  /\ pc[t] = "connect" => req[t].op = "Connect" /\ req[t].sock \in Socks /\ field[t] = "bound"
  /\ pc[t] = "recv"    => req[t].op = "Recv"
  /\ pc[t] = "bindFailed" => req[t].op = "Bind" /\ req[t].sock \in Socks
  /\ pc[t] = "listened"   => req[t].op = "Listen" /\ req[t].sock \in Socks
  /\ pc[t] = "sendFailed" => req[t].op = "Send" /\ req[t].sock \in Socks
  /\ pc[t] = "named"      => req[t].op = "GetSockName" /\ req[t].sock \in Socks
  /\ pc[t] \in {"tv_sec", "tv_msec", "select"} => req[t].op = "Recv" /\ req[t].sock \in Socks
  /\ pc[t] \in {"load", "store"} =>
       /\ req[t].sock \in Socks
       /\ \/ req[t].op \in {"Bind", "Connect"} /\ field[t] = "bound"
          \/ req[t].op = "SetMode"  /\ field[t] = "ionbio"
          \/ req[t].op = "SetTimeo" /\ field[t] \in {"tv_sec", "tv_msec"}
                                    /\ req[t].val \in RcvTimeouts
  /\ pc[t] = "done" => (req[t].op \in {"Create", "Accept"} /\ res[t] >= 0 => res[t] \in Socks)
  /\ pc[t] \notin {"tv_msec", "select", "done"} => limit[t] = 0

Control == \A t \in Threads : ControlOf(t)
TypeInv == TypeOK /\ Control

-----------------------------------------------------------------------------
(***************************************************************************)
(* The invariant of the copy.                                              *)
(***************************************************************************)
(* Thread t has a new socket to return, which the application does not     *)
(* hold yet: no other thread has it, and no call is made on it.            *)
Given(t) == req[t].op \in {"Create", "Accept"} /\ pc[t] \in {"clear", "done"} /\ res[t] >= 0

WriterAlone == \A t, u \in Threads :
                 t # u /\ req[t].op \in WriterOps /\ req[t].sock \in Socks
                       /\ req[u].sock = req[t].sock => req[u].op = "Close"
InUse    == \A t \in Threads :
              req[t].op \notin {"Create", "Close"} /\ req[t].sock \in Socks => req[t].sock \in held
GivenNew == \A t \in Threads :
              Given(t) => /\ stack[res[t]].st # "free" /\ res[t] \notin held
                          /\ \A u \in Threads \ {t} : Given(u) => res[u] # res[t]

Ownership == WriterAlone /\ InUse /\ GivenNew

(* A call is storing into the entry of socket s; a Close has to clear the  *)
(* entry yet.                                                              *)
Writing(t, s) == pc[t] \in {"load", "store"} /\ req[t].sock = s
Clears(t, s)  == pc[t] = "clear" /\ req[t].op = "Close" /\ req[t].sock = s

HeldUsed(s) == s \in held => stack[s].st # "free"
NoClear(s)  == (\E t \in Threads : Clears(t, s)) => stack[s].st = "free" \/ s \in tainted
Clean(s)    == stack[s].st = "free" => attr[s] = NoAttr \/ \E t \in Threads : Clears(t, s)

(* A socket of the stack that has been connected has a local address; one  *)
(* that has an address and is open was bound.                              *)
TiedNamed(s) == stack[s].st \in Tied => stack[s].named
OpenBound(s) == stack[s].st = "open" /\ stack[s].named =>
                  /\ s \in held
                  /\ \/ s \in tainted \/ attr[s].bound = 1
                     \/ \E t \in Threads : Writing(t, s) /\ req[t].op = "Bind"

(* Attributes a are those of the socket k of the stack.                    *)
ModeCopied(a, k) == a.ionbio = 1 <=> k.nbio
TimeCopied(a, k) == 1000 * a.tv_sec + a.tv_msec = k.timeo

SettledMode(s) == s \in Sound => \/ ModeCopied(attr[s], stack[s])
                                 \/ \E t \in Threads : Writing(t, s) /\ req[t].op = "SetMode"
SettledTime(s) == s \in Sound => \/ TimeCopied(attr[s], stack[s])
                                 \/ \E t \in Threads : Writing(t, s) /\ req[t].op = "SetTimeo"
FlagNamed(s)   == s \in Sound => (attr[s].bound = 1 => stack[s].named)

SocketOf(s) == /\ HeldUsed(s) /\ NoClear(s) /\ Clean(s) /\ TiedNamed(s) /\ OpenBound(s)
               /\ SettledMode(s) /\ SettledTime(s) /\ FlagNamed(s)
Sockets == \A s \in Socks : SocketOf(s)

(* How far each call is.                                                   *)
NewAt(t) == Given(t) =>
  /\ ~stack[res[t]].nbio /\ stack[res[t]].timeo = 0
  /\ pc[t] = "done" /\ res[t] \notin tainted => attr[res[t]] = NoAttr
Flag(v)  == IF v = 0 THEN 0 ELSE 1   (* the bit of a mode,        *)
Whole(v) == v \div 1000                (* the seconds of a timeout, *)
Rest(v)  == v % 1000                   (* and its milliseconds      *)

WriteAt(t) ==
  pc[t] \in {"load", "store"} =>
    LET s == req[t].sock
        v == req[t].val IN
    /\ req[t].op \in {"Bind", "Connect"} => stack[s].named
    /\ req[t].op = "SetMode"  => (stack[s].nbio <=> v # 0)
    /\ req[t].op = "SetTimeo" => stack[s].timeo = v
    /\ req[t].op = "SetTimeo" /\ field[t] = "tv_msec" /\ s \notin tainted
         => attr[s].tv_sec = Whole(v)
    /\ pc[t] = "store" /\ s \notin tainted => word[t] = Changed(attr[s], field[t], v)
CheckAt(t) ==
  req[t].sock \in Sound =>
    LET s == req[t].sock IN
    /\ pc[t] \in {"tv_sec", "tv_msec"} => ~stack[s].nbio
    /\ pc[t] = "tv_msec" => limit[t] = 1000 * attr[s].tv_sec
    /\ pc[t] = "select"  => limit[t] = OwnWait(s)
ListenAt(t) ==
  LET s == req[t].sock IN
  /\ pc[t] = "listened" => stack[s].st = "listening"
  /\ pc[t] = "done" /\ req[t].op = "Listen" /\ res[t] = OK /\ s \in Sound
       => stack[s].st = "listening" /\ stack[s].named
BindAt(t) ==
  LET s == req[t].sock IN
  /\ pc[t] = "bindFailed" => stack[s].st = "open"
  /\ pc[t] \in {"load", "store"} /\ req[t].op = "Bind" => res[t] = OK
  /\ pc[t] = "done" /\ req[t].op = "Bind" /\ res[t] = EADDRINUSE /\ s \in Sound
       => ~stack[s].named

CourseOf(t) == NewAt(t) /\ WriteAt(t) /\ CheckAt(t) /\ ListenAt(t) /\ BindAt(t)
Course == \A t \in Threads : CourseOf(t)

CopyInv == Ownership /\ Sockets /\ Course

-----------------------------------------------------------------------------
(***************************************************************************)
(* Numbers and words.                                                      *)
(***************************************************************************)
LEMMA SockNumbers == /\ Socks = 0 .. NumSocks - 1 /\ Socks \subseteq Nat
                     /\ SecMod \in Nat \ {0} /\ RcvTimeouts \subseteq Nat /\ Modes \subseteq Nat
  BY LwipAssumption, StackAssumption, CallsAssumption DEF Socks, First

LEMMA Division == \A v \in Nat : /\ v \div 1000 \in Nat /\ v % 1000 \in 0 .. 999
                                 /\ 1000 * (v \div 1000) + (v % 1000) = v
  OBVIOUS

LEMMA RemainderRange == \A n \in Nat \ {0}, a \in Nat : a % n \in 0 .. n - 1
  OBVIOUS

LEMMA RemainderOfLess == \A n \in Nat \ {0} : \A a \in 0 .. n - 1 : a % n = a
  OBVIOUS

(* The seconds of a timeout fit into their field.                          *)
LEMMA Seconds == \A v \in RcvTimeouts : (v \div 1000) % SecMod = v \div 1000
<1>. SUFFICES ASSUME NEW v \in RcvTimeouts PROVE (v \div 1000) % SecMod = v \div 1000
  OBVIOUS
<1>. DEFINE q == v \div 1000
<1>1. q \in Nat /\ q < SecMod /\ SecMod \in Nat \ {0}
  BY SockNumbers, Division, LwipAssumption
<1>. HIDE DEF q
<1>2. q \in 0 .. SecMod - 1
  BY <1>1
<1>. QED  BY <1>1, <1>2, RemainderOfLess DEF q

LEMMA FieldRange == \A v \in Nat : /\ (v \div 1000) % SecMod \in 0 .. SecMod - 1
                                   /\ v % 1000 \in 0 .. 999
  BY Division, RemainderRange, SockNumbers

(* What the store of a field changes, the timeout being one that SetOpt    *)
(* may be given when a part of it is stored.                               *)
LEMMA ChangedFields ==
  ASSUME NEW a \in Attr, NEW f \in {"ionbio", "bound", "tv_sec", "tv_msec"}, NEW v \in Nat,
         NEW c, c = Changed(a, f, v)
  PROVE  /\ c \in Attr
         /\ f # "ionbio"  => c.ionbio = a.ionbio
         /\ f # "bound"   => c.bound = a.bound
         /\ f # "tv_sec"  => c.tv_sec = a.tv_sec
         /\ f # "tv_msec" => c.tv_msec = a.tv_msec
         /\ f = "ionbio" => c.ionbio = Flag(v)
         /\ f = "bound"  => c.bound = 1
         /\ f = "tv_sec" /\ v \in RcvTimeouts => c.tv_sec = Whole(v)
         /\ f = "tv_msec" => c.tv_msec = Rest(v)
<1>. DEFINE q == (v \div 1000) % SecMod
            m == v % 1000
<1>0. Changed(a, f, v) = CASE f = "ionbio"  -> [a EXCEPT !.ionbio = IF v = 0 THEN 0 ELSE 1]
                           [] f = "bound"   -> [a EXCEPT !.bound = 1]
                           [] f = "tv_sec"  -> [a EXCEPT !.tv_sec = q]
                           [] f = "tv_msec" -> [a EXCEPT !.tv_msec = m]
  BY DEF Changed
<1>2. q \in 0 .. SecMod - 1 /\ m \in 0 .. 999
  BY FieldRange
<1>3. v \in RcvTimeouts => q = Whole(v)
  BY Seconds DEF Whole
<1>4. m = Rest(v)
  BY DEF Rest
<1>. HIDE DEF q, m
<1>1. c = CASE f = "ionbio"  -> [a EXCEPT !.ionbio = IF v = 0 THEN 0 ELSE 1]
               [] f = "bound"   -> [a EXCEPT !.bound = 1]
               [] f = "tv_sec"  -> [a EXCEPT !.tv_sec = q]
               [] f = "tv_msec" -> [a EXCEPT !.tv_msec = m]
  BY <1>0
<1>5. CASE f = "ionbio"
  <2>1. c = [a EXCEPT !.ionbio = Flag(v)]
    BY <1>1, <1>5 DEF Flag
  <2>2. /\ c.ionbio = Flag(v) /\ c.bound = a.bound
        /\ c.tv_sec = a.tv_sec /\ c.tv_msec = a.tv_msec
    BY <2>1 DEF Attr
  <2>3. Flag(v) \in {0, 1}
    BY DEF Flag
  <2>4. c \in Attr
    BY <2>1, <2>3 DEF Attr
  <2>. QED  BY <1>5, <2>2, <2>4
<1>6. CASE f = "bound"
  BY <1>1, <1>6 DEF Attr
<1>7. CASE f = "tv_sec"
  <2>1. c = [a EXCEPT !.tv_sec = q]
    BY <1>1, <1>7
  <2>2. /\ c \in Attr /\ c.ionbio = a.ionbio /\ c.bound = a.bound
        /\ c.tv_sec = q /\ c.tv_msec = a.tv_msec
    BY <1>2, <2>1 DEF Attr
  <2>. QED  BY <1>3, <1>7, <2>2
<1>8. CASE f = "tv_msec"
  <2>1. c = [a EXCEPT !.tv_msec = m]
    BY <1>1, <1>8
  <2>2. /\ c \in Attr /\ c.ionbio = a.ionbio /\ c.bound = a.bound
        /\ c.tv_sec = a.tv_sec /\ c.tv_msec = m
    BY <1>2, <2>1 DEF Attr
  <2>. QED  BY <1>4, <1>8, <2>2
<1>. QED  BY <1>5, <1>6, <1>7, <1>8

LEMMA Errors ==
  /\ \A e : ErrnoToRc(e) \in Int /\ (e # "none" => ErrnoToRc(e) < 0)
  /\ \A e : ErrnoToRc(e) = EADDRINUSE => e = "EADDRINUSE"
  BY DEF ErrnoToRc, OK, ESOCK, EINVAL, ENOMEM, EAGAIN, EINPROGRESS, ENOTCONN, EISCONN,
         ECONNRESET, ECONNABORTED, EALREADY, EADDRINUSE, EHOSTNOTFOUND, ERROR

LEMMA RcRange ==
  \A o : /\ o.n \in Int => Rc(o) \in Int /\ ConnectResult(o) \in Int
         /\ o.n \in Int /\ o.n >= 0 => Rc(o) = o.n
         /\ o.n = -1 /\ o.err # "none" => Rc(o) < 0 /\ Rc(o) # OK
         /\ o.n = -1 /\ Rc(o) = EADDRINUSE => o.err = "EADDRINUSE"
  BY Errors DEF Rc, ConnectResult, OK, ECONNREFUSED

-----------------------------------------------------------------------------
(***************************************************************************)
(* A step of thread t, and what it does to the thread.                     *)
(***************************************************************************)
ThreadsTyped == /\ pc \in [Threads -> Pcs] /\ req \in [Threads -> Request]
                /\ res \in [Threads -> Int] /\ limit \in [Threads -> Int]
                /\ field \in [Threads -> Fields] /\ word \in [Threads -> Attr]

OthersStay(t) == \A u \in Threads \ {t} :
                   /\ pc'[u] = pc[u] /\ req'[u] = req[u] /\ res'[u] = res[u]
                   /\ limit'[u] = limit[u] /\ field'[u] = field[u] /\ word'[u] = word[u]

Moved(t) == ThreadsTyped' /\ OthersStay(t) /\ ControlOf(t)'

LEMMA TypeStep ==
  ASSUME TypeInv, NEW t \in Threads, Moved(t), StackTypeOK', attr' \in [Socks -> Attr],
         held' \subseteq Socks, tainted' \subseteq Socks
  PROVE  TypeInv'
<1>1. TypeOK'
  BY DEF Moved, ThreadsTyped, TypeOK, CallsTypeOK
<1>2. ASSUME NEW u \in Threads PROVE ControlOf(u)'
  <2>1. CASE u = t
    BY <2>1 DEF Moved
  <2>2. CASE u # t
    BY <2>2 DEF Moved, OthersStay, TypeInv, Control, ControlOf
  <2>. QED  BY <2>1, <2>2
<1>. QED  BY <1>1, <1>2 DEF TypeInv, Control

LEMMA AttrRange == NoAttr \in Attr
  BY SockNumbers DEF NoAttr, Attr

LEMMA ReqRange == NoRequest \in Request /\ None \notin Socks
  BY SockNumbers DEF NoRequest, Request, SockArgs, None

LEMMA Typing ==
  ASSUME TypeInv
  PROVE  StackTypeOK /\ ThreadsTyped /\ held \subseteq Socks /\ tainted \subseteq Socks
         /\ attr \in [Socks -> Attr]
  BY DEF TypeInv, TypeOK, CallsTypeOK, ThreadsTyped

(* A call begins: r is what it holds in rc, f the field it has noted.      *)
Fits(op, s, v, r, f, p) ==
  /\ p \in {"clear", "bindFailed", "listened", "accept", "connect", "tv_sec", "select",
            "recv", "sendFailed", "named", "load", "done"}
  /\ p = "clear" => \/ op = "Create" /\ r \in Socks
                    \/ op = "Close" /\ s \in Socks
  /\ p = "accept"  => op = "Accept"
  /\ p = "connect" => op = "Connect" /\ s \in Socks /\ f = "bound"
  /\ p = "recv"    => op = "Recv"
  /\ p = "bindFailed" => op = "Bind" /\ s \in Socks
  /\ p = "listened"   => op = "Listen" /\ s \in Socks
  /\ p = "sendFailed" => op = "Send" /\ s \in Socks
  /\ p = "named"      => op = "GetSockName" /\ s \in Socks
  /\ p \in {"tv_sec", "select"} => op = "Recv" /\ s \in Socks
  /\ p = "load" => /\ s \in Socks
                   /\ \/ op = "Bind" /\ f = "bound"
                      \/ op = "SetMode"  /\ f = "ionbio"
                      \/ op = "SetTimeo" /\ f = "tv_sec" /\ v \in RcvTimeouts
  /\ p = "done" => (op \in {"Create", "Accept"} => r < 0)

Begun(t, op, s, v, r, p) ==
  /\ Moved(t) /\ pc[t] = "idle" /\ req[t].op = "none" /\ pc'[t] = p
  /\ req'[t].op = op /\ req'[t].sock = s /\ req'[t].val = v
  /\ res'[t] = r /\ limit'[t] = 0
  /\ op = "Create" \/ (s \in held \cup Strays /\ Undisturbed(t, op, s))

LEMMA BegunStep ==
  ASSUME TypeInv, NEW t \in Threads, NEW op \in AllOps, NEW s, NEW v \in Nat, NEW w,
         NEW p, NEW r \in Int, NEW f \in Fields,
         MayCall(t, op, s), Enter(t, op, s, v, w), w = WaitAtStart(s), Goto(t, p), Result(t, r),
         Storing(t, f), UNCHANGED <<limit, word>>, Fits(op, s, v, r, f, p)
  PROVE  Begun(t, op, s, v, r, p) /\ field'[t] = f
<1>1. /\ pc[t] = "idle" /\ req[t].op = "none" /\ limit[t] = 0
      /\ op = "Create" \/ (s \in held \cup Strays /\ Undisturbed(t, op, s))
  BY DEF MayCall, TypeInv, Control, ControlOf, NoRequest
<1>2. s \in SockArgs
  BY Typing DEF MayCall, SockArgs
<1>3. w \in Int
  <2>1. OwnWait(s) \in Int
    BY DEF OwnWait, Forever, TypeInv, TypeOK, StackTypeOK, StackSock
  <2>. QED  BY <2>1 DEF WaitAtStart, Forever
<1>4. [op |-> op, sock |-> s, val |-> v, wait |-> w] \in Request
  BY <1>2, <1>3 DEF Request
<1>5. p \in Pcs
  BY DEF Fits, Pcs
<1>6. /\ ThreadsTyped' /\ OthersStay(t) /\ pc'[t] = p /\ res'[t] = r /\ field'[t] = f
      /\ req'[t] = [op |-> op, sock |-> s, val |-> v, wait |-> w] /\ limit'[t] = limit[t]
  BY <1>4, <1>5, Typing DEF ThreadsTyped, OthersStay, Enter, Goto, Result, Storing
<1>7. ControlOf(t)'
  BY <1>1, <1>6 DEF Fits, ControlOf
<1>. QED  BY <1>1, <1>6, <1>7 DEF Begun, Moved

(* The same with rc or field as they were.                                 *)
LEMMA BegunQuietly ==
  ASSUME TypeInv, NEW t \in Threads
  PROVE  /\ UNCHANGED res => \E r \in Int : Result(t, r)
         /\ UNCHANGED field => \E f \in Fields : Storing(t, f)
<1>. DEFINE r == res[t]
            f == field[t]
<1>1. r \in Int /\ f \in Fields
  BY Typing DEF ThreadsTyped
<1>2. res = [res EXCEPT ![t] = r] /\ field = [field EXCEPT ![t] = f]
  BY Typing DEF ThreadsTyped
<1>. HIDE DEF r, f
<1>. QED  BY <1>1, <1>2 DEF Result, Storing

-----------------------------------------------------------------------------
(***************************************************************************)
(* The effects of the actions.                                             *)
(***************************************************************************)
Unshared == UNCHANGED <<owner, attr>>

(* A call begins and has no option, socket or address to keep up with.     *)
Begins(t) == \E op, s, v, r, p :
  /\ op \in AllOps /\ Begun(t, op, s, v, r, p) /\ KeepsAll(stack', s) /\ Unshared
  /\ op = "Create" => s = None
  /\ p \notin {"clear", "load", "store", "tv_msec"}
  /\ p = "bindFailed" => op = "Bind" /\ s \in Socks /\ stack'[s].st = "open"
  /\ p = "listened" => op = "Listen" /\ s \in Socks /\ stack'[s].st = "listening"
  /\ p = "tv_sec" => s \in Socks /\ attr[s].ionbio # 1
  /\ p = "select" => s \in Socks /\ attr[s].ionbio = 1
  /\ p = "done" => (op = "Listen" => r # OK) /\ (op = "Bind" => r # EADDRINUSE)
  /\ p = "done" /\ op \in {"Create", "Accept"} => r < 0

(* Create has a new socket, whose entry is to be cleared.                  *)
Created(t, n) == /\ Begun(t, "Create", None, 0, n, "clear") /\ HandedOut(n, None)
                 /\ Grants(stack', n, FALSE, 0) /\ UNCHANGED <<held, attr>>

LEMMA CreateEffect ==
  ASSUME TypeInv, NEW t \in Threads, Create(t)
  PROVE  Begins(t) \/ \E n \in Socks : Created(t, n)
<1>1. PICK w : w = WaitAtStart(None)
  OBVIOUS
<1>2. PICK o \in StackSocket : /\ StackCall(t, o, "clear", "done")
                               /\ IF o.n >= 0 THEN HandedOut(o.n, None) ELSE UNCHANGED tainted
  BY DEF Create
<1>3. /\ MayCall(t, "Create", None) /\ Enter(t, "Create", None, 0, w)
      /\ UNCHANGED <<limit, word, held, attr, field>>
  BY <1>1 DEF Create
<1>4. PICK f \in Fields : Storing(t, f)
  BY <1>3, BegunQuietly
<1>5. "Create" \in AllOps /\ 0 \in Nat /\ UNCHANGED <<limit, word>>
  BY <1>3 DEF AllOps
<1>6. CASE o.n = -1 /\ o.err # "none" /\ o.stack = stack
  <2>1. PICK r : r = Rc(o)
    OBVIOUS
  <2>2. r \in Int /\ r < 0
    BY <1>6, <2>1, RcRange
  <2>3. Goto(t, "done") /\ Result(t, r) /\ stack' = stack /\ UNCHANGED tainted
    BY <1>2, <1>6, <2>1 DEF StackCall
  <2>4. Fits("Create", None, 0, r, f, "done")
    BY <2>2 DEF Fits
  <2>5. Begun(t, "Create", None, 0, r, "done")
    BY <1>1, <1>3, <1>4, <1>5, <2>2, <2>3, <2>4, BegunStep
  <2>6. KeepsAll(stack', None)
    BY <2>3, KeepsSame, Typing DEF KeepsAll, Keeps, KeepsOthers, NotBound
  <2>. QED  BY <1>3, <1>5, <2>2, <2>3, <2>5, <2>6 DEF Begins, Unshared, owner
<1>7. CASE Grants(o.stack, o.n, FALSE, 0)
  <2>1. PICK n : n = o.n
    OBVIOUS
  <2>2. n \in Socks /\ n \in Int /\ n >= 0 /\ Rc(o) = n
    BY <1>7, <2>1, SockNumbers, RcRange DEF Grants
  <2>3. Goto(t, "clear") /\ Result(t, n) /\ stack' = o.stack /\ HandedOut(n, None)
    BY <1>2, <2>1, <2>2 DEF StackCall
  <2>4. Fits("Create", None, 0, n, f, "clear")
    BY <2>2 DEF Fits
  <2>5. Begun(t, "Create", None, 0, n, "clear")
    BY <1>1, <1>3, <1>4, <1>5, <2>2, <2>3, <2>4, BegunStep
  <2>. QED  BY <1>3, <1>7, <2>1, <2>2, <2>3, <2>5 DEF Created
<1>. QED  BY <1>6, <1>7, GrantsSocket, Typing

(* The stack has bound the socket, and the flag is to be stored.           *)
BindDone(t, s) == /\ Begun(t, "Bind", s, 0, OK, "load")
                  /\ Keeps(stack') /\ KeepsOthers(stack', s) /\ Unshared
                  /\ s \in Socks /\ stack'[s].named

LEMMA BindEffect ==
  ASSUME TypeInv, NEW t \in Threads, NEW s, Bind(t, s)
  PROVE  Begins(t) \/ BindDone(t, s)
<1>1. PICK w : w = WaitAtStart(s)
  OBVIOUS
<1>2. PICK o \in StackBind(s) :
        StackCall(t, o, "load", IF o.err = "EADDRINUSE" THEN "bindFailed" ELSE "done")
  BY DEF Bind
<1>3. /\ MayCall(t, "Bind", s) /\ Enter(t, "Bind", s, 0, w) /\ Storing(t, "bound")
      /\ UNCHANGED <<limit, word>> /\ Unshared
  BY <1>1 DEF Bind, Unshared
<1>4. PICK r : r = Rc(o)
  OBVIOUS
<1>5. /\ Keeps(o.stack) /\ KeepsOthers(o.stack, s)
      /\ \/ o.n = -1 /\ o.stack = stack
         \/ o.n = 0 /\ s \in Socks /\ o.stack[s].st = "open" /\ o.stack[s].named
      /\ o.err = "EADDRINUSE" => s \in Socks /\ stack[s].st = "open" /\ o.n = -1
  BY KeepsBind, Typing
<1>6. "Bind" \in AllOps /\ 0 \in Nat /\ "bound" \in Fields /\ r \in Int
  BY <1>4, <1>5, RcRange DEF AllOps, Fields
<1>7. CASE o.n = 0
  <2>1. Goto(t, "load") /\ Result(t, r) /\ stack' = o.stack
    BY <1>2, <1>4, <1>7 DEF StackCall
  <2>2. Fits("Bind", s, 0, r, "bound", "load")
    BY <1>5, <1>7 DEF Fits
  <2>3. Begun(t, "Bind", s, 0, r, "load")
    BY <1>1, <1>3, <1>6, <2>1, <2>2, BegunStep
  <2>4. r = OK
    BY <1>4, <1>7, RcRange DEF OK
  <2>. QED  BY <1>3, <1>5, <1>7, <2>1, <2>3, <2>4 DEF BindDone
<1>8. CASE o.n = -1
  <2>1. PICK p : p = (IF o.err = "EADDRINUSE" THEN "bindFailed" ELSE "done")
    OBVIOUS
  <2>2. Goto(t, p) /\ Result(t, r) /\ stack' = stack
    BY <1>2, <1>4, <1>5, <1>8, <2>1 DEF StackCall
  <2>3. Fits("Bind", s, 0, r, "bound", p)
    BY <1>5, <1>8, <2>1 DEF Fits
  <2>4. Begun(t, "Bind", s, 0, r, p)
    BY <1>1, <1>3, <1>6, <2>2, <2>3, BegunStep
  <2>5. KeepsAll(stack', s)
    BY <2>2, KeepsSame, Typing DEF KeepsAll, Keeps, KeepsOthers, NotBound
  <2>6. /\ p = "bindFailed" => s \in Socks /\ stack'[s].st = "open"
        /\ p = "done" => r # EADDRINUSE
        /\ p \in {"bindFailed", "done"}
    BY <1>4, <1>5, <1>8, <2>1, <2>2, RcRange
  <2>. QED  BY <1>3, <1>6, <2>4, <2>5, <2>6 DEF Begins
<1>. QED  BY <1>5, <1>7, <1>8

LEMMA ListenEffect ==
  ASSUME TypeInv, NEW t \in Threads, NEW s, Listen(t, s)
  PROVE  Begins(t)
<1>1. PICK w : w = WaitAtStart(s)
  OBVIOUS
<1>2. PICK o \in StackListen(s) : StackCall(t, o, "listened", "done")
  BY DEF Listen
<1>3. /\ MayCall(t, "Listen", s) /\ Enter(t, "Listen", s, 0, w)
      /\ UNCHANGED <<limit, word, field>> /\ Unshared
  BY <1>1 DEF Listen, Unshared
<1>4. PICK r : r = Rc(o)
  OBVIOUS
<1>5. PICK f \in Fields : Storing(t, f)
  BY <1>3, BegunQuietly
<1>6. PICK p : p = (IF o.n < 0 THEN "done" ELSE "listened")
  OBVIOUS
<1>7. /\ KeepsAll(o.stack, s)
      /\ \/ o.n = -1 /\ o.err # "none"
         \/ o.n = 0 /\ s \in Socks /\ o.stack[s].st = "listening"
  BY KeepsListen, Typing
<1>8. "Listen" \in AllOps /\ 0 \in Nat /\ r \in Int
  BY <1>4, <1>7, RcRange DEF AllOps
<1>9. Goto(t, p) /\ Result(t, r) /\ stack' = o.stack
  BY <1>2, <1>4, <1>6 DEF StackCall
<1>10. /\ p = "listened" => s \in Socks /\ stack'[s].st = "listening"
       /\ p = "done" => r # OK
       /\ p \in {"listened", "done"}
  BY <1>4, <1>6, <1>7, <1>9, RcRange
<1>11. Fits("Listen", s, 0, r, f, p)
  BY <1>10 DEF Fits
<1>12. UNCHANGED <<limit, word>>
  BY <1>3
<1>13. Begun(t, "Listen", s, 0, r, p)
  BY <1>1, <1>3, <1>5, <1>8, <1>9, <1>11, <1>12, BegunStep
<1>. QED  BY <1>3, <1>7, <1>8, <1>9, <1>10, <1>13 DEF Begins

LEMMA StillKeeps == ASSUME TypeInv, UNCHANGED stack PROVE \A s : KeepsAll(stack', s)
  BY KeepsSame, Typing DEF KeepsAll, Keeps, KeepsOthers, NotBound

LEMMA AcceptBegins ==
  ASSUME TypeInv, NEW t \in Threads, NEW s, Accept(t, s)
  PROVE  Begins(t)
<1>1. PICK w : w = WaitAtStart(s)
  OBVIOUS
<1>2. /\ MayCall(t, "Accept", s) /\ Enter(t, "Accept", s, 0, w) /\ Goto(t, "accept")
      /\ UNCHANGED <<limit, word>> /\ UNCHANGED <<stack, res, field>> /\ Unshared
  BY <1>1 DEF Accept, Unshared
<1>3. PICK r \in Int : Result(t, r)
  BY <1>2, BegunQuietly
<1>4. PICK f \in Fields : Storing(t, f)
  BY <1>2, BegunQuietly
<1>5. "Accept" \in AllOps /\ 0 \in Nat
  BY DEF AllOps
<1>6. Fits("Accept", s, 0, r, f, "accept")
  BY DEF Fits
<1>7. Begun(t, "Accept", s, 0, r, "accept")
  BY <1>1, <1>2, <1>3, <1>4, <1>5, <1>6, BegunStep
<1>. QED  BY <1>2, <1>5, <1>7, StillKeeps DEF Begins

LEMMA ConnectBegins ==
  ASSUME TypeInv, NEW t \in Threads, NEW s, Connect(t, s)
  PROVE  Begins(t)
<1>1. PICK w : w = WaitAtStart(s)
  OBVIOUS
<1>2. PICK o \in StackConnect(s) :
        /\ stack' = o.stack /\ Result(t, ConnectResult(o))
        /\ Goto(t, IF o.err = "EINPROGRESS" /\ ~stack[s].nbio THEN "connect" ELSE "done")
  BY DEF Connect
<1>3. /\ MayCall(t, "Connect", s) /\ Enter(t, "Connect", s, 0, w) /\ Storing(t, "bound")
      /\ UNCHANGED <<limit, word>> /\ Unshared
  BY <1>1 DEF Connect, Unshared
<1>4. KeepsAll(o.stack, s) /\ o.n = -1 /\ (o.err = "EINPROGRESS" => s \in Socks)
  BY KeepsConnect, Typing
<1>5. PICK r : r = ConnectResult(o)
  OBVIOUS
<1>6. PICK p : p = (IF o.err = "EINPROGRESS" /\ ~stack[s].nbio THEN "connect" ELSE "done")
  OBVIOUS
<1>7. "Connect" \in AllOps /\ 0 \in Nat /\ r \in Int /\ "bound" \in Fields
  BY <1>4, <1>5, RcRange DEF AllOps, Fields
<1>8. p \in {"connect", "done"} /\ (p = "connect" => s \in Socks)
  BY <1>4, <1>6
<1>9. Fits("Connect", s, 0, r, "bound", p)
  BY <1>8 DEF Fits
<1>10. Goto(t, p) /\ Result(t, r) /\ stack' = o.stack
  BY <1>2, <1>5, <1>6
<1>11. Begun(t, "Connect", s, 0, r, p)
  BY <1>1, <1>3, <1>7, <1>9, <1>10, BegunStep
<1>. QED  BY <1>3, <1>4, <1>7, <1>8, <1>10, <1>11 DEF Begins

LEMMA RecvBegins ==
  ASSUME TypeInv, NEW t \in Threads, NEW s, NEW len \in {0, 1}, Recv(t, s, len)
  PROVE  Begins(t)
<1>1. PICK w : w = WaitAtStart(s)
  OBVIOUS
<1>2. /\ MayCall(t, "Recv", s) /\ Enter(t, "Recv", s, len, w)
      /\ UNCHANGED <<limit, word>> /\ UNCHANGED <<stack, field>> /\ Unshared
  BY <1>1 DEF Recv, Unshared
<1>3. PICK f \in Fields : Storing(t, f)
  BY <1>2, BegunQuietly
<1>4. \E r \in Int, p \in {"recv", "done", "select", "tv_sec"} :
        /\ Result(t, r) /\ Goto(t, p)
        /\ p = "select" => s \in Socks /\ attr[s].ionbio = 1
        /\ p = "tv_sec" => s \in Socks /\ attr[s].ionbio # 1
  <2>1. ESOCK \in Int
    BY DEF ESOCK
  <2>2. PICK r \in Int : UNCHANGED res => Result(t, r)
    BY BegunQuietly
  <2>. QED  BY <2>1, <2>2 DEF Recv
<1>5. PICK r \in Int, p \in {"recv", "done", "select", "tv_sec"} :
        /\ Result(t, r) /\ Goto(t, p)
        /\ p = "select" => s \in Socks /\ attr[s].ionbio = 1
        /\ p = "tv_sec" => s \in Socks /\ attr[s].ionbio # 1
  BY <1>4
<1>6. "Recv" \in AllOps /\ len \in Nat
  BY DEF AllOps
<1>7. Fits("Recv", s, len, r, f, p)
  BY <1>5 DEF Fits
<1>8. Begun(t, "Recv", s, len, r, p)
  BY <1>1, <1>2, <1>3, <1>5, <1>6, <1>7, BegunStep
<1>. QED  BY <1>2, <1>5, <1>6, <1>8, StillKeeps DEF Begins

LEMMA SendBegins ==
  ASSUME TypeInv, NEW t \in Threads, NEW s, Send(t, s)
  PROVE  Begins(t)
<1>1. PICK w : w = WaitAtStart(s)
  OBVIOUS
<1>2. PICK o \in StackSend(s) :
        StackCall(t, o, "done", IF o.err = "EINPROGRESS" THEN "sendFailed" ELSE "done")
  BY DEF Send
<1>3. /\ MayCall(t, "Send", s) /\ Enter(t, "Send", s, 1, w)
      /\ UNCHANGED <<limit, word, field>> /\ Unshared
  BY <1>1 DEF Send, Unshared
<1>4. o.stack = stack /\ o.n \in {-1, 1} /\ (o.err = "EINPROGRESS" => s \in Socks)
  BY KeepsSend
<1>5. PICK f \in Fields : Storing(t, f)
  BY <1>3, BegunQuietly
<1>6. PICK r : r = Rc(o)
  OBVIOUS
<1>7. \E p \in {"done", "sendFailed"} : Goto(t, p) /\ (p = "sendFailed" => s \in Socks)
  BY <1>2, <1>4 DEF StackCall
<1>8. PICK p \in {"done", "sendFailed"} : Goto(t, p) /\ (p = "sendFailed" => s \in Socks)
  BY <1>7
<1>9. "Send" \in AllOps /\ 1 \in Nat /\ r \in Int
  BY <1>4, <1>6, RcRange DEF AllOps
<1>10. Result(t, r) /\ stack' = stack /\ UNCHANGED <<limit, word>>
  BY <1>2, <1>3, <1>4, <1>6 DEF StackCall
<1>11. Fits("Send", s, 1, r, f, p)
  BY <1>8 DEF Fits
<1>12. Begun(t, "Send", s, 1, r, p)
  BY <1>1, <1>3, <1>5, <1>8, <1>9, <1>10, <1>11, BegunStep
<1>. QED  BY <1>3, <1>8, <1>9, <1>10, <1>12, StillKeeps DEF Begins

LEMMA GetSockNameBegins ==
  ASSUME TypeInv, NEW t \in Threads, NEW s, GetSockName(t, s)
  PROVE  Begins(t)
<1>1. PICK w : w = WaitAtStart(s)
  OBVIOUS
<1>2. PICK o \in StackGetSockName(s) : StackCall(t, o, "named", "done")
  BY DEF GetSockName
<1>3. /\ MayCall(t, "GetSockName", s) /\ Enter(t, "GetSockName", s, 0, w)
      /\ UNCHANGED <<limit, word, field>> /\ Unshared
  BY <1>1 DEF GetSockName, Unshared
<1>4. o.stack = stack /\ (o.n = -1 \/ (o.n = 0 /\ s \in Socks))
  BY KeepsName
<1>5. PICK f \in Fields : Storing(t, f)
  BY <1>3, BegunQuietly
<1>6. PICK r : r = Rc(o)
  OBVIOUS
<1>7. \E p \in {"done", "named"} : Goto(t, p) /\ (p = "named" => s \in Socks)
  BY <1>2, <1>4 DEF StackCall
<1>8. PICK p \in {"done", "named"} : Goto(t, p) /\ (p = "named" => s \in Socks)
  BY <1>7
<1>9. "GetSockName" \in AllOps /\ 0 \in Nat /\ r \in Int
  BY <1>4, <1>6, RcRange DEF AllOps
<1>10. Result(t, r) /\ stack' = stack /\ UNCHANGED <<limit, word>>
  BY <1>2, <1>3, <1>4, <1>6 DEF StackCall
<1>11. Fits("GetSockName", s, 0, r, f, p)
  BY <1>8 DEF Fits
<1>12. Begun(t, "GetSockName", s, 0, r, p)
  BY <1>1, <1>3, <1>5, <1>8, <1>9, <1>10, <1>11, BegunStep
<1>. QED  BY <1>3, <1>8, <1>9, <1>10, <1>12, StillKeeps DEF Begins

(* The stack has set the option, and the copy is to be stored.             *)
ModeSet(t, s, v) == /\ \E r : Begun(t, "SetMode", s, v, r, "load")
                    /\ Sets(stack', s, v # 0, stack[s].timeo) /\ Unshared
TimeoSet(t, s, v) == /\ \E r : Begun(t, "SetTimeo", s, v, r, "load")
                     /\ field'[t] = "tv_sec" /\ v \in RcvTimeouts
                     /\ Sets(stack', s, stack[s].nbio, v) /\ Unshared

LEMMA SetModeEffect ==
  ASSUME TypeInv, NEW t \in Threads, NEW s, NEW v \in Modes, SetMode(t, s, v)
  PROVE  Begins(t) \/ ModeSet(t, s, v)
<1>1. PICK w : w = WaitAtStart(s)
  OBVIOUS
<1>2. PICK o \in StackSetMode(s, v # 0) : StackCall(t, o, "load", "done")
  BY DEF SetMode
<1>3. /\ MayCall(t, "SetMode", s) /\ Enter(t, "SetMode", s, v, w) /\ Storing(t, "ionbio")
      /\ UNCHANGED <<limit, word>> /\ Unshared
  BY <1>1 DEF SetMode, Unshared
<1>4. PICK r : r = Rc(o)
  OBVIOUS
<1>5. "SetMode" \in AllOps /\ v \in Nat /\ "ionbio" \in Fields
  BY SockNumbers DEF AllOps, Fields
<1>6. CASE o.n = -1 /\ o.stack = stack
  <2>1. Goto(t, "done") /\ Result(t, r) /\ stack' = stack /\ r \in Int
    BY <1>2, <1>4, <1>6, RcRange DEF StackCall
  <2>2. Fits("SetMode", s, v, r, "ionbio", "done")
    BY DEF Fits
  <2>3. Begun(t, "SetMode", s, v, r, "done")
    BY <1>1, <1>3, <1>5, <2>1, <2>2, BegunStep
  <2>. QED  BY <1>3, <1>5, <2>1, <2>3, StillKeeps DEF Begins
<1>7. CASE o.n = 0 /\ Sets(o.stack, s, v # 0, stack[s].timeo)
  <2>1. Goto(t, "load") /\ Result(t, r) /\ stack' = o.stack /\ r \in Int
    BY <1>2, <1>4, <1>7, RcRange DEF StackCall
  <2>2. Fits("SetMode", s, v, r, "ionbio", "load")
    BY <1>7 DEF Fits, Sets
  <2>3. Begun(t, "SetMode", s, v, r, "load")
    BY <1>1, <1>3, <1>5, <2>1, <2>2, BegunStep
  <2>. QED  BY <1>3, <1>7, <2>1, <2>3 DEF ModeSet
<1>. QED  BY <1>6, <1>7, SetsMode, Typing

LEMMA SetTimeoEffect ==
  ASSUME TypeInv, NEW t \in Threads, NEW s, NEW v \in RcvTimeouts, SetTimeo(t, s, v)
  PROVE  Begins(t) \/ TimeoSet(t, s, v)
<1>1. PICK w : w = WaitAtStart(s)
  OBVIOUS
<1>2. PICK o \in StackSetTimeo(s, v) : StackCall(t, o, "load", "done")
  BY DEF SetTimeo
<1>3. /\ MayCall(t, "SetTimeo", s) /\ Enter(t, "SetTimeo", s, v, w) /\ Storing(t, "tv_sec")
      /\ UNCHANGED <<limit, word>> /\ Unshared
  BY <1>1 DEF SetTimeo, Unshared
<1>4. PICK r : r = Rc(o)
  OBVIOUS
<1>5. "SetTimeo" \in AllOps /\ v \in Nat /\ "tv_sec" \in Fields
  BY SockNumbers DEF AllOps, Fields
<1>6. CASE o.n = -1 /\ o.stack = stack
  <2>1. Goto(t, "done") /\ Result(t, r) /\ stack' = stack /\ r \in Int
    BY <1>2, <1>4, <1>6, RcRange DEF StackCall
  <2>2. Fits("SetTimeo", s, v, r, "tv_sec", "done")
    BY DEF Fits
  <2>3. Begun(t, "SetTimeo", s, v, r, "done")
    BY <1>1, <1>3, <1>5, <2>1, <2>2, BegunStep
  <2>. QED  BY <1>3, <1>5, <2>1, <2>3, StillKeeps DEF Begins
<1>7. CASE o.n = 0 /\ Sets(o.stack, s, stack[s].nbio, v)
  <2>1. Goto(t, "load") /\ Result(t, r) /\ stack' = o.stack /\ r \in Int
    BY <1>2, <1>4, <1>7, RcRange DEF StackCall
  <2>2. Fits("SetTimeo", s, v, r, "tv_sec", "load")
    BY <1>7 DEF Fits, Sets
  <2>3. Begun(t, "SetTimeo", s, v, r, "load") /\ field'[t] = "tv_sec"
    BY <1>1, <1>3, <1>5, <2>1, <2>2, BegunStep
  <2>. QED  BY <1>3, <1>7, <2>1, <2>3 DEF TimeoSet
<1>. QED  BY <1>5, <1>6, <1>7, SetsTimeo, Typing

(* The stack has released the socket; its entry is to be cleared.          *)
Closed(t, s) == /\ \E r : Begun(t, "Close", s, 0, r, "clear")
                /\ s \in Socks /\ KeepsOthers(stack', s) /\ stack'[s].st = "free"
                /\ held' = held \ {s} /\ UNCHANGED <<tainted, attr>>

LEMMA CloseEffect ==
  ASSUME TypeInv, NEW t \in Threads, NEW s, Close(t, s)
  PROVE  Begins(t) \/ Closed(t, s)
<1>1. PICK w : w = WaitAtStart(s)
  OBVIOUS
<1>2. PICK o \in StackClose(s) : /\ StackCall(t, o, "clear", "done")
                                 /\ held' = IF o.n = 0 THEN held \ {s} ELSE held
  BY DEF Close
<1>3. /\ MayCall(t, "Close", s) /\ Enter(t, "Close", s, 0, w)
      /\ UNCHANGED <<limit, word>> /\ UNCHANGED <<tainted, attr, field>>
  BY <1>1 DEF Close
<1>4. PICK r : r = Rc(o)
  OBVIOUS
<1>5. PICK f \in Fields : Storing(t, f)
  BY <1>3, BegunQuietly
<1>6. "Close" \in AllOps /\ 0 \in Nat
  BY DEF AllOps
<1>7. CASE o.n = -1 /\ o.stack = stack
  <2>1. /\ Goto(t, "done") /\ Result(t, r) /\ stack' = stack /\ r \in Int
        /\ UNCHANGED held
    BY <1>2, <1>4, <1>7, RcRange DEF StackCall
  <2>2. Fits("Close", s, 0, r, f, "done")
    BY DEF Fits
  <2>3. Begun(t, "Close", s, 0, r, "done")
    BY <1>1, <1>3, <1>5, <1>6, <2>1, <2>2, BegunStep
  <2>. QED  BY <1>3, <1>6, <2>1, <2>3, StillKeeps DEF Begins, Unshared, owner
<1>8. CASE /\ o.n = 0 /\ s \in Socks /\ stack[s].st # "free"
           /\ KeepsOthers(o.stack, s) /\ o.stack[s].st = "free"
  <2>1. /\ Goto(t, "clear") /\ Result(t, r) /\ stack' = o.stack /\ r \in Int
        /\ held' = held \ {s}
    BY <1>2, <1>4, <1>8, RcRange DEF StackCall
  <2>2. Fits("Close", s, 0, r, f, "clear")
    BY <1>8 DEF Fits
  <2>3. Begun(t, "Close", s, 0, r, "clear")
    BY <1>1, <1>3, <1>5, <1>6, <2>1, <2>2, BegunStep
  <2>. QED  BY <1>3, <1>8, <2>1, <2>3 DEF Closed
<1>. QED  BY <1>7, <1>8, FreesClose, Typing

-----------------------------------------------------------------------------
(***************************************************************************)
(* The steps of a call in progress.                                        *)
(***************************************************************************)
Goes(t, from, to) == /\ Moved(t) /\ pc[t] = from /\ pc'[t] = to /\ req'[t] = req[t]

LEMMA InnerStep ==
  ASSUME TypeInv, NEW t \in Threads, NEW p \in Pcs, Goto(t, p), UNCHANGED req,
         UNCHANGED res \/ \E r \in Int : Result(t, r),
         UNCHANGED limit \/ \E l \in Int : limit' = [limit EXCEPT ![t] = l],
         UNCHANGED field \/ \E f \in Fields : Storing(t, f),
         UNCHANGED word \/ \E a \in Attr : word' = [word EXCEPT ![t] = a]
  PROVE  ThreadsTyped' /\ OthersStay(t) /\ pc'[t] = p /\ req'[t] = req[t]
<1>1. ThreadsTyped
  BY Typing
<1>2. /\ pc' \in [Threads -> Pcs] /\ req' \in [Threads -> Request] /\ pc'[t] = p
      /\ \A u \in Threads \ {t} : pc'[u] = pc[u] /\ req'[u] = req[u]
  BY <1>1 DEF ThreadsTyped, Goto
<1>3. res' \in [Threads -> Int] /\ \A u \in Threads \ {t} : res'[u] = res[u]
  BY <1>1 DEF ThreadsTyped, Result
<1>4. limit' \in [Threads -> Int] /\ \A u \in Threads \ {t} : limit'[u] = limit[u]
  BY <1>1 DEF ThreadsTyped
<1>5. field' \in [Threads -> Fields] /\ \A u \in Threads \ {t} : field'[u] = field[u]
  BY <1>1 DEF ThreadsTyped, Storing
<1>6. word' \in [Threads -> Attr] /\ \A u \in Threads \ {t} : word'[u] = word[u]
  BY <1>1 DEF ThreadsTyped
<1>. QED  BY <1>2, <1>3, <1>4, <1>5, <1>6 DEF ThreadsTyped, OthersStay

(* The call has its result, and no new socket.                             *)
Answers(t) ==
  LET s == req[t].sock IN
  /\ Moved(t) /\ pc'[t] = "done" /\ req'[t] = req[t]
  /\ pc[t] \in {"bindFailed", "listened", "accept", "connect", "select", "recv",
                "sendFailed", "named"}
  /\ KeepsAll(stack', s) /\ Unshared
  /\ pc[t] = "bindFailed" /\ res'[t] = EADDRINUSE => attr[s].bound # 1 /\ stack' = stack
  /\ pc[t] = "listened" /\ res'[t] = OK => attr[s].bound # 0 /\ stack' = stack
  /\ pc[t] = "accept" => res'[t] < 0

(* The connection is there, and the flag is to be stored.                  *)
Connected(t) ==
  LET s == req[t].sock IN
  /\ Goes(t, "connect", "load") /\ KeepsAll(stack', s) /\ Unshared
  /\ s \in Socks /\ stack'[s].st \in Tied

(* Accept has a new socket.                                                *)
AcceptGiven(t, n) ==
  /\ Goes(t, "accept", "done") /\ req[t].op = "Accept" /\ res'[t] = n
  /\ Grants(stack', n, FALSE, 0) /\ HandedOut(n, None) /\ UNCHANGED <<held, attr>>

LEMMA DoneControl ==
  ASSUME NEW t \in Threads, pc'[t] = "done",
         req'[t].op \in {"Create", "Accept"} /\ res'[t] >= 0 => res'[t] \in Socks
  PROVE  ControlOf(t)'
  BY DEF ControlOf, Socks, First

LEMMA CodeNumbers == \A e \in {OK, ESOCK, EINVAL, EAGAIN, EINPROGRESS, EADDRINUSE} : e \in Int
  BY DEF OK, ESOCK, EINVAL, EAGAIN, EINPROGRESS, EADDRINUSE

LEMMA ReadersAnswer ==
  ASSUME TypeInv, NEW t \in Threads,
         BindFailed(t) \/ Listened(t) \/ Select(t) \/ SendFailed(t) \/ Named(t)
  PROVE  Answers(t)
<1>1. /\ pc[t] \in {"bindFailed", "listened", "select", "sendFailed", "named"}
      /\ Goto(t, "done") /\ "done" \in Pcs
      /\ UNCHANGED <<stack, req, limit, owner, attr, field, word>>
  BY DEF BindFailed, Listened, Select, SendFailed, Named, Pcs
<1>2. \E r \in Int : Result(t, r)
  <2>1. CASE BindFailed(t)
    BY <2>1, CodeNumbers DEF BindFailed
  <2>2. CASE Listened(t)
    BY <2>2, CodeNumbers DEF Listened
  <2>3. CASE Select(t)
    BY <2>3, CodeNumbers DEF Select
  <2>4. CASE SendFailed(t)
    BY <2>4, CodeNumbers DEF SendFailed
  <2>5. CASE Named(t)
    BY <2>5, CodeNumbers DEF Named
  <2>. QED  BY <2>1, <2>2, <2>3, <2>4, <2>5
<1>3. ThreadsTyped' /\ OthersStay(t) /\ pc'[t] = "done" /\ req'[t] = req[t]
  BY <1>1, <1>2, InnerStep
<1>4. req[t].op \notin {"Create", "Accept"}
  BY <1>1 DEF TypeInv, Control, ControlOf
<1>5. ControlOf(t)'
  BY <1>3, <1>4, DoneControl
<1>6. pc[t] = "bindFailed" /\ res'[t] = EADDRINUSE => attr[req[t].sock].bound # 1
  <2>. SUFFICES ASSUME pc[t] = "bindFailed", res'[t] = EADDRINUSE, attr[req[t].sock].bound = 1
                PROVE  FALSE
    OBVIOUS
  <2>1. Result(t, EINVAL)
    BY DEF BindFailed, Listened, Select, SendFailed, Named
  <2>. QED  BY <2>1, Typing DEF Result, ThreadsTyped, EINVAL, EADDRINUSE
<1>7. pc[t] = "listened" /\ res'[t] = OK => attr[req[t].sock].bound # 0
  <2>. SUFFICES ASSUME pc[t] = "listened", res'[t] = OK, attr[req[t].sock].bound = 0
                PROVE  FALSE
    OBVIOUS
  <2>1. Result(t, EINVAL)
    BY DEF BindFailed, Listened, Select, SendFailed, Named
  <2>. QED  BY <2>1, Typing DEF Result, ThreadsTyped, EINVAL, OK
<1>8. KeepsAll(stack', req[t].sock)
  BY <1>1, StillKeeps
<1>. QED  BY <1>1, <1>3, <1>5, <1>6, <1>7, <1>8 DEF Answers, Moved, Unshared

LEMMA RecvAnswers == ASSUME TypeInv, NEW t \in Threads, RecvEnds(t) PROVE Answers(t)
<1>1. PICK s : req[t].sock = s
  OBVIOUS
<1>2. PICK o \in StackRecv(s) : StackCall(t, o, "done", "done")
  BY <1>1 DEF RecvEnds
<1>3. /\ pc[t] = "recv" /\ UNCHANGED <<req, limit, field, word>> /\ Unshared
  BY DEF RecvEnds, Unshared
<1>4. KeepsAll(o.stack, s) /\ o.n \in Int
  BY KeepsRecv, Typing
<1>5. /\ Goto(t, "done") /\ "done" \in Pcs /\ stack' = o.stack
      /\ \E r \in Int : Result(t, r)
  BY <1>2, <1>4, RcRange DEF StackCall, Pcs
<1>6. ThreadsTyped' /\ OthersStay(t) /\ pc'[t] = "done" /\ req'[t] = req[t]
  BY <1>3, <1>5, InnerStep
<1>7. ControlOf(t)'
  <2>1. req[t].op = "Recv"
    BY <1>3 DEF TypeInv, Control, ControlOf
  <2>. QED  BY <1>6, <2>1, DoneControl
<1>. QED  BY <1>1, <1>3, <1>4, <1>5, <1>6, <1>7 DEF Answers, Moved

LEMMA ConnectEffect ==
  ASSUME TypeInv, NEW t \in Threads, ConnectEnded(t)
  PROVE  Answers(t) \/ Connected(t)
<1>1. PICK s : req[t].sock = s
  OBVIOUS
<1>2. PICK o \in StackConnected(s) :
        /\ stack' = o.stack /\ Result(t, ConnectResult(o))
        /\ Goto(t, IF o.n = 0 THEN "load" ELSE "done")
  BY <1>1 DEF ConnectEnded
<1>3. /\ pc[t] = "connect" /\ UNCHANGED <<req, limit, field, word>> /\ Unshared
  BY DEF ConnectEnded, Unshared
<1>4. /\ KeepsAll(o.stack, s)
      /\ o.n = -1 \/ (o.n = 0 /\ s \in Socks /\ o.stack[s].st \in Tied)
  BY KeepsConnected, Typing
<1>5. /\ req[t].op = "Connect" /\ s \in Socks /\ field[t] = "bound" /\ limit[t] = 0
  BY <1>1, <1>3 DEF TypeInv, Control, ControlOf
<1>6. \E r \in Int : Result(t, r)
  BY <1>2, <1>4, RcRange
<1>7. PICK p \in Pcs : Goto(t, p) /\ p = IF o.n = 0 THEN "load" ELSE "done"
  BY <1>2 DEF Pcs
<1>8. ThreadsTyped' /\ OthersStay(t) /\ pc'[t] = p /\ req'[t] = req[t]
  BY <1>3, <1>6, <1>7, InnerStep
<1>9. CASE o.n = 0
  <2>1. ControlOf(t)'
    BY <1>1, <1>3, <1>5, <1>7, <1>8, <1>9 DEF ControlOf, Socks, First
  <2>. QED  BY <1>1, <1>2, <1>3, <1>4, <1>7, <1>8, <1>9, <2>1 DEF Connected, Goes, Moved
<1>10. CASE o.n = -1
  <2>1. ControlOf(t)'
    BY <1>5, <1>7, <1>8, <1>10, DoneControl
  <2>. QED  BY <1>1, <1>2, <1>3, <1>4, <1>7, <1>8, <1>10, <2>1 DEF Answers, Moved
<1>. QED  BY <1>4, <1>9, <1>10

LEMMA AcceptEffect ==
  ASSUME TypeInv, NEW t \in Threads, AcceptEnds(t)
  PROVE  Answers(t) \/ \E n \in Socks : AcceptGiven(t, n)
<1>1. PICK s : req[t].sock = s
  OBVIOUS
<1>2. PICK o \in StackAccept(s) :
        /\ StackCall(t, o, "done", "done")
        /\ IF o.n >= 0 THEN HandedOut(o.n, None) ELSE UNCHANGED tainted
  BY <1>1 DEF AcceptEnds
<1>3. /\ pc[t] = "accept" /\ req[t].op = "Accept"
      /\ UNCHANGED <<req, limit, field, word>> /\ UNCHANGED <<held, attr>>
  BY DEF AcceptEnds, TypeInv, Control, ControlOf
<1>4. Goto(t, "done") /\ Result(t, Rc(o)) /\ stack' = o.stack /\ "done" \in Pcs
  BY <1>2 DEF StackCall, Pcs
<1>5. CASE o.n = -1 /\ o.err # "none" /\ o.stack = stack
  <2>1. PICK r : r = Rc(o)
    OBVIOUS
  <2>2. r \in Int /\ r < 0
    BY <1>5, <2>1, RcRange
  <2>3. ThreadsTyped' /\ OthersStay(t) /\ pc'[t] = "done" /\ req'[t] = req[t]
    BY <1>3, <1>4, <2>1, <2>2, InnerStep
  <2>4. res'[t] = r
    BY <1>4, <2>1, Typing DEF Result, ThreadsTyped
  <2>5. ~(r >= 0)
    BY <2>2
  <2>6. ControlOf(t)'
    BY <2>3, <2>4, <2>5, DoneControl
  <2>7. UNCHANGED owner
    BY <1>2, <1>3, <1>5 DEF owner
  <2>. QED  BY <1>1, <1>3, <1>4, <1>5, <2>2, <2>3, <2>4, <2>6, <2>7, StillKeeps
            DEF Answers, Moved, Unshared
<1>6. CASE /\ s \in Socks /\ stack[s].st = "listening"
           /\ Grants(o.stack, o.n, Accepted(s).nbio, Accepted(s).timeo)
  <2>1. PICK n : n = o.n
    OBVIOUS
  <2>2. n \in Socks /\ n \in Int /\ n >= 0 /\ Rc(o) = n
    BY <1>6, <2>1, SockNumbers, RcRange DEF Grants
  <2>3. Accepted(s).nbio = FALSE /\ Accepted(s).timeo = 0
    BY LwipAssumption DEF Accepted, Fresh
  <2>4. ThreadsTyped' /\ OthersStay(t) /\ pc'[t] = "done" /\ req'[t] = req[t]
    BY <1>3, <1>4, <2>2, InnerStep
  <2>5. res'[t] = n
    BY <1>4, <2>2, Typing DEF Result, ThreadsTyped
  <2>6. ControlOf(t)'
    BY <2>2, <2>4, <2>5, DoneControl
  <2>7. HandedOut(n, None)
    BY <1>2, <2>1, <2>2
  <2>. QED  BY <1>3, <1>4, <1>6, <2>1, <2>2, <2>3, <2>4, <2>5, <2>6, <2>7
            DEF AcceptGiven, Goes, Moved
<1>. QED  BY <1>5, <1>6, GrantsAccept, Typing

(* socket_check_read reads the two fields of the timeout.                  *)
SecRead(t) == /\ Goes(t, "tv_sec", "tv_msec")
              /\ limit'[t] = 1000 * attr[req[t].sock].tv_sec
              /\ UNCHANGED stack /\ Unshared
MsecRead(t) == /\ Goes(t, "tv_msec", "select")
               /\ limit'[t] = NoTimeout(limit[t] + attr[req[t].sock].tv_msec)
               /\ UNCHANGED stack /\ Unshared

LEMMA AttrNumbers ==
  \A a \in Attr : /\ a.tv_sec \in Nat /\ a.tv_msec \in 0 .. 999
                  /\ a.ionbio \in {0, 1} /\ a.bound \in {0, 1}
<1>. SUFFICES ASSUME NEW a \in Attr
              PROVE  /\ a.tv_sec \in Nat /\ a.tv_msec \in 0 .. 999
                     /\ a.ionbio \in {0, 1} /\ a.bound \in {0, 1}
  OBVIOUS
<1>1. SecMod \in Nat
  BY SockNumbers
<1>2. /\ a.tv_sec \in 0 .. SecMod - 1 /\ a.tv_msec \in 0 .. 999
      /\ a.ionbio \in {0, 1} /\ a.bound \in {0, 1}
  BY Zenon DEF Attr
<1>3. ASSUME NEW n \in Nat, NEW m \in 0 .. n - 1 PROVE m \in Nat
  BY <1>3
<1>. QED  BY <1>1, <1>2, <1>3

LEMMA CheckEffect ==
  ASSUME TypeInv, NEW t \in Threads
  PROVE  /\ CheckSec(t) => SecRead(t)
         /\ CheckMsec(t) => MsecRead(t)
<1>1. ASSUME NEW from \in {"tv_sec", "tv_msec"}, NEW to \in {"tv_msec", "select"}, NEW l \in Int,
             pc[t] = from, Goto(t, to), limit' = [limit EXCEPT ![t] = l],
             UNCHANGED <<stack, req, res, owner, attr, field, word>>
      PROVE  Goes(t, from, to) /\ limit'[t] = l /\ UNCHANGED stack /\ Unshared
  <2>1. to \in Pcs
    BY DEF Pcs
  <2>2. ThreadsTyped' /\ OthersStay(t) /\ pc'[t] = to /\ req'[t] = req[t]
    BY <1>1, <2>1, InnerStep
  <2>3. limit'[t] = l
    BY <1>1, Typing DEF ThreadsTyped
  <2>4. ControlOf(t)'
    BY <1>1, <2>2 DEF TypeInv, Control, ControlOf, Socks, First
  <2>. QED  BY <1>1, <2>2, <2>3, <2>4 DEF Goes, Moved, Unshared
<1>2. ASSUME CheckSec(t) PROVE SecRead(t)
  <2>. DEFINE l == 1000 * attr[req[t].sock].tv_sec
  <2>1. l \in Int
    <3>1. req[t].sock \in Socks
      BY <1>2 DEF CheckSec, TypeInv, Control, ControlOf
    <3>2. attr[req[t].sock].tv_sec \in Int
      BY <3>1, AttrNumbers, Typing
    <3>. QED  BY <3>2
  <2>2. /\ pc[t] = "tv_sec" /\ Goto(t, "tv_msec") /\ limit' = [limit EXCEPT ![t] = l]
        /\ UNCHANGED <<stack, req, res, owner, attr, field, word>>
    BY <1>2 DEF CheckSec
  <2>3. "tv_sec" \in {"tv_sec", "tv_msec"} /\ "tv_msec" \in {"tv_msec", "select"}
    OBVIOUS
  <2>4. l = 1000 * attr[req[t].sock].tv_sec
    OBVIOUS
  <2>. HIDE DEF l
  <2>5. Goes(t, "tv_sec", "tv_msec") /\ limit'[t] = l /\ UNCHANGED stack /\ Unshared
    BY <1>1, <2>1, <2>2, <2>3
  <2>. QED  BY <2>4, <2>5 DEF SecRead
<1>3. ASSUME CheckMsec(t) PROVE MsecRead(t)
  <2>. DEFINE l == NoTimeout(limit[t] + attr[req[t].sock].tv_msec)
  <2>1. l \in Int
    <3>1. req[t].sock \in Socks
      BY <1>3 DEF CheckMsec, TypeInv, Control, ControlOf
    <3>2. attr[req[t].sock].tv_msec \in 0 .. 999
      BY <3>1, AttrNumbers, Typing
    <3>3. limit[t] \in Int
      BY Typing DEF ThreadsTyped
    <3>4. \A a \in Int, b \in 0 .. 999 : NoTimeout(a + b) \in Int
      BY DEF NoTimeout, Forever
    <3>. QED  BY <3>2, <3>3, <3>4
  <2>2. /\ pc[t] = "tv_msec" /\ Goto(t, "select") /\ limit' = [limit EXCEPT ![t] = l]
        /\ UNCHANGED <<stack, req, res, owner, attr, field, word>>
    BY <1>3, Typing DEF CheckMsec, ThreadsTyped
  <2>3. "tv_msec" \in {"tv_sec", "tv_msec"} /\ "select" \in {"tv_msec", "select"}
    OBVIOUS
  <2>4. l = NoTimeout(limit[t] + attr[req[t].sock].tv_msec)
    OBVIOUS
  <2>. HIDE DEF l
  <2>5. Goes(t, "tv_msec", "select") /\ limit'[t] = l /\ UNCHANGED stack /\ Unshared
    BY <1>1, <2>1, <2>2, <2>3
  <2>. QED  BY <2>4, <2>5 DEF MsecRead
<1>. QED  BY <1>2, <1>3

(* A field of the attributes is stored, the word loaded first.             *)
Loaded(t) == /\ Goes(t, "load", "store") /\ res'[t] = res[t] /\ field'[t] = field[t]
             /\ word'[t] = Changed(attr[req[t].sock], field[t], req[t].val)
             /\ UNCHANGED stack /\ Unshared
SecStored(t) == /\ Goes(t, "store", "load") /\ res'[t] = res[t] /\ req[t].op = "SetTimeo"
                /\ field[t] = "tv_sec" /\ field'[t] = "tv_msec"
                /\ attr' = [attr EXCEPT ![req[t].sock] = word[t]]
                /\ UNCHANGED stack /\ UNCHANGED owner
Stored(t) == /\ Goes(t, "store", "done") /\ res'[t] = res[t] /\ field[t] # "tv_sec"
             /\ attr' = [attr EXCEPT ![req[t].sock] = word[t]]
             /\ UNCHANGED stack /\ UNCHANGED owner

LEMMA Storable ==
  ASSUME TypeInv, NEW t \in Threads, pc[t] \in {"load", "store"}
  PROVE  /\ req[t].sock \in Socks /\ req[t].val \in Nat /\ limit[t] = 0
         /\ field[t] \in {"ionbio", "bound", "tv_sec", "tv_msec"}
         /\ req[t].op \in WriterOps
         /\ field[t] \in {"tv_sec", "tv_msec"} => req[t].op = "SetTimeo"
  BY DEF TypeInv, Control, ControlOf, TypeOK, CallsTypeOK, Request, WriterOps

LEMMA LoadEffect == ASSUME TypeInv, NEW t \in Threads, Load(t) PROVE Loaded(t)
<1>. DEFINE a == Changed(attr[req[t].sock], field[t], req[t].val)
<1>1. /\ pc[t] = "load" /\ Goto(t, "store") /\ word' = [word EXCEPT ![t] = a] /\ "store" \in Pcs
      /\ UNCHANGED <<stack, req, res, limit, field>> /\ Unshared
  BY DEF Load, Pcs, Unshared
<1>2. /\ req[t].sock \in Socks /\ req[t].val \in Nat /\ limit[t] = 0
      /\ field[t] \in {"ionbio", "bound", "tv_sec", "tv_msec"}
  BY <1>1, Storable
<1>3. a \in Attr
  BY <1>2, ChangedFields, Typing
<1>4. a = Changed(attr[req[t].sock], field[t], req[t].val)
  OBVIOUS
<1>. HIDE DEF a
<1>5. ThreadsTyped' /\ OthersStay(t) /\ pc'[t] = "store" /\ req'[t] = req[t]
  BY <1>1, <1>3, InnerStep
<1>6. word'[t] = a
  BY <1>1, Typing DEF ThreadsTyped
<1>7. ControlOf(t)'
  BY <1>1, <1>5 DEF TypeInv, Control, ControlOf, Socks, First
<1>. QED  BY <1>1, <1>4, <1>5, <1>6, <1>7 DEF Loaded, Goes, Moved

LEMMA StoreEffect ==
  ASSUME TypeInv, NEW t \in Threads, Store(t)
  PROVE  SecStored(t) \/ Stored(t)
<1>1. /\ pc[t] = "store" /\ attr' = [attr EXCEPT ![req[t].sock] = word[t]]
      /\ UNCHANGED <<req, res, limit, word>> /\ UNCHANGED stack /\ UNCHANGED owner
  BY DEF Store
<1>2. /\ req[t].op \in WriterOps
      /\ field[t] = "tv_sec" => req[t].op = "SetTimeo"
      /\ "load" \in Pcs /\ "done" \in Pcs /\ "tv_msec" \in Fields
  BY <1>1, Storable DEF Pcs, Fields
<1>3. CASE field[t] = "tv_sec"
  <2>1. Storing(t, "tv_msec") /\ Goto(t, "load")
    BY <1>3 DEF Store
  <2>2. ThreadsTyped' /\ OthersStay(t) /\ pc'[t] = "load" /\ req'[t] = req[t]
    BY <1>1, <1>2, <2>1, InnerStep
  <2>3. field'[t] = "tv_msec"
    BY <2>1, Typing DEF Storing, ThreadsTyped
  <2>4. ControlOf(t)'
    BY <1>1, <1>3, <2>2, <2>3 DEF TypeInv, Control, ControlOf, Socks, First
  <2>. QED  BY <1>1, <1>2, <1>3, <2>2, <2>3, <2>4 DEF SecStored, Goes, Moved
<1>4. CASE field[t] # "tv_sec"
  <2>1. UNCHANGED field /\ Goto(t, "done")
    BY <1>4 DEF Store
  <2>2. ThreadsTyped' /\ OthersStay(t) /\ pc'[t] = "done" /\ req'[t] = req[t]
    BY <1>1, <1>2, <2>1, InnerStep
  <2>3. ControlOf(t)'
    BY <1>2, <2>2, DoneControl DEF WriterOps
  <2>. QED  BY <1>1, <1>4, <2>2, <2>3 DEF Stored, Goes, Moved
<1>. QED  BY <1>3, <1>4

(* The memset of Create and of Close.                                      *)
Cleared(t, n) ==
  /\ Goes(t, "clear", "done") /\ res'[t] = res[t] /\ n \in Socks
  /\ \/ req[t].op = "Create" /\ n = res[t]
     \/ req[t].op = "Close"  /\ n = req[t].sock
  /\ attr' = [attr EXCEPT ![n] = NoAttr] /\ UNCHANGED stack /\ UNCHANGED owner

LEMMA ClearEffect ==
  ASSUME TypeInv, NEW t \in Threads, Clear(t)
  PROVE  \E n \in Socks : Cleared(t, n)
<1>1. /\ pc[t] = "clear" /\ Goto(t, "done") /\ "done" \in Pcs
      /\ attr' = [attr EXCEPT ![IF req[t].op = "Create" THEN res[t] ELSE req[t].sock] = NoAttr]
      /\ UNCHANGED <<req, res, limit, field, word>> /\ UNCHANGED stack /\ UNCHANGED owner
  BY DEF Clear, Pcs
<1>2. \/ req[t].op = "Create" /\ res[t] \in Socks
      \/ req[t].op = "Close" /\ req[t].sock \in Socks
  BY <1>1 DEF TypeInv, Control, ControlOf
<1>3. ThreadsTyped' /\ OthersStay(t) /\ pc'[t] = "done" /\ req'[t] = req[t]
  BY <1>1, InnerStep
<1>4. res'[t] = res[t]
  BY <1>1
<1>5. ControlOf(t)'
  BY <1>2, <1>3, <1>4, DoneControl
<1>. QED  BY <1>1, <1>2, <1>3, <1>4, <1>5 DEF Cleared, Goes, Moved

(* The call returns; the application holds the socket it is given.         *)
Returned(t) ==
  /\ Moved(t) /\ pc[t] = "done" /\ pc'[t] = "idle" /\ req'[t] = NoRequest
  /\ held' = (IF Given(t) THEN held \cup {res[t]} ELSE held)
  /\ Given(t) => res[t] \in Socks
  /\ UNCHANGED <<stack, tainted, attr>>

LEMMA ReturnEffect == ASSUME TypeInv, NEW t \in Threads, Returns(t) PROVE Returned(t)
<1>1. /\ pc[t] = "done" /\ Goto(t, "idle") /\ req' = [req EXCEPT ![t] = NoRequest]
      /\ res' = [res EXCEPT ![t] = OK] /\ limit' = [limit EXCEPT ![t] = 0]
      /\ held' = (IF req[t].op \in {"Create", "Accept"} /\ res[t] >= 0
                  THEN held \cup {res[t]} ELSE held)
      /\ Storing(t, "none") /\ word' = [word EXCEPT ![t] = NoAttr]
      /\ UNCHANGED <<stack, tainted, attr>>
  BY DEF Returns, Return, Answer
<1>2. "idle" \in Pcs /\ "none" \in Fields /\ OK \in Int
  BY DEF Pcs, Fields, OK
<1>3. /\ ThreadsTyped' /\ OthersStay(t) /\ pc'[t] = "idle" /\ req'[t] = NoRequest
      /\ limit'[t] = 0
  BY <1>1, <1>2, AttrRange, ReqRange, Typing DEF ThreadsTyped, OthersStay, Goto, Storing
<1>4. ControlOf(t)'
  BY <1>3 DEF ControlOf
<1>5. Given(t) <=> req[t].op \in {"Create", "Accept"} /\ res[t] >= 0
  BY <1>1 DEF Given
<1>6. Given(t) => res[t] \in Socks
  BY <1>1, <1>5 DEF TypeInv, Control, ControlOf
<1>. QED  BY <1>1, <1>3, <1>4, <1>5, <1>6 DEF Returned, Moved

(* Nobody moves.                                                           *)
Stays == (\A s : KeepsAll(stack', s)) /\ UNCHANGED <<calls, owner, attr, field, word>>

LEMMA StaysEffect == ASSUME TypeInv, Network \/ UNCHANGED vars PROVE Stays
<1>1. CASE Network
  BY <1>1, KeepsNetwork, Typing DEF Network, Stays
<1>2. CASE UNCHANGED vars
  BY <1>2, StillKeeps DEF vars, Stays
<1>. QED  BY <1>1, <1>2

-----------------------------------------------------------------------------
(***************************************************************************)
(* Every step has one of these effects; the types.                         *)
(***************************************************************************)
Effect ==
  \/ Stays
  \/ \E t \in Threads :
       \/ Begins(t)
       \/ \E n \in Socks : Created(t, n) \/ AcceptGiven(t, n) \/ Cleared(t, n)
       \/ \E s : BindDone(t, s) \/ Closed(t, s)
       \/ \E s, v : ModeSet(t, s, v) \/ TimeoSet(t, s, v)
       \/ Answers(t) \/ Connected(t)
       \/ SecRead(t) \/ MsecRead(t) \/ Loaded(t) \/ SecStored(t) \/ Stored(t)
       \/ Returned(t)

LEMMA StepEffect == ASSUME TypeInv, [Next]_vars PROVE Effect
<1>1. CASE Network \/ UNCHANGED vars
  BY <1>1, StaysEffect DEF Effect
<1>2. ASSUME NEW t \in Threads, Call(t) PROVE Effect
  <2>1. CASE Create(t)
    BY <2>1, CreateEffect DEF Effect
  <2>2. ASSUME NEW s, Bind(t, s) PROVE Effect
    BY <2>2, BindEffect DEF Effect
  <2>3. ASSUME NEW s, NEW len \in {0, 1},
               \/ Listen(t, s) \/ Accept(t, s) \/ Connect(t, s) \/ Recv(t, s, len)
               \/ Send(t, s) \/ GetSockName(t, s)
        PROVE  Effect
    BY <2>3, ListenEffect, AcceptBegins, ConnectBegins, RecvBegins, SendBegins,
       GetSockNameBegins DEF Effect
  <2>4. ASSUME NEW s, NEW v \in Modes, SetMode(t, s, v) PROVE Effect
    BY <2>4, SetModeEffect DEF Effect
  <2>5. ASSUME NEW s, NEW v \in RcvTimeouts, SetTimeo(t, s, v) PROVE Effect
    BY <2>5, SetTimeoEffect DEF Effect
  <2>6. ASSUME NEW s, Close(t, s) PROVE Effect
    BY <2>6, CloseEffect DEF Effect
  <2>. QED  BY <1>2, <2>1, <2>2, <2>3, <2>4, <2>5, <2>6 DEF Call
<1>3. ASSUME NEW t \in Threads, Step(t) PROVE Effect
  <2>1. CASE Clear(t)
    BY <2>1, ClearEffect DEF Effect
  <2>2. CASE BindFailed(t) \/ Listened(t) \/ Select(t) \/ SendFailed(t) \/ Named(t)
    BY <2>2, ReadersAnswer DEF Effect
  <2>3. CASE RecvEnds(t)
    BY <2>3, RecvAnswers DEF Effect
  <2>4. CASE AcceptEnds(t) \/ ConnectEnded(t)
    BY <2>4, AcceptEffect, ConnectEffect DEF Effect
  <2>5. CASE CheckSec(t) \/ CheckMsec(t)
    BY <2>5, CheckEffect DEF Effect
  <2>6. CASE Load(t) \/ Store(t)
    BY <2>6, LoadEffect, StoreEffect DEF Effect
  <2>7. CASE Returns(t)
    BY <2>7, ReturnEffect DEF Effect
  <2>. QED  BY <1>3, <2>1, <2>2, <2>3, <2>4, <2>5, <2>6, <2>7 DEF Step
<1>. QED  BY <1>1, <1>2, <1>3 DEF Next

LEMMA TaintedType ==
  ASSUME TypeInv, NEW n \in Socks, NEW s, HandedOut(n, s)
  PROVE  tainted' \subseteq Socks
  BY Typing DEF HandedOut

LEMMA KeepsTyped ==
  ASSUME NEW s, Keeps(stack') \/ KeepsOthers(stack', s)
  PROVE  StackTypeOK'
  BY DEF Keeps, KeepsOthers, StackTypeOK

LEMMA TypeInit == Init => TypeInv
<1>. SUFFICES ASSUME Init PROVE TypeInv
  OBVIOUS
<1>. USE AttrRange, ReqRange DEF Init, StackInit, CallsInit
<1>1. Fresh("free") \in StackSock
  BY DEF Fresh, StackSock, SockStates
<1>2. TypeOK
  BY <1>1 DEF TypeOK, StackTypeOK, CallsTypeOK, Pcs, Fields, OK
<1>3. Control
  BY DEF Control, ControlOf
<1>. QED  BY <1>2, <1>3 DEF TypeInv

LEMMA TypeNext == TypeInv /\ [Next]_vars => TypeInv'
<1>. SUFFICES ASSUME TypeInv, [Next]_vars PROVE TypeInv'
  OBVIOUS
<1>0. /\ StackTypeOK /\ held \subseteq Socks /\ tainted \subseteq Socks
      /\ attr \in [Socks -> Attr]
  BY Typing
<1>1. CASE Stays
  <2>1. StackTypeOK'
    BY <1>1, KeepsTyped DEF Stays, KeepsAll
  <2>2. UNCHANGED <<pc, req, res, limit, held, tainted, attr, field, word>>
    BY <1>1 DEF Stays, calls, owner
  <2>3. TypeOK'
    BY <2>1, <2>2 DEF TypeInv, TypeOK, CallsTypeOK, StackTypeOK
  <2>4. ASSUME NEW u \in Threads PROVE ControlOf(u)'
    BY <2>2 DEF TypeInv, Control, ControlOf, Socks, First
  <2>. QED  BY <2>3, <2>4 DEF TypeInv, Control
<1>2. ASSUME NEW t \in Threads, Moved(t), StackTypeOK', attr' \in [Socks -> Attr],
             held' \subseteq Socks, tainted' \subseteq Socks
      PROVE  TypeInv'
  BY <1>2, TypeStep
<1>3. ASSUME NEW t \in Threads,
             Begins(t) \/ Answers(t) \/ Connected(t) \/ \E s : BindDone(t, s)
      PROVE  TypeInv'
  <2>1. Moved(t) /\ Unshared /\ StackTypeOK'
    BY <1>3, KeepsTyped DEF Begins, Answers, Connected, BindDone, Begun, Goes, KeepsAll
  <2>. QED  BY <1>0, <1>2, <2>1 DEF Unshared, owner
<1>4. ASSUME NEW t \in Threads, NEW n \in Socks, Created(t, n) \/ AcceptGiven(t, n)
      PROVE  TypeInv'
  <2>1. Moved(t) /\ StackTypeOK' /\ HandedOut(n, None) /\ UNCHANGED <<held, attr>>
    BY <1>4, KeepsTyped DEF Created, AcceptGiven, Begun, Goes, Grants
  <2>. QED  BY <1>0, <1>2, <2>1, TaintedType
<1>5. ASSUME NEW t \in Threads, NEW n \in Socks, Cleared(t, n) PROVE TypeInv'
  BY <1>0, <1>2, <1>5, AttrRange DEF Cleared, Goes, owner, StackTypeOK
<1>6. ASSUME NEW t \in Threads, NEW s, Closed(t, s) PROVE TypeInv'
  BY <1>0, <1>2, <1>6, KeepsTyped DEF Closed, Begun
<1>7. ASSUME NEW t \in Threads, NEW s, NEW v, ModeSet(t, s, v) \/ TimeoSet(t, s, v)
      PROVE  TypeInv'
  <2>1. Moved(t) /\ StackTypeOK' /\ Unshared
    BY <1>7, KeepsTyped DEF ModeSet, TimeoSet, Begun, Sets
  <2>. QED  BY <1>0, <1>2, <2>1 DEF Unshared, owner
<1>8. ASSUME NEW t \in Threads, SecRead(t) \/ MsecRead(t) \/ Loaded(t) PROVE TypeInv'
  <2>1. Moved(t) /\ UNCHANGED stack /\ Unshared
    BY <1>8 DEF SecRead, MsecRead, Loaded, Goes
  <2>. QED  BY <1>0, <1>2, <2>1 DEF Unshared, owner, StackTypeOK
<1>9. ASSUME NEW t \in Threads, SecStored(t) \/ Stored(t) PROVE TypeInv'
  <2>1. /\ Moved(t) /\ UNCHANGED stack /\ UNCHANGED owner
        /\ attr' = [attr EXCEPT ![req[t].sock] = word[t]]
    BY <1>9 DEF SecStored, Stored, Goes
  <2>2. word[t] \in Attr
    BY Typing DEF ThreadsTyped
  <2>. QED  BY <1>0, <1>2, <2>1, <2>2 DEF owner, StackTypeOK
<1>10. ASSUME NEW t \in Threads, Returned(t) PROVE TypeInv'
  BY <1>0, <1>2, <1>10 DEF Returned, StackTypeOK
<1>. QED  BY <1>1, <1>3, <1>4, <1>5, <1>6, <1>7, <1>8, <1>9, <1>10, StepEffect DEF Effect

(* Every variable has its type, whatever the threads do: the calls index   *)
(* sock_attr with the number of a socket only, what a store puts into the  *)
(* bit fields fits into them, and a timeout of select is a number also     *)
(* when it is put together from two fields (the whole file).               *)
THEOREM TypeCorrect == Spec => []TypeOK
<1>1. TypeInv => TypeOK
  BY DEF TypeInv
<1>. QED  BY <1>1, TypeInit, TypeNext, PTL DEF Spec

-----------------------------------------------------------------------------
(***************************************************************************)
(* The copy, under the discipline.  What an effect leaves to the threads   *)
(* that do not move.                                                       *)
(***************************************************************************)
Inv == TypeInv /\ CopyInv

LEMMA InvParts ==
  ASSUME Inv
  PROVE  /\ TypeInv /\ WriterAlone /\ InUse /\ GivenNew
         /\ \A s \in Socks : SocketOf(s)
         /\ \A t \in Threads : CourseOf(t) /\ ControlOf(t)
  BY DEF Inv, CopyInv, Ownership, Sockets, Course, TypeInv, Control

LEMMA HeldSocks == ASSUME TypeInv PROVE held \subseteq Socks /\ Sound \subseteq held
  BY Typing DEF Sound

(* The place of a call tells its operation and what it has.                *)
LEMMA Places ==
  ASSUME TypeInv, NEW t \in Threads
  PROVE  /\ Given(t) => res[t] \in Socks
         /\ pc[t] \in {"load", "store"} => req[t].sock \in Socks /\ req[t].op \in WriterOps
         /\ pc[t] \in {"tv_sec", "tv_msec", "select"} => req[t].sock \in Socks /\ req[t].op = "Recv"
         /\ pc[t] = "bindFailed" => req[t].sock \in Socks /\ req[t].op = "Bind"
         /\ pc[t] = "listened" => req[t].sock \in Socks /\ req[t].op = "Listen"
<1>1. ControlOf(t)
  BY DEF TypeInv, Control
<1>2. Given(t) => res[t] \in Socks
  BY <1>1, SockNumbers DEF Given, ControlOf
<1>. QED  BY <1>1, <1>2 DEF ControlOf, WriterOps

(* Nothing of socket b changes that a call on it relies on.                *)
Untouched(b) == /\ SameSock(stack[b], stack'[b])
                /\ b \in tainted \/ attr'[b] = attr[b]
                /\ b \in tainted' <=> b \in tainted
                /\ b \in held' <=> b \in held

Spared(u) ==
  /\ pc'[u] = pc[u] /\ req'[u] = req[u] /\ res'[u] = res[u]
  /\ limit'[u] = limit[u] /\ field'[u] = field[u] /\ word'[u] = word[u]
  /\ req[u].op \notin {"Create", "Close"} /\ req[u].sock \in Socks => Untouched(req[u].sock)
  /\ req[u].op = "Bind" /\ req[u].sock \in Socks =>
       Steady(stack[req[u].sock], stack'[req[u].sock])
  /\ Given(u) => Untouched(res[u])

Spares(t) == \A u \in Threads \ {t} : Spared(u)

LEMMA SameWait ==
  ASSUME NEW s \in Socks, SameSock(stack[s], stack'[s])
  PROVE  OwnWait(s)' = OwnWait(s)
  BY DEF SameSock, OwnWait

(* The course of a thread that does not move.                              *)
LEMMA CourseStays ==
  ASSUME Inv, held' \subseteq Socks, NEW u \in Threads, Spared(u)
  PROVE  CourseOf(u)'
<1>0. PICK s : req[u].sock = s
  OBVIOUS
<1>1. /\ pc'[u] = pc[u] /\ req'[u] = req[u] /\ res'[u] = res[u]
      /\ limit'[u] = limit[u] /\ field'[u] = field[u] /\ word'[u] = word[u]
  BY DEF Spared
<1>2. CourseOf(u) /\ TypeInv
  BY InvParts
<1>. USE <1>0
<1>3. /\ req[u].op \notin {"Create", "Close"} /\ s \in Socks => Untouched(s)
      /\ s \in Sound' => s \in Socks
  BY DEF Spared, Sound
<1>4. req[u].op = "Bind" /\ s \in Socks => Steady(stack[s], stack'[s])
  BY DEF Spared
<1>5. NewAt(u)'
  <2>1. Given(u) => Untouched(res[u])
    BY DEF Spared
  <2>2. Given(u)' <=> Given(u)
    BY <1>1 DEF Given
  <2>. QED  BY <1>1, <1>2, <2>1, <2>2 DEF CourseOf, NewAt, Untouched, SameSock
<1>6. WriteAt(u)'
  <2>. SUFFICES ASSUME pc[u] \in {"load", "store"} PROVE WriteAt(u)'
    BY <1>1 DEF WriteAt
  <2>1. s \in Socks /\ req[u].op \in WriterOps /\ Untouched(s)
    BY <1>2, <1>3, Places DEF WriterOps
  <2>2. /\ stack[s].named => stack'[s].named
        /\ stack'[s].nbio = stack[s].nbio /\ stack'[s].timeo = stack[s].timeo
        /\ s \notin tainted' => s \notin tainted /\ attr'[s] = attr[s]
    BY <2>1 DEF Untouched, SameSock
  <2>. QED  BY <1>1, <1>2, <2>2 DEF CourseOf, WriteAt
<1>7. CheckAt(u)'
  <2>. SUFFICES ASSUME s \in Sound', pc[u] \in {"tv_sec", "tv_msec", "select"} PROVE CheckAt(u)'
    BY <1>1, Zenon DEF CheckAt
  <2>1. s \in Socks /\ req[u].op = "Recv" /\ Untouched(s)
    BY <1>2, <1>3, Places
  <2>2. s \in Sound /\ attr'[s] = attr[s] /\ stack'[s].nbio = stack[s].nbio
    BY <2>1 DEF Sound, Untouched, SameSock
  <2>3. OwnWait(s)' = OwnWait(s)
    BY <2>1, SameWait DEF Untouched
  <2>. QED  BY <1>1, <1>2, <2>2, <2>3 DEF CourseOf, CheckAt
<1>8. ListenAt(u)'
  <2>1. pc[u] = "listened" => s \in Socks /\ req[u].op = "Listen"
    BY <1>2, Places
  <2>. QED  BY <1>1, <1>2, <1>3, <2>1 DEF CourseOf, ListenAt, Untouched, SameSock, Sound
<1>9. BindAt(u)'
  <2>1. /\ pc[u] = "bindFailed" => s \in Socks /\ req[u].op = "Bind"
        /\ pc[u] \in {"load", "store"} => s \in Socks
    BY <1>2, Places
  <2>. QED  BY <1>1, <1>2, <1>3, <1>4, <2>1 DEF CourseOf, BindAt, Untouched, Steady, Sound
<1>. QED  BY <1>5, <1>6, <1>7, <1>8, <1>9 DEF CourseOf

LEMMA CourseStep ==
  ASSUME Inv, held' \subseteq Socks, NEW t \in Threads, Spares(t), CourseOf(t)'
  PROVE  Course'
  BY CourseStays DEF Course, Spares

(* What thread t's own request is to be for the sockets to stay owned.     *)
Apart(t) == \A u \in Threads \ {t} :
              /\ req'[t].op \in WriterOps /\ req'[t].sock \in Socks /\ req[u].sock = req'[t].sock
                   => req[u].op = "Close"
              /\ req[u].op \in WriterOps /\ req[u].sock \in Socks /\ req'[t].sock = req[u].sock
                   => req'[t].op = "Close"
Rightful(t) == req'[t].op \notin {"Create", "Close"} /\ req'[t].sock \in Socks
                 => req'[t].sock \in held'
Brings(t) == Given(t)' => /\ stack'[res'[t]].st # "free" /\ res'[t] \notin held'
                          /\ \A u \in Threads \ {t} : Given(u) => res[u] # res'[t]

Owned(t) == Apart(t) /\ Rightful(t) /\ Brings(t)

LEMMA OwnershipStep ==
  ASSUME Inv, NEW t \in Threads, Spares(t), Owned(t)
  PROVE  Ownership'
<1>. USE InvParts DEF Owned
<1>1. \A u \in Threads \ {t} : /\ req'[u] = req[u] /\ res'[u] = res[u] /\ pc'[u] = pc[u]
                               /\ Given(u)' = Given(u)
  BY DEF Spares, Spared, Given
<1>2. WriterAlone'
  <2>. SUFFICES ASSUME NEW u \in Threads, NEW w \in Threads, u # w, req'[u].op \in WriterOps,
                       req'[u].sock \in Socks, req'[w].sock = req'[u].sock
                PROVE  req'[w].op = "Close"
    BY DEF WriterAlone, Socks, First
  <2>1. CASE u = t
    BY <1>1, <2>1 DEF Apart
  <2>2. CASE w = t
    BY <1>1, <2>2 DEF Apart
  <2>3. CASE u # t /\ w # t
    BY <1>1, <2>3 DEF WriterAlone
  <2>. QED  BY <2>1, <2>2, <2>3
<1>3. InUse'
  <2>. SUFFICES ASSUME NEW u \in Threads, req'[u].op \notin {"Create", "Close"},
                       req'[u].sock \in Socks
                PROVE  req'[u].sock \in held'
    BY DEF InUse, Socks, First
  <2>1. CASE u = t
    BY <2>1 DEF Rightful
  <2>2. CASE u # t
    BY <1>1, <2>2 DEF InUse, Spares, Spared, Untouched
  <2>. QED  BY <2>1, <2>2
<1>4. GivenNew'
  <2>. SUFFICES ASSUME NEW u \in Threads, Given(u)'
                PROVE  /\ stack'[res'[u]].st # "free" /\ res'[u] \notin held'
                       /\ \A w \in Threads \ {u} : Given(w)' => res'[w] # res'[u]
    BY DEF GivenNew
  <2>1. CASE u = t
    BY <1>1, <2>1 DEF Brings
  <2>2. CASE u # t
    BY <1>1, <2>2 DEF GivenNew, Spares, Spared, Untouched, SameSock, Brings
  <2>. QED  BY <2>1, <2>2
<1>. QED  BY <1>2, <1>3, <1>4 DEF Ownership

LEMMA InvStep ==
  ASSUME Inv, held' \subseteq Socks, NEW t \in Threads, Spares(t), Owned(t), CourseOf(t)',
         \A s \in Socks : SocketOf(s)'
  PROVE  CopyInv'
<1>1. Sockets'
  BY DEF Sockets, Socks, First
<1>. QED  BY <1>1, OwnershipStep, CourseStep DEF CopyInv

(* A socket that a step is not about: the stack has it as it was, its      *)
(* entry is not touched, and the same calls are storing into it.           *)
SameWork(b) == \A t \in Threads :
                 /\ Writing(t, b) => Writing(t, b)' /\ req'[t].op = req[t].op
                 /\ Clears(t, b)' <=> Clears(t, b)

Passed(b) == /\ SameSock(stack[b], stack'[b]) /\ attr'[b] = attr[b]
             /\ stack'[b].st = "open" /\ stack'[b].named => stack[b].st = "open" /\ stack[b].named
             /\ b \in tainted' <=> b \in tainted
             /\ b \in held' <=> b \in held
             /\ SameWork(b)

LEMMA CopiedStays ==
  ASSUME NEW s \in Socks, SameSock(stack[s], stack'[s])
  PROVE  \A a : /\ ModeCopied(a, stack'[s]) = ModeCopied(a, stack[s])
                /\ TimeCopied(a, stack'[s]) = TimeCopied(a, stack[s])
  BY DEF SameSock, ModeCopied, TimeCopied

LEMMA WritersStay ==
  ASSUME NEW b, SameWork(b), NEW op, \E t \in Threads : Writing(t, b) /\ req[t].op = op
  PROVE  \E t \in Threads : Writing(t, b)' /\ req'[t].op = op
  BY DEF SameWork

LEMMA ClearsStay ==
  ASSUME NEW b, SameWork(b)
  PROVE  (\E t \in Threads : Clears(t, b)') <=> (\E t \in Threads : Clears(t, b))
  BY DEF SameWork

LEMMA SocketStays ==
  ASSUME Inv, NEW b \in Socks, Passed(b)
  PROVE  SocketOf(b)'
<1>1. /\ HeldUsed(b) /\ NoClear(b) /\ Clean(b) /\ TiedNamed(b) /\ OpenBound(b)
      /\ SettledMode(b) /\ SettledTime(b) /\ FlagNamed(b)
  BY InvParts DEF SocketOf
<1>2. /\ SameSock(stack[b], stack'[b]) /\ attr'[b] = attr[b] /\ SameWork(b)
      /\ b \in tainted' <=> b \in tainted
      /\ b \in held' <=> b \in held
      /\ b \in Sound' <=> b \in Sound
  BY DEF Passed, Sound
<1>3. HeldUsed(b)' /\ TiedNamed(b)' /\ FlagNamed(b)'
  BY <1>1, <1>2 DEF HeldUsed, TiedNamed, FlagNamed, SameSock
<1>4. NoClear(b)'
  BY <1>1, <1>2, ClearsStay DEF NoClear, SameSock
<1>5. Clean(b)'
  BY <1>1, <1>2, ClearsStay DEF Clean, SameSock
<1>6. OpenBound(b)'
  BY <1>1, <1>2, WritersStay DEF OpenBound, Passed
<1>7. SettledMode(b)'
  BY <1>1, <1>2, WritersStay, CopiedStays DEF SettledMode
<1>8. SettledTime(b)'
  BY <1>1, <1>2, WritersStay, CopiedStays DEF SettledTime
<1>. QED  BY <1>3, <1>4, <1>5, <1>6, <1>7, <1>8 DEF SocketOf

(* Which sockets a step of thread t leaves the work on.                    *)
LEMMA WorkStays ==
  ASSUME NEW t \in Threads, OthersStay(t), NEW b,
         \/ pc[t] \notin {"load", "store", "clear"} /\ pc'[t] \notin {"clear"}
         \/ pc[t] \in {"load", "store"} /\ pc'[t] \in {"load", "store"} /\ req'[t] = req[t]
         \/ pc[t] \in {"load", "store", "clear"} /\ pc'[t] = "done" /\ req[t].sock # b
         \/ pc[t] = "clear" /\ pc'[t] = "done" /\ req[t].op = "Create"
         \/ pc[t] = "idle" /\ pc'[t] = "clear" /\ (req'[t].op # "Close" \/ req'[t].sock # b)
  PROVE  SameWork(b)
<1>. SUFFICES ASSUME NEW u \in Threads
              PROVE  /\ Writing(u, b) => Writing(u, b)' /\ req'[u].op = req[u].op
                     /\ Clears(u, b)' <=> Clears(u, b)
  BY DEF SameWork
<1>1. CASE u = t
  BY <1>1 DEF Writing, Clears
<1>2. CASE u # t
  BY <1>2 DEF OthersStay, Writing, Clears
<1>. QED  BY <1>1, <1>2

(* A step about socket s of the stack, which leaves the entries alone.     *)
LEMMA OthersPassed ==
  ASSUME NEW s, KeepsOthers(stack', s), NEW b \in Socks \ {s}, SameWork(b), attr'[b] = attr[b],
         b \in tainted' <=> b \in tainted, b \in held' <=> b \in held
  PROVE  Passed(b) /\ Untouched(b) /\ Steady(stack[b], stack'[b])
  BY DEF KeepsOthers, Passed, Untouched, Steady

-----------------------------------------------------------------------------
(***************************************************************************)
(* The effects preserve the invariant of the copy.                         *)
(***************************************************************************)
LEMMA GivenApart ==
  ASSUME Inv, NEW u \in Threads, Given(u)
  PROVE  res[u] \in Socks /\ res[u] \notin held /\ stack[res[u]].st # "free"
  BY InvParts, Places DEF GivenNew

LEMMA UsedHeld ==
  ASSUME Inv, NEW u \in Threads, req[u].op \notin {"Create", "Close"}, req[u].sock \in Socks
  PROVE  req[u].sock \in held /\ stack[req[u].sock].st # "free"
  BY InvParts DEF InUse, SocketOf, HeldUsed

(* Steps that keep all sockets, the entries and what is held.              *)
LEMMA KeptUntouched ==
  ASSUME NEW s, KeepsAll(stack', s), Unshared, NEW b \in Socks
  PROVE  Untouched(b)
  BY DEF KeepsAll, Keeps, Unshared, owner, Untouched

LEMMA KeptSpares ==
  ASSUME Inv, NEW t \in Threads, OthersStay(t), NEW s, KeepsAll(stack', s), Unshared,
         \A u \in Threads \ {t} : req[u].op = "Bind" /\ req[u].sock = s => s \notin Socks
  PROVE  Spares(t)
<1>. SUFFICES ASSUME NEW u \in Threads \ {t} PROVE Spared(u)
  BY DEF Spares
<1>1. req[u].op \notin {"Create", "Close"} /\ req[u].sock \in Socks => Untouched(req[u].sock)
  BY KeptUntouched
<1>2. req[u].op = "Bind" /\ req[u].sock \in Socks
        => Steady(stack[req[u].sock], stack'[req[u].sock])
  BY DEF KeepsAll, KeepsOthers
<1>3. Given(u) => Untouched(res[u])
  BY GivenApart, KeptUntouched
<1>. QED  BY <1>1, <1>2, <1>3 DEF Spared, OthersStay

LEMMA KeptSockets ==
  ASSUME Inv, NEW s, KeepsAll(stack', s), Unshared, \A b \in Socks : SameWork(b)
  PROVE  \A b \in Socks : SocketOf(b)'
<1>. SUFFICES ASSUME NEW b \in Socks PROVE SocketOf(b)'
  OBVIOUS
<1>1. Passed(b)
  BY LwipAssumption DEF KeepsAll, Keeps, NotBound, Unshared, owner, Passed
<1>. QED  BY <1>1, SocketStays

LEMMA KeptCopy ==
  ASSUME Inv, held' \subseteq Socks, NEW t \in Threads, OthersStay(t), NEW s, KeepsAll(stack', s),
         Unshared,
         \A u \in Threads \ {t} : req[u].op = "Bind" /\ req[u].sock = s => s \notin Socks,
         \A b \in Socks : SameWork(b), Owned(t),
         (\A b \in Socks : SocketOf(b)') => CourseOf(t)'
  PROVE  CopyInv'
<1>1. Spares(t)
  BY KeptSpares
<1>2. \A b \in Socks : SocketOf(b)'
  BY KeptSockets
<1>. QED  BY <1>1, <1>2, InvStep

LEMMA StaysCopy == ASSUME Inv, held' \subseteq Socks, Stays PROVE CopyInv'
<1>1. /\ KeepsAll(stack', None) /\ Unshared
      /\ UNCHANGED <<pc, req, res, limit, field, word>>
  BY DEF Stays, Unshared, calls
<1>2. ASSUME NEW u \in Threads PROVE CourseOf(u)'
  <2>1. req[u].op = "Bind" /\ req[u].sock \in Socks
          => Steady(stack[req[u].sock], stack'[req[u].sock])
    BY <1>1, ReqRange DEF KeepsAll, KeepsOthers
  <2>2. Spared(u)
    BY <1>1, <2>1, KeptUntouched, GivenApart DEF Spared
  <2>. QED  BY <2>2, CourseStays
<1>3. Sockets'
  <2>1. \A b \in Socks : SameWork(b)
    BY <1>1 DEF SameWork, Writing, Clears
  <2>2. \A b \in Socks : SocketOf(b)'
    BY <1>1, <2>1, KeptSockets
  <2>. QED  BY <2>2 DEF Sockets, Socks, First
<1>4. WriterAlone' /\ InUse'
  BY <1>1, InvParts DEF WriterAlone, InUse, Unshared, owner, Socks, First
<1>5. GivenNew'
  <2>. SUFFICES ASSUME NEW u \in Threads, Given(u)
                PROVE  /\ stack'[res[u]].st # "free" /\ res[u] \notin held'
                       /\ \A w \in Threads \ {u} : Given(w) => res[w] # res[u]
    BY <1>1 DEF GivenNew, Given
  <2>1. Untouched(res[u])
    BY <1>1, KeptUntouched, GivenApart
  <2>. QED  BY <2>1, InvParts DEF GivenNew, Untouched, SameSock
<1>. QED  BY <1>2, <1>3, <1>4, <1>5 DEF CopyInv, Ownership, Course

(* A thread that goes on with its call.                                    *)
LEMMA GoesOwned ==
  ASSUME Inv, NEW t \in Threads, req'[t] = req[t], UNCHANGED held,
         Given(t)' => Given(t) /\ res'[t] = res[t] /\ stack'[res[t]].st # "free"
  PROVE  Owned(t)
  BY InvParts DEF Owned, Apart, WriterAlone, Rightful, InUse, Brings, GivenNew

(* A thread whose call has no writer beside it.                            *)
LEMMA NoWriter ==
  ASSUME Inv, NEW t \in Threads, req[t].op # "Close", NEW u \in Threads \ {t},
         req[u].op \in WriterOps, req[u].sock = req[t].sock
  PROVE  req[t].sock \notin Socks
  BY InvParts DEF WriterAlone

(* A call that begins finds no other in its way.                           *)
LEMMA BegunAlone ==
  ASSUME Discipline, NEW t \in Threads, NEW op, NEW s, NEW v, NEW r, NEW p,
         Begun(t, op, s, v, r, p), op = "Create" => s = None
  PROVE  /\ Apart(t)
         /\ held' = held => Rightful(t)
         /\ s \in Socks => s \in held /\ op # "Create"
         /\ \A u \in Threads \ {t} :
              req[u].sock = s /\ s \in Socks =>
                /\ req[u].op \notin WriterOps
                /\ op \in WriterOps \cup {"Close"} => req[u].op = "Close"
<1>1. /\ req'[t].op = op /\ req'[t].sock = s
      /\ op = "Create" \/ (s \in held \cup Strays /\ Undisturbed(t, op, s))
  BY DEF Begun
<1>2. WriterOps \cup {"Close"} \subseteq Alone /\ Strays \cap Socks = {} /\ None \notin Socks
  BY ReqRange DEF Discipline
<1>3. s \in Socks => s \in held /\ op # "Create"
  BY <1>1, <1>2
<1>4. \A u \in Threads \ {t} :
        req[u].sock = s /\ s \in Socks =>
          /\ req[u].op \notin WriterOps
          /\ op \in WriterOps \cup {"Close"} => req[u].op = "Close"
  <2>. SUFFICES ASSUME NEW u \in Threads \ {t}, req[u].sock = s, s \in Socks
                PROVE  /\ req[u].op \notin WriterOps
                       /\ op \in WriterOps \cup {"Close"} => req[u].op = "Close"
    OBVIOUS
  <2>1. req[u].op # "Close" => op \notin Alone /\ req[u].op \notin Alone
    BY <1>1, <1>3 DEF Undisturbed
  <2>. QED  BY <1>2, <2>1 DEF WriterOps
<1>5. Apart(t)
  BY <1>1, <1>4 DEF Apart
<1>6. held' = held => Rightful(t)
  BY <1>1, <1>3 DEF Rightful
<1>. QED  BY <1>3, <1>4, <1>5, <1>6

LEMMA BeginsCopy ==
  ASSUME Inv, Discipline, held' \subseteq Socks, NEW t \in Threads, Begins(t)
  PROVE  CopyInv'
<1>1. PICK op, s, v, r, p :
        /\ op \in AllOps /\ Begun(t, op, s, v, r, p) /\ KeepsAll(stack', s) /\ Unshared
        /\ op = "Create" => s = None
        /\ p \notin {"clear", "load", "store", "tv_msec"}
        /\ p = "bindFailed" => op = "Bind" /\ s \in Socks /\ stack'[s].st = "open"
        /\ p = "listened" => op = "Listen" /\ s \in Socks /\ stack'[s].st = "listening"
        /\ p = "tv_sec" => s \in Socks /\ attr[s].ionbio # 1
        /\ p = "select" => s \in Socks /\ attr[s].ionbio = 1
        /\ p = "done" => (op = "Listen" => r # OK) /\ (op = "Bind" => r # EADDRINUSE)
        /\ p = "done" /\ op \in {"Create", "Accept"} => r < 0
  BY DEF Begins
<1>2. /\ OthersStay(t) /\ pc[t] = "idle" /\ pc'[t] = p /\ req'[t].op = op /\ req'[t].sock = s
      /\ req'[t].val = v /\ res'[t] = r /\ limit'[t] = 0 /\ UNCHANGED held
  BY <1>1 DEF Begun, Moved, Unshared, owner
<1>3. /\ Apart(t) /\ Rightful(t)
      /\ s \in Socks => s \in held
      /\ \A u \in Threads \ {t} : req[u].sock = s /\ s \in Socks => req[u].op \notin WriterOps
  BY <1>1, <1>2, BegunAlone
<1>4. ~Given(t)'
  <2>1. r < 0 => ~(r >= 0)
    <3>1. r \in Int
      BY <1>1, <1>2 DEF Begun, Moved, ThreadsTyped
    <3>. QED  BY <3>1
  <2>. QED  BY <1>1, <1>2, <2>1 DEF Given
<1>5. \A b \in Socks : SameWork(b)
  BY <1>1, <1>2, WorkStays
<1>6. CheckAt(t)'
  <2>. SUFFICES ASSUME s \in Sound', p \in {"tv_sec", "select"}
                PROVE  /\ p = "tv_sec" => ~stack'[s].nbio
                       /\ p = "select" => 0 = OwnWait(s)'
    BY <1>1, <1>2 DEF CheckAt
  <2>1. s \in Sound /\ s \in Socks /\ SameSock(stack[s], stack'[s])
    BY <1>1 DEF Sound, Unshared, owner, KeepsAll, Keeps
  <2>2. ~\E u \in Threads : Writing(u, s) /\ req[u].op = "SetMode"
    BY <1>2, <1>3, <2>1 DEF Writing, WriterOps
  <2>3. ModeCopied(attr[s], stack[s])
    BY <2>1, <2>2, InvParts DEF SocketOf, SettledMode
  <2>4. p = "tv_sec" => ~stack[s].nbio
    BY <1>1, <2>3 DEF ModeCopied
  <2>5. p = "select" => OwnWait(s) = 0
    BY <1>1, <2>3 DEF ModeCopied, OwnWait
  <2>. QED  BY <2>1, <2>4, <2>5, SameWait DEF SameSock
<1>7. NewAt(t)' /\ WriteAt(t)' /\ ListenAt(t)' /\ BindAt(t)'
  BY <1>1, <1>2, <1>4 DEF NewAt, WriteAt, ListenAt, BindAt
<1>8. Owned(t)
  BY <1>3, <1>4 DEF Owned, Brings
<1>9. \A u \in Threads \ {t} : req[u].op = "Bind" /\ req[u].sock = s => s \notin Socks
  BY <1>3 DEF WriterOps
<1>. QED  BY <1>1, <1>2, <1>5, <1>6, <1>7, <1>8, <1>9, KeptCopy DEF CourseOf

(* What the operation is of a call that is in a step.                      *)
LEMMA StepOps ==
  ASSUME TypeInv, NEW t \in Threads
  PROVE  /\ pc[t] \in {"bindFailed", "listened", "connect", "select", "recv", "sendFailed", "named"}
              => req[t].op \notin {"Create", "Accept", "Close"}
         /\ pc[t] = "accept" => req[t].op = "Accept"
         /\ pc[t] \in {"listened", "accept", "connect", "select", "recv", "sendFailed", "named"}
              => req[t].op # "Bind"
         /\ pc[t] \in {"bindFailed", "accept", "connect", "select", "recv", "sendFailed", "named"}
              => req[t].op # "Listen"
  BY DEF TypeInv, Control, ControlOf

LEMMA AnswersCopy ==
  ASSUME Inv, held' \subseteq Socks, NEW t \in Threads, Answers(t)
  PROVE  CopyInv'
<1>1. PICK s : req[t].sock = s
  OBVIOUS
<1>2. /\ OthersStay(t) /\ pc'[t] = "done" /\ req'[t] = req[t]
      /\ pc[t] \in {"bindFailed", "listened", "accept", "connect", "select", "recv",
                    "sendFailed", "named"}
      /\ KeepsAll(stack', s) /\ Unshared /\ UNCHANGED held
      /\ pc[t] = "bindFailed" /\ res'[t] = EADDRINUSE => attr[s].bound # 1 /\ stack' = stack
      /\ pc[t] = "listened" /\ res'[t] = OK => attr[s].bound # 0 /\ stack' = stack
      /\ pc[t] = "accept" => res'[t] < 0
  BY <1>1 DEF Answers, Moved, Unshared, owner
<1>3. TypeInv /\ CourseOf(t)
  BY InvParts
<1>4. ~Given(t)'
  <2>1. req[t].op \in {"Create", "Accept"} => pc[t] = "accept"
    BY <1>2, <1>3, StepOps
  <2>2. res'[t] < 0 => ~(res'[t] >= 0)
    <3>1. res'[t] \in Int
      BY DEF Answers, Moved, ThreadsTyped
    <3>. QED  BY <3>1
  <2>. QED  BY <1>2, <2>1, <2>2 DEF Given
<1>5. req[t].op # "Close"
  BY <1>2, <1>3, StepOps
<1>6. \A u \in Threads \ {t} : req[u].op \in WriterOps /\ req[u].sock = s => s \notin Socks
  BY <1>1, <1>5, NoWriter
<1>7. \A b \in Socks : SameWork(b)
  BY <1>2, WorkStays
<1>8. Owned(t)
  BY <1>2, <1>4, GoesOwned
<1>9. ListenAt(t)'
  <2>. SUFFICES ASSUME req[t].op = "Listen", res'[t] = OK, s \in Sound'
                PROVE  stack'[s].st = "listening" /\ stack'[s].named
    BY <1>1, <1>2 DEF ListenAt
  <2>1. pc[t] = "listened" /\ s \in Sound /\ s \in Socks
    BY <1>2, <1>3, StepOps DEF Sound, Unshared, owner
  <2>2. attr[s].bound # 0 /\ stack' = stack /\ stack[s].st = "listening"
    BY <1>1, <1>2, <1>3, <2>1 DEF CourseOf, ListenAt
  <2>3. attr[s].bound = 1
    BY <1>3, <2>1, <2>2, AttrNumbers, Typing
  <2>4. stack[s].named
    BY <2>1, <2>3, InvParts DEF SocketOf, FlagNamed
  <2>. QED  BY <2>2, <2>4
<1>10. BindAt(t)'
  <2>. SUFFICES ASSUME req[t].op = "Bind", res'[t] = EADDRINUSE, s \in Sound'
                PROVE  ~stack'[s].named
    BY <1>1, <1>2 DEF BindAt
  <2>1. pc[t] = "bindFailed" /\ s \in Sound /\ s \in Socks
    BY <1>2, <1>3, StepOps DEF Sound, Unshared, owner
  <2>2. attr[s].bound # 1 /\ stack' = stack /\ stack[s].st = "open"
    BY <1>1, <1>2, <1>3, <2>1 DEF CourseOf, BindAt
  <2>3. ~\E u \in Threads : Writing(u, s) /\ req[u].op = "Bind"
    BY <1>6, <2>1 DEF Writing, WriterOps
  <2>. QED  BY <2>1, <2>2, <2>3, InvParts DEF SocketOf, OpenBound, Sound
<1>11. NewAt(t)' /\ WriteAt(t)' /\ CheckAt(t)'
  BY <1>2, <1>4 DEF NewAt, WriteAt, CheckAt
<1>12. \A u \in Threads \ {t} : req[u].op = "Bind" /\ req[u].sock = s => s \notin Socks
  BY <1>6 DEF WriterOps
<1>. QED  BY <1>2, <1>7, <1>8, <1>9, <1>10, <1>11, <1>12, KeptCopy DEF CourseOf

LEMMA ConnectedCopy ==
  ASSUME Inv, held' \subseteq Socks, NEW t \in Threads, Connected(t)
  PROVE  CopyInv'
<1>1. PICK s : req[t].sock = s
  OBVIOUS
<1>2. /\ OthersStay(t) /\ pc[t] = "connect" /\ pc'[t] = "load" /\ req'[t] = req[t]
      /\ KeepsAll(stack', s) /\ Unshared /\ UNCHANGED held
      /\ s \in Socks /\ stack'[s].st \in Tied
  BY <1>1 DEF Connected, Goes, Moved, Unshared, owner
<1>3. req[t].op = "Connect"
  BY <1>2, InvParts DEF ControlOf
<1>4. \A u \in Threads \ {t} : req[u].op = "Bind" /\ req[u].sock = s => s \notin Socks
  BY <1>1, <1>3, NoWriter DEF WriterOps
<1>5. \A b \in Socks : SameWork(b)
  BY <1>2, WorkStays
<1>6. ~Given(t)'
  BY <1>2 DEF Given
<1>7. Owned(t)
  BY <1>2, <1>6, GoesOwned
<1>8. ASSUME \A b \in Socks : SocketOf(b)' PROVE CourseOf(t)'
  <2>1. stack'[s].named
    BY <1>2, <1>8 DEF SocketOf, TiedNamed
  <2>. QED  BY <1>1, <1>2, <1>3, <1>6, <2>1
            DEF CourseOf, NewAt, WriteAt, CheckAt, ListenAt, BindAt
<1>. QED  BY <1>2, <1>4, <1>5, <1>7, <1>8, KeptCopy

(* A call in progress on a socket that is held, no writer beside it.       *)
LEMMA StillCopy ==
  ASSUME Inv, held' \subseteq Socks, NEW t \in Threads, OthersStay(t), req'[t] = req[t],
         UNCHANGED stack, Unshared, ~Given(t)', req[t].op # "Close",
         \A b \in Socks : SameWork(b), CourseOf(t)'
  PROVE  CopyInv'
<1>1. PICK s : req[t].sock = s
  OBVIOUS
<1>2. KeepsAll(stack', s)
  BY StillKeeps, InvParts
<1>3. \A u \in Threads \ {t} : req[u].op = "Bind" /\ req[u].sock = s => s \notin Socks
  BY <1>1, NoWriter DEF WriterOps
<1>4. UNCHANGED held
  BY DEF Unshared, owner
<1>5. Owned(t)
  BY <1>4, GoesOwned
<1>. QED  BY <1>2, <1>3, <1>5, KeptCopy

LEMMA ReadCopy ==
  ASSUME Inv, held' \subseteq Socks, NEW t \in Threads, SecRead(t) \/ MsecRead(t)
  PROVE  CopyInv'
<1>1. PICK s : req[t].sock = s
  OBVIOUS
<1>2. /\ OthersStay(t) /\ pc[t] \in {"tv_sec", "tv_msec"} /\ pc'[t] \in {"tv_msec", "select"}
      /\ req'[t] = req[t] /\ UNCHANGED stack /\ Unshared
  BY DEF SecRead, MsecRead, Goes, Moved
<1>3. s \in Socks /\ req[t].op = "Recv" /\ TypeInv /\ CourseOf(t)
  BY <1>1, <1>2, InvParts, Places
<1>4. attr' = attr /\ stack' = stack /\ (s \in Sound' => s \in Sound)
  BY <1>2 DEF Unshared, owner, Sound
<1>5. CheckAt(t)'
  <2>. SUFFICES ASSUME s \in Sound
                PROVE  /\ ~stack[s].nbio
                       /\ pc'[t] = "tv_msec" => limit'[t] = 1000 * attr[s].tv_sec
                       /\ pc'[t] = "select" => limit'[t] = OwnWait(s)'
    BY <1>1, <1>2, <1>4 DEF CheckAt
  <2>1. ~stack[s].nbio
    BY <1>1, <1>2, <1>3 DEF CourseOf, CheckAt
  <2>2. pc'[t] = "tv_msec" => limit'[t] = 1000 * attr[s].tv_sec
    BY <1>1, <1>2 DEF SecRead, MsecRead, Goes
  <2>3. ASSUME pc'[t] = "select" PROVE limit'[t] = OwnWait(s)
    <3>1. MsecRead(t)
      BY <2>3 DEF SecRead, Goes
    <3>2. pc[t] = "tv_msec" /\ limit'[t] = NoTimeout(limit[t] + attr[s].tv_msec)
      BY <1>1, <3>1 DEF MsecRead, Goes
    <3>3. limit[t] = 1000 * attr[s].tv_sec
      BY <1>1, <1>3, <3>2 DEF CourseOf, CheckAt
    <3>4. ~\E u \in Threads : Writing(u, s) /\ req[u].op = "SetTimeo"
      BY <1>1, <1>2, <1>3, NoWriter DEF Writing, WriterOps
    <3>5. 1000 * attr[s].tv_sec + attr[s].tv_msec = stack[s].timeo
      BY <1>3, <3>4, InvParts DEF SocketOf, SettledTime, TimeCopied
    <3>6. limit'[t] = NoTimeout(stack[s].timeo)
      BY <3>2, <3>3, <3>5
    <3>. QED  BY <1>3, <2>1, <3>6 DEF NoTimeout, OwnWait
  <2>4. OwnWait(s)' = OwnWait(s)
    BY <1>4 DEF OwnWait
  <2>. QED  BY <2>1, <2>2, <2>3, <2>4
<1>6. ~Given(t)' /\ \A b \in Socks : SameWork(b)
  BY <1>2, WorkStays DEF Given
<1>7. NewAt(t)' /\ WriteAt(t)' /\ ListenAt(t)' /\ BindAt(t)'
  BY <1>2, <1>6 DEF NewAt, WriteAt, ListenAt, BindAt
<1>. QED  BY <1>2, <1>3, <1>5, <1>6, <1>7, StillCopy DEF CourseOf

LEMMA LoadedCopy ==
  ASSUME Inv, held' \subseteq Socks, NEW t \in Threads, Loaded(t)
  PROVE  CopyInv'
<1>1. PICK s : req[t].sock = s
  OBVIOUS
<1>2. PICK v : req[t].val = v
  OBVIOUS
<1>3. /\ OthersStay(t) /\ pc[t] = "load" /\ pc'[t] = "store" /\ req'[t] = req[t]
      /\ res'[t] = res[t] /\ field'[t] = field[t] /\ word'[t] = Changed(attr[s], field[t], v)
      /\ UNCHANGED stack /\ Unshared /\ attr' = attr /\ tainted' = tainted
  BY <1>1, <1>2 DEF Loaded, Goes, Moved, Unshared, owner
<1>4. req[t].op \in WriterOps /\ CourseOf(t)
  BY <1>3, InvParts, Places
<1>5. /\ req[t].op \in {"Bind", "Connect"} => stack[s].named
      /\ req[t].op = "SetMode"  => (stack[s].nbio <=> v # 0)
      /\ req[t].op = "SetTimeo" => stack[s].timeo = v
      /\ req[t].op = "SetTimeo" /\ field[t] = "tv_msec" /\ s \notin tainted
           => attr[s].tv_sec = Whole(v)
  BY <1>1, <1>2, <1>3, <1>4 DEF CourseOf, WriteAt
<1>6. WriteAt(t)'
  BY <1>1, <1>2, <1>3, <1>5 DEF WriteAt
<1>7. BindAt(t)'
  BY <1>3, <1>4 DEF CourseOf, BindAt
<1>8. NewAt(t)' /\ CheckAt(t)' /\ ListenAt(t)' /\ ~Given(t)'
  BY <1>3 DEF NewAt, CheckAt, ListenAt, Given
<1>9. \A b \in Socks : SameWork(b)
  BY <1>3, WorkStays
<1>. QED  BY <1>3, <1>4, <1>6, <1>7, <1>8, <1>9, StillCopy DEF CourseOf, WriterOps

(* The stack has bound the socket.                                         *)
LEMMA BindDoneCopy ==
  ASSUME Inv, Discipline, held' \subseteq Socks, NEW t \in Threads, NEW s, BindDone(t, s)
  PROVE  CopyInv'
<1>1. /\ Begun(t, "Bind", s, 0, OK, "load") /\ Keeps(stack') /\ KeepsOthers(stack', s)
      /\ Unshared /\ s \in Socks /\ stack'[s].named
  BY DEF BindDone
<1>2. /\ OthersStay(t) /\ pc[t] = "idle" /\ pc'[t] = "load" /\ req'[t].op = "Bind"
      /\ req'[t].sock = s /\ res'[t] = OK
      /\ attr' = attr /\ held' = held /\ tainted' = tainted
  BY <1>1 DEF Begun, Moved, Unshared, owner
<1>3. /\ Apart(t) /\ Rightful(t) /\ s \in held
      /\ \A u \in Threads \ {t} : req[u].sock = s => req[u].op = "Close"
  BY <1>1, <1>2, BegunAlone DEF WriterOps
<1>4. ~Given(t)'
  BY <1>2 DEF Given
<1>5. \A b \in Socks : SameWork(b)
  BY <1>2, WorkStays
<1>6. \A b \in Socks : Untouched(b)
  BY <1>1, <1>2 DEF Untouched, Keeps
<1>7. Spares(t)
  <2>. SUFFICES ASSUME NEW u \in Threads \ {t} PROVE Spared(u)
    BY DEF Spares
  <2>1. req[u].op = "Bind" /\ req[u].sock \in Socks
          => Steady(stack[req[u].sock], stack'[req[u].sock])
    BY <1>1, <1>3 DEF KeepsOthers
  <2>. QED  BY <1>2, <1>6, <2>1, GivenApart DEF Spared, OthersStay
<1>8. ASSUME NEW b \in Socks PROVE SocketOf(b)'
  <2>1. CASE b # s
    <3>1. Passed(b)
      BY <1>1, <1>2, <1>5, <2>1, OthersPassed
    <3>. QED  BY <3>1, SocketStays
  <2>2. CASE b = s
    <3>1. /\ HeldUsed(s) /\ NoClear(s) /\ Clean(s) /\ SettledMode(s) /\ SettledTime(s)
          /\ SameSock(stack[s], stack'[s]) /\ SameWork(s) /\ (s \in Sound' <=> s \in Sound)
      BY <1>1, <1>2, <1>5, InvParts DEF SocketOf, Keeps, Sound
    <3>2. HeldUsed(s)' /\ TiedNamed(s)' /\ FlagNamed(s)'
      BY <1>1, <1>2, <3>1 DEF HeldUsed, TiedNamed, FlagNamed, SameSock
    <3>3. NoClear(s)' /\ Clean(s)'
      BY <1>2, <3>1, ClearsStay DEF NoClear, Clean, SameSock
    <3>4. OpenBound(s)'
      <4>1. Writing(t, s)' /\ req'[t].op = "Bind" /\ s \in held'
        BY <1>2, <1>3 DEF Writing
      <4>. QED  BY <4>1 DEF OpenBound
    <3>5. SettledMode(s)'
      BY <1>1, <1>2, <3>1, WritersStay, CopiedStays DEF SettledMode
    <3>6. SettledTime(s)'
      BY <1>1, <1>2, <3>1, WritersStay, CopiedStays DEF SettledTime
    <3>. QED  BY <2>2, <3>2, <3>3, <3>4, <3>5, <3>6 DEF SocketOf
  <2>. QED  BY <2>1, <2>2
<1>9. CourseOf(t)'
  BY <1>1, <1>2, <1>4 DEF CourseOf, NewAt, WriteAt, CheckAt, ListenAt, BindAt
<1>10. Owned(t)
  BY <1>3, <1>4 DEF Owned, Brings
<1>. QED  BY <1>7, <1>8, <1>9, <1>10, InvStep

(* A socket is handed out: nobody uses it, and it is no thread's to return.*)
LEMMA GrantsCopy ==
  ASSUME Inv, NEW t \in Threads, OthersStay(t), NEW n, Grants(stack', n, FALSE, 0),
         HandedOut(n, None), UNCHANGED <<held, attr>>, \A b \in Socks : SameWork(b)
  PROVE  /\ Spares(t) /\ \A b \in Socks : SocketOf(b)'
         /\ n \notin held' /\ \A u \in Threads \ {t} : Given(u) => res[u] # n
         /\ n \notin tainted' => attr'[n] = NoAttr
<1>1. /\ n \in Socks /\ stack[n].st = "free" /\ KeepsOthers(stack', n)
      /\ stack'[n].st # "free"
      /\ stack'[n].st = "open" => ~stack'[n].named
      /\ stack'[n].st \in Tied => stack'[n].named
  BY DEF Grants
<1>2. SocketOf(n) /\ held' = held /\ attr' = attr
  BY <1>1, InvParts
<1>3. n \notin held
  BY <1>1, <1>2 DEF SocketOf, HeldUsed
<1>4. \A b \in Socks \ {n} : b \in tainted' <=> b \in tainted
  BY DEF HandedOut
<1>5. (\E u \in Threads : Clears(u, n)) => n \in tainted'
  BY DEF HandedOut, Clears
<1>6. \A b \in Socks \ {n} : Passed(b) /\ Untouched(b) /\ Steady(stack[b], stack'[b])
  BY <1>1, <1>2, <1>4, OthersPassed
<1>7. Spares(t)
  <2>. SUFFICES ASSUME NEW u \in Threads \ {t} PROVE Spared(u)
    BY DEF Spares
  <2>1. req[u].op \notin {"Create", "Close"} /\ req[u].sock \in Socks
          => Untouched(req[u].sock) /\ Steady(stack[req[u].sock], stack'[req[u].sock])
    BY <1>1, <1>6, UsedHeld
  <2>2. Given(u) => Untouched(res[u])
    BY <1>1, <1>6, GivenApart
  <2>. QED  BY <2>1, <2>2 DEF Spared, OthersStay
<1>8. ASSUME NEW b \in Socks PROVE SocketOf(b)'
  <2>1. CASE b # n
    BY <1>6, <2>1, SocketStays
  <2>2. CASE b = n
    <3>1. n \notin Sound'
      BY <1>2, <1>3 DEF Sound
    <3>2. NoClear(n)'
      <4>1. SameWork(n)
        BY <1>1
      <4>. QED  BY <1>5, <4>1, ClearsStay DEF NoClear
    <3>. QED  BY <1>1, <1>2, <1>3, <2>2, <3>1, <3>2
              DEF SocketOf, HeldUsed, Clean, TiedNamed, OpenBound, SettledMode, SettledTime,
                  FlagNamed
  <2>. QED  BY <2>1, <2>2
<1>9. n \notin tainted' => attr'[n] = NoAttr
  BY <1>1, <1>2, <1>5 DEF SocketOf, Clean
<1>10. \A u \in Threads \ {t} : Given(u) => res[u] # n
  BY <1>1, GivenApart
<1>. QED  BY <1>2, <1>3, <1>7, <1>8, <1>9, <1>10

LEMMA CreatedCopy ==
  ASSUME Inv, Discipline, held' \subseteq Socks, NEW t \in Threads, NEW n, Created(t, n)
  PROVE  CopyInv'
<1>1. /\ Begun(t, "Create", None, 0, n, "clear") /\ HandedOut(n, None)
      /\ Grants(stack', n, FALSE, 0) /\ UNCHANGED <<held, attr>>
  BY DEF Created
<1>2. /\ OthersStay(t) /\ pc[t] = "idle" /\ pc'[t] = "clear" /\ req'[t].op = "Create"
      /\ req'[t].sock = None /\ res'[t] = n
      /\ stack'[n].st # "free" /\ ~stack'[n].nbio /\ stack'[n].timeo = 0
  BY <1>1 DEF Begun, Moved, Grants
<1>3. \A b \in Socks : SameWork(b)
  BY <1>2, WorkStays
<1>4. /\ Spares(t) /\ \A b \in Socks : SocketOf(b)'
      /\ n \notin held' /\ \A u \in Threads \ {t} : Given(u) => res[u] # n
  BY <1>1, <1>2, <1>3, GrantsCopy
<1>5. Apart(t) /\ Rightful(t)
  BY <1>1, BegunAlone
<1>6. Owned(t)
  BY <1>2, <1>4, <1>5 DEF Owned, Brings
<1>7. CourseOf(t)'
  BY <1>2, ReqRange DEF CourseOf, NewAt, WriteAt, CheckAt, ListenAt, BindAt
<1>. QED  BY <1>4, <1>6, <1>7, InvStep

LEMMA AcceptGivenCopy ==
  ASSUME Inv, held' \subseteq Socks, NEW t \in Threads, NEW n, AcceptGiven(t, n)
  PROVE  CopyInv'
<1>1. /\ OthersStay(t) /\ pc[t] = "accept" /\ pc'[t] = "done" /\ req'[t] = req[t]
      /\ req[t].op = "Accept" /\ res'[t] = n
      /\ Grants(stack', n, FALSE, 0) /\ HandedOut(n, None) /\ UNCHANGED <<held, attr>>
  BY DEF AcceptGiven, Goes, Moved
<1>2. stack'[n].st # "free" /\ ~stack'[n].nbio /\ stack'[n].timeo = 0
  BY <1>1 DEF Grants
<1>3. \A b \in Socks : SameWork(b)
  BY <1>1, WorkStays
<1>4. /\ Spares(t) /\ \A b \in Socks : SocketOf(b)'
      /\ n \notin held' /\ \A u \in Threads \ {t} : Given(u) => res[u] # n
      /\ n \notin tainted' => attr'[n] = NoAttr
  BY <1>1, <1>3, GrantsCopy
<1>5. Apart(t) /\ Rightful(t)
  BY <1>1, InvParts DEF Apart, WriterAlone, Rightful, InUse
<1>6. Owned(t)
  BY <1>1, <1>2, <1>4, <1>5 DEF Owned, Brings
<1>7. CourseOf(t)'
  BY <1>1, <1>2, <1>4 DEF CourseOf, NewAt, WriteAt, CheckAt, ListenAt, BindAt
<1>. QED  BY <1>4, <1>6, <1>7, InvStep

(* A call changes socket s, which is held, or its entry, and no other call *)
(* but Close is on it.                                                     *)
LEMMA SparesBut ==
  ASSUME Inv, NEW t \in Threads, OthersStay(t), NEW s \in Socks, s \in held,
         \A b \in Socks \ {s} : Untouched(b) /\ Steady(stack[b], stack'[b]),
         \A u \in Threads \ {t} : req[u].sock = s => req[u].op = "Close"
  PROVE  Spares(t)
<1>. SUFFICES ASSUME NEW u \in Threads \ {t} PROVE Spared(u)
  BY DEF Spares
<1>1. req[u].op \notin {"Create", "Close"} /\ req[u].sock \in Socks
        => Untouched(req[u].sock) /\ Steady(stack[req[u].sock], stack'[req[u].sock])
  OBVIOUS
<1>2. Given(u) => Untouched(res[u])
  BY GivenApart
<1>. QED  BY <1>1, <1>2 DEF Spared, OthersStay

LEMMA ClosedCopy ==
  ASSUME Inv, Discipline, held' \subseteq Socks, NEW t \in Threads, NEW s, Closed(t, s)
  PROVE  CopyInv'
<1>1. PICK r : Begun(t, "Close", s, 0, r, "clear")
  BY DEF Closed
<1>2. /\ s \in Socks /\ KeepsOthers(stack', s) /\ stack'[s].st = "free"
      /\ held' = held \ {s} /\ tainted' = tainted /\ attr' = attr
  BY DEF Closed
<1>3. /\ OthersStay(t) /\ pc[t] = "idle" /\ pc'[t] = "clear" /\ req'[t].op = "Close"
      /\ req'[t].sock = s
  BY <1>1 DEF Begun, Moved
<1>4. /\ Apart(t) /\ s \in held
      /\ \A u \in Threads \ {t} : req[u].sock = s => req[u].op = "Close"
  BY <1>1, <1>2, BegunAlone
<1>5. \A b \in Socks \ {s} : Passed(b) /\ Untouched(b) /\ Steady(stack[b], stack'[b])
  <2>. SUFFICES ASSUME NEW b \in Socks \ {s}
                PROVE  Passed(b) /\ Untouched(b) /\ Steady(stack[b], stack'[b])
    OBVIOUS
  <2>1. SameWork(b)
    BY <1>3, WorkStays
  <2>. QED  BY <1>2, <2>1, OthersPassed
<1>6. Spares(t)
  BY <1>2, <1>3, <1>4, <1>5, SparesBut
<1>7. ASSUME NEW b \in Socks PROVE SocketOf(b)'
  <2>1. CASE b # s
    BY <1>5, <2>1, SocketStays
  <2>2. CASE b = s
    <3>1. Clears(t, s)' /\ s \notin held' /\ s \notin Sound'
      BY <1>2, <1>3 DEF Clears, Sound
    <3>. QED  BY <1>2, <2>2, <3>1
              DEF SocketOf, HeldUsed, NoClear, Clean, TiedNamed, OpenBound, SettledMode,
                  SettledTime, FlagNamed, Tied
  <2>. QED  BY <2>1, <2>2
<1>8. Owned(t)
  BY <1>3, <1>4 DEF Owned, Rightful, Brings, Given
<1>9. CourseOf(t)'
  BY <1>3 DEF CourseOf, NewAt, Given, WriteAt, CheckAt, ListenAt, BindAt
<1>. QED  BY <1>6, <1>7, <1>8, <1>9, InvStep

(* An option is set in the stack.                                          *)
LEMMA SetsCopy ==
  ASSUME Inv, NEW t \in Threads, OthersStay(t), pc[t] = "idle", pc'[t] = "load",
         NEW s \in held, req'[t].sock = s, NEW nbio, NEW timeo, Sets(stack', s, nbio, timeo),
         Unshared, \A u \in Threads \ {t} : req[u].sock = s => req[u].op = "Close",
         nbio = stack[s].nbio \/ req'[t].op = "SetMode",
         timeo = stack[s].timeo \/ req'[t].op = "SetTimeo"
  PROVE  Spares(t) /\ \A b \in Socks : SocketOf(b)'
<1>1. /\ s \in Socks /\ stack[s].st # "free" /\ KeepsOthers(stack', s)
      /\ stack'[s].st = stack[s].st /\ stack'[s].named = stack[s].named
      /\ stack'[s].nbio = nbio /\ stack'[s].timeo = timeo
      /\ held' = held /\ tainted' = tainted /\ attr' = attr
  BY DEF Sets, Unshared, owner
<1>2. \A b \in Socks : SameWork(b)
  BY WorkStays
<1>3. \A b \in Socks \ {s} : Passed(b) /\ Untouched(b) /\ Steady(stack[b], stack'[b])
  BY <1>1, <1>2, OthersPassed
<1>4. Spares(t)
  BY <1>1, <1>3, SparesBut
<1>5. ASSUME NEW b \in Socks PROVE SocketOf(b)'
  <2>1. CASE b # s
    BY <1>3, <2>1, SocketStays
  <2>2. CASE b = s
    <3>1. /\ HeldUsed(s) /\ NoClear(s) /\ Clean(s) /\ TiedNamed(s) /\ OpenBound(s)
          /\ SettledMode(s) /\ SettledTime(s) /\ FlagNamed(s)
          /\ SameWork(s) /\ (s \in Sound' <=> s \in Sound) /\ Writing(t, s)'
      BY <1>1, <1>2, InvParts DEF SocketOf, Sound, Writing
    <3>2. HeldUsed(s)' /\ TiedNamed(s)' /\ FlagNamed(s)' /\ Clean(s)'
      BY <1>1, <3>1 DEF HeldUsed, TiedNamed, FlagNamed, Clean
    <3>3. NoClear(s)'
      BY <1>1, <3>1, ClearsStay DEF NoClear
    <3>4. OpenBound(s)'
      BY <1>1, <3>1, WritersStay DEF OpenBound
    <3>5. SettledMode(s)'
      <4>1. CASE req'[t].op = "SetMode"
        BY <3>1, <4>1 DEF SettledMode
      <4>2. CASE nbio = stack[s].nbio
        <5>1. ModeCopied(attr[s], stack'[s]) <=> ModeCopied(attr[s], stack[s])
          BY <1>1, <4>2 DEF ModeCopied
        <5>. QED  BY <1>1, <3>1, <5>1, WritersStay DEF SettledMode
      <4>. QED  BY <4>1, <4>2
    <3>6. SettledTime(s)'
      <4>1. CASE req'[t].op = "SetTimeo"
        BY <3>1, <4>1 DEF SettledTime
      <4>2. CASE timeo = stack[s].timeo
        <5>1. TimeCopied(attr[s], stack'[s]) <=> TimeCopied(attr[s], stack[s])
          BY <1>1, <4>2 DEF TimeCopied
        <5>. QED  BY <1>1, <3>1, <5>1, WritersStay DEF SettledTime
      <4>. QED  BY <4>1, <4>2
    <3>. QED  BY <2>2, <3>2, <3>3, <3>4, <3>5, <3>6 DEF SocketOf
  <2>. QED  BY <2>1, <2>2
<1>. QED  BY <1>4, <1>5

LEMMA SetCopy ==
  ASSUME Inv, Discipline, held' \subseteq Socks, NEW t \in Threads, NEW s, NEW v,
         ModeSet(t, s, v) \/ TimeoSet(t, s, v)
  PROVE  CopyInv'
<1>1. PICK op, r : op \in {"SetMode", "SetTimeo"} /\ Begun(t, op, s, v, r, "load")
  BY DEF ModeSet, TimeoSet
<1>2. /\ OthersStay(t) /\ pc[t] = "idle" /\ pc'[t] = "load" /\ req'[t].op = op
      /\ req'[t].sock = s /\ req'[t].val = v
  BY <1>1 DEF Begun, Moved
<1>3. Unshared /\ UNCHANGED held /\ s \in Socks
  BY DEF ModeSet, TimeoSet, Unshared, owner, Sets
<1>4. /\ Apart(t) /\ Rightful(t) /\ s \in held
      /\ \A u \in Threads \ {t} : req[u].sock = s => req[u].op = "Close"
  BY <1>1, <1>3, BegunAlone DEF WriterOps
<1>5. Owned(t)
  BY <1>2, <1>4 DEF Owned, Brings, Given
<1>6. CASE ModeSet(t, s, v)
  <2>1. req'[t].op = "SetMode" /\ Sets(stack', s, v # 0, stack[s].timeo)
    BY <1>6 DEF ModeSet, Begun
  <2>2. Spares(t) /\ \A b \in Socks : SocketOf(b)'
    BY <1>2, <1>3, <1>4, <2>1, SetsCopy
  <2>3. stack'[s].nbio = (v # 0)
    BY <2>1 DEF Sets
  <2>4. WriteAt(t)'
    BY <1>2, <2>1, <2>3 DEF WriteAt
  <2>5. CourseOf(t)'
    BY <1>2, <2>1, <2>4 DEF CourseOf, NewAt, Given, CheckAt, ListenAt, BindAt
  <2>. QED  BY <1>5, <2>2, <2>5, InvStep
<1>7. CASE TimeoSet(t, s, v)
  <2>1. /\ req'[t].op = "SetTimeo" /\ field'[t] = "tv_sec"
        /\ Sets(stack', s, stack[s].nbio, v)
    BY <1>7 DEF TimeoSet, Begun
  <2>2. Spares(t) /\ \A b \in Socks : SocketOf(b)'
    BY <1>2, <1>3, <1>4, <2>1, SetsCopy
  <2>3. stack'[s].timeo = v
    BY <2>1 DEF Sets
  <2>4. WriteAt(t)'
    BY <1>2, <2>1, <2>3 DEF WriteAt
  <2>5. CourseOf(t)'
    BY <1>2, <2>1, <2>4 DEF CourseOf, NewAt, Given, CheckAt, ListenAt, BindAt
  <2>. QED  BY <1>5, <2>2, <2>5, InvStep
<1>. QED  BY <1>6, <1>7

(* A step on an entry alone: what it is for the other sockets.             *)
LEMMA EntryPassed ==
  ASSUME Inv, UNCHANGED stack, UNCHANGED owner, NEW s, NEW a, attr' = [attr EXCEPT ![s] = a],
         NEW b \in Socks \ {s}, SameWork(b)
  PROVE  Passed(b) /\ Untouched(b) /\ Steady(stack[b], stack'[b])
<1>1. attr'[b] = attr[b] /\ stack'[b] = stack[b] /\ held' = held /\ tainted' = tainted
  BY InvParts, Typing DEF owner
<1>. QED  BY <1>1 DEF Passed, Untouched, Steady, SameSock

LEMMA EntrySet ==
  ASSUME TypeInv, NEW s \in Socks, NEW a, attr' = [attr EXCEPT ![s] = a]
  PROVE  attr'[s] = a
  BY Typing

LEMMA ClearedCopy ==
  ASSUME Inv, held' \subseteq Socks, NEW t \in Threads, NEW n, Cleared(t, n)
  PROVE  CopyInv'
<1>1. /\ OthersStay(t) /\ pc[t] = "clear" /\ pc'[t] = "done" /\ req'[t] = req[t]
      /\ res'[t] = res[t] /\ n \in Socks
      /\ \/ req[t].op = "Create" /\ n = res[t]
         \/ req[t].op = "Close"  /\ n = req[t].sock
      /\ attr' = [attr EXCEPT ![n] = NoAttr] /\ UNCHANGED stack /\ UNCHANGED owner
      /\ held' = held /\ tainted' = tainted
  BY DEF Cleared, Goes, Moved, owner
<1>2. attr'[n] = NoAttr
  BY <1>1, InvParts, EntrySet
<1>3. \A b \in Socks \ {n} : Passed(b) /\ Untouched(b) /\ Steady(stack[b], stack'[b])
  <2>. SUFFICES ASSUME NEW b \in Socks \ {n}
                PROVE  Passed(b) /\ Untouched(b) /\ Steady(stack[b], stack'[b])
    OBVIOUS
  <2>1. SameWork(b)
    BY <1>1, WorkStays
  <2>. QED  BY <1>1, <2>1, EntryPassed
<1>4. n \in tainted => Untouched(n)
  BY <1>1 DEF Untouched, SameSock
<1>5. \A b \in Socks : Steady(stack[b], stack'[b])
  BY <1>1 DEF Steady
<1>6. /\ HeldUsed(n) /\ NoClear(n) /\ TiedNamed(n) /\ OpenBound(n)
  BY <1>1, InvParts DEF SocketOf
<1>7. Given(t)' <=> Given(t)
  BY <1>1 DEF Given
<1>8. req[t].op = "Create" => Given(t)
  <2>. SUFFICES ASSUME req[t].op = "Create" PROVE Given(t)
    OBVIOUS
  <2>1. n >= 0
    BY <1>1, SockNumbers
  <2>. QED  BY <1>1, <2>1 DEF Given
<1>9. req[t].op = "Close" => Clears(t, n)
  BY <1>1 DEF Clears
<1>10. req[t].op = "Create" => n \notin held /\ stack[n].st # "free"
  BY <1>1, <1>8, GivenApart
<1>11. req[t].op = "Close" => stack[n].st = "free" \/ n \in tainted
  BY <1>6, <1>9 DEF NoClear
<1>12. Spares(t)
  <2>. SUFFICES ASSUME NEW u \in Threads \ {t} PROVE Spared(u)
    BY DEF Spares
  <2>1. req[u].op \notin {"Create", "Close"} /\ req[u].sock \in Socks => Untouched(req[u].sock)
    BY <1>1, <1>3, <1>4, <1>10, <1>11, UsedHeld
  <2>2. Given(u) => Untouched(res[u])
    <3>1. Given(u) => res[u] \in Socks /\ stack[res[u]].st # "free"
      BY GivenApart
    <3>2. Given(u) /\ req[t].op = "Create" => res[u] # n
      BY <1>1, <1>8, InvParts DEF GivenNew
    <3>. QED  BY <1>1, <1>3, <1>4, <1>11, <3>1, <3>2
  <2>. QED  BY <1>1, <1>5, <2>1, <2>2 DEF Spared, OthersStay
<1>13. ASSUME NEW b \in Socks PROVE SocketOf(b)'
  <2>1. CASE b # n
    BY <1>3, <2>1, SocketStays
  <2>2. CASE b = n
    <3>1. HeldUsed(n)' /\ TiedNamed(n)' /\ Clean(n)'
      BY <1>1, <1>2, <1>6 DEF HeldUsed, TiedNamed, Clean
    <3>2. n \notin Sound'
      BY <1>1, <1>6, <1>10, <1>11 DEF Sound, HeldUsed
    <3>3. NoClear(n)'
      <4>1. ASSUME NEW u \in Threads, Clears(u, n)' PROVE Clears(u, n)
        BY <1>1, <4>1 DEF Clears, OthersStay
      <4>. QED  BY <1>1, <1>6, <4>1 DEF NoClear
    <3>4. OpenBound(n)'
      BY <1>1, <1>6, <1>10, <1>11 DEF OpenBound
    <3>. QED  BY <2>2, <3>1, <3>2, <3>3, <3>4 DEF SocketOf, SettledMode, SettledTime, FlagNamed
  <2>. QED  BY <2>1, <2>2
<1>14. Owned(t)
  BY <1>1, <1>7, GivenApart, GoesOwned
<1>15. CourseOf(t)'
  <2>1. NewAt(t)'
    <3>1. Given(t) => req[t].op = "Create" /\ n = res[t] /\ NewAt(t)
      BY <1>1, InvParts DEF Given, CourseOf
    <3>. QED  BY <1>1, <1>2, <1>7, <3>1 DEF NewAt
  <2>. QED  BY <1>1, <2>1 DEF CourseOf, WriteAt, CheckAt, ListenAt, BindAt
<1>. QED  BY <1>12, <1>13, <1>14, <1>15, InvStep

(* A thread stores its word: what that is, unless the entry is tainted.    *)
Stores(t, s, op, v, c) ==
  /\ OthersStay(t) /\ pc[t] = "store" /\ pc'[t] \in {"load", "done"} /\ req'[t] = req[t]
  /\ res'[t] = res[t] /\ req[t].sock = s /\ req[t].op = op /\ req[t].val = v
  /\ s \in Socks /\ s \in held /\ op \in WriterOps /\ v \in Nat
  /\ op \in {"Bind", "Connect"} => field[t] = "bound"
  /\ op = "SetMode"  => field[t] = "ionbio"
  /\ op = "SetTimeo" => field[t] \in {"tv_sec", "tv_msec"}
  /\ pc'[t] = "load" => field[t] = "tv_sec" /\ field'[t] = "tv_msec"
  /\ pc'[t] = "done" => field[t] # "tv_sec"
  /\ attr' = [attr EXCEPT ![s] = c] /\ attr'[s] = c
  /\ UNCHANGED stack /\ UNCHANGED owner /\ held' = held /\ tainted' = tainted
  /\ s \notin tainted =>
       /\ field[t] # "ionbio"  => c.ionbio = attr[s].ionbio
       /\ field[t] # "bound"   => c.bound = attr[s].bound
       /\ field[t] # "tv_sec"  => c.tv_sec = attr[s].tv_sec
       /\ field[t] # "tv_msec" => c.tv_msec = attr[s].tv_msec
       /\ field[t] = "ionbio" => c.ionbio = Flag(v)
       /\ field[t] = "bound" => c.bound = 1
       /\ field[t] = "tv_sec" => c.tv_sec = Whole(v)
       /\ field[t] = "tv_msec" => c.tv_msec = Rest(v)

LEMMA StoresWord ==
  ASSUME Inv, NEW t \in Threads, SecStored(t) \/ Stored(t)
  PROVE  \E s, op, v, c : Stores(t, s, op, v, c)
<1>1. PICK s : req[t].sock = s
  OBVIOUS
<1>2. PICK op : req[t].op = op
  OBVIOUS
<1>3. PICK v : req[t].val = v
  OBVIOUS
<1>4. PICK c : c = word[t]
  OBVIOUS
<1>5. /\ OthersStay(t) /\ pc[t] = "store" /\ pc'[t] \in {"load", "done"} /\ req'[t] = req[t]
      /\ res'[t] = res[t] /\ attr' = [attr EXCEPT ![s] = c] /\ UNCHANGED stack /\ UNCHANGED owner
      /\ held' = held /\ tainted' = tainted
      /\ pc'[t] = "load" => field[t] = "tv_sec" /\ field'[t] = "tv_msec"
      /\ pc'[t] = "done" => field[t] # "tv_sec"
  BY <1>1, <1>4 DEF SecStored, Stored, Goes, Moved, owner
<1>6. /\ s \in Socks /\ v \in Nat /\ op \in WriterOps
      /\ field[t] \in {"ionbio", "bound", "tv_sec", "tv_msec"}
      /\ field[t] = "tv_sec" => v \in RcvTimeouts
      /\ op \in {"Bind", "Connect"} => field[t] = "bound"
      /\ op = "SetMode"  => field[t] = "ionbio"
      /\ op = "SetTimeo" => field[t] \in {"tv_sec", "tv_msec"}
  BY <1>1, <1>2, <1>3, <1>5, Storable, InvParts DEF ControlOf
<1>7. s \in held
  BY <1>1, <1>2, <1>6, UsedHeld DEF WriterOps
<1>8. attr'[s] = c
  BY <1>5, <1>6, EntrySet, InvParts
<1>9. PICK a : a = attr[s]
  OBVIOUS
<1>10. a \in Attr
  BY <1>6, <1>9, InvParts, Typing
<1>11. s \notin tainted => c = Changed(a, field[t], v)
  BY <1>1, <1>3, <1>4, <1>5, <1>9, InvParts DEF CourseOf, WriteAt
<1>12. PICK f : f = field[t]
  OBVIOUS
<1>13. ASSUME c = Changed(a, f, v)
       PROVE  /\ f # "ionbio" => c.ionbio = a.ionbio
              /\ f # "bound" => c.bound = a.bound
              /\ f # "tv_sec"  => c.tv_sec = a.tv_sec
              /\ f # "tv_msec" => c.tv_msec = a.tv_msec
              /\ f = "ionbio" => c.ionbio = Flag(v)
              /\ f = "bound" => c.bound = 1
              /\ f = "tv_sec" => c.tv_sec = Whole(v)
              /\ f = "tv_msec" => c.tv_msec = Rest(v)
  <2>0. f \in {"ionbio", "bound", "tv_sec", "tv_msec"} /\ v \in Nat /\ a \in Attr
    BY <1>6, <1>10, <1>12
  <2>. USE <1>13, <2>0, ChangedFields
  <2>1. f # "ionbio" => c.ionbio = a.ionbio
    OBVIOUS
  <2>2. f # "bound" => c.bound = a.bound
    OBVIOUS
  <2>3. f # "tv_sec" => c.tv_sec = a.tv_sec
    OBVIOUS
  <2>4. f # "tv_msec" => c.tv_msec = a.tv_msec
    OBVIOUS
  <2>5. f = "ionbio" => c.ionbio = Flag(v)
    OBVIOUS
  <2>6. f = "bound" => c.bound = 1
    OBVIOUS
  <2>7. f = "tv_sec" => c.tv_sec = Whole(v)
    BY <1>6, <1>12
  <2>8. f = "tv_msec" => c.tv_msec = Rest(v)
    OBVIOUS
  <2>. QED  BY <2>1, <2>2, <2>3, <2>4, <2>5, <2>6, <2>7, <2>8, Zenon
<1>14. Stores(t, s, op, v, c)
  BY <1>1, <1>2, <1>3, <1>5, <1>6, <1>7, <1>8, <1>9, <1>11, <1>13, <1>12 DEF Stores
<1>. QED  BY <1>14


LEMMA StoresCopy ==
  ASSUME Inv, held' \subseteq Socks, NEW t \in Threads, NEW s, NEW op, NEW v, NEW c,
         Stores(t, s, op, v, c)
  PROVE  CopyInv'
<1>1. /\ OthersStay(t) /\ pc[t] = "store" /\ pc'[t] \in {"load", "done"} /\ req'[t] = req[t]
      /\ res'[t] = res[t] /\ req[t].sock = s /\ req[t].op = op /\ req[t].val = v
      /\ s \in Socks /\ s \in held /\ op \in WriterOps /\ v \in Nat
      /\ op \in {"Bind", "Connect"} => field[t] = "bound"
      /\ op = "SetMode"  => field[t] = "ionbio"
      /\ op = "SetTimeo" => field[t] \in {"tv_sec", "tv_msec"}
      /\ pc'[t] = "load" => field[t] = "tv_sec" /\ field'[t] = "tv_msec"
      /\ pc'[t] = "done" => field[t] # "tv_sec"
  BY DEF Stores
<1>2. /\ attr' = [attr EXCEPT ![s] = c] /\ attr'[s] = c
      /\ UNCHANGED stack /\ UNCHANGED owner /\ held' = held /\ tainted' = tainted
  BY DEF Stores
<1>3. s \notin tainted =>
        /\ field[t] # "ionbio"  => c.ionbio = attr[s].ionbio
        /\ field[t] # "bound"   => c.bound = attr[s].bound
        /\ field[t] # "tv_sec"  => c.tv_sec = attr[s].tv_sec
        /\ field[t] # "tv_msec" => c.tv_msec = attr[s].tv_msec
        /\ field[t] = "ionbio" => c.ionbio = Flag(v)
        /\ field[t] = "bound" => c.bound = 1
        /\ field[t] = "tv_sec" => c.tv_sec = Whole(v)
        /\ field[t] = "tv_msec" => c.tv_msec = Rest(v)
  BY DEF Stores
<1>4. /\ op \notin {"Create", "Accept", "Close", "Listen", "Recv"}
      /\ ~Given(t)' /\ ~Given(t)
  BY <1>1 DEF Given, WriterOps
<1>5. \A u \in Threads \ {t} : req[u].sock = s => req[u].op = "Close"
  BY <1>1, InvParts DEF WriterAlone
<1>6. /\ op \in {"Bind", "Connect"} => stack[s].named
      /\ op = "SetMode"  => (stack[s].nbio <=> v # 0)
      /\ op = "SetTimeo" => stack[s].timeo = v
      /\ op = "SetTimeo" /\ field[t] = "tv_msec" /\ s \notin tainted
           => attr[s].tv_sec = Whole(v)
      /\ op = "Bind" => res[t] = OK
  <2>1. WriteAt(t) /\ BindAt(t)
    BY InvParts DEF CourseOf
  <2>. QED  BY <1>1, <2>1 DEF WriteAt, BindAt
<1>7. \A b \in Socks \ {s} : Passed(b) /\ Untouched(b) /\ Steady(stack[b], stack'[b])
  <2>. SUFFICES ASSUME NEW b \in Socks \ {s}
                PROVE  Passed(b) /\ Untouched(b) /\ Steady(stack[b], stack'[b])
    OBVIOUS
  <2>1. SameWork(b)
    BY <1>1, WorkStays
  <2>. QED  BY <1>2, <2>1, EntryPassed
<1>8. Spares(t)
  BY <1>1, <1>5, <1>7, SparesBut
<1>9. ASSUME NEW o, o # op, \E u \in Threads : Writing(u, s) /\ req[u].op = o PROVE o = "Close"
  BY <1>1, <1>5, <1>9 DEF Writing
<1>10. SocketOf(s)'
  <2>1. /\ HeldUsed(s) /\ NoClear(s) /\ Clean(s) /\ TiedNamed(s) /\ OpenBound(s)
        /\ SettledMode(s) /\ SettledTime(s) /\ FlagNamed(s)
        /\ s \in Sound' => s \in Sound /\ s \notin tainted
    BY <1>1, <1>2, InvParts DEF SocketOf, Sound
  <2>2. HeldUsed(s)' /\ TiedNamed(s)' /\ Clean(s)'
    BY <1>1, <1>2, <2>1 DEF HeldUsed, TiedNamed, Clean
  <2>3. NoClear(s)'
    <3>1. ASSUME NEW u \in Threads, Clears(u, s)' PROVE Clears(u, s)
      BY <1>1, <1>4, <3>1 DEF Clears, OthersStay
    <3>. QED  BY <1>2, <2>1, <3>1 DEF NoClear
  <2>4. OpenBound(s)'
    <3>. SUFFICES ASSUME stack[s].st = "open", stack[s].named, s \notin tainted
                  PROVE  c.bound = 1
      BY <1>1, <1>2 DEF OpenBound
    <3>1. CASE attr[s].bound = 1
      BY <1>3, <3>1
    <3>2. CASE \E u \in Threads : Writing(u, s) /\ req[u].op = "Bind"
      BY <1>1, <1>3, <1>9, <3>2
    <3>. QED  BY <2>1, <3>1, <3>2 DEF OpenBound
  <2>5. SettledMode(s)'
    <3>. SUFFICES ASSUME s \in Sound, s \notin tainted PROVE ModeCopied(c, stack[s])
      BY <1>2, <2>1 DEF SettledMode
    <3>1. CASE op = "SetMode"
      BY <1>1, <1>3, <1>6, <3>1 DEF ModeCopied, Flag
    <3>2. CASE op # "SetMode"
      <4>1. ModeCopied(attr[s], stack[s])
        BY <1>9, <2>1, <3>2 DEF SettledMode
      <4>2. c.ionbio = attr[s].ionbio
        BY <1>1, <1>3, <3>2 DEF WriterOps
      <4>. QED  BY <4>1, <4>2 DEF ModeCopied
    <3>. QED  BY <3>1, <3>2
  <2>6. SettledTime(s)'
    <3>. SUFFICES ASSUME s \in Sound, s \notin tainted
                  PROVE  \/ TimeCopied(c, stack[s])
                         \/ \E u \in Threads : Writing(u, s)' /\ req'[u].op = "SetTimeo"
      BY <1>2, <2>1 DEF SettledTime
    <3>1. CASE op = "SetTimeo" /\ field[t] = "tv_sec"
      BY <1>1, <3>1 DEF Writing
    <3>2. CASE op = "SetTimeo" /\ field[t] = "tv_msec"
      <4>1. c.tv_sec = Whole(v) /\ c.tv_msec = Rest(v) /\ stack[s].timeo = v
        BY <1>3, <1>6, <3>2
      <4>2. 1000 * Whole(v) + Rest(v) = v
        BY <1>1, Division DEF Whole, Rest
      <4>. QED  BY <4>1, <4>2 DEF TimeCopied
    <3>3. CASE op # "SetTimeo"
      <4>1. TimeCopied(attr[s], stack[s])
        BY <1>9, <2>1, <3>3 DEF SettledTime
      <4>2. c.tv_sec = attr[s].tv_sec /\ c.tv_msec = attr[s].tv_msec
        BY <1>1, <1>3, <3>3 DEF WriterOps
      <4>. QED  BY <4>1, <4>2 DEF TimeCopied
    <3>. QED  BY <1>1, <3>1, <3>2, <3>3
  <2>7. FlagNamed(s)'
    <3>. SUFFICES ASSUME s \in Sound, s \notin tainted, c.bound = 1 PROVE stack[s].named
      BY <1>2, <2>1 DEF FlagNamed
    <3>1. CASE op \in {"Bind", "Connect"}
      BY <1>6, <3>1
    <3>2. CASE op \notin {"Bind", "Connect"}
      <4>1. attr[s].bound = 1
        BY <1>1, <1>3, <3>2 DEF WriterOps
      <4>. QED  BY <2>1, <4>1 DEF FlagNamed
    <3>. QED  BY <3>1, <3>2
  <2>. QED  BY <2>2, <2>3, <2>4, <2>5, <2>6, <2>7 DEF SocketOf
<1>11. ASSUME NEW b \in Socks PROVE SocketOf(b)'
  BY <1>7, <1>10, SocketStays
<1>12. Owned(t)
  BY <1>1, <1>2, <1>4, GoesOwned
<1>13. CourseOf(t)'
  <2>1. WriteAt(t)'
    <3>. SUFFICES ASSUME pc'[t] = "load" PROVE WriteAt(t)'
      BY <1>1 DEF WriteAt
    <3>1. op = "SetTimeo" /\ stack'[s].timeo = v /\ (s \notin tainted' => attr'[s].tv_sec = Whole(v))
      BY <1>1, <1>2, <1>3, <1>6 DEF WriterOps
    <3>. QED  BY <1>1, <3>1 DEF WriteAt
  <2>2. BindAt(t)'
    BY <1>1, <1>6 DEF BindAt, OK, EADDRINUSE
  <2>3. NewAt(t)' /\ CheckAt(t)' /\ ListenAt(t)'
    BY <1>1, <1>4 DEF NewAt, CheckAt, ListenAt
  <2>. QED  BY <2>1, <2>2, <2>3 DEF CourseOf
<1>. QED  BY <1>8, <1>11, <1>12, <1>13, InvStep

(* The call returns, and a new socket is the application's.                *)
LEMMA ReturnedCopy ==
  ASSUME Inv, held' \subseteq Socks, NEW t \in Threads, Returned(t)
  PROVE  CopyInv'
<1>1. /\ OthersStay(t) /\ pc[t] = "done" /\ pc'[t] = "idle" /\ req'[t] = NoRequest
      /\ held' = (IF Given(t) THEN held \cup {res[t]} ELSE held)
      /\ stack' = stack /\ tainted' = tainted /\ attr' = attr
  BY DEF Returned, Moved
<1>2. PICK n : n = res[t]
  OBVIOUS
<1>3. \A b \in Socks : SameWork(b)
  BY <1>1, WorkStays
<1>4. \A b \in Socks : b # n \/ ~Given(t) =>
        Passed(b) /\ Untouched(b) /\ Steady(stack[b], stack'[b])
  <2>. SUFFICES ASSUME NEW b \in Socks, b # n \/ ~Given(t)
                PROVE  Passed(b) /\ Untouched(b) /\ Steady(stack[b], stack'[b])
    OBVIOUS
  <2>1. b \in held' <=> b \in held
    BY <1>1, <1>2
  <2>. QED  BY <1>1, <1>3, <2>1 DEF Passed, Untouched, Steady, SameSock
<1>5. Given(t) => n \in Socks /\ n \notin held /\ stack[n].st # "free"
  BY <1>2, GivenApart
<1>6. Spares(t)
  <2>. SUFFICES ASSUME NEW u \in Threads \ {t} PROVE Spared(u)
    BY DEF Spares
  <2>1. req[u].op \notin {"Create", "Close"} /\ req[u].sock \in Socks
          => Untouched(req[u].sock) /\ Steady(stack[req[u].sock], stack'[req[u].sock])
    BY <1>4, <1>5, UsedHeld
  <2>2. Given(u) => Untouched(res[u])
    <3>1. Given(u) => res[u] \in Socks /\ (Given(t) => res[u] # n)
      BY <1>2, GivenApart, InvParts DEF GivenNew
    <3>. QED  BY <1>4, <3>1
  <2>. QED  BY <1>1, <2>1, <2>2 DEF Spared, OthersStay
<1>7. ASSUME NEW b \in Socks PROVE SocketOf(b)'
  <2>1. CASE b # n \/ ~Given(t)
    BY <1>4, <2>1, SocketStays
  <2>2. CASE b = n /\ Given(t)
    <3>1. /\ HeldUsed(n) /\ NoClear(n) /\ TiedNamed(n) /\ OpenBound(n) /\ NewAt(t)
      BY <2>2, InvParts DEF SocketOf, CourseOf
    <3>2. /\ ~stack[n].nbio /\ stack[n].timeo = 0
          /\ n \notin tainted => attr[n] = NoAttr
      BY <1>1, <1>2, <2>2, <3>1 DEF NewAt
    <3>3. HeldUsed(n)' /\ TiedNamed(n)' /\ Clean(n)'
      BY <1>1, <1>5, <2>2, <3>1 DEF HeldUsed, TiedNamed, Clean
    <3>4. NoClear(n)'
      BY <1>1, <1>3, <2>2, <3>1, ClearsStay DEF NoClear
    <3>5. OpenBound(n)'
      BY <1>1, <1>5, <2>2, <3>1 DEF OpenBound
    <3>6. n \in Sound' => attr'[n] = NoAttr
      BY <1>1, <3>2 DEF Sound
    <3>7. SettledMode(n)' /\ SettledTime(n)' /\ FlagNamed(n)'
      BY <1>1, <3>2, <3>6
         DEF SettledMode, SettledTime, FlagNamed, ModeCopied, TimeCopied, NoAttr
    <3>. QED  BY <2>2, <3>3, <3>4, <3>5, <3>7 DEF SocketOf
  <2>. QED  BY <2>1, <2>2
<1>8. /\ req'[t].op = "none" /\ req'[t].sock \notin Socks
  BY <1>1, ReqRange DEF NoRequest
<1>9. Owned(t)
  BY <1>8 DEF Owned, Apart, Rightful, Brings, Given, WriterOps
<1>10. CourseOf(t)'
  BY <1>1, <1>8 DEF CourseOf, NewAt, Given, WriteAt, CheckAt, ListenAt, BindAt, Sound
<1>. QED  BY <1>6, <1>7, <1>9, <1>10, InvStep

-----------------------------------------------------------------------------
(***************************************************************************)
(* The theorems about the copy.                                            *)
(***************************************************************************)
LEMMA CopyInit == Init => Inv
<1>. SUFFICES ASSUME Init PROVE Inv
  OBVIOUS
<1>1. /\ held = {} /\ \A t \in Threads : req[t] = NoRequest /\ pc[t] = "idle"
      /\ \A s \in Socks : stack[s] = Fresh("free") /\ attr[s] = NoAttr
  BY DEF Init, CallsInit, StackInit
<1>2. \A t \in Threads : req[t].op = "none" /\ req[t].sock = None
  BY <1>1 DEF NoRequest
<1>3. Ownership
  BY <1>1, <1>2, ReqRange
     DEF Ownership, WriterAlone, InUse, GivenNew, Given, WriterOps
<1>4. \A s \in Socks : stack[s].st = "free" /\ s \notin Sound
  BY <1>1 DEF Fresh, Sound
<1>5. Sockets
  <2>. SUFFICES ASSUME NEW s \in Socks PROVE SocketOf(s)
    BY DEF Sockets
  <2>. QED  BY <1>1, <1>4 DEF SocketOf, HeldUsed, NoClear, Clean, TiedNamed, OpenBound,
                              SettledMode, SettledTime, FlagNamed, Tied
<1>6. Course
  BY <1>1, <1>2 DEF Course, CourseOf, NewAt, Given, WriteAt, CheckAt, ListenAt, BindAt
<1>. QED  BY <1>3, <1>5, <1>6, TypeInit DEF Inv, CopyInv

LEMMA CopyNext == ASSUME Discipline PROVE Inv /\ [Next]_vars => Inv'
<1>. SUFFICES ASSUME Inv, [Next]_vars PROVE Inv'
  OBVIOUS
<1>1. TypeInv'
  BY TypeNext DEF Inv
<1>2. held' \subseteq Socks
  BY <1>1 DEF TypeInv, TypeOK, CallsTypeOK, Socks, First
<1>3. Effect
  BY StepEffect DEF Inv
<1>4. ASSUME NEW t \in Threads, SecStored(t) \/ Stored(t) PROVE CopyInv'
  BY <1>2, <1>4, StoresWord, StoresCopy
<1>5. CopyInv'
  BY <1>2, <1>3, <1>4, StaysCopy, BeginsCopy, AnswersCopy, ConnectedCopy, ReadCopy, LoadedCopy,
     BindDoneCopy, CreatedCopy, AcceptGivenCopy, ClosedCopy, SetCopy, ClearedCopy, ReturnedCopy
     DEF Effect
<1>. QED  BY <1>1, <1>5 DEF Inv

(* The wait a settled entry asks for is the one of the stack.              *)
LEMMA CopiedWait ==
  ASSUME TypeInv, NEW s \in Socks, ModeCopied(attr[s], stack[s]), TimeCopied(attr[s], stack[s])
  PROVE  AttrWait(s) = OwnWait(s)
  BY DEF ModeCopied, TimeCopied, AttrWait, OwnWait, NoTimeout

LEMMA InvMirrored == Inv => OptionsMirrored
<1>. SUFFICES ASSUME Inv, NEW s \in Sound, ~Setting(s) PROVE AttrWait(s) = OwnWait(s)
  BY DEF OptionsMirrored
<1>1. s \in Socks /\ TypeInv
  BY InvParts, HeldSocks
<1>2. \A t \in Threads, op \in {"SetMode", "SetTimeo"} : ~(Writing(t, s) /\ req[t].op = op)
  BY DEF Setting, Writing
<1>3. ModeCopied(attr[s], stack[s]) /\ TimeCopied(attr[s], stack[s])
  BY <1>1, <1>2, InvParts DEF SocketOf, SettledMode, SettledTime
<1>. QED  BY <1>1, <1>3, CopiedWait

LEMMA InvWait == Inv => NoUnaskedWait
<1>. SUFFICES ASSUME Inv, NEW t \in Threads, pc[t] = "select", limit[t] = Forever,
                     req[t].sock \in Sound
              PROVE  OwnWait(req[t].sock) = Forever
  BY DEF NoUnaskedWait
<1>. QED  BY InvParts DEF CourseOf, CheckAt

LEMMA InvBound == Inv => BoundIsNamed /\ RebindRefused
<1>. SUFFICES ASSUME Inv PROVE BoundIsNamed /\ RebindRefused
  OBVIOUS
<1>1. \A s \in Sound : s \in Socks
  BY InvParts, HeldSocks
<1>2. \A t \in Threads : ListenAt(t) /\ BindAt(t)
  BY InvParts DEF CourseOf
<1>3. \A s \in Sound : attr[s].bound = 1 => stack[s].named
  BY <1>1, InvParts DEF SocketOf, FlagNamed
<1>. QED  BY <1>2, <1>3 DEF BoundIsNamed, RebindRefused, ListenAt, BindAt

(* Under the discipline sock_attr holds, of a socket no SetOpt is at work  *)
(* on, the mode and the timeout the stack uses: no load and store of the   *)
(* word by another call takes a field back, no memset of Create or Close   *)
(* reaches a socket of somebody else, and an accepted socket, whose entry  *)
(* nobody writes, has the zeros of its number's last Close.                *)
THEOREM Mirrored == ASSUME Discipline PROVE Spec => []OptionsMirrored
<1>1. Inv /\ [Next]_vars => Inv'
  BY CopyNext
<1>2. Inv => OptionsMirrored
  BY InvMirrored
<1>. QED  BY <1>1, <1>2, CopyInit, PTL DEF Spec

(* Under the discipline socket_check_read calls select without a timeout   *)
(* only for a socket that has none: the seconds and the milliseconds it    *)
(* reads one after the other are of one timeout.                           *)
THEOREM AskedWait == ASSUME Discipline PROVE Spec => []NoUnaskedWait
<1>1. Inv /\ [Next]_vars => Inv'
  BY CopyNext
<1>2. Inv => NoUnaskedWait
  BY InvWait
<1>. QED  BY <1>1, <1>2, CopyInit, PTL DEF Spec

(* Under the discipline the flag bound is never set of a socket without a  *)
(* local address, and a Listen that succeeds listens at one.               *)
THEOREM BoundNamed == ASSUME Discipline PROVE Spec => []BoundIsNamed
<1>1. Inv /\ [Next]_vars => Inv'
  BY CopyNext
<1>2. Inv => BoundIsNamed
  BY InvBound
<1>. QED  BY <1>1, <1>2, CopyInit, PTL DEF Spec

(* Under the discipline a socket that has an address is never told, at a   *)
(* second Bind, that the address is in use: the flag is set of every open  *)
(* socket that has one, before another Bind of it can fail.                *)
THEOREM RebindTold == ASSUME Discipline PROVE Spec => []RebindRefused
<1>1. Inv /\ [Next]_vars => Inv'
  BY CopyNext
<1>2. Inv => RebindRefused
  BY InvBound
<1>. QED  BY <1>1, <1>2, CopyInit, PTL DEF Spec
=============================================================================
