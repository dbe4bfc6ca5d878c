----------------------------- MODULE MdkSocket ------------------------------
(***************************************************************************)
(* source/mdk_network/iot_socket.c: the IoT Socket API over the BSD layer  *)
(* of MDK-Middleware Network.                                              *)
(*                                                                         *)
(* As over lwIP, sock_attr copies the mode and the receive timeout of each *)
(* socket for socket_check_read; an accepted socket inherits the options   *)
(* of the listening socket in the stack, and Accept copies its attributes. *)
(* Steps are as in LwipSocket.  Socket s has the entry s - 1; the model    *)
(* indexes the table by s.  Send, SendTo, GetSockName, GetPeerName, GetOpt *)
(* and GetHostByName touch no state of the file and are left out.          *)
(***************************************************************************)
EXTENDS ApiCalls

CONSTANT SecMod   (* tv_sec has 21 bits: it holds seconds modulo 2^21 *)

ASSUME MdkAssumption == /\ Stack = "mdk"
                        /\ SecMod \in Nat \ {0}
                        /\ \A v \in RcvTimeouts : v \div 1000 < SecMod

VARIABLES
  attr,    (* sock_attr[]                                                  *)
  field,   (* the field a thread is storing                                *)
  word     (* the word of sock_attr a thread is about to store             *)

vars == <<stack, calls, owner, attr, field, word>>

Attr   == [ionbio : {0, 1}, tv_sec : 0 .. SecMod - 1, tv_msec : 0 .. 999]
NoAttr == [ionbio |-> 0, tv_sec |-> 0, tv_msec |-> 0]
Fields == {"none", "all", "ionbio", "tv_sec", "tv_msec"}

Pcs == {"idle", "clear", "accept", "connect", "tv_sec", "tv_msec", "select", "recv",
        "load", "store"}

Init == /\ StackInit
        /\ CallsInit
        /\ attr  = [s \in Socks |-> NoAttr]
        /\ field = [t \in Threads |-> "none"]
        /\ word  = [t \in Threads |-> NoAttr]

(* rc_bsd_to_iot.                                                          *)
RcBsdToIot(e) == CASE e = "none"          -> OK
                   [] e = "EBADF"         -> ESOCK
                   [] e = "EINVAL"        -> EINVAL
                   [] e = "ENOTSUP"       -> ENOTSUP
                   [] e = "ENOMEM"        -> ENOMEM
                   [] e = "EWOULDBLOCK"   -> EAGAIN
                   [] e = "ETIMEDOUT"     -> ETIMEDOUT
                   [] e = "EINPROGRESS"   -> EINPROGRESS
                   [] e = "ENOTCONN"      -> ENOTCONN
                   [] e = "EISCONN"       -> EISCONN
                   [] e = "ECONNREFUSED"  -> ECONNREFUSED
                   [] e = "ECONNRESET"    -> ECONNRESET
                   [] e = "ECONNABORTED"  -> ECONNABORTED
                   [] e = "EALREADY"      -> EALREADY
                   [] e = "EADDRINUSE"    -> EADDRINUSE
                   [] e = "EHOSTNOTFOUND" -> EHOSTNOTFOUND
                   [] OTHER               -> ERROR

Rc(o) == IF o.n < 0 THEN RcBsdToIot(o.err) ELSE o.n

(* Receiving reports the end of a timeout as "try again".                   *)
RcTimed(o) == IF o.err = "ETIMEDOUT" THEN EAGAIN ELSE Rc(o)

Storing(t, f) == field' = [field EXCEPT ![t] = f]

(* The first field a SetOpt is about, if the stack has taken the option.   *)
StoreNext(t, o, f) == IF o.n = 0 THEN Storing(t, f) ELSE UNCHANGED field

(* The call ends with its last step; nothing looks at it afterwards.       *)
Ends(t, r) == /\ Answer(t, r)
              /\ field' = [field EXCEPT ![t] = "none"]
              /\ word'  = [word EXCEPT ![t] = NoAttr]

(* A call whose first step is the call of the stack with outcome o: it     *)
(* goes on at p, or returns at once.                                       *)
Begin(t, op, s, v, o, p) ==
  /\ stack' = o.stack
  /\ IF o.n >= 0 THEN Enter(t, op, s, v, 0) /\ Goto(t, p) /\ Result(t, o.n)
                 ELSE UNCHANGED <<pc, req, res>>

(***************************************************************************)
(* Starting a call.                                                        *)
(***************************************************************************)
Create(t) ==
  /\ MayCall(t, "Create", None)
  /\ \E o \in StackSocket : /\ Begin(t, "Create", None, 0, o, "clear")
                            /\ IF o.n > 0 THEN HandedOut(o.n, None) ELSE UNCHANGED tainted
  /\ UNCHANGED <<limit, held, attr, field, word>>

(* iotSocketBind and iotSocketListen are the call of the stack and nothing *)
(* else.                                                                   *)
Bind(t, s) ==
  /\ MayCall(t, "Bind", s)
  /\ \E o \in StackBind(s) : stack' = o.stack
  /\ UNCHANGED <<calls, owner, attr, field, word>>

Listen(t, s) ==
  /\ MayCall(t, "Listen", s)
  /\ \E o \in StackListen(s) : stack' = o.stack
  /\ UNCHANGED <<calls, owner, attr, field, word>>

Accept(t, s) ==
  /\ MayCall(t, "Accept", s)
  /\ Enter(t, "Accept", s, 0, 0)
  /\ Goto(t, "accept")
  /\ UNCHANGED <<stack, res, limit, owner, attr, field, word>>

(* The attempt starts; in blocking mode the call waits for its end.        *)
Connect(t, s) ==
  /\ MayCall(t, "Connect", s)
  /\ \E o \in StackConnect(s) :
       /\ stack' = o.stack
       /\ IF o.err = "EINPROGRESS" /\ ~stack[s].nbio
          THEN Enter(t, "Connect", s, 0, 0) /\ Goto(t, "connect")
          ELSE UNCHANGED <<pc, req>>
  /\ UNCHANGED <<res, limit, owner, attr, field, word>>

(* iotSocketRecv and iotSocketRecvFrom; with length 0, socket_check_read,  *)
(* which starts with the mode and refuses a number without an entry.       *)
Recv(t, s, len) ==
  /\ MayCall(t, "Recv", s)
  /\ \/ len > 0 /\ Enter(t, "Recv", s, len, 0) /\ Goto(t, "recv")
     \/ len = 0 /\ s \notin Socks /\ UNCHANGED <<pc, req>>
     \/ /\ len = 0 /\ s \in Socks
        /\ Enter(t, "Recv", s, len, 0)
        /\ Goto(t, IF attr[s].ionbio = 1 THEN "select" ELSE "tv_sec")
  /\ UNCHANGED <<stack, res, limit, owner, attr, field, word>>

(* iotSocketSetOpt: first the stack, then the copy.                        *)
SetMode(t, s, v) ==
  /\ MayCall(t, "SetMode", s)
  /\ \E o \in StackSetMode(s, v # 0) : /\ Begin(t, "SetMode", s, v, o, "load")
                                       /\ StoreNext(t, o, "ionbio")
  /\ UNCHANGED <<limit, owner, attr, word>>

SetTimeo(t, s, v) ==
  /\ MayCall(t, "SetTimeo", s)
  /\ \E o \in StackSetTimeo(s, v) : /\ Begin(t, "SetTimeo", s, v, o, "load")
                                    /\ StoreNext(t, o, "tv_sec")
  /\ UNCHANGED <<limit, owner, attr, word>>

(* The stack releases the socket; the application holds it no more.        *)
Close(t, s) ==
  /\ MayCall(t, "Close", s)
  /\ \E o \in StackClose(s) : /\ Begin(t, "Close", s, 0, o, "clear")
                              /\ held' = IF o.n = 0 THEN held \ {s} ELSE held
  /\ UNCHANGED <<limit, tainted, attr, field, word>>

(***************************************************************************)
(* The steps of a call in progress.                                        *)
(***************************************************************************)

(* The memset of Create and of Close.                                      *)
Clear(t) ==
  /\ pc[t] = "clear"
  /\ attr' = [attr EXCEPT ![IF req[t].op = "Create" THEN res[t] ELSE req[t].sock] = NoAttr]
  /\ Ends(t, res[t])
  /\ UNCHANGED <<stack, tainted>>

(* The new socket gets a copy of the listening socket's attributes.        *)
(* Mutant: the attributes are not copied.                                  *)
AcceptEndsUncopied(t) ==
  /\ pc[t] = "accept"
  /\ \E o \in StackAccept(req[t].sock) :
       /\ stack' = o.stack
       /\ Ends(t, Rc(o))
       /\ IF o.n > 0 THEN HandedOut(o.n, req[t].sock) ELSE UNCHANGED tainted
  /\ UNCHANGED attr

AcceptEnds(t) ==
  /\ pc[t] = "accept"
  /\ \E o \in StackAccept(req[t].sock) :
       /\ stack' = o.stack
       /\ IF o.n > 0
          THEN /\ HandedOut(o.n, req[t].sock)
               /\ Storing(t, "all") /\ Goto(t, "load") /\ Result(t, o.n)
               /\ UNCHANGED <<req, limit, held, word>>
          ELSE Ends(t, Rc(o)) /\ UNCHANGED tainted
  /\ UNCHANGED attr

ConnectEnded(t) ==
  /\ pc[t] = "connect"
  /\ \E o \in StackConnected(req[t].sock) : stack' = o.stack /\ Ends(t, Rc(o))
  /\ UNCHANGED <<tainted, attr>>

(* socket_check_read: the timeout of select, from two fields.              *)
CheckSec(t) ==
  /\ pc[t] = "tv_sec"
  /\ limit' = [limit EXCEPT ![t] = 1000 * attr[req[t].sock].tv_sec]
  /\ Goto(t, "tv_msec")
  /\ UNCHANGED <<stack, req, res, owner, attr, field, word>>

NoTimeout(msec) == IF msec = 0 THEN Forever ELSE msec

CheckMsecDropped(t) ==   \* mutant: whole seconds only
  /\ pc[t] = "tv_msec"
  /\ limit' = [limit EXCEPT ![t] = NoTimeout(@)]
  /\ Goto(t, "select")
  /\ UNCHANGED <<stack, req, res, owner, attr, field, word>>

CheckMsec(t) ==
  /\ pc[t] = "tv_msec"
  /\ limit' = [limit EXCEPT ![t] = NoTimeout(@ + attr[req[t].sock].tv_msec)]
  /\ Goto(t, "select")
  /\ UNCHANGED <<stack, req, res, owner, attr, field, word>>

Select(t) ==
  /\ pc[t] = "select"
  /\ \E nr \in SelectRead(req[t].sock, limit[t]) : Ends(t, IF nr = 0 THEN EAGAIN ELSE OK)
  /\ UNCHANGED <<stack, tainted, attr>>

RecvEnds(t) ==
  /\ pc[t] = "recv"
  /\ \E o \in StackRecv(req[t].sock) : stack' = o.stack /\ Ends(t, RcTimed(o))
  /\ UNCHANGED <<tainted, attr>>

(* Storing a field of the attributes of the socket SetOpt names, the       *)
(* timeout being two fields, or all fields of an accepted socket.          *)
Target(t) == IF req[t].op = "Accept" THEN res[t] ELSE req[t].sock

ChangedWide(a, f, v) ==   \* mutant: all milliseconds in tv_msec
  CASE f = "all"     -> a
    [] f = "ionbio"  -> [a EXCEPT !.ionbio = IF v = 0 THEN 0 ELSE 1]
    [] f = "tv_sec"  -> [a EXCEPT !.tv_sec = (v \div 1000) % SecMod]
    [] f = "tv_msec" -> [a EXCEPT !.tv_msec = v]

Changed(a, f, v) == CASE f = "all"     -> a
                      [] f = "ionbio"  -> [a EXCEPT !.ionbio = IF v = 0 THEN 0 ELSE 1]
                      [] f = "tv_sec"  -> [a EXCEPT !.tv_sec = (v \div 1000) % SecMod]
                      [] f = "tv_msec" -> [a EXCEPT !.tv_msec = v % 1000]

Load(t) ==
  /\ pc[t] = "load"
  /\ word' = [word EXCEPT ![t] = Changed(attr[req[t].sock], field[t], req[t].val)]
  /\ Goto(t, "store")
  /\ UNCHANGED <<stack, req, res, limit, owner, attr, field>>

Store(t) ==
  /\ pc[t] = "store"
  /\ attr' = [attr EXCEPT ![Target(t)] = word[t]]
  /\ IF field[t] = "tv_sec"
     THEN Storing(t, "tv_msec") /\ Goto(t, "load") /\ UNCHANGED <<req, res, limit, held, word>>
     ELSE Ends(t, res[t])
  /\ UNCHANGED <<stack, tainted>>

(***************************************************************************)
(* The specification.                                                      *)
(***************************************************************************)
Call(t) ==
  \/ Create(t)
  \/ \E s \in held \cup Strays : \/ Bind(t, s) \/ Listen(t, s)
                                 \/ Accept(t, s) \/ Connect(t, s)
                                 \/ \E len \in {0, 1} : Recv(t, s, len)
                                 \/ \E v \in Modes : SetMode(t, s, v)
                                 \/ \E v \in RcvTimeouts : SetTimeo(t, s, v)
                                 \/ Close(t, s)

Step(t) == \/ Clear(t) \/ AcceptEnds(t) \/ ConnectEnded(t)
           \/ CheckSec(t) \/ CheckMsec(t) \/ Select(t) \/ RecvEnds(t)
           \/ Load(t) \/ Store(t)

Network == StackStep /\ UNCHANGED <<calls, owner, attr, field, word>>

Next == \/ \E t \in Threads : Call(t) \/ Step(t)
        \/ Network

Spec == Init /\ [][Next]_vars

-----------------------------------------------------------------------------
(***************************************************************************)
(* Properties.                                                             *)
(***************************************************************************)

(* Every variable has its type (the whole file).                           *)
TypeOK == /\ StackTypeOK
          /\ CallsTypeOK
          /\ pc    \in [Threads -> Pcs]
          /\ attr  \in [Socks -> Attr]
          /\ field \in [Threads -> Fields]
          /\ word  \in [Threads -> Attr]

(* The wait that sock_attr asks of socket_check_read.                      *)
AttrWait(s) == IF attr[s].ionbio = 1 THEN 0
               ELSE NoTimeout(1000 * attr[s].tv_sec + attr[s].tv_msec)

(* Of a socket that no SetOpt is at work on, sock_attr holds the mode and  *)
(* the timeout the stack itself uses, also for a socket that was accepted  *)
(* by one thread while others closed and created sockets.                  *)
OptionsMirrored == \A s \in Sound : Setting(s) \/ AttrWait(s) = OwnWait(s)

(* The check with length 0 waits as long as a receive with a buffer would: *)
(* select is given the wait that is in force in the stack.                 *)
CheckWaitsLikeRecv ==
  \A t \in Threads :
    pc[t] = "select" /\ req[t].sock \in Sound => limit[t] = OwnWait(req[t].sock)
=============================================================================
