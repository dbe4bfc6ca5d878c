----------------------------- MODULE LwipSocket -----------------------------
(***************************************************************************)
(* source/lwip/iot_socket.c: the IoT Socket API over lwIP.                 *)
(*                                                                         *)
(* The stack's calls wait by themselves; the file keeps in sock_attr a     *)
(* copy of the mode and the receive timeout for socket_check_read, which   *)
(* needs a timeout for select, and the flag bound, which lwIP does not     *)
(* give.  A call of the stack is one step, from the start of a wait to its *)
(* end one more; every access to sock_attr is a step.  The fields of an    *)
(* entry are bit fields of one word: a store to a field loads the word,    *)
(* changes the field and stores the word.                                  *)
(***************************************************************************)
EXTENDS ApiCalls

CONSTANT SecMod   (* tv_sec has 20 bits: it holds seconds modulo 2^20 *)

ASSUME LwipAssumption == /\ Stack = "lwip"
                         /\ SecMod \in Nat \ {0}
                         /\ \A v \in RcvTimeouts : v \div 1000 < SecMod

VARIABLES
  attr,    (* sock_attr[]                                                  *)
  field,   (* the field a thread is storing                                *)
  word     (* the word of sock_attr a thread is about to store             *)

vars == <<stack, calls, owner, attr, field, word>>

Attr   == [ionbio : {0, 1}, bound : {0, 1}, tv_sec : 0 .. SecMod - 1, tv_msec : 0 .. 999]
NoAttr == [ionbio |-> 0, bound |-> 0, tv_sec |-> 0, tv_msec |-> 0]
Fields == {"none", "ionbio", "bound", "tv_sec", "tv_msec"}

Pcs == {"idle", "clear", "bindFailed", "listened", "accept", "connect", "tv_sec", "tv_msec",
        "select", "recv", "sendFailed", "named", "load", "store", "done"}

Init == /\ StackInit
        /\ CallsInit
        /\ attr  = [s \in Socks |-> NoAttr]
        /\ field = [t \in Threads |-> "none"]
        /\ word  = [t \in Threads |-> NoAttr]

(* errno_to_rc.                                                            *)
ErrnoToRc(e) == CASE e = "none"                -> OK
                  [] e \in {"EBADF", "ENOBUFS"} -> ESOCK
                  [] e \in {"EIO", "EINVAL"}    -> EINVAL
                  [] e = "ENOMEM"              -> ENOMEM
                  [] e = "EWOULDBLOCK"         -> EAGAIN
                  [] e = "EINPROGRESS"         -> EINPROGRESS
                  [] e = "ENOTCONN"            -> ENOTCONN
                  [] e = "EISCONN"             -> EISCONN
                  [] e = "ECONNRESET"          -> ECONNRESET
                  [] e = "ECONNABORTED"        -> ECONNABORTED
                  [] e = "EALREADY"            -> EALREADY
                  [] e = "EADDRINUSE"          -> EADDRINUSE
                  [] e = "EHOSTUNREACH"        -> EHOSTNOTFOUND
                  [] OTHER                     -> ERROR

Rc(o) == IF o.n < 0 THEN ErrnoToRc(o.err) ELSE o.n

(* A call of the stack that ends with outcome o; the call of the API goes  *)
(* on at onOk or at onFail.                                                *)
StackCall(t, o, onOk, onFail) == /\ stack' = o.stack
                                 /\ Result(t, Rc(o))
                                 /\ Goto(t, IF o.n < 0 THEN onFail ELSE onOk)

Storing(t, f) == field' = [field EXCEPT ![t] = f]

(***************************************************************************)
(* Starting a call.                                                        *)
(***************************************************************************)
Create(t) ==
  /\ MayCall(t, "Create", None)
  /\ Enter(t, "Create", None, 0, WaitAtStart(None))
  /\ \E o \in StackSocket : /\ StackCall(t, o, "clear", "done")
                            /\ IF o.n >= 0 THEN HandedOut(o.n, None) ELSE UNCHANGED tainted
  /\ UNCHANGED <<limit, held, attr, field, word>>

(* A wrong answer about the address is put right in BindFailed.            *)
Bind(t, s) ==
  /\ MayCall(t, "Bind", s)
  /\ Enter(t, "Bind", s, 0, WaitAtStart(s))
  /\ \E o \in StackBind(s) :
       StackCall(t, o, "load", IF o.err = "EADDRINUSE" THEN "bindFailed" ELSE "done")
  /\ Storing(t, "bound")
  /\ UNCHANGED <<limit, owner, attr, word>>

Listen(t, s) ==
  /\ MayCall(t, "Listen", s)
  /\ Enter(t, "Listen", s, 0, WaitAtStart(s))
  /\ \E o \in StackListen(s) : StackCall(t, o, "listened", "done")
  /\ UNCHANGED <<limit, owner, attr, field, word>>

Accept(t, s) ==
  /\ MayCall(t, "Accept", s)
  /\ Enter(t, "Accept", s, 0, WaitAtStart(s))
  /\ Goto(t, "accept")
  /\ UNCHANGED <<stack, res, limit, owner, attr, field, word>>

(* The attempt starts; in blocking mode the call waits for its end.        *)
(* ConnectResult: a reset is a refusal.                                    *)
ConnectResult(o) == IF Rc(o) = ECONNRESET THEN ECONNREFUSED ELSE Rc(o)

Connect(t, s) ==
  /\ MayCall(t, "Connect", s)
  /\ Enter(t, "Connect", s, 0, WaitAtStart(s))
  /\ \E o \in StackConnect(s) :
       /\ stack' = o.stack
       /\ Result(t, ConnectResult(o))
       /\ Goto(t, IF o.err = "EINPROGRESS" /\ ~stack[s].nbio THEN "connect" ELSE "done")
  /\ Storing(t, "bound")
  /\ UNCHANGED <<limit, owner, attr, word>>

RecvBlocking(t, s, len) ==   \* mutant: the check does not look at the mode
  /\ MayCall(t, "Recv", s)
  /\ Enter(t, "Recv", s, len, WaitAtStart(s))
  /\ \/ len > 0 /\ Goto(t, "recv") /\ UNCHANGED res
     \/ len = 0 /\ s \notin Socks /\ Goto(t, "done") /\ Result(t, ESOCK)
     \/ len = 0 /\ s \in Socks /\ Goto(t, "tv_sec") /\ UNCHANGED res
  /\ UNCHANGED <<stack, limit, owner, attr, field, word>>

(* iotSocketRecv and iotSocketRecvFrom; with length 0, socket_check_read,  *)
(* which starts with the mode.                                             *)
Recv(t, s, len) ==
  /\ MayCall(t, "Recv", s)
  /\ Enter(t, "Recv", s, len, WaitAtStart(s))
  /\ \/ len > 0 /\ Goto(t, "recv") /\ UNCHANGED res
     \/ len = 0 /\ s \notin Socks /\ Goto(t, "done") /\ Result(t, ESOCK)
     \/ /\ len = 0 /\ s \in Socks
        /\ Goto(t, IF attr[s].ionbio = 1 THEN "select" ELSE "tv_sec")
        /\ UNCHANGED res
  /\ UNCHANGED <<stack, limit, owner, attr, field, word>>

(* iotSocketSend.  socket_check_write always answers 0.                    *)
Send(t, s) ==
  /\ MayCall(t, "Send", s)
  /\ Enter(t, "Send", s, 1, WaitAtStart(s))
  /\ \E o \in StackSend(s) :
       StackCall(t, o, "done", IF o.err = "EINPROGRESS" THEN "sendFailed" ELSE "done")
  /\ UNCHANGED <<limit, owner, attr, field, word>>

GetSockName(t, s) ==
  /\ MayCall(t, "GetSockName", s)
  /\ Enter(t, "GetSockName", s, 0, WaitAtStart(s))
  /\ \E o \in StackGetSockName(s) : StackCall(t, o, "named", "done")
  /\ UNCHANGED <<limit, owner, attr, field, word>>

(* iotSocketSetOpt: first the stack, then the copy.                        *)
SetMode(t, s, v) ==
  /\ MayCall(t, "SetMode", s)
  /\ Enter(t, "SetMode", s, v, WaitAtStart(s))
  /\ \E o \in StackSetMode(s, v # 0) : StackCall(t, o, "load", "done")
  /\ Storing(t, "ionbio")
  /\ UNCHANGED <<limit, owner, attr, word>>

SetTimeo(t, s, v) ==
  /\ MayCall(t, "SetTimeo", s)
  /\ Enter(t, "SetTimeo", s, v, WaitAtStart(s))
  /\ \E o \in StackSetTimeo(s, v) : StackCall(t, o, "load", "done")
  /\ Storing(t, "tv_sec")
  /\ UNCHANGED <<limit, owner, attr, word>>

(* The stack releases the socket; the application holds it no more.        *)
Close(t, s) ==
  /\ MayCall(t, "Close", s)
  /\ Enter(t, "Close", s, 0, WaitAtStart(s))
  /\ \E o \in StackClose(s) : /\ StackCall(t, o, "clear", "done")
                              /\ held' = IF o.n = 0 THEN held \ {s} ELSE held
  /\ UNCHANGED <<limit, tainted, attr, field, word>>

(***************************************************************************)
(* The steps of a call in progress.                                        *)
(***************************************************************************)

ClearNew(t) ==   \* mutant: only Create clears
  /\ pc[t] = "clear"
  /\ attr' = IF req[t].op = "Create" THEN [attr EXCEPT ![res[t]] = NoAttr] ELSE attr
  /\ Goto(t, "done")
  /\ UNCHANGED <<stack, req, res, limit, owner, field, word>>

(* The memset of Create and of Close.                                      *)
Clear(t) ==
  /\ pc[t] = "clear"
  /\ attr' = [attr EXCEPT ![IF req[t].op = "Create" THEN res[t] ELSE req[t].sock] = NoAttr]
  /\ Goto(t, "done")
  /\ UNCHANGED <<stack, req, res, limit, owner, field, word>>

(* lwIP reports a second bind as an address in use.                        *)
BindFailed(t) ==
  /\ pc[t] = "bindFailed"
  /\ Result(t, IF attr[req[t].sock].bound = 1 THEN EINVAL ELSE EADDRINUSE)
  /\ Goto(t, "done")
  /\ UNCHANGED <<stack, req, limit, owner, attr, field, word>>

ListenedUnchecked(t) ==   \* mutant: no test of bound
  /\ pc[t] = "listened"
  /\ Goto(t, "done")
  /\ UNCHANGED <<stack, req, res, limit, owner, attr, field, word>>

(* The stack listens, whatever this answers.                               *)
Listened(t) ==
  /\ pc[t] = "listened"
  /\ Result(t, IF attr[req[t].sock].bound = 0 THEN EINVAL ELSE OK)
  /\ Goto(t, "done")
  /\ UNCHANGED <<stack, req, limit, owner, attr, field, word>>

(* The attributes of an accepted socket are not touched: they are 0 since  *)
(* its number was closed, or since the start.                              *)
AcceptEnds(t) ==
  /\ pc[t] = "accept"
  /\ \E o \in StackAccept(req[t].sock) :
       /\ StackCall(t, o, "done", "done")
       /\ IF o.n >= 0 THEN HandedOut(o.n, None) ELSE UNCHANGED tainted
  /\ UNCHANGED <<req, limit, held, attr, field, word>>

ConnectEnded(t) ==
  /\ pc[t] = "connect"
  /\ \E o \in StackConnected(req[t].sock) : /\ stack' = o.stack
                                            /\ Result(t, ConnectResult(o))
                                            /\ Goto(t, IF o.n = 0 THEN "load" ELSE "done")
  /\ UNCHANGED <<req, limit, owner, attr, field, word>>

(* socket_check_read: the timeout of select, from two fields.              *)
CheckSec(t) ==
  /\ pc[t] = "tv_sec"
  /\ limit' = [limit EXCEPT ![t] = 1000 * attr[req[t].sock].tv_sec]
  /\ Goto(t, "tv_msec")
  /\ UNCHANGED <<stack, req, res, owner, attr, field, word>>

NoTimeout(msec) == IF msec = 0 THEN Forever ELSE msec

CheckMsecDropped(t) ==   \* mutant: whole seconds only
  /\ pc[t] = "tv_msec"
  /\ limit' = [limit EXCEPT ![t] = NoTimeout(@)]
  /\ Goto(t, "select")
  /\ UNCHANGED <<stack, req, res, owner, attr, field, word>>

CheckMsec(t) ==
  /\ pc[t] = "tv_msec"
  /\ limit' = [limit EXCEPT ![t] = NoTimeout(@ + attr[req[t].sock].tv_msec)]
  /\ Goto(t, "select")
  /\ UNCHANGED <<stack, req, res, owner, attr, field, word>>

Select(t) ==
  /\ pc[t] = "select"
  /\ \E nr \in SelectRead(req[t].sock, limit[t]) : Result(t, IF nr = 0 THEN EAGAIN ELSE OK)
  /\ Goto(t, "done")
  /\ UNCHANGED <<stack, req, limit, owner, attr, field, word>>

RecvEnds(t) ==
  /\ pc[t] = "recv"
  /\ \E o \in StackRecv(req[t].sock) : StackCall(t, o, "done", "done")
  /\ UNCHANGED <<req, limit, owner, attr, field, word>>

SendFailed(t) ==
  /\ pc[t] = "sendFailed"
  /\ Result(t, IF attr[req[t].sock].ionbio = 1 THEN EAGAIN ELSE EINPROGRESS)
  /\ Goto(t, "done")
  /\ UNCHANGED <<stack, req, limit, owner, attr, field, word>>

Named(t) ==
  /\ pc[t] = "named"
  /\ Result(t, IF attr[req[t].sock].bound = 0 THEN EINVAL ELSE OK)
  /\ Goto(t, "done")
  /\ UNCHANGED <<stack, req, limit, owner, attr, field, word>>

(* Storing a field of the attributes; the timeout is two fields.           *)
(* Mutants: all milliseconds in tv_msec; SetOpt forgets the flag bound.     *)
ChangedWide(a, f, v) ==
  CASE f = "ionbio"  -> [a EXCEPT !.ionbio = IF v = 0 THEN 0 ELSE 1]
    [] f = "bound"   -> [a EXCEPT !.bound = 1]
    [] f = "tv_sec"  -> [a EXCEPT !.tv_sec = (v \div 1000) % SecMod]
    [] f = "tv_msec" -> [a EXCEPT !.tv_msec = v]

ChangedUnbound(a, f, v) ==
  CASE f = "ionbio"  -> [a EXCEPT !.ionbio = IF v = 0 THEN 0 ELSE 1, !.bound = 0]
    [] f = "bound"   -> [a EXCEPT !.bound = 1]
    [] f = "tv_sec"  -> [a EXCEPT !.tv_sec = (v \div 1000) % SecMod]
    [] f = "tv_msec" -> [a EXCEPT !.tv_msec = v % 1000]

Changed(a, f, v) == CASE f = "ionbio"  -> [a EXCEPT !.ionbio = IF v = 0 THEN 0 ELSE 1]
                      [] f = "bound"   -> [a EXCEPT !.bound = 1]
                      [] f = "tv_sec"  -> [a EXCEPT !.tv_sec = (v \div 1000) % SecMod]
                      [] f = "tv_msec" -> [a EXCEPT !.tv_msec = v % 1000]

Load(t) ==
  /\ pc[t] = "load"
  /\ word' = [word EXCEPT ![t] = Changed(attr[req[t].sock], field[t], req[t].val)]
  /\ Goto(t, "store")
  /\ UNCHANGED <<stack, req, res, limit, owner, attr, field>>

StoreSec(t) ==   \* mutant: the milliseconds are not stored
  /\ pc[t] = "store"
  /\ attr' = [attr EXCEPT ![req[t].sock] = word[t]]
  /\ Goto(t, "done")
  /\ UNCHANGED <<stack, req, res, limit, owner, field, word>>

Store(t) ==
  /\ pc[t] = "store"
  /\ attr' = [attr EXCEPT ![req[t].sock] = word[t]]
  /\ IF field[t] = "tv_sec" THEN Storing(t, "tv_msec") /\ Goto(t, "load")
                            ELSE UNCHANGED field /\ Goto(t, "done")
  /\ UNCHANGED <<stack, req, res, limit, owner, word>>

Returns(t) ==
  /\ Return(t)
  /\ Storing(t, "none")
  /\ word' = [word EXCEPT ![t] = NoAttr]
  /\ UNCHANGED <<stack, attr>>

(***************************************************************************)
(* The specification.                                                      *)
(***************************************************************************)
Call(t) ==
  \/ Create(t)
  \/ \E s \in held \cup Strays : \/ Bind(t, s) \/ Listen(t, s)
                                 \/ Accept(t, s) \/ Connect(t, s)
                                 \/ \E len \in {0, 1} : Recv(t, s, len)
                                 \/ Send(t, s) \/ GetSockName(t, s)
                                 \/ \E v \in Modes : SetMode(t, s, v)
                                 \/ \E v \in RcvTimeouts : SetTimeo(t, s, v)
                                 \/ Close(t, s)

Step(t) == \/ Clear(t) \/ BindFailed(t) \/ Listened(t) \/ AcceptEnds(t) \/ ConnectEnded(t)
           \/ CheckSec(t) \/ CheckMsec(t) \/ Select(t) \/ RecvEnds(t)
           \/ SendFailed(t) \/ Named(t) \/ Load(t) \/ Store(t) \/ Returns(t)

Network == StackStep /\ UNCHANGED <<calls, owner, attr, field, word>>

Next == \/ \E t \in Threads : Call(t) \/ Step(t)
        \/ Network

Spec == Init /\ [][Next]_vars

(* The scheduler runs every thread that is ready; a limited wait ends.     *)
FairSpec == Spec /\ \A t \in Threads : WF_vars(Step(t))

-----------------------------------------------------------------------------
(***************************************************************************)
(* Properties.                                                             *)
(***************************************************************************)

(* Every variable has its type (the whole file).                           *)
TypeOK == /\ StackTypeOK
          /\ CallsTypeOK
          /\ pc    \in [Threads -> Pcs]
          /\ attr  \in [Socks -> Attr]
          /\ field \in [Threads -> Fields]
          /\ word  \in [Threads -> Attr]

(* The wait that sock_attr asks of socket_check_read.                      *)
AttrWait(s) == IF attr[s].ionbio = 1 THEN 0
               ELSE NoTimeout(1000 * attr[s].tv_sec + attr[s].tv_msec)

(* Of a socket that no SetOpt is at work on, sock_attr holds the mode and  *)
(* the timeout the stack itself uses, also for a socket that was accepted  *)
(* or whose number was used before: the check with length 0 waits as a     *)
(* receive would.                                                          *)
OptionsMirrored == \A s \in Sound : Setting(s) \/ AttrWait(s) = OwnWait(s)

(* select is never called without a timeout for a socket that had one when *)
(* the check began and has one now.                                        *)
NoUnaskedWait ==
  \A t \in Threads :
    pc[t] = "select" /\ limit[t] = Forever /\ req[t].sock \in Sound
      => req[t].wait = Forever \/ OwnWait(req[t].sock) = Forever

(* A socket that is flagged as bound has a local address in the stack, so  *)
(* that a Listen that succeeds listens at an address the application chose.*)
BoundIsNamed ==
  /\ \A s \in Sound : attr[s].bound = 1 => stack[s].named
  /\ \A t \in Threads :
       pc[t] = "done" /\ req[t].op = "Listen" /\ res[t] = OK /\ req[t].sock \in Sound
         => stack[req[t].sock].st = "listening" /\ stack[req[t].sock].named

(* A second Bind of a socket is told from an address that is in use by     *)
(* another one: it answers EINVAL, not EADDRINUSE.                         *)
RebindRefused ==
  \A t \in Threads :
    pc[t] = "done" /\ req[t].op = "Bind" /\ res[t] = EADDRINUSE /\ req[t].sock \in Sound
      => ~stack[req[t].sock].named

(* A receive, with or without a buffer, returns when the socket had a      *)
(* receive timeout or was in non-blocking mode at its start, even if no    *)
(* data ever comes.                                                        *)
TimedRecvReturns ==
  \A t \in Threads :
    (req[t].op = "Recv" /\ req[t].wait # Forever) ~> (pc[t] = "idle" \/ req[t].sock \in tainted)
=============================================================================
