------------------------------ MODULE VSocket ------------------------------
(***************************************************************************)
(* source/vsocket/iot_socket.c: the IoT Socket API for simulated targets.  *)
(*                                                                         *)
(* Threads call the API concurrently.  A call is a sequence of steps:      *)
(* a host call is atomic (VSocketHost), every access to the shared table   *)
(* sock_attr is a step of its own, and so is each osDelay(10) of the loops *)
(* that simulate a blocking call.  What a step computes from local         *)
(* variables alone is part of that step.                                   *)
(*                                                                         *)
(* The two fields of a sock_attr entry are bit fields of one word: a store *)
(* to a field loads the word, changes the field and stores the word.       *)
(***************************************************************************)
EXTENDS VSocketHost

CONSTANTS
  Threads,       (* the threads that call the API                          *)
  Ops,           (* the operations they call                               *)
  Disciplined,   (* TRUE: threads pass only sockets the application holds; *)
                 (* FALSE: they may pass any number, at any time           *)
  Apart,         (* pairs of operations the application never overlaps on  *)
                 (* one socket, the second called while the first goes on  *)
  RcvTimeouts,   (* values given to SetOpt(RCVTIMEO), ms                   *)
  DefaultTimeo,  (* the receive timeout of a new socket, ms (60000)        *)
  TimeoMod       (* to_msec has 31 bits: it holds values modulo 2^31       *)

AllOps == {"Create", "Bind", "Listen", "Accept", "Connect", "Recv",
           "SetMode", "SetTimeo", "GetTimeo", "Close", "GetHostByName"}

ASSUME OpsAssumption   == /\ Ops \subseteq AllOps /\ Disciplined \in BOOLEAN
                          /\ Apart \subseteq {{p, q} : p, q \in AllOps}
ASSUME TimeoAssumption == /\ RcvTimeouts \subseteq Nat
                          /\ TimeoMod \in Nat \ {0}
                          /\ DefaultTimeo \in 0 .. TimeoMod - 1

VARIABLES
  attr,   (* sock_attr[]: the mode and the receive timeout of each socket  *)
  pc,     (* where each thread is in the call it executes                  *)
  req,    (* the arguments of the call, and the mode read when it started  *)
  io,     (* io.ret_val of the call                                        *)
  delay,  (* the local variable delay of Recv and RecvFrom                 *)
  word,   (* the word of sock_attr a thread is about to store              *)
  held,   (* history: the sockets the application holds                    *)
  tainted,(* history: sockets handed out while a Close of the same number  *)
          (* had still to clear its attributes, or accepted from such one  *)
  opt,    (* history: the options that each socket should have by now      *)
  ask,    (* history: the options the call in progress is to set           *)
  hist    (* history of the call: the receive timeout it started with, how *)
          (* many delays it made, what the host has handed over to it      *)

local == <<pc, req, io, delay, word>>
owner == <<held, tainted>>
ghost == <<owner, opt, ask, hist>>
vars  == <<host, attr, local, ghost>>

Attr     == [ionbio : BOOLEAN, to_msec : 0 .. TimeoMod - 1]
NoAttr   == [ionbio |-> FALSE, to_msec |-> 0]
NewAttr  == [ionbio |-> FALSE, to_msec |-> DefaultTimeo]
Options  == [ionbio : BOOLEAN, to_msec : Nat]

(* The numbers a caller may pass as the socket: -1 and NumSocks stand for  *)
(* the numbers below and above the range.                                  *)
SockArgs == Socks \cup {-1, NumSocks}

Pcs == {"idle", "accept", "connect", "recvTimeo", "recv", "sleep", "resolve",
        "loadMode", "storeMode", "loadTimeo", "storeTimeo", "clear", "done"}

Request   == [op : AllOps \cup {"none"}, sock : SockArgs, val : Nat, nbio : BOOLEAN]
NoRequest == [op |-> "none", sock |-> -1, val |-> 0, nbio |-> FALSE]
History   == [limit : Nat, waited : Nat, gain : {"none", "data", "conn"}]
NoHistory == [limit |-> 0, waited |-> 0, gain |-> "none"]

Init == /\ HostInit
        /\ attr  = [s \in Socks |-> NoAttr]
        /\ pc    = [t \in Threads |-> "idle"]
        /\ req   = [t \in Threads |-> NoRequest]
        /\ io    = [t \in Threads |-> Uninit]
        /\ delay = [t \in Threads |-> 0]
        /\ word  = [t \in Threads |-> NoAttr]
        /\ held  = {}
        /\ tainted = {}
        /\ opt   = [s \in Socks |-> NoAttr]
        /\ ask   = [t \in Threads |-> NoAttr]
        /\ hist  = [t \in Threads |-> NoHistory]

Goto(t, p)     == pc' = [pc EXCEPT ![t] = p]
Result(t, r)   == io' = [io EXCEPT ![t] = r]
Received(t, g) == hist' = [hist EXCEPT ![t].gain = g]
Asks(t, o)     == ask' = [ask EXCEPT ![t] = o]

(***************************************************************************)
(* Starting a call.                                                        *)
(***************************************************************************)
MayCall(t, op) == pc[t] = "idle" /\ op \in Ops

(* A Close in progress has done its work on the host's socket already.     *)
Undisturbed(t, op, s) ==
  \A u \in Threads \ {t} :
    req[u].sock = s /\ req[u].op # "Close" => {op, req[u].op} \notin Apart

MayPass(t, op, s) == /\ s \in held \/ (~Disciplined /\ s \in SockArgs)
                     /\ Undisturbed(t, op, s)

(* The host hands out number n, perhaps while a Close of this number has   *)
(* still to clear, perhaps for a socket whose options come from a tainted  *)
(* one.                                                                    *)
HandedOut(n, from) ==
  tainted' = IF \/ from \in tainted
                \/ \E u \in Threads : pc[u] = "clear" /\ req[u].sock = n
             THEN tainted \cup {n} ELSE tainted \ {n}

Enter(t, op, s, v, nbio) ==
  req' = [req EXCEPT ![t] = [op |-> op, sock |-> s, val |-> v, nbio |-> nbio]]

(* iotSocketCreate: the host's answer, then the attributes of the socket.  *)
Create(t) ==
  /\ MayCall(t, "Create")
  /\ Enter(t, "Create", -1, 0, FALSE)
  /\ Asks(t, [ionbio |-> FALSE, to_msec |-> DefaultTimeo])
  /\ \E o \in HostCreate : /\ host' = o.host
                           /\ Result(t, o.ret)
                           /\ Goto(t, IF o.ret >= 0 THEN "loadMode" ELSE "done")
                           /\ IF o.ret >= 0 THEN HandedOut(o.ret, -1) ELSE UNCHANGED tainted
  /\ UNCHANGED <<attr, delay, word, held, opt, hist>>

(* iotSocketBind and iotSocketListen are the host call and nothing else,   *)
(* and so is iotSocketSetOpt with KEEPALIVE, which changes no state here.  *)
Bind(t, s) ==
  /\ MayCall(t, "Bind") /\ MayPass(t, "Bind", s)
  /\ \E o \in HostBind(s) : host' = o.host
  /\ UNCHANGED <<attr, local, ghost>>

Listen(t, s) ==
  /\ MayCall(t, "Listen") /\ MayPass(t, "Listen", s)
  /\ \E o \in HostListen(s) : host' = o.host
  /\ UNCHANGED <<attr, local, ghost>>

(* Accept, Connect and Recv check the range of the socket, then read its   *)
(* mode; the local ret_val is not initialised.                             *)
CallWithMode(t, op, s, v, next) ==
  /\ MayCall(t, op) /\ MayPass(t, op, s)
  /\ \/ /\ s \in Socks
        /\ Enter(t, op, s, v, attr[s].ionbio)
        /\ Goto(t, IF op = "Recv" /\ attr[s].ionbio THEN "recv" ELSE next)
        /\ UNCHANGED io
     \/ /\ s \notin Socks
        /\ Enter(t, op, s, v, FALSE)
        /\ Goto(t, "done")
        /\ Result(t, EINVAL)
  /\ UNCHANGED <<host, attr, delay, word, owner, opt, hist>>

(* An accepted socket is to have the options of the listening one: the     *)
(* mode of the start of the call, the timeout of the end (see LoadTimeo).  *)
Accept(t, s)    == /\ CallWithMode(t, "Accept", s, 0, "accept")
                   /\ Asks(t, IF s \in Socks THEN opt[s] ELSE NoAttr)
Connect(t, s)   == CallWithMode(t, "Connect", s, 0, "connect") /\ UNCHANGED ask
Recv(t, s, len) == CallWithMode(t, "Recv", s, len, "recvTimeo") /\ UNCHANGED ask

(* iotSocketSetOpt: the option is a field of the socket's attributes.      *)
SetOpt(t, op, s, v, next) ==
  /\ MayCall(t, op) /\ MayPass(t, op, s)
  /\ Enter(t, op, s, v, FALSE)
  /\ \/ s \in Socks    /\ Goto(t, next)   /\ Result(t, OK)
     \/ s \notin Socks /\ Goto(t, "done") /\ Result(t, EINVAL)
  /\ UNCHANGED <<host, attr, delay, word, owner, opt, hist>>

SetMode(t, s, v)  == /\ SetOpt(t, "SetMode", s, v, "loadMode")
                     /\ Asks(t, [ionbio |-> v # 0, to_msec |-> 0])
SetTimeo(t, s, v) == /\ SetOpt(t, "SetTimeo", s, v, "loadTimeo")
                     /\ Asks(t, [ionbio |-> FALSE, to_msec |-> v])

(* iotSocketGetOpt with RCVTIMEO.  (KEEPALIVE and TYPE ask the host.)       *)
GetTimeo(t, s) ==
  /\ MayCall(t, "GetTimeo") /\ MayPass(t, "GetTimeo", s)
  /\ Enter(t, "GetTimeo", s, 0, FALSE)
  /\ Goto(t, "done")
  /\ Result(t, IF s \in Socks THEN attr[s].to_msec ELSE EINVAL)
  /\ UNCHANGED <<host, attr, delay, word, ghost>>

(* iotSocketClose: the host releases the socket, then its attributes are   *)
(* cleared.  The application holds the socket no longer and asks nothing   *)
(* of it.                                                                  *)
Close(t, s) ==
  /\ MayCall(t, "Close") /\ MayPass(t, "Close", s)
  /\ Enter(t, "Close", s, 0, FALSE)
  /\ \E o \in HostClose(s) :
       /\ host' = o.host
       /\ Result(t, o.ret)
       /\ Goto(t, IF o.ret = OK THEN "clear" ELSE "done")
       /\ IF o.ret = OK
          THEN /\ held'    = held \ {s}
               /\ tainted' = tainted \ {s}
               /\ opt'     = [opt EXCEPT ![s] = NoAttr]
          ELSE UNCHANGED <<owner, opt>>
  /\ UNCHANGED <<attr, delay, word, ask, hist>>

GetHostByName(t) ==
  /\ MayCall(t, "GetHostByName")
  /\ Enter(t, "GetHostByName", -1, 0, FALSE)
  /\ Goto(t, "resolve")
  /\ UNCHANGED <<host, attr, io, delay, word, ghost>>

(***************************************************************************)
(* The steps of a call in progress.                                        *)
(***************************************************************************)

(* Mutants of AcceptHost: the loop ends only for a number above 0; the loop *)
(* retries after every error.                                              *)
AcceptHostIdZero(t) ==
  /\ pc[t] = "accept"
  /\ \E o \in HostAccept(req[t].sock) :
       /\ host' = o.host
       /\ Result(t, o.ret)
       /\ Goto(t, IF o.ret > 0 THEN "loadMode"
                  ELSE IF o.ret \in {EAGAIN, 0} /\ ~req[t].nbio THEN "sleep" ELSE "done")
       /\ Received(t, IF o.ret >= 0 THEN "conn" ELSE "none")
       /\ IF o.ret >= 0 THEN HandedOut(o.ret, req[t].sock) ELSE UNCHANGED tainted
  /\ UNCHANGED <<attr, req, delay, word, held, opt, ask>>

AcceptHostRetry(t) ==
  /\ pc[t] = "accept"
  /\ \E o \in HostAccept(req[t].sock) :
       /\ host' = o.host
       /\ Result(t, o.ret)
       /\ Goto(t, IF o.ret >= 0 THEN "loadMode" ELSE IF req[t].nbio THEN "done" ELSE "sleep")
       /\ Received(t, IF o.ret >= 0 THEN "conn" ELSE "none")
       /\ IF o.ret >= 0 THEN HandedOut(o.ret, req[t].sock) ELSE UNCHANGED tainted
  /\ UNCHANGED <<attr, req, delay, word, held, opt, ask>>

(* One poll of iotSocketAccept: in blocking mode EAGAIN is waited out.     *)
AcceptHost(t) ==
  /\ pc[t] = "accept"
  /\ \E o \in HostAccept(req[t].sock) :
       /\ host' = o.host
       /\ Result(t, o.ret)
       /\ Goto(t, IF o.ret >= 0 THEN "loadMode"
                  ELSE IF o.ret = EAGAIN /\ ~req[t].nbio THEN "sleep" ELSE "done")
       /\ Received(t, IF o.ret >= 0 THEN "conn" ELSE "none")
       /\ IF o.ret >= 0 THEN HandedOut(o.ret, req[t].sock) ELSE UNCHANGED tainted
  /\ UNCHANGED <<attr, req, delay, word, held, opt, ask>>

(* One poll of iotSocketConnect.                                           *)
ConnectPendingFirst(r) == r = EINPROGRESS   \* mutant: the second poll ends the loop
ConnectPending(r) == r \in {EINPROGRESS, EALREADY}

ConnectHost(t) ==
  /\ pc[t] = "connect"
  /\ \E o \in HostConnect(req[t].sock) :
       /\ host' = o.host
       /\ Result(t, IF o.ret = EISCONN /\ ~req[t].nbio THEN OK ELSE o.ret)
       /\ Goto(t, IF ConnectPending(o.ret) /\ ~req[t].nbio THEN "sleep" ELSE "done")
  /\ UNCHANGED <<attr, req, delay, word, ghost>>

(* The number of 10 ms delays that stands for a timeout.                   *)
DelaysDown(msec) == msec \div 10   \* mutant: rounds down
Delays(msec) == (msec + 9) \div 10

(* iotSocketRecv in blocking mode reads the timeout, once.                 *)
RecvTimeo(t) ==
  /\ pc[t] = "recvTimeo"
  /\ delay' = [delay EXCEPT ![t] = Delays(attr[req[t].sock].to_msec)]
  /\ hist'  = [hist EXCEPT ![t].limit = attr[req[t].sock].to_msec]
  /\ Goto(t, IF delay'[t] = 0 THEN "done" ELSE "recv")
  /\ UNCHANGED <<host, attr, req, io, word, owner, opt, ask>>

(* The result the blocking loop sees: 0 bytes count as no data.            *)
NoDataOr(r, len) == IF r = 0 \/ len # 0 THEN EAGAIN ELSE r   \* mutant: || for &&
NoData(r, len) == IF r = 0 /\ len # 0 THEN EAGAIN ELSE r

(* One poll of iotSocketRecv or iotSocketRecvFrom.                         *)
RecvHost(t) ==
  /\ pc[t] = "recv"
  /\ \E o \in HostRecv(req[t].sock, req[t].val) :
       LET r == IF req[t].nbio THEN o.ret ELSE NoData(o.ret, req[t].val)
       IN  /\ host' = o.host
           /\ Result(t, r)
           /\ Goto(t, IF r = EAGAIN /\ ~req[t].nbio THEN "sleep" ELSE "done")
           /\ Received(t, IF o.ret > 0 THEN "data" ELSE "none")
  /\ UNCHANGED <<attr, req, delay, word, owner, opt, ask>>

GetHostByNameHost(t) ==
  /\ pc[t] = "resolve"
  /\ \E o \in HostGetHostByName :
       /\ Result(t, o.ret)
       /\ Goto(t, IF o.ret = EAGAIN THEN "sleep" ELSE "done")
  /\ UNCHANGED <<host, attr, req, delay, word, ghost>>

(* osDelay(10) ends.  Only the loop of a receive counts its delays.        *)
WakeAs == [Accept |-> "accept", Connect |-> "connect", GetHostByName |-> "resolve"]

Wake(t) ==
  /\ pc[t] = "sleep"
  /\ req[t].op # "Recv"
  /\ Goto(t, WakeAs[req[t].op])
  /\ UNCHANGED <<host, attr, req, io, delay, word, ghost>>

WakeRecvForever(t) ==   \* mutant: the loop does not count
  /\ pc[t] = "sleep"
  /\ req[t].op = "Recv"
  /\ Goto(t, "recv")
  /\ UNCHANGED <<host, attr, req, io, delay, word, ghost>>

WakeRecv(t) ==
  /\ pc[t] = "sleep"
  /\ req[t].op = "Recv"
  /\ delay' = [delay EXCEPT ![t] = @ - 1]
  /\ hist'  = [hist EXCEPT ![t].waited = @ + 1]
  /\ Goto(t, IF delay'[t] = 0 THEN "done" ELSE "recv")
  /\ UNCHANGED <<host, attr, req, io, word, owner, opt, ask>>

(***************************************************************************)
(* Writing the attributes of a socket: of the one just created or          *)
(* accepted, or of the one SetOpt names.                                   *)
(***************************************************************************)
Target(t) == IF req[t].op \in {"Create", "Accept"} THEN io[t] ELSE req[t].sock

NewMode(t) == CASE req[t].op = "Create"  -> NewAttr.ionbio
                [] req[t].op = "Accept"  -> req[t].nbio
                [] req[t].op = "SetMode" -> req[t].val # 0

(* A timeout in the 31 bits of its field.                                  *)
InFieldWide(v) == v   \* mutant: the field has no width
InField(v) == v % TimeoMod

NewTimeoDefault(t) ==   \* mutant: an accepted socket has the default timeout
  CASE req[t].op = "Create"   -> NewAttr.to_msec
    [] req[t].op = "Accept"   -> NewAttr.to_msec
    [] req[t].op = "SetTimeo" -> InField(req[t].val)

(* An accepted socket takes the timeout of the listening socket, read now. *)
NewTimeo(t) == CASE req[t].op = "Create"   -> NewAttr.to_msec
                 [] req[t].op = "Accept"   -> attr[req[t].sock].to_msec
                 [] req[t].op = "SetTimeo" -> InField(req[t].val)

LoadMode(t) ==
  /\ pc[t] = "loadMode"
  /\ word' = [word EXCEPT ![t] = [attr[Target(t)] EXCEPT !.ionbio = NewMode(t)]]
  /\ Goto(t, "storeMode")
  /\ UNCHANGED <<host, attr, req, io, delay, ghost>>

StoreMode(t) ==
  /\ pc[t] = "storeMode"
  /\ attr' = [attr EXCEPT ![Target(t)] = word[t]]
  /\ opt'  = [opt EXCEPT ![Target(t)].ionbio = ask[t].ionbio]
  /\ Goto(t, IF req[t].op = "SetMode" THEN "done" ELSE "loadTimeo")
  /\ UNCHANGED <<host, req, io, delay, word, owner, ask, hist>>

LoadTimeo(t) ==
  /\ pc[t] = "loadTimeo"
  /\ word' = [word EXCEPT ![t] = [attr[Target(t)] EXCEPT !.to_msec = NewTimeo(t)]]
  /\ ask'  = IF req[t].op = "Accept"
             THEN [ask EXCEPT ![t].to_msec = opt[req[t].sock].to_msec] ELSE ask
  /\ Goto(t, "storeTimeo")
  /\ UNCHANGED <<host, attr, req, io, delay, owner, opt, hist>>

StoreTimeo(t) ==
  /\ pc[t] = "storeTimeo"
  /\ attr' = [attr EXCEPT ![Target(t)] = word[t]]
  /\ opt'  = [opt EXCEPT ![Target(t)].to_msec = ask[t].to_msec]
  /\ Goto(t, "done")
  /\ UNCHANGED <<host, req, io, delay, word, owner, ask, hist>>

(* The memset of iotSocketClose.                                           *)
ClearAttr(t) ==
  /\ pc[t] = "clear"
  /\ attr' = [attr EXCEPT ![req[t].sock] = NoAttr]
  /\ Goto(t, "done")
  /\ UNCHANGED <<host, req, io, delay, word, ghost>>

(* The call returns io.ret_val to the application.                         *)
Return(t) ==
  /\ pc[t] = "done"
  /\ Goto(t, "idle")
  /\ req'   = [req EXCEPT ![t] = NoRequest]
  /\ io'    = [io EXCEPT ![t] = Uninit]
  /\ delay' = [delay EXCEPT ![t] = 0]
  /\ word'  = [word EXCEPT ![t] = NoAttr]
  /\ ask'   = [ask EXCEPT ![t] = NoAttr]
  /\ hist'  = [hist EXCEPT ![t] = NoHistory]
  /\ held'  = IF req[t].op \in {"Create", "Accept"} /\ io[t] >= 0 THEN held \cup {io[t]} ELSE held
  /\ UNCHANGED <<host, attr, tainted, opt>>

(***************************************************************************)
(* The specification.                                                      *)
(***************************************************************************)
Call(t) ==
  \/ Create(t)
  \/ GetHostByName(t)
  \/ \E s \in SockArgs : \/ Bind(t, s)
                         \/ Listen(t, s)
                         \/ Accept(t, s)
                         \/ Connect(t, s)
                         \/ \E len \in {0, 1} : Recv(t, s, len)
                         \/ \E v \in {0, 1} : SetMode(t, s, v)
                         \/ \E v \in RcvTimeouts : SetTimeo(t, s, v)
                         \/ GetTimeo(t, s)
                         \/ Close(t, s)

Step(t) == \/ AcceptHost(t) \/ ConnectHost(t) \/ RecvHost(t) \/ GetHostByNameHost(t)
           \/ RecvTimeo(t) \/ Wake(t) \/ WakeRecv(t)
           \/ LoadMode(t) \/ StoreMode(t) \/ LoadTimeo(t) \/ StoreTimeo(t) \/ ClearAttr(t)
           \/ Return(t)

Network == HostStep /\ UNCHANGED <<attr, local, ghost>>

Next == \/ \E t \in Threads : Call(t) \/ Step(t)
        \/ Network

Spec == Init /\ [][Next]_vars

(* The scheduler runs every thread that is ready, and osDelay ends.        *)
FairSpec == Spec /\ \A t \in Threads : WF_vars(Step(t))

-----------------------------------------------------------------------------
(***************************************************************************)
(* Properties.                                                             *)
(***************************************************************************)

(* Every variable has its type (the whole file).                           *)
CallsTypeOK == /\ attr  \in [Socks -> Attr]
               /\ pc    \in [Threads -> Pcs]
               /\ req   \in [Threads -> Request]
               /\ io    \in [Threads -> Int]
               /\ delay \in [Threads -> Nat]
               /\ word  \in [Threads -> Attr]
               /\ held  \in SUBSET Socks
               /\ hist  \in [Threads -> History]

OptionsTypeOK == /\ tainted \in SUBSET Socks
                 /\ opt \in [Socks -> Options]
                 /\ ask \in [Threads -> Options]

TypeOK == HostTypeOK /\ CallsTypeOK /\ OptionsTypeOK

(* What the host hands over to a call, a unit of data it took from the     *)
(* receive queue or a connection it took from the backlog, is what the     *)
(* call returns: the polling loops of Accept and Recv never poll again     *)
(* after the host gave them something, and report no gain without one.     *)
NothingLost ==
  \A t \in Threads :
    /\ pc[t] = "sleep" => hist[t].gain = "none"
    /\ pc[t] = "done"  =>
         /\ hist[t].gain = "data" <=> req[t].op = "Recv" /\ io[t] > 0
         /\ hist[t].gain = "conn" <=> req[t].op = "Accept" /\ io[t] >= 0

(* A blocking Recv or RecvFrom that answers EAGAIN has waited out the      *)
(* receive timeout it found when it started, rounded up to the 10 ms of a  *)
(* delay, and no longer, whatever other threads do to the socket and its   *)
(* options meanwhile.                                                      *)
TimeoutHonoured ==
  \A t \in Threads :
    (pc[t] = "done" /\ req[t].op = "Recv" /\ ~req[t].nbio /\ io[t] = EAGAIN) =>
      /\ hist[t].limit <= 10 * hist[t].waited
      /\ 10 * hist[t].waited < hist[t].limit + 10

(* A blocking Connect never ends with the answers that mean "not decided   *)
(* yet" or "decided before", and the poll that ends it with success leaves *)
(* the socket with a connection, also when several threads connect it.     *)
ConnectSettles ==
  [][\A t \in Threads :
       (ConnectHost(t) /\ ~req[t].nbio /\ pc'[t] = "done") =>
         /\ io'[t] \notin {EINPROGRESS, EALREADY, EISCONN}
         /\ io'[t] = OK => host'[req[t].sock].st \in {"connected", "eof"}]_vars

(* The sockets of the application that were not handed out under a Close   *)
(* which has still to clear their attributes.                              *)
Sound == held \ tainted

(* No option is lost: at any moment the attributes of a sound socket are   *)
(* the last ones stored for it as they were asked for, not as they fit in  *)
(* the table: what Create gives, or what the listening socket was to have, *)
(* and the values given to SetOpt since, while Accept waits, SetOpt changes*)
(* this and other sockets and other threads create and close.              *)
OptionsKept == \A s \in Sound : attr[s] = opt[s]

(* A Recv or RecvFrom has asked the host at least once before it returns:  *)
(* what it returns is not the uninitialised ret_val.                       *)
RecvAsked(t)  == (pc[t] = "done" /\ req[t].op = "Recv") => io[t] # Uninit
RecvAsksHost  == \A t \in Threads : RecvAsked(t)

(* The same of the receives on sound sockets.                              *)
SoundRecvAsks == \A t \in Threads : req[t].sock \notin tainted => RecvAsked(t)

(* A receive returns, also when no data ever comes.                        *)
RecvReturns == \A t \in Threads : req[t].op = "Recv" ~> pc[t] = "idle"

(* A thread waiting in Accept is released when the listening socket is     *)
(* closed under it (unless the number is listening again by then).         *)
Accepting(t, s) == req[t].op = "Accept" /\ req[t].sock = s

AcceptReleased ==
  \A t \in Threads, s \in Socks :
    (Accepting(t, s) /\ host[s].st # "listening") ~> (pc[t] = "idle" \/ host[s].st = "listening")
=============================================================================
