-------------------------------- MODULE Mux ---------------------------------
(***************************************************************************)
(* source/mux/iot_socket.c: every operation of the API is passed on to the *)
(* registered one.                                                         *)
(*                                                                         *)
(* An operation tests SocketApi and then reads it for the call.  Nothing   *)
(* makes the two reads one, and nothing keeps them apart: a build loads    *)
(* the pointer once or twice.  The functions of the table are external:    *)
(* each API numbers its sockets from 0, as the implementations of this     *)
(* repository do, so that two of them use the same numbers.                *)
(***************************************************************************)
EXTENDS IotSocketCodes

CONSTANTS
  Threads,   (* the threads that call the API                              *)
  Apis,      (* the tables of functions that can be registered             *)
  Null,      (* NULL                                                       *)
  NumSocks,  (* sockets of each API                                        *)
  Rules      (* when the application registers, see MayRegister            *)

ASSUME MuxAssumption == /\ Null \notin Apis
                        /\ "none" \notin Apis /\ "refused" \notin Apis
                        /\ NumSocks \in Nat
                        /\ Rules \subseteq {"anytime", "drained"}

VARIABLES
  SocketApi,  (* the registered table                                      *)
  pc,         (* where each thread is in the call it executes              *)
  req,        (* the operation, the number passed, the API that the thread *)
              (* got the number from, and whether SocketApi is loaded twice*)
  api,        (* the value of SocketApi that was loaded last               *)
  open,       (* the sockets that exist in each API                        *)
  held,       (* history: the sockets the application holds                *)
  rule        (* the rule the application keeps to                         *)

vars == <<SocketApi, pc, req, api, open, held, rule>>

Numbers == 0 .. NumSocks - 1
Ops     == {"Create", "Use", "Accept", "Close", "GetHostByName"}
NoSock  == [owner |-> Null, num |-> ESOCK]
NoReq   == [op |-> "none", sock |-> NoSock, twice |-> FALSE]
Sockets == [owner : Apis, num : Numbers]

Quiet == \A t \in Threads : pc[t] = "idle"

Init == /\ SocketApi = Null
        /\ pc   = [t \in Threads |-> "idle"]
        /\ req  = [t \in Threads |-> NoReq]
        /\ api  = [t \in Threads |-> Null]
        /\ open = [a \in Apis |-> {}]
        /\ held = {}
        /\ rule \in Rules

(***************************************************************************)
(* iotSocketRegisterApi.  NULL disables the API: while a call is between   *)
(* its two loads that would be a call through NULL, so the application     *)
(* disables when no call is in progress.  "anytime": it retargets whenever *)
(* it likes; "drained": it has closed its sockets and no call is in        *)
(* progress.                                                               *)
(***************************************************************************)
MayRegister(a) == /\ rule = "anytime" => a # Null \/ Quiet
                  /\ rule = "drained" => Quiet /\ held = {}

Register(a) ==
  /\ MayRegister(a)
  /\ SocketApi' = a
  /\ UNCHANGED <<pc, req, api, open, held, rule>>

(***************************************************************************)
(* An operation starts with the test of SocketApi, and is refused.         *)
(***************************************************************************)

(* Mutants: no test; the pointer of the thread's last call is used again.  *)
TestOmitted(t) == api' = [api EXCEPT ![t] = SocketApi] /\ pc' = [pc EXCEPT ![t] = "tested"]

TestCached(t) ==
  LET a == IF api[t] # Null THEN api[t] ELSE SocketApi
  IN  /\ api' = [api EXCEPT ![t] = a]
      /\ pc'  = [pc EXCEPT ![t] = IF a = Null THEN "refused" ELSE "tested"]

Test(t) == /\ api' = [api EXCEPT ![t] = SocketApi]
           /\ pc'  = [pc EXCEPT ![t] = IF SocketApi = Null THEN "refused" ELSE "tested"]

Begin(t, op, s) ==
  /\ pc[t] = "idle"
  /\ \E twice \in BOOLEAN : req' = [req EXCEPT ![t] = [op |-> op, sock |-> s, twice |-> twice]]
  /\ Test(t)
  /\ UNCHANGED <<SocketApi, open, held, rule>>

Create(t)        == Begin(t, "Create", NoSock)
Accept(t, s)     == Begin(t, "Accept", s)
Close(t, s)      == Begin(t, "Close", s)
GetHostByName(t) == Begin(t, "GetHostByName", NoSock)

(* Bind and Listen; Connect, receiving, sending, names and options.        *)
BindListen(t, s) == Begin(t, "Use", s)
Transfer(t, s)   == Begin(t, "Use", s)

(* The function of the table is called: SocketApi is loaded again or not.  *)
Dispatch(t) ==
  /\ pc[t] = "tested"
  /\ api' = [api EXCEPT ![t] = IF req[t].twice THEN SocketApi ELSE @]
  /\ pc'  = [pc EXCEPT ![t] = "called"]
  /\ UNCHANGED <<SocketApi, req, open, held, rule>>

Return(t) == /\ pc'  = [pc EXCEPT ![t] = "idle"]
             /\ req' = [req EXCEPT ![t] = NoReq]
             /\ UNCHANGED <<SocketApi, api, rule>>

Refused(t) == /\ pc[t] = "refused"
              /\ Return(t)
              /\ UNCHANGED <<open, held>>

(***************************************************************************)
(* The called API ends the operation with result rc.  It knows a socket by *)
(* its number alone.  A call through NULL does not come back.              *)
(***************************************************************************)
InApi(t) == pc[t] = "called" /\ api[t] \in Apis
Known(t) == req[t].sock.num \in open[api[t]]

(* A socket is handed out; the application holds it.                       *)
ApiCreates(t) ==
  /\ InApi(t)
  /\ req[t].op \in {"Create", "Accept"}
  /\ req[t].op = "Accept" => Known(t)
  /\ \E n \in Numbers \ open[api[t]] :
       /\ open' = [open EXCEPT ![api[t]] = @ \cup {n}]
       /\ held' = held \cup {[owner |-> api[t], num |-> n]}
  /\ Return(t)

(* The API closes the socket it knows by this number; the application      *)
(* gives up the one it passed.                                             *)
ApiCloses(t) ==
  /\ InApi(t) /\ req[t].op = "Close" /\ Known(t)
  /\ open' = [open EXCEPT ![api[t]] = @ \ {req[t].sock.num}]
  /\ held' = held \ {req[t].sock}
  /\ Return(t)

(* Any other end: no sockets left, no such socket, nothing to tell.        *)
ApiAnswers(t) ==
  /\ InApi(t)
  /\ req[t].op = "Close" => ~Known(t)
  /\ req[t].op = "Create" => Numbers = open[api[t]]
  /\ Return(t)
  /\ UNCHANGED <<open, held>>

(***************************************************************************)
(* The specification.                                                      *)
(***************************************************************************)
Call(t) == \/ Create(t) \/ GetHostByName(t)
           \/ \E s \in held : \/ BindListen(t, s) \/ Transfer(t, s)
                              \/ Accept(t, s) \/ Close(t, s)

Step(t) == \/ Dispatch(t) \/ Refused(t)
           \/ ApiCreates(t) \/ ApiCloses(t) \/ ApiAnswers(t)

Next == \/ \E a \in Apis \cup {Null} : Register(a)
        \/ \E t \in Threads : Call(t) \/ Step(t)

Spec == Init /\ [][Next]_vars

-----------------------------------------------------------------------------
(***************************************************************************)
(* Properties.                                                             *)
(***************************************************************************)

(* Every variable has its type, and no operation is called through NULL    *)
(* (the whole file).                                                       *)
TypeOK ==
  /\ SocketApi \in Apis \cup {Null}
  /\ pc   \in [Threads -> {"idle", "tested", "called", "refused"}]
  /\ req  \in [Threads -> [op : Ops \cup {"none"}, sock : Sockets \cup {NoSock}, twice : BOOLEAN]]
  /\ api  \in [Threads -> Apis \cup {Null}]
  /\ \A t \in Threads : pc[t] \in {"tested", "called"} => api[t] \in Apis
  /\ open \in [Apis -> SUBSET Numbers]
  /\ held \subseteq Sockets
  /\ rule \in Rules

(* The multiplexer implements ApiSwitch: whichever APIs are registered     *)
(* during a call, it is served by one that was registered at one moment of *)
(* the call, the load it uses, or refused when none was at its start.      *)
(* MayRegister leaves NULL out while a call is in progress: then a build   *)
(* that loads twice calls through NULL, which no abstract step answers.    *)
Serving(t) ==
  CASE pc[t] = "refused" -> "refused"
    [] pc[t] = "called" \/ (pc[t] = "tested" /\ ~req[t].twice) -> api[t]
    [] OTHER -> "none"

Switch == INSTANCE ApiSwitch WITH current <- SocketApi,
                                  serving <- [t \in Threads |-> Serving(t)]
ImplementsSwitch == Switch!Spec

(* An application that retargets when it is drained finds every operation  *)
(* on a socket served by the API that created the socket.                  *)
OwnersServe ==
  rule = "drained" =>
    \A t \in Threads : pc[t] = "called" /\ req[t].sock # NoSock => api[t] = req[t].sock.owner

(* The sockets it holds are open in their APIs and there are no others:    *)
(* no retargeting leaves one behind, and none is closed under its user.    *)
(* A socket is passed until its close returns, so that two closes of one   *)
(* socket may be in progress.                                              *)
NoSocketStranded ==
  rule = "drained" => \A a \in Apis : open[a] = {s.num : s \in {h \in held : h.owner = a}}
=============================================================================
