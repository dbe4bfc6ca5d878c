------------------------------ MODULE ApiCalls ------------------------------
(***************************************************************************)
(* Threads of an application in calls of the IoT Socket API, for the       *)
(* implementations over a BSD stack (LwipSocket, MdkSocket): where each    *)
(* call is, which sockets the application holds, and which calls it makes  *)
(* at the same time on one socket.                                         *)
(***************************************************************************)
EXTENDS BsdStack, IotSocketCodes

CONSTANTS
  Threads,      (* the threads that call the API                           *)
  Ops,          (* the operations they call                                *)
  Alone,        (* operations the application overlaps with no other call  *)
                (* on the same socket                                      *)
  Strays,       (* numbers passed although the application holds no such   *)
                (* socket                                                  *)
  Modes,        (* values given to SetOpt(FIONBIO), 0 is blocking          *)
  RcvTimeouts   (* values given to SetOpt(RCVTIMEO), ms                    *)

AllOps == {"Create", "Bind", "Listen", "Accept", "Connect", "Recv", "Send",
           "GetSockName", "SetMode", "SetTimeo", "Close"}

ASSUME CallsAssumption == /\ Ops \subseteq AllOps /\ Alone \subseteq AllOps
                          /\ Strays \subseteq Int
                          /\ Modes \subseteq Nat /\ RcvTimeouts \subseteq Nat

VARIABLES
  pc,      (* where each thread is in the call it executes                 *)
  req,     (* the arguments of the call, and the wait in force at its      *)
           (* start                                                        *)
  res,     (* the local variable rc                                        *)
  limit,   (* the timeout of select, as far as it is computed              *)
  held,    (* history: the sockets the application holds                   *)
  tainted  (* history: sockets handed out while a Close of the same number *)
           (* had still to clear its attributes, or accepted from such one *)

calls == <<pc, req, res, limit>>
owner == <<held, tainted>>

None      == -2
SockArgs  == Socks \cup Strays \cup {None}
Request   == [op : AllOps \cup {"none"}, sock : SockArgs, val : Nat, wait : Int]
NoRequest == [op |-> "none", sock |-> None, val |-> 0, wait |-> 0]

CallsInit == /\ pc    = [t \in Threads |-> "idle"]
             /\ req   = [t \in Threads |-> NoRequest]
             /\ res   = [t \in Threads |-> OK]
             /\ limit = [t \in Threads |-> 0]
             /\ held  = {}
             /\ tainted = {}

CallsTypeOK == /\ req    \in [Threads -> Request]
               /\ res    \in [Threads -> Int]
               /\ limit  \in [Threads -> Int]
               /\ held   \in SUBSET Socks
               /\ tainted \in SUBSET Socks

Goto(t, p)    == pc' = [pc EXCEPT ![t] = p]
Result(t, r)  == res' = [res EXCEPT ![t] = r]

(* No other call is in progress on the socket if one of the two is to be   *)
(* alone.  A Close that is in progress has released the socket already.    *)
Undisturbed(t, op, s) ==
  \A u \in Threads \ {t} :
    req[u].sock = s /\ req[u].op # "Close" => op \notin Alone /\ req[u].op \notin Alone

MayCall(t, op, s) == /\ pc[t] = "idle"
                     /\ op \in Ops
                     /\ \/ op = "Create" /\ s = None
                        \/ op # "Create" /\ s \in held \cup Strays /\ Undisturbed(t, op, s)

(* A SetOpt is at work on the socket.                                      *)
Setting(s) == \E t \in Threads : req[t].op \in {"SetMode", "SetTimeo"} /\ req[t].sock = s

(* The wait in force when a call starts; any while a SetOpt is changing it.*)
WaitAtStart(s) == IF Setting(s) THEN Forever ELSE OwnWait(s)

Enter(t, op, s, v, wait) ==
  req' = [req EXCEPT ![t] = [op |-> op, sock |-> s, val |-> v, wait |-> wait]]

(* The stack hands out socket n, perhaps under a Close of this number that *)
(* has not ended, perhaps with attributes copied from a tainted socket.    *)
HandedOut(n, from) ==
  tainted' = IF \/ from \in tainted
                \/ \E t \in Threads : pc[t] = "clear" /\ req[t].op = "Close" /\ req[t].sock = n
             THEN tainted \cup {n} ELSE tainted \ {n}

(* The sockets whose attributes can be trusted.                            *)
Sound == held \ tainted

(* The call returns r; the application holds the socket it is given.       *)
Answer(t, r) ==
  /\ Goto(t, "idle")
  /\ req'   = [req EXCEPT ![t] = NoRequest]
  /\ res'   = [res EXCEPT ![t] = OK]
  /\ limit' = [limit EXCEPT ![t] = 0]
  /\ held'  = IF req[t].op \in {"Create", "Accept"} /\ r >= 0 THEN held \cup {r} ELSE held

(* The call returns res, in a step of its own.                             *)
Return(t) == pc[t] = "done" /\ Answer(t, res[t]) /\ UNCHANGED tainted
=============================================================================
