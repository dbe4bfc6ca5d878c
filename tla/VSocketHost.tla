---------------------------- MODULE VSocketHost ----------------------------
(***************************************************************************)
(* The simulation host behind ARM_VSOCKET, external to the repository.     *)
(*                                                                         *)
(* source/vsocket/iot_socket.c writes the address of a local structure to  *)
(* a memory-mapped register; the host runs the call while the store is     *)
(* executed and leaves the result in ret_val.  A call is therefore atomic, *)
(* and it never waits: what would block is answered by EAGAIN,             *)
(* EINPROGRESS or EALREADY, which the code then polls for.                 *)
(*                                                                         *)
(* HostX(s) is the set of outcomes of call X in the current state of the   *)
(* host: a return value and the host's next table of sockets.              *)
(***************************************************************************)
EXTENDS IotSocketCodes

CONSTANTS
  NumSocks,  (* NUM_SOCKS, the number of socket identifications (64)       *)
  MaxPend,   (* bound: connection requests queued at a listening socket    *)
  MaxRx      (* bound: units of data received and not read yet             *)

ASSUME NumSocksAssumption == NumSocks \in Nat \ {0}
ASSUME BoundsAssumption   == MaxPend \in Nat /\ MaxRx \in Nat

VARIABLE host   (* the host's sockets *)

Socks == 0 .. NumSocks - 1

(* Life of a host socket.  "eof" is a connection the peer has closed,      *)
(* "refused" a connection attempt that failed and was not reported yet.    *)
SockStates == {"free", "open", "bound", "listening", "connecting",
               "refused", "connected", "eof"}

HostSock == [st : SockStates, pend : Nat, rx : Nat]

Fresh(st) == [st |-> st, pend |-> 0, rx |-> 0]

St(s)      == IF s \in Socks THEN host[s].st ELSE "free"
FreeSocks  == {s \in Socks : host[s].st = "free"}

HostInit == host = [s \in Socks |-> Fresh("free")]

HostTypeOK == host \in [Socks -> HostSock]

Refuse(r)        == [ret |-> r, host |-> host]
Answer(r, s, h)  == [ret |-> r, host |-> [host EXCEPT ![s] = h]]

HostCreate == IF FreeSocks = {} THEN {Refuse(ENOMEM)}
                                ELSE {Answer(s, s, Fresh("open")) : s \in FreeSocks}

HostBind(s) == CASE St(s) = "free" -> {Refuse(ESOCK)}
                 [] St(s) = "open" -> {Answer(OK, s, Fresh("bound")), Refuse(EADDRINUSE)}
                 [] OTHER          -> {Refuse(EINVAL)}

HostListen(s) == CASE St(s) = "free"      -> {Refuse(ESOCK)}
                   [] St(s) = "bound"     -> {Answer(OK, s, Fresh("listening"))}
                   [] St(s) = "connected" -> {Refuse(EISCONN)}
                   [] OTHER               -> {Refuse(EINVAL)}

(* A pending request leaves the queue and becomes a connected socket.      *)
HostAccept(s) ==
  CASE St(s) = "free"        -> {Refuse(ESOCK)}
    [] St(s) \notin {"free", "listening"} -> {Refuse(EINVAL)}
    [] St(s) = "listening" /\ host[s].pend = 0 -> {Refuse(EAGAIN)}
    [] St(s) = "listening" /\ host[s].pend > 0 ->
         IF FreeSocks = {} THEN {Refuse(ENOMEM)}
         ELSE {[ret  |-> n,
                host |-> [host EXCEPT ![s].pend = @ - 1, ![n] = Fresh("connected")]]
               : n \in FreeSocks}

HostConnect(s) ==
  CASE St(s) = "free"       -> {Refuse(ESOCK)}
    [] St(s) \in {"open", "bound"} -> {Answer(EINPROGRESS, s, Fresh("connecting")),
                                       Answer(OK, s, Fresh("connected"))}
    [] St(s) = "listening"  -> {Refuse(EINVAL)}
    [] St(s) = "connecting" -> {Refuse(EALREADY)}
    [] St(s) = "refused"    -> {Answer(ECONNREFUSED, s, Fresh("open"))}
    [] St(s) \in {"connected", "eof"} -> {Refuse(EISCONN)}

(* len = 0 asks whether there is data and takes none; at the end of the    *)
(* stream recv returns 0.                                                  *)
HostRecv(s, len) ==
  CASE St(s) = "free" -> {Refuse(ESOCK)}
    [] St(s) \notin {"free", "connected", "eof"} -> {Refuse(ENOTCONN)}
    [] St(s) \in {"connected", "eof"} /\ host[s].rx > 0 ->
         IF len = 0 THEN {Refuse(OK)}
         ELSE {Answer(1, s, [host[s] EXCEPT !.rx = @ - 1])}
    [] St(s) = "connected" /\ host[s].rx = 0 -> {Refuse(EAGAIN)}
    [] St(s) = "eof" /\ host[s].rx = 0       -> {Refuse(OK)}

(* Closing may be answered by EAGAIN; the socket then stays open.          *)
HostClose(s) == IF St(s) = "free" THEN {Refuse(ESOCK)}
                ELSE {Answer(OK, s, Fresh("free")), Refuse(EAGAIN)}

HostGetHostByName == {Refuse(EAGAIN), Refuse(OK), Refuse(EHOSTNOTFOUND)}

(***************************************************************************)
(* What the network does to the host's sockets meanwhile.                  *)
(***************************************************************************)
RequestArrives(s) == /\ host[s].st = "listening"
                     /\ host[s].pend < MaxPend
                     /\ host' = [host EXCEPT ![s].pend = @ + 1]

DataArrives(s) == /\ host[s].st = "connected"
                  /\ host[s].rx < MaxRx
                  /\ host' = [host EXCEPT ![s].rx = @ + 1]

ConnectEnds(s) == /\ host[s].st = "connecting"
                  /\ \E st \in {"connected", "refused"} : host' = [host EXCEPT ![s].st = st]

PeerCloses(s) == /\ host[s].st = "connected"
                 /\ host' = [host EXCEPT ![s].st = "eof"]

HostStep == \E s \in Socks : \/ RequestArrives(s)
                             \/ DataArrives(s)
                             \/ ConnectEnds(s)
                             \/ PeerCloses(s)
=============================================================================
