------------------------------ MODULE MuxProofs ------------------------------
(***************************************************************************)
(* Theorems about Mux, for any threads, APIs, numbers of sockets and rules.*)
(***************************************************************************)
EXTENDS Mux, TLAPS

(* While a call that passed the test is in progress an API is registered:  *)
(* nobody registers NULL then.                                             *)
Registered == (\E t \in Threads : pc[t] \in {"tested", "called"}) => SocketApi \in Apis

TypeInv == TypeOK /\ Registered

(* The acts of a thread in a call, without what they do to the sockets.    *)
Ending(t) == Refused(t) \/ ApiCreates(t) \/ ApiCloses(t) \/ ApiAnswers(t)

(* The steps, one by one.                                                  *)
LEMMA StepCases ==
  ASSUME Next
  PROVE  \/ \E a \in Apis \cup {Null} : Register(a)
         \/ \E t \in Threads, op \in Ops, s \in held \cup {NoSock} : Begin(t, op, s)
         \/ \E t \in Threads : Dispatch(t)
         \/ \E t \in Threads : Ending(t)
<1>1. CASE \E a \in Apis \cup {Null} : Register(a)
  BY <1>1
<1>2. CASE \E t \in Threads : Call(t)
  <2>1. PICK t \in Threads : Call(t)
    BY <1>2
  <2>2. \E op \in Ops, s \in held \cup {NoSock} : Begin(t, op, s)
    <3>1. CASE Create(t) \/ GetHostByName(t)
      BY <3>1 DEF Create, GetHostByName, Ops
    <3>2. CASE \E s \in held : BindListen(t, s) \/ Transfer(t, s) \/ Accept(t, s) \/ Close(t, s)
      BY <3>2 DEF BindListen, Transfer, Accept, Close, Ops
    <3>. QED  BY <2>1, <3>1, <3>2 DEF Call
  <2>. QED  BY <2>2
<1>3. CASE \E t \in Threads : Step(t)
  BY <1>3 DEF Step, Ending
<1>. QED  BY <1>1, <1>2, <1>3 DEF Next

-----------------------------------------------------------------------------
(***************************************************************************)
(* Types.                                                                  *)
(***************************************************************************)
LEMMA TypeInit == Init => TypeInv
  BY MuxAssumption DEF Init, TypeInv, TypeOK, Registered, NoReq, NoSock, Ops

LEMMA TypeRegister ==
  ASSUME TypeInv, NEW a \in Apis \cup {Null}, Register(a)
  PROVE  TypeInv'
<1>1. a = Null => Quiet
  BY MuxAssumption DEF Register, MayRegister, TypeInv, TypeOK
<1>2. TypeOK'
  BY DEF Register, TypeInv, TypeOK
<1>3. Registered'
  BY <1>1 DEF Register, Quiet, Registered, TypeInv
<1>. QED  BY <1>2, <1>3 DEF TypeInv

LEMMA TypeBegin ==
  ASSUME TypeInv, NEW t \in Threads, NEW op \in Ops, NEW s \in held \cup {NoSock}, Begin(t, op, s)
  PROVE  TypeInv'
<1>1. s \in Sockets \cup {NoSock}
  BY DEF TypeInv, TypeOK
<1>2. req' \in [Threads -> [op : Ops \cup {"none"}, sock : Sockets \cup {NoSock}, twice : BOOLEAN]]
  BY <1>1 DEF Begin, TypeInv, TypeOK
<1>3. TypeOK'
  BY <1>2 DEF Begin, Test, TypeInv, TypeOK
<1>4. Registered'
  BY DEF Begin, Test, TypeInv, TypeOK, Registered
<1>. QED  BY <1>3, <1>4 DEF TypeInv

LEMMA TypeDispatch ==
  ASSUME TypeInv, NEW t \in Threads, Dispatch(t)
  PROVE  TypeInv'
<1>1. SocketApi \in Apis /\ api[t] \in Apis
  BY DEF Dispatch, TypeInv, TypeOK, Registered
<1>. QED  BY <1>1 DEF Dispatch, TypeInv, TypeOK, Registered

LEMMA TypeEnding ==
  ASSUME TypeInv, NEW t \in Threads, Ending(t)
  PROVE  TypeInv'
<1>1. Return(t)
  BY DEF Ending, Refused, ApiCreates, ApiCloses, ApiAnswers
<1>2. open' \in [Apis -> SUBSET Numbers] /\ held' \subseteq Sockets
  <2>1. CASE ApiCreates(t)
    BY <2>1 DEF ApiCreates, InApi, TypeInv, TypeOK, Sockets
  <2>2. CASE ApiCloses(t)
    BY <2>2 DEF ApiCloses, InApi, TypeInv, TypeOK
  <2>3. CASE Refused(t) \/ ApiAnswers(t)
    BY <2>3 DEF Refused, ApiAnswers, TypeInv, TypeOK
  <2>. QED  BY <2>1, <2>2, <2>3 DEF Ending
<1>3. NoReq \in [op : Ops \cup {"none"}, sock : Sockets \cup {NoSock}, twice : BOOLEAN]
  BY DEF NoReq
<1>4. TypeOK'
  BY <1>1, <1>2, <1>3 DEF Return, TypeInv, TypeOK
<1>5. Registered'
  BY <1>1 DEF Return, TypeInv, TypeOK, Registered
<1>. QED  BY <1>4, <1>5 DEF TypeInv

LEMMA TypeStep == TypeInv /\ [Next]_vars => TypeInv'
<1>. SUFFICES ASSUME TypeInv, [Next]_vars PROVE TypeInv'
  OBVIOUS
<1>1. CASE Next
  BY <1>1, StepCases, TypeRegister, TypeBegin, TypeDispatch, TypeEnding
<1>2. CASE UNCHANGED vars
  BY <1>2 DEF vars, TypeInv, TypeOK, Registered
<1>. QED  BY <1>1, <1>2

(* Every variable has its type, no operation is called through NULL, and   *)
(* NULL is registered by no one while a call is in progress.               *)
THEOREM TypesAreKept == Spec => []TypeInv
  BY TypeInit, TypeStep, PTL DEF Spec

THEOREM TypeCorrect == Spec => []TypeOK
<1>1. TypeInv => TypeOK
  BY DEF TypeInv
<1>. QED  BY <1>1, TypesAreKept, PTL

-----------------------------------------------------------------------------
(***************************************************************************)
(* The refinement of ApiSwitch.                                            *)
(***************************************************************************)
LEMMA SwitchInit == Init => Switch!Init
  BY DEF Init, Switch!Init, Serving

LEMMA SwitchRegister ==
  ASSUME TypeInv, NEW a \in Apis \cup {Null}, Register(a)
  PROVE  Switch!Register(a)
  BY DEF Register, Switch!Register, Serving

LEMMA OthersServed ==
  ASSUME TypeInv, NEW t \in Threads, NEW p, NEW q, NEW r,
         pc'  = [pc EXCEPT ![t] = p], req' = [req EXCEPT ![t] = q], api' = [api EXCEPT ![t] = r]
  PROVE  [u \in Threads |-> Serving(u)]'
           = [[u \in Threads |-> Serving(u)] EXCEPT ![t] = Serving(t)']
<1>1. \A u \in Threads : u # t => Serving(u)' = Serving(u)
  BY DEF Serving, TypeInv, TypeOK
<1>. QED  BY <1>1

LEMMA SwitchBegin ==
  ASSUME TypeInv, NEW t \in Threads, NEW op \in Ops, NEW s \in held \cup {NoSock}, Begin(t, op, s)
  PROVE  Switch!Dispatch(t) \/ UNCHANGED Switch!vars
<1>1. PICK twice \in BOOLEAN : req' = [req EXCEPT ![t] = [op |-> op, sock |-> s, twice |-> twice]]
  BY DEF Begin
<1>2. /\ api' = [api EXCEPT ![t] = SocketApi]
      /\ pc' = [pc EXCEPT ![t] = IF SocketApi = Null THEN "refused" ELSE "tested"]
      /\ SocketApi' = SocketApi /\ pc[t] = "idle"
  BY DEF Begin, Test
<1>3. Serving(t) = "none"
  BY <1>2 DEF Serving
<1>4. Serving(t)' = IF SocketApi = Null THEN "refused" ELSE IF twice THEN "none" ELSE SocketApi
  BY <1>1, <1>2 DEF Serving, TypeInv, TypeOK
<1>5. [u \in Threads |-> Serving(u)]' = [[u \in Threads |-> Serving(u)] EXCEPT ![t] = Serving(t)']
  BY <1>1, <1>2, OthersServed
<1>6. CASE SocketApi # Null /\ twice
  BY <1>2, <1>3, <1>4, <1>5, <1>6 DEF Switch!vars
<1>7. CASE SocketApi = Null \/ ~twice
  BY <1>2, <1>3, <1>4, <1>5, <1>7 DEF Switch!Dispatch
<1>. QED  BY <1>6, <1>7

LEMMA SwitchDispatch ==
  ASSUME TypeInv, NEW t \in Threads, Dispatch(t)
  PROVE  Switch!Dispatch(t) \/ UNCHANGED Switch!vars
<1>1. /\ pc[t] = "tested" /\ pc' = [pc EXCEPT ![t] = "called"]
      /\ api' = [api EXCEPT ![t] = IF req[t].twice THEN SocketApi ELSE api[t]]
      /\ req' = [req EXCEPT ![t] = req[t]] /\ SocketApi' = SocketApi
  BY DEF Dispatch, TypeInv, TypeOK
<1>2. SocketApi # Null
  BY <1>1, MuxAssumption DEF TypeInv, TypeOK, Registered
<1>3. Serving(t) = (IF req[t].twice THEN "none" ELSE api[t])
  BY <1>1 DEF Serving, TypeInv, TypeOK
<1>4. Serving(t)' = (IF req[t].twice THEN SocketApi ELSE api[t])
  BY <1>1 DEF Serving, TypeInv, TypeOK
<1>5. [u \in Threads |-> Serving(u)]' = [[u \in Threads |-> Serving(u)] EXCEPT ![t] = Serving(t)']
  BY <1>1, OthersServed
<1>6. CASE req[t].twice
  BY <1>1, <1>2, <1>3, <1>4, <1>5, <1>6 DEF Switch!Dispatch
<1>7. CASE ~req[t].twice
  BY <1>1, <1>3, <1>4, <1>5, <1>7 DEF Switch!vars
<1>. QED  BY <1>6, <1>7

LEMMA SwitchEnding ==
  ASSUME TypeInv, NEW t \in Threads, Ending(t)
  PROVE  Switch!Finish(t)
<1>1. /\ pc' = [pc EXCEPT ![t] = "idle"] /\ req' = [req EXCEPT ![t] = NoReq]
      /\ api' = [api EXCEPT ![t] = api[t]] /\ SocketApi' = SocketApi
      /\ pc[t] = "refused" \/ (pc[t] = "called" /\ api[t] \in Apis)
  BY DEF Ending, Refused, ApiCreates, ApiCloses, ApiAnswers, InApi, Return, TypeInv, TypeOK
<1>2. Serving(t) # "none"
  BY <1>1, MuxAssumption DEF Serving
<1>3. Serving(t)' = "none"
  BY <1>1 DEF Serving, TypeInv, TypeOK
<1>4. [u \in Threads |-> Serving(u)]' = [[u \in Threads |-> Serving(u)] EXCEPT ![t] = Serving(t)']
  BY <1>1, OthersServed
<1>. QED  BY <1>1, <1>2, <1>3, <1>4 DEF Switch!Finish

LEMMA SwitchStep == TypeInv /\ [Next]_vars => [Switch!Next]_(Switch!vars)
<1>. SUFFICES ASSUME TypeInv, [Next]_vars PROVE [Switch!Next]_(Switch!vars)
  OBVIOUS
<1>1. CASE Next
  BY <1>1, StepCases, SwitchRegister, SwitchBegin, SwitchDispatch, SwitchEnding DEF Switch!Next
<1>2. CASE UNCHANGED vars
  BY <1>2 DEF vars, Switch!vars, Serving
<1>. QED  BY <1>1, <1>2

(* Every behaviour of the multiplexer is one of ApiSwitch: a call is       *)
(* served by an API that was registered at one moment of it, however often *)
(* SocketApi is loaded and whichever APIs, not NULL, are registered        *)
(* meanwhile.                                                              *)
THEOREM SwitchIsImplemented == Spec => ImplementsSwitch
  BY SwitchInit, SwitchStep, TypesAreKept, PTL DEF Spec, Switch!Spec, ImplementsSwitch

-----------------------------------------------------------------------------
(***************************************************************************)
(* An application that retargets when it is drained.  OwnersServe speaks   *)
(* of the called API alone; what makes it hold is that every socket about, *)
(* held or passed, belongs to the API that is registered, and that a call  *)
(* has loaded this one.                                                    *)
(***************************************************************************)
OwnersInv ==
  rule = "drained" =>
    /\ \A s \in held : s.owner = SocketApi
    /\ \A t \in Threads : pc[t] # "idle" /\ req[t].sock # NoSock => req[t].sock.owner = SocketApi
    /\ \A t \in Threads : pc[t] \in {"tested", "called"} => api[t] = SocketApi

LEMMA OwnersInit == Init => OwnersInv /\ NoSocketStranded
  BY DEF Init, OwnersInv, NoSocketStranded

LEMMA OwnersRegister ==
  ASSUME TypeInv, OwnersInv, NEW a \in Apis \cup {Null}, Register(a)
  PROVE  OwnersInv'
<1>1. rule = "drained" => Quiet /\ held = {}
  BY DEF Register, MayRegister
<1>. QED  BY <1>1 DEF Register, Quiet, OwnersInv, TypeInv, TypeOK

LEMMA OwnersBegin ==
  ASSUME TypeInv, OwnersInv,
         NEW t \in Threads, NEW op \in Ops, NEW s \in held \cup {NoSock}, Begin(t, op, s)
  PROVE  OwnersInv'
  BY DEF Begin, Test, OwnersInv, TypeInv, TypeOK

LEMMA OwnersDispatch ==
  ASSUME TypeInv, OwnersInv, NEW t \in Threads, Dispatch(t)
  PROVE  OwnersInv'
  BY DEF Dispatch, OwnersInv, TypeInv, TypeOK

LEMMA OwnersEnding ==
  ASSUME TypeInv, OwnersInv, NEW t \in Threads, Ending(t)
  PROVE  OwnersInv'
<1>1. Return(t)
  BY DEF Ending, Refused, ApiCreates, ApiCloses, ApiAnswers
<1>2. rule = "drained" => \A s \in held' : s.owner = SocketApi
  <2>1. CASE ApiCreates(t)
    BY <2>1 DEF ApiCreates, InApi, OwnersInv
  <2>2. CASE ApiCloses(t)
    BY <2>2 DEF ApiCloses, OwnersInv
  <2>3. CASE Refused(t) \/ ApiAnswers(t)
    BY <2>3 DEF Refused, ApiAnswers, OwnersInv
  <2>. QED  BY <2>1, <2>2, <2>3 DEF Ending
<1>. QED  BY <1>1, <1>2 DEF Return, OwnersInv, TypeInv, TypeOK

LEMMA OwnersStep == TypeInv /\ OwnersInv /\ [Next]_vars => OwnersInv'
<1>. SUFFICES ASSUME TypeInv, OwnersInv, [Next]_vars PROVE OwnersInv'
  OBVIOUS
<1>1. CASE Next
  BY <1>1, StepCases, OwnersRegister, OwnersBegin, OwnersDispatch, OwnersEnding
<1>2. CASE UNCHANGED vars
  BY <1>2 DEF vars, OwnersInv
<1>. QED  BY <1>1, <1>2

(* Every operation on a socket is served by the API that created it, if    *)
(* the application retargets only with no socket open and no call running. *)
THEOREM OwnersAlwaysServe == Spec => []OwnersServe
<1>1. OwnersInv => OwnersServe
  BY DEF OwnersInv, OwnersServe
<1>. QED  BY <1>1, OwnersInit, OwnersStep, TypesAreKept, PTL DEF Spec

(* The sockets of an API and those the application holds of it.            *)
LEMMA StrandedEnding ==
  ASSUME TypeInv, OwnersInv, NoSocketStranded, NEW t \in Threads, Ending(t)
  PROVE  NoSocketStranded'
<1>. SUFFICES ASSUME rule = "drained", NEW a \in Apis
              PROVE  open'[a] = {s.num : s \in {h \in held' : h.owner = a}}
  BY DEF NoSocketStranded, Ending, Refused, ApiCreates, ApiCloses, ApiAnswers, Return
<1>0. open[a] = {s.num : s \in {h \in held : h.owner = a}}
  BY DEF NoSocketStranded
<1>1. CASE ApiCreates(t)
  <2>1. PICK n \in Numbers : /\ open' = [open EXCEPT ![api[t]] = @ \cup {n}]
                             /\ held' = held \cup {[owner |-> api[t], num |-> n]}
    BY <1>1 DEF ApiCreates
  <2>2. CASE a = api[t]
    <3>1. open'[a] = open[a] \cup {n}
      BY <2>1, <2>2 DEF TypeInv, TypeOK
    <3>2. {h \in held' : h.owner = a} = {h \in held : h.owner = a} \cup {[owner |-> a, num |-> n]}
      BY <2>1, <2>2
    <3>3. ASSUME NEW H
          PROVE  {s.num : s \in H \cup {[owner |-> a, num |-> n]}} = {s.num : s \in H} \cup {n}
      <4>. DEFINE new == [owner |-> a, num |-> n]
      <4>1. new.num = n
        OBVIOUS
      <4>. HIDE DEF new
      <4>2. {s.num : s \in H \cup {new}} = {s.num : s \in H} \cup {new.num}
        BY Zenon
      <4>. QED  BY <4>1, <4>2 DEF new
    <3>. QED  BY <1>0, <3>1, <3>2, <3>3
  <2>3. CASE a # api[t]
    <3>1. open'[a] = open[a]
      BY <2>1, <2>3 DEF TypeInv, TypeOK
    <3>2. {h \in held' : h.owner = a} = {h \in held : h.owner = a}
      BY <2>1, <2>3
    <3>. QED  BY <1>0, <3>1, <3>2
  <2>. QED  BY <2>2, <2>3
<1>2. CASE ApiCloses(t)
  <2>1. /\ open' = [open EXCEPT ![api[t]] = @ \ {req[t].sock.num}]
        /\ held' = held \ {req[t].sock}
        /\ req[t].sock.num \in open[api[t]]
    BY <1>2 DEF ApiCloses, Known
  <2>2. api[t] \in Apis /\ api[t] = SocketApi
    BY <1>2 DEF ApiCloses, InApi, OwnersInv
  <2>3. req[t].sock \in Sockets /\ req[t].sock.owner = SocketApi
    <3>1. NoSock.num \notin Numbers
      BY DEF NoSock, Numbers, ESOCK
    <3>2. req[t].sock # NoSock
      BY <2>1, <2>2, <3>1 DEF TypeInv, TypeOK
    <3>. QED  BY <1>2, <3>2 DEF ApiCloses, InApi, OwnersInv, TypeInv, TypeOK
  <2>4. CASE a = SocketApi
    <3>1. open'[a] = open[a] \ {req[t].sock.num}
      BY <2>1, <2>2, <2>4 DEF TypeInv, TypeOK
    <3>2. \A h \in held : h.owner = a /\ h.num = req[t].sock.num => h = req[t].sock
      BY <2>3, <2>4 DEF TypeInv, TypeOK, Sockets
    <3>. QED  BY <1>0, <2>1, <2>3, <2>4, <3>1, <3>2
  <2>5. CASE a # SocketApi
    <3>1. open'[a] = open[a]
      BY <2>1, <2>2, <2>5 DEF TypeInv, TypeOK
    <3>2. {h \in held' : h.owner = a} = {h \in held : h.owner = a}
      BY <2>1, <2>3, <2>5
    <3>. QED  BY <1>0, <3>1, <3>2
  <2>. QED  BY <2>4, <2>5
<1>3. CASE Refused(t) \/ ApiAnswers(t)
  BY <1>0, <1>3 DEF Refused, ApiAnswers
<1>. QED  BY <1>1, <1>2, <1>3 DEF Ending

LEMMA StrandedStep ==
  TypeInv /\ OwnersInv /\ NoSocketStranded /\ [Next]_vars => NoSocketStranded'
<1>. SUFFICES ASSUME TypeInv, OwnersInv, NoSocketStranded, [Next]_vars PROVE NoSocketStranded'
  OBVIOUS
<1>1. CASE UNCHANGED <<open, held, rule>>
  BY <1>1 DEF NoSocketStranded
<1>2. CASE \E t \in Threads : Ending(t)
  BY <1>2, StrandedEnding
<1>3. CASE Next /\ ~\E t \in Threads : Ending(t)
  BY <1>1, <1>3, StepCases DEF Register, Begin, Dispatch
<1>. QED  BY <1>1, <1>2, <1>3 DEF vars

(* With the same discipline the application holds exactly the sockets that *)
(* are open: retargeting strands none and closes none.                     *)
THEOREM NoSocketIsStranded == Spec => []NoSocketStranded
<1>1. Init => OwnersInv /\ NoSocketStranded
  BY OwnersInit
<1>. QED  BY <1>1, OwnersStep, StrandedStep, TypesAreKept, PTL DEF Spec
=============================================================================
