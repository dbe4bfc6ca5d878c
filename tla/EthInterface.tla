---------------------------- MODULE EthInterface ----------------------------
(***************************************************************************)
(* layer/FreeRTOS_Plus_TCP/NetworkInterface.c: the Ethernet interface      *)
(* below FreeRTOS+TCP.                                                     *)
(*                                                                         *)
(* Four parties: the MAC driver with its receive queue, the interrupt that *)
(* calls ETH_MAC_SignalEvent, the thread ETH_Thread that moves frames into *)
(* network buffers, and the IP task that starts the interface, takes the   *)
(* buffers out of the event queue and sends.  Every call of a driver, an   *)
(* RTOS or a stack function is one step.                                   *)
(***************************************************************************)
EXTENDS Integers, Sequences, FiniteSets

CONSTANTS
  Buffers,     (* network buffer descriptors (60 in FreeRTOSIPConfig.h)    *)
  NoBuf,       (* the NULL pointer, and an event without a buffer          *)
  QLen,        (* ipconfigEVENT_QUEUE_LENGTH                               *)
  MacSlots,    (* bound: frames the MAC queues                             *)
  MaxFrames,   (* bound: frames that arrive in a behaviour                 *)
  SlowLink,    (* TRUE: the link comes up only after the interface started *)
  ReadErrors   (* TRUE: the driver's ReadFrame may answer an error code    *)

ASSUME BufAssumption   == NoBuf \notin Buffers
ASSUME QLenAssumption  == QLen \in Nat \ {0}
ASSUME BoundAssumption == MacSlots \in Nat /\ MaxFrames \in Nat
ASSUME ModeAssumption  == SlowLink \in BOOLEAN /\ ReadErrors \in BOOLEAN

VARIABLES
  started,   (* the IP task in xNetworkInterfaceInitialise: "no",          *)
             (* "created" (osThreadNew has run), "yes" (ETH_tid is set)    *)
  link,      (* the PHY sees a link                                        *)
  rxOn,      (* the receiver of the MAC is enabled                         *)
  rxq,       (* received frames in the MAC                                 *)
  count,     (* number of frames received so far                           *)
  irq,       (* a receive interrupt is pending                             *)
  flag,      (* thread flag 0x0001 of ETH_Thread                           *)
  pc, buf,   (* ETH_Thread: where it is, pxBufferDescriptor                *)
  free,      (* buffers in the pool                                        *)
  content,   (* the frame a buffer holds, 0 for anything else              *)
  evq,       (* the event queue of the IP task                             *)
  ipBuf,     (* the buffer the IP task works on                            *)
  received   (* history: what the IP task was given, in order              *)

thread == <<pc, buf>>
mac    == <<rxOn, rxq, count, irq>>
stack  == <<evq, ipBuf, received>>
vars   == <<started, link, mac, flag, thread, free, content, stack>>

(* A frame is worth processing ("good"), is filtered by                    *)
(* eConsiderFrameForProcessing, or has a size no buffer can be got for.    *)
Kinds  == {"good", "filtered", "invalid"}
Frame  == [id : 1 .. MaxFrames, kind : Kinds]
Pcs    == {"none", "link", "wait", "size", "alloc", "read", "send", "dump", "release"}

Init == /\ started = "no"
        /\ link = FALSE
        /\ rxOn = FALSE /\ rxq = << >> /\ count = 0 /\ irq = FALSE
        /\ flag = FALSE
        /\ pc = "none" /\ buf = NoBuf
        /\ free = Buffers
        /\ content = [b \in Buffers |-> 0]
        /\ evq = << >> /\ ipBuf = NoBuf /\ received = << >>

(***************************************************************************)
(* The PHY, the MAC and the interrupt.                                     *)
(***************************************************************************)
LinkChanges ==
  /\ SlowLink => started = "yes"
  /\ link' = ~link
  /\ UNCHANGED <<started, mac, flag, thread, free, content, stack>>

FrameArrives ==
  /\ rxOn
  /\ count < MaxFrames /\ Len(rxq) < MacSlots
  /\ count' = count + 1
  /\ \E k \in Kinds : rxq' = Append(rxq, [id |-> count', kind |-> k])
  /\ irq' = TRUE
  /\ UNCHANGED <<started, link, rxOn, flag, thread, free, content, stack>>

(* ETH_MAC_SignalEvent with RX_FRAME: osThreadFlagsSet (ETH_tid, 0x0001),  *)
(* which fails as long as ETH_tid is NULL.                                 *)
ETH_MAC_SignalEvent ==
  /\ irq
  /\ irq' = FALSE
  /\ flag' = (flag \/ started = "yes")
  /\ UNCHANGED <<started, link, rxOn, rxq, count, thread, free, content, stack>>

(***************************************************************************)
(* xNetworkInterfaceInitialise, executed by the IP task.  When one of the  *)
(* driver calls or osThreadNew fails, it reports pdFALSE, nothing here has *)
(* changed and the stack calls it again later.  Otherwise the thread       *)
(* exists, and may run, before osThreadNew returns and ETH_tid is set.     *)
(***************************************************************************)
CreateThread ==
  /\ started = "no"
  /\ started' = "created"
  /\ pc' = "link"
  /\ UNCHANGED <<link, mac, flag, buf, free, content, stack>>

SetTid ==
  /\ started = "created"
  /\ started' = "yes"
  /\ UNCHANGED <<link, mac, flag, thread, free, content, stack>>

(***************************************************************************)
(* ETH_Thread.                                                             *)
(***************************************************************************)

(* The link loop.  Without a link the thread sleeps and asks again; with   *)
(* one the MAC is configured and, if that works, enabled.  The loop ends   *)
(* either way.                                                             *)
LinkUp ==
  /\ pc = "link" /\ link
  /\ pc' = "wait"
  /\ rxOn' \in BOOLEAN
  /\ UNCHANGED <<started, link, rxq, count, irq, flag, buf, free, content, stack>>

(* osThreadFlagsWait clears the flag it waited for.                        *)
FlagsWait ==
  /\ pc = "wait" /\ flag
  /\ flag' = FALSE
  /\ pc' = "size"
  /\ UNCHANGED <<started, link, mac, buf, free, content, stack>>

GetRxFrameSize ==
  /\ pc = "size"
  /\ pc' = IF rxq = << >> THEN "wait" ELSE "alloc"
  /\ UNCHANGED <<started, link, mac, flag, buf, free, content, stack>>

GetNetworkBuffer ==
  /\ pc = "alloc"
  /\ \/ /\ Head(rxq).kind # "invalid"
        /\ \E b \in free : buf' = b /\ free' = free \ {b}
        /\ pc' = "read"
     \/ /\ Head(rxq).kind = "invalid" \/ free = {}
        /\ buf' = NoBuf /\ free' = free
        /\ pc' = "dump"
  /\ UNCHANGED <<started, link, mac, flag, content, stack>>

ReadFrameZero ==   \* mutant: rval >= 0, nothing read counts as a frame
  /\ pc = "read"
  /\ \/ /\ content' = [content EXCEPT ![buf] = Head(rxq).id]
        /\ rxq' = Tail(rxq)
        /\ pc' = IF Head(rxq).kind = "good" THEN "send" ELSE "release"
     \/ /\ pc' \in {"send", "release"}
        /\ UNCHANGED <<content, rxq>>
  /\ UNCHANGED <<started, link, rxOn, count, irq, flag, buf, free, stack>>

(* ReadFrame and the tests of its result: the number of bytes, 0, or an    *)
(* error code.  The test is rval > 0U: an error code, converted to         *)
(* unsigned, passes it, and what is considered is what the buffer held.    *)
ReadFrame ==
  /\ pc = "read"
  /\ \/ /\ content' = [content EXCEPT ![buf] = Head(rxq).id]
        /\ rxq' = Tail(rxq)
        /\ pc' = IF Head(rxq).kind = "good" THEN "send" ELSE "release"
     \/ /\ pc' = "dump"
        /\ UNCHANGED <<content, rxq>>
     \/ /\ ReadErrors
        /\ pc' \in {"send", "release"}
        /\ UNCHANGED <<content, rxq>>
  /\ UNCHANGED <<started, link, rxOn, count, irq, flag, buf, free, stack>>

(* Mutants of SendEvent: the buffer is released although it was sent, the  *)
(* result is not looked at, a buffer that was not sent is not released.    *)
SendEventReleases ==
  /\ pc = "send"
  /\ evq' = IF Len(evq) < QLen THEN Append(evq, buf) ELSE evq
  /\ pc' = "release"
  /\ UNCHANGED <<started, link, mac, flag, buf, free, content, ipBuf, received>>

SendEventUnchecked ==
  /\ pc = "send"
  /\ evq' = Append(evq, buf)
  /\ pc' = "size" /\ buf' = NoBuf
  /\ UNCHANGED <<started, link, mac, flag, free, content, ipBuf, received>>

SendEventLeaks ==
  /\ pc = "send"
  /\ evq' = IF Len(evq) < QLen THEN Append(evq, buf) ELSE evq
  /\ pc' = "size" /\ buf' = NoBuf
  /\ UNCHANGED <<started, link, mac, flag, free, content, ipBuf, received>>

(* xSendEventStructToIPTask with timeout 0.                                *)
SendEvent ==
  /\ pc = "send"
  /\ \/ /\ Len(evq) < QLen
        /\ evq' = Append(evq, buf)
        /\ pc' = "size" /\ buf' = NoBuf
     \/ /\ Len(evq) >= QLen
        /\ pc' = "release"
        /\ UNCHANGED <<evq, buf>>
  /\ UNCHANGED <<started, link, mac, flag, free, content, ipBuf, received>>

DumpFrameKeeps ==   \* mutant: the frame is not discarded
  /\ pc = "dump"
  /\ pc' = IF buf = NoBuf THEN "size" ELSE "release"
  /\ UNCHANGED <<started, link, mac, flag, buf, free, content, stack>>

(* ReadFrame (NULL, 0) discards the frame.                                 *)
DumpFrame ==
  /\ pc = "dump"
  /\ rxq' = Tail(rxq)
  /\ pc' = IF buf = NoBuf THEN "size" ELSE "release"
  /\ UNCHANGED <<started, link, rxOn, count, irq, flag, buf, free, content, stack>>

ReleaseBufferWaits ==   \* mutant: one frame for each event
  /\ pc = "release"
  /\ free' = free \cup {buf}
  /\ buf' = NoBuf
  /\ pc' = "wait"
  /\ UNCHANGED <<started, link, mac, flag, content, stack>>

ReleaseBuffer ==
  /\ pc = "release"
  /\ free' = free \cup {buf}
  /\ buf' = NoBuf
  /\ pc' = "size"
  /\ UNCHANGED <<started, link, mac, flag, content, stack>>

(***************************************************************************)
(* The IP task and the tasks of the application (external).                *)
(***************************************************************************)

(* Another task posts an event that carries no buffer.                     *)
OtherEvent ==
  /\ started = "yes"
  /\ Len(evq) < QLen
  /\ evq' = Append(evq, NoBuf)
  /\ UNCHANGED <<started, link, mac, flag, thread, free, content, ipBuf, received>>

TakeEvent ==
  /\ started = "yes"
  /\ evq # << >> /\ ipBuf = NoBuf
  /\ evq' = Tail(evq)
  /\ ipBuf' = Head(evq)
  /\ received' = IF Head(evq) = NoBuf THEN received
                                      ELSE Append(received, content[Head(evq)])
  /\ UNCHANGED <<started, link, mac, flag, thread, free, content>>

(* The IP task gets a buffer for a packet of its own.                      *)
NewPacket ==
  /\ started = "yes"
  /\ ipBuf = NoBuf
  /\ \E b \in free : /\ ipBuf' = b
                     /\ free' = free \ {b}
                     /\ content' = [content EXCEPT ![b] = 0]
  /\ UNCHANGED <<started, link, mac, flag, thread, evq, received>>

(* xNetworkInterfaceOutput releases the buffer after SendFrame, whether    *)
(* the frame was sent or not, when it is asked to; otherwise, and when     *)
(* nothing is sent, the IP task releases it.                               *)
Output ==
  /\ ipBuf # NoBuf
  /\ free' = free \cup {ipBuf}
  /\ ipBuf' = NoBuf
  /\ UNCHANGED <<started, link, mac, flag, thread, content, evq, received>>

(***************************************************************************)
(* The specification.                                                      *)
(***************************************************************************)
ETH_Thread == \/ LinkUp \/ FlagsWait \/ GetRxFrameSize \/ GetNetworkBuffer
              \/ ReadFrame \/ SendEvent \/ DumpFrame \/ ReleaseBuffer

IPTask == CreateThread \/ SetTid \/ TakeEvent \/ NewPacket \/ Output

Environment == LinkChanges \/ FrameArrives \/ OtherEvent

Next == ETH_Thread \/ ETH_MAC_SignalEvent \/ IPTask \/ Environment

Spec == Init /\ [][Next]_vars

(* A pending interrupt is served, and the ETH thread, which has a high     *)
(* priority, runs when it is ready.                                        *)
FairSpec == Spec /\ WF_vars(ETH_Thread) /\ WF_vars(ETH_MAC_SignalEvent)

-----------------------------------------------------------------------------
(***************************************************************************)
(* Properties.                                                             *)
(***************************************************************************)
InRange(b, q) == \E i \in 1 .. Len(q) : q[i] = b

TypeOK == /\ started \in {"no", "created", "yes"}
          /\ link \in BOOLEAN /\ rxOn \in BOOLEAN /\ irq \in BOOLEAN /\ flag \in BOOLEAN
          /\ rxq \in Seq(Frame) /\ count \in 0 .. MaxFrames
          /\ pc \in Pcs /\ buf \in Buffers \cup {NoBuf}
          /\ free \in SUBSET Buffers
          /\ content \in [Buffers -> 0 .. MaxFrames]
          /\ evq \in Seq(Buffers \cup {NoBuf}) /\ Len(evq) <= QLen
          /\ ipBuf \in Buffers \cup {NoBuf}
          /\ received \in Seq(0 .. MaxFrames)

(* Every network buffer has exactly one owner: the pool, ETH_Thread, the   *)
(* event queue (in one place) or the IP task.  None leaks on any path of   *)
(* the receive loop, none is released twice or used after its release.     *)
EthHolds(b) == pc \in {"read", "send", "dump", "release"} /\ buf = b
Queued(b)   == InRange(b, evq)

BuffersConserved ==
  \A b \in Buffers :
    /\ b \in free \/ EthHolds(b) \/ Queued(b) \/ ipBuf = b
    /\ b \in free  => ~EthHolds(b) /\ ~Queued(b) /\ ipBuf # b
    /\ EthHolds(b) => ~Queued(b) /\ ipBuf # b
    /\ Queued(b)   => ipBuf # b
    /\ \A i, j \in 1 .. Len(evq) : evq[i] = b /\ evq[j] = b => i = j

(* A frame in the MAC is never forgotten: while the thread sleeps on its   *)
(* flag with a frame to read, the flag is set or will be by the interrupt  *)
(* ("Frame received, wake up the worker thread").                          *)
NoLostWakeup == (pc = "wait" /\ rxq # << >>) => flag \/ irq

(* The stack is given frames that were received, each once, in order.      *)
FramesInOrder ==
  /\ \A i \in 1 .. Len(received) : received[i] > 0
  /\ \A i, j \in 1 .. Len(received) : i < j => received[i] < received[j]

(* Every frame leaves the MAC.                                             *)
InMac(f) == \E i \in 1 .. Len(rxq) : rxq[i].id = f

MacDrained == \A f \in 1 .. MaxFrames : InMac(f) ~> ~InMac(f)

(* The interface implements a channel that may lose frames.  On the way    *)
(* are the frames in queued buffers, the one ETH_Thread is about to send,  *)
(* and those in the MAC.                                                   *)
Carried(q, c) ==   \* by the first i events of q, when the buffers hold c
  LET f[i \in 0 .. Len(q)] == IF i = 0 THEN << >>
                              ELSE IF q[i] = NoBuf THEN f[i - 1]
                              ELSE Append(f[i - 1], c[q[i]])
  IN  f

InQueue == Carried(evq, content)[Len(evq)]
InHand  == IF pc = "send" THEN <<content[buf]>> ELSE << >>
AtMac == [i \in 1 .. Len(rxq) |-> rxq[i].id]

OnTheWay == InQueue \o InHand \o AtMac

Channel == INSTANCE FrameChannel WITH Frames <- 1 .. MaxFrames, chan <- OnTheWay, out <- received

ImplementsChannel == Channel!Spec
=============================================================================
