------------------------- MODULE EthInterfaceProofs -------------------------
(***************************************************************************)
(* Proofs about EthInterface: for every number of buffers and frames, and  *)
(* every length of the event queue.                                        *)
(***************************************************************************)
EXTENDS EthInterface, TLAPS, SequenceTheorems, WellFoundedInduction

(* Where the thread is tells what it has: a frame at the head of the MAC's *)
(* queue until it read or discarded it, a buffer from allocation on.       *)
Hand ==
  /\ pc \in {"alloc", "read", "dump"} => rxq # << >>
  /\ pc \in {"read", "send", "release"} => buf # NoBuf
  /\ pc \in {"none", "link"} => ~rxOn
  /\ rxq # << >> => rxOn
  /\ irq => rxOn
  /\ started = "no" <=> pc = "none"

-----------------------------------------------------------------------------
LEMMA AppendRange ==
  ASSUME NEW S, NEW q \in Seq(S), NEW e \in S
  PROVE  /\ Append(q, e) \in Seq(S)
         /\ Append(q, e) # << >>
         /\ Len(q) \in Nat
         /\ Len(Append(q, e)) = Len(q) + 1
         /\ \A i \in 1 .. Len(q) : Append(q, e)[i] = q[i]
         /\ Append(q, e)[Len(q) + 1] = e
         /\ 1 .. Len(Append(q, e)) = 1 .. Len(q) \cup {Len(q) + 1}
<1>1. Len(Append(q, e)) = Len(q) + 1 /\ Len(q) \in Nat  OBVIOUS
<1>2. 1 .. Len(Append(q, e)) = 1 .. Len(q) \cup {Len(q) + 1}  BY <1>1
<1>3. QED  BY <1>2

LEMMA TailRange ==
  ASSUME NEW S, NEW q \in Seq(S), q # << >>
  PROVE  /\ Tail(q) \in Seq(S) /\ Head(q) \in S /\ Head(q) = q[1]
         /\ Len(Tail(q)) = Len(q) - 1 /\ Len(q) \in Nat \ {0}
         /\ \A i \in 1 .. Len(Tail(q)) : Tail(q)[i] = q[i + 1]
OBVIOUS

-----------------------------------------------------------------------------
(***************************************************************************)
(* Type correctness.                                                       *)
(***************************************************************************)
LEMMA InitType == Init => TypeOK /\ Hand
<1> SUFFICES ASSUME Init PROVE TypeOK /\ Hand
  OBVIOUS
<1>1. content \in [Buffers -> 0 .. MaxFrames]  BY BoundAssumption DEF Init
<1>2. /\ << >> \in Seq(Frame) /\ << >> \in Seq(0 .. MaxFrames)
      /\ << >> \in Seq(Buffers \cup {NoBuf}) /\ Len(<< >>) = 0
  OBVIOUS
<1>3. rxq \in Seq(Frame) /\ evq \in Seq(Buffers \cup {NoBuf}) /\ received \in Seq(0 .. MaxFrames)
  BY <1>2, Zenon DEF Init
<1>4. Len(evq) <= QLen /\ count \in 0 .. MaxFrames
  BY <1>2, QLenAssumption, BoundAssumption DEF Init
<1>5. TypeOK  BY <1>1, <1>3, <1>4 DEF Init, TypeOK, Pcs
<1>6. Hand  BY DEF Init, Hand
<1>7. QED  BY <1>5, <1>6

LEMMA ThreadType == ASSUME TypeOK, Hand, ETH_Thread PROVE TypeOK' /\ Hand'
<1> USE DEF TypeOK, Hand, Pcs, thread, mac, stack
<1>1. CASE LinkUp  BY <1>1 DEF LinkUp
<1>2. CASE FlagsWait  BY <1>2 DEF FlagsWait
<1>3. CASE GetRxFrameSize  BY <1>3 DEF GetRxFrameSize
<1>4. CASE GetNetworkBuffer  BY <1>4, BufAssumption DEF GetNetworkBuffer
<1>5. CASE ReadFrame
  <2>1. Tail(rxq) \in Seq(Frame) /\ Head(rxq) \in Frame  BY <1>5, TailRange DEF ReadFrame
  <2>2. Head(rxq).id \in 0 .. MaxFrames  BY <2>1, BoundAssumption DEF Frame
  <2>3. QED  BY <1>5, <2>1, <2>2 DEF ReadFrame
<1>6. CASE SendEvent
  <2>1. ASSUME Len(evq) < QLen
        PROVE  Append(evq, buf) \in Seq(Buffers \cup {NoBuf}) /\ Len(Append(evq, buf)) <= QLen
    BY <2>1, AppendRange, QLenAssumption
  <2>2. QED  BY <1>6, <2>1 DEF SendEvent
<1>7. CASE DumpFrame
  <2>1. Tail(rxq) \in Seq(Frame)  BY <1>7, TailRange DEF DumpFrame
  <2>2. QED  BY <1>7, <2>1 DEF DumpFrame
<1>8. CASE ReleaseBuffer  BY <1>8 DEF ReleaseBuffer
<1>9. QED  BY <1>1, <1>2, <1>3, <1>4, <1>5, <1>6, <1>7, <1>8 DEF ETH_Thread

LEMMA OthersType ==
  ASSUME TypeOK, Hand, ETH_MAC_SignalEvent \/ IPTask \/ Environment
  PROVE  TypeOK' /\ Hand'
<1> USE DEF TypeOK, Hand, Pcs, thread, mac, stack
<1>1. CASE ETH_MAC_SignalEvent  BY <1>1 DEF ETH_MAC_SignalEvent
<1>2. CASE CreateThread  BY <1>2 DEF CreateThread
<1>3. CASE SetTid  BY <1>3 DEF SetTid
<1>4. CASE TakeEvent
  <2>1. /\ Tail(evq) \in Seq(Buffers \cup {NoBuf}) /\ Head(evq) \in Buffers \cup {NoBuf}
        /\ Len(Tail(evq)) <= QLen
    BY <1>4, TailRange, QLenAssumption DEF TakeEvent
  <2>2. Head(evq) # NoBuf => content[Head(evq)] \in 0 .. MaxFrames  BY <2>1
  <2>3. received' \in Seq(0 .. MaxFrames)  BY <1>4, <2>2, AppendRange DEF TakeEvent
  <2>4. QED  BY <1>4, <2>1, <2>3 DEF TakeEvent
<1>5. CASE NewPacket  BY <1>5, BoundAssumption DEF NewPacket
<1>6. CASE Output  BY <1>6 DEF Output
<1>7. CASE LinkChanges  BY <1>7 DEF LinkChanges
<1>8. CASE FrameArrives
  <2>1. count' \in 1 .. MaxFrames  BY <1>8, BoundAssumption DEF FrameArrives
  <2>2. PICK k \in Kinds : rxq' = Append(rxq, [id |-> count', kind |-> k])
    BY <1>8 DEF FrameArrives
  <2>3. rxq' \in Seq(Frame) /\ rxq' # << >>  BY <2>1, <2>2, AppendRange DEF Frame
  <2>4. QED  BY <1>8, <2>1, <2>3 DEF FrameArrives
<1>9. CASE OtherEvent
  <2>1. Append(evq, NoBuf) \in Seq(Buffers \cup {NoBuf}) /\ Len(Append(evq, NoBuf)) <= QLen
    BY <1>9, AppendRange, QLenAssumption DEF OtherEvent
  <2>2. QED  BY <1>9, <2>1 DEF OtherEvent
<1>10. QED
  BY <1>1, <1>2, <1>3, <1>4, <1>5, <1>6, <1>7, <1>8, <1>9 DEF IPTask, Environment

LEMMA TypeStep == TypeOK /\ Hand /\ [Next]_vars => TypeOK' /\ Hand'
<1> SUFFICES ASSUME TypeOK, Hand, [Next]_vars PROVE TypeOK' /\ Hand'
  OBVIOUS
<1>1. CASE Next  BY <1>1, ThreadType, OthersType DEF Next
<1>2. CASE UNCHANGED vars
  BY <1>2 DEF vars, mac, thread, stack, TypeOK, Hand
<1>3. QED  BY <1>1, <1>2

(* Every variable keeps its type, and the thread has what its place in the *)
(* receive loop says: a frame to read, a buffer to fill, send or release.  *)
THEOREM TypeCorrect == Spec => [](TypeOK /\ Hand)
<1>1. QED  BY InitType, TypeStep, PTL DEF Spec

-----------------------------------------------------------------------------
(***************************************************************************)
(* Ownership of the buffers.                                               *)
(***************************************************************************)
Types == TypeOK /\ Hand

(* Only these four pieces of state say who owns a buffer.                  *)
LEMMA OwnersUnchanged ==
  ASSUME BuffersConserved, free' = free, evq' = evq, ipBuf' = ipBuf,
         \A b \in Buffers : EthHolds(b)' = EthHolds(b)
  PROVE  BuffersConserved'
BY DEF BuffersConserved, Queued, InRange

LEMMA ThreadConserves ==
  ASSUME Types, BuffersConserved, ETH_Thread
  PROVE  BuffersConserved'
<1> USE DEF Types, TypeOK, Hand, thread, mac, stack
<1>1. CASE LinkUp  BY <1>1, OwnersUnchanged DEF LinkUp, EthHolds
<1>2. CASE FlagsWait  BY <1>2, OwnersUnchanged DEF FlagsWait, EthHolds
<1>3. CASE GetRxFrameSize  BY <1>3, OwnersUnchanged DEF GetRxFrameSize, EthHolds
<1>4. CASE GetNetworkBuffer
  <2>1. CASE buf' = NoBuf
    <3>1. free' = free /\ pc' = "dump" /\ pc = "alloc"
      BY <1>4, <2>1, BufAssumption DEF GetNetworkBuffer
    <3>2. \A b \in Buffers : EthHolds(b)' = EthHolds(b)
      BY <2>1, <3>1, BufAssumption DEF EthHolds
    <3>3. QED  BY <1>4, <3>1, <3>2, OwnersUnchanged DEF GetNetworkBuffer
  <2>2. CASE buf' # NoBuf
    <3>1. buf' \in free /\ free' = free \ {buf'} /\ pc' = "read" /\ pc = "alloc"
          /\ evq' = evq /\ ipBuf' = ipBuf
      BY <1>4, <2>2 DEF GetNetworkBuffer
    <3>2. \A b \in Buffers : EthHolds(b)' <=> b = buf'  BY <3>1 DEF EthHolds
    <3>3. \A b \in Buffers : ~EthHolds(b)  BY <3>1 DEF EthHolds
    <3>4. QED  BY <3>1, <3>2, <3>3 DEF BuffersConserved, Queued, InRange
  <2>3. QED  BY <2>1, <2>2
<1>5. CASE ReadFrame  BY <1>5, OwnersUnchanged DEF ReadFrame, EthHolds
<1>6. CASE SendEvent
  <2>1. CASE pc' = "release"
    <3>1. pc = "send" /\ buf' = buf /\ evq' = evq  BY <1>6, <2>1 DEF SendEvent
    <3>2. \A b \in Buffers : EthHolds(b)' = EthHolds(b)  BY <2>1, <3>1 DEF EthHolds
    <3>3. QED  BY <1>6, <3>1, <3>2, OwnersUnchanged DEF SendEvent
  <2>2. CASE pc' # "release"
    <3>1. /\ pc = "send" /\ buf \in Buffers
          /\ pc' = "size" /\ evq' = Append(evq, buf) /\ free' = free /\ ipBuf' = ipBuf
      BY <1>6, <2>2 DEF SendEvent
    <3>2. \A b \in Buffers : ~EthHolds(b)'  BY <3>1 DEF EthHolds
    <3>3. \A b \in Buffers : EthHolds(b) <=> b = buf  BY <3>1 DEF EthHolds
    <3>4. /\ Len(evq) \in Nat /\ Len(evq') = Len(evq) + 1
          /\ \A i \in 1 .. Len(evq) : evq'[i] = evq[i]
          /\ evq'[Len(evq) + 1] = buf
          /\ 1 .. Len(evq') = 1 .. Len(evq) \cup {Len(evq) + 1}
      BY <3>1, AppendRange
    <3>5. \A b \in Buffers : Queued(b)' <=> Queued(b) \/ b = buf
      BY <3>4 DEF Queued, InRange
    <3>6. ~Queued(buf)  BY <3>1, <3>3 DEF BuffersConserved
    <3>7. \A b \in Buffers : \A i, j \in 1 .. Len(evq') : evq'[i] = b /\ evq'[j] = b => i = j
      <4> SUFFICES ASSUME NEW b \in Buffers, NEW i \in 1 .. Len(evq'), NEW j \in 1 .. Len(evq'),
                          evq'[i] = b, evq'[j] = b
                   PROVE  i = j
        OBVIOUS
      <4>1. CASE b = buf
        <5>1. \A k \in 1 .. Len(evq) : evq'[k] # buf  BY <3>4, <3>6 DEF Queued, InRange
        <5>2. QED  BY <3>4, <4>1, <5>1
      <4>2. CASE b # buf
        <5>1. i \in 1 .. Len(evq) /\ j \in 1 .. Len(evq)  BY <3>4, <4>2
        <5>2. evq[i] = b /\ evq[j] = b  BY <3>4, <5>1
        <5>3. QED  BY <5>1, <5>2 DEF BuffersConserved
      <4>3. QED  BY <4>1, <4>2
    <3>8. QED  BY <3>1, <3>2, <3>3, <3>5, <3>7 DEF BuffersConserved
  <2>3. QED  BY <2>1, <2>2
<1>7. CASE DumpFrame
  <2>1. \A b \in Buffers : EthHolds(b)' = EthHolds(b)
    BY <1>7, BufAssumption DEF DumpFrame, EthHolds
  <2>2. QED  BY <1>7, <2>1, OwnersUnchanged DEF DumpFrame
<1>8. CASE ReleaseBuffer
  <2>1. /\ pc = "release" /\ pc' = "size" /\ buf \in Buffers
        /\ free' = free \cup {buf} /\ evq' = evq /\ ipBuf' = ipBuf
    BY <1>8 DEF ReleaseBuffer
  <2>2. \A b \in Buffers : ~EthHolds(b)' /\ (EthHolds(b) <=> b = buf)  BY <2>1 DEF EthHolds
  <2>3. QED  BY <2>1, <2>2 DEF BuffersConserved, Queued, InRange
<1>9. QED  BY <1>1, <1>2, <1>3, <1>4, <1>5, <1>6, <1>7, <1>8 DEF ETH_Thread

LEMMA OthersConserve ==
  ASSUME Types, BuffersConserved, ETH_MAC_SignalEvent \/ IPTask \/ Environment
  PROVE  BuffersConserved'
<1> USE DEF Types, TypeOK, Hand, thread, mac, stack
<1>1. CASE ETH_MAC_SignalEvent  BY <1>1, OwnersUnchanged DEF ETH_MAC_SignalEvent, EthHolds
<1>2. CASE CreateThread  BY <1>2, OwnersUnchanged DEF CreateThread, EthHolds
<1>3. CASE SetTid  BY <1>3, OwnersUnchanged DEF SetTid, EthHolds
<1>4. CASE TakeEvent
  <2>1. /\ evq' = Tail(evq) /\ ipBuf' = Head(evq) /\ ipBuf = NoBuf /\ free' = free
        /\ \A b \in Buffers : EthHolds(b)' = EthHolds(b)
    BY <1>4 DEF TakeEvent, EthHolds
  <2>2. /\ Head(evq) = evq[1] /\ Len(evq') = Len(evq) - 1 /\ Len(evq) \in Nat \ {0}
        /\ \A i \in 1 .. Len(evq') : evq'[i] = evq[i + 1]
    BY <1>4, <2>1, TailRange DEF TakeEvent
  <2>3. ASSUME NEW b \in Buffers PROVE Queued(b) <=> Queued(b)' \/ ipBuf' = b
    <3>1. ASSUME NEW i \in 1 .. Len(evq), evq[i] = b PROVE Queued(b)' \/ ipBuf' = b
      <4>1. CASE i = 1  BY <2>1, <2>2, <3>1, <4>1
      <4>2. CASE i # 1
        <5>1. i - 1 \in 1 .. Len(evq') /\ (i - 1) + 1 = i  BY <2>2, <4>2
        <5>2. evq'[i - 1] = evq[i]  BY <2>2, <5>1
        <5>3. QED  BY <3>1, <5>1, <5>2 DEF Queued, InRange
      <4>3. QED  BY <4>1, <4>2
    <3>2. ASSUME NEW i \in 1 .. Len(evq'), evq'[i] = b PROVE Queued(b)
      <4>1. i + 1 \in 1 .. Len(evq) /\ evq[i + 1] = b  BY <2>2, <3>2
      <4>2. QED  BY <4>1 DEF Queued, InRange
    <3>3. ipBuf' = b => Queued(b)
      <4>1. 1 \in 1 .. Len(evq)  BY <2>2
      <4>2. QED  BY <2>1, <2>2, <4>1 DEF Queued, InRange
    <3>4. QED  BY <3>1, <3>2, <3>3 DEF Queued, InRange
  <2>4. ASSUME NEW b \in Buffers, Queued(b)' PROVE ipBuf' # b
    <3>1. PICK i \in 1 .. Len(evq') : evq'[i] = b  BY <2>4 DEF Queued, InRange
    <3>2. i + 1 \in 1 .. Len(evq) /\ evq[i + 1] = b /\ 1 \in 1 .. Len(evq) /\ i + 1 # 1
      BY <2>2, <3>1
    <3>3. evq[1] # b  BY <3>2 DEF BuffersConserved
    <3>4. QED  BY <2>1, <2>2, <3>3
  <2>5. ASSUME NEW b \in Buffers, NEW i \in 1 .. Len(evq'), NEW j \in 1 .. Len(evq'),
               evq'[i] = b, evq'[j] = b
        PROVE  i = j
    <3>1. /\ i + 1 \in 1 .. Len(evq) /\ evq[i + 1] = b
          /\ j + 1 \in 1 .. Len(evq) /\ evq[j + 1] = b
      BY <2>2, <2>5
    <3>2. i + 1 = j + 1  BY <3>1 DEF BuffersConserved
    <3>3. QED  BY <3>2
  <2>6. QED  BY <2>1, <2>3, <2>4, <2>5, BufAssumption DEF BuffersConserved
<1>5. CASE NewPacket
  <2>1. PICK b \in free : ipBuf' = b /\ free' = free \ {b}  BY <1>5 DEF NewPacket
  <2>2. /\ evq' = evq /\ ipBuf = NoBuf
        /\ \A x \in Buffers : EthHolds(x)' = EthHolds(x)
    BY <1>5 DEF NewPacket, EthHolds
  <2>3. QED  BY <2>1, <2>2, BufAssumption DEF BuffersConserved, Queued, InRange
<1>6. CASE Output
  <2>1. /\ free' = free \cup {ipBuf} /\ ipBuf' = NoBuf /\ evq' = evq
        /\ ipBuf \in Buffers
        /\ \A x \in Buffers : EthHolds(x)' = EthHolds(x)
    BY <1>6 DEF Output, EthHolds
  <2>2. \A x \in Buffers : Queued(x)' = Queued(x) /\ ipBuf' # x
    BY <2>1, BufAssumption DEF Queued, InRange
  <2>3. \A x \in Buffers : x \in free' <=> x \in free \/ x = ipBuf  BY <2>1
  <2>4. QED  BY <2>1, <2>2, <2>3 DEF BuffersConserved
<1>7. CASE LinkChanges  BY <1>7, OwnersUnchanged DEF LinkChanges, EthHolds
<1>8. CASE FrameArrives  BY <1>8, OwnersUnchanged DEF FrameArrives, EthHolds
<1>9. CASE OtherEvent
  <2>1. /\ evq' = Append(evq, NoBuf) /\ free' = free /\ ipBuf' = ipBuf
        /\ \A x \in Buffers : EthHolds(x)' = EthHolds(x)
    BY <1>9 DEF OtherEvent, EthHolds
  <2>2. /\ Len(evq) \in Nat /\ Len(evq') = Len(evq) + 1
        /\ \A i \in 1 .. Len(evq) : evq'[i] = evq[i]
        /\ evq'[Len(evq) + 1] = NoBuf
        /\ 1 .. Len(evq') = 1 .. Len(evq) \cup {Len(evq) + 1}
    BY <2>1, AppendRange
  <2>3. \A b \in Buffers : Queued(b)' <=> Queued(b)
    BY <2>2, BufAssumption DEF Queued, InRange
  <2>4. \A b \in Buffers : \A i \in 1 .. Len(evq') :
           evq'[i] = b => i \in 1 .. Len(evq) /\ evq[i] = b
    BY <2>2, BufAssumption
  <2>5. QED  BY <2>1, <2>3, <2>4 DEF BuffersConserved
<1>10. QED
  BY <1>1, <1>2, <1>3, <1>4, <1>5, <1>6, <1>7, <1>8, <1>9 DEF IPTask, Environment

LEMMA InitConserved == Init => BuffersConserved
BY BufAssumption DEF Init, BuffersConserved, EthHolds, Queued, InRange

LEMMA ConservedStep == Types /\ BuffersConserved /\ [Next]_vars => BuffersConserved'
<1> SUFFICES ASSUME Types, BuffersConserved, [Next]_vars PROVE BuffersConserved'
  OBVIOUS
<1>1. CASE Next  BY <1>1, ThreadConserves, OthersConserve DEF Next
<1>2. CASE UNCHANGED vars
  BY <1>2, OwnersUnchanged DEF vars, mac, thread, stack, EthHolds
<1>3. QED  BY <1>1, <1>2

(* Every network buffer has exactly one owner at all times: none leaks and *)
(* none is released twice on any path of the receive loop.                 *)
THEOREM BuffersAreConserved == Spec => []BuffersConserved
<1>1. Init => Types /\ BuffersConserved  BY InitType, InitConserved DEF Types
<1>2. Types /\ BuffersConserved /\ [Next]_vars => Types' /\ BuffersConserved'
  BY TypeStep, ConservedStep DEF Types
<1>3. QED  BY <1>1, <1>2, PTL DEF Spec

-----------------------------------------------------------------------------
(***************************************************************************)
(* No lost wake-up.                                                        *)
(***************************************************************************)

(* With a link that comes up late, the receiver is on only after ETH_tid   *)
(* was set.                                                                *)
TidFirst == (link \/ rxOn) => started = "yes"

LEMMA TidFirstStep ==
  ASSUME SlowLink, Types, TidFirst, [Next]_vars
  PROVE  TidFirst'
BY Zenon, SlowLink, Types, TidFirst, [Next]_vars
   DEF Next, ETH_Thread, IPTask, Environment, vars, mac, thread, stack, Types, TypeOK, Hand,
       TidFirst, LinkUp, FlagsWait, GetRxFrameSize, GetNetworkBuffer, ReadFrame, SendEvent,
       DumpFrame, ReleaseBuffer, ETH_MAC_SignalEvent, CreateThread, SetTid, TakeEvent, NewPacket,
       Output, LinkChanges, FrameArrives, OtherEvent

LEMMA WakeupStep ==
  ASSUME Types, TidFirst, NoLostWakeup, [Next]_vars
  PROVE  NoLostWakeup'
<1> USE DEF NoLostWakeup, Types, Hand, mac, thread, stack
<1>1. CASE ETH_Thread
  BY <1>1 DEF ETH_Thread, LinkUp, FlagsWait, GetRxFrameSize, GetNetworkBuffer, ReadFrame,
              SendEvent, DumpFrame, ReleaseBuffer
<1>2. CASE ETH_MAC_SignalEvent  BY <1>2 DEF ETH_MAC_SignalEvent, TidFirst
<1>3. CASE IPTask  BY <1>3 DEF IPTask, CreateThread, SetTid, TakeEvent, NewPacket, Output
<1>4. CASE Environment  BY <1>4 DEF Environment, LinkChanges, FrameArrives, OtherEvent
<1>5. CASE UNCHANGED vars  BY <1>5 DEF vars
<1>6. QED  BY <1>1, <1>2, <1>3, <1>4, <1>5 DEF Next

(* If the link comes up only after the interface was started, no frame is  *)
(* left in the MAC with ETH_Thread asleep and no wake-up on its way.       *)
THEOREM WakeupNotLost ==
  ASSUME SlowLink
  PROVE  Spec => []NoLostWakeup
<1>1. Init => Types /\ TidFirst /\ NoLostWakeup
  BY InitType DEF Types, Init, TidFirst, NoLostWakeup
<1>2. Types /\ TidFirst /\ NoLostWakeup /\ [Next]_vars => Types' /\ TidFirst' /\ NoLostWakeup'
  BY SlowLink, TypeStep, TidFirstStep, WakeupStep DEF Types
<1>3. QED  BY <1>1, <1>2, PTL DEF Spec

-----------------------------------------------------------------------------
(***************************************************************************)
(* The order of the frames.  Frames are numbered as they arrive, so a frame *)
(* is newer than another if its number is greater.  On their way to the    *)
(* stack are those in queued buffers, then the one ETH_Thread is about to  *)
(* send, then those in the MAC.                                            *)
(***************************************************************************)
NewerThanOut(n)  == \A i \in 1 .. Len(received) : received[i] < n
NewerThanSent(n) == \A i \in 1 .. Len(evq) : evq[i] # NoBuf => content[evq[i]] < n
Arrived(n)       == n \in 1 .. count

OutInOrder ==
  \A j \in 1 .. Len(received) :
    /\ Arrived(received[j])
    /\ \A i \in 1 .. Len(received) : i < j => received[i] < received[j]

SentInOrder ==
  \A j \in 1 .. Len(evq) : evq[j] # NoBuf =>
    /\ Arrived(content[evq[j]])
    /\ NewerThanOut(content[evq[j]])
    /\ \A i \in 1 .. Len(evq) : i < j /\ evq[i] # NoBuf => content[evq[i]] < content[evq[j]]

HandInOrder ==
  pc = "send" => /\ Arrived(content[buf])
                 /\ NewerThanOut(content[buf])
                 /\ NewerThanSent(content[buf])

MacInOrder ==
  \A j \in 1 .. Len(rxq) :
    /\ Arrived(rxq[j].id)
    /\ NewerThanOut(rxq[j].id)
    /\ NewerThanSent(rxq[j].id)
    /\ pc = "send" => content[buf] < rxq[j].id
    /\ \A i \in 1 .. Len(rxq) : i < j => rxq[i].id < rxq[j].id

InOrder == OutInOrder /\ SentInOrder /\ HandInOrder /\ MacInOrder

Owned == Types /\ BuffersConserved

(* A step that does not touch the frames on the way.                       *)
LEMMA OrderUnchanged ==
  ASSUME InOrder, received' = received, evq' = evq, rxq' = rxq, count' = count, buf' = buf,
         \A i \in 1 .. Len(evq) : evq[i] # NoBuf => content'[evq[i]] = content[evq[i]],
         pc' = "send" => pc = "send" /\ content'[buf] = content[buf]
  PROVE  InOrder'
BY DEF InOrder, OutInOrder, SentInOrder, HandInOrder, MacInOrder, NewerThanOut, NewerThanSent,
       Arrived

(* The same when buf changes but nothing is about to be sent.              *)
LEMMA OrderNotSending ==
  ASSUME InOrder, received' = received, evq' = evq, rxq' = rxq, count' = count,
         content' = content, pc' # "send"
  PROVE  InOrder'
BY DEF InOrder, OutInOrder, SentInOrder, HandInOrder, MacInOrder, NewerThanOut, NewerThanSent,
       Arrived

(* The frame at the head of the MAC's queue is gone.                       *)
LEMMA OrderTail ==
  ASSUME Owned, MacInOrder, rxq # << >>, rxq' = Tail(rxq), count' = count,
         received' = received, evq' = evq, pc' # "send",
         \A i \in 1 .. Len(evq) : evq[i] # NoBuf => content'[evq[i]] = content[evq[i]]
  PROVE  MacInOrder'
<1>1. /\ Len(rxq') = Len(rxq) - 1 /\ Len(rxq) \in Nat \ {0}
      /\ \A i \in 1 .. Len(rxq') : rxq'[i] = rxq[i + 1]
  BY TailRange DEF Owned, Types, TypeOK
<1> SUFFICES ASSUME NEW j \in 1 .. Len(rxq')
             PROVE  /\ Arrived(rxq[j].id)'
                    /\ NewerThanOut(rxq[j].id)'
                    /\ NewerThanSent(rxq[j].id)'
                    /\ \A i \in 1 .. Len(rxq') : i < j => rxq'[i].id < rxq'[j].id
  BY DEF MacInOrder
<1>2. j + 1 \in 1 .. Len(rxq) /\ rxq'[j] = rxq[j + 1]  BY <1>1
<1>3. \A i \in 1 .. Len(rxq') : i < j =>
         i + 1 \in 1 .. Len(rxq) /\ i + 1 < j + 1 /\ rxq'[i] = rxq[i + 1]
  BY <1>1
<1>4. QED  BY <1>2, <1>3 DEF MacInOrder, Arrived, NewerThanOut, NewerThanSent

LEMMA ReadFrameOrder ==
  ASSUME ~ReadErrors, Owned, InOrder, ReadFrame
  PROVE  InOrder'
<1> USE DEF Owned, Types, TypeOK, Hand
<1>1. pc = "read" /\ buf \in Buffers /\ rxq # << >> /\ EthHolds(buf)
  BY DEF ReadFrame, EthHolds
<1>2. \A i \in 1 .. Len(evq) : evq[i] # buf
  BY <1>1 DEF BuffersConserved, Queued, InRange
<1>3. UNCHANGED <<received, evq, ipBuf, count, buf>>  BY DEF ReadFrame, stack
<1>4. CASE pc' = "dump"
  <2>1. rxq' = rxq /\ content' = content  BY <1>4 DEF ReadFrame
  <2>2. QED  BY <1>3, <1>4, <2>1, OrderNotSending
<1>5. CASE pc' # "dump"
  <2>1. /\ content' = [content EXCEPT ![buf] = Head(rxq).id]
        /\ rxq' = Tail(rxq)
    BY <1>5 DEF ReadFrame
  <2>2. \A i \in 1 .. Len(evq) : evq[i] # NoBuf => content'[evq[i]] = content[evq[i]]
    BY <1>2, <2>1
  <2>3. OutInOrder' /\ SentInOrder'
    BY <1>3, <2>2 DEF InOrder, OutInOrder, SentInOrder, NewerThanOut, Arrived
  <2>4. /\ Head(rxq) = rxq[1] /\ content'[buf] = rxq[1].id
        /\ Len(rxq') = Len(rxq) - 1 /\ Len(rxq) \in Nat \ {0}
        /\ \A i \in 1 .. Len(rxq') : rxq'[i] = rxq[i + 1]
    BY <1>1, <2>1, TailRange
  <2>5. 1 \in 1 .. Len(rxq)  BY <2>4
  <2>6. HandInOrder'
    BY <1>3, <2>2, <2>4, <2>5 DEF InOrder, HandInOrder, MacInOrder, Arrived, NewerThanOut,
                              NewerThanSent
  <2>7. MacInOrder'
    <3> SUFFICES ASSUME NEW j \in 1 .. Len(rxq')
                 PROVE  /\ Arrived(rxq[j].id)'
                        /\ NewerThanOut(rxq[j].id)'
                        /\ NewerThanSent(rxq[j].id)'
                        /\ (content[buf] < rxq[j].id)'
                        /\ \A i \in 1 .. Len(rxq') : i < j => rxq'[i].id < rxq'[j].id
      BY DEF MacInOrder
    <3>1. j + 1 \in 1 .. Len(rxq) /\ rxq'[j] = rxq[j + 1] /\ 1 < j + 1  BY <2>4
    <3>2. \A i \in 1 .. Len(rxq') : i < j =>
             i + 1 \in 1 .. Len(rxq) /\ i + 1 < j + 1 /\ rxq'[i] = rxq[i + 1]
      BY <2>4
    <3>3. (content[buf] < rxq[j].id)'
      BY <1>3, <2>4, <2>5, <3>1 DEF InOrder, MacInOrder
    <3>4. Arrived(rxq[j].id)' /\ NewerThanOut(rxq[j].id)' /\ NewerThanSent(rxq[j].id)'
      BY <1>3, <2>2, <3>1 DEF InOrder, MacInOrder, Arrived, NewerThanOut, NewerThanSent
    <3>5. \A i \in 1 .. Len(rxq') : i < j => rxq'[i].id < rxq'[j].id
      BY <3>1, <3>2 DEF InOrder, MacInOrder
    <3>6. QED  BY <3>3, <3>4, <3>5
  <2>8. QED  BY <2>3, <2>6, <2>7 DEF InOrder
<1>6. QED  BY <1>4, <1>5

LEMMA SendEventOrder ==
  ASSUME Owned, InOrder, SendEvent
  PROVE  InOrder'
<1> USE DEF Owned, Types, TypeOK, Hand, mac
<1>1. UNCHANGED <<received, rxq, count, content>> /\ pc = "send" /\ pc' # "send"
  BY DEF SendEvent
<1>2. CASE evq' = evq  BY <1>1, <1>2, OrderNotSending
<1>3. CASE evq' # evq
  <2>1. evq' = Append(evq, buf) /\ buf \in Buffers  BY <1>3 DEF SendEvent
  <2>2. /\ Len(evq) \in Nat
        /\ \A i \in 1 .. Len(evq) : evq'[i] = evq[i]
        /\ evq'[Len(evq) + 1] = buf
        /\ 1 .. Len(evq') = 1 .. Len(evq) \cup {Len(evq) + 1}
    BY <2>1, AppendRange
  <2>3. \A n : NewerThanSent(n)' <=> NewerThanSent(n) /\ content[buf] < n
    BY <1>1, <2>1, <2>2, BufAssumption DEF NewerThanSent
  <2>4. OutInOrder' /\ HandInOrder'
    BY <1>1 DEF InOrder, OutInOrder, HandInOrder, Arrived
  <2>5. SentInOrder'
    <3> SUFFICES ASSUME NEW j \in 1 .. Len(evq'), evq'[j] # NoBuf
                 PROVE  /\ Arrived(content[evq[j]])'
                        /\ NewerThanOut(content[evq[j]])'
                        /\ \A i \in 1 .. Len(evq') : i < j /\ evq'[i] # NoBuf
                             => (content[evq[i]] < content[evq[j]])'
      BY <1>1 DEF SentInOrder, Arrived, NewerThanOut
    <3>1. CASE j = Len(evq) + 1
      <4>1. evq'[j] = buf  BY <2>2, <3>1
      <4>2. \A i \in 1 .. Len(evq') : i < j => i \in 1 .. Len(evq) /\ evq'[i] = evq[i]
        BY <2>2, <3>1
      <4>3. QED
        BY <1>1, <4>1, <4>2 DEF InOrder, HandInOrder, Arrived, NewerThanOut, NewerThanSent
    <3>2. CASE j \in 1 .. Len(evq)
      <4>1. evq'[j] = evq[j]  BY <2>2, <3>2
      <4>2. \A i \in 1 .. Len(evq') : i < j => i \in 1 .. Len(evq) /\ evq'[i] = evq[i]
        BY <2>2, <3>2
      <4>3. QED
        BY <1>1, <3>2, <4>1, <4>2 DEF InOrder, SentInOrder, Arrived, NewerThanOut
    <3>3. QED  BY <2>2, <3>1, <3>2
  <2>6. MacInOrder'
    BY <1>1, <2>3 DEF InOrder, MacInOrder, Arrived, NewerThanOut
  <2>7. QED  BY <2>4, <2>5, <2>6 DEF InOrder
<1>4. QED  BY <1>2, <1>3

LEMMA TakeEventOrder ==
  ASSUME Owned, InOrder, TakeEvent
  PROVE  InOrder'
<1> USE DEF Owned, Types, TypeOK, mac, thread
<1>1. UNCHANGED <<rxq, count, content, pc, buf>> /\ evq' = Tail(evq) /\ evq # << >>
  BY DEF TakeEvent
<1>2. /\ Head(evq) = evq[1] /\ Len(evq') = Len(evq) - 1 /\ Len(evq) \in Nat \ {0}
      /\ \A i \in 1 .. Len(evq') : evq'[i] = evq[i + 1]
  BY <1>1, TailRange
<1>3. \A i \in 1 .. Len(evq') : i + 1 \in 1 .. Len(evq) /\ 1 < i + 1  BY <1>2
<1>4. 1 \in 1 .. Len(evq)  BY <1>2
<1>5. \A n : NewerThanSent(n) => NewerThanSent(n)'
  BY <1>1, <1>2, <1>3 DEF NewerThanSent
<1>6. CASE Head(evq) = NoBuf
  <2>1. received' = received  BY <1>6 DEF TakeEvent
  <2>2. SentInOrder'
    BY <1>1, <1>2, <1>3, <2>1 DEF InOrder, SentInOrder, Arrived, NewerThanOut
  <2>3. OutInOrder' /\ HandInOrder' /\ MacInOrder'
    BY <1>1, <1>5, <2>1 DEF InOrder, OutInOrder, HandInOrder, MacInOrder, Arrived, NewerThanOut
  <2>4. QED  BY <2>2, <2>3 DEF InOrder
<1>7. CASE Head(evq) # NoBuf
  <2> DEFINE f == content[evq[1]]
  <2>1. received' = Append(received, f) /\ f \in 0 .. MaxFrames
    BY <1>1, <1>2, <1>4, <1>7 DEF TakeEvent
  <2>2. /\ Len(received) \in Nat
        /\ \A i \in 1 .. Len(received) : received'[i] = received[i]
        /\ received'[Len(received) + 1] = f
        /\ Len(received') = Len(received) + 1
        /\ 1 .. Len(received') = 1 .. Len(received) \cup {Len(received) + 1}
    BY <2>1, AppendRange
  <2>3. \A n : NewerThanOut(n)' <=> NewerThanOut(n) /\ f < n
    BY <2>2 DEF NewerThanOut
  <2>4. Arrived(f) /\ NewerThanOut(f)
    BY <1>2, <1>4, <1>7 DEF InOrder, SentInOrder
  <2>5. OutInOrder'
    <3> SUFFICES ASSUME NEW j \in 1 .. Len(received')
                 PROVE  /\ Arrived(received[j])'
                        /\ \A i \in 1 .. Len(received') : i < j => (received[i] < received[j])'
      BY DEF OutInOrder
    <3>1. \A i \in 1 .. Len(received') : i < j => i \in 1 .. Len(received)  BY <2>2
    <3>2. CASE j = Len(received) + 1
      BY <1>1, <2>2, <2>4, <3>1, <3>2 DEF Arrived, NewerThanOut
    <3>3. CASE j \in 1 .. Len(received)
      BY <1>1, <2>2, <3>1, <3>3 DEF InOrder, OutInOrder, Arrived
    <3>4. QED  BY <2>2, <3>2, <3>3
  <2>6. \A i \in 1 .. Len(evq) : 1 < i /\ evq[i] # NoBuf => f < content[evq[i]]
    BY <1>2, <1>4, <1>7 DEF InOrder, SentInOrder
  <2>7. SentInOrder'
    <3> SUFFICES ASSUME NEW j \in 1 .. Len(evq'), evq'[j] # NoBuf
                 PROVE  /\ Arrived(content[evq[j]])'
                        /\ NewerThanOut(content[evq[j]])'
                        /\ \A i \in 1 .. Len(evq') : i < j /\ evq'[i] # NoBuf
                             => (content[evq[i]] < content[evq[j]])'
      BY DEF SentInOrder
    <3>1. evq'[j] = evq[j + 1] /\ j + 1 \in 1 .. Len(evq) /\ 1 < j + 1  BY <1>2, <1>3
    <3>2. \A i \in 1 .. Len(evq') : i < j => i + 1 < j + 1  BY <1>2
    <3>3. Arrived(content[evq[j]])' /\ NewerThanOut(content[evq[j]])'
      BY <1>1, <2>3, <2>6, <3>1 DEF InOrder, SentInOrder, Arrived
    <3>4. QED  BY <1>1, <1>2, <1>3, <3>1, <3>2, <3>3 DEF InOrder, SentInOrder
  <2>8. pc = "send" => f < content[buf]
    BY <1>2, <1>4, <1>7 DEF InOrder, HandInOrder, NewerThanSent
  <2>9. \A j \in 1 .. Len(rxq) : f < rxq[j].id
    BY <1>2, <1>4, <1>7 DEF InOrder, MacInOrder, NewerThanSent
  <2>10. HandInOrder' /\ MacInOrder'
    BY <1>1, <1>5, <2>3, <2>8, <2>9 DEF InOrder, HandInOrder, MacInOrder, Arrived
  <2>11. QED  BY <2>5, <2>7, <2>10 DEF InOrder
<1>8. QED  BY <1>6, <1>7

LEMMA FrameArrivesOrder ==
  ASSUME Owned, InOrder, FrameArrives
  PROVE  InOrder'
<1> USE DEF Owned, Types, TypeOK, thread, stack
<1>1. UNCHANGED <<received, evq, content, pc, buf>> /\ count' = count + 1 /\ count \in Nat
  BY BoundAssumption DEF FrameArrives
<1>2. ASSUME NEW n, Arrived(n) PROVE Arrived(n)' /\ n < count'
  <2>1. n \in 1 .. count  BY <1>2 DEF Arrived
  <2>2. n \in 1 .. count' /\ n < count'  BY <1>1, <2>1
  <2>3. QED  BY <2>2 DEF Arrived
<1>3. count' \in 1 .. count'  BY <1>1
<1>4. OutInOrder' /\ SentInOrder' /\ HandInOrder'
  BY <1>1, <1>2 DEF InOrder, OutInOrder, SentInOrder, HandInOrder, NewerThanOut, NewerThanSent
<1>5. PICK k \in Kinds : rxq' = Append(rxq, [id |-> count', kind |-> k])  BY DEF FrameArrives
<1>6. [id |-> count', kind |-> k] \in Frame
  BY <1>1, <1>5, BoundAssumption DEF Frame, FrameArrives
<1>7. /\ Len(rxq) \in Nat
      /\ \A i \in 1 .. Len(rxq) : rxq'[i] = rxq[i]
      /\ rxq'[Len(rxq) + 1] = [id |-> count', kind |-> k]
      /\ Len(rxq') = Len(rxq) + 1
      /\ 1 .. Len(rxq') = 1 .. Len(rxq) \cup {Len(rxq) + 1}
  BY <1>5, <1>6, AppendRange
<1>8. MacInOrder'
  <2> SUFFICES ASSUME NEW j \in 1 .. Len(rxq')
               PROVE  /\ Arrived(rxq[j].id)'
                      /\ NewerThanOut(rxq[j].id)'
                      /\ NewerThanSent(rxq[j].id)'
                      /\ pc' = "send" => (content[buf] < rxq[j].id)'
                      /\ \A i \in 1 .. Len(rxq') : i < j => (rxq[i].id < rxq[j].id)'
    BY DEF MacInOrder
  <2>1. \A i \in 1 .. Len(rxq') : i < j => i \in 1 .. Len(rxq)  BY <1>7
  <2>2. CASE j = Len(rxq) + 1
    <3>1. rxq'[j].id = count'  BY <1>7, <2>2
    <3>2. NewerThanOut(count') /\ NewerThanSent(count')
      BY <1>2 DEF InOrder, OutInOrder, SentInOrder, NewerThanOut, NewerThanSent
    <3>3. pc = "send" => content[buf] < count'  BY <1>2 DEF InOrder, HandInOrder
    <3>4. \A i \in 1 .. Len(rxq') : i < j => rxq'[i].id < count'
      BY <1>2, <1>7, <2>1 DEF InOrder, MacInOrder
    <3>5. QED
      BY <1>1, <1>3, <3>1, <3>2, <3>3, <3>4 DEF Arrived, NewerThanOut, NewerThanSent
  <2>3. CASE j \in 1 .. Len(rxq)
    BY <1>1, <1>2, <1>7, <2>1, <2>3 DEF InOrder, MacInOrder, NewerThanOut, NewerThanSent
  <2>4. QED  BY <1>7, <2>2, <2>3
<1>9. QED  BY <1>4, <1>8 DEF InOrder

LEMMA OtherEventOrder ==
  ASSUME Owned, InOrder, OtherEvent
  PROVE  InOrder'
<1> USE DEF Owned, Types, TypeOK, mac, thread
<1>1. UNCHANGED <<received, rxq, count, content, pc, buf>> /\ evq' = Append(evq, NoBuf)
  BY DEF OtherEvent
<1>2. /\ Len(evq) \in Nat
      /\ \A i \in 1 .. Len(evq) : evq'[i] = evq[i]
      /\ evq'[Len(evq) + 1] = NoBuf
      /\ 1 .. Len(evq') = 1 .. Len(evq) \cup {Len(evq) + 1}
  BY <1>1, AppendRange
<1>3. \A i \in 1 .. Len(evq') : evq'[i] # NoBuf => i \in 1 .. Len(evq) /\ evq'[i] = evq[i]
  BY <1>2
<1>4. \A n : NewerThanSent(n)' <=> NewerThanSent(n)
  BY <1>1, <1>2, <1>3 DEF NewerThanSent
<1>5. OutInOrder' /\ HandInOrder' /\ MacInOrder'
  BY <1>1, <1>4 DEF InOrder, OutInOrder, HandInOrder, MacInOrder, Arrived, NewerThanOut
<1>6. SentInOrder'
  BY <1>1, <1>3 DEF InOrder, SentInOrder, Arrived, NewerThanOut
<1>7. QED  BY <1>5, <1>6 DEF InOrder

LEMMA NewPacketOrder ==
  ASSUME Owned, InOrder, NewPacket
  PROVE  InOrder'
<1> USE DEF Owned, Types, TypeOK, Hand, mac, thread
<1>1. PICK b \in free : content' = [content EXCEPT ![b] = 0]  BY DEF NewPacket
<1>2. \A i \in 1 .. Len(evq) : evq[i] # b
  BY <1>1 DEF BuffersConserved, Queued, InRange
<1>3. pc = "send" => buf # b  BY <1>1 DEF BuffersConserved, EthHolds
<1>4. QED  BY <1>1, <1>2, <1>3, OrderUnchanged DEF NewPacket

LEMMA OrderStep == ~ReadErrors /\ Owned /\ InOrder /\ [Next]_vars => InOrder'
<1> SUFFICES ASSUME ~ReadErrors, Owned, InOrder, [Next]_vars PROVE InOrder'
  OBVIOUS
<1> USE DEF mac, thread, stack
<1>1. CASE LinkUp  BY <1>1, OrderUnchanged DEF LinkUp
<1>2. CASE FlagsWait  BY <1>2, OrderUnchanged DEF FlagsWait
<1>3. CASE GetRxFrameSize  BY <1>3, OrderUnchanged DEF GetRxFrameSize
<1>4. CASE GetNetworkBuffer  BY <1>4, OrderNotSending DEF GetNetworkBuffer
<1>5. CASE ReadFrame  BY <1>5, ReadFrameOrder
<1>6. CASE SendEvent  BY <1>6, SendEventOrder
<1>7. CASE DumpFrame
  <2>1. MacInOrder'
    <3>1. rxq # << >>  BY <1>7 DEF DumpFrame, Owned, Types, Hand
    <3>2. QED  BY <1>7, <3>1, OrderTail DEF DumpFrame, InOrder
  <2>2. OutInOrder' /\ SentInOrder' /\ HandInOrder'
    BY <1>7 DEF DumpFrame, InOrder, OutInOrder, SentInOrder, HandInOrder, Arrived, NewerThanOut
  <2>3. QED  BY <2>1, <2>2 DEF InOrder
<1>8. CASE ReleaseBuffer  BY <1>8, OrderNotSending DEF ReleaseBuffer
<1>9. CASE ETH_MAC_SignalEvent  BY <1>9, OrderUnchanged DEF ETH_MAC_SignalEvent
<1>10. CASE CreateThread  BY <1>10, OrderUnchanged DEF CreateThread
<1>11. CASE SetTid  BY <1>11, OrderUnchanged DEF SetTid
<1>12. CASE TakeEvent  BY <1>12, TakeEventOrder
<1>13. CASE NewPacket  BY <1>13, NewPacketOrder
<1>14. CASE Output  BY <1>14, OrderUnchanged DEF Output
<1>15. CASE LinkChanges  BY <1>15, OrderUnchanged DEF LinkChanges
<1>16. CASE FrameArrives  BY <1>16, FrameArrivesOrder
<1>17. CASE OtherEvent  BY <1>17, OtherEventOrder
<1>18. CASE UNCHANGED vars  BY <1>18, OrderUnchanged DEF vars
<1>19. QED
  BY <1>1, <1>2, <1>3, <1>4, <1>5, <1>6, <1>7, <1>8, <1>9, <1>10, <1>11, <1>12, <1>13,
     <1>14, <1>15, <1>16, <1>17, <1>18 DEF Next, ETH_Thread, IPTask, Environment

LEMMA InitOrder == Init => InOrder
BY DEF Init, InOrder, OutInOrder, SentInOrder, HandInOrder, MacInOrder

(* With a driver that reports no error from ReadFrame, the stack is given  *)
(* frames that arrived, each once and in the order of their arrival.       *)
THEOREM FramesStayInOrder ==
  ASSUME ~ReadErrors
  PROVE  Spec => []FramesInOrder
<1>1. Init => Owned /\ InOrder
  BY InitType, InitConserved, InitOrder DEF Owned, Types
<1>2. Owned /\ InOrder /\ [Next]_vars => Owned' /\ InOrder'
  BY ~ReadErrors, TypeStep, ConservedStep, OrderStep DEF Owned, Types
<1>3. Owned /\ InOrder => FramesInOrder
  BY DEF Owned, Types, TypeOK, InOrder, OutInOrder, Arrived, FramesInOrder
<1>4. QED  BY <1>1, <1>2, <1>3, PTL DEF Spec

-----------------------------------------------------------------------------
(***************************************************************************)
(* The refinement of FrameChannel.                                         *)
(*                                                                         *)
(* Carried is a recursive function; what it computes is shown by induction *)
(* over sets of numbers, from the well-foundedness of < on Nat.            *)
(***************************************************************************)
LEMMA Smallest ==
  ASSUME NEW T, T \subseteq Nat, T # {}
  PROVE  \E n \in T : \A m \in T : ~(m < n)
<1>1. \A m, n \in Nat : m < n => <<m, n>> \in OpToRel(<, Nat)  BY DEF OpToRel
<1>2. \E n \in T : \A m \in T : ~(<<m, n>> \in OpToRel(<, Nat))
  BY WFMin, NatLessThanWellFounded
<1>3. QED  BY <1>1, <1>2

LEMMA SetInduction ==
  ASSUME NEW S, 0 \in S, \A n \in Nat : n \in S => n + 1 \in S
  PROVE  Nat \subseteq S
<1> SUFFICES ASSUME ~(Nat \subseteq S) PROVE FALSE
  OBVIOUS
<1>1. Nat \ S # {} /\ Nat \ S \subseteq Nat  OBVIOUS
<1>2. PICK n \in Nat \ S : \A m \in Nat \ S : ~(m < n)  BY <1>1, Smallest
<1>3. n \in Nat /\ n # 0  BY <1>2
<1>4. n - 1 \in Nat /\ n - 1 < n /\ (n - 1) + 1 = n  BY <1>3
<1>5. n - 1 \in S  BY <1>2, <1>4
<1>6. QED  BY <1>2, <1>4, <1>5

(* One step of the recursion, and the function up to the first n events.   *)
CarriedAt(f, q, c, i) == IF i = 0 THEN << >>
                         ELSE IF q[i] = NoBuf THEN f[i - 1]
                         ELSE Append(f[i - 1], c[q[i]])

CarriedTo(f, q, c, n) == f = [i \in 0 .. n |-> CarriedAt(f, q, c, i)]

LEMMA CarriedToNext ==
  ASSUME NEW q, NEW c, NEW n \in Nat, NEW f, CarriedTo(f, q, c, n)
  PROVE  \E g : CarriedTo(g, q, c, n + 1)
<1> DEFINE g == [i \in 0 .. n + 1 |-> IF i = n + 1 THEN CarriedAt(f, q, c, i) ELSE f[i]]
<1>1. \A i \in 0 .. n : f[i] = CarriedAt(f, q, c, i)  BY DEF CarriedTo
<1>2. \A i \in 0 .. n : g[i] = f[i]  OBVIOUS
<1>3. g[n + 1] = CarriedAt(f, q, c, n + 1)  OBVIOUS
<1>4. ASSUME NEW i \in 0 .. n + 1 PROVE CarriedAt(g, q, c, i) = CarriedAt(f, q, c, i)
  <2>1. i = 0 \/ i - 1 \in 0 .. n  OBVIOUS
  <2>2. i = 0 \/ g[i - 1] = f[i - 1]  BY <1>2, <2>1
  <2>3. QED  BY <2>2 DEF CarriedAt
<1>5. ASSUME NEW i \in 0 .. n + 1 PROVE g[i] = CarriedAt(g, q, c, i)
  <2>1. i = n + 1 \/ i \in 0 .. n  OBVIOUS
  <2>2. g[i] = CarriedAt(f, q, c, i)  BY <1>1, <1>2, <1>3, <2>1
  <2>3. QED  BY <1>4, <2>2
<1>6. g = [i \in 0 .. n + 1 |-> g[i]]  OBVIOUS
<1>7. g = [i \in 0 .. n + 1 |-> CarriedAt(g, q, c, i)]  BY <1>5, <1>6
<1> HIDE DEF g
<1>8. CarriedTo(g, q, c, n + 1)  BY <1>7 DEF CarriedTo
<1>9. QED  BY <1>8

LEMMA CarriedExists ==
  ASSUME NEW q, NEW c
  PROVE  \A n \in Nat : \E f : CarriedTo(f, q, c, n)
<1> DEFINE S == {n \in Nat : \E f : CarriedTo(f, q, c, n)}
<1>1. 0 \in S
  <2> DEFINE f == [i \in 0 .. 0 |-> << >>]
  <2>1. \A i \in 0 .. 0 : CarriedAt(f, q, c, i) = << >>  BY DEF CarriedAt
  <2>2. f = [i \in 0 .. 0 |-> CarriedAt(f, q, c, i)]  BY <2>1
  <2> HIDE DEF f
  <2>3. CarriedTo(f, q, c, 0)  BY <2>2 DEF CarriedTo
  <2>4. QED  BY <2>3
<1>2. ASSUME NEW n \in Nat, n \in S PROVE n + 1 \in S
  BY <1>2, CarriedToNext
<1> HIDE DEF S
<1>3. Nat \subseteq S  BY <1>1, <1>2, SetInduction
<1>4. QED  BY <1>3 DEF S

LEMMA CarriedDef ==
  ASSUME NEW q, NEW c, Len(q) \in Nat
  PROVE  CarriedTo(Carried(q, c), q, c, Len(q))
<1>1. Carried(q, c) = CHOOSE f : CarriedTo(f, q, c, Len(q))
  BY Zenon DEF Carried, CarriedTo, CarriedAt
<1>2. \E f : CarriedTo(f, q, c, Len(q))  BY CarriedExists
<1>3. QED  BY <1>1, <1>2, Zenon

LEMMA CarriedStep ==
  ASSUME NEW q, NEW c, Len(q) \in Nat, NEW i \in 0 .. Len(q)
  PROVE  Carried(q, c)[i] = CarriedAt(Carried(q, c), q, c, i)
<1>1. CarriedTo(Carried(q, c), q, c, Len(q))  BY CarriedDef
<1> DEFINE f == Carried(q, c)
<1> HIDE DEF f
<1>2. f = [j \in 0 .. Len(q) |-> CarriedAt(f, q, c, j)]  BY <1>1 DEF f, CarriedTo
<1>3. f[i] = CarriedAt(f, q, c, i)  BY <1>2
<1>4. QED  BY <1>3 DEF f

Queues == Seq(Buffers \cup {NoBuf})

LEMMA CarriedType ==
  ASSUME NEW S, NEW q \in Queues, NEW c \in [Buffers -> S], NEW i \in 0 .. Len(q)
  PROVE  Carried(q, c)[i] \in Seq(S)
<1> DEFINE f == Carried(q, c)
<1> DEFINE P == {n \in Nat : n <= Len(q) => f[n] \in Seq(S)}
<1>0. Len(q) \in Nat  BY DEF Queues
<1>1. \A n \in 0 .. Len(q) : f[n] = CarriedAt(f, q, c, n)  BY <1>0, CarriedStep
<1>2. 0 \in P
  <2>1. f[0] = << >>  BY <1>0, <1>1 DEF CarriedAt
  <2>2. << >> \in Seq(S)  BY EmptySeq
  <2>3. QED  BY <2>1, <2>2
<1>3. ASSUME NEW n \in Nat, n \in P PROVE n + 1 \in P
  <2> SUFFICES ASSUME n + 1 <= Len(q) PROVE f[n + 1] \in Seq(S)
    OBVIOUS
  <2>1. f[n] \in Seq(S)  BY <1>0, <1>3
  <2>2. f[n + 1] = CarriedAt(f, q, c, n + 1) /\ n + 1 # 0 /\ (n + 1) - 1 = n  BY <1>0, <1>1
  <2>3. q[n + 1] \in Buffers \cup {NoBuf}  BY <1>0 DEF Queues
  <2>4. CASE q[n + 1] = NoBuf
    <3>1. f[n + 1] = f[n]  BY <2>2, <2>4 DEF CarriedAt
    <3>2. QED  BY <2>1, <3>1
  <2>5. CASE q[n + 1] # NoBuf
    <3>1. f[n + 1] = Append(f[n], c[q[n + 1]])  BY <2>2, <2>5 DEF CarriedAt
    <3>2. c[q[n + 1]] \in S  BY <2>3, <2>5
    <3>3. QED  BY <2>1, <3>1, <3>2, AppendProperties
  <2>6. QED  BY <2>4, <2>5
<1> HIDE DEF P
<1>4. Nat \subseteq P  BY <1>2, <1>3, SetInduction
<1>5. i \in P /\ i <= Len(q)  BY <1>0, <1>4
<1>6. QED  BY <1>5 DEF P

(* The first n events decide.                                              *)
Agree(q, c, p, d, n) == \A j \in 1 .. n : q[j] = p[j] /\ (q[j] # NoBuf => c[q[j]] = d[q[j]])

LEMMA CarriedSame ==
  ASSUME NEW q \in Queues, NEW p \in Queues, NEW c, NEW d,
         NEW n \in Nat, n <= Len(q), n <= Len(p),
         Agree(q, c, p, d, n)
  PROVE  Carried(q, c)[n] = Carried(p, d)[n]
<1> DEFINE f == Carried(q, c)
<1> DEFINE g == Carried(p, d)
<1> DEFINE P == {i \in Nat : i <= n => f[i] = g[i]}
<1>0. Len(q) \in Nat /\ Len(p) \in Nat  BY DEF Queues
<1>1. \A i \in 0 .. n : f[i] = CarriedAt(f, q, c, i) /\ g[i] = CarriedAt(g, p, d, i)
  BY <1>0, CarriedStep
<1>2. 0 \in P
  <2>1. f[0] = << >> /\ g[0] = << >>  BY <1>1 DEF CarriedAt
  <2>2. QED  BY <2>1
<1>3. ASSUME NEW i \in Nat, i \in P PROVE i + 1 \in P
  <2> SUFFICES ASSUME i + 1 <= n PROVE f[i + 1] = g[i + 1]
    OBVIOUS
  <2>1. f[i] = g[i]  BY <1>3
  <2>2. /\ f[i + 1] = CarriedAt(f, q, c, i + 1) /\ g[i + 1] = CarriedAt(g, p, d, i + 1)
        /\ i + 1 # 0 /\ (i + 1) - 1 = i
    BY <1>1
  <2>3. q[i + 1] = p[i + 1] /\ (q[i + 1] # NoBuf => c[q[i + 1]] = d[q[i + 1]])
    BY DEF Agree
  <2>4. CASE q[i + 1] = NoBuf
    <3>1. f[i + 1] = f[i] /\ g[i + 1] = g[i]  BY <2>2, <2>3, <2>4 DEF CarriedAt
    <3>2. QED  BY <2>1, <3>1
  <2>5. CASE q[i + 1] # NoBuf
    <3>1. f[i + 1] = Append(f[i], c[q[i + 1]])  BY <2>2, <2>5 DEF CarriedAt
    <3>2. g[i + 1] = Append(g[i], d[p[i + 1]])  BY <2>2, <2>3, <2>5 DEF CarriedAt
    <3>3. QED  BY <2>1, <2>3, <2>5, <3>1, <3>2
  <2>6. QED  BY <2>4, <2>5
<1> HIDE DEF P
<1>4. Nat \subseteq P  BY <1>2, <1>3, SetInduction
<1>5. n \in P  BY <1>4
<1>6. QED  BY <1>5 DEF P

(* An event more.                                                          *)
LEMMA CarriedAppend ==
  ASSUME NEW q \in Queues, NEW c, NEW b \in Buffers \cup {NoBuf}
  PROVE  Carried(Append(q, b), c)[Len(q) + 1]
           = IF b = NoBuf THEN Carried(q, c)[Len(q)] ELSE Append(Carried(q, c)[Len(q)], c[b])
<1> DEFINE p == Append(q, b)
<1>1. /\ p \in Queues /\ Len(q) \in Nat /\ Len(p) = Len(q) + 1
      /\ p[Len(q) + 1] = b /\ \A j \in 1 .. Len(q) : p[j] = q[j]
  BY AppendRange DEF Queues
<1> HIDE DEF p
<1>2. Carried(p, c)[Len(q)] = Carried(q, c)[Len(q)]
  <2>1. /\ Len(q) \in Nat /\ Len(q) <= Len(q) /\ Len(q) <= Len(p) /\ p \in Queues
        /\ Agree(p, c, q, c, Len(q))
    BY <1>1 DEF Agree
  <2>2. QED  BY <2>1, CarriedSame
<1>3. Carried(p, c)[Len(q) + 1] = CarriedAt(Carried(p, c), p, c, Len(q) + 1)
  BY <1>1, CarriedStep
<1>4. Len(q) + 1 # 0 /\ (Len(q) + 1) - 1 = Len(q)  BY <1>1
<1>5. CASE b = NoBuf
  BY <1>1, <1>2, <1>3, <1>4, <1>5 DEF CarriedAt, p
<1>6. CASE b # NoBuf
  BY <1>1, <1>2, <1>3, <1>4, <1>6 DEF CarriedAt, p
<1>7. QED  BY <1>5, <1>6

(* An event less.                                                          *)
First(q, c) == IF Head(q) = NoBuf THEN << >> ELSE <<c[Head(q)]>>

LEMMA CarriedTail ==
  ASSUME NEW S, NEW q \in Queues, q # << >>, NEW c \in [Buffers -> S]
  PROVE  Carried(q, c)[Len(q)] = First(q, c) \o Carried(Tail(q), c)[Len(Tail(q))]
<1> DEFINE p == Tail(q)
<1> DEFINE h == First(q, c)
<1> DEFINE f == Carried(q, c)
<1> DEFINE g == Carried(p, c)
<1> DEFINE P == {i \in Nat : i <= Len(p) => f[i + 1] = h \o g[i]}
<1>0. /\ p \in Queues /\ Len(q) \in Nat \ {0} /\ Len(p) = Len(q) - 1 /\ Len(p) \in Nat
      /\ \A i \in 1 .. Len(p) : p[i] = q[i + 1]
      /\ Head(q) = q[1] /\ Head(q) \in Buffers \cup {NoBuf}
  BY TailRange DEF Queues
<1>1. h \in Seq(S)
  <2>1. CASE Head(q) = NoBuf  BY <2>1 DEF First
  <2>2. CASE Head(q) # NoBuf
    <3>1. c[Head(q)] \in S  BY <1>0, <2>2
    <3>2. h = <<c[Head(q)]>>  BY <2>2 DEF First
    <3>3. QED  BY <3>1, <3>2
  <2>3. QED  BY <2>1, <2>2
<1> HIDE DEF p
<1>2. \A i \in 0 .. Len(q) : f[i] = CarriedAt(f, q, c, i)  BY <1>0, CarriedStep
<1>3. \A i \in 0 .. Len(p) : g[i] = CarriedAt(g, p, c, i) /\ g[i] \in Seq(S)
  BY <1>0, CarriedStep, CarriedType
<1> HIDE DEF h, g
<1>4. 0 \in P
  <2>1. f[0] = << >> /\ g[0] = << >>  BY <1>0, <1>2, <1>3 DEF CarriedAt
  <2>2. f[1] = CarriedAt(f, q, c, 1) /\ 1 - 1 = 0 /\ 1 # 0  BY <1>0, <1>2
  <2>3. f[1] = h
    <3>1. CASE Head(q) = NoBuf  BY <1>0, <2>1, <2>2, <3>1 DEF CarriedAt, First, h
    <3>2. CASE Head(q) # NoBuf
      <4>1. f[1] = Append(<< >>, c[q[1]])  BY <1>0, <2>1, <2>2, <3>2 DEF CarriedAt
      <4>2. Append(<< >>, c[q[1]]) = <<c[q[1]]>>  OBVIOUS
      <4>3. QED  BY <1>0, <3>2, <4>1, <4>2 DEF First, h
    <3>3. QED  BY <3>1, <3>2
  <2>4. h \o << >> = h  BY <1>1, ConcatEmptySeq
  <2>5. 0 + 1 = 1  OBVIOUS
  <2>6. QED  BY <2>1, <2>3, <2>4, <2>5
<1>5. ASSUME NEW i \in Nat, i \in P PROVE i + 1 \in P
  <2> SUFFICES ASSUME i + 1 <= Len(p) PROVE f[(i + 1) + 1] = h \o g[i + 1]
    OBVIOUS
  <2>1. f[i + 1] = h \o g[i]  BY <1>0, <1>5
  <2>2. /\ i + 1 \in 0 .. Len(p) /\ i \in 0 .. Len(p) /\ (i + 1) + 1 \in 0 .. Len(q)
        /\ i + 1 \in 1 .. Len(p)
        /\ ((i + 1) + 1) - 1 = i + 1 /\ (i + 1) - 1 = i /\ i + 1 # 0 /\ (i + 1) + 1 # 0
    BY <1>0
  <2>3. f[(i + 1) + 1] = CarriedAt(f, q, c, (i + 1) + 1) /\ g[i + 1] = CarriedAt(g, p, c, i + 1)
    BY <1>2, <1>3, <2>2
  <2>4. p[i + 1] = q[(i + 1) + 1] /\ p[i + 1] \in Buffers \cup {NoBuf}
    BY <1>0, <2>2 DEF Queues
  <2>5. CASE p[i + 1] = NoBuf
    <3>1. f[(i + 1) + 1] = f[i + 1]  BY <2>2, <2>3, <2>4, <2>5 DEF CarriedAt
    <3>2. g[i + 1] = g[i]  BY <2>2, <2>3, <2>5 DEF CarriedAt
    <3>3. QED  BY <2>1, <3>1, <3>2
  <2>6. CASE p[i + 1] # NoBuf
    <3>1. f[(i + 1) + 1] = Append(f[i + 1], c[p[i + 1]])  BY <2>2, <2>3, <2>4, <2>6 DEF CarriedAt
    <3>2. g[i + 1] = Append(g[i], c[p[i + 1]])  BY <2>2, <2>3, <2>6 DEF CarriedAt
    <3>3. g[i] \in Seq(S)  BY <1>3, <2>2
    <3> DEFINE e == c[p[i + 1]]
    <3> DEFINE t == g[i]
    <3>4. e \in S /\ t \in Seq(S)  BY <2>4, <2>6, <3>3
    <3> HIDE DEF e, t
    <3>5. h \o t \in Seq(S) /\ <<e>> \in Seq(S)  BY <1>1, <3>4, ConcatProperties
    <3>6. Append(h \o t, e) = h \o Append(t, e)
      <4>1. Append(h \o t, e) = (h \o t) \o <<e>>  BY <3>4, <3>5, AppendIsConcat
      <4>2. (h \o t) \o <<e>> = h \o (t \o <<e>>)  BY <1>1, <3>4, <3>5, ConcatAssociative
      <4>3. t \o <<e>> = Append(t, e)  BY <3>4, AppendIsConcat
      <4>4. QED  BY <4>1, <4>2, <4>3
    <3>7. QED  BY <2>1, <3>1, <3>2, <3>6 DEF e, t
  <2>7. QED  BY <2>5, <2>6
<1> HIDE DEF P
<1>6. Nat \subseteq P  BY <1>4, <1>5, SetInduction
<1>7. Len(p) \in P  BY <1>0, <1>6
<1>8. f[Len(p) + 1] = h \o g[Len(p)] /\ Len(p) + 1 = Len(q)  BY <1>0, <1>7 DEF P
<1>9. QED  BY <1>8 DEF p, h, g


LEMMA TailOfOne ==
  ASSUME NEW S, NEW x \in S, NEW t \in Seq(S)
  PROVE  /\ <<x>> \o t \in Seq(S) /\ <<x>> \o t # << >>
         /\ Head(<<x>> \o t) = x /\ Tail(<<x>> \o t) = t
<1> DEFINE d == <<x>> \o t
<1>1. /\ <<x>> \in Seq(S) /\ Len(<<x>>) = 1 /\ <<x>>[1] = x /\ Len(t) \in Nat
  OBVIOUS
<1>2. /\ d \in Seq(S) /\ Len(d) = 1 + Len(t) /\ d[1] = x
      /\ \A i \in 1 .. Len(t) : d[i + 1] = t[i]
  BY <1>1, ConcatProperties
<1> HIDE DEF d
<1>3. d # << >>  BY <1>1, <1>2
<1>4. /\ Head(d) = d[1] /\ Tail(d) \in Seq(S) /\ Len(Tail(d)) = Len(t)
      /\ \A i \in 1 .. Len(t) : Tail(d)[i] = d[i + 1]
  BY <1>1, <1>2, <1>3, TailRange
<1>5. Tail(d) = t  BY <1>2, <1>4, SeqEqual
<1>6. QED  BY <1>2, <1>3, <1>4, <1>5 DEF d

LEMMA HeadOff ==
  ASSUME NEW S, NEW t \in Seq(S), t # << >>
  PROVE  t = <<Head(t)>> \o Tail(t)
<1>1. Head(t) \in S /\ Tail(t) \in Seq(S)  BY TailRange
<1> DEFINE d == <<Head(t)>> \o Tail(t)
<1>2. /\ <<Head(t)>> \in Seq(S) /\ Len(<<Head(t)>>) = 1 /\ <<Head(t)>>[1] = Head(t)
      /\ Len(Tail(t)) \in Nat
  BY <1>1
<1>3. /\ d \in Seq(S) /\ Len(d) = 1 + Len(Tail(t)) /\ d[1] = Head(t)
      /\ \A i \in 1 .. Len(Tail(t)) : d[i + 1] = Tail(t)[i]
  BY <1>1, <1>2, ConcatProperties
<1> HIDE DEF d
<1>4. /\ Head(t) = t[1] /\ Len(Tail(t)) = Len(t) - 1 /\ Len(t) \in Nat \ {0}
      /\ \A i \in 1 .. Len(Tail(t)) : Tail(t)[i] = t[i + 1]
  BY TailRange
<1>5. Len(d) = Len(t)  BY <1>3, <1>4
<1>6. ASSUME NEW i \in 1 .. Len(t) PROVE t[i] = d[i]
  <2>1. CASE i = 1  BY <1>3, <1>4, <2>1
  <2>2. CASE i # 1
    <3>1. i - 1 \in 1 .. Len(Tail(t)) /\ (i - 1) + 1 = i  BY <1>4, <2>2
    <3>2. d[i] = Tail(t)[i - 1] /\ t[i] = Tail(t)[i - 1]  BY <1>3, <1>4, <3>1
    <3>3. QED  BY <3>2
  <2>3. QED  BY <2>1, <2>2
<1>7. t = d  BY <1>3, <1>5, <1>6, SeqEqual
<1>8. QED  BY <1>7 DEF d

LEMMA RemoveHead ==
  ASSUME NEW S, NEW a \in Seq(S), NEW d \in Seq(S), d # << >>
  PROVE  /\ Channel!RemoveAt(a \o d, Len(a) + 1) = a \o Tail(d)
         /\ Len(a) + 1 \in 1 .. Len(a \o d)
<1> DEFINE w == a \o d
<1> DEFINE t == Tail(d)
<1>1. /\ w \in Seq(S) /\ Len(w) = Len(a) + Len(d) /\ Len(a) \in Nat
      /\ \A i \in 1 .. Len(a) : w[i] = a[i]
      /\ \A i \in 1 .. Len(d) : w[Len(a) + i] = d[i]
  BY ConcatProperties
<1>2. /\ t \in Seq(S) /\ Len(t) = Len(d) - 1 /\ Len(d) \in Nat \ {0}
      /\ \A i \in 1 .. Len(t) : t[i] = d[i + 1]
  BY TailRange
<1> HIDE DEF w, t
<1> DEFINE u == SubSeq(w, 1, Len(a))
<1> DEFINE v == SubSeq(w, Len(a) + 2, Len(w))
<1>3. u = a
  <2>1. u \in Seq(S) /\ Len(u) = Len(a) /\ \A i \in 1 .. Len(a) : u[i] = w[i]
    BY <1>1, <1>2, SubSeqProperties
  <2> HIDE DEF u
  <2>2. QED  BY <1>1, <2>1, SeqEqual
<1>4. v = t
  <2>1. v \in Seq(S)  BY <1>1, <1>2
  <2>2. Len(v) = Len(t)  BY <1>1, <1>2
  <2>3. ASSUME NEW i \in 1 .. Len(t) PROVE v[i] = t[i]
    <3>1. v[i] = w[Len(a) + (i + 1)]  BY <1>1, <1>2
    <3>2. i + 1 \in 1 .. Len(d)  BY <1>2
    <3>3. QED  BY <1>1, <1>2, <3>1, <3>2
  <2> HIDE DEF v
  <2>4. QED  BY <1>2, <2>1, <2>2, <2>3, SeqEqual
<1>5. (Len(a) + 1) - 1 = Len(a) /\ (Len(a) + 1) + 1 = Len(a) + 2  BY <1>1
<1>6. Channel!RemoveAt(w, Len(a) + 1) = u \o v  BY <1>5 DEF Channel!RemoveAt
<1>7. Len(a) + 1 \in 1 .. Len(w)  BY <1>1, <1>2
<1>8. QED  BY <1>3, <1>4, <1>6, <1>7 DEF w, t

-----------------------------------------------------------------------------
(* The frames on the way, and what changes them.                           *)
Ids == 0 .. MaxFrames

LEMMA WayType ==
  ASSUME Owned
  PROVE  /\ InQueue \in Seq(Ids) /\ InHand \in Seq(Ids) /\ AtMac \in Seq(Ids)
         /\ evq \in Queues /\ Len(evq) \in Nat /\ content \in [Buffers -> Ids]
         /\ pc = "send" => content[buf] \in Ids
<1> USE DEF Owned, Types, TypeOK, Hand
<1>1. evq \in Queues /\ Len(evq) \in Nat /\ content \in [Buffers -> Ids]
  BY DEF Queues, Ids
<1>2. InQueue \in Seq(Ids)
  <2>1. Len(evq) \in 0 .. Len(evq)  BY <1>1
  <2>2. Carried(evq, content)[Len(evq)] \in Seq(Ids)  BY <1>1, <2>1, CarriedType
  <2>3. QED  BY <2>2 DEF InQueue
<1>3. pc = "send" => content[buf] \in Ids  BY <1>1
<1>4. InHand \in Seq(Ids)  BY <1>3 DEF InHand
<1>5. AtMac \in Seq(Ids)
  <2>1. Len(rxq) \in Nat /\ \A i \in 1 .. Len(rxq) : rxq[i] \in Frame  OBVIOUS
  <2>2. \A f \in Frame : f.id \in Ids  BY BoundAssumption DEF Frame, Ids
  <2>3. QED  BY <2>1, <2>2 DEF AtMac
<1>6. QED  BY <1>1, <1>2, <1>3, <1>4, <1>5

LEMMA QueueKept ==
  ASSUME Owned, Owned', evq' = evq,
         \A i \in 1 .. Len(evq) : evq[i] # NoBuf => content'[evq[i]] = content[evq[i]]
  PROVE  InQueue' = InQueue
<1>1. evq \in Queues /\ Len(evq) \in Nat /\ Len(evq) <= Len(evq)
  BY WayType
<1>2. Agree(evq, content', evq, content, Len(evq))  BY DEF Agree
<1>3. Carried(evq, content')[Len(evq)] = Carried(evq, content)[Len(evq)]
  BY <1>1, <1>2, CarriedSame
<1>4. QED  BY <1>3 DEF InQueue

LEMMA MacTail ==
  ASSUME Owned, rxq # << >>, rxq' = Tail(rxq)
  PROVE  AtMac # << >> /\ AtMac' = Tail(AtMac) /\ Head(AtMac) = Head(rxq).id
<1> USE DEF Owned, Types, TypeOK
<1>1. /\ Len(rxq) \in Nat \ {0} /\ Tail(rxq) \in Seq(Frame) /\ Len(Tail(rxq)) = Len(rxq) - 1
      /\ \A i \in 1 .. Len(Tail(rxq)) : Tail(rxq)[i] = rxq[i + 1]
      /\ Head(rxq) = rxq[1]
  BY TailRange
<1> DEFINE c == AtMac
<1>2. c \in Seq(Ids)  BY WayType
<1>3. Len(c) = Len(rxq) /\ \A i \in 1 .. Len(rxq) : c[i] = rxq[i].id  BY <1>1 DEF AtMac
<1>4. AtMac' = [i \in 1 .. Len(rxq) - 1 |-> rxq[i + 1].id]  BY <1>1 DEF AtMac
<1> HIDE DEF c
<1>5. c # << >>  BY <1>1, <1>2, <1>3
<1>6. /\ Tail(c) \in Seq(Ids) /\ Len(Tail(c)) = Len(c) - 1 /\ Head(c) = c[1]
      /\ \A i \in 1 .. Len(Tail(c)) : Tail(c)[i] = c[i + 1]
  BY <1>2, <1>5, TailRange
<1>7. Tail(c) = [i \in 1 .. Len(rxq) - 1 |-> rxq[i + 1].id]
  <2> DEFINE z == [i \in 1 .. Len(rxq) - 1 |-> rxq[i + 1].id]
  <2> DEFINE y == Tail(c)
  <2>1. \A i \in 1 .. Len(rxq) - 1 : i + 1 \in 1 .. Len(rxq)  BY <1>1
  <2>2. \A i \in 1 .. Len(rxq) : rxq[i].id \in Ids  BY <1>2, <1>3
  <2>3. Len(rxq) - 1 \in Nat  BY <1>1
  <2>4. z \in Seq(Ids)  BY <2>1, <2>2, <2>3
  <2>5. Len(z) = Len(rxq) - 1 /\ \A i \in 1 .. Len(rxq) - 1 : z[i] = rxq[i + 1].id
    BY <2>3
  <2>6. y \in Seq(Ids) /\ Len(y) = Len(rxq) - 1  BY <1>3, <1>6
  <2>7. \A i \in 1 .. Len(rxq) - 1 : y[i] = rxq[i + 1].id  BY <1>3, <1>6, <2>1
  <2> HIDE DEF z, y
  <2>8. y = z  BY <2>4, <2>5, <2>6, <2>7, SeqEqual
  <2>9. QED  BY <2>8 DEF y, z
<1>8. Head(c) = Head(rxq).id  BY <1>1, <1>3, <1>6
<1>9. QED  BY <1>4, <1>5, <1>7, <1>8 DEF c

LEMMA OnTheWayKept ==
  ASSUME InQueue' = InQueue, InHand' = InHand, AtMac' = AtMac
  PROVE  OnTheWay' = OnTheWay
BY DEF OnTheWay

(* A frame may be lost after those in the queue: it is the next one.       *)
LEMMA LoseNext ==
  ASSUME NEW S, NEW a \in Seq(S), NEW d \in Seq(S), d # << >>,
         OnTheWay = a \o d, OnTheWay' = a \o Tail(d), received' = received
  PROVE  Channel!Next
<1>1. /\ Channel!RemoveAt(a \o d, Len(a) + 1) = a \o Tail(d)
      /\ Len(a) + 1 \in 1 .. Len(a \o d)
  BY RemoveHead
<1>2. Channel!Lose(Len(a) + 1)  BY <1>1 DEF Channel!Lose
<1>3. Len(a) + 1 \in 1 .. Len(OnTheWay)  BY <1>1
<1>4. QED  BY <1>2, <1>3 DEF Channel!Next

LEMMA WayWithoutHand ==
  ASSUME Owned, pc # "send"
  PROVE  OnTheWay = InQueue \o AtMac
<1>1. InHand = << >>  BY DEF InHand
<1>2. InQueue \o << >> = InQueue  BY WayType, ConcatEmptySeq
<1>3. QED  BY <1>1, <1>2 DEF OnTheWay

LEMMA WayWithHand ==
  ASSUME Owned, pc = "send"
  PROVE  /\ OnTheWay = InQueue \o (<<content[buf]>> \o AtMac)
         /\ <<content[buf]>> \o AtMac \in Seq(Ids) /\ <<content[buf]>> \o AtMac # << >>
         /\ Tail(<<content[buf]>> \o AtMac) = AtMac
<1>1. /\ InQueue \in Seq(Ids) /\ AtMac \in Seq(Ids) /\ content[buf] \in Ids
      /\ <<content[buf]>> \in Seq(Ids)
  BY WayType
<1>2. InHand = <<content[buf]>>  BY DEF InHand
<1>3. (InQueue \o <<content[buf]>>) \o AtMac = InQueue \o (<<content[buf]>> \o AtMac)
  BY <1>1, ConcatAssociative
<1>4. QED  BY <1>1, <1>2, <1>3, TailOfOne DEF OnTheWay

-----------------------------------------------------------------------------
(* The steps of the channel.                                               *)
Step == [Channel!Next]_<<OnTheWay, received>>

LEMMA Nothing ==
  ASSUME Owned, Owned', evq' = evq, rxq' = rxq, received' = received,
         \A i \in 1 .. Len(evq) : evq[i] # NoBuf => content'[evq[i]] = content[evq[i]],
         pc = "send" <=> pc' = "send",
         pc = "send" => buf' = buf /\ content'[buf] = content[buf]
  PROVE  Step
<1>1. InQueue' = InQueue  BY QueueKept
<1>2. InHand' = InHand  BY DEF InHand
<1>3. AtMac' = AtMac  BY DEF AtMac
<1>4. QED  BY <1>1, <1>2, <1>3, OnTheWayKept DEF Step

LEMMA FrameArrivesStep ==
  ASSUME Owned, Owned', FrameArrives
  PROVE  Step
<1> USE DEF Owned, Types, TypeOK, thread, stack
<1>1. UNCHANGED <<received, evq, content, pc, buf>> /\ count' \in 1 .. MaxFrames
  BY BoundAssumption DEF FrameArrives
<1>2. PICK k \in Kinds : rxq' = Append(rxq, [id |-> count', kind |-> k])  BY DEF FrameArrives
<1> DEFINE e == [id |-> count', kind |-> k]
<1>3. e \in Frame /\ e.id = count'  BY <1>1, <1>2 DEF Frame
<1> HIDE DEF e
<1>4. rxq' = Append(rxq, e)  BY <1>2 DEF e
<1>5. /\ Len(rxq) \in Nat /\ Len(rxq') = Len(rxq) + 1
      /\ \A i \in 1 .. Len(rxq) : rxq'[i] = rxq[i]
      /\ rxq'[Len(rxq) + 1] = e
  BY <1>3, <1>4, AppendRange
<1>6. AtMac' = Append(AtMac, count')
  <2> DEFINE c == AtMac
  <2>1. c = [i \in 1 .. Len(rxq) |-> rxq[i].id] /\ c \in Seq(Ids)  BY WayType DEF AtMac
  <2> DEFINE d == AtMac'
  <2>2. d = [i \in 1 .. Len(rxq) + 1 |-> rxq'[i].id]  BY <1>5 DEF AtMac
  <2>3. d \in Seq(Ids)
    <3>1. \A i \in 1 .. Len(rxq) + 1 : i \in 1 .. Len(rxq) \/ i = Len(rxq) + 1  BY <1>5
    <3>2. \A i \in 1 .. Len(rxq) : rxq[i] \in Frame  OBVIOUS
    <3>3. \A i \in 1 .. Len(rxq) + 1 : rxq'[i] \in Frame  BY <1>3, <1>5, <3>1, <3>2
    <3>4. \A f \in Frame : f.id \in Ids  BY BoundAssumption DEF Frame, Ids
    <3>5. Len(rxq) + 1 \in Nat  BY <1>5
    <3>6. QED  BY <2>2, <3>3, <3>4, <3>5
  <2> HIDE DEF c, d
  <2>4. Len(c) = Len(rxq) /\ Len(d) = Len(rxq) + 1  BY <1>5, <2>1, <2>2, <2>3
  <2> DEFINE w == Append(c, count')
  <2>5. count' \in Ids  BY <1>1 DEF Ids
  <2>6. /\ w \in Seq(Ids) /\ Len(w) = Len(rxq) + 1 /\ w[Len(rxq) + 1] = count'
        /\ \A i \in 1 .. Len(rxq) : w[i] = c[i]
    BY <2>1, <2>4, <2>5, AppendRange
  <2> HIDE DEF w
  <2>7. ASSUME NEW i \in 1 .. Len(w) PROVE d[i] = w[i]
    <3>1. d[i] = rxq'[i].id  BY <2>2, <2>6
    <3>2. CASE i = Len(rxq) + 1  BY <1>3, <1>5, <2>6, <3>1, <3>2
    <3>3. CASE i \in 1 .. Len(rxq)
      <4>1. c[i] = rxq[i].id  BY <2>1, <3>3
      <4>2. QED  BY <1>5, <2>6, <3>1, <3>3, <4>1
    <3>4. QED  BY <1>5, <2>6, <3>2, <3>3
  <2>8. d = w  BY <2>3, <2>4, <2>6, <2>7, SeqEqual
  <2>9. QED  BY <2>8 DEF c, d, w
<1>7. InHand' = InHand  BY <1>1 DEF InHand
<1>8. InQueue' = InQueue  BY <1>1, QueueKept
<1>9. OnTheWay' = Append(OnTheWay, count')
  <2> DEFINE a == InQueue \o InHand
  <2> DEFINE c == AtMac
  <2> DEFINE n == <<count'>>
  <2>1. count' \in Ids  BY <1>1 DEF Ids
  <2>2. a \in Seq(Ids) /\ c \in Seq(Ids) /\ n \in Seq(Ids)
    BY <2>1, WayType, ConcatProperties
  <2>3. OnTheWay = a \o c /\ OnTheWay' = a \o Append(c, count')
    BY <1>6, <1>7, <1>8, Zenon DEF OnTheWay
  <2> HIDE DEF a, c
  <2>4. a \o c \in Seq(Ids)  BY <2>2, ConcatProperties
  <2>5. Append(c, count') = c \o n  BY <2>1, <2>2, AppendIsConcat
  <2>6. Append(a \o c, count') = (a \o c) \o n  BY <2>1, <2>4, AppendIsConcat
  <2> HIDE DEF n
  <2>7. a \o (c \o n) = (a \o c) \o n  BY ONLY <2>2, ConcatAssociative
  <2>8. OnTheWay' = Append(a \o c, count')  BY <2>3, <2>5, <2>6, <2>7, Zenon
  <2>9. QED  BY <2>3, <2>8, Zenon
<1>10. Channel!Arrive(count')  BY <1>1, <1>9 DEF Channel!Arrive
<1>11. QED  BY <1>1, <1>10 DEF Step, Channel!Next

LEMMA ReadFrameStep ==
  ASSUME ~ReadErrors, Owned, Owned', ReadFrame
  PROVE  Step
<1> USE DEF Owned, Types, Hand, stack
<1>1. UNCHANGED <<evq, received, buf>> /\ pc = "read" /\ rxq # << >> /\ buf \in Buffers
  BY DEF ReadFrame, TypeOK
<1>2. \A i \in 1 .. Len(evq) : evq[i] # buf
  BY <1>1 DEF BuffersConserved, EthHolds, Queued, InRange
<1>3. CASE rxq' = Tail(rxq) /\ content' = [content EXCEPT ![buf] = Head(rxq).id]
  <2>1. \A i \in 1 .. Len(evq) : evq[i] # NoBuf => content'[evq[i]] = content[evq[i]]
    BY <1>2, <1>3, WayType
  <2>2. InQueue' = InQueue  BY <1>1, <2>1, QueueKept
  <2>3. AtMac # << >> /\ AtMac' = Tail(AtMac) /\ Head(AtMac) = Head(rxq).id
    BY <1>1, <1>3, MacTail
  <2>4. OnTheWay = InQueue \o AtMac  BY <1>1, WayWithoutHand
  <2>5. CASE Head(rxq).kind = "good"
    <3>1. pc' = "send"  BY <1>1, <1>3, <2>5 DEF ReadFrame
    <3>2. content'[buf] = Head(AtMac)  BY <1>1, <1>3, <2>3, WayType
    <3>3. InHand' = <<Head(AtMac)>>  BY <1>1, <3>1, <3>2 DEF InHand
    <3> DEFINE a == InQueue
    <3> DEFINE h == <<Head(AtMac)>>
    <3> DEFINE c == Tail(AtMac)
    <3>4. a \in Seq(Ids) /\ h \in Seq(Ids) /\ c \in Seq(Ids)
      BY <2>3, WayType, TailRange
    <3>5. AtMac = h \o c  BY <2>3, WayType, HeadOff
    <3>6. OnTheWay' = (a \o h) \o c  BY <2>2, <2>3, <3>3, Zenon DEF OnTheWay
    <3>7. OnTheWay = a \o AtMac  BY <2>4
    <3> HIDE DEF a, h, c
    <3>8. (a \o h) \o c = a \o (h \o c)  BY ONLY <3>4, ConcatAssociative
    <3>9. OnTheWay' = OnTheWay  BY <3>5, <3>6, <3>7, <3>8, Zenon
    <3>10. QED  BY <1>1, <3>9 DEF Step
  <2>6. CASE Head(rxq).kind # "good"
    <3>1. pc' = "release"  BY <1>1, <1>3, <2>6 DEF ReadFrame
    <3>2. OnTheWay' = InQueue \o Tail(AtMac)
      <4>1. InHand' = << >>  BY <3>1 DEF InHand
      <4>2. InQueue \o << >> = InQueue  BY WayType, ConcatEmptySeq
      <4>3. OnTheWay' = (InQueue \o << >>) \o Tail(AtMac)
        BY <2>2, <2>3, <4>1, Zenon DEF OnTheWay
      <4>4. QED  BY <4>2, <4>3, Zenon
    <3>3. QED  BY <1>1, <2>3, <2>4, <3>2, WayType, LoseNext DEF Step
  <2>7. QED  BY <2>5, <2>6
<1>4. CASE UNCHANGED <<content, rxq>> /\ pc' = "dump"
  BY <1>1, <1>4, Nothing
<1>5. QED  BY <1>3, <1>4 DEF ReadFrame

LEMMA SendEventStep ==
  ASSUME Owned, Owned', SendEvent
  PROVE  Step
<1> USE DEF Owned, Types, Hand, mac
<1>1. UNCHANGED <<rxq, content, received>> /\ pc = "send" /\ buf \in Buffers /\ buf # NoBuf
  BY BufAssumption DEF SendEvent, TypeOK
<1>2. AtMac' = AtMac  BY <1>1 DEF AtMac
<1>3. InHand = <<content[buf]>>  BY <1>1 DEF InHand
<1>4. CASE evq' = Append(evq, buf)
  <2>1. pc' = "size"  BY <1>4, <1>1 DEF SendEvent, TypeOK
  <2>2. InHand' = << >>  BY <2>1 DEF InHand
  <2>3. evq \in Queues /\ Len(evq) \in Nat /\ Len(evq') = Len(evq) + 1
    BY <1>1, <1>4, WayType, AppendRange DEF TypeOK
  <2>4. InQueue' = Append(InQueue, content[buf])
    <3>1. Carried(Append(evq, buf), content)[Len(evq) + 1]
            = Append(Carried(evq, content)[Len(evq)], content[buf])
      BY <1>1, <2>3, CarriedAppend
    <3>2. QED  BY <1>1, <1>4, <2>3, <3>1 DEF InQueue
  <2>5. InQueue' = InQueue \o <<content[buf]>>
    BY <1>1, <2>4, WayType, AppendIsConcat
  <2>6. (InQueue \o <<content[buf]>>) \in Seq(Ids)
    BY <1>1, WayType, ConcatProperties
  <2>7. (InQueue \o <<content[buf]>>) \o << >> = InQueue \o <<content[buf]>>
    BY <2>6, ConcatEmptySeq
  <2>8. OnTheWay' = OnTheWay
    BY <1>2, <1>3, <2>2, <2>5, <2>7, Zenon DEF OnTheWay
  <2>9. QED  BY <1>1, <2>8 DEF Step
<1>5. CASE UNCHANGED <<evq, buf>> /\ pc' = "release"
  <2>1. InQueue' = InQueue  BY <1>1, <1>5, QueueKept
  <2>2. InHand' = << >>  BY <1>5 DEF InHand
  <2>3. InQueue \o << >> = InQueue  BY WayType, ConcatEmptySeq
  <2> DEFINE d == <<content[buf]>> \o AtMac
  <2>4. OnTheWay = InQueue \o d /\ d \in Seq(Ids) /\ d # << >> /\ Tail(d) = AtMac
    BY <1>1, WayWithHand
  <2> HIDE DEF d
  <2>5. OnTheWay' = InQueue \o Tail(d)
    BY <1>2, <2>1, <2>2, <2>3, <2>4, Zenon DEF OnTheWay
  <2>6. QED  BY <1>1, <2>4, <2>5, WayType, LoseNext DEF Step
<1>6. QED  BY <1>4, <1>5 DEF SendEvent

LEMMA DumpFrameStep ==
  ASSUME Owned, Owned', DumpFrame
  PROVE  Step
<1> USE DEF Owned, Types, Hand, stack
<1>1. /\ UNCHANGED <<evq, received, content, buf>> /\ pc = "dump" /\ rxq # << >>
      /\ rxq' = Tail(rxq) /\ pc' # "send"
  BY DEF DumpFrame
<1>2. InQueue' = InQueue  BY <1>1, QueueKept
<1>3. AtMac # << >> /\ AtMac' = Tail(AtMac)  BY <1>1, MacTail
<1>4. OnTheWay = InQueue \o AtMac  BY <1>1, WayWithoutHand
<1>5. OnTheWay' = InQueue \o Tail(AtMac)
  <2>1. InHand' = << >>  BY <1>1 DEF InHand
  <2>2. InQueue \o << >> = InQueue  BY WayType, ConcatEmptySeq
  <2>3. OnTheWay' = (InQueue \o << >>) \o Tail(AtMac)
    BY <1>2, <1>3, <2>1, Zenon DEF OnTheWay
  <2>4. QED  BY <2>2, <2>3, Zenon
<1>6. QED  BY <1>1, <1>3, <1>4, <1>5, WayType, LoseNext DEF Step

LEMMA OtherEventStep ==
  ASSUME Owned, Owned', OtherEvent
  PROVE  Step
<1> USE DEF Owned, Types, Hand, mac, thread
<1>1. UNCHANGED <<rxq, content, received, pc, buf>> /\ evq' = Append(evq, NoBuf)
  BY DEF OtherEvent
<1>2. evq \in Queues /\ Len(evq) \in Nat /\ Len(evq') = Len(evq) + 1
  BY <1>1, WayType, AppendRange DEF TypeOK
<1>3. Carried(Append(evq, NoBuf), content)[Len(evq) + 1] = Carried(evq, content)[Len(evq)]
  BY <1>2, CarriedAppend
<1>4. InQueue' = InQueue  BY <1>1, <1>2, <1>3 DEF InQueue
<1>5. InHand' = InHand  BY <1>1 DEF InHand
<1>6. AtMac' = AtMac  BY <1>1 DEF AtMac
<1>7. QED  BY <1>1, <1>4, <1>5, <1>6, OnTheWayKept DEF Step

LEMMA TakeEventStep ==
  ASSUME Owned, Owned', TakeEvent
  PROVE  Step
<1> USE DEF Owned, Types, Hand, mac, thread
<1>1. /\ UNCHANGED <<rxq, content, pc, buf>> /\ evq # << >> /\ evq' = Tail(evq)
      /\ received' = IF Head(evq) = NoBuf THEN received
                                          ELSE Append(received, content[Head(evq)])
  BY DEF TakeEvent
<1>2. evq \in Queues /\ content \in [Buffers -> Ids]  BY WayType
<1>3. Carried(evq, content)[Len(evq)]
        = First(evq, content) \o Carried(Tail(evq), content)[Len(Tail(evq))]
  BY <1>1, <1>2, CarriedTail
<1>4. InQueue' = Carried(Tail(evq), content)[Len(Tail(evq))]  BY <1>1 DEF InQueue
<1>5. InQueue = First(evq, content) \o InQueue'  BY <1>3, <1>4 DEF InQueue
<1>6. InHand' = InHand /\ AtMac' = AtMac  BY <1>1 DEF InHand, AtMac
<1> DEFINE q == InQueue'
<1>7. q \in Seq(Ids)
  <2>1. Tail(evq) \in Queues /\ Len(Tail(evq)) \in Nat  BY <1>1, <1>2, TailRange DEF Queues
  <2>2. Len(Tail(evq)) \in 0 .. Len(Tail(evq))  BY <2>1
  <2>3. QED  BY <1>2, <1>4, <2>1, <2>2, CarriedType
<1>8. CASE Head(evq) = NoBuf
  <2>1. First(evq, content) = << >>  BY <1>8 DEF First
  <2> HIDE DEF q
  <2>2. << >> \o q = q  BY <1>7, ConcatEmptySeq
  <2>3. InQueue' = InQueue  BY <1>5, <2>1, <2>2, Zenon DEF q
  <2>4. QED  BY <1>1, <1>6, <1>8, <2>3, OnTheWayKept DEF Step
<1>9. CASE Head(evq) # NoBuf
  <2> DEFINE x == content[Head(evq)]
  <2> DEFINE n == <<x>>
  <2> DEFINE b == InHand
  <2> DEFINE c == AtMac
  <2>1. First(evq, content) = n  BY <1>9 DEF First
  <2>2. x \in Ids
    <3>1. Head(evq) \in Buffers \cup {NoBuf}  BY <1>1, <1>2, TailRange DEF Queues
    <3>2. QED  BY <1>2, <1>9, <3>1
  <2>3. q \in Seq(Ids) /\ n \in Seq(Ids) /\ b \in Seq(Ids) /\ c \in Seq(Ids)
    BY <1>7, <2>2, WayType
  <2>4. OnTheWay = ((n \o q) \o b) \o c  BY <1>5, <2>1, Zenon DEF OnTheWay
  <2>5. OnTheWay' = (q \o b) \o c  BY <1>6, Zenon DEF OnTheWay
  <2>6. received' = Append(received, x)  BY <1>1, <1>9
  <2> HIDE DEF q, b, c
  <2> DEFINE w == (q \o b) \o c
  <2>7. w \in Seq(Ids)  BY ONLY <2>3, ConcatProperties
  <2>8. <<x>> \o w # << >> /\ Head(<<x>> \o w) = x /\ Tail(<<x>> \o w) = w
    BY <2>2, <2>7, TailOfOne
  <2> HIDE DEF n
  <2>9. ((n \o q) \o b) \o c = n \o w
    <3>1. q \o b \in Seq(Ids)  BY ONLY <2>3, ConcatProperties
    <3>2. (n \o q) \o b = n \o (q \o b)  BY ONLY <2>3, ConcatAssociative
    <3> DEFINE r == q \o b
    <3> HIDE DEF r
    <3>3. r \in Seq(Ids)  BY <3>1 DEF r
    <3>4. (n \o r) \o c = n \o (r \o c)  BY ONLY <2>3, <3>3, ConcatAssociative
    <3>5. QED  BY <3>2, <3>4, Zenon DEF r
  <2> HIDE DEF w
  <2>10. OnTheWay = <<x>> \o w /\ OnTheWay' = w
    BY <2>4, <2>5, <2>9, Zenon DEF w, n
  <2> HIDE DEF x
  <2>11. Channel!Deliver  BY <2>6, <2>8, <2>10, Zenon DEF Channel!Deliver
  <2>12. QED  BY <2>11 DEF Step, Channel!Next
<1>10. QED  BY <1>8, <1>9

LEMMA NewPacketStep ==
  ASSUME Owned, Owned', NewPacket
  PROVE  Step
<1> USE DEF Owned, Types, TypeOK, Hand, mac, thread
<1>1. PICK b \in free : content' = [content EXCEPT ![b] = 0]  BY DEF NewPacket
<1>2. \A i \in 1 .. Len(evq) : evq[i] # b
  BY <1>1 DEF BuffersConserved, Queued, InRange
<1>3. pc = "send" => buf # b  BY <1>1 DEF BuffersConserved, EthHolds
<1>4. QED  BY <1>1, <1>2, <1>3, Nothing DEF NewPacket

LEMMA ChannelStep == ~ReadErrors /\ Owned /\ Owned' /\ [Next]_vars => [Channel!Next]_<<OnTheWay, received>>
<1> SUFFICES ASSUME ~ReadErrors, Owned, Owned', [Next]_vars PROVE Step
  BY DEF Step
<1> USE DEF mac, thread, stack
<1>1. CASE LinkUp  BY <1>1, Nothing DEF LinkUp
<1>2. CASE FlagsWait  BY <1>2, Nothing DEF FlagsWait
<1>3. CASE GetRxFrameSize  BY <1>3, Nothing DEF GetRxFrameSize
<1>4. CASE GetNetworkBuffer  BY <1>4, Nothing DEF GetNetworkBuffer
<1>5. CASE ReadFrame  BY <1>5, ReadFrameStep
<1>6. CASE SendEvent  BY <1>6, SendEventStep
<1>7. CASE DumpFrame  BY <1>7, DumpFrameStep
<1>8. CASE ReleaseBuffer  BY <1>8, Nothing DEF ReleaseBuffer
<1>9. CASE ETH_MAC_SignalEvent  BY <1>9, Nothing DEF ETH_MAC_SignalEvent
<1>10. CASE CreateThread  BY <1>10, Nothing DEF CreateThread, Owned, Types, Hand
<1>11. CASE SetTid  BY <1>11, Nothing DEF SetTid
<1>12. CASE TakeEvent  BY <1>12, TakeEventStep
<1>13. CASE NewPacket  BY <1>13, NewPacketStep
<1>14. CASE Output  BY <1>14, Nothing DEF Output
<1>15. CASE LinkChanges  BY <1>15, Nothing DEF LinkChanges
<1>16. CASE FrameArrives  BY <1>16, FrameArrivesStep
<1>17. CASE OtherEvent  BY <1>17, OtherEventStep
<1>18. CASE UNCHANGED vars  BY <1>18, Nothing DEF vars
<1>19. QED
  BY <1>1, <1>2, <1>3, <1>4, <1>5, <1>6, <1>7, <1>8, <1>9, <1>10, <1>11, <1>12, <1>13,
     <1>14, <1>15, <1>16, <1>17, <1>18 DEF Next, ETH_Thread, IPTask, Environment

LEMMA ChannelInit == Init => Channel!Init
<1> SUFFICES ASSUME Init PROVE Channel!Init
  OBVIOUS
<1>1. evq = << >> /\ rxq = << >> /\ received = << >> /\ pc = "none"  BY DEF Init
<1>2. InQueue = << >>
  <2>1. Len(<< >>) = 0 /\ 0 \in Nat  OBVIOUS
  <2>2. 0 \in 0 .. Len(<< >>)  BY <2>1
  <2>3. Carried(<< >>, content)[0] = CarriedAt(Carried(<< >>, content), << >>, content, 0)
    BY <2>1, <2>2, CarriedStep
  <2>4. QED  BY <1>1, <2>1, <2>3 DEF InQueue, CarriedAt
<1>3. InHand = << >>  BY <1>1 DEF InHand
<1>4. AtMac = << >>
  <2>1. 1 .. Len(rxq) = {}  BY <1>1
  <2>2. QED  BY <2>1 DEF AtMac
<1>5. << >> \o << >> = << >>  OBVIOUS
<1>6. OnTheWay = << >>  BY <1>2, <1>3, <1>4, <1>5, Zenon DEF OnTheWay
<1>7. QED  BY <1>1, <1>6 DEF Channel!Init

(* With a driver that reports no error from ReadFrame, the interface is a  *)
(* channel: every behaviour of it is one of FrameChannel.                  *)
THEOREM ChannelIsImplemented ==
  ASSUME ~ReadErrors
  PROVE  Spec => ImplementsChannel
<1>1. Init => Owned  BY InitType, InitConserved DEF Owned, Types
<1>2. Owned /\ [Next]_vars => Owned'  BY TypeStep, ConservedStep DEF Owned, Types
<1>3. Owned /\ Owned' /\ [Next]_vars => [Channel!Next]_<<OnTheWay, received>>
  BY ~ReadErrors, ChannelStep
<1>4. QED  BY <1>1, <1>2, <1>3, ChannelInit, PTL DEF Spec, Channel!Spec, ImplementsChannel
=============================================================================
