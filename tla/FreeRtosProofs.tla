---------------------------- MODULE FreeRtosProofs ----------------------------
(***************************************************************************)
(* Theorems about FreeRtosLayer, for any threads, heap and timeouts.       *)
(***************************************************************************)
EXTENDS FreeRtosLayer, TLAPS

-----------------------------------------------------------------------------
(***************************************************************************)
(* The start-up.  The counter is a number of whole steps, so that it does  *)
(* not go below 0; as long as the network was never up every round is a    *)
(* delay.                                                                  *)
(***************************************************************************)
Rounds(n) == \E k \in Nat : n = k * StartupStep

Flags  == seenUp \in BOOLEAN /\ stackReady \in BOOLEAN /\ wasUp \in BOOLEAN
Counts == /\ NetUp \in {0, 1}
          /\ spc \in {"init", "loop", "delay", "test", "up", "down", "running"}
          /\ tout \in 0 .. StartupTimeout
          /\ waited \in 0 .. StartupTimeout

Course ==
  /\ Rounds(tout)
  /\ spc \in {"loop", "delay"} => stackReady
  /\ spc = "delay" => tout # 0
  /\ spc \in {"test", "down"} => tout = 0
  /\ spc \in {"up", "running"} => stackReady /\ wasUp
  /\ wasUp => stackReady
  /\ ~wasUp => NetUp = 0 /\ ~seenUp
  /\ waited + tout \in 0 .. StartupTimeout
  /\ stackReady /\ ~wasUp /\ spc # "init" => waited + tout = StartupTimeout
  /\ spc = "init" => ~stackReady /\ waited = 0 /\ tout = 0

StartInv == Flags /\ Counts /\ Course

LEMMA StartTypes == StartInv => StartupTypeOK
  BY DEF StartInv, Flags, Counts, StartupTypeOK

LEMMA RoundsLess ==
  ASSUME NEW n \in Nat, Rounds(n), n # 0
  PROVE  n - StartupStep \in Nat /\ Rounds(n - StartupStep)
<1>1. PICK k \in Nat : n = k * StartupStep
  BY DEF Rounds
<1>2. StartupStep \in Nat \ {0}
  BY StartupAssumption
<1>3. k - 1 \in Nat
  BY <1>1, <1>2
<1>4. n - StartupStep = (k - 1) * StartupStep
  BY <1>1, <1>2, <1>3
<1>5. (k - 1) * StartupStep \in Nat
  BY <1>2, <1>3
<1>. QED  BY <1>3, <1>4, <1>5 DEF Rounds

LEMMA RoundsFull == Rounds(StartupTimeout) /\ Rounds(0)
<1>1. Rounds(StartupTimeout)
  <2>1. /\ StartupTimeout \div StartupStep \in Nat
        /\ StartupTimeout = (StartupTimeout \div StartupStep) * StartupStep
    BY StartupAssumption
  <2>. QED  BY <2>1 DEF Rounds
<1>2. 0 \in Nat /\ 0 = 0 * StartupStep
  BY StartupAssumption
<1>. QED  BY <1>1, <1>2 DEF Rounds

LEMMA StartupConstants == StartupTimeout \in Nat /\ StartupStep \in Nat \ {0}
  BY StartupAssumption

LEMMA StartInit == StartupInit => StartInv
<1>. SUFFICES ASSUME StartupInit PROVE StartInv
  OBVIOUS
<1>1. Flags
  BY DEF StartupInit, Flags
<1>2. Counts
  BY StartupConstants DEF StartupInit, Counts
<1>3. Course
  BY RoundsFull, StartupConstants DEF StartupInit, Course
<1>. QED  BY <1>1, <1>2, <1>3 DEF StartInv

LEMMA StartStep == StartInv /\ (StartupStepTaken \/ NetworkEvent) => StartInv'
<1>. SUFFICES ASSUME StartInv, StartupStepTaken \/ NetworkEvent PROVE StartInv'
  OBVIOUS
<1>. USE StartupConstants
<1>1. CASE IpInit
  <2>1. Flags'
    BY <1>1 DEF IpInit, StartInv, Flags
  <2>2. Counts'
    BY <1>1 DEF IpInit, StartInv, Counts
  <2>3. Rounds(tout')
    BY <1>1, RoundsFull DEF IpInit, StartInv, Course
  <2>4. Course'
    <3>1. /\ spc = "init" /\ ~stackReady /\ waited = 0 /\ tout = 0 /\ ~wasUp
          /\ NetUp = 0 /\ ~seenUp
      BY <1>1 DEF IpInit, StartInv, Course
    <3>2. CASE stackReady' = TRUE /\ spc' = "loop" /\ tout' = StartupTimeout
      BY <1>1, <2>3, <3>1, <3>2 DEF IpInit, Course, Rounds
    <3>3. CASE spc' = "test" /\ UNCHANGED <<stackReady, tout>>
      BY <1>1, <2>3, <3>1, <3>3 DEF IpInit, Course, Rounds
    <3>. QED  BY <1>1, <3>2, <3>3 DEF IpInit
  <2>. QED  BY <2>1, <2>2, <2>4 DEF StartInv
<1>2. CASE Look \/ Delayed
  <2>1. tout \in Nat /\ tout # 0 /\ Rounds(tout)
    BY <1>2 DEF Look, Delayed, StartInv, Counts, Course
  <2>2. tout - StartupStep \in Nat /\ Rounds(tout - StartupStep)
    BY <2>1, RoundsLess
  <2>3. Rounds(tout')
    BY <1>2, <2>1, <2>2 DEF Look, Delayed
  <2>4. Flags'
    BY <1>2 DEF Look, Delayed, StartInv, Flags
  <2>5. Counts' /\ Course'
    <3>1. CASE Look
      BY <2>2, <2>3, <3>1 DEF Look, ReadNetUp, StartInv, Counts, Course, Rounds
    <3>2. CASE Delayed
      BY <2>2, <2>3, <3>2 DEF Delayed, StartInv, Counts, Course, Rounds
    <3>. QED  BY <1>2, <3>1, <3>2
  <2>. QED  BY <2>4, <2>5 DEF StartInv
<1>3. CASE LoopEnds \/ Outcome \/ NetworkEvent
  <2>1. Flags'
    BY <1>3 DEF LoopEnds, Outcome, NetworkEvent, StartInv, Flags
  <2>2. Counts'
    BY <1>3 DEF LoopEnds, Outcome, NetworkEvent, StartInv, Counts
  <2>3. Course'
    <3>1. CASE LoopEnds
      BY <3>1 DEF LoopEnds, StartInv, Course, Rounds
    <3>2. CASE Outcome
      BY <3>2 DEF Outcome, ReadNetUp, StartInv, Course, Rounds
    <3>3. CASE NetworkEvent
      BY <3>3 DEF NetworkEvent, StartInv, Course, Rounds
    <3>. QED  BY <1>3, <3>1, <3>2, <3>3
  <2>. QED  BY <2>1, <2>2, <2>3 DEF StartInv
<1>. QED  BY <1>1, <1>2, <1>3 DEF StartupStepTaken

(***************************************************************************)
(* The start-up and the application: calls are made only while it runs.    *)
(***************************************************************************)
QuietBefore == spc # "running" => \A t \in Threads : pc[t] = "idle"

LayerInv == StartInv /\ QuietBefore

LEMMA AppStartsStep == StartInv /\ AppStarts => StartInv'
<1>. SUFFICES ASSUME StartInv, AppStarts PROVE StartInv'
  OBVIOUS
<1>. USE StartupConstants
<1>1. spc = "up" /\ stackReady /\ wasUp
  BY DEF AppStarts, StartInv, Course
<1>2. Flags'
  BY DEF AppStarts, StartInv, Flags
<1>3. Counts'
  BY DEF AppStarts, Counts
<1>4. Rounds(tout')
  BY RoundsFull DEF AppStarts
<1>5. Course'
  BY <1>1, <1>4 DEF AppStarts, Course, Rounds
<1>. QED  BY <1>2, <1>3, <1>5 DEF StartInv

LEMMA StartUnchanged == StartInv /\ UNCHANGED startup => StartInv'
  BY DEF startup, StartInv, Flags, Counts, Course, Rounds

LEMMA LayerInit == Init => LayerInv
<1>. SUFFICES ASSUME Init PROVE LayerInv
  OBVIOUS
<1>1. StartInv
  BY StartInit DEF Init
<1>2. QuietBefore
  BY DEF Init, CallsInit, QuietBefore
<1>. QED  BY <1>1, <1>2 DEF LayerInv

LEMMA LayerStep == LayerInv /\ [Next]_vars => LayerInv'
<1>. SUFFICES ASSUME LayerInv, [Next]_vars PROVE LayerInv'
  OBVIOUS
<1>1. CASE Starting
  <2>1. StartInv'
    BY <1>1, StartStep DEF Starting, LayerInv
  <2>2. spc # "running"
    BY <1>1 DEF Starting, StartupStepTaken, IpInit, Look, Delayed, LoopEnds, Outcome
  <2>3. QuietBefore'
    BY <1>1, <2>2 DEF Starting, calls, LayerInv, QuietBefore
  <2>. QED  BY <2>1, <2>3 DEF LayerInv
<1>2. CASE AppStarts
  <2>1. StartInv'
    BY <1>2, AppStartsStep DEF LayerInv
  <2>2. QuietBefore'
    BY <1>2 DEF AppStarts, QuietBefore
  <2>. QED  BY <2>1, <2>2 DEF LayerInv
<1>3. CASE Running
  <2>1. StartInv'
    BY <1>3, StartUnchanged DEF Running, LayerInv
  <2>2. QuietBefore'
    BY <1>3 DEF Running, startup, QuietBefore
  <2>. QED  BY <2>1, <2>2 DEF LayerInv
<1>4. CASE UNCHANGED vars
  <2>1. StartInv'
    BY <1>4, StartUnchanged DEF vars, LayerInv
  <2>2. QuietBefore'
    BY <1>4 DEF vars, startup, calls, LayerInv, QuietBefore
  <2>. QED  BY <2>1, <2>2 DEF LayerInv
<1>. QED  BY <1>1, <1>2, <1>3, <1>4 DEF Next

LEMMA LayerAlways == Spec => []LayerInv
<1>. QED  BY LayerInit, LayerStep, PTL DEF Spec

(* The API is used only with a stack that runs and a network that has been *)
(* up (StackIsThere), because socket_startup lets the application go on in *)
(* no other case, for any length of the wait and of its steps.             *)
THEOREM StackIsThereAlways == Spec => []StackIsThere
<1>1. LayerInv => StackIsThere
  BY DEF LayerInv, StartInv, Course, QuietBefore, StackIsThere
<1>. QED  BY <1>1, LayerAlways, PTL

(* A network that never came up is called down only after the whole of the *)
(* announced wait (StartupWaits): as long as it was not up every round of  *)
(* the loop is a delay, and the delays and the counter add up to it.       *)
THEOREM StartupWaitsInFull == Spec => []StartupWaits
<1>1. StartInv => StartupWaits
  BY StartupConstants DEF StartInv, Counts, Course, StartupWaits
<1>2. LayerInv => StartupWaits
  BY <1>1 DEF LayerInv
<1>. QED  BY <1>2, LayerAlways, PTL
=============================================================================
