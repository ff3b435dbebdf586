-------------------------- MODULE RpmCap_proofs ----------------------------
(***************************************************************************)
(* The measuring pipeline of rpm_cap.c - interrupt, signal-lost timer,     *)
(* converter task and averager task - for every width of the counter, every *)
(* set of timeouts and of windows, and every length of its rings.          *)
(***************************************************************************)
EXTENDS RpmCap, WellFoundedInduction, TLAPS

-----------------------------------------------------------------------------
(* Types: the fifos stay within their rings, every index within its own,   *)
(* and every speed is a number but that of a word 0.                       *)

LEMMA SentinelIs == timeout \in Timeout => Sentinel \in Msb..(Wrap - 1)
<1> SUFFICES ASSUME timeout \in Timeout PROVE Sentinel \in Msb..(Wrap - 1)
  OBVIOUS
<1> DEFINE a == IF timeout > Wrap - 1 THEN Wrap - 1 ELSE timeout
<1>1. a \in Nat /\ Msb \in Nat \ {0} /\ Wrap = 2 * Msb
  BY EdgeAssumption
<1> HIDE DEF a
<1>2. a % Msb \in 0..(Msb - 1)
  BY <1>1
<1>3. Sentinel = Msb + (a % Msb)
  BY DEF Sentinel, a
<1> QED
  BY <1>1, <1>2, <1>3

LEMMA MeasuredIs == age \in 0..MaxAge => Measured \in 0..(Wrap - 1)
<1> SUFFICES ASSUME age \in 0..MaxAge PROVE age % Wrap \in 0..(Wrap - 1)
  BY DEF Measured
<1>1. age \in Nat /\ Wrap \in Nat \ {0}
  BY EdgeAssumption
<1> QED
  BY <1>1

LEMMA AfterIs ==
  ASSUME NEW i \in Slots
  PROVE  After(i) \in Slots /\ \A k \in Slots : After(k) = After(i) => k = i
BY EdgeAssumption DEF After, Slots

LEMMA PushType ==
  ASSUME NEW w \in Word, EdgeTypeOK, Push(w)
  PROVE  freqFifo' \in [slot: [Slots -> Word], head: Slots, tail: Slots] /\ lost' \in BOOLEAN
<1>1. freqFifo \in [slot: [Slots -> Word], head: Slots, tail: Slots]
      /\ After(freqFifo.head) \in Slots
  BY AfterIs DEF EdgeTypeOK
<1> QED
  BY <1>1 DEF Push

\* The fields that are neither the fifo's nor the timer's.
LEMMA EdgeType ==
  ASSUME EdgeTypeOK, ProducerStep \/ ChangeTimeout \/ TimeStep
  PROVE  EdgeTypeOK'
<1>1. CASE FastEdge
  BY <1>1, EdgeAssumption DEF FastEdge, EdgeTypeOK
<1>2. CASE PeriodEdge
  <2>1. Measured \in Word
    BY MeasuredIs DEF EdgeTypeOK, Word
  <2>2. /\ freqFifo' \in [slot: [Slots -> Word], head: Slots, tail: Slots]
        /\ lost' \in BOOLEAN
    BY <1>2, <2>1, PushType DEF PeriodEdge
  <2> QED
    BY <1>2, <2>2, EdgeAssumption DEF PeriodEdge, EdgeTypeOK
<1>3. CASE FirstEdge
  BY <1>3, EdgeAssumption DEF FirstEdge, EdgeTypeOK
<1>4. CASE EdgeNotify
  BY <1>4 DEF EdgeNotify, EdgeTypeOK
<1>5. CASE EdgeRearm
  BY <1>5, EdgeAssumption DEF EdgeRearm, EdgeTypeOK, Off
<1>6. CASE Expire
  BY <1>6, EdgeAssumption DEF Expire, EdgeTypeOK, Off, Pushing
<1>7. CASE TimeoutStep
  <2> DEFINE Steps == Pushing \cup {"idle", "notify", "reset"}
  <2>1. /\ {"room", "word", "publish", "notify", "reset", "idle"} \subseteq Steps
        /\ tcb \in [pc: Steps, head: Slots, word: Word] /\ 0 \in Slots /\ 0 \in Word
        /\ freqFifo \in [slot: [Slots -> Word], head: Slots, tail: Slots]
    BY EdgeAssumption DEF Pushing, EdgeTypeOK, Slots, Word
  <2> HIDE DEF Steps
  <2>2. Sentinel \in Word
    BY SentinelIs, EdgeAssumption DEF EdgeTypeOK, Word
  <2>3. After(tcb.head) \in Slots
    BY <2>1, AfterIs
  <2>4. tcb' \in [pc: Steps, head: Slots, word: Word]
    <3>1. CASE TimeoutHead
      BY <2>1, <2>2, <3>1 DEF TimeoutHead
    <3>2. CASE TimeoutRoom
      <4>1. (IF After(tcb.head) = freqFifo.tail THEN "notify" ELSE "word") \in Steps
        BY <2>1
      <4> QED
        BY <2>1, <3>2, <4>1 DEF TimeoutRoom
    <3>3. CASE TimeoutWord \/ TimeoutPublish \/ TimeoutNotify
      BY <2>1, <3>3 DEF TimeoutWord, TimeoutPublish, TimeoutNotify
    <3>4. CASE TimeoutReset
      BY <2>1, <3>4 DEF TimeoutReset, TimerOff
    <3> QED
      BY <1>7, <3>1, <3>2, <3>3, <3>4 DEF TimeoutStep
  <2>5. /\ freqFifo' \in [slot: [Slots -> Word], head: Slots, tail: Slots]
        /\ lost' \in BOOLEAN /\ havePrev' \in BOOLEAN /\ convNote' \in BOOLEAN
        /\ UNCHANGED <<age, timeout, timer, isr>>
    <3>1. CASE TimeoutHead \/ TimeoutNotify \/ TimeoutReset
      BY <3>1 DEF TimeoutHead, TimeoutNotify, TimeoutReset, EdgeTypeOK
    <3>2. CASE TimeoutRoom
      BY <3>2 DEF TimeoutRoom, EdgeTypeOK
    <3>3. CASE TimeoutWord
      BY <2>1, <3>3 DEF TimeoutWord, EdgeTypeOK
    <3>4. CASE TimeoutPublish
      BY <2>1, <2>3, <3>4 DEF TimeoutPublish, EdgeTypeOK
    <3> QED
      BY <1>7, <3>1, <3>2, <3>3, <3>4 DEF TimeoutStep
  <2> QED
    BY <2>4, <2>5 DEF EdgeTypeOK, Steps
<1>8. CASE ChangeTimeout
  BY <1>8 DEF ChangeTimeout, SetTimeout, EdgeTypeOK
<1>9. CASE TimeStep
  BY <1>9, EdgeAssumption DEF TimeStep, Tick, EdgeTypeOK, Off
<1> QED
  BY <1>1, <1>2, <1>3, <1>4, <1>5, <1>6, <1>7, <1>8, <1>9
     DEF ProducerStep, Edge, IsrStep

LEMMA AverageType ==
  ASSUME AvgTypeOK, NEW rpm \in Nat, Average(rpm)
  PROVE  AvgTypeOK'
<1> DEFINE w == Clamped(window)
<1>1. w \in 1..HistoryLen /\ HistoryLen \in Nat \ {0}
  BY AveragerAssumption DEF AvgTypeOK, Clamped
<1> HIDE DEF w
<1>2. \A n \in Nat : n % HistoryLen \in Index
  BY <1>1 DEF Index
<1>3. history' \in [ring: [Index -> Nat], head: Index, filled: 0..HistoryLen]
  <2>1. history.ring \in [Index -> Nat] /\ history.head \in Index
        /\ history.filled \in 0..HistoryLen /\ history.head + 1 \in Nat
    <3>1. history.head \in Index /\ history.ring \in [Index -> Nat]
          /\ history.filled \in 0..HistoryLen
      BY DEF AvgTypeOK
    <3>2. history.head + 1 \in Nat
      BY <1>1, <3>1 DEF Index
    <3> QED
      BY <3>1, <3>2
  <2>2. (history.head + 1) % HistoryLen \in Index
    BY <1>2, <2>1
  <2>3. (IF history.filled < HistoryLen THEN history.filled + 1 ELSE history.filled)
        \in 0..HistoryLen
    BY <1>1, <2>1
  <2> QED
    BY <2>1, <2>2, <2>3 DEF Average, AddToHistory
<1>4. /\ mavg.ring \in [Index -> Nat] /\ mavg.head \in Index
      /\ mavg.filled \in 0..HistoryLen /\ mavg.sum \in Int
  BY DEF AvgTypeOK
<1>5. (mavg.head + 1) % HistoryLen \in Index /\ mavg.ring[Oldest(w)] \in Nat
  <2>1. mavg.head + 1 \in Nat /\ mavg.head + HistoryLen - w \in Nat
    BY <1>1, <1>4 DEF Index
  <2> QED
    BY <1>2, <1>4, <2>1 DEF Oldest
<1> DEFINE growing == mavg.filled < w
           filled == IF growing THEN mavg.filled + 1 ELSE mavg.filled
           sum == mavg.sum + rpm - (IF growing THEN 0 ELSE mavg.ring[Oldest(w)])
<1>6. filled \in 1..HistoryLen /\ sum \in Int
  BY <1>1, <1>4, <1>5
<1>7. mavg' = [ring   |-> [mavg.ring EXCEPT ![mavg.head] = rpm],
               head   |-> (mavg.head + 1) % HistoryLen,
               filled |-> filled, sum |-> sum]
  BY DEF Average, AddToAverage, w
<1> HIDE DEF filled, sum
<1>8. mavg' \in [ring: [Index -> Nat], head: Index, filled: 0..HistoryLen, sum: Int]
      /\ mavg'.filled = filled /\ mavg'.sum = sum
  BY <1>1, <1>4, <1>5, <1>6, <1>7
<1>9. latest' \in [sum: Int, count: 1..HistoryLen] /\ window' \in Window
  BY <1>6, <1>8 DEF Average, AvgTypeOK
<1> QED
  BY <1>3, <1>8, <1>9 DEF AvgTypeOK

\* A period divides safely, unless it is a word that was never written.
LEMMA RpmType ==
  ASSUME NEW w \in Word, NEW p \in Pole
  PROVE  RpmOf(w, p) \in Rpm /\ (w >= Msb => RpmOf(w, p) = 0)
<1>1. w \in Nat /\ p \in Nat \ {0} /\ ClkHz \in Nat /\ Msb \in Nat \ {0}
  BY EdgeAssumption, CapAssumption DEF Word
<1>2. ASSUME w # 0
      PROVE  ClkHz \div (w * p) \in Nat
  <2> DEFINE d == w * p
  <2>1. d \in Nat \ {0}
    BY <1>1, <1>2
  <2> HIDE DEF d
  <2>2. ClkHz \div d \in Nat
    BY <1>1, <2>1
  <2> QED
    BY <2>2 DEF d
<1>3. CASE w >= Msb
  BY <1>1, <1>3 DEF RpmOf, Rpm
<1>4. CASE ~(w >= Msb) /\ w = 0
  BY <1>1, <1>4 DEF RpmOf, Rpm
<1>5. CASE ~(w >= Msb) /\ w # 0
  <2>1. w < Msb
    BY <1>1, <1>5
  <2> QED
    BY <1>1, <1>2, <1>5, <2>1 DEF RpmOf, Rpm
<1> QED
  BY <1>3, <1>4, <1>5

\* What a step leaves alone keeps its type.
LEMMA EdgeSame == EdgeTypeOK /\ UNCHANGED edgeVars => EdgeTypeOK'
  BY DEF EdgeTypeOK, edgeVars

LEMMA AvgSame == AvgTypeOK /\ UNCHANGED avgVars => AvgTypeOK'
  BY DEF AvgTypeOK, avgVars

LEMMA ConvType ==
  ASSUME CapTypeOK, ConvStep
  PROVE  CapTypeOK'
<1> USE DEF CapTypeOK
<1>1. CASE ConvTake
  <2>1. EdgeTypeOK'
    BY <1>1 DEF ConvTake, EdgeTypeOK
  <2> QED
    BY <1>1, <2>1, AvgSame DEF ConvTake
<1>2. CASE ConvPop /\ TakeSample
  <2>1. /\ freqFifo \in [slot: [Slots -> Word], head: Slots, tail: Slots]
        /\ OldestWord \in Word /\ After(freqFifo.tail) \in Slots
    BY AfterIs DEF EdgeTypeOK, OldestWord
  <2>2. RpmOf(OldestWord, pole) \in Rpm
    BY <2>1, RpmType
  <2>3. EdgeTypeOK'
    BY <1>2, <2>1 DEF TakeSample, EdgeTypeOK
  <2>4. conv' = [pc |-> "push", rpm |-> RpmOf(OldestWord, pole)]
    BY <1>2 DEF ConvPop, TakeSample
  <2> QED
    BY <1>2, <2>2, <2>3, <2>4, AvgSame DEF ConvPop
<1>3. CASE ConvPop /\ ~TakeSample
  BY <1>3, EdgeSame, AvgSame DEF ConvPop
<1>4. CASE ConvPush
  <2>1. rpmFifo' \in Seq(Rpm) /\ Len(rpmFifo') <= SpeedCap
    BY <1>4, CapAssumption DEF ConvPush
  <2>2. lost' \in BOOLEAN
    BY <1>4 DEF ConvPush, EdgeTypeOK
  <2> QED
    <3>1. EdgeTypeOK'
      BY <1>4, <2>2 DEF ConvPush, EdgeTypeOK
    <3>2. conv' \in [pc: {"wait", "pop", "push", "notify"}, rpm: Rpm]
      BY <1>4 DEF ConvPush, Rpm
    <3> QED
      BY <1>4, <2>1, <3>1, <3>2, AvgSame DEF ConvPush
<1>5. CASE ConvNotify
  BY <1>5, EdgeSame, AvgSame DEF ConvNotify
<1> QED
  BY <1>1, <1>2, <1>3, <1>4, <1>5 DEF ConvStep

LEMMA AvgType ==
  ASSUME CapTypeOK, AvgStep
  PROVE  CapTypeOK'
<1> USE DEF CapTypeOK
<1>1. CASE AvgTake
  BY <1>1, EdgeSame, AvgSame DEF AvgTake
<1>2. CASE AvgPop
  <2>1. rpmFifo' \in Seq(Rpm) /\ Len(rpmFifo') <= SpeedCap
    <3>1. CASE rpmFifo # << >> /\ rpmFifo' = Tail(rpmFifo)
      BY <3>1, CapAssumption
    <3>2. CASE UNCHANGED rpmFifo
      BY <3>2
    <3> QED
      BY <1>2, <3>1, <3>2 DEF AvgPop
  <2>2. avg' \in [pc: {"wait", "pop", "average"}, rpm: Rpm]
    BY <1>2 DEF AvgPop
  <2> QED
    BY <1>2, <2>1, <2>2, EdgeSame, AvgSame DEF AvgPop
<1>3. CASE AvgAverage
  <2>1. AvgTypeOK'
    <3>1. CASE finite'
      <4>1. Average(avg.rpm) /\ avg.rpm \in Nat
        BY <1>3, <3>1 DEF AvgAverage, Rpm
      <4> QED
        BY <4>1, AverageType
    <3>2. CASE ~finite'
      BY <1>3, <3>2, AvgSame DEF AvgAverage
    <3> QED
      BY <3>1, <3>2
  <2>2. avg' \in [pc: {"wait", "pop", "average"}, rpm: Rpm]
    BY <1>3 DEF AvgAverage, Rpm
  <2>3. finite' \in BOOLEAN
    BY <1>3 DEF AvgAverage
  <2> QED
    BY <1>3, <2>1, <2>2, <2>3, EdgeSame DEF AvgAverage
<1> QED
  BY <1>1, <1>2, <1>3 DEF AvgStep

LEMMA TypeStep ==
  ASSUME CapTypeOK, [CapNext]_capVars
  PROVE  CapTypeOK'
<1>1. CASE (ProducerStep \/ ChangeTimeout \/ TimeStep) /\ UNCHANGED <<avgVars, taskVars>>
  BY <1>1, EdgeType DEF CapTypeOK, AvgTypeOK, avgVars, taskVars
<1>2. ASSUME NEW p \in Pole, NEW w \in Window, SetPole(p, w)
      PROVE  CapTypeOK'
  BY <1>2, SMTT(30) DEF SetPole, CapTypeOK, EdgeTypeOK, AvgTypeOK, avgVars, edgeVars
<1>3. CASE SetCount
  BY <1>3 DEF SetCount, SetWindow, CapTypeOK, EdgeTypeOK, AvgTypeOK, edgeVars
<1>4. CASE UNCHANGED capVars
  BY <1>4 DEF capVars, avgVars, taskVars, edgeVars, CapTypeOK, EdgeTypeOK, AvgTypeOK
<1> QED
  BY <1>1, <1>2, <1>3, <1>4, ConvType, AvgType DEF CapNext

LEMMA TypeInit ==
  ASSUME CapInit
  PROVE  CapTypeOK
<1>1. EdgeTypeOK
  <2>1. timer = timeout /\ timeout \in Timeout /\ timeout \in Nat /\ Off \in Int /\ Off < 0
    BY EdgeAssumption DEF CapInit, EdgeInit, Off
  <2>2. freqFifo \in [slot: [Slots -> Word], head: Slots, tail: Slots]
    BY EdgeAssumption DEF CapInit, EdgeInit, Slots, Word
  <2>3. tcb \in [pc: Pushing \cup {"idle", "notify", "reset"}, head: Slots, word: Word]
    BY EdgeAssumption DEF CapInit, EdgeInit, TimerOff, Slots, Word
  <2>4. age \in 0..MaxAge
    BY EdgeAssumption DEF CapInit, EdgeInit
  <2>5. timer \in Int /\ timer >= Off /\ \E t \in Timeout : timer <= t
    BY <2>1
  <2> QED
    BY <2>1, <2>2, <2>3, <2>4, <2>5 DEF CapInit, EdgeInit, EdgeTypeOK
<1>2. AvgTypeOK
  BY AveragerAssumption DEF CapInit, AvgInit, AvgTypeOK, Zeros, Index
<1>3. rpmFifo \in Seq(Rpm) /\ Len(rpmFifo) <= SpeedCap
  BY CapAssumption DEF CapInit
<1> QED
  BY <1>1, <1>2, <1>3 DEF CapInit, CapTypeOK, Rpm

-----------------------------------------------------------------------------
(* The notifications.  A push is followed by its notification before the   *)
(* pusher does anything else, and a task that takes its notification looks *)
(* at the fifo before it sleeps again.                                     *)

LEMMA WakeStep ==
  ASSUME NoLostWakeup, [CapNext]_capVars
  PROVE  NoLostWakeup'
<1> USE DEF NoLostWakeup
<1>0. CapTypeOK'
  BY TypeStep
<1>1. CASE ProducerStep /\ UNCHANGED <<avgVars, taskVars>>
  <2>1. CASE FastEdge \/ FirstEdge \/ EdgeRearm \/ Expire \/ TimeoutReset
    BY <1>0, <1>1, <2>1
       DEF FastEdge, FirstEdge, EdgeRearm, Expire, TimeoutReset, FreqEmpty, taskVars
  <2>2. CASE PeriodEdge \/ TimeoutPublish
    BY <1>0, <1>1, <2>2
       DEF PeriodEdge, TimeoutPublish, CapTypeOK, EdgeTypeOK, taskVars
  <2>4. CASE TimeoutHead \/ TimeoutRoom
    BY <1>0, <1>1, <2>4 DEF TimeoutHead, TimeoutRoom, FreqEmpty, taskVars
  <2>5. CASE TimeoutWord
    <3>1. freqFifo'.head = freqFifo.head /\ freqFifo'.tail = freqFifo.tail
      BY <2>5 DEF TimeoutWord, CapTypeOK, EdgeTypeOK
    <3> QED
      BY <1>0, <1>1, <2>5, <3>1 DEF TimeoutWord, FreqEmpty, taskVars
  <2>3. CASE EdgeNotify \/ TimeoutNotify
    BY <1>0, <1>1, <2>3 DEF EdgeNotify, TimeoutNotify, taskVars
  <2> QED
    BY <1>1, <2>1, <2>2, <2>3, <2>4, <2>5 DEF ProducerStep, Edge, IsrStep, TimeoutStep
<1>2. CASE (ChangeTimeout \/ TimeStep) /\ UNCHANGED <<avgVars, taskVars>>
  BY <1>0, <1>2 DEF ChangeTimeout, SetTimeout, TimeStep, Tick, FreqEmpty, taskVars
<1>3. CASE ConvTake
  BY <1>0, <1>3 DEF ConvTake
<1>4. CASE ConvPop
  BY <1>0, <1>4 DEF ConvPop, TakeSample, FreqEmpty, edgeVars
<1>5. CASE ConvPush
  BY <1>0, <1>5 DEF ConvPush, FreqEmpty
<1>6. CASE ConvNotify
  BY <1>0, <1>6 DEF ConvNotify, FreqEmpty, edgeVars
<1>7. CASE AvgStep
  <2>1. CASE AvgTake
    BY <1>0, <2>1 DEF AvgTake, FreqEmpty, edgeVars
  <2>2. CASE AvgPop
    BY <1>0, <2>2 DEF AvgPop, FreqEmpty, edgeVars
  <2>3. CASE AvgAverage
    BY <1>0, <2>3 DEF AvgAverage, FreqEmpty, edgeVars, CapTypeOK
  <2> QED
    BY <1>7, <2>1, <2>2, <2>3 DEF AvgStep
<1>8. CASE SetCount \/ \E p \in Pole, w \in Window : SetPole(p, w)
  BY <1>0, <1>8 DEF SetCount, SetPole, FreqEmpty, edgeVars
<1>9. CASE UNCHANGED capVars
  BY <1>0, <1>9 DEF capVars, FreqEmpty, edgeVars, taskVars
<1> QED
  BY <1>1, <1>2, <1>3, <1>4, <1>5, <1>6, <1>7, <1>8, <1>9 DEF CapNext, ConvStep

LEMMA WakeInit ==
  ASSUME CapInit
  PROVE  NoLostWakeup
<1>1. freqFifo.head = 0 /\ freqFifo.tail = 0 /\ rpmFifo = <<>>
  BY DEF CapInit, EdgeInit
<1> QED
  BY <1>1, TypeInit DEF NoLostWakeup, FreqEmpty

(* rpm_cap.c: neither task ever sleeps on a sample, whoever pushed it and  *)
(* however full the fifos were, and every variable keeps its type.         *)
THEOREM WakeupsNeverLost == CapSpec => []NoLostWakeup
<1>1. CapInit => NoLostWakeup
  BY WakeInit
<1> QED
  BY <1>1, WakeStep, PTL DEF CapSpec

-----------------------------------------------------------------------------
(* The signal-lost timer.                                                  *)

\* Every step that is not the producers' or the clock's leaves the
\* measurement alone and at most takes from the fifo.
Aside == UNCHANGED <<age, havePrev, timeout, timer, isr, tcb>>
         /\ (freqFifo' = freqFifo \/ TakeSample)

LEMMA OthersAside ==
  ASSUME [CapNext]_capVars
  PROVE  Aside \/ ((ProducerStep \/ ChangeTimeout \/ TimeStep) /\ UNCHANGED <<avgVars, taskVars>>)
<1>1. CASE ConvStep
  BY <1>1 DEF ConvStep, ConvTake, ConvPop, ConvPush, ConvNotify, TakeSample, edgeVars, Aside
<1>2. CASE AvgStep
  BY <1>2 DEF AvgStep, AvgTake, AvgPop, AvgAverage, edgeVars, Aside
<1>3. CASE SetCount \/ \E p \in Pole, w \in Window : SetPole(p, w)
  BY <1>3 DEF SetCount, SetPole, edgeVars, Aside
<1>4. CASE UNCHANGED capVars
  BY <1>4 DEF capVars, edgeVars, Aside
<1> QED
  BY <1>1, <1>2, <1>3, <1>4 DEF CapNext

LEMMA WatchStep ==
  ASSUME CapTypeOK, MeasurementWatched, [CapNext]_capVars
  PROVE  MeasurementWatched'
<1> USE DEF MeasurementWatched
<1>0. /\ timeout \in Int /\ timeout > Off /\ timer \in Int
      /\ \A t \in Timeout : t > Off
  BY EdgeAssumption DEF CapTypeOK, EdgeTypeOK, Off
<1>1. CASE FastEdge \/ PeriodEdge \/ FirstEdge \/ EdgeNotify
  BY <1>1 DEF FastEdge, PeriodEdge, FirstEdge, EdgeNotify
<1>2. CASE EdgeRearm
  BY <1>0, <1>2 DEF EdgeRearm
<1>3. CASE Expire \/ TimeoutStep
  <2>1. tcb'.pc # "idle" \/ havePrev' = FALSE
    <3>1. CASE TimeoutReset
      BY <3>1 DEF TimeoutReset
    <3>2. CASE Expire \/ TimeoutHead \/ TimeoutRoom
      BY <3>2 DEF Expire, TimeoutHead, TimeoutRoom, CapTypeOK, EdgeTypeOK
    <3>3. CASE TimeoutWord \/ TimeoutPublish \/ TimeoutNotify
      BY <3>3 DEF TimeoutWord, TimeoutPublish, TimeoutNotify, CapTypeOK, EdgeTypeOK
    <3> QED
      BY <1>3, <3>1, <3>2, <3>3 DEF TimeoutStep
  <2> QED
    BY <2>1
<1>4. CASE ChangeTimeout
  BY <1>4 DEF ChangeTimeout, SetTimeout
<1>5. CASE TimeStep
  BY <1>0, <1>5, EdgeAssumption DEF TimeStep, Tick, Off
<1>6. CASE Aside
  BY <1>6 DEF Aside
<1> QED
  BY OthersAside, <1>1, <1>2, <1>3, <1>4, <1>5, <1>6
     DEF ProducerStep, Edge, IsrStep

(* rpm_cap.c:162-196: whatever the order of edges, expiry, preemption and  *)
(* changes of the timeout, a measurement under way never goes unwatched.   *)
THEOREM AlwaysWatched == CapSpec => []MeasurementWatched
<1> DEFINE Inv == CapTypeOK /\ MeasurementWatched
<1>1. CapInit => Inv
  BY TypeInit DEF CapInit, EdgeInit, MeasurementWatched
<1>2. Inv /\ [CapNext]_capVars => Inv'
  BY TypeStep, WatchStep
<1> QED
  BY <1>1, <1>2, PTL DEF CapSpec

-----------------------------------------------------------------------------
(* The averager's rings.                                                   *)

LEMMA ModIs ==
  ASSUME NEW n \in Nat \ {0}, NEW a \in Nat, a < n + n
  PROVE  a % n = IF a < n THEN a ELSE a - n
<1>1. CASE a < n
  BY <1>1
<1>2. CASE ~(a < n)
  BY <1>2
<1> QED
  BY <1>1, <1>2

\* The slot k places before slot i, for k up to the whole ring.
Before(i, k) == IF k <= i THEN i - k ELSE i + HistoryLen - k

LEMMA BeforeIs ==
  ASSUME NEW i \in Index, NEW k \in 1..HistoryLen
  PROVE  (i + HistoryLen - k) % HistoryLen = Before(i, k) /\ Before(i, k) \in Index
<1>1. i \in Nat /\ k \in Nat /\ i < HistoryLen /\ k <= HistoryLen /\ k > 0
      /\ HistoryLen \in Nat \ {0}
  BY AveragerAssumption DEF Index
<1> DEFINE a == i + HistoryLen - k
<1>2. a \in Nat /\ a < HistoryLen + HistoryLen
  BY <1>1
<1> HIDE DEF a
<1>3. a % HistoryLen = IF a < HistoryLen THEN a ELSE a - HistoryLen
  BY <1>1, <1>2, ModIs
<1> USE DEF a
<1>4. (i + HistoryLen - k) % HistoryLen = Before(i, k)
  BY <1>1, <1>3 DEF Before
<1> QED
  BY <1>1, <1>4 DEF Before, Index

LEMMA NextSlotIs ==
  ASSUME NEW i \in Index
  PROVE  /\ (i + 1) % HistoryLen = IF i + 1 = HistoryLen THEN 0 ELSE i + 1
         /\ (i + 1) % HistoryLen \in Index
<1>1. i \in Nat /\ i < HistoryLen /\ HistoryLen \in Nat \ {0}
  BY AveragerAssumption DEF Index
<1> DEFINE a == i + 1
<1>2. a \in Nat /\ a < HistoryLen + HistoryLen
  BY <1>1
<1> HIDE DEF a
<1>3. a % HistoryLen = IF a < HistoryLen THEN a ELSE a - HistoryLen
  BY <1>1, <1>2, ModIs
<1> QED
  BY <1>1, <1>3 DEF a, Index

LEMMA RecentType ==
  ASSUME AvgTypeOK, NEW k \in 1..HistoryLen
  PROVE  Recent(k) = history.ring[Before(history.head, k)] /\ Recent(k) \in Nat
<1>1. history.head \in Index /\ history.ring \in [Index -> Nat]
  BY DEF AvgTypeOK
<1> QED
  BY <1>1, BeforeIs DEF Recent

\* A new sample becomes the latest; each of the others grows older by one.
LEMMA RecentShifts ==
  ASSUME AvgTypeOK, NEW rpm \in Nat, Average(rpm), NEW k \in 1..HistoryLen
  PROVE  Recent(k)' = IF k = 1 THEN rpm ELSE Recent(k - 1)
<1> DEFINE h == history.head
           g == (h + 1) % HistoryLen
<1>1. /\ h \in Index /\ history.ring \in [Index -> Nat] /\ HistoryLen \in Nat \ {0}
      /\ k \in Nat \ {0} /\ k <= HistoryLen
  BY AveragerAssumption DEF AvgTypeOK
<1>2. g = (IF h + 1 = HistoryLen THEN 0 ELSE h + 1) /\ g \in Index
  BY <1>1, NextSlotIs
<1>3. history'.head = g /\ history'.ring = [history.ring EXCEPT ![h] = rpm]
  BY DEF Average, AddToHistory
<1>4. (g + HistoryLen - k) % HistoryLen = Before(g, k) /\ Before(g, k) \in Index
  BY <1>2, BeforeIs
<1>5. Recent(k)' = [history.ring EXCEPT ![h] = rpm][Before(g, k)]
  BY <1>3, <1>4 DEF Recent
<1> HIDE DEF h, g
<1>6. CASE k = 1
  <2>1. Before(g, k) = h
    BY <1>1, <1>2, <1>6 DEF Before, Index
  <2> QED
    BY <1>1, <1>5, <1>6, <2>1
<1>7. CASE k # 1
  <2>1. k - 1 \in 1..HistoryLen
    BY <1>1, <1>7
  <2>2. Before(g, k) = Before(h, k - 1) /\ Before(g, k) # h
    BY <1>1, <1>2, <1>7 DEF Before, Index
  <2>3. Recent(k - 1) = history.ring[Before(h, k - 1)]
    BY <2>1, RecentType DEF h
  <2> QED
    BY <1>1, <1>4, <1>5, <1>7, <2>2, <2>3
<1> QED
  BY <1>6, <1>7

-----------------------------------------------------------------------------
(* The sum of the most recent samples, by its partial sums.                *)

\* p[k] is the sum of the k latest samples, for every k up to n.
Partial(p, n) ==
  /\ p \in [0..n -> Int] /\ p[0] = 0
  /\ \A k \in 1..n : p[k] = p[k - 1] + Recent(k)

Sums(n, total) == \E p : Partial(p, n) /\ total = p[n]

\* A non-empty set of naturals has a least element.
LEMMA LeastNatural ==
  ASSUME NEW T, T \subseteq Nat, T # {}
  PROVE  \E m \in T : \A y \in T : ~(y < m)
<1> DEFINE R == OpToRel(<, Nat)
<1>1. IsWellFoundedOn(R, Nat)
  BY NatLessThanWellFounded
<1>2. \A x, y \in Nat : y < x => <<y, x>> \in R
  BY DEF OpToRel
<1> HIDE DEF R
<1>3. \E m \in T : \A y \in T : ~(<<y, m>> \in R)
  BY <1>1, WFMin
<1> QED
  BY <1>2, <1>3

\* The partial sums are the recursive function of SumOfRecent.
LEMMA SumsAre ==
  ASSUME AvgTypeOK, NEW n \in 0..HistoryLen, NEW total, Sums(n, total)
  PROVE  SumOfRecent(n) = total
<1> DEFINE F(f) == [k \in 0..n |-> IF k = 0 THEN 0 ELSE f[k - 1] + Recent(k)]
           s == CHOOSE f : f = F(f)
<1>0. n \in Nat /\ n <= HistoryLen
  BY AveragerAssumption
<1>1. PICK p : Partial(p, n) /\ total = p[n]
  BY DEF Sums
<1>2. p = F(p)
  <2>1. p \in [0..n -> Int] /\ p[0] = 0 /\ \A k \in 1..n : p[k] = p[k - 1] + Recent(k)
    BY <1>1 DEF Partial
  <2>2. \A k \in 0..n : p[k] = IF k = 0 THEN 0 ELSE p[k - 1] + Recent(k)
    BY <1>0, <2>1
  <2> QED
    BY <2>1, <2>2
<1>3. s = F(s)
  BY <1>2
<1> HIDE DEF s
<1>4. \A k \in 0..n : s[k] = p[k]
  <2> DEFINE T == {k \in 0..n : s[k] # p[k]}
  <2>1. SUFFICES ASSUME T # {} PROVE FALSE
    OBVIOUS
  <2>2. T \subseteq Nat
    BY <1>0
  <2>3. PICK m \in T : \A y \in T : ~(y < m)
    BY <2>1, <2>2, LeastNatural
  <2>4. m \in 0..n /\ s[m] # p[m]
    BY <2>3
  <2>5. s[m] = (IF m = 0 THEN 0 ELSE s[m - 1] + Recent(m))
    BY <1>3, <2>4
  <2>6. p[m] = (IF m = 0 THEN 0 ELSE p[m - 1] + Recent(m))
    BY <1>2, <2>4
  <2>7. m # 0 /\ s[m - 1] # p[m - 1]
    BY <2>4, <2>5, <2>6
  <2>8. m - 1 \in T /\ m - 1 < m
    BY <1>0, <2>4, <2>7
  <2> QED
    BY <2>3, <2>8
<1>5. SumOfRecent(n) = s[n]
  BY DEF SumOfRecent, s
<1> QED
  BY <1>0, <1>1, <1>4, <1>5

\* Nothing to add up; and the latest sample by itself.
LEMMA SumsOfNone == Sums(0, 0)
<1> DEFINE p == [k \in 0..0 |-> 0]
<1>1. Partial(p, 0) /\ p[0] = 0
  BY DEF Partial
<1> QED
  BY <1>1 DEF Sums

LEMMA SumsOfOne ==
  ASSUME AvgTypeOK, NEW total, Sums(1, total)
  PROVE  total = Recent(1)
<1>1. PICK p : Partial(p, 1) /\ total = p[1]
  BY DEF Sums
<1>2. p[0] = 0 /\ p[1] = p[0] + Recent(1) /\ Recent(1) \in Nat
  BY <1>1, RecentType, AveragerAssumption DEF Partial
<1> QED
  BY <1>1, <1>2

\* A new sample adds itself to every partial sum, and is one more.
LEMMA SumsGrow ==
  ASSUME AvgTypeOK, NEW rpm \in Nat, Average(rpm),
         NEW n \in 0..(HistoryLen - 1), NEW total, Sums(n, total)
  PROVE  Sums(n + 1, total + rpm)'
<1>1. PICK p : Partial(p, n) /\ total = p[n]
  BY DEF Sums
<1> DEFINE q == [k \in 0..(n + 1) |-> IF k = 0 THEN 0 ELSE p[k - 1] + rpm]
<1>2. /\ p \in [0..n -> Int] /\ p[0] = 0 /\ n \in Nat /\ rpm \in Nat
      /\ \A k \in 1..n : p[k] = p[k - 1] + Recent(k)
      /\ HistoryLen \in Nat
  BY <1>1, AveragerAssumption DEF Partial
<1>3. q \in [0..(n + 1) -> Int] /\ q[0] = 0 /\ q[n + 1] = p[n] + rpm
  BY <1>2
<1>4. ASSUME NEW k \in 1..(n + 1)
      PROVE  q[k] = q[k - 1] + Recent(k)'
  <2>1. k \in 1..HistoryLen
    BY <1>2
  <2>2. Recent(k)' = IF k = 1 THEN rpm ELSE Recent(k - 1)
    BY <2>1, RecentShifts
  <2>3. q[k] = p[k - 1] + rpm
    BY <1>2
  <2>4. CASE k = 1
    BY <1>2, <2>2, <2>3, <2>4
  <2>5. CASE k # 1
    <3>1. k - 1 \in 1..n
      BY <1>2, <2>5
    <3>2. p[k - 1] = p[k - 2] + Recent(k - 1)
      BY <1>2, <3>1
    <3>3. q[k - 1] = p[k - 2] + rpm
      BY <1>2, <3>1
    <3>4. Recent(k - 1) \in Nat /\ p[k - 2] \in Int
      BY <1>2, <2>1, <2>5, <3>1, RecentType
    <3> QED
      BY <1>2, <2>2, <2>3, <2>5, <3>2, <3>3, <3>4
  <2> QED
    BY <2>4, <2>5
<1> HIDE DEF q
<1>5. Partial(q, n + 1)'
  BY <1>3, <1>4 DEF Partial
<1> QED
  BY <1>1, <1>3, <1>5 DEF Sums

\* The sum without its oldest sample.
LEMMA SumsDrop ==
  ASSUME AvgTypeOK, NEW n \in 1..HistoryLen, NEW total, Sums(n, total)
  PROVE  Sums(n - 1, total - Recent(n)) /\ total \in Int
<1>1. PICK p : Partial(p, n) /\ total = p[n]
  BY DEF Sums
<1>2. /\ p \in [0..n -> Int] /\ p[0] = 0 /\ n \in Nat \ {0}
      /\ \A k \in 1..n : p[k] = p[k - 1] + Recent(k)
  BY <1>1, AveragerAssumption DEF Partial
<1> DEFINE q == [k \in 0..(n - 1) |-> p[k]]
<1>3. q \in [0..(n - 1) -> Int] /\ q[0] = 0 /\ q[n - 1] = p[n - 1]
  BY <1>2
<1>4. \A k \in 1..(n - 1) : q[k] = q[k - 1] + Recent(k)
  BY <1>2
<1>5. Recent(n) \in Nat /\ p[n] = p[n - 1] + Recent(n) /\ p[n - 1] \in Int
  BY <1>2, RecentType
<1> HIDE DEF q
<1>6. Partial(q, n - 1) /\ total - Recent(n) = q[n - 1]
  BY <1>1, <1>3, <1>4, <1>5 DEF Partial
<1> QED
  BY <1>1, <1>2, <1>6 DEF Sums

-----------------------------------------------------------------------------
(* The moving average.  Its own ring repeats the history's, so its sum is  *)
(* that of the latest samples as long as the window is never made smaller. *)

Grows == Shrink => \A v, w \in Window : v = w

AvgInv ==
  /\ AvgTypeOK
  /\ mavg.ring = history.ring /\ mavg.head = history.head
  /\ mavg.filled <= history.filled
  /\ Grows => mavg.filled <= Clamped(window) /\ Sums(mavg.filled, mavg.sum)
  /\ Grows /\ history.filled > 0 => latest = [sum |-> mavg.sum, count |-> mavg.filled]

LEMMA ClampedIs ==
  ASSUME AvgTypeOK
  PROVE  Clamped(window) \in 1..HistoryLen
BY AveragerAssumption DEF AvgTypeOK, Clamped

LEMMA AverageInv ==
  ASSUME AvgInv, NEW rpm \in Nat, Average(rpm)
  PROVE  AvgInv' /\ history'.filled > 0
<1> DEFINE w == Clamped(window)
           n == mavg.filled
           growing == n < w
<1>1. AvgTypeOK /\ AvgTypeOK' /\ w \in 1..HistoryLen /\ HistoryLen \in Nat \ {0}
  BY AverageType, ClampedIs, AveragerAssumption DEF AvgInv
<1>2. /\ n \in 0..HistoryLen /\ history.filled \in 0..HistoryLen /\ n <= history.filled
      /\ mavg.sum \in Int /\ mavg.head \in Index
  BY DEF AvgInv, AvgTypeOK
<1>3. /\ mavg'.ring = [mavg.ring EXCEPT ![mavg.head] = rpm]
      /\ mavg'.head = (mavg.head + 1) % HistoryLen
      /\ mavg'.filled = IF growing THEN n + 1 ELSE n
      /\ mavg'.sum = mavg.sum + rpm - (IF growing THEN 0 ELSE mavg.ring[Oldest(w)])
  BY DEF Average, AddToAverage
<1>4. /\ history'.ring = [history.ring EXCEPT ![history.head] = rpm]
      /\ history'.head = (history.head + 1) % HistoryLen
      /\ history'.filled = IF history.filled < HistoryLen THEN history.filled + 1
                                                          ELSE history.filled
  BY DEF Average, AddToHistory
<1>5. mavg'.ring = history'.ring /\ mavg'.head = history'.head
  BY <1>3, <1>4 DEF AvgInv
<1>6. mavg'.filled <= history'.filled /\ history'.filled > 0
  BY <1>1, <1>2, <1>3, <1>4
<1>7. Clamped(window)' = w
  BY DEF Average, Clamped
<1>8. ASSUME Grows
      PROVE  mavg'.filled <= w /\ Sums(mavg.filled, mavg.sum)'
  <2>0. n <= w /\ Sums(n, mavg.sum)
    BY <1>8 DEF AvgInv
  <2>1. PICK c, m : c = mavg.sum /\ m = n
    OBVIOUS
  <2>2. CASE growing
    <3>1. m \in 0..(HistoryLen - 1) /\ Sums(m, c)
      BY <1>1, <1>2, <2>0, <2>1, <2>2
    <3>2. Sums(m + 1, c + rpm)'
      BY <1>1, <3>1, SumsGrow
    <3>3. mavg'.filled = m + 1 /\ mavg'.sum = c + rpm /\ m + 1 <= w
      BY <1>1, <1>2, <1>3, <2>1, <2>2
    <3> QED
      BY <3>2, <3>3
  <2>3. CASE ~growing
    <3>1. n = w /\ m = w /\ m \in 1..HistoryLen /\ Sums(m, c) /\ c \in Int
      BY <1>1, <1>2, <2>0, <2>1, <2>3
    <3>2. mavg.ring[Oldest(w)] = Recent(m)
      BY <3>1 DEF Oldest, Recent, AvgInv
    <3>3. Sums(m - 1, c - Recent(m)) /\ Recent(m) \in Nat
      BY <1>1, <3>1, SumsDrop, RecentType
    <3>4. PICK t : t = c - Recent(m)
      OBVIOUS
    <3>5. m - 1 \in 0..(HistoryLen - 1) /\ Sums(m - 1, t)
      BY <1>1, <3>1, <3>3, <3>4
    <3>6. Sums((m - 1) + 1, t + rpm)'
      BY <1>1, <3>5, SumsGrow
    <3>7. (m - 1) + 1 = m /\ t + rpm = mavg.sum + rpm - Recent(m)
      BY <2>1, <3>1, <3>3, <3>4
    <3>8. mavg'.filled = m /\ mavg'.sum = mavg.sum + rpm - Recent(m)
      BY <1>3, <2>1, <2>3, <3>2
    <3>9. mavg'.filled <= w
      BY <1>1, <3>1, <3>8
    <3> QED
      BY <3>6, <3>7, <3>8, <3>9
  <2> QED
    BY <2>2, <2>3
<1>9. latest' = [sum |-> mavg'.sum, count |-> mavg'.filled]
  BY DEF Average
<1>10. Grows' <=> Grows
  BY DEF Grows
<1> HIDE DEF w, n, growing
<1> QED
  BY <1>1, <1>5, <1>6, <1>7, <1>8, <1>9, <1>10 DEF AvgInv

LEMMA SetWindowInv ==
  ASSUME AvgInv, NEW w \in Window, SetWindow(w)
  PROVE  AvgInv'
<1>1. AvgTypeOK /\ AvgTypeOK' /\ UNCHANGED <<history, mavg, latest>> /\ window' = w
  BY DEF AvgInv, AvgTypeOK, SetWindow
<1>2. window \in Nat \ {0} /\ w \in Nat \ {0} /\ HistoryLen \in Nat /\ window \in Window
  BY <1>1, AveragerAssumption DEF AvgTypeOK
<1>3. Grows => w >= window
  BY <1>2 DEF Grows, SetWindow
<1>4. Grows => Clamped(window) <= Clamped(window)'
  BY <1>1, <1>2, <1>3 DEF Clamped
<1>5. Sums(mavg.filled, mavg.sum)' <=> Sums(mavg.filled, mavg.sum)
  BY <1>1 DEF Sums, Partial, Recent
<1>6. Clamped(window) \in Int /\ Clamped(window)' \in Int /\ mavg.filled \in Int
  BY <1>1, <1>2 DEF Clamped, AvgTypeOK
<1>7. Grows => mavg'.filled <= Clamped(window)' /\ Sums(mavg.filled, mavg.sum)'
  BY <1>1, <1>4, <1>5, <1>6 DEF AvgInv
<1> QED
  BY <1>1, <1>7 DEF AvgInv

LEMMA AvgInvInit ==
  ASSUME AvgInit
  PROVE  AvgInv
<1>1. AvgTypeOK
  BY AveragerAssumption DEF AvgInit, AvgTypeOK, Zeros, Index
<1>2. Clamped(window) \in 1..HistoryLen
  BY <1>1, ClampedIs
<1> QED
  BY <1>1, <1>2, SumsOfNone DEF AvgInit, AvgInv

LEMMA AvgInvSame ==
  ASSUME AvgInv, UNCHANGED avgVars
  PROVE  AvgInv'
BY DEF AvgInv, AvgTypeOK, Clamped, Sums, Partial, Recent, avgVars

LEMMA AvgInvStep ==
  ASSUME AvgInv, [AvgNext]_avgVars
  PROVE  AvgInv'
<1>1. ASSUME NEW rpm \in Speed, Average(rpm)
      PROVE  AvgInv'
  BY <1>1, AverageInv, AveragerAssumption
<1> QED
  BY <1>1, SetWindowInv, AvgInvSame DEF AvgNext

LEMMA AverageIsOfRecent ==
  ASSUME AvgInv
  PROVE  AverageOfRecent
<1>1. AvgTypeOK /\ mavg.filled \in 0..HistoryLen
  BY DEF AvgInv, AvgTypeOK
<1>2. ASSUME ~Shrink, history.filled > 0
      PROVE  latest.sum = SumOfRecent(latest.count) /\ latest.count <= Clamped(window)
  <2>1. Sums(mavg.filled, mavg.sum) /\ mavg.filled <= Clamped(window)
        /\ latest.sum = mavg.sum /\ latest.count = mavg.filled
    BY <1>2 DEF AvgInv, Grows
  <2>2. SumOfRecent(mavg.filled) = mavg.sum
    BY <1>1, <2>1, SumsAre
  <2> QED
    BY <2>1, <2>2
<1> QED
  BY <1>1, <1>2 DEF AverageOfRecent

(* rpm_cap.c:236-258: the constant-time running sum is, after every sample *)
(* and every growth of the window, the sum of the samples that are latest, *)
(* also once both rings have wrapped around.                               *)
THEOREM AverageIsExact == AvgSpec => []AverageOfRecent
<1> QED
  BY AvgInvInit, AvgInvStep, AverageIsOfRecent, PTL DEF AvgSpec

\* The same of the averager task in the pipeline, whatever the converter
\* pushes and whenever the control task changes the window.
LEMMA AvgInvCap ==
  ASSUME CapTypeOK, AvgInv, [CapNext]_capVars
  PROVE  AvgInv'
<1>1. CASE AvgAverage
  <2>1. CASE finite'
    <3>1. Average(avg.rpm) /\ avg.rpm \in Nat
      BY <1>1, <2>1 DEF AvgAverage, CapTypeOK, Rpm
    <3> QED
      BY <3>1, AverageInv
  <2>2. CASE ~finite'
    BY <1>1, <2>2, AvgInvSame DEF AvgAverage
  <2> QED
    BY <2>1, <2>2
<1>2. CASE SetCount
  BY <1>2, SetWindowInv DEF SetCount, CapTypeOK
<1>3. CASE UNCHANGED avgVars
  BY <1>3, AvgInvSame
<1>4. UNCHANGED avgVars \/ AvgAverage \/ SetCount
  BY DEF CapNext, ConvStep, ConvTake, ConvPop, ConvPush, ConvNotify, AvgStep,
         AvgTake, AvgPop, SetPole, capVars
<1> QED
  BY <1>1, <1>2, <1>3, <1>4

(* The published speed is the average of the samples the converter made,   *)
(* until one of them is the speed of a word that was never written.        *)
THEOREM PipelineAverages == CapSpec => [](finite => AverageOfRecent)
<1> DEFINE Inv == CapTypeOK /\ AvgInv
<1>1. CapInit => Inv
  BY TypeInit, AvgInvInit DEF CapInit
<1>2. Inv /\ [CapNext]_capVars => Inv'
  BY TypeStep, AvgInvCap
<1>3. Inv => AverageOfRecent
  BY AverageIsOfRecent
<1> QED
  BY <1>1, <1>2, <1>3, PTL DEF CapSpec

-----------------------------------------------------------------------------
(* A lost signal reaches the average.  While no edge has renewed the timer, *)
(* the callback's push is undisturbed; from its end on, whatever the        *)
(* pipeline holds last is a 0 on its way to the average, unless a full ring *)
(* has dropped it.                                                         *)

Undisturbed ==
  timer = Off /\ isr = "idle" =>
    /\ tcb.pc \in {"room", "word", "publish"} => tcb.head = freqFifo.head /\ tcb.word >= Msb
    /\ tcb.pc \in {"word", "publish"} => After(tcb.head) # freqFifo.tail
    /\ tcb.pc = "publish" => freqFifo.slot[tcb.head] >= Msb

NewestIsZero ==
  IF ~FreqEmpty THEN \A i \in Slots : After(i) = freqFifo.head => freqFifo.slot[i] >= Msb
  ELSE IF conv.pc = "push" THEN conv.rpm = 0
  ELSE IF rpmFifo # <<>> THEN rpmFifo[Len(rpmFifo)] = 0
  ELSE IF avg.pc = "average" THEN avg.rpm = 0
  ELSE history.filled > 0 /\ Recent(1) = 0

LostInv ==
  timer = Off /\ isr = "idle" /\ tcb.pc \notin Pushing => lost \/ ~finite \/ NewestIsZero

LEMMA UndisturbedStep ==
  ASSUME CapTypeOK, Undisturbed, [CapNext]_capVars
  PROVE  Undisturbed'
<1> USE DEF Undisturbed
<1>0. /\ timeout \in Timeout /\ timeout # Off /\ timer \in Int /\ Off = -MaxLate - 1
      /\ MaxLate \in Nat
      /\ freqFifo \in [slot: [Slots -> Word], head: Slots, tail: Slots]
      /\ tcb \in [pc: Pushing \cup {"idle", "notify", "reset"}, head: Slots, word: Word]
  BY EdgeAssumption DEF CapTypeOK, EdgeTypeOK, Off
<1>1. CASE FastEdge \/ PeriodEdge \/ FirstEdge \/ EdgeNotify
  BY <1>1 DEF FastEdge, PeriodEdge, FirstEdge, EdgeNotify, Off, Msb
<1>2. CASE EdgeRearm
  BY <1>0, <1>2 DEF EdgeRearm, Off
<1>3. CASE Expire
  BY <1>0, <1>3 DEF Expire
<1>4. CASE TimeoutHead
  BY <1>0, <1>4, SentinelIs, EdgeAssumption DEF TimeoutHead, Msb
<1>5. CASE TimeoutRoom
  BY <1>0, <1>5 DEF TimeoutRoom, Off, Msb
<1>6. CASE TimeoutWord
  BY <1>0, <1>6 DEF TimeoutWord, Off, Msb
<1>7. CASE TimeoutPublish \/ TimeoutNotify \/ TimeoutReset
  BY <1>0, <1>7 DEF TimeoutPublish, TimeoutNotify, TimeoutReset, TimerOff
<1>8. CASE ChangeTimeout
  BY <1>8 DEF ChangeTimeout, SetTimeout, Off, Msb
<1>9. CASE TimeStep
  BY <1>0, <1>9 DEF TimeStep, Tick, Off, Msb
<1>10. CASE Aside
  <2>1. CASE freqFifo' = freqFifo
    BY <1>10, <2>1 DEF Aside, Off, Msb
  <2>2. CASE TakeSample
    <3>1. /\ freqFifo'.slot = freqFifo.slot /\ freqFifo'.head = freqFifo.head
          /\ freqFifo'.tail = After(freqFifo.tail) /\ freqFifo.tail # freqFifo.head
          /\ UNCHANGED <<timer, isr, tcb>>
      BY <1>0, <2>2 DEF TakeSample, FreqEmpty
    <3>2. After(freqFifo.head) # After(freqFifo.tail)
      BY <1>0, <3>1, AfterIs
    <3> QED
      BY <3>1, <3>2 DEF Off, Msb
  <2> QED
    BY <1>10, <2>1, <2>2 DEF Aside
<1> QED
  BY OthersAside, <1>1, <1>2, <1>3, <1>4, <1>5, <1>6, <1>7, <1>8, <1>9, <1>10
     DEF ProducerStep, Edge, IsrStep, TimeoutStep

\* Taking from a queue: what is left still ends in what it ended in.
LEMMA TailLast ==
  ASSUME NEW S, NEW q \in Seq(S), q # <<>>
  PROVE  /\ Tail(q) # <<>> => Tail(q)[Len(Tail(q))] = q[Len(q)]
         /\ Tail(q) = <<>> => Head(q) = q[Len(q)]
         /\ q[Len(q)] \in S
<1>1. Len(q) \in Nat \ {0} /\ Len(Tail(q)) = Len(q) - 1 /\ Head(q) = q[1]
      /\ \A i \in 1..(Len(q) - 1) : Tail(q)[i] = q[i + 1]
  OBVIOUS
<1>2. Tail(q) # <<>> <=> Len(Tail(q)) # 0
  <2> DEFINE t == Tail(q)
  <2>1. t \in Seq(S)
    OBVIOUS
  <2> HIDE DEF t
  <2>2. t # <<>> <=> Len(t) # 0
    BY <2>1
  <2> QED
    BY <2>2 DEF t
<1>3. Tail(q) # <<>> => Len(q) - 1 \in 1..(Len(q) - 1) /\ (Len(q) - 1) + 1 = Len(q)
  BY <1>1, <1>2
<1>4. q[Len(q)] \in S
  BY <1>1
<1>5. Tail(q) = <<>> => Len(q) = 1
  BY <1>1, <1>2
<1> QED
  BY <1>1, <1>3, <1>4, <1>5

LEMMA AppendLast ==
  ASSUME NEW S, NEW q \in Seq(S), NEW x \in S
  PROVE  Append(q, x) # <<>> /\ Append(q, x)[Len(Append(q, x))] = x
<1>1. Len(Append(q, x)) = Len(q) + 1 /\ Append(q, x)[Len(q) + 1] = x /\ Len(q) \in Nat
  OBVIOUS
<1>2. Len(<<>>) = 0
  OBVIOUS
<1> QED
  BY <1>1, <1>2

LEMMA LostProducers ==
  ASSUME CapTypeOK, Undisturbed, LostInv, UNCHANGED <<avgVars, taskVars>>,
         ProducerStep \/ ChangeTimeout \/ TimeStep
  PROVE  LostInv'
<1>0. /\ timeout # Off /\ tcb.head \in Slots
      /\ freqFifo \in [slot: [Slots -> Word], head: Slots, tail: Slots]
  BY EdgeAssumption DEF CapTypeOK, EdgeTypeOK, Off
<1>1. NewestIsZero /\ UNCHANGED freqFifo => NewestIsZero'
  BY DEF NewestIsZero, FreqEmpty, Recent, Msb, taskVars, avgVars
<1>2. CASE FastEdge \/ TimeoutNotify \/ TimeoutReset
  BY <1>1, <1>2, EdgeAssumption
     DEF FastEdge, TimeoutNotify, TimeoutReset, TimerOff, LostInv, Pushing, Off,
         taskVars, CapTypeOK, EdgeTypeOK
<1>3. CASE PeriodEdge \/ FirstEdge \/ EdgeNotify
  BY <1>3 DEF PeriodEdge, FirstEdge, EdgeNotify, LostInv
<1>4. CASE EdgeRearm
  BY <1>0, <1>4 DEF EdgeRearm, LostInv, Off
<1>5. CASE Expire \/ TimeoutHead \/ TimeoutWord
  BY <1>5 DEF Expire, TimeoutHead, TimeoutWord, LostInv, Pushing, CapTypeOK, EdgeTypeOK
<1>6. CASE TimeoutRoom
  BY <1>6 DEF TimeoutRoom, LostInv, Pushing, CapTypeOK, EdgeTypeOK
<1>7. CASE TimeoutPublish
  <2>1. SUFFICES ASSUME timer = Off
                 PROVE  NewestIsZero'
    BY <1>7 DEF TimeoutPublish, LostInv, Off
  <2>2. /\ tcb.pc = "publish" /\ isr = "idle" /\ freqFifo'.slot = freqFifo.slot
        /\ freqFifo'.head = After(tcb.head) /\ freqFifo'.tail = freqFifo.tail
    BY <1>0, <1>7 DEF TimeoutPublish
  <2>3. After(tcb.head) # freqFifo.tail /\ freqFifo.slot[tcb.head] >= Msb
    BY <2>1, <2>2 DEF Undisturbed
  <2>4. \A i \in Slots : After(i) = After(tcb.head) => i = tcb.head
    BY <1>0, AfterIs
  <2> QED
    BY <2>2, <2>3, <2>4 DEF NewestIsZero, FreqEmpty, Msb
<1>8. CASE ChangeTimeout
  BY <1>1, <1>8 DEF ChangeTimeout, SetTimeout, LostInv, Off, taskVars
<1>9. CASE TimeStep
  <2>1. timer' = Off => timer = Off
    BY <1>9, EdgeAssumption DEF TimeStep, Tick, Off, CapTypeOK, EdgeTypeOK
  <2> QED
    BY <1>1, <1>9, <2>1 DEF TimeStep, Tick, LostInv, Off, taskVars
<1> QED
  BY <1>2, <1>3, <1>4, <1>5, <1>6, <1>7, <1>8, <1>9
     DEF ProducerStep, Edge, IsrStep, TimeoutStep

LEMMA LostConverter ==
  ASSUME CapTypeOK, LostInv, ConvStep
  PROVE  LostInv'
<1>0. /\ freqFifo \in [slot: [Slots -> Word], head: Slots, tail: Slots]
      /\ rpmFifo \in Seq(Rpm) /\ conv.rpm \in Rpm
      /\ Len(rpmFifo) <= SpeedCap /\ SpeedCap \in Nat
      /\ conv \in [pc: {"wait", "pop", "push", "notify"}, rpm: Rpm]
  BY CapAssumption DEF CapTypeOK, EdgeTypeOK
<1>1. UNCHANGED <<timer, isr, tcb, finite, history>> /\ (lost => lost')
  <2>1. CASE ConvPush
    BY <2>1 DEF ConvPush, avgVars
  <2>2. CASE ConvTake \/ ConvPop \/ ConvNotify
    BY <2>2 DEF ConvTake, ConvPop, ConvNotify, TakeSample, edgeVars, avgVars
  <2> QED
    BY <2>1, <2>2 DEF ConvStep
<1>2. SUFFICES ASSUME NewestIsZero
               PROVE  lost' \/ NewestIsZero'
  BY <1>1 DEF LostInv, Off
<1>3. CASE ConvTake \/ ConvNotify
  BY <1>0, <1>1, <1>2, <1>3
     DEF ConvTake, ConvNotify, NewestIsZero, FreqEmpty, Recent, Msb, edgeVars
<1>4. CASE ConvPop /\ FreqEmpty
  BY <1>0, <1>1, <1>2, <1>4
     DEF ConvPop, TakeSample, NewestIsZero, FreqEmpty, Recent, Msb, edgeVars
<1>5. CASE ConvPop /\ ~FreqEmpty
  <2>1. /\ freqFifo'.slot = freqFifo.slot /\ freqFifo'.head = freqFifo.head
        /\ freqFifo'.tail = After(freqFifo.tail)
        /\ conv' = [pc |-> "push", rpm |-> RpmOf(OldestWord, pole)]
    BY <1>0, <1>5 DEF ConvPop, TakeSample
  <2>2. \A i \in Slots : After(i) = freqFifo.head => freqFifo.slot[i] >= Msb
    BY <1>2, <1>5 DEF NewestIsZero
  <2>3. CASE ~FreqEmpty'
    BY <2>1, <2>2, <2>3 DEF NewestIsZero, Msb
  <2>4. CASE FreqEmpty'
    <3>1. After(freqFifo.tail) = freqFifo.head /\ freqFifo.tail \in Slots
      BY <1>0, <2>1, <2>4 DEF FreqEmpty
    <3>2. OldestWord >= Msb /\ OldestWord \in Word /\ pole \in Pole
      BY <1>0, <2>2, <3>1 DEF OldestWord, CapTypeOK
    <3>3. RpmOf(OldestWord, pole) = 0
      BY <3>2, RpmType
    <3> QED
      BY <2>1, <2>4, <3>3 DEF NewestIsZero
  <2> QED
    BY <2>3, <2>4
<1>6. CASE ConvPush
  <2>1. freqFifo' = freqFifo /\ conv'.pc = "notify"
    BY <1>6 DEF ConvPush
  <2>2. CASE ~FreqEmpty
    BY <1>2, <2>1, <2>2 DEF NewestIsZero, FreqEmpty, Msb
  <2>3. CASE FreqEmpty
    <3>1. conv.rpm = 0
      BY <1>2, <1>6, <2>3 DEF NewestIsZero, ConvPush
    <3>2. CASE Len(rpmFifo) = SpeedCap
      BY <1>6, <3>1, <3>2 DEF ConvPush
    <3>3. CASE Len(rpmFifo) # SpeedCap
      <4>1. rpmFifo' = Append(rpmFifo, conv.rpm)
        BY <1>0, <1>6, <3>3 DEF ConvPush
      <4>2. rpmFifo' # <<>> /\ rpmFifo'[Len(rpmFifo')] = conv.rpm
        <5>1. rpmFifo \in Seq(Rpm) /\ conv.rpm \in Rpm
          BY <1>0
        <5> QED
          BY <4>1, <5>1, AppendLast
      <4> QED
        BY <2>1, <2>3, <3>1, <4>2 DEF NewestIsZero, FreqEmpty
    <3> QED
      BY <3>2, <3>3
  <2> QED
    BY <2>2, <2>3
<1> QED
  BY <1>3, <1>4, <1>5, <1>6 DEF ConvStep

LEMMA LostAverager ==
  ASSUME CapTypeOK, LostInv, AvgStep
  PROVE  LostInv'
<1>0. /\ rpmFifo \in Seq(Rpm) /\ avg \in [pc: {"wait", "pop", "average"}, rpm: Rpm]
      /\ AvgTypeOK
  BY DEF CapTypeOK
<1>1. UNCHANGED <<timer, isr, tcb, lost, freqFifo, conv>> /\ (~finite => ~finite')
  <2>1. CASE AvgTake \/ AvgPop
    BY <2>1 DEF AvgTake, AvgPop, edgeVars
  <2>2. CASE AvgAverage
    BY <2>2 DEF AvgAverage, edgeVars
  <2> QED
    BY <2>1, <2>2 DEF AvgStep
<1>2. SUFFICES ASSUME NewestIsZero, finite'
               PROVE  NewestIsZero'
  BY <1>1 DEF LostInv, Off
<1>3. SUFFICES ASSUME FreqEmpty, conv.pc # "push"
               PROVE  NewestIsZero'
  BY <1>1, <1>2 DEF NewestIsZero, FreqEmpty, Msb
<1>4. IF rpmFifo # <<>> THEN rpmFifo[Len(rpmFifo)] = 0
      ELSE IF avg.pc = "average" THEN avg.rpm = 0
      ELSE history.filled > 0 /\ Recent(1) = 0
  BY <1>2, <1>3 DEF NewestIsZero
<1>5. SUFFICES IF rpmFifo' # <<>> THEN rpmFifo'[Len(rpmFifo')] = 0
               ELSE IF avg'.pc = "average" THEN avg'.rpm = 0
               ELSE history'.filled > 0 /\ Recent(1)' = 0
  BY <1>1, <1>3 DEF NewestIsZero, FreqEmpty
<1>6. CASE AvgTake
  BY <1>0, <1>4, <1>6 DEF AvgTake, Recent, avgVars
<1>7. CASE AvgPop /\ rpmFifo = <<>>
  BY <1>0, <1>4, <1>7 DEF AvgPop, Recent, avgVars
<1>8. CASE AvgPop /\ rpmFifo # <<>>
  <2>1. rpmFifo' = Tail(rpmFifo) /\ avg' = [pc |-> "average", rpm |-> Head(rpmFifo)]
    BY <1>8 DEF AvgPop
  <2> QED
    BY <1>0, <1>4, <1>8, <2>1, TailLast
<1>9. CASE AvgAverage
  <2>1. /\ rpmFifo' = rpmFifo /\ avg'.pc = "pop" /\ Average(avg.rpm) /\ avg.rpm \in Nat
    BY <1>0, <1>2, <1>9 DEF AvgAverage, Rpm
  <2>2. CASE rpmFifo # <<>>
    BY <1>4, <2>1, <2>2
  <2>3. CASE rpmFifo = <<>>
    <3>1. avg.rpm = 0
      BY <1>4, <1>9, <2>3 DEF AvgAverage
    <3>2. 1 \in 1..HistoryLen /\ HistoryLen \in Nat
      BY AveragerAssumption
    <3>3. Recent(1)' = avg.rpm
      BY <1>0, <2>1, <3>2, RecentShifts
    <3>4. history'.filled > 0
      <4>1. history.filled \in 0..HistoryLen
        BY <1>0 DEF AvgTypeOK
      <4> QED
        BY <2>1, <3>2, <4>1 DEF Average, AddToHistory
    <3> QED
      BY <2>1, <2>3, <3>1, <3>3, <3>4
  <2> QED
    BY <2>2, <2>3
<1> QED
  BY <1>6, <1>7, <1>8, <1>9 DEF AvgStep

LEMMA LostStep ==
  ASSUME CapTypeOK, Undisturbed, LostInv, [CapNext]_capVars
  PROVE  LostInv'
<1>1. CASE SetCount \/ \E p \in Pole, w \in Window : SetPole(p, w)
  BY <1>1 DEF SetCount, SetWindow, SetPole, LostInv, NewestIsZero, FreqEmpty, Recent,
              edgeVars, avgVars, Off, Msb
<1>2. CASE UNCHANGED capVars
  BY <1>2 DEF capVars, taskVars, LostInv, NewestIsZero, FreqEmpty, Recent, edgeVars,
              avgVars, Off, Msb
<1> QED
  BY <1>1, <1>2, LostProducers, LostConverter, LostAverager DEF CapNext

(* rpm_cap.c:182-196, 204-238: when a signal is lost and the pipeline has   *)
(* run dry, the speed averaged last is a 0, for every window and wherever  *)
(* the interrupt fell into the callback's push, unless a ring was full     *)
(* when the sentinel or its speed was to be pushed.                        *)
THEOREM LossReachesAverage == CapSpec => []LossIsAveraged
<1> DEFINE Inv == NoLostWakeup /\ Undisturbed /\ LostInv
<1>1. CapInit => Inv
  <2>1. CapInit => LostInv /\ Undisturbed
    BY EdgeAssumption DEF CapInit, EdgeInit, LostInv, Undisturbed, Off
  <2>2. CapInit => NoLostWakeup
    BY WakeInit
  <2> QED
    BY <2>1, <2>2
<1>2. Inv /\ [CapNext]_capVars => Inv'
  BY WakeStep, UndisturbedStep, LostStep DEF NoLostWakeup
<1>3. Inv => LossIsAveraged
  BY DEF NoLostWakeup, LostInv, NewestIsZero, LossIsAveraged, LostAtRest, TasksIdle, Pushing
<1> QED
  BY <1>1, <1>2, <1>3, PTL DEF CapSpec
=============================================================================
