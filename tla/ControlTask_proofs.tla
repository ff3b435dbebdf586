------------------------ MODULE ControlTask_proofs -------------------------
(***************************************************************************)
(* pwm_gen_set under control_task.c, for every set of frequencies and      *)
(* duties, every length of the queue, any failures of the MCPWM driver and *)
(* restarts at any point.                                                  *)
(***************************************************************************)
EXTENDS ControlTask, SequenceTheorems, TLAPS

-----------------------------------------------------------------------------
(* The arithmetic.                                                         *)

\* A truncated quotient of numbers lies where the product says.
LEMMA DivBounds ==
  ASSUME NEW a \in Nat, NEW b \in Nat \ {0}, NEW m \in Nat, NEW n \in Nat,
         m * b <= a, a < (n + 1) * b
  PROVE  a \div b \in Nat /\ m <= a \div b /\ a \div b <= n
<1> DEFINE q == a \div b
<1>1. q \in Nat /\ q * b <= a /\ a < (q + 1) * b
  OBVIOUS
<1> HIDE DEF q
<1>2. q <= n
  <2>1. CASE q >= n + 1
    <3>1. q * b >= (n + 1) * b
      BY <1>1, <2>1
    <3> QED
      BY <1>1, <3>1
  <2> QED
    BY <1>1, <2>1
<1>3. m <= q
  <2>1. CASE m >= q + 1
    <3>1. m * b >= (q + 1) * b
      BY <1>1, <2>1
    <3> QED
      BY <1>1, <3>1
  <2> QED
    BY <1>1, <2>1
<1> QED
  BY <1>1, <1>2, <1>3 DEF q

\* Every frequency of the documented range has a period that fits into 16
\* bits and has at least two steps, at the resolution of its band.
LEMMA RangeAccepted ==
  ASSUME NEW f \in Nat, f >= FreqMin, f <= FreqMax
  PROVE  ~Rejected(f, 0)
<1>1. FreqMin = 10 /\ FreqMax = 1000000
  BY SMT DEF FreqMin, FreqMax
<1>2. f \in Nat \ {0} /\ f >= FreqMin /\ f <= FreqMax
  BY <1>1, SMT
<1>3. CASE f >= 153
  <2>1. 2 * f <= 10000000 /\ 10000000 < (65535 + 1) * f
    BY <1>1, <1>2, <1>3, SMT
  <2>2. 10000000 \div f >= 2 /\ 10000000 \div f <= 65535
    BY <1>2, <2>1, DivBounds, SMT
  <2>3. PickBand(f) = HI /\ HI # NoBand /\ Period(f) = 10000000 \div f
    BY <1>2, <1>3, SMT DEF Period, PeriodTicks, PickBand, HI, NoBand
  <2> QED
    BY <1>1, <1>2, <2>2, <2>3, SMT DEF Rejected
<1>4. CASE ~(f >= 153)
  <2>1. 2 * f <= 625000 /\ 625000 < (65535 + 1) * f
    BY <1>1, <1>2, <1>4, SMT
  <2>2. 625000 \div f >= 2 /\ 625000 \div f <= 65535
    BY <1>2, <2>1, DivBounds, SMT
  <2>3. PickBand(f) = LO /\ LO # NoBand /\ Period(f) = 625000 \div f
    BY <1>1, <1>2, <1>4, SMT DEF Period, PeriodTicks, PickBand, HI, LO, NoBand
  <2> QED
    BY <1>1, <1>2, <2>2, <2>3, SMT DEF Rejected
<1> QED
  BY <1>3, <1>4, SMT

LEMMA RegsType ==
  ASSUME NEW f \in Nat
  PROVE  PickBand(f).res \in Nat /\ Period(f) \in Nat
<1>1. PickBand(f).res \in Nat
  BY SMT DEF PickBand, HI, LO, NoBand
<1>2. \A r \in Nat : f # 0 => r \div f \in Nat
  OBVIOUS
<1> QED
  BY <1>1, <1>2 DEF Period, PeriodTicks

LEMMA CompareType ==
  ASSUME NEW f \in Nat, NEW d \in Duty, ~Rejected(f, d)
  PROVE  \A c \in Compare(d, Period(f)) : c \in Nat
<1> DEFINE p == Period(f)
<1>1. p \in Nat
  BY RegsType
<1> HIDE DEF p
<1>2. CASE d = NaN
  BY <1>1, <1>2 DEF Compare, p
<1>3. CASE d # NaN
  <2>1. d \in Nat
    BY <1>3, PwmAssumption DEF Rejected
  <2> DEFINE n == 2 * d * p + 100
  <2>2. n \in Nat
    BY <1>1, <2>1
  <2> HIDE DEF n
  <2>3. n \div 200 \in Nat
    BY <2>2
  <2> QED
    BY <1>1, <1>3, <2>3 DEF Compare, p, n
<1> QED
  BY <1>2, <1>3

LEMMA CompareZero ==
  ASSUME NEW f \in Nat
  PROVE  Compare(0, Period(f)) = {0}
<1>1. Period(f) \in Nat /\ 0 # NaN
  BY RegsType, PwmAssumption
<1>2. 2 * 0 * Period(f) + 100 = 100 /\ 100 \div 200 = 0
  BY <1>1
<1> QED
  BY <1>1, <1>2 DEF Compare

-----------------------------------------------------------------------------
(* pwm_gen_set.  Types first: what is asked for is one of Freq and Duty,   *)
(* and what gets past the checks has a compare value.                      *)

USE DEF SwType, HwType, CallType

Busy == CallPC \ {"idle", "done"}

PwmTyped ==
  /\ PwmTypeOK
  /\ sw.freq \in Freq /\ call.freq \in Freq
  /\ call.pc \in Busy => /\ ~Rejected(call.freq, call.duty)
                         /\ call.cmp \in Compare(call.duty, CallPeriod)

\* A driver call keeps the types when the hardware it leaves has them.
LEMMA DriverType ==
  ASSUME PwmTyped, NEW pc \in Busy, NEW next \in Busy, NEW h, Driver(pc, h, next),
         pc \in Result,
         h \in HwType
  PROVE  PwmTyped'
<1> USE DEF PwmTyped, PwmTypeOK, Driver, CallPeriod
<1>1. CASE hw' = h /\ Goto(next)
  BY <1>1 DEF Goto, Busy
<1>2. CASE UNCHANGED hw /\ Return(pc)
  <2>1. call' = [call EXCEPT !.pc = "done", !.ret = pc, !.failed = @ \/ pc # "ok"]
    BY <1>2 DEF Return
  <2>2. (call.failed \/ pc # "ok") \in BOOLEAN /\ "done" \in CallPC
    BY DEF CallPC
  <2>3. call'.pc = "done" /\ call'.freq = call.freq
    BY <2>1
  <2>4. call' \in CallType
    BY <2>1, <2>2
  <2> QED
    BY <1>2, <2>3, <2>4 DEF Busy
<1> QED
  BY <1>1, <1>2

LEMMA PwmStepTyped ==
  ASSUME PwmTyped, PwmNext
  PROVE  PwmTyped'
<1>0. /\ hw \in HwType /\ call.freq \in Nat /\ Freq \subseteq Nat
      /\ CallPeriod \in Nat /\ CallRegs \in Regs /\ PickBand(call.freq).res \in Nat
  BY RegsType, PwmAssumption DEF PwmTyped, PwmTypeOK, CallPeriod, CallRegs, Regs
<1>c. call.pc \in Busy => call.cmp \in Nat
  BY <1>0, CompareType, PwmAssumption
     DEF PwmTyped, PwmTypeOK, CallPeriod
<1>b. TeardownPC \cup RecreatePC \cup SamePC \cup {"commit", "trigger"} \subseteq Busy
  BY DEF Busy, CallPC, TeardownPC, RecreatePC, SamePC
<1>r. TeardownPC \cup RecreatePC \cup SamePC \subseteq Result
  BY DEF Result
<1>1. ASSUME NEW f \in Freq, NEW d \in Duty, PwmSet(f, d)
      PROVE  PwmTyped'
  <2>1. ASSUME NEW ret \in Result, Refuse(f, d, ret)
        PROVE  PwmTyped'
    BY <1>0, <1>1, <2>1 DEF PwmSet, Refuse, PwmTyped, PwmTypeOK, Busy, CallPC, CallPeriod
  <2>2. ASSUME ~Rejected(f, d), NEW c \in Compare(d, Period(f)),
               NEW pc \in {"set_period", "stop"},
               call' = [call EXCEPT !.pc = pc, !.freq = f, !.duty = d, !.cmp = c]
        PROVE  PwmTyped'
    <3>1. c \in Nat
      BY <1>0, <2>2, CompareType
    <3>2. pc \in CallPC
      BY DEF CallPC, SamePC, TeardownPC
    <3> QED
      BY <1>0, <1>1, <2>2, <3>1, <3>2 DEF PwmSet, PwmTyped, PwmTypeOK, CallPeriod
  <2>3. "invalid_state" \in Result /\ "invalid_arg" \in Result
    BY DEF Result
  <2> QED
    BY <1>1, <2>1, <2>2, <2>3 DEF PwmSet
<1>2. CASE SetPeriod
  <2>1. [hw EXCEPT !.shadow.period = CallPeriod, !.active.period = CallPeriod] \in HwType
    BY <1>0 DEF Regs
  <2> QED
    BY <1>2, <2>1, <1>b, <1>r, DriverType DEF SetPeriod, SamePC
<1>3. CASE SetCompare \/ SetNewCompare
  <2>1. call.pc \in {"set_compare", "cmpr"}
    BY <1>3 DEF SetCompare, SetNewCompare, Driver
  <2>2. [hw EXCEPT !.cmp = call.cmp] \in HwType
    BY <2>1, <1>0, <1>b, <1>c DEF SamePC, RecreatePC
  <2> QED
    BY <1>3, <2>2, <1>b, <1>r, DriverType DEF SetCompare, SetNewCompare, SamePC, RecreatePC
<1>4. CASE StopTimer \/ DisableTimer
  <2>1. [hw EXCEPT !.running = FALSE] \in HwType /\ [hw EXCEPT !.enabled = FALSE] \in HwType
    BY <1>0
  <2> QED
    BY <1>4, <2>1, <1>b, <1>r, DriverType DEF StopTimer, DisableTimer, TeardownPC
<1>5. CASE ConnectTimer \/ EnableTimer \/ StartTimer
  <2>1. [hw EXCEPT !.running = TRUE] \in HwType /\ [hw EXCEPT !.enabled = TRUE] \in HwType
    BY <1>0
  <2> QED
    BY <1>5, <2>1, <1>0, <1>b, <1>r, DriverType
       DEF ConnectTimer, EnableTimer, StartTimer, RecreatePC
<1>6. CASE DelTimer
  <2>1. CASE hw' = [hw EXCEPT !.exists = FALSE] /\ sw' = [sw EXCEPT !.timer = FALSE]
             /\ Goto("new_timer")
    BY <1>6, <2>1 DEF DelTimer, Goto, PwmTyped, PwmTypeOK, Busy, CallPC, TeardownPC,
       RecreatePC, CallPeriod
  <2>2. CASE Return("del") /\ UNCHANGED <<sw, hw>>
    BY <1>6, <2>2, ZenonT(40) DEF DelTimer, Return, PwmTyped, PwmTypeOK, Busy, CallPC, Result,
       TeardownPC, CallPeriod
  <2> QED
    BY <1>6, <2>1, <2>2 DEF DelTimer
<1>7. CASE NewTimer
  <2>1. ASSUME NEW a \in {hw.active, [hw.active EXCEPT !.period = CallPeriod], CallRegs},
               hw' = [hw EXCEPT !.exists = TRUE, !.shadow = CallRegs, !.active = a],
               sw' = [sw EXCEPT !.timer = TRUE], Goto("soft_sync")
        PROVE  PwmTyped'
    <3>1. a \in Regs
      BY <1>0 DEF Regs
    <3>2. hw' \in HwType
      BY <1>0, <2>1, <3>1
    <3> QED
      BY <1>7, <2>1, <3>2 DEF NewTimer, Goto, PwmTyped, PwmTypeOK, Busy, CallPC,
         RecreatePC, CallPeriod
  <2>2. CASE Return("new_timer") /\ UNCHANGED <<sw, hw>>
    BY <1>7, <2>2, ZenonT(40) DEF NewTimer, Return, PwmTyped, PwmTypeOK, Busy, CallPC, Result,
       RecreatePC, CallPeriod
  <2> QED
    BY <1>7, <2>1, <2>2 DEF NewTimer
<1>8. CASE SoftSync
  BY <1>8 DEF SoftSync, Goto, PwmTyped, PwmTypeOK, Busy, CallPC, RecreatePC, CallPeriod
<1>9. CASE Commit
  <2>1. /\ sw' = [sw EXCEPT !.freq = call.freq, !.duty = call.duty, !.period = CallPeriod,
                             !.res = PickBand(call.freq).res, !.trigger = 1]
        /\ call' = [call EXCEPT !.pc = "trigger"] /\ UNCHANGED <<hw, cycle>>
        /\ call.pc = "commit"
    BY <1>9 DEF Commit, Goto
  <2>2. "trigger" \in CallPC /\ "commit" \in Busy
    BY DEF CallPC, Busy
  <2>3. sw' \in SwType
    <3>1. sw \in SwType
          /\ call.duty \in Duty \cup {0} /\ 1 \in 0..1
      BY DEF PwmTyped, PwmTypeOK
    <3> QED
      BY <1>0, <2>1, <3>1
  <2>4. call' \in CallType
    BY <2>1, <2>2 DEF PwmTyped, PwmTypeOK
  <2>5. sw'.freq = call.freq /\ call'.freq = call.freq /\ call'.duty = call.duty
        /\ call'.cmp = call.cmp
    BY <2>1 DEF PwmTyped, PwmTypeOK
  <2> QED
    BY <2>1, <2>2, <2>3, <2>4, <2>5 DEF PwmTyped, PwmTypeOK, CallPeriod
<1>10. CASE EndTrigger
  <2>1. /\ sw' = [sw EXCEPT !.trigger = 0] /\ UNCHANGED <<hw, cycle>>
        /\ call' = [call EXCEPT !.pc = "done", !.ret = "ok", !.failed = @ \/ FALSE]
    BY <1>10 DEF EndTrigger, Return
  <2>2. "done" \in CallPC /\ "done" \notin Busy /\ "ok" \in Result
    BY DEF CallPC, Busy, Result
  <2>3. (call.failed \/ FALSE) = call.failed
    BY DEF PwmTyped, PwmTypeOK
  <2>4. call' = [call EXCEPT !.pc = "done", !.ret = "ok"]
    BY <2>1, <2>3 DEF PwmTyped, PwmTypeOK
  <2>5. sw' \in SwType /\ sw'.freq = sw.freq
    <3>1. sw \in SwType /\ 0 \in 0..1
      BY DEF PwmTyped, PwmTypeOK
    <3> QED
      BY <2>1, <3>1
  <2>6. call' \in CallType
        /\ call'.pc = "done" /\ call'.freq = call.freq
    BY <2>2, <2>4 DEF PwmTyped, PwmTypeOK
  <2> QED
    BY <2>1, <2>2, <2>5, <2>6 DEF PwmTyped, PwmTypeOK
<1>11. CASE PwmReturned
  BY <1>11 DEF PwmReturned, Goto, PwmTyped, PwmTypeOK, Busy, CallPC, CallPeriod
<1>12. CASE Tez
  BY <1>12 DEF Tez, PwmTyped, PwmTypeOK, Regs, CallPeriod
<1> QED
  BY <1>1, <1>2, <1>3, <1>4, <1>5, <1>6, <1>7, <1>8, <1>9, <1>10, <1>11, <1>12
     DEF PwmNext, PwmStep

-----------------------------------------------------------------------------
(* The timer object.  s_pwm's handle and the object live and die together, *)
(* so a call that finds a handle never uses a deleted timer - not even     *)
(* after an earlier call has failed half-way.                              *)

TimerInv ==
  /\ sw.timer <=> hw.exists
  /\ call.pc \in TeardownPC \cup SamePC \cup (RecreatePC \ {"new_timer"}) => hw.exists
  /\ call.pc = "new_timer" => ~hw.exists

LEMMA TimerStep ==
  ASSUME PwmTyped, TimerInv, PwmNext
  PROVE  TimerInv'
<1> USE DEF TimerInv, TeardownPC, SamePC, RecreatePC
<1>0. /\ sw \in SwType
      /\ hw \in HwType
      /\ call \in CallType
  BY DEF PwmTyped, PwmTypeOK
<1>1. ASSUME NEW f \in Freq, NEW d \in Duty, PwmSet(f, d)
      PROVE  TimerInv'
  <2>1. call'.pc \in {"done", "set_period", "stop"} /\ (call'.pc # "done" => sw.timer)
        /\ UNCHANGED <<sw, hw>>
    BY <1>0, <1>1 DEF PwmSet, Refuse
  <2> QED
    BY <2>1
<1>2. ASSUME NEW pc, NEW h, NEW next, Driver(pc, h, next),
             pc \in TeardownPC \cup SamePC \cup (RecreatePC \ {"new_timer"}),
             h.exists = hw.exists, next # "new_timer"
      PROVE  TimerInv'
  <2>1. hw'.exists = hw.exists /\ UNCHANGED sw /\ call'.pc \in {next, "done"} /\ hw.exists
    BY <1>0, <1>2 DEF Driver, Goto, Return
  <2> QED
    BY <1>2, <2>1
<1>3. CASE SetPeriod \/ SetCompare
  BY <1>0, <1>2, <1>3 DEF SetPeriod, SetCompare
<1>4. CASE StopTimer \/ DisableTimer
  BY <1>0, <1>2, <1>4 DEF StopTimer, DisableTimer
<1>5. CASE ConnectTimer \/ SetNewCompare \/ EnableTimer \/ StartTimer
  BY <1>0, <1>2, <1>5 DEF ConnectTimer, SetNewCompare, EnableTimer, StartTimer
<1>6. CASE DelTimer
  BY <1>0, <1>6 DEF DelTimer, Goto, Return
<1>7. CASE NewTimer
  <2>1. \/ hw'.exists /\ sw'.timer /\ call'.pc = "soft_sync"
        \/ UNCHANGED <<sw, hw>> /\ call'.pc = "done"
    BY <1>0, <1>7 DEF NewTimer, Goto, Return
  <2> QED
    BY <1>0, <2>1
<1>8. CASE SoftSync
  BY <1>0, <1>8 DEF SoftSync, Goto
<1>9. CASE Commit \/ EndTrigger \/ PwmReturned
  <2>1. hw'.exists = hw.exists /\ sw'.timer = sw.timer /\ call'.pc \in {"trigger", "done", "idle"}
    <3>1. CASE Commit
      BY <1>0, <3>1 DEF Commit, Goto
    <3>2. CASE EndTrigger
      <4>1. hw'.exists = hw.exists /\ sw'.timer = sw.timer
        BY <1>0, <3>2 DEF EndTrigger
      <4>2. call'.pc = "done"
        BY <1>0, <3>2, Zenon DEF EndTrigger, Return
      <4> QED
        BY <4>1, <4>2
    <3>3. CASE PwmReturned
      BY <1>0, <3>3 DEF PwmReturned, Goto
    <3> QED
      BY <1>9, <3>1, <3>2, <3>3
  <2> QED
    BY <2>1
<1>10. CASE Tez
  BY <1>10 DEF Tez
<1> QED
  BY <1>1, <1>3, <1>4, <1>5, <1>6, <1>7, <1>8, <1>9, <1>10 DEF PwmNext, PwmStep

-----------------------------------------------------------------------------
(* The two bands.  What the pin can show is what the active registers held *)
(* at the start of a period; while the timer runs they belong to one       *)
(* frequency and to the band that s_pwm records, and while they do not     *)
(* (between the new timer and the software sync, or after a failure), the  *)
(* timer stands still.                                                     *)

RegsOf(f) == [res |-> PickBand(f).res, period |-> Period(f)]

Rebuilding == {"disable", "del"} \cup RecreatePC
Synced     == {"connect", "cmpr", "enable", "start"}

BandInv ==
  /\ NoMixedBand
  /\ hw.running => \E f \in Freq : hw.active = RegsOf(f)
  /\ hw.running /\ call.pc \in {"idle", "done", "trigger", "set_period", "set_compare", "stop"}
       => hw.active.res = sw.res
  /\ call.pc \in SamePC => PickBand(call.freq).res = sw.res
  /\ call.pc \in Rebuilding => ~hw.running
  /\ call.pc \in Synced \cup {"soft_sync"} => hw.shadow = CallRegs
  /\ call.pc \in Synced => hw.active = CallRegs
  /\ call.pc = "commit" /\ hw.running => hw.active.res = PickBand(call.freq).res

LEMMA BandStep ==
  ASSUME PwmTyped, BandInv, PwmNext
  PROVE  BandInv'
<1> USE DEF BandInv, NoMixedBand, SamePC, RecreatePC, Rebuilding, Synced, CallRegs, CallPeriod
<1>0. sw \in SwType /\ hw \in HwType /\ call \in CallType /\ call.freq \in Freq
      /\ hw.active \in Regs /\ hw.shadow \in Regs
  BY DEF PwmTyped, PwmTypeOK
<1>1. ASSUME NEW f \in Freq, NEW d \in Duty, PwmSet(f, d)
      PROVE  BandInv'
  <2>1. UNCHANGED <<sw, hw, cycle>> /\ call.pc = "idle"
    BY <1>1 DEF PwmSet
  <2>2. \/ call'.pc \in {"done", "stop"}
        \/ call'.pc = "set_period" /\ PickBand(call'.freq).res = sw.res
    BY <1>0, <1>1, ZenonT(40) DEF PwmSet, Refuse
  <2> QED
    BY <2>1, <2>2
<1>2. CASE SetPeriod
  <2>1. CASE UNCHANGED hw /\ Return("set_period")
    BY <1>0, <1>2, <2>1 DEF SetPeriod, Driver, Return
  <2>2. CASE hw' = [hw EXCEPT !.shadow.period = CallPeriod, !.active.period = CallPeriod]
             /\ Goto("set_compare")
    <3>1. hw'.running = hw.running /\ hw'.active = [hw.active EXCEPT !.period = CallPeriod]
          /\ call' = [call EXCEPT !.pc = "set_compare"] /\ UNCHANGED <<sw, cycle>>
          /\ call.pc = "set_period"
      BY <1>0, <1>2, <2>2 DEF SetPeriod, Driver, Goto
    <3>2. hw'.active = [res |-> hw.active.res, period |-> Period(call.freq)]
      BY <1>0, <3>1 DEF Regs
    <3>3. hw.running => hw'.active = RegsOf(call.freq) /\ hw'.active.res = sw.res
      BY <3>1, <3>2 DEF RegsOf
    <3>4. call'.pc = "set_compare" /\ call'.freq = call.freq
      BY <1>0, <3>1
    <3> QED
      BY <1>0, <3>1, <3>3, <3>4
  <2> QED
    BY <1>2, <2>1, <2>2 DEF SetPeriod, Driver
<1>3. CASE SetCompare
  <2>1. UNCHANGED <<sw, cycle>> /\ hw'.running = hw.running /\ hw'.active = hw.active
        /\ call.pc = "set_compare" /\ call'.pc \in {"commit", "done"} /\ call'.freq = call.freq
    BY <1>0, <1>3 DEF SetCompare, Driver, Goto, Return
  <2> QED
    BY <2>1
<1>4. CASE StopTimer
  <2>1. UNCHANGED <<sw, cycle>> /\ hw'.active = hw.active /\ call'.freq = call.freq
        /\ call.pc = "stop"
        /\ \/ call'.pc = "disable" /\ ~hw'.running
           \/ call'.pc = "done" /\ hw'.running = hw.running
    BY <1>0, <1>4 DEF StopTimer, Driver, Goto, Return
  <2> QED
    BY <2>1
<1>5. CASE DisableTimer \/ DelTimer
  <2>1. UNCHANGED cycle /\ hw'.running = hw.running /\ call.pc \in {"disable", "del"}
        /\ call'.pc \in {"del", "new_timer", "done"}
    BY <1>0, <1>5 DEF DisableTimer, DelTimer, Driver, Goto, Return
  <2> QED
    BY <2>1
<1>6. CASE NewTimer
  <2>1. UNCHANGED cycle /\ hw'.running = hw.running /\ call.pc = "new_timer"
        /\ call'.freq = call.freq
        /\ \/ call'.pc = "done"
           \/ call'.pc = "soft_sync" /\ hw'.shadow = CallRegs
    BY <1>0, <1>6 DEF NewTimer, Goto, Return
  <2> QED
    BY <2>1
<1>7. CASE SoftSync
  <2>1. UNCHANGED cycle /\ hw'.running = hw.running /\ call.pc = "soft_sync"
        /\ call'.freq = call.freq /\ call'.pc = "connect"
        /\ hw'.shadow = hw.shadow /\ hw'.active = hw.shadow
    BY <1>0, <1>7 DEF SoftSync, Goto
  <2> QED
    BY <2>1
<1>8. CASE ConnectTimer \/ SetNewCompare \/ EnableTimer
  <2>1. UNCHANGED cycle /\ hw'.running = hw.running /\ call.pc \in {"connect", "cmpr", "enable"}
        /\ call'.freq = call.freq /\ call'.pc \in {"cmpr", "enable", "start", "done"}
        /\ hw'.shadow = hw.shadow /\ hw'.active = hw.active
    BY <1>0, <1>8 DEF ConnectTimer, SetNewCompare, EnableTimer, Driver, Goto, Return
  <2> QED
    BY <2>1
<1>9. CASE StartTimer
  <2>1. UNCHANGED cycle /\ call.pc = "start" /\ call'.freq = call.freq
        /\ hw'.shadow = hw.shadow /\ hw'.active = hw.active
        /\ \/ call'.pc = "commit"
           \/ call'.pc = "done" /\ hw'.running = hw.running
    BY <1>0, <1>9 DEF StartTimer, Driver, Goto, Return
  <2> QED
    BY <1>0, <2>1 DEF RegsOf
<1>10. CASE Commit
  <2>1. UNCHANGED <<hw, cycle>> /\ call.pc = "commit" /\ call'.pc = "trigger"
        /\ sw'.res = PickBand(call.freq).res
    BY <1>0, <1>10 DEF Commit, Goto
  <2> QED
    BY <2>1
<1>11. CASE EndTrigger \/ PwmReturned
  <2>1. UNCHANGED <<hw, cycle>> /\ call.pc \in {"trigger", "done"} /\ call'.pc \in {"done", "idle"}
        /\ sw'.res = sw.res
    BY <1>0, <1>11 DEF EndTrigger, PwmReturned, Goto, Return
  <2> QED
    BY <2>1
<1>12. CASE Tez
  <2>1. UNCHANGED <<sw, hw, call>> /\ hw.running
        /\ cycle'.res = hw.active.res /\ cycle'.period = hw.active.period
    BY <1>12 DEF Tez
  <2>2. PICK f \in Freq : hw.active = RegsOf(f)
    BY <2>1
  <2> QED
    BY <2>1, <2>2 DEF RegsOf
<1> QED
  BY <1>1, <1>2, <1>3, <1>4, <1>5, <1>6, <1>7, <1>8, <1>9, <1>10, <1>11, <1>12
     DEF PwmNext, PwmStep

-----------------------------------------------------------------------------
(* The output.  While no call of the driver has failed, the hardware is    *)
(* set up for what s_pwm records, except between the first register that   *)
(* pwm_gen_set writes and the record at its end.                           *)

Follows ==
  /\ hw.running /\ hw.enabled
  /\ hw.shadow = [res |-> sw.res, period |-> sw.period]
  /\ hw.active = hw.shadow
  /\ sw.res = PickBand(sw.freq).res /\ sw.period = Period(sw.freq)
  /\ hw.cmp \in Compare(sw.duty, sw.period)

FollowInv ==
  ~call.failed =>
    /\ call.pc # "new_timer" => sw.timer
    /\ call.pc \in {"idle", "done", "trigger", "set_period"} => Follows
    /\ call.pc \in {"set_compare", "commit"} =>
         hw.running /\ hw.enabled /\ hw.shadow = CallRegs /\ hw.active = CallRegs
    /\ call.pc = "start" => hw.enabled
    /\ call.pc \in {"enable", "start", "commit"} => hw.cmp = call.cmp

LEMMA FollowStep ==
  ASSUME PwmTyped, BandInv, FollowInv, PwmNext
  PROVE  FollowInv'
<1> USE DEF FollowInv, CallRegs, CallPeriod
<1>0. sw \in SwType /\ hw \in HwType /\ call \in CallType
      /\ hw.active \in Regs /\ hw.shadow \in Regs
  BY DEF PwmTyped, PwmTypeOK
<1>1. ASSUME NEW f \in Freq, NEW d \in Duty, PwmSet(f, d)
      PROVE  FollowInv'
  <2>1. ASSUME NEW ret, Refuse(f, d, ret)
        PROVE  call'.pc = "done" /\ call'.failed = call.failed
    BY <1>0, <2>1 DEF Refuse
  <2>2. ASSUME NEW c, NEW pc \in {"set_period", "stop"},
               call' = [call EXCEPT !.pc = pc, !.freq = f, !.duty = d, !.cmp = c]
        PROVE  call'.pc = pc /\ call'.failed = call.failed
    BY <1>0, <2>2
  <2>3. call'.pc \in {"done", "set_period", "stop"} /\ call'.failed = call.failed
    BY <1>1, <2>1, <2>2 DEF PwmSet
  <2>4. UNCHANGED <<sw, hw>> /\ call.pc = "idle"
    BY <1>1 DEF PwmSet
  <2> QED
    BY <2>3, <2>4 DEF Follows
<1>2. ASSUME NEW pc, pc # "ok", Return(pc)
      PROVE  call'.failed
  BY <1>0, <1>2 DEF Return
<1>3. CASE SetPeriod
  <2>1. CASE Return("set_period")
    BY <1>2, <2>1
  <2>2. CASE hw' = [hw EXCEPT !.shadow.period = CallPeriod, !.active.period = CallPeriod]
             /\ Goto("set_compare")
    <3>1. /\ hw'.running = hw.running /\ hw'.enabled = hw.enabled
          /\ hw'.shadow = [hw.shadow EXCEPT !.period = CallPeriod]
          /\ hw'.active = [hw.active EXCEPT !.period = CallPeriod]
          /\ call' = [call EXCEPT !.pc = "set_compare"] /\ UNCHANGED sw
          /\ call.pc = "set_period"
      BY <1>0, <1>3, <2>2 DEF SetPeriod, Driver, Goto
    <3>2. /\ hw'.active = [res |-> hw.active.res, period |-> CallPeriod]
          /\ hw'.shadow = [res |-> hw.shadow.res, period |-> CallPeriod]
      BY <1>0, <3>1 DEF Regs
    <3>3. call'.pc = "set_compare" /\ call'.freq = call.freq /\ call'.failed = call.failed
      BY <1>0, <3>1
    <3>4. ~call.failed => hw.shadow.res = sw.res /\ hw.active.res = sw.res
      BY <3>1 DEF Follows
    <3>5. sw.res = PickBand(call.freq).res
      BY <3>1 DEF BandInv, SamePC
    <3> QED
      BY <3>1, <3>2, <3>3, <3>4, <3>5 DEF Follows
  <2> QED
    BY <1>3, <2>1, <2>2 DEF SetPeriod, Driver
<1>4. CASE SetCompare
  <2>1. \/ Return("set_compare")
        \/ /\ hw'.running = hw.running /\ hw'.enabled = hw.enabled
           /\ hw'.shadow = hw.shadow /\ hw'.active = hw.active /\ hw'.cmp = call.cmp
           /\ call'.pc = "commit" /\ call'.freq = call.freq /\ call'.failed = call.failed
           /\ call'.cmp = call.cmp /\ UNCHANGED sw /\ call.pc = "set_compare"
    BY <1>0, <1>4 DEF SetCompare, Driver, Goto
  <2> QED
    BY <1>2, <2>1
<1>5. CASE StopTimer \/ DisableTimer
  <2>1. \/ Return("stop") \/ Return("disable")
        \/ call'.pc \in {"disable", "del"} /\ call'.failed = call.failed /\ UNCHANGED sw
           /\ call.pc \in {"stop", "disable"}
    BY <1>0, <1>5 DEF StopTimer, DisableTimer, Driver, Goto
  <2> QED
    BY <1>2, <2>1
<1>6. CASE DelTimer
  <2>1. Return("del") \/ call'.pc = "new_timer"
    BY <1>0, <1>6 DEF DelTimer, Goto
  <2> QED
    BY <1>2, <2>1
<1>7. CASE NewTimer
  <2>1. Return("new_timer") \/ (call'.pc = "soft_sync" /\ sw'.timer)
    BY <1>0, <1>7 DEF NewTimer, Goto
  <2> QED
    BY <1>2, <2>1
<1>8. CASE SoftSync
  <2>1. call'.pc = "connect" /\ call'.failed = call.failed /\ UNCHANGED sw /\ call.pc = "soft_sync"
    BY <1>0, <1>8 DEF SoftSync, Goto
  <2> QED
    BY <2>1
<1>9. CASE ConnectTimer
  <2>1. \/ Return("connect")
        \/ call'.pc = "cmpr" /\ call'.failed = call.failed /\ UNCHANGED sw /\ call.pc = "connect"
    BY <1>0, <1>9 DEF ConnectTimer, Driver, Goto
  <2> QED
    BY <1>2, <2>1
<1>10. CASE SetNewCompare
  <2>1. \/ Return("cmpr")
        \/ call'.pc = "enable" /\ call'.failed = call.failed /\ UNCHANGED sw /\ call.pc = "cmpr"
           /\ hw'.cmp = call.cmp /\ call'.cmp = call.cmp
    BY <1>0, <1>10 DEF SetNewCompare, Driver, Goto
  <2> QED
    BY <1>2, <2>1
<1>11. CASE EnableTimer
  <2>1. \/ Return("enable")
        \/ call'.pc = "start" /\ call'.failed = call.failed /\ UNCHANGED sw /\ call.pc = "enable"
           /\ hw'.cmp = hw.cmp /\ call'.cmp = call.cmp /\ hw'.enabled
    BY <1>0, <1>11 DEF EnableTimer, Driver, Goto
  <2> QED
    BY <1>2, <2>1
<1>12. CASE StartTimer
  <2>1. \/ Return("start")
        \/ /\ call'.pc = "commit" /\ call'.failed = call.failed /\ UNCHANGED sw /\ call.pc = "start"
           /\ hw'.cmp = hw.cmp /\ call'.cmp = call.cmp /\ hw'.enabled = hw.enabled /\ hw'.running
           /\ hw'.shadow = hw.shadow /\ hw'.active = hw.active /\ call'.freq = call.freq
    BY <1>0, <1>12 DEF StartTimer, Driver, Goto
  <2> QED
    BY <1>2, <2>1 DEF BandInv, Synced
<1>13. CASE Commit
  <2>1. /\ UNCHANGED hw /\ call.pc = "commit" /\ call'.pc = "trigger"
        /\ call'.failed = call.failed /\ sw'.timer = sw.timer
        /\ sw'.freq = call.freq /\ sw'.duty = call.duty /\ sw'.period = CallPeriod
        /\ sw'.res = PickBand(call.freq).res
    BY <1>0, <1>13 DEF Commit, Goto
  <2>2. call.cmp \in Compare(call.duty, CallPeriod)
    BY <2>1 DEF PwmTyped, Busy, CallPC
  <2> QED
    BY <2>1, <2>2 DEF Follows
<1>14. CASE EndTrigger \/ PwmReturned
  <2>1. /\ UNCHANGED hw /\ call.pc \in {"trigger", "done"} /\ call'.pc \in {"done", "idle"}
        /\ sw'.timer = sw.timer /\ sw'.freq = sw.freq /\ sw'.duty = sw.duty
        /\ sw'.period = sw.period /\ sw'.res = sw.res
    BY <1>0, <1>14 DEF EndTrigger, PwmReturned, Goto, Return
  <2>2. call'.failed = call.failed
    BY <1>0, <1>14 DEF EndTrigger, PwmReturned, Goto, Return
  <2> QED
    BY <2>1, <2>2 DEF Follows
<1>15. CASE Tez
  BY <1>15 DEF Tez, Follows
<1> QED
  BY <1>1, <1>3, <1>4, <1>5, <1>6, <1>7, <1>8, <1>9, <1>10, <1>11, <1>12, <1>13, <1>14, <1>15
     DEF PwmNext, PwmStep

-----------------------------------------------------------------------------
(* A fresh start, by pwm_gen_init or by a restart.                         *)

LEMMA FreshFacts ==
  /\ InitFreq \in Freq /\ InitFreq \in Nat
  /\ InitSw \in SwType /\ InitSw.timer /\ InitSw.freq = InitFreq /\ InitSw.duty = 0
  /\ InitSw.res = PickBand(InitFreq).res /\ InitSw.period = Period(InitFreq)
  /\ InitHw \in HwType /\ InitHw.exists /\ InitHw.running /\ InitHw.enabled /\ InitHw.cmp = 0
  /\ InitHw.shadow = RegsOf(InitFreq) /\ InitHw.active = RegsOf(InitFreq)
  /\ InitCycle \in [res: Nat, period: Nat, cmp: Nat] /\ InitCycle.cmp = 0
  /\ InitCycle.res = PickBand(InitFreq).res /\ InitCycle.period = Period(InitFreq)
  /\ InitCall \in CallType /\ InitCall.pc = "idle" /\ InitCall.freq = InitFreq
  /\ InitCall.cmp = 0 /\ InitCall.failed = FALSE
  /\ Compare(InitSw.duty, InitSw.period) = {0}
<1>1. InitFreq \in Freq /\ InitFreq \in Nat
  BY ControlAssumption, SMT DEF InitFreq
<1>2. PickBand(InitFreq).res \in Nat /\ Period(InitFreq) \in Nat
  BY <1>1, RegsType, SMT
<1>3. InitRegs = RegsOf(InitFreq) /\ HI.res = PickBand(InitFreq).res
  BY SMT DEF InitRegs, RegsOf, PickBand, Period, PeriodTicks, InitFreq, HI
<1>4. InitRegs.period = Period(InitFreq) /\ InitRegs.res = PickBand(InitFreq).res
  BY <1>3, SMT DEF RegsOf
<1>5. Compare(0, Period(InitFreq)) = {0}
  BY <1>1, CompareZero, SMT
<1>6. InitRegs \in Regs
  BY <1>2, <1>3, SMT DEF RegsOf, Regs
<1>7. InitSw = [timer |-> TRUE, freq |-> InitFreq, duty |-> 0, period |-> Period(InitFreq),
                res |-> PickBand(InitFreq).res, trigger |-> 0]
  BY <1>3, <1>4, SMT DEF InitSw
<1>8. InitSw \in SwType
  BY <1>1, <1>2, <1>7, SMT
<1>9. InitHw \in HwType
  BY <1>6, SMT DEF InitHw
<1>10. InitCycle \in [res: Nat, period: Nat, cmp: Nat]
  BY <1>2, <1>4, SMT DEF InitCycle
<1>11. InitCall \in CallType
  BY <1>1, SMT DEF InitCall, CallPC, Result
<1>12. InitSw.timer /\ InitSw.freq = InitFreq /\ InitSw.duty = 0
       /\ InitSw.res = PickBand(InitFreq).res /\ InitSw.period = Period(InitFreq)
  BY <1>7, SMT
<1>13. InitHw.exists /\ InitHw.running /\ InitHw.enabled /\ InitHw.cmp = 0
       /\ InitHw.shadow = RegsOf(InitFreq) /\ InitHw.active = RegsOf(InitFreq)
  BY <1>3, SMT DEF InitHw
<1>14. InitCycle.cmp = 0 /\ InitCycle.res = PickBand(InitFreq).res
       /\ InitCycle.period = Period(InitFreq)
  BY <1>4, SMT DEF InitCycle
<1>15. InitCall.pc = "idle" /\ InitCall.freq = InitFreq /\ InitCall.cmp = 0
       /\ InitCall.failed = FALSE
  BY SMT DEF InitCall
<1> QED
  BY <1>1, <1>5, <1>8, <1>9, <1>10, <1>11, <1>12, <1>13, <1>14, <1>15, Zenon

PwmInv == PwmTyped /\ TimerInv /\ BandInv /\ FollowInv

LEMMA PwmInitInv ==
  ASSUME PwmInit
  PROVE  PwmInv
<1>1. sw = InitSw /\ hw = InitHw /\ cycle = InitCycle /\ call = InitCall
  BY DEF PwmInit
<1>2. PwmTyped
  BY <1>1, FreshFacts DEF PwmTyped, PwmTypeOK, Busy
<1>3. TimerInv
  BY <1>1, FreshFacts DEF TimerInv, TeardownPC, SamePC, RecreatePC
<1>4. BandInv
  BY <1>1, FreshFacts
     DEF BandInv, NoMixedBand, Rebuilding, Synced, SamePC, RecreatePC, RegsOf
<1>5. FollowInv
  BY <1>1, FreshFacts DEF FollowInv, Follows, RegsOf
<1> QED
  BY <1>2, <1>3, <1>4, <1>5 DEF PwmInv

LEMMA ResetInv ==
  ASSUME Reset
  PROVE  PwmInv'
<1>1. sw' = InitSw /\ hw' = InitHw /\ cycle' = InitCycle /\ call' = InitCall
  BY DEF Reset
<1>2. PwmTyped'
  BY <1>1, FreshFacts DEF PwmTyped, PwmTypeOK, Busy
<1>3. TimerInv'
  BY <1>1, FreshFacts DEF TimerInv, TeardownPC, SamePC, RecreatePC
<1>4. BandInv'
  BY <1>1, FreshFacts
     DEF BandInv, NoMixedBand, Rebuilding, Synced, SamePC, RecreatePC, RegsOf
<1>5. FollowInv'
  BY <1>1, FreshFacts DEF FollowInv, Follows, RegsOf
<1> QED
  BY <1>2, <1>3, <1>4, <1>5 DEF PwmInv

LEMMA PwmKept ==
  ASSUME PwmInv, PwmNext \/ UNCHANGED pwmVars
  PROVE  PwmInv'
<1>1. CASE PwmNext
  BY <1>1, PwmStepTyped, TimerStep, BandStep, FollowStep DEF PwmInv
<1>2. CASE UNCHANGED pwmVars
  BY <1>2 DEF pwmVars, PwmInv, PwmTyped, PwmTypeOK, TimerInv, BandInv, NoMixedBand,
     FollowInv, Follows, CallRegs, CallPeriod
<1> QED
  BY <1>1, <1>2

-----------------------------------------------------------------------------
(* The queue and the task.                                                 *)

CtlTyped ==
  /\ queue \in Seq(Cmd) /\ Len(queue) <= QueueLen
  /\ ctl \in {"receive", "pwm", "publish_freq", "publish_duty", "save"}
  /\ ctl = "pwm" <=> call.pc # "idle"
  /\ pub \in Pair
  /\ nvs \in Freq \cup {0} /\ (nvs # 0 => nvs >= FreqMin /\ nvs <= FreqMax)
  /\ boot \in {"pwm", "power", "run"}
  /\ boot = "pwm" => queue = << >> /\ ctl = "receive"
  /\ wanted \in [last: Pair, on: BOOLEAN]

LEMMA CmdFacts ==
  /\ \A c \in Cmd : c.kind = "set_pwm" => c.freq \in Freq /\ c.duty \in Duty
  /\ \A c \in Cmd : c \in [kind: {"set_pwm", "save_pwm_freq", "other"}, freq: Nat, duty: Duty]
  /\ FrontEndCmd \subseteq Cmd /\ OtherCmd \in Cmd
  /\ \A f \in Freq : SetPwmCmd(f, 0) \in Cmd
<1> USE DEF SetPwmCmd, SaveFreqCmd, OtherCmd
<1>1. Freq \subseteq Nat /\ 0 \in Duty /\ Request \subseteq [freq: Freq, duty: Duty]
  BY PwmAssumption, ControlAssumption
<1>2. ASSUME NEW c \in Cmd
      PROVE  /\ c.kind = "set_pwm" => c.freq \in Freq /\ c.duty \in Duty
             /\ c \in [kind: {"set_pwm", "save_pwm_freq", "other"}, freq: Nat, duty: Duty]
  <2>1. ASSUME NEW f \in Freq, NEW d \in Duty, c = SetPwmCmd(f, d)
        PROVE  c.freq \in Freq /\ c.duty \in Duty
               /\ c \in [kind: {"set_pwm", "save_pwm_freq", "other"}, freq: Nat, duty: Duty]
    BY <1>1, <2>1
  <2>2. CASE c \in {SaveFreqCmd, OtherCmd}
    BY <1>1, <2>2
  <2> QED
    BY <1>2, <2>1, <2>2 DEF Cmd
<1> HIDE DEF SetPwmCmd, SaveFreqCmd, OtherCmd
<1>3. FrontEndCmd \subseteq Cmd
  <2>1. \A r \in Request : r.freq \in Freq /\ r.duty \in Duty
    BY <1>1
  <2> QED
    BY <2>1 DEF FrontEndCmd, Cmd
<1>4. OtherCmd \in Cmd /\ \A f \in Freq : SetPwmCmd(f, 0) \in Cmd
  BY <1>1 DEF Cmd
<1> QED
  BY <1>2, <1>3, <1>4

\* What app_main posts first is accepted, whatever the flash holds.
LEMMA BootAccepted ==
  ASSUME CtlTyped
  PROVE  BootFreq \in Freq /\ ~Rejected(BootFreq, 0)
<1>1. CASE BootFreq = Fallback
  BY <1>1, ControlAssumption
<1>2. CASE BootFreq # Fallback
  <2>1. BootFreq = nvs /\ ~(nvs < FreqMin) /\ ~(nvs > FreqMax)
    BY <1>2 DEF BootFreq
  <2>2. FreqMin = 10
    BY DEF FreqMin
  <2>3. nvs # 0 /\ nvs \in Freq /\ nvs \in Nat /\ nvs >= FreqMin /\ nvs <= FreqMax
    BY <2>1, <2>2, PwmAssumption DEF CtlTyped
  <2> QED
    BY <2>1, <2>3, RangeAccepted
<1> QED
  BY <1>1, <1>2

LEMMA PostType ==
  ASSUME CtlTyped, NEW c \in Cmd, Post(c)
  PROVE  /\ queue' \in Seq(Cmd) /\ Len(queue') <= QueueLen
         /\ wanted' \in [last: Pair, on: BOOLEAN]
<1>0. queue \in Seq(Cmd) /\ Len(queue) <= QueueLen /\ QueueLen \in Nat
      /\ wanted \in [last: Pair, on: BOOLEAN]
  BY ControlAssumption DEF CtlTyped
<1>1. CASE Len(queue) < QueueLen
  <2>1. queue' = Append(queue, c)
    BY <1>1 DEF Post
  <2>2. CASE UNCHANGED wanted
    BY <1>0, <1>1, <2>1, <2>2
  <2>3. CASE c.kind = "set_pwm"
             /\ wanted' = [last |-> [freq |-> c.freq, duty |-> c.duty],
                           on   |-> wanted.on \/ c.duty # 0]
    <3>1. [freq |-> c.freq, duty |-> c.duty] \in Pair
      BY <2>3, CmdFacts DEF Pair
    <3>2. (wanted.on \/ c.duty # 0) \in BOOLEAN
      OBVIOUS
    <3>3. wanted' \in [last: Pair, on: BOOLEAN]
      BY <2>3, <3>1, <3>2
    <3> QED
      BY <1>0, <1>1, <2>1, <3>3
  <2> QED
    BY <1>1, <2>2, <2>3 DEF Post
<1>2. CASE UNCHANGED <<queue, wanted>>
  BY <1>0, <1>2
<1> QED
  BY <1>1, <1>2 DEF Post

LEMMA CtlStepTyped ==
  ASSUME PwmInv, CtlTyped, [ControlNext]_controlVars
  PROVE  CtlTyped' /\ (PwmNext \/ Reset \/ UNCHANGED pwmVars)
<1> USE DEF CtlTyped
<1>0. /\ sw.freq \in Freq /\ call.freq \in Freq /\ call.duty \in Duty
      /\ call \in CallType
  BY ControlAssumption DEF PwmInv, PwmTyped, PwmTypeOK
<1>1. ASSUME NEW c \in FrontEndCmd, FrontEndPost(c)
      PROVE  CtlTyped' /\ UNCHANGED pwmVars
  BY <1>1, CmdFacts, PostType DEF FrontEndPost, pwmVars
<1>2. CASE BootPwm
  BY <1>2, CmdFacts, BootAccepted, PostType DEF BootPwm, MainRuns, pwmVars
<1>3. CASE BootPower
  BY <1>3, CmdFacts, PostType DEF BootPower, MainRuns, pwmVars
<1>4. CASE Receive
  <2> DEFINE c == Head(queue)
  <2>1. c \in Cmd /\ queue' \in Seq(Cmd) /\ Len(queue') <= QueueLen
        /\ boot # "pwm" /\ call.pc = "idle" /\ UNCHANGED <<pub, nvs, boot, wanted>>
    BY <1>4, ControlAssumption DEF Receive
  <2>2. CASE c.kind = "set_pwm" /\ PwmSet(c.freq, c.duty) /\ ctl' = "pwm"
    <3>1. call'.pc # "idle"
      BY <1>0, <2>2 DEF PwmSet, Refuse
    <3>2. PwmNext
      BY <2>1, <2>2, CmdFacts DEF PwmNext
    <3> QED
      BY <2>1, <2>2, <3>1, <3>2
  <2>3. CASE ctl' = "save" /\ UNCHANGED pwmVars
    BY <1>4, <2>1, <2>3 DEF Receive, pwmVars
  <2>4. CASE UNCHANGED <<pwmVars, ctl>>
    BY <1>4, <2>1, <2>4 DEF Receive, pwmVars
  <2> QED
    BY <1>4, <2>2, <2>3, <2>4 DEF Receive
<1>5. CASE PwmWorks
  <2>1. call.pc # "idle" /\ call'.pc # "idle"
    BY <1>0, <1>5 DEF PwmWorks, PwmStep, SetPeriod, SetCompare, StopTimer, DisableTimer,
       DelTimer, NewTimer, SoftSync, ConnectTimer, SetNewCompare, EnableTimer, StartTimer,
       Commit, EndTrigger, Driver, Goto, Return
  <2> QED
    BY <1>5, <2>1 DEF PwmWorks, PwmNext, ctlVars
<1>6. CASE PwmDone
  BY <1>0, <1>6 DEF PwmDone, PwmReturned, Goto, PwmNext
<1>7. CASE PublishFreq \/ PublishDuty
  BY <1>0, <1>7 DEF PublishFreq, PublishDuty, Pair, pwmVars
<1>8. CASE SaveFreq
  <2>1. FreqMin \in Int /\ FreqMax \in Int
    BY DEF FreqMin, FreqMax
  <2>2. nvs' = nvs \/ (nvs' = sw.freq /\ sw.freq >= FreqMin /\ sw.freq <= FreqMax)
    BY <1>0, <1>8, <2>1 DEF SaveFreq
  <2> QED
    BY <1>0, <1>8, <2>2 DEF SaveFreq, pwmVars
<1>9. CASE Tez /\ UNCHANGED ctlVars
  BY <1>9 DEF Tez, ctlVars, PwmNext
<1>10. CASE Reset
  BY <1>10, FreshFacts, ControlAssumption DEF Reset, NoPair, NoWish, Pair
<1>11. CASE UNCHANGED controlVars
  BY <1>11 DEF controlVars, ctlVars, pwmVars
<1> QED
  BY <1>1, <1>2, <1>3, <1>4, <1>5, <1>6, <1>7, <1>8, <1>9, <1>10, <1>11
     DEF ControlNext, BootStep, CtlStep

-----------------------------------------------------------------------------
(* Duty 0.  Until another duty is queued, every acceptable command in the  *)
(* queue, the call in progress and the comparator have duty 0.             *)

ZeroInv ==
  ~wanted.on =>
    /\ hw.cmp = 0 /\ cycle.cmp = 0 /\ call.cmp = 0
    /\ \A k \in DOMAIN queue :
         queue[k].kind = "set_pwm" /\ ~Rejected(queue[k].freq, queue[k].duty) => queue[k].duty = 0

LEMMA CmpStep ==
  ASSUME PwmTyped, PwmStep \/ PwmReturned \/ Tez
  PROVE  /\ hw'.cmp \in {hw.cmp, call.cmp} /\ cycle'.cmp \in {cycle.cmp, hw.cmp}
         /\ call'.cmp = call.cmp
<1>0. hw \in HwType /\ call \in CallType
  BY DEF PwmTyped, PwmTypeOK
<1>1. CASE SetPeriod \/ SetCompare \/ StopTimer \/ DisableTimer \/ ConnectTimer
           \/ SetNewCompare \/ EnableTimer \/ StartTimer
  BY <1>0, <1>1 DEF SetPeriod, SetCompare, StopTimer, DisableTimer, ConnectTimer,
     SetNewCompare, EnableTimer, StartTimer, Driver, Goto, Return
<1>2. CASE DelTimer
  BY <1>0, <1>2 DEF DelTimer, Goto, Return
<1>3. CASE NewTimer
  BY <1>0, <1>3 DEF NewTimer, Goto, Return
<1>4. CASE SoftSync \/ Commit \/ EndTrigger \/ PwmReturned
  BY <1>0, <1>4 DEF SoftSync, Commit, EndTrigger, PwmReturned, Goto, Return
<1>5. CASE Tez
  BY <1>5 DEF Tez
<1> QED
  BY <1>1, <1>2, <1>3, <1>4, <1>5 DEF PwmStep

LEMMA PostQueue ==
  ASSUME CtlTyped, NEW c \in Cmd, Post(c)
  PROVE  \/ UNCHANGED <<queue, wanted>>
         \/ /\ DOMAIN queue' = 1..(Len(queue) + 1) /\ DOMAIN queue = 1..Len(queue)
            /\ Len(queue) \in Nat /\ queue'[Len(queue) + 1] = c
            /\ \A k \in DOMAIN queue : queue'[k] = queue[k]
            /\ IF c.kind = "set_pwm" /\ ~Rejected(c.freq, c.duty)
               THEN wanted' = [last |-> [freq |-> c.freq, duty |-> c.duty],
                               on   |-> wanted.on \/ c.duty # 0]
               ELSE wanted' = wanted
<1>1. queue \in Seq(Cmd)
  BY DEF CtlTyped
<1>2. CASE UNCHANGED <<queue, wanted>>
  BY <1>2
<1>3. CASE queue' = Append(queue, c)
  <2>1. /\ DOMAIN queue' = 1..(Len(queue) + 1) /\ DOMAIN queue = 1..Len(queue)
        /\ Len(queue) \in Nat /\ queue'[Len(queue) + 1] = c
        /\ \A k \in DOMAIN queue : queue'[k] = queue[k]
    BY <1>1, <1>3
  <2>2. \/ UNCHANGED queue
        \/ IF c.kind = "set_pwm" /\ ~Rejected(c.freq, c.duty)
           THEN wanted' = [last |-> [freq |-> c.freq, duty |-> c.duty],
                           on   |-> wanted.on \/ c.duty # 0]
           ELSE wanted' = wanted
    BY DEF Post
  <2>3. queue' # queue
    BY <1>1, <1>3
  <2> QED
    BY <2>1, <2>2, <2>3
<1> QED
  BY <1>2, <1>3 DEF Post

LEMMA PopQueue ==
  ASSUME CtlTyped, queue # << >>, queue' = Tail(queue)
  PROVE  /\ Head(queue) \in Cmd /\ Head(queue) = queue[1] /\ 1 \in DOMAIN queue
         /\ DOMAIN queue = 1..Len(queue) /\ Len(queue) \in Nat
         /\ DOMAIN queue' = 1..(Len(queue) - 1)
         /\ \A k \in DOMAIN queue' : queue'[k] = queue[k + 1] /\ k + 1 \in DOMAIN queue
<1>1. queue \in Seq(Cmd)
  BY DEF CtlTyped
<1> QED
  BY <1>1

LEMMA ZeroStep ==
  ASSUME PwmInv, CtlTyped, ZeroInv, [ControlNext]_controlVars
  PROVE  ZeroInv'
<1> USE DEF ZeroInv
<1>0. PwmTyped /\ call \in CallType /\ wanted.on \in BOOLEAN
  BY DEF PwmInv, PwmTyped, PwmTypeOK, CtlTyped
<1>1. ASSUME NEW c \in Cmd, Post(c), UNCHANGED pwmVars
      PROVE  ZeroInv'
  <2>1. CASE UNCHANGED <<queue, wanted>>
    BY <1>1, <2>1 DEF pwmVars
  <2>2. CASE c.kind = "set_pwm" /\ ~Rejected(c.freq, c.duty)
             /\ wanted' = [last |-> [freq |-> c.freq, duty |-> c.duty],
                           on   |-> wanted.on \/ c.duty # 0]
    <3>1. ~wanted'.on => ~wanted.on /\ c.duty = 0
      BY <2>2
    <3> QED
      BY <1>1, <3>1, PostQueue DEF pwmVars
  <2>3. CASE ~(c.kind = "set_pwm" /\ ~Rejected(c.freq, c.duty)) /\ wanted' = wanted
    BY <1>1, <2>3, PostQueue DEF pwmVars
  <2> QED
    BY <1>1, <2>1, <2>2, <2>3, PostQueue
<1>2. ASSUME NEW c \in FrontEndCmd, FrontEndPost(c)
      PROVE  ZeroInv'
  BY <1>1, <1>2, CmdFacts DEF FrontEndPost
<1>3. CASE BootPwm
  BY <1>1, <1>3, CmdFacts, BootAccepted DEF BootPwm
<1>4. CASE BootPower
  BY <1>1, <1>4, CmdFacts DEF BootPower
<1>5. CASE Receive
  <2> DEFINE c == Head(queue)
  <2>0. UNCHANGED wanted /\ queue # << >> /\ queue' = Tail(queue)
    BY <1>5 DEF Receive
  <2>1. \A k \in DOMAIN queue' : \E j \in DOMAIN queue : queue'[k] = queue[j]
    BY <2>0, PopQueue
  <2>2. CASE UNCHANGED pwmVars
    BY <2>0, <2>1, <2>2 DEF pwmVars
  <2>3. CASE c.kind = "set_pwm" /\ PwmSet(c.freq, c.duty)
    <3>1. UNCHANGED <<hw, cycle>>
      BY <2>3 DEF PwmSet
    <3>2. c \in Cmd /\ c.freq \in Freq /\ c.freq \in Nat /\ 1 \in DOMAIN queue /\ c = queue[1]
      BY <2>0, <2>3, PopQueue, CmdFacts, PwmAssumption
    <3>3. ~wanted.on /\ ~Rejected(c.freq, c.duty) => Compare(c.duty, Period(c.freq)) = {0}
      BY <2>3, <3>2, CompareZero
    <3>4. ~wanted.on => call'.cmp = 0
      <4>1. ASSUME NEW ret, Refuse(c.freq, c.duty, ret)
            PROVE  call'.cmp = 0
        BY <1>0, <4>1 DEF Refuse
      <4>2. ASSUME ~wanted.on, ~Rejected(c.freq, c.duty), NEW x \in Compare(c.duty, Period(c.freq)),
                   NEW pc, call' = [call EXCEPT !.pc = pc, !.freq = c.freq, !.duty = c.duty, !.cmp = x]
            PROVE  call'.cmp = 0
        BY <1>0, <3>3, <4>2
      <4> QED
        BY <2>3, <4>1, <4>2 DEF PwmSet
    <3> QED
      BY <2>0, <2>1, <3>1, <3>4
  <2> QED
    BY <1>5, <2>2, <2>3 DEF Receive, pwmVars
<1>6. CASE PwmWorks \/ PwmDone \/ (Tez /\ UNCHANGED ctlVars)
  <2>1. UNCHANGED <<queue, wanted>>
    BY <1>6 DEF PwmWorks, PwmDone, ctlVars
  <2>2. PwmStep \/ PwmReturned \/ Tez
    BY <1>6 DEF PwmWorks, PwmDone
  <2> QED
    BY <1>0, <2>1, <2>2, CmpStep
<1>7. CASE PublishFreq \/ PublishDuty \/ SaveFreq
  BY <1>7 DEF PublishFreq, PublishDuty, SaveFreq, pwmVars
<1>8. CASE Reset
  BY <1>8, FreshFacts DEF Reset
<1>9. CASE UNCHANGED controlVars
  BY <1>9 DEF controlVars, ctlVars, pwmVars
<1> QED
  BY <1>2, <1>3, <1>4, <1>5, <1>6, <1>7, <1>8, <1>9 DEF ControlNext, BootStep, CtlStep

-----------------------------------------------------------------------------
(* The last acceptable request.  It is in the queue, or in progress, or    *)
(* recorded and published, at every point between.                         *)

Acceptable(c) == c.kind = "set_pwm" /\ ~Rejected(c.freq, c.duty)
Asked(c)      == [freq |-> c.freq, duty |-> c.duty]
Called        == [freq |-> call.freq, duty |-> call.duty]

\* Where it is once the queue holds no acceptable request.
Served ==
  \/ ctl \in {"receive", "save"} /\ Recorded = wanted.last /\ pub = wanted.last
  \/ ctl = "pwm" /\ call.pc \in Busy \ {"trigger"} /\ Called = wanted.last
  \/ ctl = "pwm" /\ call.pc = "trigger" /\ Called = wanted.last /\ Recorded = wanted.last
  \/ /\ ctl = "pwm" /\ call.pc = "done" /\ call.ret = "ok"
     /\ Called = wanted.last /\ Recorded = wanted.last
  \/ /\ ctl = "pwm" /\ call.pc = "done" /\ call.ret # "ok"
     /\ Recorded = wanted.last /\ pub = wanted.last
  \/ ctl = "publish_freq" /\ Called = wanted.last /\ Recorded = wanted.last
  \/ /\ ctl = "publish_duty" /\ Called = wanted.last /\ Recorded = wanted.last
     /\ pub.freq = wanted.last.freq

WishInv ==
  ~call.failed /\ boot # "pwm" =>
    /\ \A k \in DOMAIN queue :
         Acceptable(queue[k]) /\ (\A j \in DOMAIN queue : j > k => ~Acceptable(queue[j]))
           => wanted.last = Asked(queue[k])
    /\ (\A k \in DOMAIN queue : ~Acceptable(queue[k])) => Served

\* One step of pwm_gen_set, unless it fails.
LEMMA WorkStep ==
  ASSUME PwmTyped, PwmStep, ~call'.failed
  PROVE  /\ ~call.failed /\ Called' = Called
         /\ \/ /\ call.pc \in Busy \ {"trigger", "commit"} /\ call'.pc \in Busy \ {"trigger"}
            \/ /\ call.pc = "commit" /\ call'.pc = "trigger" /\ Recorded' = Called
            \/ /\ call.pc = "trigger" /\ call'.pc = "done" /\ call'.ret = "ok"
               /\ Recorded' = Recorded
<1>0. sw \in SwType /\ call \in CallType
  BY DEF PwmTyped, PwmTypeOK
<1> USE DEF Called, Recorded, Busy, CallPC, TeardownPC, RecreatePC, SamePC
<1>1. ASSUME NEW pc, Goto(pc)
      PROVE  call'.pc = pc /\ call'.freq = call.freq /\ call'.duty = call.duty
             /\ call'.failed = call.failed
  BY <1>0, <1>1 DEF Goto
<1>2. ASSUME NEW ret, Return(ret)
      PROVE  /\ call'.pc = "done" /\ call'.freq = call.freq /\ call'.duty = call.duty
             /\ call'.ret = ret /\ ret = "ok" /\ ~call.failed
  <2>1. call'.failed = (call.failed \/ ret # "ok")
    BY <1>0, <1>2 DEF Return
  <2> QED
    BY <1>0, <1>2, <2>1 DEF Return
<1>3. CASE Commit
  <2>1. sw'.freq = call.freq /\ sw'.duty = call.duty
    BY <1>0, <1>3 DEF Commit
  <2> QED
    BY <1>1, <1>3, <2>1 DEF Commit
<1>4. CASE EndTrigger
  <2>1. sw'.freq = sw.freq /\ sw'.duty = sw.duty
    BY <1>0, <1>4 DEF EndTrigger
  <2> QED
    BY <1>2, <1>4, <2>1 DEF EndTrigger
<1>5. CASE SetPeriod \/ SetCompare \/ StopTimer \/ DisableTimer
  BY <1>1, <1>2, <1>5 DEF SetPeriod, SetCompare, StopTimer, DisableTimer, Driver
<1>6. CASE DelTimer \/ NewTimer \/ SoftSync
  BY <1>1, <1>2, <1>6 DEF DelTimer, NewTimer, SoftSync
<1>7. CASE ConnectTimer \/ SetNewCompare \/ EnableTimer \/ StartTimer
  BY <1>1, <1>2, <1>7 DEF ConnectTimer, SetNewCompare, EnableTimer, StartTimer, Driver
<1> QED
  BY <1>3, <1>4, <1>5, <1>6, <1>7 DEF PwmStep

LEMMA WishStep ==
  ASSUME PwmInv, CtlTyped, WishInv, [ControlNext]_controlVars
  PROVE  WishInv'
<1>0. PwmTyped /\ call \in CallType /\ sw \in SwType /\ wanted \in [last: Pair, on: BOOLEAN]
  BY DEF PwmInv, PwmTyped, PwmTypeOK, CtlTyped
<1>s. ASSUME UNCHANGED <<pwmVars, ctl, pub>>, wanted'.last = wanted.last
      PROVE  Served' <=> Served
  BY <1>s DEF Served, Recorded, Called, pwmVars
\* A command is queued.
<1>1. ASSUME NEW c \in Cmd, Post(c), UNCHANGED <<pwmVars, ctl, pub>>,
             boot = "pwm" => Acceptable(c)
      PROVE  WishInv'
  <2>1. CASE UNCHANGED <<queue, wanted>>
    <3>1. boot # "pwm"
      <4>1. CASE boot = "pwm"
        <5>1. Len(queue) < QueueLen /\ queue \in Seq(Cmd)
          BY <4>1, ControlAssumption DEF CtlTyped
        <5>2. queue' = Append(queue, c) /\ queue' # queue
          BY <1>1, <5>1 DEF Post
        <5> QED
          BY <2>1, <5>2
      <4> QED
        BY <4>1
    <3>2. Served' <=> Served
      BY <1>1, <1>s, <2>1
    <3> QED
      BY <1>1, <2>1, <3>1, <3>2 DEF pwmVars, WishInv
  <2>2. ASSUME /\ DOMAIN queue' = 1..(Len(queue) + 1) /\ DOMAIN queue = 1..Len(queue)
               /\ Len(queue) \in Nat /\ queue'[Len(queue) + 1] = c
               /\ \A k \in DOMAIN queue : queue'[k] = queue[k],
               Acceptable(c), wanted'.last = Asked(c)
        PROVE  WishInv'
    <3>1. Len(queue) + 1 \in DOMAIN queue'
      BY <2>2
    <3>2. \A k \in DOMAIN queue' : k # Len(queue) + 1 => Len(queue) + 1 > k
      BY <2>2
    <3> QED
      BY <2>2, <3>1, <3>2 DEF WishInv
  <2>3. ASSUME /\ DOMAIN queue' = 1..(Len(queue) + 1) /\ DOMAIN queue = 1..Len(queue)
               /\ Len(queue) \in Nat /\ queue'[Len(queue) + 1] = c
               /\ \A k \in DOMAIN queue : queue'[k] = queue[k],
               ~Acceptable(c), wanted' = wanted
        PROVE  WishInv'
    <3>1. DOMAIN queue \subseteq DOMAIN queue'
          /\ \A k \in DOMAIN queue' : k \in DOMAIN queue \/ k = Len(queue) + 1
      BY <2>3
    <3>2. \A k \in DOMAIN queue' : Acceptable(queue'[k]) => k \in DOMAIN queue
      BY <2>3, <3>1
    <3>3. Served' <=> Served
      BY <1>1, <1>s, <2>3
    <3>4. boot # "pwm" /\ call' = call
      BY <1>1, <2>3 DEF pwmVars
    <3> HIDE DEF Acceptable
    <3>5. ASSUME ~call.failed, NEW k \in DOMAIN queue', Acceptable(queue'[k]),
                 \A j \in DOMAIN queue' : j > k => ~Acceptable(queue'[j])
          PROVE  wanted'.last = Asked(queue'[k])
      <4>1. k \in DOMAIN queue /\ queue'[k] = queue[k]
        BY <2>3, <3>2, <3>5
      <4>2. \A j \in DOMAIN queue : j > k => ~Acceptable(queue[j])
        BY <2>3, <3>1, <3>5
      <4> QED
        BY <2>3, <3>4, <3>5, <4>1, <4>2 DEF WishInv
    <3>6. ASSUME ~call.failed, \A k \in DOMAIN queue' : ~Acceptable(queue'[k])
          PROVE  Served'
      BY <2>3, <3>1, <3>3, <3>4, <3>6 DEF WishInv
    <3> QED
      BY <3>4, <3>5, <3>6 DEF WishInv
  <2>4. Acceptable(c) => wanted'.last = Asked(c) \/ UNCHANGED <<queue, wanted>>
    BY <1>1, PostQueue DEF Acceptable, Asked
  <2>5. ~Acceptable(c) => wanted' = wanted
    BY <1>1, PostQueue DEF Acceptable
  <2> QED
    BY <1>1, <2>1, <2>2, <2>3, <2>4, <2>5, PostQueue
<1>2. ASSUME NEW c \in FrontEndCmd, FrontEndPost(c)
      PROVE  WishInv'
  BY <1>1, <1>2, CmdFacts DEF FrontEndPost
<1>3. CASE BootPwm
  <2>1. Acceptable(SetPwmCmd(BootFreq, 0))
    BY BootAccepted DEF Acceptable, SetPwmCmd
  <2> QED
    BY <1>1, <1>3, <2>1, CmdFacts, BootAccepted DEF BootPwm
<1>4. CASE BootPower
  BY <1>1, <1>4, CmdFacts DEF BootPower
\* The head of the queue is taken.
<1>5. CASE Receive
  <2> DEFINE c == Head(queue)
  <2>0. /\ UNCHANGED <<pub, boot, wanted>> /\ queue # << >> /\ queue' = Tail(queue)
        /\ ctl = "receive" /\ boot # "pwm" /\ call.pc = "idle"
    BY <1>5 DEF Receive, CtlTyped
  <2>1. /\ c \in Cmd /\ c = queue[1] /\ 1 \in DOMAIN queue
        /\ DOMAIN queue = 1..Len(queue) /\ Len(queue) \in Nat
        /\ DOMAIN queue' = 1..(Len(queue) - 1)
        /\ \A k \in DOMAIN queue' : queue'[k] = queue[k + 1] /\ k + 1 \in DOMAIN queue
    BY <2>0, PopQueue
  <2>2. \A j \in DOMAIN queue : j # 1 => j - 1 \in DOMAIN queue' /\ queue'[j - 1] = queue[j]
    <3>1. \A j \in DOMAIN queue : j # 1 => j - 1 \in DOMAIN queue' /\ (j - 1) + 1 = j
      BY <2>1
    <3> QED
      BY <2>1, <3>1
  <2> HIDE DEF c
  <2>3. call'.failed = call.failed
    <3>1. CASE PwmSet(c.freq, c.duty)
      BY <1>0, <3>1 DEF PwmSet, Refuse
    <3> QED
      BY <1>5, <3>1 DEF Receive, pwmVars, c
  <2>4. ASSUME ~call.failed, NEW k \in DOMAIN queue', Acceptable(queue'[k]),
               \A j \in DOMAIN queue' : j > k => ~Acceptable(queue'[j])
        PROVE  wanted'.last = Asked(queue'[k])
    <3>1. k + 1 \in DOMAIN queue /\ queue'[k] = queue[k + 1]
      BY <2>1
    <3>2. ASSUME NEW j \in DOMAIN queue, j > k + 1
          PROVE  ~Acceptable(queue[j])
      <4>1. j # 1 /\ j - 1 > k
        BY <2>1, <3>2
      <4> QED
        BY <2>2, <2>4, <4>1
    <3> QED
      BY <2>0, <2>4, <3>1, <3>2 DEF WishInv
  <2>5. ASSUME ~call.failed, \A k \in DOMAIN queue' : ~Acceptable(queue'[k])
        PROVE  Served'
    <3>1. \A j \in DOMAIN queue : j > 1 => ~Acceptable(queue[j])
      BY <2>1, <2>2, <2>5
    <3>2. sw.timer
      BY <2>0, <2>5 DEF PwmInv, FollowInv
    <3>3. CASE Acceptable(c)
      <4>1. wanted.last = Asked(c)
        BY <2>0, <2>1, <2>5, <3>1, <3>3 DEF WishInv
      <4>2. c.kind = "set_pwm" /\ ~Rejected(c.freq, c.duty)
        BY <3>3 DEF Acceptable
      <4>3. PwmSet(c.freq, c.duty) /\ ctl' = "pwm"
        BY <1>5, <4>2 DEF Receive, c
      <4>4. PICK x \in Compare(c.duty, Period(c.freq)), pc \in {"set_period", "stop"} :
              call' = [call EXCEPT !.pc = pc, !.freq = c.freq, !.duty = c.duty, !.cmp = x]
        BY <3>2, <4>2, <4>3 DEF PwmSet
      <4>5. call'.pc \in Busy \ {"trigger"} /\ call'.freq = c.freq /\ call'.duty = c.duty
        BY <1>0, <4>4 DEF Busy, CallPC, SamePC, TeardownPC
      <4> QED
        BY <2>0, <4>1, <4>3, <4>5 DEF Served, Called, Asked
    <3>4. CASE ~Acceptable(c)
      <4>1. \A j \in DOMAIN queue : ~Acceptable(queue[j])
        <5>1. \A j \in DOMAIN queue : j = 1 \/ j > 1
          BY <2>1
        <5> QED
          BY <2>1, <3>1, <3>4, <5>1
      <4>2. Recorded = wanted.last /\ pub = wanted.last
        BY <2>0, <2>5, <4>1 DEF WishInv, Served
      <4>3. CASE c.kind = "set_pwm" /\ PwmSet(c.freq, c.duty) /\ ctl' = "pwm"
        <5>1. Refuse(c.freq, c.duty, "invalid_arg") /\ UNCHANGED sw
          BY <3>2, <3>4, <4>3 DEF PwmSet, Acceptable
        <5>2. call'.pc = "done" /\ call'.ret # "ok"
          BY <1>0, <5>1 DEF Refuse
        <5> QED
          BY <2>0, <4>2, <4>3, <5>1, <5>2 DEF Served, Recorded
      <4>4. CASE UNCHANGED pwmVars /\ ctl' \in {"receive", "save"}
        BY <2>0, <4>2, <4>4 DEF Served, Recorded, pwmVars
      <4> QED
        BY <1>5, <2>0, <4>3, <4>4 DEF Receive, c
    <3> QED
      BY <3>3, <3>4
  <2> QED
    BY <2>0, <2>3, <2>4, <2>5 DEF WishInv
\* The queue stays: what was served still is.
<1>6. ASSUME UNCHANGED <<queue, boot, wanted>>, ~call'.failed => ~call.failed,
             ~call'.failed /\ ~call.failed /\ Served => Served'
      PROVE  WishInv'
  BY <1>6 DEF WishInv
<1>7. CASE PwmWorks
  <2>1. UNCHANGED <<queue, boot, wanted, ctl, pub>>
    BY <1>7 DEF PwmWorks, ctlVars
  <2>2. PwmStep
    BY <1>7 DEF PwmWorks
  <2>3. ASSUME ~call'.failed
        PROVE  ~call.failed /\ (Served => Served')
    <3>1. /\ ~call.failed /\ Called' = Called
          /\ \/ /\ call.pc \in Busy \ {"trigger", "commit"} /\ call'.pc \in Busy \ {"trigger"}
             \/ /\ call.pc = "commit" /\ call'.pc = "trigger" /\ Recorded' = Called
             \/ /\ call.pc = "trigger" /\ call'.pc = "done" /\ call'.ret = "ok"
                /\ Recorded' = Recorded
      BY <1>0, <2>2, <2>3, WorkStep
    <3>2. ctl = "pwm"
      BY <3>1 DEF CtlTyped, Busy
    <3>3. call.pc # "done"
      BY <3>1 DEF Busy
    <3>4. "commit" \in Busy
      BY DEF Busy, CallPC
    <3>5. CASE call.pc \in Busy \ {"trigger", "commit"} /\ call'.pc \in Busy \ {"trigger"}
      BY <2>1, <3>1, <3>2, <3>3, <3>5 DEF Served
    <3>6. CASE call.pc = "commit" /\ call'.pc = "trigger" /\ Recorded' = Called
      BY <2>1, <3>1, <3>2, <3>3, <3>6 DEF Served
    <3>7. CASE call.pc = "trigger" /\ call'.pc = "done" /\ call'.ret = "ok" /\ Recorded' = Recorded
      BY <2>1, <3>1, <3>2, <3>3, <3>7 DEF Served
    <3> QED
      BY <3>1, <3>5, <3>6, <3>7
  <2> QED
    BY <1>6, <2>1, <2>3
<1>8. CASE PwmDone
  <2>1. /\ UNCHANGED <<queue, boot, wanted, pub, sw>> /\ ctl = "pwm" /\ call.pc = "done"
        /\ ctl' = IF call.ret = "ok" THEN "publish_freq" ELSE "receive"
        /\ call' = [call EXCEPT !.pc = "idle"]
    BY <1>8 DEF PwmDone, PwmReturned, Goto
  <2>2. Called' = Called /\ Recorded' = Recorded /\ call'.failed = call.failed
    BY <1>0, <2>1 DEF Called, Recorded
  <2>3. Served => Served'
    <3>1. "done" \notin Busy
      BY DEF Busy
    <3> QED
      BY <2>1, <2>2, <3>1 DEF Served
  <2> QED
    BY <1>6, <2>1, <2>2, <2>3
<1>9. CASE PublishFreq
  <2>1. /\ UNCHANGED <<pwmVars, queue, boot, wanted>> /\ pub' = [pub EXCEPT !.freq = call.freq]
        /\ ctl = "publish_freq" /\ ctl' = "publish_duty"
    BY <1>9 DEF PublishFreq
  <2>2. pub'.freq = call.freq /\ Called' = Called /\ Recorded' = Recorded
        /\ call'.failed = call.failed
    BY <2>1 DEF Called, Recorded, pwmVars, CtlTyped, Pair
  <2>3. Called = wanted.last => pub'.freq = wanted.last.freq
    BY <2>2 DEF Called
  <2>4. Served => Served'
    BY <2>1, <2>2, <2>3 DEF Served
  <2> QED
    BY <1>6, <2>1, <2>2, <2>4
<1>10. CASE PublishDuty
  <2>1. /\ UNCHANGED <<pwmVars, queue, boot, wanted>> /\ pub' = [pub EXCEPT !.duty = call.duty]
        /\ ctl = "publish_duty" /\ ctl' = "receive"
    BY <1>10 DEF PublishDuty
  <2>2. pub' = [freq |-> pub.freq, duty |-> call.duty] /\ Called' = Called /\ Recorded' = Recorded
        /\ call'.failed = call.failed
    BY <2>1 DEF Called, Recorded, pwmVars, CtlTyped, Pair
  <2>3. Called = wanted.last /\ pub.freq = wanted.last.freq => pub' = wanted.last
    BY <2>2 DEF Called
  <2>4. Served => Served'
    BY <2>1, <2>2, <2>3 DEF Served
  <2> QED
    BY <1>6, <2>1, <2>2, <2>4
<1>11. CASE SaveFreq
  <2>1. UNCHANGED <<pwmVars, queue, boot, wanted, pub>> /\ ctl = "save" /\ ctl' = "receive"
    BY <1>11 DEF SaveFreq
  <2>2. Recorded' = Recorded /\ call'.failed = call.failed
    BY <2>1 DEF Recorded, pwmVars
  <2>3. Served => Served'
    BY <2>1, <2>2 DEF Served
  <2> QED
    BY <1>6, <2>1, <2>2, <2>3
<1>12. CASE Tez /\ UNCHANGED ctlVars
  <2>1. UNCHANGED <<sw, call, queue, ctl, pub, boot, wanted>>
    BY <1>12 DEF Tez, ctlVars
  <2> QED
    BY <1>6, <2>1 DEF Served, Recorded, Called
<1>13. CASE Reset
  BY <1>13 DEF Reset, WishInv
<1>14. CASE UNCHANGED controlVars
  <2>1. UNCHANGED <<sw, call, queue, ctl, pub, boot, wanted>>
    BY <1>14 DEF controlVars, ctlVars, pwmVars
  <2> QED
    BY <1>6, <2>1 DEF Served, Recorded, Called
<1> QED
  BY <1>2, <1>3, <1>4, <1>5, <1>7, <1>8, <1>9, <1>10, <1>11, <1>12, <1>13, <1>14
     DEF ControlNext, BootStep, CtlStep

-----------------------------------------------------------------------------
(* The inductive invariant and what follows from it.                       *)

IInv == PwmInv /\ CtlTyped /\ ZeroInv /\ WishInv

LEMMA ControlInitInv ==
  ASSUME ControlInit
  PROVE  IInv
<1>1. PwmInv
  BY PwmInitInv DEF ControlInit
<1>2. /\ queue = << >> /\ ctl = "receive" /\ pub = NoPair /\ nvs = 0 /\ boot = "pwm"
      /\ wanted = NoWish /\ hw = InitHw /\ cycle = InitCycle /\ call = InitCall
  BY DEF ControlInit, PwmInit
<1>3. CtlTyped
  BY <1>2, FreshFacts, ControlAssumption DEF CtlTyped, NoPair, NoWish, Pair
<1>4. ZeroInv
  BY <1>2, FreshFacts DEF ZeroInv
<1>5. WishInv
  BY <1>2 DEF WishInv
<1> QED
  BY <1>1, <1>3, <1>4, <1>5 DEF IInv

LEMMA ControlStepInv ==
  ASSUME IInv, [ControlNext]_controlVars
  PROVE  IInv'
<1>1. PwmInv /\ CtlTyped /\ ZeroInv /\ WishInv
  BY DEF IInv
<1>2. CtlTyped' /\ (PwmNext \/ Reset \/ UNCHANGED pwmVars)
  BY <1>1, CtlStepTyped
<1>3. PwmInv'
  BY <1>1, <1>2, PwmKept, ResetInv
<1>4. ZeroInv' /\ WishInv'
  BY <1>1, ZeroStep, WishStep
<1> QED
  BY <1>2, <1>3, <1>4 DEF IInv

LEMMA ControlInvariant == ControlSpec => []IInv
<1>1. ControlInit => IInv
  BY ControlInitInv
<1>2. IInv /\ [ControlNext]_controlVars => IInv'
  BY ControlStepInv
<1> QED
  BY <1>1, <1>2, PTL DEF ControlSpec

\* pwm_gen.c never calls the driver with the handle of a deleted timer, and
\* has one timer at a time, whatever calls of the driver fail in whatever
\* order and wherever the chip restarts.
THEOREM NeverDangling == ControlSpec => []NoDanglingTimer
<1>1. IInv => NoDanglingTimer
  BY DEF IInv, PwmInv, TimerInv, NoDanglingTimer, UsesTimer, TeardownPC, SamePC, RecreatePC
<1> QED
  BY <1>1, ControlInvariant, PTL

\* Every period that the PWM pin shows has a length and a resolution of the
\* same frequency, for every two frequencies that pwm_gen_set changes between.
THEOREM NeverMixed == ControlSpec => []NoMixedBand
<1>1. IInv => NoMixedBand
  BY DEF IInv, PwmInv, BandInv
<1> QED
  BY <1>1, ControlInvariant, PTL

\* Between two calls of pwm_gen_set, none of which has failed in the driver,
\* the MCPWM unit runs with what s_pwm records.
THEOREM OutputFollows == ControlSpec => []HardwareFollows
<1>1. IInv => HardwareFollows
  BY DEF IInv, PwmInv, FollowInv, Follows, HardwareFollows
<1> QED
  BY <1>1, ControlInvariant, PTL

\* control_task.c serves the queue to the last acceptable request: what is
\* recorded and what telemetry reads are that request, for a queue of any
\* length and any mixture of refused, dropped and accepted commands.
THEOREM LastRequestWins == ControlSpec => []LastAcceptedWins
<1>1. ASSUME IInv
      PROVE  ControlTypeOK
  <2>1. PwmTypeOK /\ CtlTyped
    BY <1>1 DEF IInv, PwmInv, PwmTyped
  <2>2. Cmd \subseteq [kind: {"set_pwm", "save_pwm_freq", "other"}, freq: Nat, duty: Duty]
    BY CmdFacts
  <2>3. queue \in Seq([kind: {"set_pwm", "save_pwm_freq", "other"}, freq: Nat, duty: Duty])
    BY <2>1, <2>2, SeqMonotonic, Zenon DEF CtlTyped
  <2>4. nvs \in Nat
    BY <2>1, PwmAssumption DEF CtlTyped
  <2> QED
    BY <2>1, <2>3, <2>4 DEF ControlTypeOK, CtlTyped
<1>2. ASSUME IInv, ~call.failed, Settled
      PROVE  Recorded = wanted.last /\ pub = wanted.last
  <2>1. DOMAIN queue = {} /\ boot # "pwm" /\ ctl = "receive"
    BY <1>2 DEF Settled
  <2>2. Served
    BY <1>2, <2>1 DEF IInv, WishInv
  <2> QED
    BY <2>1, <2>2 DEF Served
<1>3. IInv => LastAcceptedWins
  BY <1>1, <1>2 DEF LastAcceptedWins
<1> QED
  BY <1>3, ControlInvariant, PTL

\* After a restart the fan gets no power until a front end asks for some:
\* what app_main posts at boot has duty 0, and no earlier duty survives.
THEOREM OffUntilAsked == ControlSpec => []FanOffUntilAsked
<1>1. IInv => FanOffUntilAsked
  BY DEF IInv, ZeroInv, FanOffUntilAsked
<1> QED
  BY <1>1, ControlInvariant, PTL

\* Whatever frequency pwm_gen_save_current_freq_to_nvs stores, the boot's own
\* pwm_gen_set accepts it: a saved setting never keeps the fan from starting.
THEOREM SavedAlwaysBoots == ControlSpec => []SavedIsBootable
<1>1. ASSUME IInv, nvs # 0
      PROVE  ~Rejected(nvs, 0)
  <2>1. nvs \in Nat /\ nvs >= FreqMin /\ nvs <= FreqMax
    BY <1>1, PwmAssumption DEF IInv, CtlTyped
  <2> QED
    BY <2>1, RangeAccepted
<1>2. IInv => SavedIsBootable
  BY <1>1 DEF SavedIsBootable
<1> QED
  BY <1>2, ControlInvariant, PTL

-----------------------------------------------------------------------------
(* The task implements CommandServer, also while driver calls fail.        *)

\* What a successful call recorded is what is then published.
PublishInv ==
  (ctl = "pwm" /\ Recording) \/ ctl \in {"publish_freq", "publish_duty"} => Recorded = Called

\* One step of pwm_gen_set: on to the next call of the driver, out with an
\* error, recorded, or returned.
LEMMA CallStep ==
  ASSUME PwmTyped, PwmStep
  PROVE  /\ call.pc \in Busy /\ Called' = Called
         /\ \/ /\ call.pc \notin {"commit", "trigger"} /\ call'.pc \in Busy \ {"trigger"}
               /\ Recorded' = Recorded /\ call'.failed = call.failed
            \/ /\ call.pc \notin {"commit", "trigger"} /\ call'.pc = "done" /\ call'.ret # "ok"
               /\ Recorded' = Recorded /\ call'.failed = TRUE
            \/ /\ call.pc = "commit" /\ call'.pc = "trigger"
               /\ Recorded' = Called /\ call'.failed = call.failed
            \/ /\ call.pc = "trigger" /\ call'.pc = "done" /\ call'.ret = "ok"
               /\ Recorded' = Recorded /\ call'.failed = call.failed
<1>0. sw \in SwType /\ call \in CallType
  BY DEF PwmTyped, PwmTypeOK
<1> USE DEF Called, Recorded, Busy, CallPC, TeardownPC, RecreatePC, SamePC
<1>1. ASSUME NEW pc, Goto(pc)
      PROVE  call'.pc = pc /\ call'.freq = call.freq /\ call'.duty = call.duty
             /\ call'.failed = call.failed
  BY <1>0, <1>1 DEF Goto
<1>2. ASSUME NEW ret, Return(ret)
      PROVE  /\ call'.pc = "done" /\ call'.freq = call.freq /\ call'.duty = call.duty
             /\ call'.ret = ret
             /\ call'.failed = (call.failed \/ ret # "ok")
  BY <1>0, <1>2 DEF Return
<1>3. CASE Commit
  <2>1. sw'.freq = call.freq /\ sw'.duty = call.duty
    BY <1>0, <1>3 DEF Commit
  <2> QED
    BY <1>1, <1>3, <2>1 DEF Commit
<1>4. CASE EndTrigger
  <2>1. sw'.freq = sw.freq /\ sw'.duty = sw.duty
    BY <1>0, <1>4 DEF EndTrigger
  <2>2. call'.failed = call.failed
    BY <1>0, <1>4 DEF EndTrigger, Return
  <2> QED
    BY <1>2, <1>4, <2>1, <2>2 DEF EndTrigger
<1>5. ASSUME NEW pc \in Busy \ {"commit", "trigger"}, pc # "ok", NEW next \in Busy \ {"trigger"},
             call.pc = pc, sw'.freq = sw.freq, sw'.duty = sw.duty, Goto(next) \/ Return(pc)
      PROVE  /\ call.pc \in Busy \ {"commit", "trigger"} /\ Called' = Called /\ Recorded' = Recorded
             /\ \/ call'.pc \in Busy \ {"trigger"} /\ call'.failed = call.failed
                \/ call'.pc = "done" /\ call'.ret # "ok" /\ call'.failed = TRUE
  <2>1. CASE Goto(next)
    BY <1>1, <1>5, <2>1
  <2>2. CASE Return(pc)
    <3>1. call'.failed = TRUE
      BY <1>2, <1>5, <2>2
    <3> QED
      BY <1>2, <1>5, <2>2, <3>1
  <2> QED
    BY <1>5, <2>1, <2>2
<1>6. ASSUME NEW pc, NEW h, NEW next, Driver(pc, h, next)
      PROVE  call.pc = pc /\ sw'.freq = sw.freq /\ sw'.duty = sw.duty /\ (Goto(next) \/ Return(pc))
  BY <1>6 DEF Driver
<1>7. CASE DelTimer \/ NewTimer \/ SoftSync
  <2>1. sw'.freq = sw.freq /\ sw'.duty = sw.duty
    BY <1>0, <1>7 DEF DelTimer, NewTimer, SoftSync
  <2>2. \/ call.pc = "del" /\ (Goto("new_timer") \/ Return("del"))
        \/ call.pc = "new_timer" /\ (Goto("soft_sync") \/ Return("new_timer"))
        \/ call.pc = "soft_sync" /\ Goto("connect")
    BY <1>7 DEF DelTimer, NewTimer, SoftSync
  <2> QED
    BY <1>5, <2>1, <2>2
<1>8. CASE SetPeriod \/ SetCompare \/ StopTimer \/ DisableTimer
  <2>1. sw'.freq = sw.freq /\ sw'.duty = sw.duty
    BY <1>6, <1>8 DEF SetPeriod, SetCompare, StopTimer, DisableTimer
  <2>2. \/ call.pc = "set_period" /\ (Goto("set_compare") \/ Return("set_period"))
        \/ call.pc = "set_compare" /\ (Goto("commit") \/ Return("set_compare"))
        \/ call.pc = "stop" /\ (Goto("disable") \/ Return("stop"))
        \/ call.pc = "disable" /\ (Goto("del") \/ Return("disable"))
    BY <1>6, <1>8 DEF SetPeriod, SetCompare, StopTimer, DisableTimer
  <2> QED
    BY <1>5, <2>1, <2>2
<1>9. CASE ConnectTimer \/ SetNewCompare \/ EnableTimer \/ StartTimer
  <2>1. sw'.freq = sw.freq /\ sw'.duty = sw.duty
    BY <1>6, <1>9 DEF ConnectTimer, SetNewCompare, EnableTimer, StartTimer
  <2>2. \/ call.pc = "connect" /\ (Goto("cmpr") \/ Return("connect"))
        \/ call.pc = "cmpr" /\ (Goto("enable") \/ Return("cmpr"))
        \/ call.pc = "enable" /\ (Goto("start") \/ Return("enable"))
        \/ call.pc = "start" /\ (Goto("commit") \/ Return("start"))
    BY <1>6, <1>9 DEF ConnectTimer, SetNewCompare, EnableTimer, StartTimer
  <2> QED
    BY <1>5, <2>1, <2>2
<1> QED
  BY <1>3, <1>4, <1>7, <1>8, <1>9 DEF PwmStep

\* The setpoint in the handler's hand, when it is taken from the queue.
LEMMA SetStep ==
  ASSUME PwmTyped, NEW f \in Freq, NEW d \in Duty, PwmSet(f, d)
  PROVE  /\ call.pc = "idle" /\ call'.failed = call.failed /\ Recorded' = Recorded
         /\ call'.freq = f /\ call'.duty = d
         /\ \/ call'.pc \in {"set_period", "stop"} /\ ~Rejected(f, d)
            \/ call'.pc = "done" /\ call'.ret # "ok" /\ (~sw.timer \/ Rejected(f, d))
<1>0. sw \in SwType /\ call \in CallType
  BY DEF PwmTyped, PwmTypeOK
<1>1. call.pc = "idle" /\ Recorded' = Recorded
  BY DEF PwmSet, Recorded
<1>2. ASSUME NEW ret, ret # "ok", Refuse(f, d, ret)
      PROVE  /\ call'.failed = call.failed /\ call'.freq = f /\ call'.duty = d
             /\ call'.pc = "done" /\ call'.ret # "ok"
  BY <1>0, <1>2 DEF Refuse
<1>3. ASSUME NEW x, NEW pc \in {"set_period", "stop"},
             call' = [call EXCEPT !.pc = pc, !.freq = f, !.duty = d, !.cmp = x]
      PROVE  /\ call'.failed = call.failed /\ call'.freq = f /\ call'.duty = d /\ call'.pc = pc
  BY <1>0, <1>3
<1>4. CASE ~sw.timer \/ Rejected(f, d)
  BY <1>1, <1>2, <1>4 DEF PwmSet
<1>5. CASE sw.timer /\ ~Rejected(f, d)
  <2>1. PICK x \in Compare(d, Period(f)), pc \in {"set_period", "stop"} :
          call' = [call EXCEPT !.pc = pc, !.freq = f, !.duty = d, !.cmp = x]
    BY <1>5 DEF PwmSet
  <2> QED
    BY <1>1, <1>3, <1>5, <2>1
<1> QED
  BY <1>4, <1>5

LEMMA PublishStep ==
  ASSUME PwmInv, CtlTyped, PublishInv, [ControlNext]_controlVars
  PROVE  PublishInv'
<1> USE DEF PublishInv, Recording
<1>0. PwmTyped /\ sw \in SwType /\ call \in CallType
  BY DEF PwmInv, PwmTyped, PwmTypeOK
<1>1. ASSUME UNCHANGED <<pwmVars, ctl>>
      PROVE  PublishInv'
  BY <1>1 DEF pwmVars, Recorded, Called
<1>2. ASSUME NEW c \in FrontEndCmd, FrontEndPost(c)
      PROVE  PublishInv'
  BY <1>1, <1>2 DEF FrontEndPost
<1>3. CASE BootPwm \/ BootPower
  BY <1>1, <1>3 DEF BootPwm, BootPower
<1>4. CASE Receive
  <2> DEFINE c == Head(queue)
  <2>0. c \in Cmd /\ call.pc = "idle"
    BY <1>4, PopQueue DEF Receive, CtlTyped
  <2>1. CASE c.kind = "set_pwm" /\ PwmSet(c.freq, c.duty) /\ ctl' = "pwm"
    <3>1. c.freq \in Freq /\ c.duty \in Duty
      BY <2>0, <2>1, CmdFacts
    <3> QED
      BY <1>0, <2>1, <3>1, SetStep
  <2>2. CASE UNCHANGED pwmVars /\ ctl' \in {"save", "receive"}
    BY <2>2
  <2> QED
    BY <1>4, <2>1, <2>2 DEF Receive
<1>5. CASE PwmWorks
  <2>1. PwmStep /\ ctl' = ctl
    BY <1>5 DEF PwmWorks, ctlVars
  <2>2. call.pc \in Busy
    BY <1>0, <2>1, CallStep
  <2>3. ctl = "pwm"
    BY <2>2 DEF CtlTyped, Busy
  <2>4. Recording' => Recorded' = Called'
    <3>1. /\ Called' = Called
          /\ \/ call'.pc \in Busy \ {"trigger"}
             \/ call'.pc = "done" /\ call'.ret # "ok"
             \/ Recorded' = Called
             \/ call.pc = "trigger" /\ Recorded' = Recorded
      BY <1>0, <2>1, CallStep
    <3> QED
      BY <2>3, <3>1 DEF Busy
  <2> QED
    BY <2>1, <2>3, <2>4
<1>6. CASE PwmDone
  <2>1. ctl = "pwm" /\ call.pc = "done" /\ UNCHANGED sw /\ call' = [call EXCEPT !.pc = "idle"]
        /\ (ctl' = IF call.ret = "ok" THEN "publish_freq" ELSE "receive")
    BY <1>6 DEF PwmDone, PwmReturned, Goto
  <2>2. Called' = Called /\ Recorded' = Recorded
    BY <1>0, <2>1 DEF Called, Recorded
  <2> QED
    BY <2>1, <2>2
<1>7. CASE PublishFreq \/ PublishDuty \/ SaveFreq
  BY <1>7 DEF PublishFreq, PublishDuty, SaveFreq, pwmVars, Recorded, Called
<1>8. CASE Tez /\ UNCHANGED ctlVars
  BY <1>8 DEF Tez, ctlVars, Recorded, Called
<1>9. CASE Reset
  BY <1>9, FreshFacts DEF Reset
<1>10. CASE UNCHANGED controlVars
  BY <1>1, <1>10 DEF controlVars, ctlVars
<1> QED
  BY <1>2, <1>3, <1>4, <1>5, <1>6, <1>7, <1>8, <1>9, <1>10 DEF ControlNext, BootStep, CtlStep

\* The command in hand goes before those in the queue.
LEMMA HandFirst ==
  ASSUME NEW q \in Seq(Cmd), NEW c \in Cmd
  PROVE  /\ << >> \o q = q
         /\ <<c>> \o q # << >> /\ Head(<<c>> \o q) = c /\ Tail(<<c>> \o q) = q
         /\ Len(<<c>> \o q) = Len(q) + 1 /\ <<c>> \o q \in Seq(Cmd)
         /\ \A d \in Cmd : Append(<<c>> \o q, d) = <<c>> \o Append(q, d)
         /\ q # << >> => <<Head(q)>> \o Tail(q) = q /\ Head(q) \in Cmd /\ Tail(q) \in Seq(Cmd)
<1>1. << >> \o q = q
  OBVIOUS
<1>2. <<c>> \o q # << >> /\ Len(<<c>> \o q) = Len(q) + 1 /\ <<c>> \o q \in Seq(Cmd)
  OBVIOUS
<1>3. Head(<<c>> \o q) = c /\ Tail(<<c>> \o q) = q
  OBVIOUS
<1>4. \A d \in Cmd : Append(<<c>> \o q, d) = <<c>> \o Append(q, d)
  OBVIOUS
<1>5. q # << >> => <<Head(q)>> \o Tail(q) = q /\ Head(q) \in Cmd /\ Tail(q) \in Seq(Cmd)
  OBVIOUS
<1> QED
  BY <1>1, <1>2, <1>3, <1>4, <1>5

\* What waits, at each position of the task.
LEMMA WaitingIs ==
  ASSUME PwmTyped, CtlTyped
  PROVE  /\ SaveFreqCmd \in Cmd /\ SetPwmCmd(call.freq, call.duty) \in Cmd
         /\ ctl = "save" => Waiting = <<SaveFreqCmd>> \o queue
         /\ ctl = "pwm" /\ call.pc \notin {"trigger", "done"}
              => Waiting = <<SetPwmCmd(call.freq, call.duty)>> \o queue
         /\ ctl = "pwm" /\ call.pc \in {"trigger", "done"} => Waiting = queue
         /\ ctl \in {"receive", "publish_freq", "publish_duty"} => Waiting = queue
<1>1. call.freq \in Freq /\ call.duty \in Duty
  BY ControlAssumption DEF PwmTyped, PwmTypeOK
<1>2. SaveFreqCmd \in Cmd /\ SetPwmCmd(call.freq, call.duty) \in Cmd
  BY <1>1 DEF Cmd
<1>3. << >> \o queue = queue
  BY <1>2, HandFirst DEF CtlTyped
<1> QED
  BY <1>2, <1>3 DEF Waiting, InHand

\* A command that is queued is the last of those that wait.
LEMMA PostWaits ==
  ASSUME PwmTyped, CtlTyped, NEW c \in Cmd, Len(queue) < QueueLen
  PROVE  /\ Len(Waiting) < QueueLen + 1
         /\ Append(Waiting, c) = InHand \o Append(queue, c)
<1>0. queue \in Seq(Cmd) /\ Append(queue, c) \in Seq(Cmd) /\ QueueLen \in Nat
  BY ControlAssumption DEF CtlTyped
<1>1. ASSUME NEW h \in Cmd, InHand = <<h>>
      PROVE  /\ Len(Waiting) < QueueLen + 1
             /\ Append(Waiting, c) = InHand \o Append(queue, c)
  <2>1. Len(<<h>> \o queue) = Len(queue) + 1
        /\ Append(<<h>> \o queue, c) = <<h>> \o Append(queue, c)
    BY <1>0, HandFirst
  <2> QED
    BY <1>0, <1>1, <2>1 DEF Waiting
<1>2. ASSUME InHand = << >>
      PROVE  /\ Len(Waiting) < QueueLen + 1
             /\ Append(Waiting, c) = InHand \o Append(queue, c)
  <2>1. << >> \o queue = queue /\ << >> \o Append(queue, c) = Append(queue, c)
    BY <1>0, HandFirst
  <2> QED
    BY <1>0, <1>2, <2>1 DEF Waiting
<1> QED
  BY <1>1, <1>2, WaitingIs DEF InHand

\* Every step is one of CommandServer's, or none.
LEMMA ServerStep ==
  ASSUME PwmInv, CtlTyped, PublishInv, [ControlNext]_controlVars
  PROVE  [Server!ServerNext]_(Server!serverVars)
<1>0. /\ PwmTyped /\ PwmTyped' /\ CtlTyped' /\ sw \in SwType /\ call \in CallType
      /\ queue \in Seq(Cmd) /\ queue' \in Seq(Cmd)
  BY CtlStepTyped, PwmKept, ResetInv DEF PwmInv, PwmTyped, PwmTypeOK, CtlTyped
<1>1. ASSUME NEW c \in Cmd, Post(c), UNCHANGED <<pwmVars, ctl, pub, nvs>>
      PROVE  Server!Submit(c) \/ UNCHANGED Server!serverVars
  <2>1. InHand' = InHand /\ Unshown' = Unshown /\ Recorded' = Recorded /\ call'.failed = call.failed
    BY <1>1 DEF InHand, Unshown, Recording, Recorded, pwmVars
  <2>2. CASE Len(queue) < QueueLen
    <3>1. queue' = Append(queue, c)
      BY <1>1, <2>2 DEF Post
    <3>2. Waiting' = Append(Waiting, c) /\ Len(Waiting) < QueueLen + 1
      BY <1>0, <2>1, <2>2, <3>1, PostWaits DEF Waiting
    <3> QED
      BY <1>1, <2>1, <3>2 DEF Server!Submit
  <2>3. CASE ~(Len(queue) < QueueLen)
    <3>1. Waiting' = Waiting
      BY <1>1, <2>1, <2>3 DEF Post, Waiting
    <3> QED
      BY <1>1, <2>1, <3>1 DEF Server!serverVars
  <2> QED
    BY <2>2, <2>3
<1>2. ASSUME NEW c \in FrontEndCmd, FrontEndPost(c)
      PROVE  [Server!ServerNext]_(Server!serverVars)
  BY <1>1, <1>2, CmdFacts DEF FrontEndPost, Server!ServerNext
<1>3. CASE BootPwm \/ BootPower
  <2>1. \E c \in Cmd : Post(c) /\ UNCHANGED <<pwmVars, ctl, pub, nvs>>
    BY <1>3, CmdFacts, BootAccepted DEF BootPwm, BootPower
  <2> QED
    BY <1>1, <2>1 DEF Server!ServerNext
\* The head of the queue is taken in hand, or decided at once.
<1>4. CASE Receive
  <2> DEFINE c == Head(queue)
  <2>0. /\ c \in Cmd /\ queue # << >> /\ queue' = Tail(queue) /\ <<c>> \o queue' = queue
        /\ ctl = "receive" /\ call.pc = "idle" /\ UNCHANGED <<pub, nvs>>
        /\ Waiting = queue /\ Unshown = {}
    <3>1. queue # << >> /\ queue' = Tail(queue) /\ ctl = "receive" /\ UNCHANGED <<pub, nvs>>
      BY <1>4 DEF Receive
    <3>2. OtherCmd \in Cmd
      BY CmdFacts
    <3>3. c \in Cmd /\ <<c>> \o queue' = queue
      BY <1>0, <3>1, <3>2, HandFirst
    <3> QED
      BY <1>0, <3>1, <3>3, WaitingIs DEF CtlTyped, Unshown
  <2> HIDE DEF c
  <2>1. CASE c.kind = "set_pwm" /\ PwmSet(c.freq, c.duty) /\ ctl' = "pwm"
    <3>1. c.freq \in Freq /\ c.duty \in Duty /\ c = SetPwmCmd(c.freq, c.duty)
      BY <2>0, <2>1 DEF Cmd, SetPwmCmd, SaveFreqCmd, OtherCmd
    <3>2. /\ call'.failed = call.failed /\ Recorded' = Recorded
          /\ call'.freq = c.freq /\ call'.duty = c.duty
          /\ \/ call'.pc \in {"set_period", "stop"} /\ ~Rejected(c.freq, c.duty)
             \/ call'.pc = "done" /\ call'.ret # "ok" /\ (~sw.timer \/ Rejected(c.freq, c.duty))
      BY <1>0, <2>1, <3>1, SetStep
    <3>3. CASE call'.pc \in {"set_period", "stop"}
      <4>1. Waiting' = <<c>> \o queue'
        BY <2>1, <3>1, <3>2, <3>3 DEF Waiting, InHand
      <4>2. Unshown' = {}
        BY <2>1, <3>3 DEF Unshown, Recording
      <4> QED
        BY <2>0, <3>2, <4>1, <4>2 DEF Server!serverVars
    <3>4. CASE call'.pc = "done" /\ call'.ret # "ok" /\ (~sw.timer \/ Rejected(c.freq, c.duty))
      <4>1. Waiting' = queue'
        BY <1>0, <2>1, <3>4, HandFirst, <2>0 DEF Waiting, InHand
      <4>2. Unshown' = {}
        BY <2>1, <3>4 DEF Unshown, Recording
      <4>3. call.failed \/ Rejected(c.freq, c.duty)
        BY <2>0, <3>4 DEF PwmInv, FollowInv
      <4>4. c \notin {x \in Cmd : ~Rejected(x.freq, x.duty)} \/ call'.failed
        BY <3>2, <4>3
      <4>5. Server!Decide("set_pwm")
        BY <2>0, <2>1, <4>1 DEF Server!Decide, c
      <4>6. Server!Refuse
        BY <2>0, <3>2, <4>2, <4>4, <4>5 DEF Server!Refuse, c
      <4> QED
        BY <4>6 DEF Server!ServerNext
    <3> QED
      BY <3>2, <3>3, <3>4
  <2>2. CASE c.kind = "save_pwm_freq" /\ ctl' = "save" /\ UNCHANGED pwmVars
    <3>1. c = SaveFreqCmd
      BY <2>0, <2>2 DEF Cmd, SetPwmCmd, SaveFreqCmd, OtherCmd
    <3>2. Waiting' = Waiting /\ Unshown' = {}
      BY <2>0, <2>2, <3>1 DEF Waiting, InHand, Unshown
    <3> QED
      BY <2>0, <2>2, <3>2 DEF Server!serverVars, Recorded, pwmVars
  <2>3. CASE c.kind = "other" /\ UNCHANGED <<pwmVars, ctl>>
    <3>1. Waiting' = queue' /\ Unshown' = {}
      BY <1>0, <2>0, <2>3, HandFirst DEF Waiting, InHand, Unshown
    <3>2. Server!Decide("other")
      BY <2>0, <2>3, <3>1 DEF Server!Decide, c
    <3>3. Server!Pass
      BY <2>0, <2>3, <3>1, <3>2 DEF Server!Pass, Recorded, pwmVars
    <3> QED
      BY <3>3 DEF Server!ServerNext
  <2> QED
    BY <1>4, <2>1, <2>2, <2>3 DEF Receive, c
\* pwm_gen_set at work: seen when it records the setpoint, or fails.
<1>5. CASE PwmWorks
  <2> DEFINE c == SetPwmCmd(call.freq, call.duty)
  <2>0. PwmStep /\ UNCHANGED <<queue, ctl, pub, nvs>> /\ ctl = "pwm" /\ call.pc \in Busy
    BY <1>0, <1>5, CallStep DEF PwmWorks, ctlVars, CtlTyped, Busy
  <2>1. /\ c \in Cmd /\ c.kind = "set_pwm" /\ c.freq = call.freq /\ c.duty = call.duty
        /\ ~Rejected(c.freq, c.duty)
    BY <1>0, <2>0, WaitingIs DEF SetPwmCmd, PwmTyped
  <2>2. call.pc # "trigger" => /\ Waiting = <<c>> \o queue /\ Unshown = {} /\ Waiting # << >>
                              /\ Head(Waiting) = c /\ Tail(Waiting) = queue
    <3>1. call.pc # "trigger" => call.pc \notin {"trigger", "done"}
      BY <2>0 DEF Busy
    <3>2. call.pc # "trigger" => Waiting = <<c>> \o queue /\ Unshown = {}
      BY <1>0, <2>0, <3>1, WaitingIs DEF Unshown, Recording
    <3>3. <<c>> \o queue # << >> /\ Head(<<c>> \o queue) = c /\ Tail(<<c>> \o queue) = queue
      BY <1>0, <2>1, HandFirst
    <3> QED
      BY <3>2, <3>3
  <2>3. /\ Called' = Called
        /\ \/ /\ call.pc \notin {"commit", "trigger"} /\ call'.pc \in Busy \ {"trigger"}
              /\ Recorded' = Recorded /\ call'.failed = call.failed
           \/ /\ call.pc \notin {"commit", "trigger"} /\ call'.pc = "done" /\ call'.ret # "ok"
              /\ Recorded' = Recorded /\ call'.failed = TRUE
           \/ /\ call.pc = "commit" /\ call'.pc = "trigger"
              /\ Recorded' = Called /\ call'.failed = call.failed
           \/ /\ call.pc = "trigger" /\ call'.pc = "done" /\ call'.ret = "ok"
              /\ Recorded' = Recorded /\ call'.failed = call.failed
    BY <1>0, <2>0, CallStep
  <2>4. call'.freq = call.freq /\ call'.duty = call.duty
    BY <2>3 DEF Called
  <2>5. << >> \o queue = queue
    BY <1>0, <2>1, HandFirst
  <2> HIDE DEF c
  <2>6. CASE call.pc \notin {"commit", "trigger"} /\ call'.pc \in Busy \ {"trigger"}
             /\ Recorded' = Recorded /\ call'.failed = call.failed
    <3>1. call'.pc \notin {"trigger", "done"}
      BY <2>6 DEF Busy
    <3>2. Waiting' = Waiting /\ Unshown' = Unshown
      BY <2>0, <2>2, <2>4, <2>6, <3>1 DEF Waiting, InHand, Unshown, Recording, c
    <3> QED
      BY <2>0, <2>6, <3>2 DEF Server!serverVars
  <2>7. CASE call.pc \notin {"commit", "trigger"} /\ call'.pc = "done" /\ call'.ret # "ok"
             /\ Recorded' = Recorded /\ call'.failed = TRUE
    <3>1. Waiting' = queue /\ Unshown' = {}
      BY <2>0, <2>5, <2>7 DEF Waiting, InHand, Unshown, Recording
    <3>2. Server!Decide("set_pwm")
      BY <2>1, <2>2, <2>7, <3>1 DEF Server!Decide
    <3>3. Server!Refuse
      BY <2>0, <2>2, <2>7, <3>1, <3>2 DEF Server!Refuse
    <3> QED
      BY <3>3 DEF Server!ServerNext
  <2>8. CASE call.pc = "commit" /\ call'.pc = "trigger"
             /\ Recorded' = Called /\ call'.failed = call.failed
    <3>1. Waiting' = queue /\ Unshown' = {"freq", "duty"}
      BY <2>0, <2>5, <2>8 DEF Waiting, InHand, Unshown, Recording
    <3>2. Server!Decide("set_pwm")
      BY <2>1, <2>2, <2>8, <3>1 DEF Server!Decide
    <3>3. c \in {x \in Cmd : ~Rejected(x.freq, x.duty)}
      BY <2>1
    <3>4. Recorded' = [freq |-> c.freq, duty |-> c.duty]
      BY <2>1, <2>8 DEF Called
    <3>5. Server!Apply
      BY <2>0, <2>2, <2>8, <3>1, <3>2, <3>3, <3>4 DEF Server!Apply
    <3> QED
      BY <3>5 DEF Server!ServerNext
  <2>9. CASE call.pc = "trigger" /\ call'.pc = "done" /\ call'.ret = "ok"
             /\ Recorded' = Recorded /\ call'.failed = call.failed
    <3>1. Waiting' = Waiting /\ Unshown' = Unshown
      BY <2>0, <2>9 DEF Waiting, InHand, Unshown, Recording
    <3> QED
      BY <2>0, <2>9, <3>1 DEF Server!serverVars
  <2> QED
    BY <2>3, <2>6, <2>7, <2>8, <2>9
<1>6. CASE PwmDone
  <2>1. /\ ctl = "pwm" /\ call.pc = "done" /\ UNCHANGED <<sw, queue, pub, nvs>>
        /\ call' = [call EXCEPT !.pc = "idle"]
        /\ (ctl' = IF call.ret = "ok" THEN "publish_freq" ELSE "receive")
    BY <1>6 DEF PwmDone, PwmReturned, Goto
  <2>2. Recorded' = Recorded /\ call'.failed = call.failed
    BY <1>0, <2>1 DEF Recorded
  <2>3. Waiting' = Waiting /\ Unshown' = Unshown
    BY <2>1 DEF Waiting, InHand, Unshown, Recording
  <2> QED
    BY <2>1, <2>2, <2>3 DEF Server!serverVars
<1>7. CASE PublishFreq
  <2>1. /\ ctl = "publish_freq" /\ ctl' = "publish_duty" /\ UNCHANGED <<pwmVars, queue, nvs>>
        /\ pub' = [pub EXCEPT !.freq = call.freq]
    BY <1>7 DEF PublishFreq
  <2>2. Waiting' = Waiting /\ Unshown = {"freq", "duty"} /\ Unshown' = Unshown \ {"freq"}
    BY <2>1 DEF Waiting, InHand, Unshown
  <2>3. call.freq = Recorded["freq"]
    BY <2>1 DEF PublishInv, Called, Recorded
  <2>4. Recorded' = Recorded /\ call'.failed = call.failed
    BY <2>1 DEF Recorded, pwmVars
  <2>5. Server!Show("freq")
    BY <2>1, <2>2, <2>3, <2>4 DEF Server!Show
  <2> QED
    BY <2>5 DEF Server!ServerNext
<1>8. CASE PublishDuty
  <2>1. /\ ctl = "publish_duty" /\ ctl' = "receive" /\ UNCHANGED <<pwmVars, queue, nvs>>
        /\ pub' = [pub EXCEPT !.duty = call.duty]
    BY <1>8 DEF PublishDuty
  <2>2. Waiting' = Waiting /\ Unshown = {"duty"} /\ Unshown' = Unshown \ {"duty"}
    BY <2>1 DEF Waiting, InHand, Unshown
  <2>3. call.duty = Recorded["duty"]
    BY <2>1 DEF PublishInv, Called, Recorded
  <2>4. Recorded' = Recorded /\ call'.failed = call.failed
    BY <2>1 DEF Recorded, pwmVars
  <2>5. Server!Show("duty")
    BY <2>1, <2>2, <2>3, <2>4 DEF Server!Show
  <2> QED
    BY <2>5 DEF Server!ServerNext
<1>9. CASE SaveFreq
  <2>1. /\ ctl = "save" /\ ctl' = "receive" /\ UNCHANGED <<pwmVars, queue, pub>>
        /\ nvs' \in {nvs, Recorded.freq}
    BY <1>9 DEF SaveFreq, Recorded
  <2>2. /\ Waiting # << >> /\ Head(Waiting) = SaveFreqCmd /\ Tail(Waiting) = queue
        /\ << >> \o queue = queue
    BY <1>0, <2>1, WaitingIs, HandFirst
  <2>3. Waiting' = queue /\ Unshown = {} /\ Unshown' = {}
    BY <2>1, <2>2 DEF Waiting, InHand, Unshown
  <2>4. Server!Decide("save_pwm_freq")
    BY <2>2, <2>3 DEF Server!Decide, SaveFreqCmd
  <2>5. Server!Save
    BY <2>1, <2>3, <2>4 DEF Server!Save, Recorded, pwmVars
  <2> QED
    BY <2>5 DEF Server!ServerNext
<1>10. CASE Tez /\ UNCHANGED ctlVars
  BY <1>10 DEF Tez, ctlVars, Server!serverVars, Waiting, InHand, Unshown, Recording, Recorded
<1>11. CASE Reset
  <2>1. /\ sw' = InitSw /\ call' = InitCall /\ queue' = << >> /\ ctl' = "receive"
        /\ pub' = NoPair /\ UNCHANGED nvs
    BY <1>11 DEF Reset
  <2>2. Waiting' = << >> /\ Unshown' = {}
    BY <2>1 DEF Waiting, InHand, Unshown
  <2>3. Recorded' = [freq |-> InitFreq, duty |-> 0] /\ call'.failed = FALSE
    BY <2>1, FreshFacts DEF Recorded
  <2>4. Server!Restart
    BY <2>1, <2>2, <2>3 DEF Server!Restart, Server!Fresh
  <2> QED
    BY <2>4 DEF Server!ServerNext
<1>12. CASE UNCHANGED controlVars
  BY <1>12 DEF controlVars, pwmVars, ctlVars, Server!serverVars, Waiting, InHand, Unshown,
     Recording, Recorded
<1> QED
  BY <1>2, <1>3, <1>4, <1>5, <1>6, <1>7, <1>8, <1>9, <1>10, <1>11, <1>12
     DEF ControlNext, BootStep, CtlStep

\* control_task.c keeps the promise of CommandServer: for any commands and
\* any length of the queue, whichever calls of the driver fail and wherever
\* the chip restarts, commands are decided in order and each once, none
\* before the one before it is shown, and none is passed over without cause.
THEOREM TaskServesInOrder == ControlSpec => ServesInOrder
<1>1. ControlInit => Server!ServerInit /\ PublishInv
  <2>1. ASSUME ControlInit
        PROVE  Server!ServerInit /\ PublishInv
    <3>1. /\ sw = InitSw /\ call = InitCall /\ queue = << >> /\ ctl = "receive"
          /\ pub = NoPair /\ nvs = 0
      BY <2>1 DEF ControlInit, PwmInit
    <3>2. Waiting = << >> /\ Unshown = {}
      BY <3>1 DEF Waiting, InHand, Unshown
    <3>3. Recorded = [freq |-> InitFreq, duty |-> 0] /\ call.failed = FALSE
      BY <3>1, FreshFacts DEF Recorded
    <3> QED
      BY <3>1, <3>2, <3>3 DEF Server!ServerInit, Server!Fresh, PublishInv, Recording
  <2> QED
    BY <2>1
<1>2. IInv /\ PublishInv /\ [ControlNext]_controlVars => PublishInv'
  BY PublishStep DEF IInv
<1>3. IInv /\ PublishInv /\ [ControlNext]_controlVars => [Server!ServerNext]_(Server!serverVars)
  BY ServerStep DEF IInv
<1> QED
  BY <1>1, <1>2, <1>3, ControlInvariant, PTL DEF ControlSpec, ServesInOrder, Server!ServerSpec
=============================================================================
