------------------------------- MODULE PwmGen -------------------------------
(***************************************************************************)
(* components/pwm_gen/pwm_gen.c: pwm_gen_set on one MCPWM timer that must  *)
(* be deleted and created again to change its resolution.                  *)
(*                                                                         *)
(*   sw     the driver's own record of the output (s_pwm);                 *)
(*   hw     the peripheral, as far as the calls in this file tell it       *)
(*          apart: the timer object, its shadow and active registers and   *)
(*          the comparator;                                                *)
(*   cycle  what the pin shows in the current period;                      *)
(*   call   the one pwm_gen_set in progress (only the control task calls   *)
(*          it), its last result and, for the properties, whether any call *)
(*          of the driver has failed since the start.                      *)
(*                                                                         *)
(* One action is one call of the MCPWM driver.  With Faults any of them    *)
(* may fail, and pwm_gen_set then returns at once; the error returned is   *)
(* named after the call that failed.                                       *)
(***************************************************************************)
EXTENDS Integers

CONSTANTS
  Freq,     (* the frequencies asked for, in Hz                           *)
  Duty,     (* the duties asked for, in percent                           *)
  NaN,      (* a duty that is not a number                                *)
  Faults    (* TRUE when the MCPWM driver's calls may fail                *)

ASSUME PwmAssumption ==
  /\ Freq \subseteq Nat
  /\ Duty \subseteq Int \cup {NaN}
  /\ NaN \notin Int
  /\ Faults \in BOOLEAN

FreqMin == 10
FreqMax == 1000000
InitFreq == 10000

-----------------------------------------------------------------------------
(* The arithmetic.                                                         *)

HI == [res |-> 10000000, freq_min |-> 153]
LO == [res |-> 625000, freq_min |-> 10]
NoBand == [res |-> 0, freq_min |-> 0]

\* pick_band: the first entry of s_bands whose freq_min is low enough.
PickBand(f) ==
  IF f >= HI.freq_min THEN HI ELSE IF f >= LO.freq_min THEN LO ELSE NoBand

\* freq_to_period_ticks: truncating division.
PeriodTicks(res, f) == IF f = 0 THEN 0 ELSE res \div f

Period(f) == PeriodTicks(PickBand(f).res, f)

\* Mutant: the polarity is inverted.
CompareInverted(d, period) ==
  IF d = NaN THEN {0, period} ELSE {period - ((2 * d * period + 100) \div 200)}

\* lroundf of the duty's share of the period, clamped to the period.  The
\* conversion of a NaN is unspecified: 0, or a large value that is clamped.
Compare(d, period) ==
  IF d = NaN THEN {0, period}
  ELSE LET c == (2 * d * period + 100) \div 200
       IN  {IF c > period THEN period ELSE c}

\* pwm_gen_duty_resolution_bits: the largest power of two within the period.
DutyResolutionBits(f) ==
  LET period == Period(f)
  IN  IF PickBand(f) = NoBand \/ period < 2 THEN 0
      ELSE CHOOSE b \in 0..31 : 2^b <= period /\ period < 2^(b + 1)

\* The range checks of pwm_gen_set, as C compares: a NaN passes both of the
\* comparisons with the duty.
Rejected(f, d) ==
  \/ f < FreqMin \/ f > FreqMax
  \/ d # NaN /\ (d < 0 \/ d > 100)
  \/ PickBand(f) = NoBand
  \/ Period(f) < 2 \/ Period(f) > 65535

-----------------------------------------------------------------------------

VARIABLES sw, hw, cycle, call
pwmVars == <<sw, hw, cycle, call>>

Regs == [res: Nat, period: Nat]
TeardownPC  == {"stop", "disable", "del"}
RecreatePC  == {"new_timer", "soft_sync", "connect", "cmpr", "enable", "start"}
SamePC      == {"set_period", "set_compare"}
CallPC      == {"idle", "commit", "trigger", "done"} \cup TeardownPC \cup RecreatePC \cup SamePC
Result      == {"ok", "invalid_state", "invalid_arg"} \cup TeardownPC \cup RecreatePC \cup SamePC

SwType   == [timer: BOOLEAN, freq: Nat, duty: Duty \cup {0}, period: Nat, res: Nat,
             trigger: 0..1]
HwType   == [exists: BOOLEAN, enabled: BOOLEAN, running: BOOLEAN,
             shadow: Regs, active: Regs, cmp: Nat]
CallType == [pc: CallPC, freq: Nat, duty: Duty \cup {0}, cmp: Nat, ret: Result, failed: BOOLEAN]

PwmTypeOK ==
  /\ sw \in SwType
  /\ hw \in HwType
  /\ cycle \in [res: Nat, period: Nat, cmp: Nat]
  /\ call \in CallType

\* pwm_gen_init: HI band, 10 kHz, duty 0, running.  Its own failures abort.
InitRegs == [res |-> HI.res, period |-> PeriodTicks(HI.res, InitFreq)]
InitSw    == [timer |-> TRUE, freq |-> InitFreq, duty |-> 0,
              period |-> InitRegs.period, res |-> HI.res, trigger |-> 0]
InitHw    == [exists |-> TRUE, enabled |-> TRUE, running |-> TRUE,
              shadow |-> InitRegs, active |-> InitRegs, cmp |-> 0]
InitCycle == [res |-> InitRegs.res, period |-> InitRegs.period, cmp |-> 0]
InitCall  == [pc |-> "idle", freq |-> InitFreq, duty |-> 0, cmp |-> 0, ret |-> "ok",
              failed |-> FALSE]

PwmInit ==
  /\ sw = InitSw
  /\ hw = InitHw
  /\ cycle = InitCycle
  /\ call = InitCall

Goto(pc)    == call' = [call EXCEPT !.pc = pc]
Return(ret) == call' = [call EXCEPT !.pc = "done", !.ret = ret, !.failed = @ \/ ret # "ok"]

\* One call of the MCPWM driver at step pc: it works and pwm_gen_set goes on
\* to "next" with the hardware in state h, or it fails and pwm_gen_set
\* returns.
Driver(pc, h, next) ==
  /\ call.pc = pc
  /\ \/ hw' = h /\ Goto(next)
     \/ Faults /\ UNCHANGED hw /\ Return(pc)
  /\ UNCHANGED <<sw, cycle>>

CallPeriod == Period(call.freq)
CallRegs == [res |-> PickBand(call.freq).res, period |-> CallPeriod]

-----------------------------------------------------------------------------
(* pwm_gen_set.                                                            *)

\* A call that is turned down before it touches the hardware.
Refuse(f, d, ret) ==
  call' = [call EXCEPT !.pc = "done", !.freq = f, !.duty = d, !.cmp = 0, !.ret = ret]

\* The checks, the choice of the band and the compare value.
PwmSet(f, d) ==
  /\ call.pc = "idle"
  /\ \/ ~sw.timer /\ Refuse(f, d, "invalid_state")
     \/ sw.timer /\ Rejected(f, d) /\ Refuse(f, d, "invalid_arg")
     \/ /\ sw.timer /\ ~Rejected(f, d)
        /\ \E c \in Compare(d, Period(f)) :
             call' = [call EXCEPT !.pc = IF PickBand(f).res = sw.res THEN "set_period" ELSE "stop",
                                  !.freq = f, !.duty = d, !.cmp = c]
  /\ UNCHANGED <<sw, hw, cycle>>

\* The same band.  The period register is updated at once, the comparator
\* when the counter next reaches zero (update_cmp_on_tez).
SetPeriod ==
  Driver("set_period",
         [hw EXCEPT !.shadow.period = CallPeriod, !.active.period = CallPeriod],
         "set_compare")
SetCompare == Driver("set_compare", [hw EXCEPT !.cmp = call.cmp], "commit")

\* reconfigure_for_band: the old timer goes.
StopTimer == Driver("stop", [hw EXCEPT !.running = FALSE], "disable")
DisableTimer == Driver("disable", [hw EXCEPT !.enabled = FALSE], "del")
\* Mutant: the handle of the deleted timer is kept.
DelTimerKeepHandle == Driver("del", [hw EXCEPT !.exists = FALSE], "new_timer")

DelTimer ==
  /\ call.pc = "del"
  /\ \/ /\ hw' = [hw EXCEPT !.exists = FALSE]
        /\ sw' = [sw EXCEPT !.timer = FALSE]
        /\ Goto("new_timer")
     \/ /\ Faults
        /\ Return("del")
        /\ UNCHANGED <<sw, hw>>
  /\ UNCHANGED cycle

\* ... and a new one comes.  Its shadow registers are written; how much of
\* them reaches the active registers by itself is intermittent.
NewTimer ==
  /\ call.pc = "new_timer"
  /\ \/ /\ \E a \in {hw.active, [hw.active EXCEPT !.period = CallPeriod], CallRegs} :
             hw' = [hw EXCEPT !.exists = TRUE, !.shadow = CallRegs, !.active = a]
        /\ sw' = [sw EXCEPT !.timer = TRUE]
        /\ Goto("soft_sync")
     \/ /\ Faults
        /\ Return("new_timer")
        /\ UNCHANGED <<sw, hw>>
  /\ UNCHANGED cycle

\* Mutant: no software sync.
NoSoftSync == Driver("soft_sync", hw, "connect")

\* The software sync, written straight to the registers: it cannot fail.
SoftSync ==
  /\ call.pc = "soft_sync"
  /\ hw' = [hw EXCEPT !.active = hw.shadow]
  /\ Goto("connect")
  /\ UNCHANGED <<sw, cycle>>

ConnectTimer == Driver("connect", hw, "cmpr")
SetNewCompare == Driver("cmpr", [hw EXCEPT !.cmp = call.cmp], "enable")
EnableTimer == Driver("enable", [hw EXCEPT !.enabled = TRUE], "start")
StartTimer == Driver("start", [hw EXCEPT !.running = TRUE], "commit")

\* Mutant: the band is not recorded.
CommitKeepsBand ==
  /\ call.pc = "commit"
  /\ sw' = [sw EXCEPT !.freq = call.freq, !.duty = call.duty, !.period = CallPeriod,
                      !.trigger = 1]
  /\ Goto("trigger")
  /\ UNCHANGED <<hw, cycle>>

\* Success: record the new output and raise the trigger pin ...
Commit ==
  /\ call.pc = "commit"
  /\ sw' = [sw EXCEPT !.freq = call.freq, !.duty = call.duty, !.period = CallPeriod,
                      !.res = PickBand(call.freq).res, !.trigger = 1]
  /\ Goto("trigger")
  /\ UNCHANGED <<hw, cycle>>

\* ... for the length of the busy wait.
EndTrigger ==
  /\ call.pc = "trigger"
  /\ sw' = [sw EXCEPT !.trigger = 0]
  /\ Return("ok")
  /\ UNCHANGED <<hw, cycle>>

\* The caller goes on.
PwmReturned ==
  /\ call.pc = "done"
  /\ Goto("idle")
  /\ UNCHANGED <<sw, hw, cycle>>

\* The counter of a running timer reaches zero: a new period begins.
Tez ==
  /\ hw.running
  /\ cycle' = [res |-> hw.active.res, period |-> hw.active.period, cmp |-> hw.cmp]
  /\ UNCHANGED <<sw, hw, call>>

-----------------------------------------------------------------------------

PwmStep ==
  \/ SetPeriod \/ SetCompare
  \/ StopTimer \/ DisableTimer \/ DelTimer
  \/ NewTimer \/ SoftSync \/ ConnectTimer \/ SetNewCompare \/ EnableTimer \/ StartTimer
  \/ Commit \/ EndTrigger

PwmNext ==
  \/ \E f \in Freq, d \in Duty : PwmSet(f, d)
  \/ PwmStep
  \/ PwmReturned
  \/ Tez

PwmSpec == PwmInit /\ [][PwmNext]_pwmVars

-----------------------------------------------------------------------------
(* Properties.                                                             *)

UsesTimer == TeardownPC \cup SamePC \cup {"connect", "enable", "start"}

\* No call of the driver is made with the handle of a deleted timer, and the
\* second timer is only created when the first is gone, whatever failed in
\* this pwm_gen_set or in an earlier one.
NoDanglingTimer ==
  /\ call.pc \in UsesTimer => hw.exists
  /\ call.pc = "new_timer" => ~hw.exists
  /\ sw.timer <=> hw.exists

\* Every period the pin ever shows has a resolution and a period that belong
\* together: the period length of some frequency at that frequency's own
\* resolution, never a new period counted at the old resolution.
NoMixedBand ==
  \E f \in Freq \cup {InitFreq} : cycle.res = PickBand(f).res /\ cycle.period = Period(f)

\* Outside a call the hardware is set up for what s_pwm records: running, at
\* the recorded resolution and period, with the compare value of the duty.
\* (Only when no driver call has failed.)
HardwareFollows ==
  ~call.failed /\ call.pc \in {"idle", "done"} =>
    /\ hw.running /\ hw.enabled
    /\ hw.shadow = [res |-> sw.res, period |-> sw.period]
    /\ hw.active = hw.shadow
    /\ sw.res = PickBand(sw.freq).res /\ sw.period = Period(sw.freq)
    /\ hw.cmp \in Compare(sw.duty, sw.period)
=============================================================================
