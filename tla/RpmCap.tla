-------------------------------- MODULE RpmCap --------------------------------
(***************************************************************************)
(* components/rpm_cap/rpm_cap.c, the whole pipeline: the capture interrupt *)
(* and the signal-lost timer of RpmEdge feed s_freq_fifo, converter_task   *)
(* turns samples into speeds and feeds s_rpm_fifo, and averager_task runs  *)
(* RpmAverager.  The tasks sleep on task notifications.  s_rpm_fifo, with  *)
(* one producer and one consumer, is the queue that SampleRing implements. *)
(***************************************************************************)
EXTENDS RpmEdge, RpmAverager, Sequences

CONSTANTS
  ClkHz,      (* CAP_SRC_CLK_HZ times 60                                  *)
  Pole,       (* the pole counts rpm_cap_set_params accepts               *)
  SpeedCap    (* RPM_FIFO_LEN - 1                                         *)

ASSUME CapAssumption ==
  /\ ClkHz \in Nat \ {0} /\ SpeedCap \in Nat \ {0}
  /\ Pole \subseteq Nat \ {0}

VARIABLES
  pole,       (* s_cap.pole_count                                         *)
  setting,    (* the moving average count a set_params has yet to store   *)
  conv,       (* converter_task; its rpm is 0 once it has been used       *)
  avg,        (* averager_task, likewise                                  *)
  rpmFifo,    (* s_rpm_fifo                                               *)
  avgNote,    (* the averager task's notification                         *)
  finite      (* mavg_sum is a number: no infinity has been added to it   *)

taskVars == <<pole, setting, conv, avg, rpmFifo, avgNote, finite>>
capVars  == <<edgeVars, avgVars, taskVars>>

\* The speed of a word 0, a float divided by 0.  In the running sum it leaves
\* an infinity, and when it is subtracted again no number at all, for good.
Infinite == -1
Rpm      == Nat \cup {Infinite}

CapTypeOK ==
  /\ EdgeTypeOK /\ AvgTypeOK
  /\ pole \in Pole
  /\ setting \in Window \cup {0}
  /\ conv \in [pc: {"wait", "pop", "push", "notify"}, rpm: Rpm]
  /\ avg \in [pc: {"wait", "pop", "average"}, rpm: Rpm]
  /\ rpmFifo \in Seq(Rpm) /\ Len(rpmFifo) <= SpeedCap
  /\ avgNote \in BOOLEAN /\ finite \in BOOLEAN

CapInit ==
  /\ EdgeInit /\ AvgInit
  /\ pole \in Pole
  /\ setting = 0
  /\ conv = [pc |-> "wait", rpm |-> 0]
  /\ avg = [pc |-> "wait", rpm |-> 0]
  /\ rpmFifo = <<>>
  /\ avgNote = FALSE
  /\ finite = TRUE

-----------------------------------------------------------------------------
(* converter_task.                                                         *)

RpmOf(raw, p) ==
  CASE raw >= Msb             -> 0
    [] raw = 0                -> Infinite
    [] raw # 0 /\ raw < Msb  -> ClkHz \div (raw * p)

ConvTake ==
  /\ conv.pc = "wait" /\ convNote
  /\ convNote' = FALSE
  /\ conv' = [conv EXCEPT !.pc = "pop"]
  /\ UNCHANGED <<age, havePrev, timeout, timer, isr, tcb, freqFifo, lost>>
  /\ UNCHANGED <<avgVars, pole, setting, avg, rpmFifo, avgNote, finite>>

ConvPop ==
  /\ conv.pc = "pop"
  /\ \/ /\ TakeSample
        /\ conv' = [pc |-> "push", rpm |-> RpmOf(OldestWord, pole)]
     \/ /\ FreqEmpty
        /\ conv' = [conv EXCEPT !.pc = "wait"]
        /\ UNCHANGED edgeVars
  /\ UNCHANGED <<avgVars, pole, setting, avg, rpmFifo, avgNote, finite>>

ConvPush ==
  /\ conv.pc = "push"
  /\ rpmFifo' = IF Len(rpmFifo) < SpeedCap THEN Append(rpmFifo, conv.rpm) ELSE rpmFifo
  /\ lost' = (lost \/ (conv.rpm = 0 /\ Len(rpmFifo) = SpeedCap))
  /\ conv' = [pc |-> "notify", rpm |-> 0]
  /\ UNCHANGED <<age, havePrev, timeout, timer, isr, tcb, freqFifo, convNote>>
  /\ UNCHANGED <<avgVars, pole, setting, avg, avgNote, finite>>

\* Mutant: the averager is not notified.
ConvNotifySilent ==
  /\ conv.pc = "notify"
  /\ conv' = [conv EXCEPT !.pc = "pop"]
  /\ UNCHANGED <<edgeVars, avgVars, pole, setting, avg, rpmFifo, avgNote, finite>>

ConvNotify ==
  /\ conv.pc = "notify"
  /\ avgNote' = TRUE
  /\ conv' = [conv EXCEPT !.pc = "pop"]
  /\ UNCHANGED <<edgeVars, avgVars, pole, setting, avg, rpmFifo, finite>>

-----------------------------------------------------------------------------
(* averager_task.                                                          *)

AvgTake ==
  /\ avg.pc = "wait" /\ avgNote
  /\ avgNote' = FALSE
  /\ avg' = [avg EXCEPT !.pc = "pop"]
  /\ UNCHANGED <<edgeVars, avgVars, pole, setting, conv, rpmFifo, finite>>

AvgPop ==
  /\ avg.pc = "pop"
  /\ \/ /\ rpmFifo # <<>>
        /\ avg' = [pc |-> "average", rpm |-> Head(rpmFifo)]
        /\ rpmFifo' = Tail(rpmFifo)
     \/ /\ rpmFifo = <<>>
        /\ avg' = [avg EXCEPT !.pc = "wait"]
        /\ UNCHANGED rpmFifo
  /\ UNCHANGED <<edgeVars, avgVars, pole, setting, conv, avgNote, finite>>

\* Once the sum is no number, neither is what is published; the rings, which
\* decide nothing any more, are then left as they are.
AvgAverage ==
  /\ avg.pc = "average"
  /\ finite' = (finite /\ avg.rpm # Infinite)
  /\ IF finite' THEN Average(avg.rpm) ELSE UNCHANGED avgVars
  /\ avg' = [pc |-> "pop", rpm |-> 0]
  /\ UNCHANGED <<edgeVars, pole, setting, conv, rpmFifo, avgNote>>

-----------------------------------------------------------------------------
(* rpm_cap_set_params, by the control task: the pole, then the count.      *)

SetPole(p, w) ==
  /\ setting = 0
  /\ w >= window \/ Shrink
  /\ pole' = p
  /\ setting' = w
  /\ UNCHANGED <<edgeVars, avgVars, conv, avg, rpmFifo, avgNote, finite>>

SetCount ==
  /\ setting # 0
  /\ SetWindow(setting)
  /\ setting' = 0
  /\ UNCHANGED <<edgeVars, pole, conv, avg, rpmFifo, avgNote, finite>>

-----------------------------------------------------------------------------

TasksIdle == conv.pc = "wait" /\ ~convNote /\ avg.pc = "wait" /\ ~avgNote

ProducerStep == Edge \/ IsrStep \/ Expire \/ TimeoutStep
ChangeTimeout == setting = 0 /\ \E t \in Timeout : SetTimeout(t)
TimeStep     == Tick
ConvStep     == ConvTake \/ ConvPop \/ ConvPush \/ ConvNotify
AvgStep      == AvgTake \/ AvgPop \/ AvgAverage

CapNext ==
  \/ (ProducerStep \/ ChangeTimeout \/ TimeStep) /\ UNCHANGED <<avgVars, taskVars>>
  \/ ConvStep
  \/ AvgStep
  \/ \E p \in Pole, w \in Window : SetPole(p, w)
  \/ SetCount

CapSpec == CapInit /\ [][CapNext]_capVars

\* Time passes, the interrupt and the timer service run when they have to,
\* and the two tasks are scheduled.
Quietly(A) == A /\ UNCHANGED <<avgVars, taskVars>>
CapFairness ==
  /\ WF_capVars(Quietly(IsrStep))
  /\ WF_capVars(Quietly(TimeoutStep))
  /\ WF_capVars(Quietly(Expire))
  /\ WF_capVars(Quietly(TimeStep))
  /\ WF_capVars(ConvStep)
  /\ WF_capVars(AvgStep)
CapFairSpec == CapSpec /\ CapFairness

-----------------------------------------------------------------------------
(* Properties.                                                             *)

\* A task never sleeps on samples: while its fifo holds one it is notified,
\* awake, or about to be notified by whoever pushed it; and no fifo takes more
\* than it has room for.
NoLostWakeup ==
  /\ CapTypeOK
  /\ ~FreqEmpty =>
       \/ convNote \/ conv.pc # "wait" \/ isr = "notify" \/ tcb.pc = "notify"
  /\ rpmFifo # <<>> => avgNote \/ avg.pc # "wait" \/ conv.pc = "notify"

\* The timer has run out and no edge has come since, and the pipeline has
\* nothing left to do.
LostAtRest == timer = Off /\ isr = "idle" /\ tcb.pc = "idle" /\ TasksIdle

\* The timeout reaches the average: when a lost signal has come to rest, the
\* speed averaged last is the 0 of its sentinel - whatever the window, and
\* however the interrupt fell into the callback's push - unless a full ring
\* dropped it.
LossIsAveraged ==
  LostAtRest => (history.filled > 0 /\ Recent(1) = 0) \/ lost \/ ~finite

\* When the edges stop, both fifos are emptied and the tasks go to sleep,
\* however slow they were before.
StoppedDrains ==
  <>[][~Edge]_capVars =>
    <>[](FreqEmpty /\ rpmFifo = <<>> /\ TasksIdle /\ ~havePrev)
=============================================================================
