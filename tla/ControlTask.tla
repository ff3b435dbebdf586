----------------------------- MODULE ControlTask -----------------------------
(***************************************************************************)
(* main/control_task.c over PwmGen: the command queue that every front end *)
(* posts to, the one task that serves it, the pair of atomics that         *)
(* telemetry reads, the frequency kept in NVS, and what app_main posts at  *)
(* boot.  A command whose handler belongs to another component and leaves  *)
(* this state alone is of kind "other".                                    *)
(*                                                                         *)
(* app_main and the control task share a core and the control task has the *)
(* higher priority, so app_main only runs while the task is blocked.       *)
(***************************************************************************)
EXTENDS PwmGen, Sequences

CONSTANTS
  QueueLen,   (* the length of the queue: 16                              *)
  Request,    (* the [freq, duty] pairs that front ends ask for           *)
  Fallback,   (* the boot frequency when none is saved: 10000             *)
  Resets      (* TRUE when the chip may restart at any time               *)

ASSUME ControlAssumption ==
  /\ QueueLen \in Nat \ {0}
  /\ Request \subseteq [freq: Freq, duty: Duty]
  /\ {Fallback, InitFreq} \subseteq Freq /\ 0 \in Duty
  /\ ~Rejected(Fallback, 0)
  /\ Resets \in BOOLEAN

VARIABLES
  queue,      (* s_cmd_q                                                  *)
  ctl,        (* where control_task is                                    *)
  pub,        (* s_freq_hz and s_duty_bits                                *)
  nvs,        (* the saved frequency; 0: none                             *)
  boot,       (* app_main: what it posts next, or "run"                   *)
  wanted      (* history: the last acceptable request queued since boot,  *)
              (* and whether any of them had a duty other than 0          *)

ctlVars     == <<queue, ctl, pub, nvs, boot, wanted>>
controlVars == <<pwmVars, ctlVars>>

SetPwmCmd(f, d) == [kind |-> "set_pwm", freq |-> f, duty |-> d]
SaveFreqCmd     == [kind |-> "save_pwm_freq", freq |-> 0, duty |-> 0]
OtherCmd        == [kind |-> "other", freq |-> 0, duty |-> 0]
FrontEndCmd     == {SetPwmCmd(r.freq, r.duty) : r \in Request} \cup {SaveFreqCmd, OtherCmd}

\* app_main's setpoint and what front ends post are among these.
Cmd == {SetPwmCmd(f, d) : f \in Freq, d \in Duty} \cup {SaveFreqCmd, OtherCmd}

Pair == [freq: Freq \cup {0}, duty: Duty]

ControlTypeOK ==
  /\ PwmTypeOK
  /\ queue \in Seq([kind: {"set_pwm", "save_pwm_freq", "other"}, freq: Nat, duty: Duty])
  /\ Len(queue) <= QueueLen
  /\ ctl \in {"receive", "pwm", "publish_freq", "publish_duty", "save"}
  /\ pub \in Pair
  /\ nvs \in Nat
  /\ boot \in {"pwm", "power", "run"}
  /\ wanted \in [last: Pair, on: BOOLEAN]

NoPair   == [freq |-> 0, duty |-> 0]
NoWish   == [last |-> NoPair, on |-> FALSE]

ControlInit ==
  /\ PwmInit
  /\ queue = <<>>
  /\ ctl = "receive"
  /\ pub = NoPair
  /\ nvs = 0
  /\ boot = "pwm"
  /\ wanted = NoWish

Recorded == [freq |-> sw.freq, duty |-> sw.duty]

-----------------------------------------------------------------------------
(* Posting.                                                                *)

\* Mutant: a command goes to the front of the queue.
PostToFront(c) ==
  IF Len(queue) < QueueLen
    THEN /\ queue' = <<c>> \o queue
         /\ wanted' = IF c.kind = "set_pwm" /\ ~Rejected(c.freq, c.duty)
                        THEN [last |-> [freq |-> c.freq, duty |-> c.duty],
                              on   |-> wanted.on \/ c.duty # 0]
                        ELSE wanted
    ELSE UNCHANGED <<queue, wanted>>

\* A command is queued, or dropped when the queue is full.
Post(c) ==
  IF Len(queue) < QueueLen
    THEN /\ queue' = Append(queue, c)
         /\ wanted' = IF c.kind = "set_pwm" /\ ~Rejected(c.freq, c.duty)
                        THEN [last |-> [freq |-> c.freq, duty |-> c.duty],
                              on   |-> wanted.on \/ c.duty # 0]
                        ELSE wanted
    ELSE UNCHANGED <<queue, wanted>>

\* A front end: WebSocket, HID, CDC or console.
FrontEndPost(c) ==
  /\ boot = "run"
  /\ Post(c)
  /\ UNCHANGED <<pwmVars, ctl, pub, nvs, boot>>

\* app_main runs only while the control task waits on an empty queue.
MainRuns == queue = <<>> /\ ctl = "receive"

\* pwm_gen_load_saved_freq.
BootFreq == IF nvs < FreqMin \/ nvs > FreqMax THEN Fallback ELSE nvs

BootPwm ==
  /\ boot = "pwm" /\ MainRuns
  /\ Post(SetPwmCmd(BootFreq, 0))
  /\ boot' = "power"
  /\ UNCHANGED <<pwmVars, ctl, pub, nvs>>

BootPower ==
  /\ boot = "power" /\ MainRuns
  /\ Post(OtherCmd)
  /\ boot' = "run"
  /\ UNCHANGED <<pwmVars, ctl, pub, nvs>>

-----------------------------------------------------------------------------
(* control_task.                                                           *)

Receive ==
  /\ ctl = "receive" /\ queue # <<>>
  /\ queue' = Tail(queue)
  /\ LET c == Head(queue) IN
       \/ /\ c.kind = "set_pwm"
          /\ PwmSet(c.freq, c.duty)
          /\ ctl' = "pwm"
       \/ /\ c.kind = "save_pwm_freq"
          /\ ctl' = "save"
          /\ UNCHANGED pwmVars
       \/ /\ c.kind = "other"
          /\ UNCHANGED <<pwmVars, ctl>>
  /\ UNCHANGED <<pub, nvs, boot, wanted>>

PwmWorks == PwmStep /\ UNCHANGED ctlVars

\* Mutant: a refused setpoint is published too.
PwmDoneAlways ==
  /\ ctl = "pwm"
  /\ PwmReturned
  /\ ctl' = "publish_freq"
  /\ UNCHANGED <<queue, pub, nvs, boot, wanted>>

\* pwm_gen_set returned: publish a success, only log a failure.
PwmDone ==
  /\ ctl = "pwm"
  /\ PwmReturned
  /\ ctl' = IF call.ret = "ok" THEN "publish_freq" ELSE "receive"
  /\ UNCHANGED <<queue, pub, nvs, boot, wanted>>

\* publish_pwm: two relaxed stores.
PublishFreq ==
  /\ ctl = "publish_freq"
  /\ pub' = [pub EXCEPT !.freq = call.freq]
  /\ ctl' = "publish_duty"
  /\ UNCHANGED <<pwmVars, queue, nvs, boot, wanted>>

PublishDuty ==
  /\ ctl = "publish_duty"
  /\ pub' = [pub EXCEPT !.duty = call.duty]
  /\ ctl' = "receive"
  /\ UNCHANGED <<pwmVars, queue, nvs, boot, wanted>>

\* Mutant: the frequency last asked for is saved.
SaveAskedFreq ==
  /\ ctl = "save"
  /\ nvs' = call.freq
  /\ ctl' = "receive"
  /\ UNCHANGED <<pwmVars, queue, pub, boot, wanted>>

\* pwm_gen_save_current_freq_to_nvs; the flash may refuse the write.
SaveFreq ==
  /\ ctl = "save"
  /\ \/ sw.freq \in FreqMin..FreqMax /\ nvs' = sw.freq
     \/ UNCHANGED nvs
  /\ ctl' = "receive"
  /\ UNCHANGED <<pwmVars, queue, pub, boot, wanted>>

-----------------------------------------------------------------------------
(* A restart.                                                              *)

\* A restart or a power cut at any point keeps nothing but the flash.
Reset ==
  /\ Resets
  /\ sw' = InitSw /\ hw' = InitHw /\ cycle' = InitCycle /\ call' = InitCall
  /\ queue' = <<>> /\ ctl' = "receive" /\ pub' = NoPair
  /\ boot' = "pwm" /\ wanted' = NoWish
  /\ UNCHANGED nvs

-----------------------------------------------------------------------------

BootStep == BootPwm \/ BootPower
CtlStep  == Receive \/ PwmWorks \/ PwmDone \/ PublishFreq \/ PublishDuty \/ SaveFreq

ControlNext ==
  \/ \E c \in FrontEndCmd : FrontEndPost(c)
  \/ BootStep
  \/ CtlStep
  \/ Tez /\ UNCHANGED ctlVars
  \/ Reset

ControlSpec == ControlInit /\ [][ControlNext]_controlVars

-----------------------------------------------------------------------------
(* Properties.                                                             *)

Settled == boot = "run" /\ queue = <<>> /\ ctl = "receive"

\* When the queue has been served, the output recorded and the output
\* published are both those of the last acceptable request that was queued
\* since boot, the boot request included: no earlier, refused or dropped
\* request shows through.  (Only when no driver call has failed.)  Every
\* variable keeps its type meanwhile.
LastAcceptedWins ==
  /\ ControlTypeOK
  /\ ~call.failed /\ Settled => Recorded = wanted.last /\ pub = wanted.last

\* After any restart the comparator and the pin stay at 0 until a request for
\* another duty has been queued, also when driver calls fail.
FanOffUntilAsked == ~wanted.on => hw.cmp = 0 /\ cycle.cmp = 0

\* Only a frequency that the next boot accepts is ever saved.
SavedIsBootable == nvs # 0 => ~Rejected(nvs, 0)

\* The task serves its queue as CommandServer does, failures and restarts
\* included: no command overtakes another, is served twice or left out
\* without cause, and none is looked at before telemetry shows the one before.
\* A setpoint is decided when s_pwm records it, or when pwm_gen_set has failed.
InHand ==
  CASE ctl = "save" -> <<SaveFreqCmd>>
    [] ctl = "pwm" /\ call.pc \notin {"trigger", "done"} -> <<SetPwmCmd(call.freq, call.duty)>>
    [] OTHER -> << >>

Waiting == InHand \o queue

Recording == call.pc = "trigger" \/ (call.pc = "done" /\ call.ret = "ok")

Unshown ==
  CASE ctl = "publish_freq" \/ (ctl = "pwm" /\ Recording) -> {"freq", "duty"}
    [] ctl = "publish_duty" -> {"duty"}
    [] OTHER -> {}

Server == INSTANCE CommandServer WITH
  Command <- Cmd, Accepted <- {c \in Cmd : ~Rejected(c.freq, c.duty)},
  Capacity <- QueueLen + 1, Initial <- [freq |-> InitFreq, duty |-> 0], Blank <- NoPair,
  waiting <- Waiting, output <- Recorded, shown <- pub, due <- Unshown,
  saved <- nvs, failed <- call.failed
ServesInOrder == Server!ServerSpec
=============================================================================
