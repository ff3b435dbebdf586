------------------------------- MODULE GpioIo -------------------------------
(***************************************************************************)
(* components/gpio_io/gpio_io.c: the state words of the user GPIO pins and *)
(* the three tasks that share them.                                        *)
(*                                                                         *)
(*   ctl   the control task, the only caller of gpio_io_set_* / _pulse;    *)
(*   cb    the esp_timer task, which runs pulse_done_cb for one pin at a   *)
(*         time;                                                           *)
(*   poll  the 20 Hz input poll task.                                      *)
(*                                                                         *)
(* One action is one access to shared state: the word of a pin (an atomic  *)
(* byte holding mode, level and pulsing), its pad (the direction set by    *)
(* gpio_config and the output latch set by gpio_set_level) or its one-shot *)
(* timer.  A call the code rejects before it changes anything is a         *)
(* stuttering step.  The order in which the poll loop visits the pins is   *)
(* left open, and so is when an armed timer expires.                       *)
(***************************************************************************)
EXTENDS Naturals

CONSTANTS
  Pin,          (* the pins of both groups                                *)
  GroupB,       (* the pins that gpio_io_init makes outputs               *)
  InputMode,    (* the gpio_io_mode_t values other than OUTPUT            *)
  PullDown,     (* the mode gpio_io_init gives to group A                 *)
  Output        (* GPIO_IO_MODE_OUTPUT                                    *)

ASSUME ConstAssumption ==
  /\ GroupB \subseteq Pin
  /\ PullDown \in InputMode
  /\ Output \notin InputMode

Mode  == InputMode \cup {Output}
Level == 0..1
Flip(l) == 1 - l

VARIABLES
  word,    (* s_state: the published mode, level and pulsing bits         *)
  pad,     (* the hardware: direction and output latch of each pin        *)
  timer,   (* s_pulse_timer: not created, created, or armed               *)
  ctl,     (* the control task: where it is and its locals, which no      *)
           (* longer matter and are reset when a call is over             *)
  cb,      (* the esp_timer task inside pulse_done_cb                     *)
  poll,    (* the poll task inside one iteration of its loop              *)
  power,   (* s_power                                                     *)
  relay    (* the level that the power-switch pin asserts, 1 is "on"      *)

vars == <<word, pad, timer, ctl, cb, poll, power, relay>>

MakeState(m, l, p) == [mode |-> m, level |-> l, pulsing |-> p]
WordType == [mode: Mode, level: Level, pulsing: 0..1]

CtlSetting == {"config", "drive", "publish"}       (* set_mode, set_level *)
CtlPulsing == {"burst", "mark", "arm", "restore", "unmark"}      (* pulse *)
CtlPC      == {"idle", "power"} \cup CtlSetting \cup CtlPulsing
CbPC       == {"idle", "load", "drive", "publish"}
PollPC     == {"idle", "sample", "cas"}

PadType  == [mode: Mode, latch: Level]
CtlType  == [pc: CtlPC, pin: Pin, mode: Mode, level: Level]
CbType   == [pc: CbPC, pin: Pin, level: Level]
PollType == [pc: PollPC, pin: Pin, seen: WordType, level: Level]

TypeOK ==
  /\ word \in [Pin -> WordType]
  /\ pad \in [Pin -> PadType]
  /\ timer \in [Pin -> {"none", "ready", "armed"}]
  /\ ctl \in CtlType
  /\ cb \in CbType
  /\ poll \in PollType
  /\ power \in Level
  /\ relay \in Level

BootMode(i) == IF i \in GroupB THEN Output ELSE PullDown

\* gpio_io_init: the poll task is created last, the control task later still.
Init ==
  /\ word = [i \in Pin |-> MakeState(BootMode(i), 0, 0)]
  /\ pad = [i \in Pin |-> [mode |-> BootMode(i), latch |-> 0]]
  /\ timer = [i \in Pin |-> "none"]
  /\ ctl \in [pc: {"idle"}, pin: Pin, mode: {PullDown}, level: {0}]
  /\ cb = [pc |-> "idle", pin |-> ctl.pin, level |-> 0]
  /\ poll = [pc |-> "idle", pin |-> ctl.pin,
             seen |-> MakeState(PullDown, 0, 0), level |-> 0]
  /\ power = 0
  /\ relay = 0

-----------------------------------------------------------------------------
(* The control task: gpio_io_set_mode and gpio_io_set_level.               *)

Goto(pc) == ctl' = [ctl EXCEPT !.pc = pc]
CtlDone  == ctl' = [pc |-> "idle", pin |-> ctl.pin, mode |-> PullDown, level |-> 0]
Drive(i, l) == pad' = [pad EXCEPT ![i].latch = l]

\* Mutant: no pulsing check.
SetModeWhilePulsing(i, m) ==
  /\ ctl.pc = "idle"
  /\ ctl' = [pc |-> "config", pin |-> i, mode |-> m,
             level |-> IF m = Output /\ word[i].mode = Output
                         THEN word[i].level ELSE 0]
  /\ UNCHANGED <<word, pad, timer, cb, poll, power, relay>>

\* gpio_io_set_mode up to the pulsing check; the level to drive is taken
\* from this one load.
SetMode(i, m) ==
  /\ ctl.pc = "idle"
  /\ word[i].pulsing = 0
  /\ ctl' = [pc |-> "config", pin |-> i, mode |-> m,
             level |-> IF m = Output /\ word[i].mode = Output
                         THEN word[i].level ELSE 0]
  /\ UNCHANGED <<word, pad, timer, cb, poll, power, relay>>

\* apply_mode_to_hw: gpio_config sets the direction and keeps the latch, or
\* fails and the call returns.
ApplyModeToHw ==
  /\ ctl.pc = "config"
  /\ \/ /\ pad' = [pad EXCEPT ![ctl.pin].mode = ctl.mode]
        /\ Goto(IF ctl.mode = Output THEN "drive" ELSE "publish")
     \/ /\ CtlDone
        /\ UNCHANGED pad
  /\ UNCHANGED <<word, timer, cb, poll, power, relay>>

\* Mutant: no pulsing check.
SetLevelWhilePulsing(i, l) ==
  /\ ctl.pc = "idle"
  /\ word[i].mode = Output
  /\ ctl' = [pc |-> "drive", pin |-> i, mode |-> Output, level |-> l]
  /\ UNCHANGED <<word, pad, timer, cb, poll, power, relay>>

\* gpio_io_set_level up to its two rejections.
SetLevel(i, l) ==
  /\ ctl.pc = "idle"
  /\ word[i].mode = Output
  /\ word[i].pulsing = 0
  /\ ctl' = [pc |-> "drive", pin |-> i, mode |-> Output, level |-> l]
  /\ UNCHANGED <<word, pad, timer, cb, poll, power, relay>>

\* gpio_set_level in either call.
DriveLevel ==
  /\ ctl.pc = "drive"
  /\ Drive(ctl.pin, ctl.level)
  /\ Goto("publish")
  /\ UNCHANGED <<word, timer, cb, poll, power, relay>>

\* The closing store of either call: pulsing is written as 0.
PublishWord ==
  /\ ctl.pc = "publish"
  /\ word' = [word EXCEPT ![ctl.pin] = MakeState(ctl.mode, ctl.level, 0)]
  /\ CtlDone
  /\ UNCHANGED <<pad, timer, cb, poll, power, relay>>

-----------------------------------------------------------------------------
(* The control task: gpio_io_pulse.  ctl.level is the idle level.          *)

\* The checks, and the lazy esp_timer_create (its failure ends the call).
Pulse(i) ==
  /\ ctl.pc = "idle"
  /\ word[i].mode = Output
  /\ word[i].pulsing = 0
  /\ timer' = [timer EXCEPT ![i] = IF @ = "none" THEN "ready" ELSE @]
  /\ ctl' = [pc |-> "burst", pin |-> i, mode |-> Output, level |-> word[i].level]
  /\ UNCHANGED <<word, pad, cb, poll, power, relay>>

PulseBurst ==
  /\ ctl.pc = "burst"
  /\ Drive(ctl.pin, Flip(ctl.level))
  /\ Goto("mark")
  /\ UNCHANGED <<word, timer, cb, poll, power, relay>>

\* Mark the word as pulsing, with the idle level, before the timer is armed.
PulseMark ==
  /\ ctl.pc = "mark"
  /\ word' = [word EXCEPT ![ctl.pin] = MakeState(Output, ctl.level, 1)]
  /\ Goto("arm")
  /\ UNCHANGED <<pad, timer, cb, poll, power, relay>>

\* Mutant: a timer that does not start is not noticed.
PulseArmUnnoticed ==
  /\ ctl.pc = "arm"
  /\ \/ timer[ctl.pin] # "armed" /\ timer' = [timer EXCEPT ![ctl.pin] = "armed"]
     \/ UNCHANGED timer
  /\ CtlDone
  /\ UNCHANGED <<word, pad, cb, poll, power, relay>>

\* esp_timer_start_once: refused when the timer is already armed, and it may
\* fail for reasons of its own.
PulseArm ==
  /\ ctl.pc = "arm"
  /\ \/ /\ timer[ctl.pin] # "armed"
        /\ timer' = [timer EXCEPT ![ctl.pin] = "armed"]
        /\ CtlDone
     \/ /\ Goto("restore")
        /\ UNCHANGED timer
  /\ UNCHANGED <<word, pad, cb, poll, power, relay>>

\* Mutant: the failure path leaves the pulsing bit.
PulseRestoreOnly ==
  /\ ctl.pc = "restore"
  /\ Drive(ctl.pin, ctl.level)
  /\ CtlDone
  /\ UNCHANGED <<word, timer, cb, poll, power, relay>>

\* The failure path: drive the idle level, then clear pulsing.
PulseRestore ==
  /\ ctl.pc = "restore"
  /\ Drive(ctl.pin, ctl.level)
  /\ Goto("unmark")
  /\ UNCHANGED <<word, timer, cb, poll, power, relay>>

PulseUnmark ==
  /\ ctl.pc = "unmark"
  /\ word' = [word EXCEPT ![ctl.pin] = MakeState(Output, ctl.level, 0)]
  /\ CtlDone
  /\ UNCHANGED <<pad, timer, cb, poll, power, relay>>

-----------------------------------------------------------------------------
(* The control task: gpio_io_set_power.                                    *)

SetPower(on) ==
  /\ ctl.pc = "idle"
  /\ relay' = on
  /\ ctl' = [pc |-> "power", pin |-> ctl.pin, mode |-> ctl.mode, level |-> on]
  /\ UNCHANGED <<word, pad, timer, cb, poll, power>>

StorePower ==
  /\ ctl.pc = "power"
  /\ power' = ctl.level
  /\ CtlDone
  /\ UNCHANGED <<word, pad, timer, cb, poll, relay>>

-----------------------------------------------------------------------------
(* The esp_timer task: pulse_done_cb.                                      *)

\* The timer service disarms an expired one-shot timer, then calls back.
PulseExpire(i) ==
  /\ cb.pc = "idle"
  /\ timer[i] = "armed"
  /\ timer' = [timer EXCEPT ![i] = "ready"]
  /\ cb' = [pc |-> "load", pin |-> i, level |-> 0]
  /\ UNCHANGED <<word, pad, ctl, poll, power, relay>>

PulseDoneLoad ==
  /\ cb.pc = "load"
  /\ cb' = IF word[cb.pin].mode = Output
             THEN [pc |-> "drive", pin |-> cb.pin, level |-> word[cb.pin].level]
             ELSE [pc |-> "idle", pin |-> cb.pin, level |-> 0]
  /\ UNCHANGED <<word, pad, timer, ctl, poll, power, relay>>

\* Mutant: the callback does not drive the idle level.
PulseDoneNoDrive ==
  /\ cb.pc = "drive"
  /\ cb' = [cb EXCEPT !.pc = "publish"]
  /\ UNCHANGED <<word, pad, timer, ctl, poll, power, relay>>

PulseDoneDrive ==
  /\ cb.pc = "drive"
  /\ Drive(cb.pin, cb.level)
  /\ cb' = [cb EXCEPT !.pc = "publish"]
  /\ UNCHANGED <<word, timer, ctl, poll, power, relay>>

PulseDonePublish ==
  /\ cb.pc = "publish"
  /\ word' = [word EXCEPT ![cb.pin] = MakeState(Output, cb.level, 0)]
  /\ cb' = [pc |-> "idle", pin |-> cb.pin, level |-> 0]
  /\ UNCHANGED <<pad, timer, ctl, poll, power, relay>>

-----------------------------------------------------------------------------
(* The poll task: gpio_io_poll_task.                                       *)

PollDone == poll' = [pc |-> "idle", pin |-> poll.pin,
                     seen |-> MakeState(PullDown, 0, 0), level |-> 0]

PollLoad(i) ==
  /\ poll.pc = "idle"
  /\ word[i].mode # Output
  /\ poll' = [pc |-> "sample", pin |-> i, seen |-> word[i], level |-> 0]
  /\ UNCHANGED <<word, pad, timer, ctl, cb, power, relay>>

\* gpio_get_level: what the outside world puts on the pin.  An unchanged
\* level ends the iteration.
PollSample(l) ==
  /\ poll.pc = "sample"
  /\ \/ l = poll.seen.level /\ PollDone
     \/ /\ l # poll.seen.level
        /\ poll' = [pc |-> "cas", pin |-> poll.pin, seen |-> poll.seen, level |-> l]
  /\ UNCHANGED <<word, pad, timer, ctl, cb, power, relay>>

\* Mutant: a plain store in place of the compare-and-swap.
PollStore ==
  /\ poll.pc = "cas"
  /\ word' = [word EXCEPT ![poll.pin] =
                MakeState(poll.seen.mode, poll.level, poll.seen.pulsing)]
  /\ PollDone
  /\ UNCHANGED <<pad, timer, ctl, cb, power, relay>>

\* The compare-and-swap against the word that was loaded.
PollCas ==
  /\ poll.pc = "cas"
  /\ word' = IF word[poll.pin] = poll.seen
               THEN [word EXCEPT ![poll.pin] =
                       MakeState(poll.seen.mode, poll.level, poll.seen.pulsing)]
               ELSE word
  /\ PollDone
  /\ UNCHANGED <<pad, timer, ctl, cb, power, relay>>

-----------------------------------------------------------------------------

CtlStep ==
  \/ ApplyModeToHw \/ DriveLevel \/ PublishWord
  \/ PulseBurst \/ PulseMark \/ PulseArm \/ PulseRestore \/ PulseUnmark
  \/ StorePower
CtlCall ==
  \/ \E i \in Pin : Pulse(i)
  \/ \E i \in Pin, m \in Mode : SetMode(i, m)
  \/ \E i \in Pin, l \in Level : SetLevel(i, l)
  \/ \E l \in Level : SetPower(l)
CbStep == PulseDoneLoad \/ PulseDoneDrive \/ PulseDonePublish
PollStep ==
  \/ \E i \in Pin : PollLoad(i)
  \/ \E l \in Level : PollSample(l)
  \/ PollCas

Next ==
  \/ CtlCall \/ CtlStep
  \/ (\E i \in Pin : PulseExpire(i)) \/ CbStep
  \/ PollStep

Spec == Init /\ [][Next]_vars

(* A task that is inside a call goes on with it.  The timer service takes  *)
(* expired timers in the order of their deadlines, so a pin's timer is not *)
(* passed over for ever by those of other pins: strong fairness.           *)
Fairness ==
  /\ WF_vars(CtlStep)
  /\ WF_vars(CbStep)
  /\ \A i \in Pin : SF_vars(PulseExpire(i))

FairSpec == Spec /\ Fairness

-----------------------------------------------------------------------------
(* Properties.                                                             *)

CtlOn(i) == ctl.pc \in CtlSetting \cup CtlPulsing /\ ctl.pin = i
CbOn(i)  == cb.pc # "idle" /\ cb.pin = i

\* A pin whose word says "pulsing" is an output, and somebody is on the way
\* to end the pulse: the armed timer, the callback, or the control task that
\* has yet to arm the timer or to restore the pin.  No pin is left pulsing.
PulseHasEnd ==
  \A i \in Pin : word[i].pulsing = 1 =>
    /\ word[i].mode = Output
    /\ \/ timer[i] = "armed"
       \/ CbOn(i)
       \/ CtlOn(i) /\ ctl.pc \in {"arm", "restore", "unmark"}

\* What the pad of pin i does is what its word says: the direction, and on an
\* output the level, inverted during a pulse.
PadMatches(i) ==
  /\ pad[i].mode = word[i].mode
  /\ word[i].mode = Output =>
       pad[i].latch = IF word[i].pulsing = 1 THEN Flip(word[i].level)
                                             ELSE word[i].level

\* Whenever neither the control task nor the callback is in the middle of a
\* call on a pin, its published word tells the truth about the pad, whatever
\* the poll task is doing.
SettledPadMatches == \A i \in Pin : ~CtlOn(i) /\ ~CbOn(i) => PadMatches(i)

\* The power switch and s_power agree outside gpio_io_set_power.
PowerMatches == ctl.pc # "power" => power = relay

\* A pulse ends in one way only: the word keeps its mode and idle level,
\* loses the pulsing bit, and the pad already drives the idle level again.
PulseEndsRestored ==
  [][\A i \in Pin :
       word[i].pulsing = 1 /\ word'[i] # word[i] =>
         /\ word'[i] = [word[i] EXCEPT !.pulsing = 0]
         /\ pad[i].latch = word[i].level]_vars

\* The poll task never writes the word of a pin that is an output or whose
\* mode the control task has just changed: its store can only replace the
\* level of an input word that still has the mode it sampled under.
PollKeepsMode ==
  [][PollStep => \A i \in Pin :
       word'[i] # word[i] =>
         /\ word[i].mode # Output
         /\ word'[i] = [word[i] EXCEPT !.level = Flip(@)]]_vars

\* Every pulse ends: the pulsing bit that makes set_mode, set_level and pulse
\* refuse a pin is always cleared again.
PulseTerminates == \A i \in Pin : word[i].pulsing = 1 ~> word[i].pulsing = 0

-----------------------------------------------------------------------------
(* The inductive invariant behind the safety properties: who owns a pin.   *)

\* An armed timer owns its pin: the word is pulsing and nobody else is on it.
ArmedOwns ==
  \A i \in Pin : timer[i] = "armed" =>
    word[i].pulsing = 1 /\ ~CtlOn(i) /\ ~CbOn(i)

\* So does the callback, whose local level is the idle level of the word; the
\* pad shows the burst until the callback has driven it.
CbOwns ==
  cb.pc # "idle" =>
    /\ word[cb.pin].pulsing = 1
    /\ ~CtlOn(cb.pin)
    /\ pad[cb.pin].mode = Output
    /\ cb.pc # "load" => cb.level = word[cb.pin].level
    /\ pad[cb.pin].latch = IF cb.pc = "publish" THEN word[cb.pin].level
                                                ELSE Flip(word[cb.pin].level)

\* The control task has rejected pulsing pins before it touches a word, and
\* what it is about to publish is what the pad already does.
SettingOwns ==
  ctl.pc \in CtlSetting =>
    /\ word[ctl.pin].pulsing = 0
    /\ ctl.pc = "config" => PadMatches(ctl.pin)
    /\ ctl.pc = "drive" => ctl.mode = Output
    /\ ctl.pc \in {"drive", "publish"} => pad[ctl.pin].mode = ctl.mode
    /\ ctl.pc = "publish" /\ ctl.mode = Output => pad[ctl.pin].latch = ctl.level

PulsingOwns ==
  ctl.pc \in CtlPulsing =>
    /\ word[ctl.pin].mode = Output
    /\ word[ctl.pin].level = ctl.level
    /\ word[ctl.pin].pulsing = IF ctl.pc \in {"burst", "mark"} THEN 0 ELSE 1
    /\ pad[ctl.pin].mode = Output
    /\ pad[ctl.pin].latch = IF ctl.pc \in {"burst", "unmark"}
                              THEN ctl.level ELSE Flip(ctl.level)

\* In the middle of gpio_io_set_power the relay has the level to be stored.
PowerOwns == ctl.pc = "power" => relay = ctl.level

\* A sample was taken under an input mode and outside a pulse.
PollSawInput == poll.pc # "idle" => poll.seen.mode # Output /\ poll.seen.pulsing = 0

IInv ==
  /\ TypeOK
  /\ PulseHasEnd
  /\ ArmedOwns
  /\ CbOwns
  /\ SettingOwns
  /\ PulsingOwns
  /\ PowerOwns
  /\ PollSawInput
  /\ SettledPadMatches
  /\ PowerMatches
=============================================================================
