------------------------------- MODULE RpmEdge -------------------------------
(***************************************************************************)
(* components/rpm_cap/rpm_cap.c, the producing side: the capture interrupt *)
(* on_cap_edge, the signal-lost timer and its callback on_timeout, which   *)
(* runs on the esp_timer task of the same core and is preempted by the     *)
(* interrupt.  Both push into s_freq_fifo and notify the converter.        *)
(*                                                                         *)
(* Time is discrete; a unit is a tick of the capture counter as far as the *)
(* arithmetic goes, and long enough for the interrupt to run.  The timer's *)
(* task may be held up in its callback for as long as it takes.  The       *)
(* capture counter has Width bits (32 in the code).                        *)
(*                                                                         *)
(* The interrupt's push is one step, since nothing on its core can come in *)
(* between and SampleRing shows it against a consumer on the other core.   *)
(* The callback's is not: the interrupt can come in after each access.     *)
(***************************************************************************)
EXTENDS Integers

CONSTANTS
  Width,      (* bits of the capture counter                              *)
  MinEdge,    (* MIN_EDGE_PERIOD_TICKS                                    *)
  Timeout,    (* the values rpm_cap_set_timeout accepts, in ticks         *)
  MaxLate,    (* how late the timer service may run an expired timer      *)
  MaxAge,     (* bound of the model: ticks counted since an edge          *)
  FreqCap     (* FREQ_FIFO_LEN - 1: the ring's last slot, and its mask    *)

Wrap == 2^Width
Msb  == 2^(Width - 1)

ASSUME EdgeAssumption ==
  /\ Width \in Nat \ {0} /\ MinEdge \in Nat \ {0}
  /\ Timeout # {} /\ Timeout \subseteq Nat \ {0}
  /\ MaxLate \in Nat /\ MaxAge \in Nat /\ FreqCap \in Nat \ {0}
  /\ Msb \in Nat \ {0} /\ Wrap = 2 * Msb      (* what the proofs need of ^ *)

Off  == -MaxLate - 1        (* a timer that is not armed *)

VARIABLES
  age,        (* ticks since the last captured edge, MaxAge at most       *)
  havePrev,   (* s_cap.have_prev                                          *)
  timeout,    (* s_cap.rpm_timeout_us, in ticks                           *)
  timer,      (* ticks until timeout_timer expires; negative: late; Off   *)
  isr,        (* on_cap_edge in progress                                  *)
  tcb,        (* on_timeout in progress: its step, its head and word      *)
  freqFifo,   (* s_freq_fifo                                              *)
  lost,       (* history: the last sentinel, or its speed, was dropped    *)
  convNote    (* the converter task's notification                        *)

edgeVars == <<age, havePrev, timeout, timer, isr, tcb, freqFifo, lost, convNote>>

Word  == 0..(Wrap - 1)
Slots == 0..FreqCap

TimerOff == [pc |-> "idle", head |-> 0, word |-> 0]

\* on_timeout between its start and the end of its push.
Pushing == {"head", "room", "word", "publish"}

EdgeTypeOK ==
  /\ age \in 0..MaxAge
  /\ havePrev \in BOOLEAN
  /\ timeout \in Timeout
  /\ timer \in Int /\ timer >= Off /\ \E t \in Timeout : timer <= t
  /\ isr \in {"idle", "notify", "rearm"}
  /\ tcb \in [pc: Pushing \cup {"idle", "notify", "reset"}, head: Slots, word: Word]
  /\ freqFifo \in [slot: [Slots -> Word], head: Slots, tail: Slots]
  /\ lost \in BOOLEAN /\ convNote \in BOOLEAN

\* rpm_cap_init: the initial timeout is armed.
EdgeInit ==
  /\ age = MaxAge
  /\ havePrev = FALSE
  /\ timeout \in Timeout
  /\ timer = timeout
  /\ isr = "idle"
  /\ tcb = TimerOff
  /\ freqFifo = [slot |-> [i \in Slots |-> 0], head |-> 0, tail |-> 0]
  /\ lost = FALSE
  /\ convNote = FALSE

-----------------------------------------------------------------------------
(* The ring.                                                               *)

After(i)  == IF i = FreqCap THEN 0 ELSE i + 1      (* (i + 1) & mask *)
FreqEmpty == freqFifo.head = freqFifo.tail

\* The interrupt's push, whole.
Push(word) ==
  LET h == freqFifo.head IN
    /\ freqFifo' = IF After(h) = freqFifo.tail THEN freqFifo
                   ELSE [freqFifo EXCEPT !.slot[h] = word, !.head = After(h)]
    /\ lost' = FALSE

\* The converter task takes the oldest word (RpmCap has the whole task).
OldestWord == freqFifo.slot[freqFifo.tail]
TakeSample ==
  /\ ~FreqEmpty
  /\ freqFifo' = [freqFifo EXCEPT !.tail = After(@)]
  /\ UNCHANGED <<age, havePrev, timeout, timer, isr, tcb, lost, convNote>>

-----------------------------------------------------------------------------
(* on_cap_edge.                                                            *)

Measured == age % Wrap      (* cap - prev_cap_value, unsigned *)

\* An edge faster than the guard only moves prev_cap_value.
FastEdge ==
  /\ isr = "idle"
  /\ havePrev /\ Measured < MinEdge
  /\ age' = 0
  /\ UNCHANGED <<havePrev, timeout, timer, isr, tcb, freqFifo, lost, convNote>>

\* An edge that ends a measurement.
PeriodEdge ==
  /\ isr = "idle"
  /\ havePrev /\ Measured >= MinEdge
  /\ Push(Measured)
  /\ age' = 0
  /\ isr' = "notify"
  /\ UNCHANGED <<havePrev, timeout, timer, tcb, convNote>>

EdgeNotify ==
  /\ isr = "notify"
  /\ convNote' = TRUE
  /\ isr' = "rearm"
  /\ UNCHANGED <<age, havePrev, timeout, timer, tcb, freqFifo, lost>>

\* An edge that only starts one.
FirstEdge ==
  /\ isr = "idle"
  /\ ~havePrev
  /\ age' = 0
  /\ isr' = "rearm"
  /\ UNCHANGED <<havePrev, timeout, timer, tcb, freqFifo, lost, convNote>>

\* Mutant: the timer is stopped and not started again.
EdgeStopOnly ==
  /\ isr = "rearm"
  /\ havePrev' = TRUE
  /\ timer' = Off
  /\ isr' = "idle"
  /\ UNCHANGED <<age, timeout, tcb, freqFifo, lost, convNote>>

\* have_prev, esp_timer_stop (without effect on a callback that has begun)
\* and esp_timer_start_once.
EdgeRearm ==
  /\ isr = "rearm"
  /\ havePrev' = TRUE
  /\ timer' = timeout
  /\ isr' = "idle"
  /\ UNCHANGED <<age, timeout, tcb, freqFifo, lost, convNote>>

-----------------------------------------------------------------------------
(* on_timeout, step by step: the interrupt may come before each.           *)

Expire ==
  /\ isr = "idle" /\ tcb.pc = "idle"
  /\ timer # Off /\ timer <= 0
  /\ timer' = Off
  /\ tcb' = [tcb EXCEPT !.pc = "head"]
  /\ UNCHANGED <<age, havePrev, timeout, isr, freqFifo, lost, convNote>>

\* Mutant: the most significant bit is not set.
SentinelPlain == timeout % Msb

\* The sentinel: the timeout in ticks, 0 or too large becoming the maximum,
\* with the most significant bit set.
Sentinel == Msb + ((IF timeout > Wrap - 1 THEN Wrap - 1 ELSE timeout) % Msb)

\* The word is composed and the head is read.
TimeoutHead ==
  /\ isr = "idle" /\ tcb.pc = "head"
  /\ tcb' = [pc |-> "room", head |-> freqFifo.head, word |-> Sentinel]
  /\ UNCHANGED <<age, havePrev, timeout, timer, isr, freqFifo, lost, convNote>>

\* The tail is read: no room after the head that was read drops the word.
TimeoutRoom ==
  /\ isr = "idle" /\ tcb.pc = "room"
  /\ LET full == After(tcb.head) = freqFifo.tail IN
       /\ tcb' = [tcb EXCEPT !.pc = IF full THEN "notify" ELSE "word"]
       /\ lost' = (lost \/ full)
  /\ UNCHANGED <<age, havePrev, timeout, timer, isr, freqFifo, convNote>>

TimeoutWord ==
  /\ isr = "idle" /\ tcb.pc = "word"
  /\ freqFifo' = [freqFifo EXCEPT !.slot[tcb.head] = tcb.word]
  /\ tcb' = [tcb EXCEPT !.pc = "publish"]
  /\ UNCHANGED <<age, havePrev, timeout, timer, isr, lost, convNote>>

\* Mutant: the converter is not notified of the sentinel.
TimeoutPublishSilent ==
  /\ isr = "idle" /\ tcb.pc = "publish"
  /\ freqFifo' = [freqFifo EXCEPT !.head = After(tcb.head)]
  /\ lost' = FALSE
  /\ tcb' = [tcb EXCEPT !.pc = "reset"]
  /\ UNCHANGED <<age, havePrev, timeout, timer, isr, convNote>>

TimeoutPublish ==
  /\ isr = "idle" /\ tcb.pc = "publish"
  /\ freqFifo' = [freqFifo EXCEPT !.head = After(tcb.head)]
  /\ lost' = FALSE
  /\ tcb' = [tcb EXCEPT !.pc = "notify"]
  /\ UNCHANGED <<age, havePrev, timeout, timer, isr, convNote>>

TimeoutNotify ==
  /\ isr = "idle" /\ tcb.pc = "notify"
  /\ convNote' = TRUE
  /\ tcb' = [tcb EXCEPT !.pc = "reset"]
  /\ UNCHANGED <<age, havePrev, timeout, timer, isr, freqFifo, lost>>

TimeoutReset ==
  /\ isr = "idle" /\ tcb.pc = "reset"
  /\ havePrev' = FALSE
  /\ tcb' = TimerOff
  /\ UNCHANGED <<age, timeout, timer, isr, freqFifo, lost, convNote>>

-----------------------------------------------------------------------------
(* rpm_cap_set_timeout, and time.                                          *)

SetTimeout(t) ==
  /\ timeout' = t
  /\ UNCHANGED <<age, havePrev, timer, isr, tcb, freqFifo, lost, convNote>>

Tick ==
  /\ isr = "idle"
  /\ timer # -MaxLate
  /\ age' = IF age < MaxAge THEN age + 1 ELSE age
  /\ timer' = IF timer = Off THEN Off ELSE timer - 1
  /\ UNCHANGED <<havePrev, timeout, isr, tcb, freqFifo, lost, convNote>>

IsrStep     == EdgeNotify \/ EdgeRearm
Edge        == FastEdge \/ PeriodEdge \/ FirstEdge
TimeoutStep == \/ TimeoutHead \/ TimeoutRoom \/ TimeoutWord \/ TimeoutPublish
               \/ TimeoutNotify \/ TimeoutReset

EdgeNext ==
  \/ Edge \/ IsrStep
  \/ Expire \/ TimeoutStep
  \/ \E t \in Timeout : SetTimeout(t)
  \/ Tick
  \/ TakeSample

EdgeSpec == EdgeInit /\ [][EdgeNext]_edgeVars

-----------------------------------------------------------------------------
(* Properties.                                                             *)

\* Claimed of the ring, that it has a single producer: its head only moves by
\* a push to the slot behind it, so that every word is taken once.
HeadAdvances ==
  [][freqFifo'.head \in {freqFifo.head, After(freqFifo.head)}]_edgeVars

\* A measurement in progress is watched: its timeout is armed, or the
\* callback or the interrupt that ends or renews it is running.
MeasurementWatched == havePrev => timer # Off \/ tcb.pc # "idle" \/ isr # "idle"
=============================================================================
