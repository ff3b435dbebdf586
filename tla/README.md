# ESP32_PWM in TLA+

Specifications, model-checking runs and machine-checked proofs of the fan
test kit firmware in this repository. The code is the reference: every
definition is translated from `src/`, and `PROJECT.json` ("map") gives the
lines each one stands for.

## 1. The system

The firmware drives one fan with a PWM signal, measures its tachometer,
switches user GPIO pins, talks to a bench power supply and takes its orders
from Wi-Fi (a WebSocket dashboard), USB HID, USB CDC and a console.

| component | state it keeps | operations | talks to | what makes it correct |
|---|---|---|---|---|
| `control_task` | the command queue (16), published frequency and duty | post, serve, publish | every front end posts; it alone calls the setters of `pwm_gen`, `gpio_io` and `psu_driver` | the last acceptable request decides |
| `pwm_gen` | the MCPWM handles, frequency, duty, period, resolution | init, set (within a band; across bands by deleting and re-creating the timer), load, save | MCPWM peripheral, NVS | the hardware is set up for what is recorded; no deleted timer is used |
| `gpio_io` | one atomic byte per pin (mode, level, pulsing), the one-shot timers, the power switch | set mode, set level, pulse, set power, poll | control task, esp_timer task, poll task, pads | the published word tells the truth; a pulse ends, restored |
| `rpm_cap` | capture state, signal-lost timer, two rings, history, moving average, parameters | edge interrupt, timeout callback, converter, averager, set parameters (and a drain of the history that nothing calls) | MCPWM capture, telemetry | nothing sleeps on samples; a lost signal is noticed and reaches the average; the average is of the latest samples |
| `ota_core` | mutex, state, progress, ESP-IDF OTA handle | begin, write, end and restart, abort | HTTP `ota_post`, CDC frames | one writer; only a whole image is booted |
| `psu_driver`, three backends | published registers, link, failure count, model, scale, slave, family | detect, poll, set, choose slave and family | UART; control task and PSU task | link, model and values settle on what the supply holds |
| `ip_announcer` | settings, last pushed address and status, push queue | address event, push with retries, enable, test | event loop, HTTPS | every boot announces its address; a push ends |
| `provisioning`, `captive_portal`, `dns_hijack` | event bits, Wi-Fi mode, flag of the portal | start, submit credentials, roll back, end of the portal and of the soft AP | Wi-Fi driver, event loop | no station is left without a next attempt; success leads to the dashboard |
| `ws_handler` | four client slots and their failure counts | connect, message, broadcast, count failures, close | control task, telemetry | a slot is one open session's; vanished peers lose theirs |
| `usb_composite` | SLIP parser, HID reports | bytes, frames, reports | control task, `ota_core` | one bad frame does not spoil the next |
| `net_dashboard` | the factory-reset flag, HTTP server | start, OTA upload, factory reset | all of the above | a reset only when asked for in full |
| `ui_settings`, `mdns_svc`, USB descriptors | steps in NVS; none | load, save | dashboard | - |
| `app_main` | none | start-up order, console | all | - |

What is hard here: an atomic byte shared by three tasks; a peripheral that
must be torn down and built again with every step able to fail; an interrupt,
a timer callback and two tasks chained by lock-free rings and notifications; a
mutex taken and given across calls, callers and failures; a link state, a
client table and published registers that two tasks write without a lock;
Wi-Fi events that outlive the attempt they belong to; byte streams cut off
anywhere; restarts at any point. `PROJECT.json` ("hazards") lists each at its
line with the properties that cover it, or why none does.

## 2. The modules

| module | code | composed of |
|---|---|---|
| `GpioIo` | `gpio_io.c` | |
| `PwmGen`, `ControlTask`, `CommandServer` | `pwm_gen.c`; `control_task.c` and the boot posts of `app_main.c` | `ControlTask` extends `PwmGen` and implements `CommandServer` |
| `Fifo`, `SampleRing` | the rings of `rpm_cap.c` | `SampleRing` implements `Fifo` |
| `RpmEdge`, `RpmAverager`, `RpmRing`, `RpmCap` | the rest of `rpm_cap.c` | `RpmRing` is `RpmAverager` over a `SampleRing`; `RpmCap` extends `RpmEdge` and `RpmAverager` |
| `OtaCore`, `ImageUpdate` | `ota_core.c`, `ota_post`, the CDC frames of an image | `OtaCore` implements `ImageUpdate` |
| `PsuDriver` | `psu_driver.c`, `psu_modbus_rtu.c`, `psu_riden.c`, `psu_xy_sk120.c`, `psu_wz5005.c` | |
| `IpAnnouncer`, `Provisioning` | `ip_announcer*.c`; `provisioning.c`, `captive_portal.c`, `dns_hijack.c` | `Provisioning` extends `IpAnnouncer` and raises its events |
| `WsClients`, `UsbCdc`, `FrontEnds` | `ws_handler.c`; `usb_cdc_task.c`; `usb_hid_task.c`, the console of `app_main.c`, factory reset of `net_dashboard.c` | `FrontEnds` extends both |

**GpioIo.** One action is one access to shared state. `word` is `s_state`,
`pad` the direction and latch of the hardware, `timer` the one-shot timers;
`ctl`, `cb` and `poll` are the positions of the control task, of
`pulse_done_cb` on the esp_timer task and of the poll task. A call that is
refused changes nothing and is a stuttering step. Each `gpio_config` and timer
start may fail.

**PwmGen.** One action is one call of the MCPWM driver; with `Faults` any of
them may fail, and `pwm_gen_set` returns at once. `hw` keeps the shadow and
active registers apart because the code's software sync exists for exactly
that difference. The numbers are those of the code: two bands, truncating
division, 16-bit periods, rounded compare value. `call.failed` is a history
bit: has any driver call failed since the start.

**ControlTask.** The queue, the task that serves it, the two published
atomics, the saved frequency, what `app_main` posts at boot, and a restart
that keeps only the flash. Commands for other components are one kind,
`other`: their handlers are actions of `GpioIo`, `PsuDriver` and
`Provisioning`. `wanted` is history: the last acceptable request queued.

**CommandServer.** The promise to the front ends, with nothing of the driver in
it: commands wait, the oldest is decided, a setpoint that is accepted becomes
the output and is shown field by field before the next command is looked at,
and a save keeps the output. The refinement mapping in `ControlTask` counts a
command as waiting until it is decided, so the queue's capacity is one more
than `QueueLen`: `Waiting` is the command in hand before the queue. A setpoint
is decided when `s_pwm` records it (`pwm_gen.c:309-312`) or when `pwm_gen_set`
fails; `Unshown` says which of the two stores of `publish_pwm` are still due.

**SampleRing, Fifo.** `Fifo` is the promise, a bounded queue; `SampleRing` is
the ring, one access a step: read head, check, write the slot, publish. The
refinement mapping is `Contents`, the span between the indices.

**RpmEdge, RpmAverager, RpmRing, RpmCap.** `RpmEdge` is the capture interrupt, the
signal-lost timer and its callback, over discrete time and a counter that
wraps. Its ring, `s_freq_fifo`, has two producers. The interrupt's push is one
step, since nothing on its core comes in between; the callback's is access by
access (`TimeoutHead`, `TimeoutRoom`, `TimeoutWord`, `TimeoutPublish`), with
the interrupt before any of them. A slot that was never written holds 0, and
the speed of that word is `Infinite`; once it has been averaged the sum is no
number any more (`finite`). `RpmAverager` is the history ring and the
constant-time moving average; `RpmRing` has it take its samples from the ring
access by access. `RpmCap` adds the two tasks and their
notifications; `s_rpm_fifo`, with one producer, is the queue that `SampleRing`
implements. `lost` is history: a full ring dropped the last sentinel or the
speed of it.

**OtaCore.** The HTTP upload and the CDC receiver, one access or one ESP-IDF
OTA call a step. The OTA functions and the FreeRTOS mutex are external: a
write appends to the partition, an end verifies it, a mutex given by a task
that does not hold it asserts and restarts the chip. `env` is the
environment of a behaviour: whether the CDC host keeps to the protocol and
which functions may fail.

**ImageUpdate.** What the header promises of an update, as one transaction:
opened, extended chunk by chunk by its owner, then discarded or committed; only
a restart follows a commit. The mapping takes the mutex for the owner and the
partition for the image, from the return of `esp_ota_begin` on.

**PsuDriver.** The polling task and the control task. The UART mutex makes a
transaction one step; reading the family, slave and scale before it, and
storing link, model, scale and registers after it, are steps of their own in
the order of each backend. A transaction may be lost before or after it took
effect; a WZ5005 may also answer with a refusal, which the code counts as a
success (`psu_wz5005.c:89-98`): nothing takes effect, and the bytes of the
refusal (`Refusals`) are taken for registers. `dev` is what the supply at each
address holds. Volts are registers
as they are; a current register holds amperes times the scale of its model.

**IpAnnouncer.** The handler of the got-an-address event, the push queue, the
push task with its retries and its report, settings, test push, NVS. `s_lock`
makes an access to settings or telemetry one step. `accepted` is history: the
last address the server took.

**Provisioning.** The event loop, the event bits, both ways of the start, the
portal's `on_credentials` with its 20 s wait and roll-back call by call, the
linger and the grace of the soft AP, and a restart that keeps the driver's
credentials. The announcer's handler runs before provisioning's own, as they
are registered. The Wi-Fi driver and the radio are external: an attempt
succeeds or fails as the credentials deserve, a link may be lost, and a call
in the wrong state is refused.

**WsClients.** The table under its two tasks, one access to an entry a step:
adding, the count of failures (8 bits, loaded and stored apart), the request
to close and the close function that clears before it closes. A status frame
is a sum of lengths: `snprintf` into what is left, as the code chains it.

**UsbCdc.** The SLIP parser byte by byte, with an abstract alphabet: reserved
bytes, ops, magic, zero, large, anything else; and `handle_frame` as the order
that a frame gives. The host is a position in the frame it writes (`line`):
`Byte` is what comes next on the line there, an escape being two bytes. It may
be stopped anywhere in a frame. Its frames are as long as their op's payload
(`WellFormed`); the parser is not told so.

**FrontEnds.** WebSocket, CDC, HID and console posting to one queue with their
different waits, and the factory reset with its four triggers. `asked` is
history: what hosts asked for in full.

## 3. The runs

| run | bounds | what it shows |
|---|---|---|
| `gpio` | two pins, one of each boot group, one input mode | no pin stays pulsing, words and pads agree, a pulse ends restored, the poll task never overwrites a mode; `IInv` is what is proved for every set of pins |
| `control` | 9 (refused), 152 (low band), 153 (first of the high band) and 10000 Hz; queue of 2; faults; restarts | the record and the published pair are the last accepted request; with failures the handle and the registers stay right; only bootable frequencies are saved; the fan is off until asked; refinement of `CommandServer`, failures and restarts included |
| `ring` | one producer, rings of four slots, two speeds; windows 1, 2, 4 and 6 | refinement of `Fifo`; no slot is read and written at once; the averager behind it sums the latest samples |
| `averager_shrink` | rings of four, three speeds, the same windows, which may be lowered | violation (section 6) |
| `edge_single` | 2-bit counter, shortest edge 1, timeout 1, a callback held up anywhere, a ring of three slots | violation (section 6) |
| `cap` | the same, rings of two slots, a history of one | no lost wake-up with full rings; no measurement is left unwatched; the sentinel of a lost signal is the last sample averaged; when the edges stop, everything drains |
| `ota` | two uploads of three chunks; a polite CDC host with every failure, and one that sends any frame at any time with failing writes, ends and reboots | single writer, true progress, whole images only; "writing" never without the mutex; beside a polite host, refinement of `ImageUpdate`; an HTTP upload ends |
| `psu` | each of the three families, one supply at address 1 whose scale is not the default, nobody at 2, threshold 2, two interventions, one kind of refusal | once the bus is sound, link, model and published values settle on the supply's, for good; currents go out with the scale of the model |
| `psu_switch` | Riden, two supplies of different scales | violation (section 6) |
| `net` | two addresses, one waiting job, two tries; three plans (below) | truthful status, no address passed over without cause, no station left alone, a push ends, success leaves the portal |
| `front` | six plans (below); three sockets, two slots, threshold 2, counter up to 3, parser buffer of 7, queue of 2 | slots sound and freed, frames whole, only what was asked for reaches the queue or the reset |
| `status_frame` | the same, with the texts of a board as it boots | violation (section 6) |

Why these bounds are enough. In each run there are two of whatever competes
(pins, writers, tasks at a queue, sockets for more slots than there are) and
the limits are reached (in `cap`, one slot of history is what `LossIsAveraged`
looks at; sums of more are the question of `ring`): full queues and rings, indices and counters that wrap,
a threshold below the counter's end, frames as long as the buffer and longer.
`Len2`, `FreqCap`, `SpeedCap`, `HistoryLen`, `Width`, `QueueLen`, `Depth`,
`Retries`, `Threshold`, `FailThreshold`, `CountMax`, `BufLen` and `MaxClients`
are the code's lengths made small. Pure bounds on behaviours are `MaxAge` (caps
the clock of `RpmEdge` at or above every timeout plus its lateness), `Chunks`,
`MaxCalls` (commands, choices of family and restarts of `PsuDriver`) and the
`Plans`. The plans of `net` are: two submissions, one lost link and a restart
without announcements; one setting, two lost links and a restart with
announcements on and two addresses; one submission and one lost link on a
board that announces itself while it is provisioned. The plans of `front` are:
two clients of which one vanishes; a client that returns on the same socket
twice; three clients for two slots; two CDC frames and a command of another
front end; one frame and two commands; a client beside two commands.

`ota`, `net` and `front` turn deadlock checking off: an upload that is refused
while a begin that failed keeps the mutex (hazard at `ota_core.c:60`) waits for
a restart by hand; a board that was told nothing more, whose plan is used up,
is at rest.

The type invariants are not listed one by one: where a module has no run of
its own, or its invariant is not a property by itself, it is the first
conjunct of another property (`LastAcceptedWins`, `NoDataRace`,
`AverageOfRecent`, `NoLostWakeup`, `CurrentScaled`, `WritingLocked`,
`CommandsWhole`).

Conditions named in the properties: `AverageOfRecent` holds while the window is
not lowered; `LossIsAveraged` unless a full ring dropped the sentinel or its
speed (`lost`), or a word that was never written has left the sum without a
value (`finite`); that the sentinel was averaged does not make the published
speed 0 (section 5); `SkipJustified` speaks of the address that is passed
over, not of another one whose push is under way (section 5); `UploadEnds` when
`esp_ota_begin` does not fail; `SingleWriter`, `ProgressCounts`,
`BootIntact` and `UpdatesAreAtomic` for a host that keeps to the protocol; `HardwareFollows` and
`LastAcceptedWins` while no driver call has failed (`ServesInOrder` needs no such condition); `DriverConverges` once the
supply answers and nobody intervenes.

### Fairness

* `gpio`: the control task, inside a call, is never blocked (weak fairness of
  `CtlStep`); the esp_timer task runs callbacks to their end (weak fairness of
  `CbStep`) and takes expired timers in the order of their deadlines, so the
  timer of one pin is not passed over for ever (strong fairness of
  `PulseExpire` for each pin).
* `cap`: interrupts and the timer service run when due, time passes, and the
  two tasks, which the code pins to core 1 (`rpm_cap.c:362-363`), are
  scheduled. Nothing is assumed of the edges: `StoppedDrains` is about
  behaviours in which they stop.
* `ota`: both tasks are scheduled inside a call, a restart that was asked for
  happens, and the HTTP server goes on with the body or sees the connection
  end. Nothing is assumed of the CDC host.
* `psu`: the polling task takes its turn and each task, inside a call, goes on;
  the UART has a timeout, so a transaction ends. Nothing is assumed of the bus:
  `DriverConverges` is about behaviours in which it becomes sound.
* `net`: the event loop, the portal's handler, the main task, the grace task
  and the push task are scheduled; every wait of theirs that the property
  needs has a timeout in the code. Nothing is assumed of the radio, the user
  or the server.
* `front`: the web task and the telemetry task are scheduled; telemetry sends
  20 times a second. Nothing is assumed of peers and hosts.

## 4. What is proved

All proofs are for every value of the constants that the named assumption of
the module allows, and for runs of any length. Eight modules hold them. Every
safety property of the passing runs, invariant, action property or refinement,
is stated by a theorem.

`GpioIo_proofs` (from `ConstAssumption`): type correctness and the safety
properties of `GpioIo`. `PulseHasEnd` and `SettledPadMatches` are not
inductive: a callback that fires while the control task is in a call on the
same pin would break both. `IInv` adds who owns a pin: an armed timer
(`ArmedOwns`), the callback (`CbOwns`) and the control task in a set
(`SettingOwns`) or in a pulse (`PulsingOwns`) exclude each other on a pin, and
each says what the pad does relative to the word; `PollSawInput` keeps the
poll task's sample off outputs, which is why its compare-and-swap can only ever
hit an input. The two action properties follow from `IInv` in one step each.

`ControlTask_proofs` (from `PwmAssumption` and `ControlAssumption`): the seven
properties of `control`, for any frequencies and duties, any length of the
queue, any failures and restarts. The parts of `IInv`:
* `TimerInv`: handle and timer object live and die together, at every step of
  the teardown.
* `BandInv`: while the timer runs, its active registers are those of one
  frequency and have the resolution that `s_pwm` records; while they are mixed,
  between `NewTimer` and `SoftSync` or after a failure, the timer stands still.
  `NoMixedBand` alone speaks of the period shown and says nothing of the
  registers that the next period will be made of.
* `FollowInv`: which register has which value at each step of a call that has
  not failed.
* `CtlTyped`: types, the range of the saved frequency, and that a call is in
  progress exactly while the task is in its handler. With the arithmetic of
  `RangeAccepted` (every frequency in 10..1000000 has a period of 2 to 65535
  ticks at the resolution of its band) it gives `SavedIsBootable`.
* `ZeroInv`: until another duty is queued, every acceptable command in the
  queue has duty 0, and so have the call and the comparator.
* `WishInv`: the last acceptable request is the last acceptable command in the
  queue or, when there is none, is being served: `Served` says what is recorded
  and published at each position of the task.

`TaskServesInOrder` maps each step to a step of `CommandServer` or a stutter
(`ServerStep`). Under the refinement mapping a post appends (`PostWaits`),
taking a command from the queue changes nothing (`HandFirst`), and of the many
steps of `pwm_gen_set` one decides the command (`CallStep`). `PublishInv`, that what
is about to be published is what `s_pwm` records, is what makes the two stores
show the output and not merely what was asked for.

`SampleRing_proofs` (from the ring's assumption): with one producer the ring
implements `Fifo`, and no slot is read while it is written. `RingInv` relates
the indices a side has read to the shared ones: what the producer saw of the
tail can only be too old, which makes it see the ring fuller than it is. The
lemmas on index arithmetic (`AtIs`, `AfterIs`, `SpanIs`) do the wrapping.

`RpmCap_proofs` (from `EdgeAssumption` and those of the extended modules):
`NoLostWakeup` and `MeasurementWatched` for any widths, timeouts, windows and
lengths, with both producers in the ring.

Of the moving average (from `AveragerAssumption`) `AverageOfRecent`, for rings
of any length and windows that may grow at any time; and the same inside the
pipeline (`PipelineAverages`) while the sum has a value (`finite`).
The code never sums a window; it adds the newest sample and subtracts the one
that leaves. `AvgInv` therefore says that the average's own ring repeats the
history's and that the running sum is the last of the partial sums of the
latest samples (`Sums`). A sum over a moving range has no closed form, so the
partial sums are a witness that each step shifts by one; that the recursive
function of the property has the same values (`SumsAre`) is an argument by
least counterexample, since the induction theorems cannot be instantiated.

`LossIsAveraged`, for any windows, counters and lengths, rests on two facts.
`Undisturbed`: while no timer is armed and no interrupt is at work, the head
that the callback has read is still the ring's, since an edge that came in
between arms the timer. `LostInv`: from the callback's push on, and until the
next edge arms the timer, the newest thing in the pipeline, wherever it is
between the ring and the history, is a sentinel or its 0 (`NewestIsZero`),
unless something was dropped.

`OtaCore_proofs` (from `OtaAssumption`): type correctness and `WritingLocked`,
for images of any length, any CDC host and any failures. `LockInv` adds what
lies between giving the mutex and changing the state: a task that is opening a
session holds the mutex while nobody writes (`OpeningLocked`), and a task about
to give a mutex it holds has already withdrawn the state (`ClosingSilent`).
The second is where the order of the statements in the failure paths
(`ota_core.c:59-61`, `73-74`, `80-81`, `98-99`) matters; the path with the
other order, a failed begin (45), has not announced the state yet. `PoliteInv`
adds, for a host that keeps to the protocol, that a session belongs to the
holder of the mutex from begin to give (`SessionOwned`, `SentOnlyInSession`),
how the progress relates to the partition at each place a task can be in
(`Counted`), and that the owner of a switched boot partition only restarts
(`BootKept`); `SingleWriter`, `ProgressCounts` and `BootIntact` follow.
`AtomicInv` adds that the partition holds the owner's image as far as it was
sent (`OwnImage`) and that a task restarts only after it has switched the boot
partition (`RestartsSwitched`). With it `OtaImplementsUpdate` shows each step to
be one of `ImageUpdate` or unseen (`UpdateStep`): a write that fails extends
nothing, and the partition written before a failure is given up with the mutex.

`PsuDriver_proofs` (from `PsuAssumption`): `CurrentScaled`, with the types, for
any families, models, scales and addresses. `CurrentScaled` compares the scale
of a current being sent with the model its caller saw; it is not inductive,
since nothing in it says where the scale comes from. `Detection` says that a
model is only ever detected while none is known, and that the scale is stored
before the model is (`psu_riden.c`); `SeenHeld` that what a caller saw of the
model stays true until its set is done; `Planned` which reads and writes each
task can be about to make, so that only the polling task detects.

`Provisioning_proofs` (from `AnnouncerAssumption` and `ProvAssumption`): type
correctness, `StatusTruthful`, `SkipJustified` and `ConnectPending`. `IInv`
adds which task can be where at once (`PlacesTyped`), which events and which
state of the station belong together while an attempt is made, failed or taken
back (`PendingInv`), and how the push task's consent, the telemetry and the
accepted address relate while a report is on its way (`AnnInv`).

`FrontEnds_proofs` (from `WsAssumption`, `CdcAssumption` and
`FrontAssumption`): every safety property of `front`, for any number of sockets
and slots, any frames and buffer, and any length of the queue. `SlotsSound`
needs `TableInv`, which adds what the web task is doing: a session being added
has no slot yet (`AddingNew`), and in a session being removed the entries
already passed are not its own (`RemovingOwn`), so that none is left when the
socket is closed. `FramesWhole` needs `CdcInv`: what the parser holds is a
beginning of the frame its bytes come from, and once the first END of a frame
is through, that frame is the one on the line and the parser is in step with
it, in the middle of an escape too (`Follows`). `CommandsWhole` rests on the
lemma `PrefixSilent`: a frame whose last byte is missing gives no order. That
is where the lengths matter. An op of fixed size is refused for the missing
byte, and the texts of ANNOUNCER_SET for the missing zero (`TornTexts`). It is
why `CdcAssumption` has frames that are exactly as long as their op needs: from
a frame that is longer, `handle_frame` takes an order before its last byte.
`AskInv` then follows an order from the parser to the queue or the reset.

Only model-checked is liveness (`PulseTerminates`, `StoppedDrains`,
`UploadEnds`, `DriverConverges`, `JobsConclude`, `OkLeavesPortal`,
`GoneFreesSlot`): it needs fairness and ENABLED, which are beyond the prover.

## 5. What is not modelled

`PROJECT.json` ("components") has one entry for each part.

* `ui_settings`: two preferences, each stored whole; `mdns_svc`: one
  registration; USB descriptors: tables.
* Pages, redirects, the Wi-Fi scan, the answers to DNS queries, formatting,
  logging, acknowledgements. What the board sends on CDC and HID.
* Loading and saving the parameters of `rpm_cap`; the width of a pulse and its
  clamp; marking the running image valid.
* Bytes of Modbus and WZ5005 frames, measured voltage and current.
* The start-up of `app_main` other than what it posts and the network: one
  call after another. The main task is taken to reach its wait before a
  station can have an address.

Behaviour of the code that no property claims away, as a reader of the models
will meet it:

* After a failed disable or delete the output does not "keep running on the
  old timer" (`pwm_gen.c:197-198`): it was stopped at 199.
* Within a band the period register is written before the compare value
  (`pwm_gen.c:292`), so one period can pair the new length with the old compare
  value. A duty that is not a number passes the range check (279); `Compare`
  leaves its result open.
* `SampleRing` and its theorems are about one producer; what two do to
  `s_freq_fifo` is in `RpmEdge` (`edge_single`). Edges faster than the minimum
  return before the timer is renewed (164), so a fast signal times out.
* The sentinel's mark, the top bit, is said to be unambiguous (`rpm_cap.c:190`).
  Nothing limits the timeout but its floor of 1 ms (277, 311): with one of more
  than 13.4 s, half a wrap of the counter, the period of a slow signal has that
  bit too and is taken for a lost signal.
* The timeout is described as "edge→0 RPM" (`app_main.c:457`,
  `Kconfig.projbuild:20`). One sentinel enters the window and nothing follows it:
  with a window of 16, the one used unless configured (`rpm_cap.c:324`), a fan
  that has stopped stays at about 15/16 of its speed. `LossIsAveraged` is what
  is left of the promise.
* The last address is saved "so dedupe survives reboot" (`ip_announcer.c:268`;
  the plan of 2026-04-26 expects the same at 1024-1027), but the status is NEVER
  after every boot (111) and the check wants it to be OK (79-80), so the saved
  address is announced again. The comment at 106-110 and `README.md:274` want it
  so; the code follows those, and so does `SkipJustified`.
* The check for duplicates sees neither the queue nor a push in retry. A board
  that goes from A to B and back to A before B got through passes A over and is
  announced at B last.
* When a band is left, `MCPWM_TIMER_STOP_EMPTY` lets the running period finish;
  `StopTimer` stops at once.
* A torn pair of frequency and duty can be read between the two stores of
  `publish_pwm` (`control_task.c:30`).
* The header's "single writer, enforced by an internal mutex"
  (`ota_core.h:20-23`) holds beside a CDC host that sends BEGIN first: write and
  end look at the state, not at the mutex. A CDC host that goes away in an
  image leaves the mutex taken.
* The Modbus backends do not clamp a current (`Power_Supply_Module.md:113`).
* Provisioning blocks the start of what comes after it, although
  `app_main.c:719` speaks of "Wi-Fi up *or* USB reachable". When blanking bad
  credentials is refused (`provisioning.c:91`) they stay, and the next boot
  waits for an address without end (173).
* The console's pin number wraps from 256 to 0 (`app_main.c:192`). The OTA status
  frame on CDC is sent without SLIP escapes (`usb_cdc_task.c:87`), so that a
  progress with the byte of END in it is cut by the host's parser. Topic, server
  and error text of the announcer go into the JSON of the status frame as they
  are (`ws_handler.c:371-382`). A WebSocket command is
  acknowledged although the queue dropped it (`ws_handler.c:99-100`). A fifth
  client is connected and gets no frame.
* A torn OTA_CHUNK is written as data: CDC frames have no checksum.
* A restart within the 200 ms of a factory reset loses it, and a task that
  could not be created leaves `s_triggered` set.
* The portal may answer failure although the main task has seen the address:
  the address may come just after the wait of 20 s has run out
  (`provisioning.c:75`).
* A socket that telemetry read from the table before it was cleared can still
  be sent to afterwards; `SlotsSound` is about the table. A send to a peer that
  vanished is modelled as failing, where TCP would first fill its buffers.
* Web and telemetry task update one failure count by loads and stores; a
  socket that is used again can inherit a count.

## 6. Findings

* `averager_shrink`: lowering the moving average count leaves `mavg_sum` and
  `mavg_filled` apart; the published speed is off from then on.
* `edge_single`: the ring is said to have a single producer (`rpm_cap.c:41`);
  two edges inside the callback's push set the head back.
* `psu_switch`: a slave address changed without a restart keeps the scale of
  the supply that was there before; a current is off by the ratio of the
  scales.
* `status_frame`: after boot the pieces of a status frame add up to more than
  its 768 bytes; it is cut in the announcer's block and is not JSON any more.
