----------------------------- MODULE CommandServer -----------------------------
(***************************************************************************)
(* What main/control_task.c promises the front ends: their commands are    *)
(* decided one at a time, in the order in which they were queued, each     *)
(* once.  A setpoint becomes the output unless it is out of range or the   *)
(* PWM driver has failed, and it is shown to telemetry before the next     *)
(* command is looked at; what is saved is the output as it is then.        *)
(***************************************************************************)
EXTENDS Naturals, Sequences

CONSTANTS
  Command,   (* what front ends send: records of kind, freq and duty       *)
  Accepted,  (* the setpoints among them that are in range                 *)
  Capacity,  (* how many commands may wait, the one in hand included       *)
  Initial,   (* the output after a restart                                 *)
  Blank      (* what telemetry shows until the first setpoint              *)

VARIABLES
  waiting,   (* the commands not yet decided, oldest first                 *)
  output,    (* the frequency and duty put out                             *)
  shown,     (* those that telemetry reads                                 *)
  due,       (* the fields of output that are yet to be shown              *)
  saved,     (* the frequency kept over a restart                          *)
  failed     (* whether the PWM driver has failed since the restart        *)

serverVars == <<waiting, output, shown, due, saved, failed>>

Fresh ==
  /\ waiting = << >> /\ output = Initial
  /\ shown = Blank /\ due = {} /\ failed = FALSE

ServerInit == Fresh /\ saved = 0

Submit(c) ==
  /\ Len(waiting) < Capacity
  /\ waiting' = Append(waiting, c)
  /\ UNCHANGED <<output, shown, due, saved, failed>>

\* The oldest command, of that kind, is decided.
Decide(kind) ==
  /\ waiting # << >> /\ Head(waiting).kind = kind /\ due = {}
  /\ waiting' = Tail(waiting)

Apply ==
  /\ Decide("set_pwm") /\ Head(waiting) \in Accepted
  /\ output' = [freq |-> Head(waiting).freq, duty |-> Head(waiting).duty]
  /\ due' = {"freq", "duty"}
  /\ UNCHANGED <<shown, saved, failed>>

\* A setpoint out of range is refused; any is when the driver fails or has
\* failed before.
Refuse ==
  /\ Decide("set_pwm") /\ (Head(waiting) \notin Accepted \/ failed')
  /\ failed' \in {failed, TRUE}
  /\ UNCHANGED <<output, shown, due, saved>>

Save ==
  /\ Decide("save_pwm_freq")
  /\ saved' \in {saved, output.freq}
  /\ UNCHANGED <<output, shown, due, failed>>

Pass ==
  /\ Decide("other")
  /\ UNCHANGED <<output, shown, due, saved, failed>>

Show(field) ==
  /\ field \in due
  /\ shown' = [shown EXCEPT ![field] = output[field]]
  /\ due' = due \ {field}
  /\ UNCHANGED <<waiting, output, saved, failed>>

Restart == Fresh' /\ UNCHANGED saved

ServerNext ==
  \/ \E c \in Command : Submit(c)
  \/ Apply \/ Refuse \/ Save \/ Pass
  \/ \E field \in {"freq", "duty"} : Show(field)
  \/ Restart

ServerSpec == ServerInit /\ [][ServerNext]_serverVars
=============================================================================
