-------------------------------- MODULE Fifo --------------------------------
(***************************************************************************)
(* What the sample rings of components/rpm_cap/rpm_cap.c promise: a        *)
(* bounded first-in first-out queue that refuses a value when it is full.  *)
(***************************************************************************)
EXTENDS Naturals, Sequences

CONSTANTS
  Value,      (* what the queue holds                                     *)
  Capacity    (* how much of it: FREQ_FIFO_LEN - 1, RPM_FIFO_LEN - 1      *)

VARIABLES
  queue,      (* the values pushed and not yet popped, oldest first       *)
  popped      (* the value returned by the latest pop                     *)

fifoVars == <<queue, popped>>

FifoInit == queue = <<>> /\ popped \in Value

\* A push that is accepted; one that finds the queue full changes nothing.
Enqueue(v) ==
  /\ Len(queue) < Capacity
  /\ queue' = Append(queue, v)
  /\ UNCHANGED popped

Dequeue ==
  /\ queue # <<>>
  /\ popped' = Head(queue)
  /\ queue' = Tail(queue)

FifoNext == (\E v \in Value : Enqueue(v)) \/ Dequeue
FifoSpec == FifoInit /\ [][FifoNext]_fifoVars
=============================================================================
