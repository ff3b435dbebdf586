------------------------------- MODULE RpmRing -------------------------------
(***************************************************************************)
(* components/rpm_cap/rpm_cap.c, the end of the pipeline access by access: *)
(* averager_task pops a speed from s_rpm_fifo, which is a SampleRing with  *)
(* one producer, and averages it before it pops the next.                  *)
(***************************************************************************)
EXTENDS SampleRing, RpmAverager

ASSUME SpeedsAssumption == Value \subseteq Nat

RpmRingInit == RingInit /\ AvgInit

Push == \/ \E p \in Producer, v \in Value : PushReadHead(p, v)
        \/ \E p \in Producer : PushCheck(p) \/ PushWrite(p) \/ PushPublish(p)

\* What the pop returns is averaged; nobody else touches the average, so that
\* it makes no difference to do both at once.
PopAndAverage == PopPublish /\ Average(cons.val)

RpmRingNext ==
  \/ (Push \/ PopReadTail \/ PopCheck \/ PopRead) /\ UNCHANGED avgVars
  \/ PopAndAverage
  \/ (\E w \in Window : SetWindow(w)) /\ UNCHANGED ringVars

RpmRingSpec == RpmRingInit /\ [][RpmRingNext]_<<ringVars, avgVars>>
=============================================================================
