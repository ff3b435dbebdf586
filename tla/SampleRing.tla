----------------------------- MODULE SampleRing -----------------------------
(***************************************************************************)
(* ring_u32_t / ring_f32_t of components/rpm_cap/rpm_cap.c: a ring buffer  *)
(* with no lock, one free slot to tell full from empty, and head and tail  *)
(* each written by one side only.                                          *)
(*                                                                         *)
(* One action is one access to the ring's memory.  A producer in Isr is an *)
(* interrupt handler on the core of the other producers: while it pushes,  *)
(* they do not run.  The consumer runs on the other core.                  *)
(***************************************************************************)
EXTENDS Naturals, Sequences

CONSTANTS
  Producer,   (* who pushes                                               *)
  Isr,        (* the producers that are interrupt handlers                *)
  Value,      (* what is pushed                                           *)
  Len2        (* FREQ_FIFO_LEN, RPM_FIFO_LEN: slots, a power of two       *)

ASSUME RingAssumption ==
  /\ Isr \subseteq Producer
  /\ Len2 \in Nat \ {0, 1}

Slot == 0..(Len2 - 1)
After(i) == (i + 1) % Len2          (* (i + 1) & mask *)

VARIABLES
  buf, head, tail,
  prod,       (* each producer: where it is, the head it read, its value  *)
  cons,       (* the consumer: where it is, the tail and the slot it read *)
  popped      (* the value handed out by the latest completed pop         *)

ringVars == <<buf, head, tail, prod, cons, popped>>

RingTypeOK ==
  /\ buf \in [Slot -> Value]
  /\ head \in Slot
  /\ tail \in Slot
  /\ prod \in [Producer -> [pc: {"idle", "check", "write", "publish"}, head: Slot, val: Value]]
  /\ cons \in [pc: {"idle", "check", "read", "publish"}, tail: Slot, val: Value]
  /\ popped \in Value

RingInit ==
  /\ \E v \in Value :
       /\ buf = [i \in Slot |-> v]
       /\ prod = [p \in Producer |-> [pc |-> "idle", head |-> 0, val |-> v]]
       /\ cons = [pc |-> "idle", tail |-> 0, val |-> v]
       /\ popped = v
  /\ head = 0
  /\ tail = 0

-----------------------------------------------------------------------------
(* ring_u32_push_from_isr, ring_f32_push.                                  *)

\* A producer runs when no interrupt handler is pushing over it.
Runs(p) == \A q \in Isr \ {p} : prod[q].pc = "idle"

PushReadHead(p, v) ==
  /\ prod[p].pc = "idle" /\ Runs(p)
  /\ prod' = [prod EXCEPT ![p] = [pc |-> "check", head |-> head, val |-> v]]
  /\ UNCHANGED <<buf, head, tail, cons, popped>>

\* Mutant: no check for a full ring.
PushUnchecked(p) ==
  /\ prod[p].pc = "check" /\ Runs(p)
  /\ prod' = [prod EXCEPT ![p].pc = "write"]
  /\ UNCHANGED <<buf, head, tail, cons, popped>>

\* Full: drop.
PushCheck(p) ==
  /\ prod[p].pc = "check" /\ Runs(p)
  /\ prod' = [prod EXCEPT ![p].pc = IF After(prod[p].head) = tail THEN "idle" ELSE "write"]
  /\ UNCHANGED <<buf, head, tail, cons, popped>>

PushWrite(p) ==
  /\ prod[p].pc = "write" /\ Runs(p)
  /\ buf' = [buf EXCEPT ![prod[p].head] = prod[p].val]
  /\ prod' = [prod EXCEPT ![p].pc = "publish"]
  /\ UNCHANGED <<head, tail, cons, popped>>

PushPublish(p) ==
  /\ prod[p].pc = "publish" /\ Runs(p)
  /\ head' = After(prod[p].head)
  /\ prod' = [prod EXCEPT ![p].pc = "idle"]
  /\ UNCHANGED <<buf, tail, cons, popped>>

-----------------------------------------------------------------------------
(* ring_u32_pop, ring_f32_pop.                                             *)

PopReadTail ==
  /\ cons.pc = "idle"
  /\ cons' = [pc |-> "check", tail |-> tail, val |-> cons.val]
  /\ UNCHANGED <<buf, head, tail, prod, popped>>

\* Empty: nothing to pop.
PopCheck ==
  /\ cons.pc = "check"
  /\ cons' = [cons EXCEPT !.pc = IF cons.tail = head THEN "idle" ELSE "read"]
  /\ UNCHANGED <<buf, head, tail, prod, popped>>

\* Mutant: the slot after tail is read.
PopReadNext ==
  /\ cons.pc = "read"
  /\ cons' = [pc |-> "publish", tail |-> cons.tail, val |-> buf[After(cons.tail)]]
  /\ UNCHANGED <<buf, head, tail, prod, popped>>

PopRead ==
  /\ cons.pc = "read"
  /\ cons' = [pc |-> "publish", tail |-> cons.tail, val |-> buf[cons.tail]]
  /\ UNCHANGED <<buf, head, tail, prod, popped>>

PopPublish ==
  /\ cons.pc = "publish"
  /\ tail' = After(cons.tail)
  /\ popped' = cons.val
  /\ cons' = [cons EXCEPT !.pc = "idle"]
  /\ UNCHANGED <<buf, head, prod>>

-----------------------------------------------------------------------------

RingNext ==
  \/ \E p \in Producer, v \in Value : PushReadHead(p, v)
  \/ \E p \in Producer : PushCheck(p) \/ PushWrite(p) \/ PushPublish(p)
  \/ PopReadTail \/ PopCheck \/ PopRead \/ PopPublish

RingSpec == RingInit /\ [][RingNext]_ringVars

-----------------------------------------------------------------------------
(* Properties.                                                             *)

Count == (head + Len2 - tail) % Len2

\* The ring is a bounded FIFO: what is pushed and accepted comes out once, in
\* order, unaltered, whatever the interleaving of the two sides.
Contents == [k \in 1..Count |-> buf[(tail + k - 1) % Len2]]
Abstract == INSTANCE Fifo WITH Capacity <- Len2 - 1, queue <- Contents, popped <- popped
ImplementsFifo == Abstract!FifoSpec

\* The slot the consumer is reading is never the one a producer writes, and
\* the indices stay within the ring.
NoDataRace ==
  /\ RingTypeOK
  /\ \A p \in Producer :
       prod[p].pc = "write" /\ cons.pc = "read" => prod[p].head # cons.tail
=============================================================================
