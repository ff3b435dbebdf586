------------------------- MODULE SampleRing_proofs -------------------------
(***************************************************************************)
(* A ring of components/rpm_cap/rpm_cap.c with one producer and one        *)
(* consumer, of any length and for any values, is the bounded queue Fifo.  *)
(***************************************************************************)
EXTENDS SampleRing, TLAPS

-----------------------------------------------------------------------------
(* The arithmetic of the indices.                                          *)

LEMMA ModIs ==
  ASSUME NEW n \in Nat \ {0}, NEW a \in Nat, a < n + n
  PROVE  a % n = IF a < n THEN a ELSE a - n
<1>1. CASE a < n
  BY <1>1
<1>2. CASE ~(a < n)
  BY <1>2
<1> QED
  BY <1>1, <1>2

\* The slot k places behind slot i.
At(i, k) == IF i + k < Len2 THEN i + k ELSE i + k - Len2

LEMMA AtIs ==
  ASSUME NEW i \in Slot, NEW k \in Slot
  PROVE  (i + k) % Len2 = At(i, k) /\ At(i, k) \in Slot
<1>1. i \in Nat /\ k \in Nat /\ i < Len2 /\ k < Len2 /\ Len2 \in Nat \ {0}
  BY RingAssumption DEF Slot
<1> DEFINE a == i + k
<1>2. a \in Nat /\ a < Len2 + Len2
  BY <1>1
<1> HIDE DEF a
<1>3. a % Len2 = IF a < Len2 THEN a ELSE a - Len2
  BY <1>1, <1>2, ModIs
<1> USE DEF a
<1>4. (i + k) % Len2 = At(i, k)
  BY <1>1, <1>3 DEF At
<1> QED
  BY <1>1, <1>4 DEF At, Slot

LEMMA AfterIs ==
  ASSUME NEW i \in Slot
  PROVE  After(i) = At(i, 1) /\ After(i) \in Slot
  BY RingAssumption, AtIs DEF Slot, After

\* Moving on leaves a slot, and never brings two slots together.
LEMMA AfterMoves ==
  ASSUME NEW i \in Slot, NEW j \in Slot
  PROVE  After(i) # i /\ (After(i) = After(j) => i = j)
<1>1. i \in Nat /\ j \in Nat /\ i < Len2 /\ j < Len2 /\ Len2 \in Nat \ {0, 1}
  BY RingAssumption DEF Slot
<1>2. After(i) = At(i, 1) /\ After(j) = At(j, 1)
  BY AfterIs
<1> QED
  BY <1>1, <1>2 DEF At

\* How many slots lie from slot t up to slot h.
Span(h, t) == IF t <= h THEN h - t ELSE h + Len2 - t

LEMMA SpanIs ==
  ASSUME NEW h \in Slot, NEW t \in Slot
  PROVE  (h + Len2 - t) % Len2 = Span(h, t) /\ Span(h, t) \in Slot
<1>1. h \in Nat /\ t \in Nat /\ h < Len2 /\ t < Len2 /\ Len2 \in Nat \ {0}
  BY RingAssumption DEF Slot
<1> DEFINE a == h + Len2 - t
<1>2. a \in Nat /\ a < Len2 + Len2
  BY <1>1
<1> HIDE DEF a
<1>3. a % Len2 = IF a < Len2 THEN a ELSE a - Len2
  BY <1>1, <1>2, ModIs
<1> USE DEF a
<1>4. (h + Len2 - t) % Len2 = Span(h, t)
  BY <1>1, <1>3 DEF Span
<1> QED
  BY <1>1, <1>4 DEF Span, Slot

\* The contents, with the wrap of the indices written out.
Held(b, h, t) == [k \in 1..Span(h, t) |-> b[At(t, k - 1)]]

LEMMA HeldIs ==
  ASSUME NEW b, NEW h \in Slot, NEW t \in Slot
  PROVE  [k \in 1..((h + Len2 - t) % Len2) |-> b[(t + k - 1) % Len2]] = Held(b, h, t)
<1>1. \A k \in 1..Span(h, t) : (t + k - 1) % Len2 = At(t, k - 1)
  <2> TAKE k \in 1..Span(h, t)
  <2>1. k - 1 \in Slot /\ t + k - 1 = t + (k - 1)
    BY SpanIs, RingAssumption DEF Slot
  <2> QED
    BY <2>1, AtIs
<1> QED
  BY <1>1, SpanIs DEF Held

\* They lie in slots of their own, none of them the one at the head.
LEMMA HeldApart ==
  ASSUME NEW h \in Slot, NEW t \in Slot, NEW k \in 1..Span(h, t)
  PROVE  At(t, k - 1) \in Slot /\ At(t, k - 1) # h
  BY RingAssumption DEF Span, At, Slot

\* Writing at the head does not show, moving the head appends what is there,
\* moving the tail takes the first away.
LEMMA HeldWrite ==
  ASSUME NEW b \in [Slot -> Value], NEW c \in [Slot -> Value],
         NEW h \in Slot, NEW t \in Slot,
         \A i \in Slot \ {h} : c[i] = b[i]
  PROVE  Held(c, h, t) = Held(b, h, t)
  BY HeldApart DEF Held

LEMMA HeldAppend ==
  ASSUME NEW b \in [Slot -> Value], NEW h \in Slot, NEW t \in Slot, After(h) # t
  PROVE  /\ Held(b, After(h), t) = Append(Held(b, h, t), b[h])
         /\ Len(Held(b, h, t)) < Len2 - 1
<1>1. h \in Nat /\ t \in Nat /\ h < Len2 /\ t < Len2 /\ Len2 \in Nat \ {0, 1}
  BY RingAssumption DEF Slot
<1>2. After(h) = At(h, 1)
  BY AfterIs
<1>3. Span(h, t) \in Nat /\ Span(After(h), t) = Span(h, t) + 1 /\ Span(h, t) < Len2 - 1
  BY <1>1, <1>2 DEF Span, At
<1>4. At(t, Span(h, t)) = h
  BY <1>1 DEF Span, At
<1>5. \A k \in 1..Span(h, t) : b[At(t, k - 1)] \in Value
  BY HeldApart
<1>6. Held(b, h, t) \in Seq(Value) /\ Len(Held(b, h, t)) = Span(h, t)
  BY <1>3, <1>5 DEF Held
<1> QED
  BY <1>3, <1>4, <1>6 DEF Held

LEMMA HeldTail ==
  ASSUME NEW b \in [Slot -> Value], NEW h \in Slot, NEW t \in Slot, h # t
  PROVE  /\ Held(b, h, t) # << >>
         /\ Head(Held(b, h, t)) = b[t]
         /\ Held(b, h, After(t)) = Tail(Held(b, h, t))
<1>1. h \in Nat /\ t \in Nat /\ h < Len2 /\ t < Len2 /\ Len2 \in Nat \ {0, 1}
  BY RingAssumption DEF Slot
<1>2. After(t) = At(t, 1)
  BY AfterIs
<1>3. Span(h, t) \in Nat \ {0} /\ Span(h, After(t)) = Span(h, t) - 1
  BY <1>1, <1>2 DEF Span, At
<1>4. At(t, 0) = t
  BY <1>1 DEF At
<1>5. ASSUME NEW k \in 1..(Span(h, t) - 1)
      PROVE  At(After(t), k - 1) = At(t, k)
  BY <1>1, <1>2 DEF Span, At
<1>6. \A k \in 1..Span(h, t) : b[At(t, k - 1)] \in Value
  BY HeldApart
<1>7. Held(b, h, t) \in Seq(Value) /\ Len(Held(b, h, t)) = Span(h, t)
  BY <1>3, <1>6 DEF Held
<1>8. Held(b, h, t) # << >> /\ Head(Held(b, h, t)) = b[t]
  BY <1>3, <1>4, <1>7 DEF Held
<1> QED
  BY <1>3, <1>5, <1>7, <1>8 DEF Held

-----------------------------------------------------------------------------
(* The invariant.  What each side has read is still so when it acts on it, *)
(* because the other side only moves its own index, and only away.         *)

\* A producer p under way has read the head that still is; past the check
\* there is room, and before publishing the slot holds the value.
PushInv(p) ==
  /\ prod[p].pc # "idle" => prod[p].head = head
  /\ prod[p].pc \in {"write", "publish"} => After(head) # tail
  /\ prod[p].pc = "publish" => buf[head] = prod[p].val

\* The consumer, likewise: past the check there is something to take.
PopInv ==
  /\ cons.pc # "idle" => cons.tail = tail
  /\ cons.pc \in {"read", "publish"} => tail # head
  /\ cons.pc = "publish" => cons.val = buf[tail]

RingInv(p) == RingTypeOK /\ PushInv(p) /\ PopInv

LEMMA InitInv ==
  ASSUME NEW p, Producer = {p}, RingInit
  PROVE  RingInv(p)
<1>1. 0 \in Slot
  BY RingAssumption DEF Slot
<1> QED
  BY <1>1 DEF RingInit, RingInv, RingTypeOK, PushInv, PopInv

LEMMA StepInv ==
  ASSUME NEW p, Producer = {p}, RingInv(p), [RingNext]_ringVars
  PROVE  RingInv(p)'
<1> USE DEF RingInv, RingTypeOK, PushInv, PopInv
<1>1. ASSUME NEW v \in Value, PushReadHead(p, v) PROVE RingInv(p)'
  BY <1>1 DEF PushReadHead
<1>2. CASE PushCheck(p)
  BY <1>2 DEF PushCheck
<1>3. CASE PushWrite(p)
  BY <1>3 DEF PushWrite
<1>4. CASE PushPublish(p)
  BY <1>4, AfterIs, AfterMoves DEF PushPublish
<1>5. CASE PopReadTail
  BY <1>5 DEF PopReadTail
<1>6. CASE PopCheck
  BY <1>6 DEF PopCheck
<1>7. CASE PopRead
  BY <1>7 DEF PopRead
<1>8. CASE PopPublish
  BY <1>8, AfterIs, AfterMoves DEF PopPublish
<1>9. CASE UNCHANGED ringVars
  BY <1>9 DEF ringVars
<1> QED
  BY <1>1, <1>2, <1>3, <1>4, <1>5, <1>6, <1>7, <1>8, <1>9 DEF RingNext

LEMMA AlwaysInv ==
  ASSUME NEW p, Producer = {p}
  PROVE  RingSpec => []RingInv(p)
<1>1. RingInit => RingInv(p)
  BY InitInv
<1>2. RingInv(p) /\ [RingNext]_ringVars => RingInv(p)'
  BY StepInv
<1> QED
  BY <1>1, <1>2, PTL DEF RingSpec

-----------------------------------------------------------------------------
(* Refinement: what each step does to the contents.                        *)

\* Steps that touch neither the indices nor the slots.
LEMMA QuietStep ==
  ASSUME UNCHANGED <<buf, head, tail, popped>>
  PROVE  UNCHANGED <<Contents, popped>>
  BY DEF Contents, Count

LEMMA StepRefines ==
  ASSUME NEW p, Producer = {p}, RingInv(p), RingInv(p)', [RingNext]_ringVars
  PROVE  [Abstract!FifoNext]_<<Contents, popped>>
<1>t. /\ buf \in [Slot -> Value] /\ head \in Slot /\ tail \in Slot
      /\ buf' \in [Slot -> Value] /\ head' \in Slot /\ tail' \in Slot
      /\ prod[p].val \in Value
  BY DEF RingInv, RingTypeOK
<1>c. Contents = Held(buf, head, tail) /\ Contents' = Held(buf', head', tail')
  BY <1>t, HeldIs DEF Contents, Count
<1>1. CASE UNCHANGED <<buf, head, tail, popped>>
  BY <1>1, QuietStep
<1>2. CASE PushWrite(p)
  <2>1. /\ buf' = [buf EXCEPT ![head] = prod[p].val]
        /\ UNCHANGED <<head, tail, popped>>
    BY <1>2 DEF PushWrite, RingInv, PushInv
  <2>2. \A i \in Slot \ {head} : buf'[i] = buf[i]
    BY <1>t, <2>1
  <2>3. Held(buf', head, tail) = Held(buf, head, tail)
    BY <1>t, <2>2, HeldWrite
  <2> QED
    BY <1>c, <2>1, <2>3
<1>3. CASE PushPublish(p)
  <2>1. /\ After(head) # tail /\ head' = After(head)
        /\ buf[head] = prod[p].val /\ UNCHANGED <<buf, tail, popped>>
    BY <1>3 DEF PushPublish, RingInv, PushInv
  <2>2. /\ Contents' = Append(Contents, prod[p].val)
        /\ Len(Contents) < Len2 - 1
    BY <1>t, <1>c, <2>1, HeldAppend
  <2>3. Abstract!Enqueue(prod[p].val)
    BY <2>1, <2>2 DEF Abstract!Enqueue
  <2> QED
    BY <1>t, <2>3 DEF Abstract!FifoNext
<1>4. CASE PopPublish
  <2>1. /\ tail # head /\ tail' = After(tail)
        /\ popped' = buf[tail] /\ UNCHANGED <<buf, head>>
    BY <1>4 DEF PopPublish, RingInv, PopInv
  <2>2. Contents # << >> /\ Head(Contents) = buf[tail] /\ Contents' = Tail(Contents)
    BY <1>t, <1>c, <2>1, HeldTail
  <2>3. Abstract!Dequeue
    BY <2>1, <2>2 DEF Abstract!Dequeue
  <2> QED
    BY <2>3 DEF Abstract!FifoNext
<1>5. ASSUME NEW v \in Value, PushReadHead(p, v)
      PROVE  UNCHANGED <<buf, head, tail, popped>>
  BY <1>5 DEF PushReadHead
<1>6. PushCheck(p) \/ PopReadTail \/ PopCheck \/ PopRead \/ UNCHANGED ringVars
      => UNCHANGED <<buf, head, tail, popped>>
  BY DEF PushCheck, PopReadTail, PopCheck, PopRead, ringVars
<1> QED
  BY <1>1, <1>2, <1>3, <1>4, <1>5, <1>6 DEF RingNext

\* An empty ring holds nothing.
LEMMA InitRefines ==
  ASSUME RingInit
  PROVE  Abstract!FifoInit
<1>1. head = 0 /\ tail = 0 /\ 0 \in Slot /\ popped \in Value
  BY RingAssumption DEF RingInit, Slot
<1>2. Contents = Held(buf, head, tail)
  BY <1>1, HeldIs DEF Contents, Count
<1>3. Span(0, 0) = 0
  BY DEF Span
<1>4. Contents = << >>
  BY <1>1, <1>2, <1>3 DEF Held
<1> QED
  BY <1>1, <1>4 DEF Abstract!FifoInit

-----------------------------------------------------------------------------
(* rpm_cap.c: s_rpm_fifo with the converter task on one side and the       *)
(* averager task on the other is a bounded queue that loses, repeats and   *)
(* reorders nothing, whatever the interleaving, length and values.         *)
THEOREM RingImplementsFifo ==
  ASSUME NEW p, Producer = {p}
  PROVE  RingSpec => ImplementsFifo
<1>1. RingInit => Abstract!FifoInit
  BY InitRefines
<1>2. RingInv(p) /\ RingInv(p)' /\ [RingNext]_ringVars
      => [Abstract!FifoNext]_<<Contents, popped>>
  BY StepRefines
<1>3. RingSpec => []RingInv(p)
  BY AlwaysInv
<1> QED
  BY <1>1, <1>2, <1>3, PTL
     DEF RingSpec, ImplementsFifo, Abstract!FifoSpec, Abstract!fifoVars

(* The slot that is being read is never the one that is being written, and *)
(* the indices stay within the ring.                                       *)
THEOREM RingNeverRaces ==
  ASSUME NEW p, Producer = {p}
  PROVE  RingSpec => []NoDataRace
<1>1. RingInv(p) => NoDataRace
  BY DEF RingInv, PushInv, PopInv, NoDataRace
<1> QED
  BY <1>1, AlwaysInv, PTL
=============================================================================
