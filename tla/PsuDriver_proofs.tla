-------------------------- MODULE PsuDriver_proofs --------------------------
(***************************************************************************)
(* The scale of the currents in PsuDriver, for any families, addresses,    *)
(* models and scales, whatever is lost on the bus and wherever the two     *)
(* tasks interleave.                                                       *)
(***************************************************************************)
EXTENDS PsuDriver, SequenceTheorems, TLAPS

Ops   == {"mode", "model", "vi", "out", "setV", "setI", "setOut"}
Ats   == {"build", "txn", "count", "link", "store", "model", "scale"}
Wants == Volt \cup Amp \cup {0, 1}
TaskRec == [plan: Seq(Ops), at: Ats, ok: BOOLEAN, to: Slave, arg: Regs, div: Scale,
            want: Wants, seen: Model]

-----------------------------------------------------------------------------
(* Plans.  The polling task detects and polls, the control task sets, after *)
(* reading the block that the WZ5005 needs; what it wants fits its plan.   *)

PsuPlans == {<< >>, <<"mode", "model">>, <<"model">>, <<"mode", "model", "vi", "out">>,
             <<"model", "vi", "out">>, <<"vi", "out">>, <<"out">>}

CtlPlan(plan, want) ==
  \/ plan = << >>
  \/ plan \in {<<"setV">>, <<"vi", "setV">>} /\ want \in Volt
  \/ plan \in {<<"setI">>, <<"vi", "setI">>} /\ want \in Amp
  \/ plan = <<"setOut">> /\ want \in {0, 1}

PlanOf(p, plan, want) == IF p = "psu" THEN plan \in PsuPlans ELSE CtlPlan(plan, want)

LEMMA Tuples ==
  /\ \A a : Tail(<<a>>) = << >> /\ Head(<<a>>) = a /\ Len(<<a>>) = 1
  /\ \A a, b : Tail(<<a, b>>) = <<b>> /\ Head(<<a, b>>) = a /\ Len(<<a, b>>) = 2
  /\ \A a, b, c : Tail(<<a, b, c>>) = <<b, c>> /\ Head(<<a, b, c>>) = a
  /\ \A a, b, c, d : Tail(<<a, b, c, d>>) = <<b, c, d>> /\ Head(<<a, b, c, d>>) = a
  /\ \A a : << >> # <<a>>
  /\ \A a, b : << >> # <<a, b>>
  /\ \A a, b, c : << >> # <<a, b, c>>
OBVIOUS

LEMMA ByItems ==
  ASSUME NEW S, NEW s \in Seq(S), NEW a \in S, NEW b \in S, NEW c \in S, NEW d \in S
  PROVE  /\ Len(s) = 2 /\ s[1] = a /\ s[2] = b => s = <<a, b>>
         /\ Len(s) = 3 /\ s[1] = a /\ s[2] = b /\ s[3] = c => s = <<a, b, c>>
         /\ Len(s) = 4 /\ s[1] = a /\ s[2] = b /\ s[3] = c /\ s[4] = d => s = <<a, b, c, d>>
<1>1. /\ <<a, b>> \in Seq(S) /\ <<a, b, c>> \in Seq(S) /\ <<a, b, c, d>> \in Seq(S)
  OBVIOUS
<1>2. ASSUME Len(s) = 2, s[1] = a, s[2] = b PROVE s = <<a, b>>
  <2> DEFINE t == <<a, b>>
  <2>1. t \in Seq(S) /\ Len(t) = 2 /\ \A i \in 1..Len(s) : s[i] = t[i]
    BY <1>1, <1>2
  <2> HIDE DEF t
  <2>2. s = t
    BY <1>2, <2>1, SeqEqual
  <2> QED
    BY <2>2 DEF t
<1>3. ASSUME Len(s) = 3, s[1] = a, s[2] = b, s[3] = c PROVE s = <<a, b, c>>
  <2> DEFINE t == <<a, b, c>>
  <2>1. t \in Seq(S) /\ Len(t) = 3 /\ \A i \in 1..Len(s) : s[i] = t[i]
    BY <1>1, <1>3
  <2> HIDE DEF t
  <2>2. s = t
    BY <1>3, <2>1, SeqEqual
  <2> QED
    BY <2>2 DEF t
<1>4. ASSUME Len(s) = 4, s[1] = a, s[2] = b, s[3] = c, s[4] = d PROVE s = <<a, b, c, d>>
  <2> DEFINE t == <<a, b, c, d>>
  <2>1. t \in Seq(S) /\ Len(t) = 4 /\ \A i \in 1..Len(s) : s[i] = t[i]
    BY <1>1, <1>4
  <2> HIDE DEF t
  <2>2. s = t
    BY <1>4, <2>1, SeqEqual
  <2> QED
    BY <2>2 DEF t
<1> QED
  BY <1>2, <1>3, <1>4

LEMMA Joined ==
  ASSUME NEW S, NEW a \in S, NEW b \in S, NEW c \in S, NEW d \in S
  PROVE  /\ <<a>> \o <<b>> = <<a, b>> /\ <<a>> \o <<b, c>> = <<a, b, c>>
         /\ <<a, b>> \o <<c, d>> = <<a, b, c, d>>
<1>1. LET s == <<a>> \o <<b>> IN s \in Seq(S) /\ Len(s) = 2 /\ s[1] = a /\ s[2] = b
  OBVIOUS
<1>2. LET s == <<a>> \o <<b, c>> IN
        s \in Seq(S) /\ Len(s) = 3 /\ s[1] = a /\ s[2] = b /\ s[3] = c
  OBVIOUS
<1>3. LET s == <<a, b>> \o <<c, d>> IN
        s \in Seq(S) /\ Len(s) = 4 /\ s[1] = a /\ s[2] = b /\ s[3] = c /\ s[4] = d
  OBVIOUS
<1>4. \A s \in Seq(S) :
        /\ Len(s) = 2 /\ s[1] = a /\ s[2] = b => s = <<a, b>>
        /\ Len(s) = 3 /\ s[1] = a /\ s[2] = b /\ s[3] = c => s = <<a, b, c>>
        /\ Len(s) = 4 /\ s[1] = a /\ s[2] = b /\ s[3] = c /\ s[4] = d => s = <<a, b, c, d>>
  <2> TAKE s \in Seq(S)
  <2> QED
    BY ByItems
<1> QED
  BY <1>1, <1>2, <1>3, <1>4, Zenon

LEMMA PlanTyped ==
  ASSUME NEW p \in Task, NEW plan, NEW want, PlanOf(p, plan, want)
  PROVE  plan \in Seq(Ops)
<1>1. \A a \in Ops : <<a>> \in Seq(Ops)
  OBVIOUS
<1>2. \A a, b \in Ops : <<a, b>> \in Seq(Ops)
  OBVIOUS
<1>3. <<"model", "vi", "out">> \in Seq(Ops) /\ <<"mode", "model", "vi", "out">> \in Seq(Ops)
      /\ << >> \in Seq(Ops)
  BY DEF Ops
<1>4. {"mode", "model", "vi", "out", "setV", "setI", "setOut"} \subseteq Ops
  BY DEF Ops
<1> HIDE DEF Ops
<1>5. CASE p = "psu"
  BY <1>1, <1>2, <1>3, <1>4, <1>5 DEF PlanOf, PsuPlans
<1>6. CASE p # "psu"
  BY <1>1, <1>2, <1>3, <1>4, <1>6 DEF PlanOf, CtlPlan
<1> QED
  BY <1>5, <1>6

LEMMA PlanHead ==
  ASSUME NEW p \in Task, NEW plan, NEW want, PlanOf(p, plan, want), plan # << >>
  PROVE  /\ p = "psu" => Head(plan) \in {"mode", "model", "vi", "out"}
         /\ p = "ctl" => Head(plan) \in {"vi", "setV", "setI", "setOut"}
         /\ Head(plan) = "setV" => want \in Volt
         /\ Head(plan) = "setI" => want \in Amp
BY DEF PlanOf, PsuPlans, CtlPlan, Task

LEMMA PlanTail ==
  ASSUME NEW p \in Task, NEW plan, NEW want, PlanOf(p, plan, want), plan # << >>
  PROVE  /\ PlanOf(p, Tail(plan), want)
         /\ Len(plan) # 1 => Tail(plan) # << >>
         /\ Tail(plan) # << >> /\ p = "psu" /\ Head(plan) # "mode" =>
              Head(Tail(plan)) \in {"vi", "out"}
         /\ Head(plan) = "mode" => Tail(plan) # << >> /\ Head(Tail(plan)) = "model"
<1>1. CASE p = "psu"
  <2>1. plan \in {<<"model">>, <<"out">>} => Tail(plan) = << >> /\ Len(plan) = 1 /\ Head(plan) # "mode"
    BY Tuples
  <2>a. /\ Tail(<<"vi", "out">>) = <<"out">> /\ Tail(<<"mode", "model">>) = <<"model">>
        /\ Tail(<<"model", "vi", "out">>) = <<"vi", "out">>
        /\ Tail(<<"mode", "model", "vi", "out">>) = <<"model", "vi", "out">>
    <3>1. Tail(<<"vi", "out">>) = <<"out">> /\ Tail(<<"mode", "model">>) = <<"model">>
      BY Tuples, Zenon
    <3>a. \A a, b, c : Tail(<<a, b, c>>) = <<b, c>>
      BY Tuples
    <3>b. \A a, b, c, d : Tail(<<a, b, c, d>>) = <<b, c, d>>
      BY Tuples
    <3>2. Tail(<<"model", "vi", "out">>) = <<"vi", "out">>
      BY <3>a, Zenon
    <3>3. Tail(<<"mode", "model", "vi", "out">>) = <<"model", "vi", "out">>
      BY <3>b, Zenon
    <3> QED
      BY <3>1, <3>2, <3>3, Zenon
  <2>b. /\ Head(<<"vi", "out">>) # "mode" /\ Head(<<"mode", "model">>) = "mode"
        /\ Head(<<"model", "vi", "out">>) # "mode"
        /\ Head(<<"mode", "model", "vi", "out">>) = "mode"
    OBVIOUS
  <2>2. plan = <<"vi", "out">> => Tail(plan) = <<"out">> /\ Head(plan) # "mode"
    BY <2>a, <2>b, Zenon
  <2>3. plan = <<"mode", "model">> => Tail(plan) = <<"model">> /\ Head(plan) = "mode"
    BY <2>a, <2>b, Zenon
  <2>4. plan = <<"model", "vi", "out">> => Tail(plan) = <<"vi", "out">> /\ Head(plan) # "mode"
    BY <2>a, <2>b, Zenon
  <2>5. plan = <<"mode", "model", "vi", "out">> =>
          Tail(plan) = <<"model", "vi", "out">> /\ Head(plan) = "mode"
    BY <2>a, <2>b, Zenon
  <2>6. Head(<<"out">>) = "out" /\ Head(<<"vi", "out">>) = "vi" /\ Head(<<"model">>) = "model"
        /\ Head(<<"model", "vi", "out">>) = "model"
    BY Tuples
  <2>7. << >> # <<"out">> /\ << >> # <<"vi", "out">> /\ << >> # <<"model">>
        /\ << >> # <<"model", "vi", "out">>
    BY Tuples
  <2> QED
    BY <1>1, <2>1, <2>2, <2>3, <2>4, <2>5, <2>6, <2>7, Zenon DEF PlanOf, PsuPlans
<1>2. CASE p # "psu"
  <2>1. \A o \in Ops : /\ plan = <<o>> => Tail(plan) = << >> /\ Len(plan) = 1 /\ Head(plan) = o
                       /\ plan = <<"vi", o>> => Tail(plan) = <<o>> /\ Head(plan) = "vi"
                       /\ << >> # <<o>>
    BY Tuples
  <2>2. {"setV", "setI", "setOut"} \subseteq Ops
    BY DEF Ops
  <2> HIDE DEF Ops
  <2> QED
    BY <1>2, <2>1, <2>2 DEF PlanOf, CtlPlan
<1> QED
  BY <1>1, <1>2

LEMMA PlanMade ==
  /\ \A f : Detect(f) \in PsuPlans /\ Detect(f) # << >> /\ Head(Detect(f)) \in {"mode", "model"}
  /\ \A f : Detect(f) \o Poll \in PsuPlans /\ Head(Detect(f) \o Poll) \in {"mode", "model"}
  /\ << >> \o Poll \in PsuPlans /\ Head(<< >> \o Poll) = "vi"
  /\ \A op \in Ops : << >> \o <<op>> = <<op>> /\ <<"vi">> \o <<op>> = <<"vi", op>>
<1>1. \A f : Detect(f) \in {<<"mode", "model">>, <<"model">>}
  BY DEF Detect
<1>2. {"mode", "model", "vi", "out"} \subseteq Ops
  BY DEF Ops
<1> HIDE DEF Ops
<1>j. \A a, b, c, d \in Ops : /\ <<a>> \o <<b>> = <<a, b>> /\ <<a>> \o <<b, c>> = <<a, b, c>>
                             /\ <<a, b>> \o <<c, d>> = <<a, b, c, d>>
  <2> TAKE a, b, c, d \in Ops
  <2> QED
    BY Joined
<1>3. /\ <<"mode", "model">> \o <<"vi", "out">> = <<"mode", "model", "vi", "out">>
      /\ <<"model">> \o <<"vi", "out">> = <<"model", "vi", "out">>
  <2>1. "mode" \in Ops /\ "model" \in Ops /\ "vi" \in Ops /\ "out" \in Ops
    BY <1>2
  <2>2. <<"mode", "model">> \o <<"vi", "out">> = <<"mode", "model", "vi", "out">>
    <3>j. \A a, b, c, d \in Ops : <<a, b>> \o <<c, d>> = <<a, b, c, d>>
      <4> TAKE a, b, c, d \in Ops
      <4>1. /\ <<a>> \o <<b>> = <<a, b>> /\ <<a>> \o <<b, c>> = <<a, b, c>>
            /\ <<a, b>> \o <<c, d>> = <<a, b, c, d>>
        BY Joined
      <4> QED
        BY <4>1, Zenon
    <3>1. \A b, c, d \in Ops : <<"mode", b>> \o <<c, d>> = <<"mode", b, c, d>>
      BY <2>1, <3>j, Zenon
    <3>2. \A c, d \in Ops : <<"mode", "model">> \o <<c, d>> = <<"mode", "model", c, d>>
      BY <2>1, <3>1, Zenon
    <3> QED
      BY <2>1, <3>2, Zenon
  <2>3. <<"model">> \o <<"vi", "out">> = <<"model", "vi", "out">>
    BY <2>1, <1>j, ZenonT(30)
  <2> QED
    BY <2>2, <2>3
<1>4. << >> \o <<"vi", "out">> = <<"vi", "out">>
  OBVIOUS
<1>5. \A op \in Ops : << >> \o <<op>> = <<op>>
  OBVIOUS
<1>6. \A op \in Ops : <<"vi">> \o <<op>> = <<"vi", op>>
  BY <1>2, Joined
<1>7. /\ Head(<<"mode", "model">>) = "mode" /\ Head(<<"model">>) = "model"
      /\ Head(<<"mode", "model", "vi", "out">>) = "mode" /\ Head(<<"model", "vi", "out">>) = "model"
      /\ Head(<<"vi", "out">>) = "vi" /\ <<"mode", "model">> # << >> /\ <<"model">> # << >>
  BY Tuples
<1>8. /\ \A f : Detect(f) \o Poll \in {<<"mode", "model", "vi", "out">>, <<"model", "vi", "out">>}
      /\ << >> \o Poll = <<"vi", "out">>
  BY <1>1, <1>3, <1>4, Zenon DEF Poll
<1>9. \A f : Detect(f) # << >> /\ Head(Detect(f)) \in {"mode", "model"}
  BY <1>1, <1>7
<1>10. \A f : Head(Detect(f) \o Poll) \in {"mode", "model"}
  BY <1>7, <1>8
<1> QED
  BY <1>1, <1>5, <1>6, <1>7, <1>8, <1>9, <1>10, Zenon DEF PsuPlans

-----------------------------------------------------------------------------
(* The invariant.  The types; every task has a plan of its own kind; a     *)
(* model is only ever detected while none is known, and the scale is       *)
(* stored first; what a caller saw of the model stays true.                *)

Kept ==
  /\ family \in Families /\ slave \in Slave
  /\ nvs \in [family: Families, slave: Slave]
  /\ dev \in [Slave -> Regs]
  /\ scaleDiv \in Scale
  /\ cache \in [have: BOOLEAN, v: Volt \cup {0}, i: Raw]
  /\ link \in BOOLEAN /\ fails \in 0..Threshold
  /\ model \in Model
  /\ pub \in [v: Volt \cup {0}, i: Raw, div: Scale, on: BOOLEAN, scale: Scale]
  /\ env \in [settled: BOOLEAN, calls: 0..MaxCalls]

TasksTyped == task \in [Task -> TaskRec]

Planned ==
  \A p \in Task :
    /\ PlanOf(p, task[p].plan, task[p].want)
    /\ task[p].at \in {"model", "scale"} =>
         p = "psu" /\ task[p].plan # << >> /\ Head(task[p].plan) = "model"

Detection ==
  LET t == task["psu"] IN
  family = "riden" =>
    /\ model # 0 => scaleDiv = ScaleOf[model]
    /\ t.plan # << >> /\ Head(t.plan) \in {"mode", "model"} /\ t.at # "scale" => model = 0
    /\ t.at = "model" => scaleDiv = ScaleOf[Detected("psu")]

SeenHeld ==
  LET t == task["ctl"] IN
  family = "riden" /\ t.seen # 0 =>
    /\ t.seen = model
    /\ t.plan # << >> /\ Head(t.plan) = "setI" /\ t.at # "build" => t.div = ScaleOf[t.seen]

PsuInv == Kept /\ TasksTyped /\ Planned /\ Detection /\ SeenHeld

LEMMA TypeParts == PsuTypeOK <=> Kept /\ TasksTyped
BY DEF PsuTypeOK, Kept, TasksTyped, TaskRec, Ops, Ats, Wants

LEMMA Values ==
  /\ 0 \in Raw /\ ZeroRegs \in Regs /\ \A m \in Model : ScaleOf[m] \in Scale
  /\ \A a \in Amp, s \in Scale : a * s \in Raw
  /\ FreshCache \in [have: BOOLEAN, v: Volt \cup {0}, i: Raw]
  /\ FreshPub \in [v: Volt \cup {0}, i: Raw, div: Scale, on: BOOLEAN, scale: Scale]
<1>1. 0 * ScaleOf[0] = 0 /\ ScaleOf[0] \in Scale
  <2>1. ScaleOf[0] \in Scale
    BY PsuAssumption DEF Scale
  <2>2. ScaleOf[0] \in Nat
    BY <2>1, PsuAssumption
  <2> QED
    BY <2>1, <2>2
<1>2. 0 \in Raw
  <2>1. 0 \in Amp \cup {0}
    OBVIOUS
  <2> QED
    BY <1>1, <2>1 DEF Raw
<1>3. \A m \in Model : ScaleOf[m] \in Scale
  BY DEF Scale
<1>4. \A a \in Amp, s \in Scale : a * s \in Raw
  <2>1. \A a \in Amp : a \in Amp \cup {0}
    OBVIOUS
  <2> QED
    BY <2>1 DEF Raw
<1>5. ZeroRegs \in Regs
  BY <1>2 DEF ZeroRegs, Regs
<1> QED
  BY <1>1, <1>2, <1>3, <1>4, <1>5 DEF FreshCache, FreshPub

LEMMA NewTaskTyped ==
  /\ \A plan \in Seq(Ops), s \in Slave : NewTask(plan, s) \in TaskRec
  /\ Idle \in TaskRec /\ Idle.plan = << >> /\ Idle.seen = 0 /\ Idle.at = "build"
<1>1. "build" \in Ats /\ 0 \in Wants /\ 0 \in Model /\ ScaleOf[0] \in Scale /\ << >> \in Seq(Ops)
  BY Values, PsuAssumption DEF Ats, Wants
<1>2. \A plan \in Seq(Ops), s \in Slave : NewTask(plan, s) \in TaskRec
  BY <1>1, Values DEF NewTask, TaskRec
<1>3. (CHOOSE s \in Slave : TRUE) \in Slave
  BY PsuAssumption
<1>4. Idle \in TaskRec
  BY <1>1, <1>2, <1>3 DEF Idle
<1>5. Idle.plan = << >> /\ Idle.seen = 0 /\ Idle.at = "build"
  BY DEF Idle, NewTask
<1> QED
  BY <1>2, <1>4, <1>5

-----------------------------------------------------------------------------
(* What a step may do to the task that makes it.                           *)

Same(p) ==
  LET t == task[p]  u == task'[p] IN
  /\ t.plan # << >> /\ u.plan = t.plan /\ u.want = t.want /\ u.seen = t.seen
  /\ {t.at, u.at} \cap {"model", "scale"} = {}
  /\ \/ t.at # "build" /\ u.div = t.div
     \/ u.div = IF Head(t.plan) = "setI" THEN DivNow ELSE t.div

Following(p) ==
  LET t == task[p]  u == task'[p] IN
  /\ t.plan # << >> /\ u.plan = Tail(t.plan) /\ u.want = t.want /\ u.seen = t.seen
  /\ u.at = "build"

Turn(p) ==
  /\ family' = family /\ model' = model /\ scaleDiv' = scaleDiv
  /\ task' \in [Task -> TaskRec] /\ \A q \in Task \ {p} : task'[q] = task[q]
  /\ Same(p) \/ Following(p) \/ task'[p] = Idle

(* A turn of a task keeps the plans, the detection and what was seen.      *)
LEMMA TurnKeeps ==
  ASSUME NEW p \in Task, PsuInv, Turn(p)
  PROVE  TasksTyped' /\ Planned' /\ Detection' /\ SeenHeld'
<1>1. /\ TasksTyped /\ Planned /\ Detection /\ SeenHeld
  BY DEF PsuInv
<1>2. TasksTyped'
  BY DEF Turn, TasksTyped
<1>i. \A q \in Task : PlanOf(q, << >>, Idle.want)
  BY DEF PlanOf, PsuPlans, CtlPlan
<1>3. Planned'
  <2>1. \A q \in Task \ {p} : task'[q] = task[q]
    BY DEF Turn
  <2>2. PlanOf(p, task'[p].plan, task'[p].want) /\ task'[p].at \notin {"model", "scale"}
    <3>1. CASE Same(p)
      BY <1>1, <3>1 DEF Same, Planned
    <3>2. CASE Following(p)
      BY <1>1, <3>2, PlanTail DEF Following, Planned
    <3>3. CASE task'[p] = Idle
      BY <1>i, <3>3, NewTaskTyped
    <3> QED
      BY <3>1, <3>2, <3>3 DEF Turn
  <2> QED
    BY <1>1, <2>1, <2>2 DEF Planned
<1>4. Detection'
  <2>1. SUFFICES ASSUME family = "riden" PROVE Detection'
    BY DEF Turn, Detection
  <2>2. CASE p = "psu"
    <3>1. CASE Same(p)
      BY <1>1, <2>1, <2>2, <3>1 DEF Same, Detection, Turn, Detected
    <3>2. CASE Following(p)
      <4>1. /\ Head(task[p].plan) # "mode" /\ Tail(task[p].plan) # << >> =>
                 Head(Tail(task[p].plan)) \in {"vi", "out"}
            /\ Head(task[p].plan) = "mode" => task[p].at # "scale"
        BY <1>1, <2>2, <3>2, PlanTail DEF Following, Planned
      <4>2. Head(task[p].plan) = "mode" => model = 0
        BY <1>1, <2>1, <2>2, <3>2, <4>1 DEF Following, Detection
      <4> QED
        BY <1>1, <2>1, <2>2, <3>2, <4>1, <4>2 DEF Following, Detection, Turn
    <3>3. CASE task'[p] = Idle
      BY <1>1, <2>1, <2>2, <3>3, NewTaskTyped DEF Detection, Turn
    <3> QED
      BY <3>1, <3>2, <3>3 DEF Turn
  <2>3. CASE p # "psu"
    <3>1. task'["psu"] = task["psu"]
      BY <2>3 DEF Turn, Task
    <3> QED
      BY <1>1, <2>1, <3>1 DEF Detection, Turn, Detected
  <2> QED
    BY <2>2, <2>3
<1>5. SeenHeld'
  <2>1. SUFFICES ASSUME family = "riden" PROVE SeenHeld'
    BY DEF Turn, SeenHeld
  <2>2. CASE p = "ctl"
    <3>1. CASE Same(p)
      <4>1. task["ctl"].seen # 0 => DivNow = ScaleOf[task["ctl"].seen]
        BY <1>1, <2>1 DEF DivNow, Detection, SeenHeld
      <4> QED
        BY <1>1, <2>1, <2>2, <3>1, <4>1 DEF Same, SeenHeld, Turn
    <3>2. CASE Following(p)
      BY <1>1, <2>1, <2>2, <3>2 DEF Following, SeenHeld, Turn
    <3>3. CASE task'[p] = Idle
      BY <2>2, <3>3, NewTaskTyped DEF SeenHeld
    <3> QED
      BY <3>1, <3>2, <3>3 DEF Turn
  <2>3. CASE p # "ctl"
    <3>1. task'["ctl"] = task["ctl"]
      BY <2>3 DEF Turn, Task
    <3> QED
      BY <1>1, <2>1, <3>1 DEF SeenHeld, Turn
  <2> QED
    BY <2>2, <2>3
<1> QED
  BY <1>2, <1>3, <1>4, <1>5

-----------------------------------------------------------------------------
(* The parts of an action: what is sent, what the supply makes of it, and  *)
(* where the task goes next.                                               *)

LEMMA Typed ==
  ASSUME NEW p \in Task, PsuInv
  PROVE  /\ task[p] \in TaskRec /\ task[p].plan \in Seq(Ops) /\ task[p].to \in Slave
         /\ task[p].arg \in Regs /\ task[p].div \in Scale /\ task[p].ok \in BOOLEAN
         /\ DivNow \in Scale /\ Detected(p) \in Model
BY Values, PsuAssumption DEF PsuInv, Kept, TasksTyped, TaskRec, DivNow, Detected, Model

LEMMA RequestTyped ==
  ASSUME NEW p \in Task, PsuInv, Busy(p)
  PROVE  Request(p) \in Regs
<1>1. /\ Op(p) = "setV" => task[p].want \in Volt
      /\ Op(p) = "setI" => task[p].want \in Amp
  BY PlanHead DEF PsuInv, Planned, Busy, Op
<1>2. DivNow \in Scale /\ cache.i \in Raw /\ cache.v \in Volt \cup {0}
  BY Typed DEF PsuInv, Kept
<1>3. Op(p) = "setI" => task[p].want * DivNow \in Raw
  BY <1>1, <1>2, Values, Zenon
<1> QED
  BY <1>1, <1>2, <1>3, Values DEF Request, Regs, ZeroRegs

LEMMA AfterTyped ==
  ASSUME NEW p \in Task, PsuInv, NEW d \in Regs
  PROVE  After(p, d) \in Regs
BY Typed DEF After, Regs

LEMMA GotoTurn ==
  ASSUME NEW p \in Task, PsuInv, Busy(p), NEW at \in Ats, at \notin {"model", "scale"},
         task[p].at \notin {"build", "model", "scale"}, Goto(p, at),
         family' = family, model' = model, scaleDiv' = scaleDiv
  PROVE  Turn(p)
<1>1. task \in [Task -> TaskRec]
  BY DEF PsuInv, TasksTyped
<1>2. [task[p] EXCEPT !.at = at] \in TaskRec
  BY Typed DEF TaskRec
<1> QED
  BY <1>1, <1>2 DEF Turn, Goto, Same, Busy, TaskRec

LEMMA FinishTurn ==
  ASSUME NEW p \in Task, PsuInv, Busy(p), Finish(p) \/ Abandon(p),
         family' = family, model' = model, scaleDiv' = scaleDiv
  PROVE  Turn(p)
<1>1. task \in [Task -> TaskRec]
  BY DEF PsuInv, TasksTyped
<1>2. CASE task' = [task EXCEPT ![p] = Idle]
  BY <1>1, <1>2, NewTaskTyped DEF Turn
<1>3. CASE Len(task[p].plan) # 1 /\ Finish(p)
  <2> DEFINE u == [NewTask(Tail(task[p].plan), task[p].to)
                     EXCEPT !.want = task[p].want, !.seen = task[p].seen]
  <2>1. Tail(task[p].plan) \in Seq(Ops)
    BY PlanTail, PlanTyped DEF PsuInv, Planned, Busy
  <2>2. NewTask(Tail(task[p].plan), task[p].to) \in TaskRec
    BY <2>1, Typed, NewTaskTyped
  <2>3. u \in TaskRec
    BY <2>2, Typed DEF TaskRec
  <2>4. /\ u.plan = Tail(task[p].plan) /\ u.want = task[p].want /\ u.seen = task[p].seen
        /\ u.at = "build"
    BY DEF NewTask
  <2>5. task' = [task EXCEPT ![p] = u]
    BY <1>3 DEF Finish
  <2> HIDE DEF u
  <2> QED
    BY <1>1, <2>3, <2>4, <2>5 DEF Turn, Following, Busy
<1> QED
  BY <1>2, <1>3 DEF Finish, Abandon

LEMMA ExchangeKeeps ==
  ASSUME NEW p \in Task, PsuInv, NEW s \in Slave, NEW at, NEW plan, Exchange(p, s, at, plan),
         \/ at = "count" /\ plan = task[p].plan
         \/ at = "build" /\ plan = Tail(task[p].plan)
  PROVE  PsuInv'
<1>1. task \in [Task -> TaskRec] /\ dev \in [Slave -> Regs] /\ Kept
  BY DEF PsuInv, TasksTyped, Kept
<1>2. plan \in Seq(Ops) /\ at \in Ats
  BY Typed, PlanTail, PlanTyped DEF PsuInv, Planned, Exchange, Busy, Ats
<1>3. After(p, dev[s]) \in Regs
  BY <1>1, AfterTyped
<1>4. dev' \in [Slave -> Regs]
  BY <1>1, <1>3 DEF Exchange
<1>5. PICK ok \in BOOLEAN, to \in Slave, arg \in Regs :
        task' = [task EXCEPT ![p].at = at, ![p].plan = plan, ![p].ok = ok, ![p].to = to,
                             ![p].arg = arg]
  <2>1. CASE task' = [task EXCEPT ![p].at = at, ![p].plan = plan, ![p].ok = TRUE, ![p].to = s,
                        ![p].arg = IF Op(p) \in Reads THEN dev[s] ELSE @]
    <3>1. (IF Op(p) \in Reads THEN dev[s] ELSE task[p].arg) \in Regs
      BY <1>1, Typed
    <3> QED
      BY <1>1, <2>1, <3>1
  <2>2. CASE task' = [task EXCEPT ![p].at = at, ![p].plan = plan, ![p].ok = FALSE,
                        ![p].arg = ZeroRegs]
    <3>1. task' = [task EXCEPT ![p].at = at, ![p].plan = plan, ![p].ok = FALSE,
                     ![p].to = task[p].to, ![p].arg = ZeroRegs]
      BY <1>1, <2>2, Typed, ZenonT(40) DEF TaskRec
    <3> QED
      BY <3>1, Typed, Values
  <2>3. ASSUME NEW r \in IF Op(p) \in Reads THEN Refusals ELSE {task[p].arg},
               task' = [task EXCEPT ![p].at = at, ![p].plan = plan, ![p].ok = TRUE, ![p].to = s,
                                    ![p].arg = r]
        PROVE  \E ok \in BOOLEAN, to \in Slave, arg \in Regs :
                 task' = [task EXCEPT ![p].at = at, ![p].plan = plan, ![p].ok = ok, ![p].to = to,
                                      ![p].arg = arg]
    <3>1. r \in Regs
      BY Typed, PsuAssumption
    <3> QED
      BY <2>3, <3>1
  <2> QED
    BY <2>1, <2>2, <2>3 DEF Exchange
<1>6. /\ task'[p] \in TaskRec /\ task'[p].at = at /\ task'[p].plan = plan
      /\ task'[p].want = task[p].want /\ task'[p].seen = task[p].seen
      /\ task'[p].div = task[p].div
      /\ task' \in [Task -> TaskRec] /\ \A q \in Task \ {p} : task'[q] = task[q]
  <2> DEFINE u == [task[p] EXCEPT !.at = at, !.plan = plan, !.ok = ok, !.to = to, !.arg = arg]
  <2>1. task' = [task EXCEPT ![p] = u]
    BY <1>1, <1>5
  <2>2. u \in TaskRec
    BY <1>2, Typed DEF TaskRec
  <2>3. /\ u.at = at /\ u.plan = plan /\ u.want = task[p].want /\ u.seen = task[p].seen
        /\ u.div = task[p].div
    BY Typed DEF TaskRec
  <2> HIDE DEF u
  <2> QED
    BY <1>1, <2>1, <2>2, <2>3
<1>7. family' = family /\ model' = model /\ scaleDiv' = scaleDiv
  BY DEF Exchange, saved, state
<1>8. Same(p) \/ Following(p)
  BY <1>6 DEF Same, Following, Exchange, Busy
<1>9. Turn(p)
  BY <1>6, <1>7, <1>8 DEF Turn
<1>10. Kept'
  BY <1>1, <1>4 DEF Kept, Exchange, saved, state
<1> QED
  BY <1>9, <1>10, TurnKeeps DEF PsuInv

-----------------------------------------------------------------------------
(* The steps of a task.                                                    *)

LEMMA BuildKeeps ==
  ASSUME NEW p \in Task, PsuInv, Build(p)
  PROVE  PsuInv'
<1>1. task \in [Task -> TaskRec] /\ slave \in Slave /\ Kept /\ "txn" \in Ats
  BY DEF PsuInv, TasksTyped, Kept, Ats
<1> DEFINE to  == IF Op(p) = "out" THEN task[p].to ELSE slave
           div == IF Op(p) = "setI" THEN DivNow ELSE task[p].div
           u   == [task[p] EXCEPT !.at = "txn", !.to = to, !.div = div, !.arg = Request(p)]
<1>2. task' = [task EXCEPT ![p] = u]
  BY <1>1 DEF Build
<1>3. to \in Slave /\ div \in Scale
  BY <1>1, Typed
<1>4. Request(p) \in Regs
  BY RequestTyped DEF Build
<1> HIDE DEF to, div
<1>5. u \in TaskRec
  BY <1>1, <1>3, <1>4, Typed DEF TaskRec
<1>6. /\ u.at = "txn" /\ u.plan = task[p].plan /\ u.want = task[p].want
      /\ u.seen = task[p].seen /\ u.div = div
  BY Typed DEF TaskRec
<1> HIDE DEF u
<1>7. Same(p)
  BY <1>1, <1>2, <1>6 DEF Same, Build, Busy, Op, div
<1>8. Turn(p)
  <2>1. task' \in [Task -> TaskRec] /\ \A q \in Task \ {p} : task'[q] = task[q]
    BY <1>1, <1>2, <1>5
  <2>2. family' = family /\ model' = model /\ scaleDiv' = scaleDiv
    BY DEF Build, saved, state
  <2> QED
    BY <1>7, <2>1, <2>2 DEF Turn
<1>9. Kept'
  BY <1>1 DEF Kept, Build, saved, state
<1> QED
  BY <1>8, <1>9, TurnKeeps DEF PsuInv

LEMMA CountKeeps ==
  ASSUME NEW p \in Task, PsuInv, CountResult(p) \/ NoteLink(p)
  PROVE  PsuInv'
<1>1. Kept'
  BY PsuAssumption, Typed DEF PsuInv, Kept, CountResult, NoteLink, saved
<1>2. CASE CountResult(p)
  <2>1. PICK at \in {"link", "store"} : Goto(p, at)
    BY <1>2 DEF CountResult
  <2> QED
    BY <1>1, <1>2, <2>1, GotoTurn, TurnKeeps DEF CountResult, saved, Ats, PsuInv
<1>3. CASE NoteLink(p)
  BY <1>1, <1>3, GotoTurn, TurnKeeps DEF NoteLink, saved, Ats, PsuInv
<1> QED
  BY <1>2, <1>3

LEMMA StoreKeeps ==
  ASSUME NEW p \in Task, PsuInv, StoreBlock(p) \/ StoreOutput(p) \/ StoreSet(p)
  PROVE  PsuInv'
<1>1. /\ Busy(p) /\ (Finish(p) \/ Abandon(p))
      /\ family' = family /\ model' = model /\ scaleDiv' = scaleDiv
  BY DEF StoreBlock, StoreOutput, StoreSet, Storing, saved
<1>2. TasksTyped' /\ Planned' /\ Detection' /\ SeenHeld'
  BY <1>1, FinishTurn, TurnKeeps
<1>3. /\ task[p].arg.v \in Volt \cup {0} /\ task[p].arg.i \in Raw /\ task[p].arg.on \in BOOLEAN
      /\ task[p].div \in Scale /\ DivNow \in Scale
  BY Typed DEF Regs
<1>4. Kept'
  <2>1. CASE StoreBlock(p)
    <3>1. cache' \in [have: BOOLEAN, v: Volt \cup {0}, i: Raw]
      <4>1. cache \in [have: BOOLEAN, v: Volt \cup {0}, i: Raw]
        BY DEF Kept, PsuInv
      <4>2. cache' = cache \/ cache' = [have |-> TRUE, v |-> task[p].arg.v, i |-> task[p].arg.i]
        BY <2>1, Zenon DEF StoreBlock
      <4>3. \A v \in Volt \cup {0}, i \in Raw :
              [have |-> TRUE, v |-> v, i |-> i] \in [have: BOOLEAN, v: Volt \cup {0}, i: Raw]
        OBVIOUS
      <4> QED
        BY <1>3, <4>1, <4>2, <4>3, Zenon
    <3>2. pub' \in [v: Volt \cup {0}, i: Raw, div: Scale, on: BOOLEAN, scale: Scale]
      BY <1>3, <2>1 DEF StoreBlock, Kept, PsuInv
    <3> QED
      BY <2>1, <3>1, <3>2 DEF StoreBlock, Storing, saved, Kept, PsuInv
  <2>2. CASE StoreOutput(p)
    BY <1>3, <2>2 DEF StoreOutput, Storing, saved, Kept, PsuInv
  <2>3. CASE StoreSet(p)
    BY <1>3, <2>3 DEF StoreSet, Storing, saved, Kept, PsuInv
  <2> QED
    BY <2>1, <2>2, <2>3
<1> QED
  BY <1>2, <1>4 DEF PsuInv

(* The end of a detection: only the polling task is ever here, and while   *)
(* no model is known.                                                      *)
LEMMA DetectionKeeps ==
  ASSUME NEW p \in Task, PsuInv, StoreScale(p) \/ PublishModel(p) \/ PublishScale(p)
  PROVE  PsuInv'
<1>1. /\ task \in [Task -> TaskRec] /\ Kept /\ Planned /\ Detection /\ SeenHeld
  BY DEF PsuInv, TasksTyped
<1>2. Detected(p) \in Model /\ ScaleOf[Detected(p)] \in Scale /\ ScaleOf[0] \in Scale
  BY Typed, Values, PsuAssumption
<1>3. CASE PublishScale(p)
  <2>1. TasksTyped' /\ Planned' /\ Detection' /\ SeenHeld'
    BY <1>3, FinishTurn, TurnKeeps DEF PublishScale, saved
  <2>2. Kept'
    BY <1>1, <1>2, <1>3 DEF Kept, PublishScale, saved
  <2> QED
    BY <2>1, <2>2 DEF PsuInv
<1>4. CASE StoreScale(p) \/ PublishModel(p)
  <2>1. p = "psu" /\ task[p].plan # << >> /\ Head(task[p].plan) = "model"
    <3>1. CASE StoreScale(p)
      BY <1>1, <3>1, PlanHead DEF StoreScale, Busy, Op, Planned, Task
    <3>2. CASE PublishModel(p)
      BY <1>1, <3>2 DEF PublishModel, Planned
    <3> QED
      BY <1>4, <3>1, <3>2
  <2>2. family = "riden" => model = 0
    BY <1>1, <1>4, <2>1 DEF Detection, StoreScale, PublishModel
  <2>3. PICK at \in {"model", "scale"} :
          Goto(p, at) /\ (at = "model" <=> StoreScale(p)) /\ (at = "scale" <=> PublishModel(p))
    BY <1>4 DEF StoreScale, PublishModel
  <2>4. task' = [task EXCEPT ![p] = [task[p] EXCEPT !.at = at]]
    BY <1>1, <2>3 DEF Goto
  <2>5. [task[p] EXCEPT !.at = at] \in TaskRec
    BY Typed DEF TaskRec, Ats
  <2>6. /\ task'[p].plan = task[p].plan /\ task'[p].want = task[p].want /\ task'[p].at = at
        /\ task'[p].ok = task[p].ok /\ task'[p].to = task[p].to
        /\ task' \in [Task -> TaskRec] /\ \A q \in Task \ {p} : task'[q] = task[q]
    BY <1>1, <2>4, <2>5, Typed DEF TaskRec
  <2>7. Kept'
    BY <1>1, <1>2, <1>4 DEF Kept, StoreScale, PublishModel, saved
  <2>8. TasksTyped' /\ Planned'
    <3>1. TasksTyped'
      BY <2>6 DEF TasksTyped
    <3>2. \A q \in Task : PlanOf(q, task'[q].plan, task'[q].want)
      BY <1>1, <2>6 DEF Planned
    <3>3. \A q \in Task : task'[q].at \in {"model", "scale"} =>
            q = "psu" /\ task'[q].plan # << >> /\ Head(task'[q].plan) = "model"
      BY <1>1, <2>1, <2>6 DEF Planned
    <3> QED
      BY <3>1, <3>2, <3>3 DEF Planned
  <2>9. Detected(p)' = Detected(p)
    BY <2>6 DEF Detected
  <2>10. Detection'
    <3>1. CASE StoreScale(p)
      BY <1>1, <2>1, <2>2, <2>3, <2>6, <2>9, <3>1 DEF Detection, StoreScale, saved
    <3>2. CASE PublishModel(p)
      <4>1. family = "riden" => scaleDiv = ScaleOf[Detected(p)]
        BY <1>1, <2>1, <3>2 DEF Detection, PublishModel
      <4>2. /\ family' = family /\ scaleDiv' = scaleDiv /\ model' = Detected(p)
            /\ task'["psu"].at = "scale"
        BY <2>1, <2>3, <2>6, <3>2 DEF PublishModel, saved
      <4> QED
        BY <4>1, <4>2 DEF Detection
    <3> QED
      BY <1>4, <3>1, <3>2
  <2>11. SeenHeld'
    <3>1. task'["ctl"] = task["ctl"] /\ family' = family
      BY <1>4, <2>1, <2>6 DEF Task, StoreScale, PublishModel, saved
    <3>2. family = "riden" => task["ctl"].seen = 0
      BY <1>1, <2>2 DEF SeenHeld
    <3> QED
      BY <3>1, <3>2 DEF SeenHeld
  <2> QED
    BY <2>7, <2>8, <2>10, <2>11 DEF PsuInv
<1> QED
  BY <1>3, <1>4

LEMMA WorkKeeps ==
  ASSUME NEW p \in Task, PsuInv, Work(p)
  PROVE  PsuInv'
<1>1. CASE ModbusTxn(p)
  <2>1. Exchange(p, task[p].to, "count", task[p].plan) /\ task[p].to \in Slave
    BY <1>1, Typed DEF ModbusTxn
  <2> QED
    BY <2>1, ExchangeKeeps
<1>2. CASE WzTxn(p)
  <2>1. slave \in Slave
    BY DEF PsuInv, Kept
  <2>2. CASE Exchange(p, slave, "build", Tail(task[p].plan))
    BY <2>1, <2>2, ExchangeKeeps
  <2>3. CASE Exchange(p, slave, "count", task[p].plan)
    BY <2>1, <2>3, ExchangeKeeps
  <2> QED
    BY <1>2, <2>2, <2>3 DEF WzTxn
<1> QED
  BY <1>1, <1>2, BuildKeeps, CountKeeps, StoreKeeps, DetectionKeeps DEF Work

-----------------------------------------------------------------------------
(* A turn of the poll, a command, an intervention.                         *)

LEMMA Intervened ==
  ASSUME Kept, Intervene
  PROVE  env' \in [settled: BOOLEAN, calls: 0..MaxCalls]
<1>1. env.calls + 1 \in 0..MaxCalls /\ env.settled \in BOOLEAN
  BY PsuAssumption DEF Kept, Intervene
<1>2. env' = [env EXCEPT !.calls = env.calls + 1]
  BY DEF Intervene
<1> QED
  BY <1>1, <1>2 DEF Kept

LEMMA PollTurnKeeps ==
  ASSUME PsuInv, PollTurn
  PROVE  PsuInv'
<1>1. /\ task \in [Task -> TaskRec] /\ slave \in Slave /\ Kept /\ Planned /\ Detection /\ SeenHeld
  BY DEF PsuInv, TasksTyped, Kept
<1>2. PICK plan \in PsuPlans :
        /\ task' = [task EXCEPT !["psu"] = NewTask(plan, slave)]
        /\ Head(plan) \in {"mode", "model"} => model = 0
  <2>1. CASE model = 0 /\ link
    BY <2>1, PlanMade DEF PollTurn
  <2>2. CASE ~(model = 0 /\ link)
    <3>1. task' = [task EXCEPT !["psu"] = NewTask(<< >> \o Poll, slave)]
      BY <2>2 DEF PollTurn
    <3>2. << >> \o Poll \in PsuPlans /\ Head(<< >> \o Poll) = "vi"
      BY PlanMade
    <3> QED
      BY <3>1, <3>2, Zenon
  <2> QED
    BY <2>1, <2>2
<1> DEFINE u == NewTask(plan, slave)
<1>3. "psu" \in Task /\ "ctl" \in Task /\ PlanOf("psu", plan, 0)
  BY DEF Task, PlanOf
<1>4. u \in TaskRec /\ u.plan = plan /\ u.want = 0 /\ u.at = "build"
  BY <1>1, <1>3, PlanTyped, NewTaskTyped DEF NewTask
<1>5. task' = [task EXCEPT !["psu"] = u]
  BY <1>2
<1> HIDE DEF u
<1>6. /\ task' \in [Task -> TaskRec] /\ task'["psu"] = u
      /\ \A q \in Task : q # "psu" => task'[q] = task[q]
  BY <1>1, <1>3, <1>4, <1>5
<1>7. family' = family /\ model' = model /\ scaleDiv' = scaleDiv /\ Kept'
  BY <1>1 DEF PollTurn, saved, state, Kept
<1>8. Planned'
  BY <1>1, <1>3, <1>4, <1>6 DEF Planned
<1>9. Detection'
  BY <1>1, <1>2, <1>4, <1>6, <1>7 DEF Detection
<1>10. SeenHeld'
  BY <1>1, <1>3, <1>6, <1>7 DEF SeenHeld
<1> QED
  BY <1>6, <1>7, <1>8, <1>9, <1>10 DEF PsuInv, TasksTyped

LEMMA CallKeeps ==
  ASSUME PsuInv, NEW op \in {"setV", "setI", "setOut"}, NEW w, Call(op, w),
         op = "setV" => w \in Volt, op = "setI" => w \in Amp, op = "setOut" => w \in {0, 1}
  PROVE  PsuInv'
<1>1. /\ task \in [Task -> TaskRec] /\ slave \in Slave /\ Kept /\ Planned /\ Detection /\ SeenHeld
  BY DEF PsuInv, TasksTyped, Kept
<1> DEFINE pre  == IF op # "setOut" /\ WZ /\ ~cache.have THEN <<"vi">> ELSE << >>
           seen == IF op = "setI" THEN model ELSE 0
<1>2. op \in Ops /\ "vi" \in Ops
  BY DEF Ops
<1>3. pre \o <<op>> \in {<<op>>, <<"vi", op>>} /\ (op = "setOut" => pre \o <<op>> = <<op>>)
  <2>1. << >> \o <<op>> = <<op>> /\ <<"vi">> \o <<op>> = <<"vi", op>>
    BY <1>2, PlanMade
  <2> QED
    BY <2>1
<1>4. PlanOf("ctl", pre \o <<op>>, w)
  BY <1>3, Zenon DEF PlanOf, CtlPlan
<1>5. "psu" \in Task /\ "ctl" \in Task /\ w \in Wants
  BY DEF Task, Wants
<1> DEFINE plan == pre \o <<op>>
           u    == [NewTask(plan, slave) EXCEPT !.want = w, !.seen = seen]
<1>6. seen \in Model
  BY <1>1, PsuAssumption DEF Kept
<1>7. task' = [task EXCEPT !["ctl"] = u]
  BY DEF Call
<1> HIDE DEF pre, seen, plan
<1>8. u \in TaskRec /\ u.plan = plan /\ u.want = w /\ u.at = "build" /\ u.seen = seen
  <2>1. NewTask(plan, slave) \in TaskRec
    BY <1>1, <1>4, <1>5, PlanTyped, NewTaskTyped DEF plan
  <2> QED
    BY <1>5, <1>6, <2>1 DEF TaskRec, NewTask
<1> HIDE DEF u
<1>9. /\ task' \in [Task -> TaskRec] /\ task'["ctl"] = u
      /\ \A q \in Task : q # "ctl" => task'[q] = task[q]
  BY <1>1, <1>5, <1>7, <1>8
<1>10. family' = family /\ model' = model /\ scaleDiv' = scaleDiv
  BY DEF Call, saved, state
<1>11. Kept'
  <2>1. env' \in [settled: BOOLEAN, calls: 0..MaxCalls]
    BY <1>1, Intervened DEF Call
  <2> QED
    BY <1>1, <2>1 DEF Call, saved, state, Kept
<1>12. Planned'
  BY <1>1, <1>4, <1>8, <1>9, ZenonT(40) DEF Planned, plan
<1>13. Detection'
  BY <1>1, <1>5, <1>9, <1>10 DEF Detection, Detected
<1>14. SeenHeld'
  BY <1>8, <1>9, <1>10 DEF SeenHeld, seen
<1> QED
  BY <1>9, <1>11, <1>12, <1>13, <1>14 DEF PsuInv, TasksTyped

LEMMA FreshInv ==
  ASSUME NEW n \in [family: Families, slave: Slave]
  PROVE  LET t == FreshTasks(n) IN
         /\ t \in [Task -> TaskRec] /\ t["ctl"] = Idle /\ Idle.seen = 0
         /\ \A p \in Task : PlanOf(p, t[p].plan, t[p].want) /\ t[p].at = "build"
<1>1. Detect(n.family) \in PsuPlans
  BY PlanMade
<1>2. PlanOf("psu", Detect(n.family), 0) /\ PlanOf("ctl", << >>, Idle.want) /\ "psu" \in Task
  BY <1>1 DEF PlanOf, CtlPlan, Task
<1>3. NewTask(Detect(n.family), n.slave) \in TaskRec
  BY <1>2, PlanTyped, NewTaskTyped
<1> QED
  <2> DEFINE u == NewTask(Detect(n.family), n.slave)
  <2>1. u.plan = Detect(n.family) /\ u.want = 0 /\ u.at = "build"
    BY DEF NewTask
  <2> HIDE DEF u
  <2>2. FreshTasks(n) = [psu |-> u, ctl |-> Idle]
    BY DEF FreshTasks, u
  <2>3. u \in TaskRec
    BY <1>3 DEF u
  <2>4. /\ FreshTasks(n) \in [Task -> TaskRec]
        /\ FreshTasks(n)["psu"] = u /\ FreshTasks(n)["ctl"] = Idle
    BY <2>2, <2>3, NewTaskTyped DEF Task
  <2>5. PlanOf("psu", u.plan, u.want) /\ PlanOf("ctl", Idle.plan, Idle.want)
    BY <1>2, <2>1, NewTaskTyped
  <2> QED
    BY <2>1, <2>4, <2>5, NewTaskTyped DEF Task

LEMMA FreshKeeps ==
  ASSUME FreshTasks(nvs)' = task', nvs' \in [family: Families, slave: Slave],
         model' = 0, scaleDiv' = ScaleOf[0], Kept'
  PROVE  PsuInv'
<1>1. /\ task' \in [Task -> TaskRec] /\ task'["ctl"].seen = 0
      /\ \A p \in Task : PlanOf(p, task'[p].plan, task'[p].want) /\ task'[p].at = "build"
  BY FreshInv
<1>2. "psu" \in Task
  BY DEF Task
<1> QED
  BY <1>1, <1>2 DEF PsuInv, TasksTyped, Planned, Detection, SeenHeld

LEMMA InitInv == Init => PsuInv
<1> SUFFICES ASSUME Init PROVE PsuInv
  OBVIOUS
<1>1. nvs \in [family: Families, slave: Slave]
  BY PsuAssumption DEF Init
<1>2. Kept
  <2>1. ScaleOf[0] \in Scale /\ 0 \in Model /\ 0 \in 0..Threshold /\ 0 \in 0..MaxCalls
    BY Values, PsuAssumption
  <2>2. family \in Families /\ slave \in Slave
    BY <1>1 DEF Init
  <2>3. dev \in [Slave -> Regs]
    BY Values DEF Init
  <2>4. env \in [settled: BOOLEAN, calls: 0..MaxCalls]
    BY <2>1 DEF Init
  <2> QED
    BY <1>1, <2>1, <2>2, <2>3, <2>4, Values DEF Init, Kept
<1>3. /\ task \in [Task -> TaskRec] /\ task["ctl"].seen = 0
      /\ \A p \in Task : PlanOf(p, task[p].plan, task[p].want) /\ task[p].at = "build"
  BY <1>1, FreshInv DEF Init
<1>4. "psu" \in Task /\ model = 0
  BY DEF Task, Init
<1> QED
  BY <1>2, <1>3, <1>4 DEF PsuInv, TasksTyped, Planned, Detection, SeenHeld

LEMMA StillKeeps ==
  ASSUME PsuInv, UNCHANGED <<family, scaleDiv, model, task>>, Kept'
  PROVE  PsuInv'
BY DEF PsuInv, TasksTyped, Planned, Detection, SeenHeld, Detected

LEMMA StepInv == PsuInv /\ [Next]_vars => PsuInv'
<1> SUFFICES ASSUME PsuInv, [Next]_vars PROVE PsuInv'
  OBVIOUS
<1>0. Kept
  BY DEF PsuInv
<1>1. CASE \E p \in Task : Work(p)
  BY <1>1, WorkKeeps
<1>2. CASE PollTurn
  BY <1>2, PollTurnKeeps
<1>3. CASE \E v \in Volt : Call("setV", v)
  BY <1>3, CallKeeps
<1>4. CASE \E a \in Amp : Call("setI", a)
  BY <1>4, CallKeeps
<1>5. CASE \E on \in {0, 1} : Call("setOut", on)
  BY <1>5, CallKeeps
<1>6. CASE \E s \in Slave \ {slave} : SetSlave(s)
  <2>1. Kept' /\ UNCHANGED <<family, scaleDiv, model, task>>
    <3>1. PICK s \in Slave : SetSlave(s)
      BY <1>6
    <3>2. env' \in [settled: BOOLEAN, calls: 0..MaxCalls]
      BY <1>0, <3>1, Intervened DEF SetSlave
    <3>3. nvs' \in [family: Families, slave: Slave]
      BY <1>0, <3>1 DEF SetSlave, Kept
    <3> QED
      BY <1>0, <3>1, <3>2, <3>3 DEF SetSlave, state, Kept
  <2> QED
    BY <2>1, StillKeeps
<1>7. CASE \E f \in Families \ {nvs.family} : SetFamily(f)
  <2>1. Kept' /\ UNCHANGED <<family, scaleDiv, model, task>>
    <3>1. PICK f \in Families : SetFamily(f)
      BY <1>7
    <3>2. env' \in [settled: BOOLEAN, calls: 0..MaxCalls]
      BY <1>0, <3>1, Intervened DEF SetFamily
    <3>3. nvs' \in [family: Families, slave: Slave]
      BY <1>0, <3>1 DEF SetFamily, Kept
    <3> QED
      BY <1>0, <3>1, <3>2, <3>3 DEF SetFamily, state, Kept
  <2> QED
    BY <2>1, StillKeeps
<1>8. CASE Settle
  <2>1. Kept' /\ UNCHANGED <<family, scaleDiv, model, task>>
    BY <1>0, <1>8 DEF Settle, saved, state, Kept
  <2> QED
    BY <2>1, StillKeeps
<1>9. CASE Restart
  <2>1. Kept'
    <3>1. env' \in [settled: BOOLEAN, calls: 0..MaxCalls]
      BY <1>0, <1>9, Intervened DEF Restart
    <3>2. ScaleOf[0] \in Scale /\ 0 \in Model /\ 0 \in 0..Threshold
      BY Values, PsuAssumption
    <3>3. family' \in Families /\ slave' \in Slave
      BY <1>0, <1>9 DEF Restart, Kept
    <3> QED
      BY <1>0, <1>9, <3>1, <3>2, <3>3, Values DEF Restart, Kept
  <2>2. nvs' = nvs /\ task' = FreshTasks(nvs) /\ model' = 0 /\ scaleDiv' = ScaleOf[0]
    BY <1>9 DEF Restart
  <2> QED
    BY <1>0, <2>1, <2>2, FreshKeeps DEF Kept, FreshTasks
<1>10. CASE UNCHANGED vars
  <2>1. Kept' /\ UNCHANGED <<family, scaleDiv, model, task>>
    BY <1>0, <1>10 DEF vars, saved, state, Kept
  <2> QED
    BY <2>1, StillKeeps
<1> QED
  BY <1>1, <1>2, <1>3, <1>4, <1>5, <1>6, <1>7, <1>8, <1>9, <1>10 DEF Next

LEMMA InvScales == PsuInv => CurrentScaled
<1> SUFFICES ASSUME PsuInv PROVE CurrentScaled
  OBVIOUS
<1>1. PsuTypeOK
  BY TypeParts DEF PsuInv
<1>2. ASSUME NEW p \in Task, Busy(p), Op(p) = "setI", task[p].at # "build", family = "riden",
             task[p].seen # 0
      PROVE  task[p].div = ScaleOf[task[p].seen]
  <2>1. p = "ctl"
    BY <1>2, PlanHead DEF PsuInv, Planned, Busy, Op, Task
  <2> QED
    BY <1>2, <2>1 DEF PsuInv, SeenHeld, Busy, Op
<1> QED
  BY <1>1, <1>2 DEF CurrentScaled

(* Theorem.  Wherever the polling task and the control task interleave,    *)
(* and whatever is lost on the bus, a current that psu_riden.c sends once  *)
(* a model is known is scaled for that model, and every variable keeps its *)
(* type.                                                                   *)
THEOREM AlwaysScaled == Spec => []CurrentScaled
<1>1. PsuInv /\ [Next]_vars => PsuInv'
  BY StepInv
<1> QED
  BY <1>1, InitInv, InvScales, PTL DEF Spec
=============================================================================
