----------------------------- MODULE PsuDriver -----------------------------
(***************************************************************************)
(* components/psu_driver: the bench supply on UART1, shared by the polling *)
(* task ("psu") and the control task ("ctl", the only caller of the        *)
(* setters).  The UART mutex makes a transaction one step; what is read    *)
(* before it and what is stored after it are steps of their own, and the   *)
(* link state is kept by both tasks without a lock.                        *)
(*                                                                         *)
(* Volts are registers as they are.  A current register holds amperes      *)
(* times the scale of the model, so a published current is the register    *)
(* with the scale it was divided by.  What the supply measures is left out.*)
(***************************************************************************)
EXTENDS Integers, Sequences

CONSTANTS
  Families,   (* of {"riden", "xy_sk120", "wz5005"}                        *)
  ModelOf,    (* slave address -> the model answering there; 0: nobody     *)
  ScaleOf,    (* RD_MODELS: model -> current scale; ScaleOf[0] the default *)
  DefaultSlave, (* CONFIG_APP_PSU_SLAVE_DEFAULT                            *)
  Volt, Amp,  (* what may be asked for                                     *)
  Refusals,   (* registers that the bytes of a WZ5005's refusal read as    *)
  Threshold,  (* LINK_FAIL_THRESHOLD: 5                                    *)
  MaxCalls    (* bound: commands, family choices and restarts               *)

Slave == DOMAIN ModelOf
Model == DOMAIN ScaleOf
Task  == {"psu", "ctl"}
Scale == {ScaleOf[m] : m \in Model}
Raw   == {a * s : a \in Amp \cup {0}, s \in Scale}
Regs  == [v: Volt \cup {0}, i: Raw, on: BOOLEAN]

ASSUME PsuAssumption ==
  /\ Families \subseteq {"riden", "xy_sk120", "wz5005"}
  /\ Threshold \in Nat \ {0} /\ MaxCalls \in Nat
  /\ Volt \subseteq Nat /\ Amp \subseteq Nat
  /\ 0 \in Model /\ Scale \subseteq Nat \ {0}
  /\ Refusals \subseteq Regs
  /\ DefaultSlave \in Slave /\ \A s \in Slave : ModelOf[s] \in Model

VARIABLES
  family, slave, (* s_backend and s_slave_addr                             *)
  nvs,           (* the saved family and slave                             *)
  dev,           (* the registers of the supply at each address            *)
  scaleDiv,      (* s_i_scale_div of psu_riden.c                           *)
  cache,         (* s_last_vi and s_have_vi of psu_wz5005.c                *)
  link, fails,   (* s_link_ok and s_link_fails                             *)
  model,         (* s_model_id                                             *)
  pub,           (* s_v_set_bits, s_i_set_bits, s_output_on, s_i_scale_bits*)
  task,          (* what each task is doing                                *)
  env            (* settled: the bus is sound and nobody intervenes;       *)
                 (* calls: interventions so far                            *)

saved == <<family, slave, nvs>>
state == <<scaleDiv, cache, link, fails, model, pub>>
vars  == <<saved, dev, state, task, env>>

WZ          == family = "wz5005"
DevScale(s) == IF family = "riden" THEN ScaleOf[ModelOf[s]] ELSE ScaleOf[0]
DivNow      == IF family = "riden" THEN scaleDiv ELSE ScaleOf[0]
ZeroRegs    == [v |-> 0, i |-> 0, on |-> FALSE]

PsuTypeOK ==
  /\ family \in Families /\ slave \in Slave
  /\ nvs \in [family: Families, slave: Slave]
  /\ dev \in [Slave -> Regs]
  /\ scaleDiv \in Scale
  /\ cache \in [have: BOOLEAN, v: Volt \cup {0}, i: Raw]
  /\ link \in BOOLEAN /\ fails \in 0..Threshold
  /\ model \in Model
  /\ pub \in [v: Volt \cup {0}, i: Raw, div: Scale, on: BOOLEAN, scale: Scale]
  /\ task \in [Task -> [plan: Seq({"mode", "model", "vi", "out", "setV", "setI", "setOut"}),
                        at: {"build", "txn", "count", "link", "store", "model", "scale"},
                        ok: BOOLEAN, to: Slave, arg: Regs, div: Scale,
                        want: Volt \cup Amp \cup {0, 1}, seen: Model]]
  /\ env \in [settled: BOOLEAN, calls: 0..MaxCalls]

Detect(f) == IF f = "wz5005" THEN <<"mode", "model">> ELSE <<"model">>

NewTask(plan, s) ==
  [plan |-> plan, at |-> "build", ok |-> FALSE, to |-> s, arg |-> ZeroRegs,
   div |-> ScaleOf[0], want |-> 0, seen |-> 0]

Idle      == NewTask(<< >>, CHOOSE s \in Slave : TRUE)

(* After a reset: nothing known, the polling task about to detect.         *)
FreshCache    == [have |-> FALSE, v |-> 0, i |-> 0]
FreshPub      == [v |-> 0, i |-> 0, div |-> ScaleOf[0], on |-> FALSE, scale |-> ScaleOf[0]]
FreshTasks(n) == [psu |-> NewTask(Detect(n.family), n.slave), ctl |-> Idle]

Init ==
  /\ nvs \in [family: Families, slave: {DefaultSlave}]
  /\ family = nvs.family /\ slave = nvs.slave
  /\ dev = [s \in Slave |-> ZeroRegs]
  /\ scaleDiv = ScaleOf[0] /\ cache = FreshCache /\ pub = FreshPub
  /\ link = FALSE /\ fails = 0 /\ model = 0
  /\ task = FreshTasks(nvs)
  /\ env = [settled |-> FALSE, calls |-> 0]

-----------------------------------------------------------------------------
Op(p)    == Head(task[p].plan)
Busy(p)  == task[p].plan # << >>
Goto(p, at)   == task' = [task EXCEPT ![p].at = at]
Finish(p) == task' = [task EXCEPT ![p] =
  IF Len(@.plan) = 1 THEN Idle
  ELSE [NewTask(Tail(@.plan), @.to) EXCEPT !.want = task[p].want, !.seen = task[p].seen]]
Abandon(p) == task' = [task EXCEPT ![p] = Idle]

(* The registers an operation leaves in the supply.  The WZ5005 is written *)
(* voltage and current together.                                           *)
After(p, d) ==
  CASE Op(p) = "setV" -> IF WZ THEN [d EXCEPT !.v = task[p].arg.v, !.i = task[p].arg.i]
                         ELSE [d EXCEPT !.v = task[p].arg.v]
    [] Op(p) = "setI" -> IF WZ THEN [d EXCEPT !.v = task[p].arg.v, !.i = task[p].arg.i]
                         ELSE [d EXCEPT !.i = task[p].arg.i]
    [] Op(p) = "setOut" -> [d EXCEPT !.on = task[p].arg.on]
    [] OTHER -> d

(* Before the transaction: the slave, which a poll reads once for its two  *)
(* reads, the scale, and for the WZ5005 the other half of the block.       *)
Request(p) ==
  LET w == task[p].want IN
  CASE Op(p) = "setV"   -> [v |-> w, i |-> cache.i, on |-> FALSE]
    [] Op(p) = "setI"   -> [v |-> cache.v, i |-> w * DivNow, on |-> FALSE]
    [] Op(p) = "setOut" -> [ZeroRegs EXCEPT !.on = (w = 1)]
    [] OTHER            -> ZeroRegs

Build(p) ==
  /\ Busy(p) /\ task[p].at = "build"
  /\ task' = [task EXCEPT ![p].at  = "txn",
                          ![p].to  = IF Op(p) = "out" THEN @ ELSE slave,
                          ![p].div = IF Op(p) = "setI" THEN DivNow ELSE @,
                          ![p].arg = Request(p)]
  /\ UNCHANGED <<saved, dev, state, env>>

Reads == {"vi", "out"}

(* One exchange under the UART mutex: the supply answers, or the mutex,    *)
(* the write, the answer or its checksum fails - after the supply has      *)
(* acted on the request, or before.  A WZ5005 may answer that it refuses:  *)
(* a frame like any other to wz_txn, counted as a success, whose bytes are *)
(* taken for the registers that were asked for.                            *)
Exchange(p, s, at, plan) ==
  /\ Busy(p) /\ task[p].at = "txn"
  /\ \/ /\ ModelOf[s] # 0
        /\ dev' = [dev EXCEPT ![s] = After(p, @)]
        /\ task' = [task EXCEPT ![p].at = at, ![p].plan = plan, ![p].ok = TRUE, ![p].to = s,
                                ![p].arg = IF Op(p) \in Reads THEN dev[s] ELSE @]
     \/ /\ WZ /\ ~env.settled /\ ModelOf[s] # 0
        /\ \E r \in IF Op(p) \in Reads THEN Refusals ELSE {task[p].arg} :
             task' = [task EXCEPT ![p].at = at, ![p].plan = plan, ![p].ok = TRUE, ![p].to = s,
                                  ![p].arg = r]
        /\ UNCHANGED dev
     \/ /\ ~env.settled \/ ModelOf[s] = 0
        /\ dev' \in {dev, [dev EXCEPT ![s] = IF ModelOf[s] = 0 THEN @ ELSE After(p, @)]}
        /\ task' = [task EXCEPT ![p].at = at, ![p].plan = plan, ![p].ok = FALSE,
                                ![p].arg = ZeroRegs]
  /\ UNCHANGED <<saved, state, env>>

ModbusTxn(p) == ~WZ /\ Exchange(p, task[p].to, "count", task[p].plan)

(* The WZ5005 frame takes the slave address inside the mutex; nothing is   *)
(* made of what comes back for the request for remote mode.                *)
WzTxn(p) ==
  /\ WZ /\ Busy(p)
  /\ IF Op(p) = "mode" THEN Exchange(p, slave, "build", Tail(task[p].plan))
     ELSE Exchange(p, slave, "count", task[p].plan)

(* note_txn_result, as two accesses: the counter, then the flag - which a  *)
(* failure only clears when it takes the counter to the threshold.         *)
CountResult(p) ==
  /\ Busy(p) /\ task[p].at = "count"
  /\ fails' = IF task[p].ok THEN 0 ELSE IF fails < Threshold THEN fails + 1 ELSE fails
  /\ Goto(p, IF task[p].ok \/ (fails < Threshold /\ fails' = Threshold) THEN "link" ELSE "store")
  /\ UNCHANGED <<saved, dev, scaleDiv, cache, link, model, pub, env>>

NoteLink(p) ==
  /\ Busy(p) /\ task[p].at = "link"
  /\ link' = task[p].ok
  /\ Goto(p, "store")
  /\ UNCHANGED <<saved, dev, scaleDiv, cache, fails, model, pub, env>>

Storing(p, ops) ==
  Busy(p) /\ task[p].at = "store" /\ Op(p) \in ops
    /\ UNCHANGED <<saved, dev, scaleDiv, link, fails, model, env>>

(* The voltage and current block: published, kept by the WZ5005 for its    *)
(* next set.  A set that needed the block and did not get it gives up.     *)
StoreBlock(p) ==
  LET a == task[p].arg IN
  /\ Storing(p, {"vi"})
  /\ IF task[p].ok
     THEN /\ cache' = IF WZ THEN [have |-> TRUE, v |-> a.v, i |-> a.i] ELSE cache
          /\ pub' = [pub EXCEPT !.v = a.v, !.i = a.i, !.div = DivNow]
     ELSE UNCHANGED <<cache, pub>>
  /\ IF p = "ctl" /\ ~task[p].ok THEN Abandon(p) ELSE Finish(p)

StoreOutput(p) ==
  /\ Storing(p, {"out"})
  /\ pub' = IF task[p].ok THEN [pub EXCEPT !.on = task[p].arg.on] ELSE pub
  /\ Finish(p) /\ UNCHANGED cache

(* A set that succeeded is published without waiting for the next poll.    *)
StoreSet(p) ==
  LET t == task[p] IN
  /\ Storing(p, {"setV", "setI", "setOut"})
  /\ pub' = CASE ~t.ok -> pub
              [] t.ok /\ Op(p) = "setV"   -> [pub EXCEPT !.v = t.arg.v]
              [] t.ok /\ Op(p) = "setI"   -> [pub EXCEPT !.i = t.arg.i, !.div = t.div]
              [] t.ok /\ Op(p) = "setOut" -> [pub EXCEPT !.on = t.arg.on]
  /\ cache' = IF t.ok /\ WZ /\ Op(p) # "setOut"
              THEN [have |-> TRUE, v |-> t.arg.v, i |-> t.arg.i] ELSE cache
  /\ Finish(p)

Detected(p) == IF task[p].ok THEN ModelOf[task[p].to] ELSE 0

\* Mutant: the model is published before the scale is stored.
ModelBeforeScale(p) ==
  /\ Busy(p) /\ Op(p) = "model"
  /\ \/ /\ task[p].at = "store"
        /\ model' = Detected(p) /\ UNCHANGED scaleDiv
        /\ Goto(p, "model")
     \/ /\ task[p].at = "model"
        /\ scaleDiv' = ScaleOf[Detected(p)] /\ UNCHANGED model
        /\ Goto(p, "scale")
  /\ UNCHANGED <<saved, dev, cache, link, fails, pub, env>>

(* The end of a detection: the scale that currents are sent with, then the *)
(* model, then the scale that is shown.                                    *)
StoreScale(p) ==
  /\ Busy(p) /\ task[p].at = "store" /\ Op(p) = "model"
  /\ scaleDiv' = IF family = "riden" THEN ScaleOf[Detected(p)] ELSE scaleDiv
  /\ Goto(p, "model")
  /\ UNCHANGED <<saved, dev, cache, link, fails, model, pub, env>>

PublishModel(p) ==
  /\ Busy(p) /\ task[p].at = "model"
  /\ model' = Detected(p)
  /\ Goto(p, "scale")
  /\ UNCHANGED <<saved, dev, scaleDiv, cache, link, fails, pub, env>>

PublishScale(p) ==
  /\ Busy(p) /\ task[p].at = "scale"
  /\ pub' = [pub EXCEPT !.scale = IF family = "riden" THEN ScaleOf[Detected(p)]
                                  ELSE ScaleOf[0]]
  /\ Finish(p)
  /\ UNCHANGED <<saved, dev, scaleDiv, cache, link, fails, model, env>>

Work(p) == \/ Build(p) \/ ModbusTxn(p) \/ WzTxn(p) \/ CountResult(p) \/ NoteLink(p)
           \/ StoreBlock(p) \/ StoreOutput(p) \/ StoreSet(p)
           \/ StoreScale(p) \/ PublishModel(p) \/ PublishScale(p)

Poll == <<"vi", "out">>

\* Mutant: a poll reads the voltage and the current only.
PollReadsBlockOnly ==
  /\ ~Busy("psu")
  /\ LET detect == IF model = 0 /\ link THEN Detect(family) ELSE << >>
     IN task' = [task EXCEPT !["psu"] = NewTask(detect \o <<"vi">>, slave)]
  /\ UNCHANGED <<saved, dev, state, env>>

(* A turn of psu_task_fn: detect again once the supply answers but its     *)
(* model is not known, and poll.                                           *)
PollTurn ==
  /\ ~Busy("psu")
  /\ LET detect == IF model = 0 /\ link THEN Detect(family) ELSE << >>
     IN task' = [task EXCEPT !["psu"] = NewTask(detect \o Poll, slave)]
  /\ UNCHANGED <<saved, dev, state, env>>

Intervene == ~env.settled /\ env.calls < MaxCalls /\ env' = [env EXCEPT !.calls = @ + 1]

(* The control task serves a set command.                                  *)
Call(op, w) ==
  /\ Intervene /\ ~Busy("ctl")
  /\ task' = [task EXCEPT !["ctl"] = [NewTask(
        (IF op # "setOut" /\ WZ /\ ~cache.have THEN <<"vi">> ELSE << >>) \o <<op>>, slave)
        EXCEPT !.want = w, !.seen = IF op = "setI" THEN model ELSE 0]]
  /\ UNCHANGED <<saved, dev, state>>

SetSlave(s) ==
  /\ Intervene /\ ~Busy("ctl")
  /\ slave' = s /\ nvs' = [nvs EXCEPT !.slave = s]
  /\ UNCHANGED <<family, dev, state, task>>

(* Called by the web server and the console; read at the next boot.        *)
SetFamily(f) ==
  /\ Intervene
  /\ nvs' = [nvs EXCEPT !.family = f]
  /\ UNCHANGED <<family, slave, dev, state, task>>

(* The settings survive a restart; the supply keeps running.               *)
Restart ==
  /\ Intervene
  /\ family' = nvs.family /\ slave' = nvs.slave
  /\ scaleDiv' = ScaleOf[0] /\ cache' = FreshCache /\ pub' = FreshPub
  /\ link' = FALSE /\ fails' = 0 /\ model' = 0
  /\ task' = FreshTasks(nvs)
  /\ UNCHANGED <<nvs, dev>>

(* The bus is sound from now on and nobody intervenes any more.  Between   *)
(* two turns of the poll, with no command in progress, is enough: whatever *)
(* was in progress could also have ended as it does on a sound bus.        *)
Settle ==
  /\ ~env.settled /\ \A p \in Task : ~Busy(p)
  /\ env' = [env EXCEPT !.settled = TRUE]
  /\ UNCHANGED <<saved, dev, state, task>>

Next ==
  \/ \E p \in Task : Work(p)
  \/ PollTurn
  \/ \E v \in Volt : Call("setV", v)
  \/ \E a \in Amp : Call("setI", a)
  \/ \E on \in {0, 1} : Call("setOut", on)
  \/ \E s \in Slave \ {slave} : SetSlave(s)
  \/ \E f \in Families \ {nvs.family} : SetFamily(f)
  \/ Settle
  \/ Restart

Spec     == Init /\ [][Next]_vars
FairSpec == Spec /\ WF_vars(Work("psu") \/ PollTurn) /\ WF_vars(Work("ctl"))
-----------------------------------------------------------------------------
Answers == ModelOf[slave] # 0

(* Property.  Once a model is known, a current is sent with the scale of   *)
(* that model: the scale is in place before the model is published, and a  *)
(* detection that fails never takes it away from a known model.  Every     *)
(* variable keeps its type: the unlocked counter never passes the limit.   *)
CurrentScaled ==
  /\ PsuTypeOK
  /\ \A p \in Task :
       (Busy(p) /\ Op(p) = "setI" /\ task[p].at # "build" /\ family = "riden" /\ task[p].seen # 0)
         => task[p].div = ScaleOf[task[p].seen]

(* Property.  When the bus is sound again, the link is seen and the model  *)
(* detected for good, whatever the two tasks made of the unlocked counter  *)
(* and flag before; and what is published ends up as what the supply       *)
(* holds, although a poll may publish registers it read before a newer     *)
(* set, and a write may have reached the supply and its answer got lost.   *)
DriverConverges ==
  <>[](env.settled /\ Answers) =>
    <>[](/\ link /\ fails = 0 /\ model # 0
         /\ LET d == dev[slave] IN /\ pub.v = d.v /\ pub.on = d.on
                                   /\ pub.i = d.i /\ pub.div = DevScale(slave))

(* Property, refuted with two supplies of different scales.  A slave       *)
(* address may be changed without a restart: a current set once a model is *)
(* known means to the supply addressed what it meant to the caller.        *)
SwitchedSlaveScaled ==
  LET t == task["ctl"] IN
  (Busy("ctl") /\ Op("ctl") = "setI" /\ t.at = "store" /\ t.ok /\ t.seen # 0)
    => t.arg.i = t.want * DevScale(t.to)
=============================================================================
