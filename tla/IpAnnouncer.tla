---------------------------- MODULE IpAnnouncer ----------------------------
(***************************************************************************)
(* components/ip_announcer: the handler of the got-an-address event, the   *)
(* queue of push jobs, the task that posts them to the ntfy server, and    *)
(* the settings the control task changes.  s_lock makes every access to    *)
(* the settings and to the telemetry one step.  Provisioning composes it   *)
(* with what raises the events.                                            *)
(***************************************************************************)
EXTENDS Integers, Sequences

CONSTANTS
  Ip,         (* addresses the network hands out; NoIp is the empty string *)
  NoIp,
  Depth,      (* PUSH_QUEUE_DEPTH: 4                                       *)
  Retries     (* PUSH_RETRIES: 3                                           *)

ASSUME AnnouncerAssumption ==
  /\ NoIp \notin Ip
  /\ Depth \in Nat \ {0} /\ Retries \in Nat \ {0}

VARIABLES
  set,        (* s_settings: enable, and whether topic_is_safe             *)
  tel,        (* s_telemetry: last_pushed_ip and status                    *)
  annNvs,     (* the saved settings and last_ip                            *)
  jobs,       (* s_push_q                                                  *)
  push,       (* push_task and the job it works on                         *)
  handler,    (* ip_announcer_on_ip_event: enqueue once the lock is given  *)
  accepted    (* history: the last address the server accepted since boot  *)

annVars == <<set, tel, annNvs, jobs, push, handler, accepted>>

Settings == [on: BOOLEAN, safe: BOOLEAN]
Status   == {"NEVER", "OK", "FAILED", "DISABLED"}
Resting  == [at |-> "receive", ip |-> NoIp, tries |-> 0, status |-> "NEVER"]

AnnTypeOK ==
  /\ set \in Settings
  /\ tel \in [ip: Ip \cup {NoIp}, status: Status]
  /\ annNvs \in [set: Settings, ip: Ip \cup {NoIp}]
  /\ jobs \in Seq(Ip) /\ Len(jobs) <= Depth
  /\ push \in [at: {"receive", "check", "post", "report"}, ip: Ip \cup {NoIp},
               tries: 0..Retries, status: Status]
  /\ handler \in Ip \cup {NoIp}
  /\ accepted \in Ip \cup {NoIp}

(* The status is NEVER on every boot, the last address comes from NVS.     *)
AnnInit ==
  /\ annNvs \in [set: [on: BOOLEAN, safe: {TRUE}], ip: {NoIp}]
  /\ set = annNvs.set
  /\ tel = [ip |-> annNvs.ip, status |-> "NEVER"]
  /\ jobs = << >> /\ push = Resting /\ handler = NoIp /\ accepted = NoIp

AnnReset ==
  /\ set' = annNvs.set
  /\ tel' = [ip |-> annNvs.ip, status |-> "NEVER"]
  /\ jobs' = << >> /\ push' = Resting /\ handler' = NoIp /\ accepted' = NoIp
  /\ UNCHANGED annNvs

-----------------------------------------------------------------------------
Same(ip) == tel.ip = ip /\ tel.status = "OK"

\* Mutant: the status is not looked at.
OnGotIpWhateverStatus(ip) ==
  /\ handler = NoIp
  /\ handler' = IF set.on /\ tel.ip # ip THEN ip ELSE NoIp
  /\ UNCHANGED <<set, tel, annNvs, jobs, push, accepted>>

(* The event handler, under the lock: an address that has been pushed is   *)
(* not pushed again.                                                       *)
OnGotIp(ip) ==
  /\ handler = NoIp
  /\ handler' = IF set.on /\ ~Same(ip) THEN ip ELSE NoIp
  /\ UNCHANGED <<set, tel, annNvs, jobs, push, accepted>>

\* Mutant: the queue has no limit.
EnqueueAlways(ip) == jobs' = Append(jobs, ip)

(* A full queue loses the job.                                             *)
Enqueue(ip) == jobs' = IF Len(jobs) < Depth THEN Append(jobs, ip) ELSE jobs

HandlerEnqueues ==
  /\ handler # NoIp
  /\ Enqueue(handler) /\ handler' = NoIp
  /\ UNCHANGED <<set, tel, annNvs, push, accepted>>

TestPush(ip) ==
  /\ Enqueue(ip)
  /\ UNCHANGED <<set, tel, annNvs, push, handler, accepted>>

(* Settings of the control task; the write to NVS may fail, which leaves   *)
(* the setting in force until the next boot.                               *)
SetSettings(s) ==
  /\ set' = s
  /\ annNvs' \in {annNvs, [annNvs EXCEPT !.set = s]}
  /\ UNCHANGED <<tel, jobs, push, handler, accepted>>

SetEnable(on) == SetSettings([set EXCEPT !.on = on])

-----------------------------------------------------------------------------
TakeJob ==
  /\ push.at = "receive" /\ jobs # << >>
  /\ push' = [Resting EXCEPT !.at = "check", !.ip = Head(jobs)]
  /\ jobs' = Tail(jobs)
  /\ UNCHANGED <<set, tel, annNvs, handler, accepted>>

(* The settings are copied once per job.                                   *)
CheckJob ==
  /\ push.at = "check"
  /\ push' = [push EXCEPT
       !.at = IF set.on /\ set.safe THEN "post" ELSE "report",
       !.status = CASE ~set.on -> "DISABLED"
                    [] set.on /\ ~set.safe -> "FAILED"
                    [] OTHER -> @]
  /\ UNCHANGED <<set, tel, annNvs, jobs, handler, accepted>>

\* Mutant: the server's refusal ends the attempts like its consent.
PostTakesAnyAnswer ==
  /\ push.at = "post"
  /\ \E accept \in BOOLEAN :
       /\ push' = [push EXCEPT !.at = "report", !.status = "OK"]
       /\ accepted' = IF accept THEN push.ip ELSE accepted
  /\ UNCHANGED <<set, tel, annNvs, jobs, handler>>

\* Mutant: the count of attempts starts again instead of ending them.
PostStartsOver ==
  /\ push.at = "post"
  /\ \/ push' = [push EXCEPT !.at = "report", !.status = "OK"] /\ accepted' = push.ip
     \/ push' = [push EXCEPT !.tries = (@ + 1) % Retries] /\ UNCHANGED accepted
  /\ UNCHANGED <<set, tel, annNvs, jobs, handler>>

(* One attempt: accepted, refused for good (4xx), or anything else, which  *)
(* is tried again while attempts are left - and may have got through.      *)
Post ==
  /\ push.at = "post"
  /\ \/ /\ push' = [push EXCEPT !.at = "report", !.status = "OK"]
        /\ accepted' = push.ip
     \/ /\ push' = [push EXCEPT !.at = "report", !.status = "FAILED"]
        /\ UNCHANGED accepted
     \/ /\ push' = IF push.tries + 1 < Retries THEN [push EXCEPT !.tries = @ + 1]
                   ELSE [push EXCEPT !.at = "report", !.status = "FAILED"]
        /\ UNCHANGED accepted
  /\ UNCHANGED <<set, tel, annNvs, jobs, handler>>

(* ip_announcer_priv_set_telemetry.                                        *)
Report ==
  /\ push.at = "report"
  /\ tel' = [ip |-> push.ip, status |-> push.status]
  /\ annNvs' \in {annNvs, IF push.status = "OK" THEN [annNvs EXCEPT !.ip = push.ip] ELSE annNvs}
  /\ push' = Resting
  /\ UNCHANGED <<set, jobs, handler, accepted>>

PushTask == TakeJob \/ CheckJob \/ Post \/ Report

-----------------------------------------------------------------------------
(* Property.  While the telemetry says OK, which is what the handler skips *)
(* an address on, the address it names is the last one that the server     *)
(* accepted in this boot, unless a newer consent is about to be reported.  *)
StatusTruthful ==
  (tel.status = "OK" /\ push.status # "OK") => tel.ip = accepted
=============================================================================
