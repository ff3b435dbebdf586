---------------------------- MODULE Provisioning ----------------------------
(***************************************************************************)
(* components/net_dashboard/provisioning.c with captive_portal.c and       *)
(* dns_hijack.c, over the Wi-Fi driver and the default event loop, and     *)
(* composed with the announcer, whose handler is registered first and so   *)
(* sees a new address before the main task is told of it.                  *)
(*                                                                         *)
(* Tasks: main (app_main in net_dashboard_start), the event loop, the web  *)
(* server of the portal, the task that ends the grace of the soft AP, and  *)
(* those of IpAnnouncer.  The driver and the radio are external.           *)
(***************************************************************************)
EXTENDS IpAnnouncer

CONSTANTS
  Good, Bad,  (* credentials that the network takes and does not take      *)
  Blank,      (* no credentials                                            *)
  Plans       (* bounds: how many credentials may be posted, settings or   *)
              (* test pushes made, links lost and restarts made in one     *)
              (* behaviour, whether it begins with announcements on, and   *)
              (* which addresses its network hands out                     *)

ASSUME ProvAssumption ==
  Plans \subseteq [posts: Nat, sets: Nat, drops: Nat, boots: Nat, on: BOOLEAN, ips: SUBSET Ip]

VARIABLES
  wifi,       (* the driver: mode, station, saved credentials, address     *)
  evq,        (* the default event loop                                    *)
  event,      (* what its task is handling, "none", and how far            *)
  bits,       (* s_ev                                                      *)
  inWait,     (* s_in_captive_wait                                         *)
  main,       (* where the main task is                                    *)
  http,       (* the portal's web server: on_credentials and its reply     *)
  ap,         (* ap_grace_task: "none", "grace", "over"; and the hijack    *)
  left        (* of the plan                                               *)

provVars == <<wifi, evq, event, bits, inWait, main, http, ap, left>>
vars     == <<annVars, provVars>>

NoEvent == [kind |-> "none", ip |-> NoIp]
Event   == [kind: {"start", "disc", "ip"}, ip: Ip \cup {NoIp}]
Ev(k)   == [kind |-> k, ip |-> NoIp]
Creds   == {Good, Bad, Blank}

ProvTypeOK ==
  /\ AnnTypeOK
  /\ wifi \in [mode: {"OFF", "STA", "AP", "APSTA"}, sta: {"off", "idle", "connecting", "up"},
               cfg: Creds, ip: Ip \cup {NoIp}]
  /\ evq \in Seq(Event)
  /\ event \in [e: Event \cup {NoEvent}, at: {"announcer", "flag", "bit", "connect"}]
  /\ bits \subseteq {"GOT_IP", "STA_FAIL"}
  /\ inWait \in BOOLEAN
  /\ main \in {"boot", "sta", "portal", "linger", "stop", "run"}
  /\ http \in [at: {"off", "idle", "mode", "config", "clear", "flag", "connect", "wait",
                    "woken", "disconnect", "blank", "ap"},
               cfg: Creds, got: SUBSET {"GOT_IP", "STA_FAIL"}, reply: {"none", "ok", "error"}]
  /\ ap \in [task: {"none", "grace", "over"}, dns: BOOLEAN]
  /\ left \in [posts: Nat, sets: Nat, drops: Nat, boots: Nat,
               on: BOOLEAN, ips: SUBSET Ip]

Off    == [at |-> "off", cfg |-> Blank, got |-> {}, reply |-> "none"]
Handle == [e |-> NoEvent, at |-> "announcer"]

Init ==
  /\ AnnInit
  /\ \E c \in Creds : wifi = [mode |-> "OFF", sta |-> "off", cfg |-> c, ip |-> NoIp]
  /\ evq = << >> /\ event = Handle
  /\ bits = {} /\ inWait = FALSE /\ main = "boot" /\ http = Off
  /\ ap = [task |-> "none", dns |-> FALSE]
  /\ left \in Plans /\ set.on = left.on

(* A restart, by whatever cause; cfg is what the driver has in NVS then.   *)
Reboot(cfg) ==
  /\ left.boots > 0
  /\ AnnReset
  /\ wifi' = [mode |-> "OFF", sta |-> "off", cfg |-> cfg, ip |-> NoIp]
  /\ evq' = << >> /\ event' = Handle
  /\ bits' = {} /\ inWait' = FALSE /\ main' = "boot" /\ http' = Off
  /\ ap' = [task |-> "none", dns |-> FALSE]
  /\ left' = [left EXCEPT !.boots = @ - 1]

-----------------------------------------------------------------------------
(* The Wi-Fi driver.  A connection that ends, or an attempt that fails, is *)
(* a "disc" event; a station that comes up is a "start" event.             *)
HasSta(m) == m \in {"STA", "APSTA"}

Connected(w) == IF w.sta = "idle" /\ w.cfg # Blank THEN [w EXCEPT !.sta = "connecting"] ELSE w
Dropped(w)   == [w EXCEPT !.sta = "idle", !.ip = NoIp]
InMode(w, m) == [w EXCEPT !.mode = m,
                          !.sta = IF ~HasSta(m) THEN "off" ELSE IF @ = "off" THEN "idle" ELSE @,
                          !.ip = IF HasSta(m) THEN @ ELSE NoIp]

esp_wifi_connect == wifi' = Connected(wifi) /\ UNCHANGED evq

esp_wifi_disconnect ==
  IF wifi.sta \in {"connecting", "up"}
  THEN wifi' = Dropped(wifi) /\ evq' = Append(evq, Ev("disc"))
  ELSE UNCHANGED <<wifi, evq>>

esp_wifi_set_mode(m) ==
  /\ wifi' = InMode(wifi, m)
  /\ evq' = CASE HasSta(m) /\ wifi.sta = "off" -> Append(evq, Ev("start"))
              [] ~HasSta(m) /\ wifi.sta \in {"connecting", "up"} -> Append(evq, Ev("disc"))
              [] OTHER -> evq

Associate ==
  /\ wifi.sta = "connecting"
  /\ \/ /\ wifi.cfg = Good
        /\ \E i \in left.ips : /\ wifi' = [wifi EXCEPT !.sta = "up", !.ip = i]
                               /\ evq' = Append(evq, [kind |-> "ip", ip |-> i])
     \/ wifi' = Dropped(wifi) /\ evq' = Append(evq, Ev("disc"))
  /\ UNCHANGED <<annVars, event, bits, inWait, main, http, ap, left>>

LoseLink ==
  /\ wifi.sta = "up" /\ left.drops > 0
  /\ left' = [left EXCEPT !.drops = @ - 1]
  /\ wifi' = Dropped(wifi) /\ evq' = Append(evq, Ev("disc"))
  /\ UNCHANGED <<annVars, event, bits, inWait, main, http, ap>>

-----------------------------------------------------------------------------
(* xEventGroupSetBits wakes every waiter at once: the main task, which     *)
(* leaves the bit, and on_credentials, which clears both bits.             *)
SetBits(b) ==
  /\ IF http.at = "wait"
     THEN /\ http' = [http EXCEPT !.at = "woken", !.got = bits \cup {b}]
          /\ bits' = {}
     ELSE bits' = bits \cup {b} /\ UNCHANGED http
  /\ main' = CASE b = "GOT_IP" /\ main = "sta"    -> "run"
               [] b = "GOT_IP" /\ main = "portal" -> "linger"
               [] OTHER -> main

TakeEvent ==
  /\ event.e = NoEvent /\ evq # << >>
  /\ evq' = Tail(evq)
  /\ event' = [e |-> Head(evq),
               at |-> CASE Head(evq).kind = "ip" -> "announcer"
                        [] Head(evq).kind = "disc" -> "flag"
                        [] OTHER -> "connect"]
  /\ UNCHANGED <<annVars, wifi, bits, inWait, main, http, ap, left>>

AnnouncerHandles ==
  /\ event.e.kind = "ip" /\ event.at = "announcer"
  /\ OnGotIp(event.e.ip)
  /\ event' = [event EXCEPT !.at = "bit"]
  /\ UNCHANGED <<wifi, evq, bits, inWait, main, http, ap, left>>

AnnouncerEnqueues == HandlerEnqueues /\ UNCHANGED provVars

(* on_wifi_event.                                                          *)
GotIp ==
  /\ event.at = "bit" /\ handler = NoIp
  /\ SetBits("GOT_IP") /\ event' = Handle
  /\ UNCHANGED <<annVars, wifi, evq, inWait, ap, left>>

FlagDisconnect ==
  /\ event.at = "flag"
  /\ IF inWait THEN SetBits("STA_FAIL") ELSE UNCHANGED <<bits, http, main>>
  /\ event' = [event EXCEPT !.at = "connect"]
  /\ UNCHANGED <<annVars, wifi, evq, inWait, ap, left>>

\* Mutant: a connection that ends is not tried again.
ConnectOnStart ==
  /\ event.at = "connect"
  /\ IF event.e.kind = "start" THEN esp_wifi_connect ELSE UNCHANGED <<wifi, evq>>
  /\ event' = Handle
  /\ UNCHANGED <<annVars, bits, inWait, main, http, ap, left>>

(* After a start and after a disconnection alike.                          *)
Connect ==
  /\ event.at = "connect"
  /\ esp_wifi_connect /\ event' = Handle
  /\ UNCHANGED <<annVars, bits, inWait, main, http, ap, left>>

EventTask == TakeEvent \/ AnnouncerHandles \/ AnnouncerEnqueues \/ GotIp
             \/ FlagDisconnect \/ Connect

-----------------------------------------------------------------------------
(* save_wifi_post of the portal, whose server handles one request at a     *)
(* time; a body it refuses changes nothing.                                *)
Post_save_wifi(cfg) ==
  /\ http.at = "idle" /\ main \in {"portal", "linger"}
  /\ left.posts > 0
  /\ http' = [at |-> "mode", cfg |-> cfg, got |-> {}, reply |-> "none"]
  /\ left' = [left EXCEPT !.posts = @ - 1]
  /\ UNCHANGED <<annVars, wifi, evq, event, bits, inWait, main, ap>>

HttpGoes(at) == http' = [http EXCEPT !.at = at]
Elsewhere    == UNCHANGED <<annVars, event, main, ap, left>>

(* on_credentials: both interfaces on, the new credentials, old bits       *)
(* cleared, the flag, the attempt.  A driver that is connecting may refuse *)
(* credentials, which aborts.                                              *)
ApplyMode   == /\ http.at = "mode" /\ esp_wifi_set_mode("APSTA") /\ HttpGoes("config")
               /\ UNCHANGED <<bits, inWait>> /\ Elsewhere
ApplyConfig == /\ http.at = "config" /\ HttpGoes("clear")
               /\ wifi' = [wifi EXCEPT !.cfg = http.cfg]
               /\ UNCHANGED <<evq, bits, inWait>> /\ Elsewhere
ConfigRefused == http.at = "config" /\ wifi.sta = "connecting" /\ Reboot(wifi.cfg)
ClearBits   == /\ http.at = "clear" /\ bits' = {} /\ HttpGoes("flag")
               /\ UNCHANGED <<wifi, evq, inWait>> /\ Elsewhere
RaiseFlag   == /\ http.at = "flag" /\ inWait' = TRUE /\ HttpGoes("connect")
               /\ UNCHANGED <<wifi, evq, bits>> /\ Elsewhere
TryConnect  == /\ http.at = "connect" /\ esp_wifi_connect /\ HttpGoes("wait")
               /\ UNCHANGED <<bits, inWait>> /\ Elsewhere

(* The wait ends by a bit that was there already, by SetBits, or after 20 s.*)
WaitEnds ==
  /\ http.at = "wait"
  /\ http' = [http EXCEPT !.at = "woken", !.got = bits]
  /\ bits' = {}
  /\ UNCHANGED <<wifi, evq, inWait>> /\ Elsewhere

\* Mutant: any bit that ends the wait counts as success.
DecideAnyBit ==
  /\ http.at = "woken" /\ inWait' = FALSE
  /\ http' = IF http.got # {}
             THEN [http EXCEPT !.at = "idle", !.cfg = Blank, !.got = {}, !.reply = "ok"]
             ELSE [http EXCEPT !.at = "disconnect"]
  /\ UNCHANGED <<wifi, evq, bits>> /\ Elsewhere

Decide ==
  /\ http.at = "woken" /\ inWait' = FALSE
  /\ http' = IF "GOT_IP" \in http.got
             THEN [http EXCEPT !.at = "idle", !.cfg = Blank, !.got = {}, !.reply = "ok"]
             ELSE [http EXCEPT !.at = "disconnect", !.got = {}]
  /\ UNCHANGED <<wifi, evq, bits>> /\ Elsewhere

(* The way back to the soft AP; a refusal to blank the credentials is not  *)
(* noticed.                                                                *)
RollDisconnect == /\ http.at = "disconnect" /\ esp_wifi_disconnect /\ HttpGoes("blank")
                  /\ UNCHANGED <<bits, inWait>> /\ Elsewhere
RollBlank      == /\ http.at = "blank" /\ HttpGoes("ap")
                  /\ \/ wifi' = [wifi EXCEPT !.cfg = Blank]
                     \/ wifi.sta = "connecting" /\ UNCHANGED wifi
                  /\ UNCHANGED <<evq, bits, inWait>> /\ Elsewhere
RollMode       == /\ http.at = "ap" /\ esp_wifi_set_mode("AP")
                  /\ http' = [http EXCEPT !.at = "idle", !.cfg = Blank, !.reply = "error"]
                  /\ UNCHANGED <<bits, inWait>> /\ Elsewhere

OnCredentials == ApplyMode \/ ApplyConfig \/ ConfigRefused \/ ClearBits \/ RaiseFlag
                 \/ TryConnect \/ WaitEnds \/ Decide
                 \/ RollDisconnect \/ RollBlank \/ RollMode

-----------------------------------------------------------------------------
(* provisioning_run_and_connect: with credentials, the station, and the    *)
(* main task waits for an address however long it takes; without, the soft *)
(* AP, the DNS hijack and the portal.  A start ends in the wait: a station *)
(* takes far longer to get an address than the main task to come there.    *)
StartSta ==
  /\ main = "boot" /\ wifi.cfg # Blank
  /\ esp_wifi_set_mode("STA") /\ main' = "sta"
  /\ UNCHANGED <<annVars, event, bits, inWait, http, ap, left>>

StartPortal ==
  /\ main = "boot" /\ wifi.cfg = Blank
  /\ esp_wifi_set_mode("AP") /\ main' = "portal"
  /\ http' = [http EXCEPT !.at = "idle"]
  /\ ap' = [ap EXCEPT !.dns = TRUE]
  /\ UNCHANGED <<annVars, event, bits, inWait, left>>

(* After 3 s: captive_portal_stop waits for the request in progress, then  *)
(* the soft AP gets its grace.                                             *)
StopPortal ==
  /\ main = "linger" /\ main' = "stop"
  /\ UNCHANGED <<annVars, wifi, evq, event, bits, inWait, http, ap, left>>

PortalStopped ==
  /\ main = "stop" /\ http.at = "idle"
  /\ main' = "run" /\ HttpGoes("off")
  /\ ap' = [ap EXCEPT !.task = "grace"]
  /\ UNCHANGED <<annVars, wifi, evq, event, bits, inWait, left>>

(* ap_grace_task, after 25 s.                                              *)
StopDns == /\ ap.task = "grace" /\ ap.dns /\ ap' = [ap EXCEPT !.dns = FALSE]
           /\ UNCHANGED <<annVars, wifi, evq, event, bits, inWait, main, http, left>>
DropAp  == /\ ap.task = "grace" /\ ~ap.dns /\ ap' = [ap EXCEPT !.task = "over"]
           /\ esp_wifi_set_mode("STA")
           /\ UNCHANGED <<annVars, event, bits, inWait, main, http, left>>

MainTask  == StartSta \/ StartPortal \/ StopPortal \/ PortalStopped
GraceTask == StopDns \/ DropAp

(* A factory reset from the dashboard blanks the credentials and restarts. *)
FactoryReset == main = "run" /\ Reboot(Blank)
Restart      == Reboot(wifi.cfg)

-----------------------------------------------------------------------------
(* The settings and the test push of the dashboard, the radio, the server. *)
Configure ==
  /\ main = "run" /\ left.sets > 0
  /\ left' = [left EXCEPT !.sets = @ - 1]
  /\ \/ \E s \in Settings : SetSettings(s)
     \/ \E on \in BOOLEAN : SetEnable(on)
     \/ wifi.ip # NoIp /\ TestPush(wifi.ip)
  /\ UNCHANGED <<wifi, evq, event, bits, inWait, main, http, ap>>

Push == PushTask /\ UNCHANGED provVars

Next ==
  \/ EventTask \/ OnCredentials \/ MainTask \/ GraceTask \/ Push
  \/ \E c \in {Good, Bad} : Post_save_wifi(c)
  \/ Configure \/ Associate \/ LoseLink \/ FactoryReset \/ Restart

Spec     == Init /\ [][Next]_vars
FairSpec == /\ Spec /\ WF_vars(EventTask) /\ WF_vars(OnCredentials)
            /\ WF_vars(MainTask) /\ WF_vars(GraceTask) /\ WF_vars(Push)

-----------------------------------------------------------------------------
(* Property.  The handler passes over an address, while pushing is on,     *)
(* only when the server has accepted that very address since the boot - so *)
(* every boot announces the board again, whatever NVS remembers.  It says  *)
(* nothing of a job for another address that is still in retry then.       *)
SkipJustified ==
  [][(AnnouncerHandles /\ set.on /\ handler' = NoIp) => event.e.ip = accepted \/ push.status = "OK"]_vars

(* Property.  A job ends, whatever the server does.                        *)
JobsConclude == (push.at # "receive") ~> (push.at = "receive")

(* Property.  A station that could connect and is not trying has an event  *)
(* on the way that makes it try, or is being told to by the portal: no     *)
(* order of drops, retries, trials and roll-backs leaves it alone for good.*)
ConnectPending ==
  (HasSta(wifi.mode) /\ wifi.sta = "idle" /\ wifi.cfg # Blank) =>
    \/ \E k \in DOMAIN evq : evq[k].kind \in {"start", "disc"}
    \/ event.e.kind \in {"start", "disc"}
    \/ http.at \in {"clear", "flag", "connect"}

(* Property.  Credentials that were answered with success let the board    *)
(* leave the portal for the dashboard (or it restarts).                    *)
OkLeavesPortal == (http.reply = "ok") ~> (main \in {"run", "boot"})
=============================================================================
