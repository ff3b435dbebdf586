------------------------- MODULE Provisioning_proofs -------------------------
(***************************************************************************)
(* The announcer's promise, for any network, any depth of the queue and    *)
(* any number of attempts, under every interleaving of its tasks with      *)
(* provisioning: an address is passed over only when the server has it.    *)
(***************************************************************************)
EXTENDS Provisioning, TLAPS

\* An "ip" event names an address.
RealEvent == {e \in Event : e.kind = "ip" => e.ip \in Ip}

WifiType  == [mode: {"OFF", "STA", "AP", "APSTA"}, sta: {"off", "idle", "connecting", "up"},
              cfg: Creds, ip: Ip \cup {NoIp}]
EventType == [e: RealEvent \cup {NoEvent}, at: {"announcer", "flag", "bit", "connect"}]
PlanType  == [posts: Nat, sets: Nat, drops: Nat, boots: Nat, on: BOOLEAN, ips: SUBSET Ip]
PushType  == [at: {"receive", "check", "post", "report"}, ip: Ip \cup {NoIp},
              tries: 0..Retries, status: Status]

Bits      == {"GOT_IP", "STA_FAIL"}
HttpType  == [at: {"off", "idle", "mode", "config", "clear", "flag", "connect", "wait",
                   "woken", "disconnect", "blank", "ap"},
              cfg: Creds, got: SUBSET Bits, reply: {"none", "ok", "error"}]

\* The driver, the event loop and the network hand out addresses only; the
\* portal hands on credentials.
NetTyped ==
  /\ wifi \in WifiType /\ evq \in Seq(RealEvent) /\ event \in EventType /\ left \in PlanType
  /\ http \in HttpType /\ bits \subseteq Bits

\* The main task, the soft AP and the flag.
PlacesTyped ==
  /\ inWait \in BOOLEAN
  /\ main \in {"boot", "sta", "portal", "linger", "stop", "run"}
  /\ ap \in [task: {"none", "grace", "over"}, dns: BOOLEAN]

\* A consent that is not reported yet is the last one.
ConsentKnown == push.status = "OK" => push.at = "report" /\ push.ip = accepted

AnnInv == AnnTypeOK /\ ConsentKnown /\ StatusTruthful

\* A station exists in the modes that have one; what is past the announcer
\* is an address.
Coherent ==
  /\ HasSta(wifi.mode) <=> wifi.sta # "off"
  /\ event.at = "bit" => event.e.kind = "ip"

\* The station could connect and does not try; an event would make it.
Alone      == HasSta(wifi.mode) /\ wifi.sta = "idle" /\ wifi.cfg # Blank
Wakes(e)   == e.kind \in {"start", "disc"}
Pending(q) == \E k \in DOMAIN q : Wakes(q[k])
Told       == http.at \in {"clear", "flag", "connect"}

PendingInv == Coherent /\ (Alone => Pending(evq) \/ Wakes(event.e) \/ Told)

IInv == NetTyped /\ PlacesTyped /\ PendingInv /\ AnnInv

-----------------------------------------------------------------------------
(* The driver.                                                             *)

LEMMA WifiOps ==
  ASSUME NEW w \in WifiType
  PROVE  /\ Connected(w) \in WifiType /\ Dropped(w) \in WifiType
         /\ \A m \in {"OFF", "STA", "AP", "APSTA"} : InMode(w, m) \in WifiType
         /\ \A c \in Creds : [w EXCEPT !.cfg = c] \in WifiType
         /\ \A i \in Ip : [w EXCEPT !.sta = "up", !.ip = i] \in WifiType
         /\ \A c \in Creds : [mode |-> "OFF", sta |-> "off", cfg |-> c, ip |-> NoIp] \in WifiType
<1>1. Connected(w) \in WifiType /\ Dropped(w) \in WifiType
  BY DEF Connected, Dropped, WifiType
<1>2. ASSUME NEW m \in {"OFF", "STA", "AP", "APSTA"} PROVE InMode(w, m) \in WifiType
  BY DEF InMode, HasSta, WifiType
<1>3. \A c \in Creds : [w EXCEPT !.cfg = c] \in WifiType
  BY DEF WifiType
<1>4. \A i \in Ip : [w EXCEPT !.sta = "up", !.ip = i] \in WifiType
  BY DEF WifiType
<1>5. \A c \in Creds : [mode |-> "OFF", sta |-> "off", cfg |-> c, ip |-> NoIp] \in WifiType
  BY DEF WifiType
<1>. QED
  BY <1>1, <1>2, <1>3, <1>4, <1>5

LEMMA Events ==
  /\ \A k \in {"start", "disc"} : Ev(k) \in RealEvent
  /\ \A i \in Ip : [kind |-> "ip", ip |-> i] \in RealEvent
  /\ Handle \in EventType
BY DEF Ev, RealEvent, Event, Handle, EventType, NoEvent

LEMMA DriverTyping ==
  ASSUME NetTyped,
         \/ esp_wifi_connect \/ esp_wifi_disconnect
         \/ \E m \in {"STA", "AP", "APSTA"} : esp_wifi_set_mode(m)
  PROVE  wifi' \in WifiType /\ evq' \in Seq(RealEvent)
<1>1. \A e \in RealEvent : Append(evq, e) \in Seq(RealEvent)
  BY DEF NetTyped
<1>2. wifi \in WifiType /\ evq \in Seq(RealEvent)
  BY DEF NetTyped
<1>3. CASE esp_wifi_connect
  BY <1>2, <1>3, WifiOps DEF esp_wifi_connect
<1>4. CASE esp_wifi_disconnect
  BY <1>1, <1>2, <1>4, WifiOps, Events DEF esp_wifi_disconnect
<1>5. ASSUME NEW m \in {"STA", "AP", "APSTA"}, esp_wifi_set_mode(m)
      PROVE  wifi' \in WifiType /\ evq' \in Seq(RealEvent)
  BY <1>1, <1>2, <1>5, WifiOps, Events DEF esp_wifi_set_mode
<1>. QED
  BY <1>3, <1>4, <1>5

-----------------------------------------------------------------------------
(* Each step keeps addresses addresses.                                    *)

LEMMA RebootTyping ==
  ASSUME NetTyped, NEW c \in Creds, Reboot(c) PROVE NetTyped'
<1>1. left' \in PlanType
  BY DEF Reboot, NetTyped, PlanType
<1>2. wifi' \in WifiType
  BY WifiOps DEF Reboot, NetTyped
<1>3. Off \in HttpType
  BY DEF Off, HttpType, Creds
<1>. QED
  BY <1>1, <1>2, <1>3, Events DEF Reboot, NetTyped

LEMMA NetStep == ASSUME NetTyped, [Next]_vars PROVE NetTyped'
<1>a. /\ wifi \in WifiType /\ evq \in Seq(RealEvent) /\ event \in EventType /\ left \in PlanType
      /\ Handle \in EventType
      /\ \A at \in {"announcer", "flag", "bit", "connect"} : [event EXCEPT !.at = at] \in EventType
      /\ wifi.cfg \in Creds
      /\ \A e \in RealEvent : Append(evq, e) \in Seq(RealEvent)
      /\ http \in HttpType /\ bits \subseteq Bits
  BY Events DEF NetTyped, EventType, WifiType
<1>h. \A at \in {"off", "idle", "mode", "config", "clear", "flag", "connect", "wait",
                "woken", "disconnect", "blank", "ap"} :
        HttpGoes(at) => http' \in HttpType
  BY <1>a DEF HttpGoes, HttpType
<1>1. CASE EventTask
  <2>1. CASE TakeEvent
    <3>1. Head(evq) \in RealEvent /\ Tail(evq) \in Seq(RealEvent)
      BY <1>a, <2>1 DEF TakeEvent
    <3>2. event' \in EventType
      BY <2>1, <3>1 DEF TakeEvent, EventType
    <3>. QED
      BY <1>a, <2>1, <3>1, <3>2 DEF TakeEvent, NetTyped
  <2>2. CASE AnnouncerHandles \/ AnnouncerEnqueues
    BY <1>a, <2>2 DEF AnnouncerHandles, AnnouncerEnqueues, provVars, NetTyped
  <2>3. CASE GotIp \/ FlagDisconnect
    <3>1. ASSUME NEW b \in Bits, SetBits(b) PROVE http' \in HttpType /\ bits' \subseteq Bits
      <4>1. ASSUME http' = [http EXCEPT !.at = "woken", !.got = bits \cup {b}], bits' = {}
            PROVE  http' \in HttpType /\ bits' \subseteq Bits
        BY <1>a, <4>1 DEF HttpType
      <4>2. ASSUME bits' = bits \cup {b}, http' = http
            PROVE  http' \in HttpType /\ bits' \subseteq Bits
        BY <1>a, <4>2
      <4>. QED
        BY <3>1, <4>1, <4>2 DEF SetBits
    <3>2. (SetBits("GOT_IP") \/ SetBits("STA_FAIL") \/ UNCHANGED <<bits, http>>)
            => http' \in HttpType /\ bits' \subseteq Bits
      BY <1>a, <3>1 DEF Bits
    <3>. QED
      BY <1>a, <2>3, <3>2 DEF GotIp, FlagDisconnect, NetTyped
  <2>4. CASE Connect
    BY <1>a, <2>4, DriverTyping DEF Connect, NetTyped
  <2>. QED
    BY <1>1, <2>1, <2>2, <2>3, <2>4 DEF EventTask
<1>2. CASE OnCredentials
  <2>1. CASE ApplyMode \/ TryConnect \/ RollDisconnect
    BY <1>a, <1>h, <2>1, DriverTyping
       DEF ApplyMode, TryConnect, RollDisconnect, Elsewhere, NetTyped
  <2>2. CASE ApplyConfig
    <3>1. http.cfg \in Creds /\ wifi' = [wifi EXCEPT !.cfg = http.cfg] /\ HttpGoes("clear")
      BY <1>a, <2>2 DEF ApplyConfig, HttpType
    <3>2. wifi' \in WifiType
      BY <1>a, <3>1, WifiOps
    <3>3. http' \in HttpType
      BY <1>h, <3>1
    <3>. QED
      BY <1>a, <2>2, <3>2, <3>3 DEF ApplyConfig, Elsewhere, NetTyped
  <2>3. CASE ConfigRefused
    BY <1>a, <2>3, RebootTyping DEF ConfigRefused
  <2>4. CASE ClearBits \/ RaiseFlag
    BY <1>a, <1>h, <2>4 DEF ClearBits, RaiseFlag, Elsewhere, NetTyped
  <2>5. CASE WaitEnds
    <3>1. http' \in HttpType /\ bits' = {}
      BY <1>a, <2>5 DEF WaitEnds, HttpType
    <3>. QED
      BY <1>a, <2>5, <3>1 DEF WaitEnds, Elsewhere, NetTyped
  <2>6. CASE Decide
    <3>1. http' \in HttpType
      <4>1. [http EXCEPT !.at = "idle", !.cfg = Blank, !.got = {}, !.reply = "ok"] \in HttpType
        BY <1>a DEF HttpType, Creds
      <4>2. [http EXCEPT !.at = "disconnect", !.got = {}] \in HttpType
        BY <1>a DEF HttpType
      <4>. QED
        BY <2>6, <4>1, <4>2 DEF Decide
    <3>. QED
      BY <1>a, <2>6, <3>1 DEF Decide, Elsewhere, NetTyped
  <2>7. CASE RollBlank
    <3>1. [wifi EXCEPT !.cfg = Blank] \in WifiType
      BY <1>a DEF WifiType, Creds
    <3>2. wifi' \in WifiType /\ http' \in HttpType
      BY <1>a, <1>h, <2>7, <3>1 DEF RollBlank
    <3>. QED
      BY <1>a, <2>7, <3>2 DEF RollBlank, Elsewhere, NetTyped
  <2>8. CASE RollMode
    <3>1. http' \in HttpType
      BY <1>a, <2>8 DEF RollMode, HttpType, Creds
    <3>. QED
      BY <1>a, <2>8, <3>1, DriverTyping DEF RollMode, Elsewhere, NetTyped
  <2>. QED
    BY <1>2, <2>1, <2>2, <2>3, <2>4, <2>5, <2>6, <2>7, <2>8 DEF OnCredentials
<1>3. CASE MainTask
  <2>1. CASE StartPortal
    <3>1. HttpGoes("idle")
      BY <2>1 DEF StartPortal, HttpGoes
    <3>. QED
      BY <1>a, <1>h, <2>1, <3>1, DriverTyping DEF StartPortal, NetTyped
  <2>. QED
    BY <1>a, <1>h, <1>3, <2>1, DriverTyping
       DEF MainTask, StartSta, StopPortal, PortalStopped, NetTyped
<1>4. CASE GraceTask
  BY <1>a, <1>4, DriverTyping DEF GraceTask, StopDns, DropAp, NetTyped
<1>5. CASE Push
  BY <1>5 DEF Push, provVars, NetTyped
<1>6. ASSUME NEW c \in {Good, Bad}, Post_save_wifi(c) PROVE NetTyped'
  <2>1. left' \in PlanType
    <3>1. left.posts > 0 /\ left' = [left EXCEPT !.posts = @ - 1]
      BY <1>6 DEF Post_save_wifi
    <3>2. left.posts \in Nat
      BY <1>a DEF PlanType
    <3>3. left.posts - 1 \in Nat
      BY <3>1, <3>2
    <3>. QED
      BY <1>a, <3>1, <3>3 DEF PlanType
  <2>2. http' \in HttpType
    BY <1>a, <1>6 DEF Post_save_wifi, HttpType, Creds
  <2>. QED
    BY <1>a, <1>6, <2>1, <2>2, SMTT(30) DEF Post_save_wifi, NetTyped
<1>7. CASE Configure
  <2>1. left' \in PlanType
    <3>1. left.sets > 0 /\ left' = [left EXCEPT !.sets = @ - 1]
      BY <1>7 DEF Configure
    <3>2. left.sets \in Nat
      BY <1>a DEF PlanType
    <3>3. left.sets - 1 \in Nat
      BY <3>1, <3>2
    <3>. QED
      BY <1>a, <3>1, <3>3 DEF PlanType
  <2>. QED
    BY <1>a, <1>7, <2>1 DEF Configure, NetTyped
<1>8. CASE Associate
  <2>1. ASSUME NEW i \in left.ips, wifi' = [wifi EXCEPT !.sta = "up", !.ip = i],
               evq' = Append(evq, [kind |-> "ip", ip |-> i])
        PROVE  wifi' \in WifiType /\ evq' \in Seq(RealEvent)
    <3>1. i \in Ip
      BY <1>a DEF PlanType
    <3>2. [wifi EXCEPT !.sta = "up", !.ip = i] \in WifiType
      BY <1>a, <3>1, WifiOps
    <3>3. [kind |-> "ip", ip |-> i] \in RealEvent
      BY <3>1, Events
    <3>. QED
      BY <1>a, <2>1, <3>2, <3>3
  <2>2. ASSUME wifi' = Dropped(wifi), evq' = Append(evq, Ev("disc"))
        PROVE  wifi' \in WifiType /\ evq' \in Seq(RealEvent)
    <3>1. Dropped(wifi) \in WifiType /\ Ev("disc") \in RealEvent
      BY <1>a, WifiOps, Events
    <3>. QED
      BY <1>a, <2>2, <3>1
  <2>. QED
    BY <1>a, <1>8, <2>1, <2>2 DEF Associate, NetTyped
<1>9. CASE LoseLink
  <2>1. left' \in PlanType
    <3>1. left.drops > 0 /\ left' = [left EXCEPT !.drops = @ - 1]
      BY <1>9 DEF LoseLink
    <3>2. left.drops \in Nat
      BY <1>a DEF PlanType
    <3>3. left.drops - 1 \in Nat
      BY <3>1, <3>2
    <3>. QED
      BY <1>a, <3>1, <3>3 DEF PlanType
  <2>2. Dropped(wifi) \in WifiType /\ Ev("disc") \in RealEvent
    BY <1>a, WifiOps, Events
  <2>. QED
    BY <1>a, <1>9, <2>1, <2>2 DEF LoseLink, NetTyped
<1>10. CASE FactoryReset \/ Restart
  BY <1>a, <1>10, RebootTyping DEF FactoryReset, Restart, Creds
<1>11. CASE UNCHANGED vars
  BY <1>11 DEF vars, provVars, NetTyped
<1>. QED
  BY <1>1, <1>2, <1>3, <1>4, <1>5, <1>6, <1>7, <1>8, <1>9, <1>10, <1>11 DEF Next

\* The places of the main task and of the soft AP are among those named.
LEMMA PlacesStep == ASSUME PlacesTyped, [Next]_vars PROVE PlacesTyped'
<1>1. CASE EventTask
  BY <1>1 DEF EventTask, TakeEvent, AnnouncerHandles, AnnouncerEnqueues, GotIp, FlagDisconnect,
     Connect, SetBits, provVars, PlacesTyped
<1>2. CASE OnCredentials
  <2>1. CASE ConfigRefused
    BY <2>1 DEF ConfigRefused, Reboot, PlacesTyped
  <2>2. CASE RaiseFlag \/ Decide
    BY <2>2 DEF RaiseFlag, Decide, Elsewhere, PlacesTyped
  <2>3. CASE ApplyMode \/ ApplyConfig \/ ClearBits \/ TryConnect \/ WaitEnds
             \/ RollDisconnect \/ RollBlank \/ RollMode
    BY <2>3 DEF ApplyMode, ApplyConfig, ClearBits, TryConnect, WaitEnds, RollDisconnect, RollBlank,
       RollMode, Elsewhere, PlacesTyped
  <2>. QED
    BY <1>2, <2>1, <2>2, <2>3 DEF OnCredentials
<1>3. CASE MainTask
  BY <1>3 DEF MainTask, StartSta, StartPortal, StopPortal, PortalStopped, PlacesTyped
<1>4. CASE GraceTask
  BY <1>4 DEF GraceTask, StopDns, DropAp, PlacesTyped
<1>5. CASE Push \/ Configure \/ Associate \/ LoseLink
  BY <1>5 DEF Push, Configure, Associate, LoseLink, provVars, PlacesTyped
<1>8. ASSUME NEW c \in {Good, Bad}, Post_save_wifi(c) PROVE PlacesTyped'
  BY <1>8 DEF Post_save_wifi, PlacesTyped
<1>6. CASE FactoryReset \/ Restart
  <2>1. ASSUME NEW c, Reboot(c) PROVE PlacesTyped'
    BY <2>1 DEF Reboot, PlacesTyped
  <2>. QED
    BY <1>6, <2>1 DEF FactoryReset, Restart
<1>7. CASE UNCHANGED vars
  BY <1>7 DEF vars, provVars, PlacesTyped
<1>. QED
  BY <1>1, <1>2, <1>3, <1>4, <1>5, <1>6, <1>7, <1>8 DEF Next

-----------------------------------------------------------------------------
(* A station is not left alone.                                            *)

\* An event in the queue stays there until it is the first.
LEMMA PendingOps ==
  ASSUME NEW q \in Seq(RealEvent)
  PROVE  /\ \A e \in RealEvent : Pending(q) \/ Wakes(e) => Pending(Append(q, e))
         /\ q # << >> /\ Pending(q) => Pending(Tail(q)) \/ Wakes(Head(q))
<1>1. ASSUME NEW e \in RealEvent, Pending(q) PROVE Pending(Append(q, e))
  <2>1. PICK k \in DOMAIN q : Wakes(q[k])
    BY <1>1 DEF Pending
  <2>2. k \in DOMAIN Append(q, e) /\ Append(q, e)[k] = q[k]
    OBVIOUS
  <2>. QED
    BY <2>1, <2>2 DEF Pending
<1>2. ASSUME NEW e \in RealEvent, Wakes(e) PROVE Pending(Append(q, e))
  <2>1. Len(q) + 1 \in DOMAIN Append(q, e) /\ Append(q, e)[Len(q) + 1] = e
    OBVIOUS
  <2>. QED
    BY <1>2, <2>1 DEF Pending
<1>3. ASSUME q # << >>, Pending(q), ~Wakes(Head(q)) PROVE Pending(Tail(q))
  <2>1. PICK k \in DOMAIN q : Wakes(q[k])
    BY <1>3 DEF Pending
  <2>2. k # 1
    BY <1>3, <2>1
  <2>3. k - 1 \in DOMAIN Tail(q) /\ Tail(q)[k - 1] = q[k]
    BY <1>3, <2>2
  <2>. QED
    BY <2>1, <2>3 DEF Pending
<1>. QED
  BY <1>1, <1>2, <1>3

\* Each call of the driver keeps the events that are pending; connecting ends
\* the need for one, and nothing else begins it without adding one.
LEMMA DriverPending ==
  ASSUME NetTyped, Coherent
  PROVE  /\ esp_wifi_connect => /\ HasSta(wifi'.mode) <=> wifi'.sta # "off"
                                /\ ~Alone' /\ evq' = evq
         /\ esp_wifi_disconnect \/ (\E m \in {"STA", "AP", "APSTA"} : esp_wifi_set_mode(m))
              => /\ HasSta(wifi'.mode) <=> wifi'.sta # "off"
                 /\ Pending(evq) => Pending(evq')
                 /\ Alone' => Alone \/ Pending(evq')
<1>1. /\ wifi \in WifiType /\ evq \in Seq(RealEvent)
      /\ HasSta(wifi.mode) <=> wifi.sta # "off"
  BY DEF NetTyped, Coherent
<1>2. \A k \in {"start", "disc"} :
        /\ Pending(Append(evq, Ev(k)))
        /\ Ev(k) \in RealEvent
  <2>1. \A k \in {"start", "disc"} : Ev(k) \in RealEvent /\ Wakes(Ev(k))
    BY Events DEF Ev, Wakes
  <2>. QED
    BY <1>1, <2>1, PendingOps
<1>3. ASSUME esp_wifi_connect
      PROVE  /\ HasSta(wifi'.mode) <=> wifi'.sta # "off"
             /\ ~Alone' /\ evq' = evq
  BY <1>1, <1>3 DEF esp_wifi_connect, Connected, Alone, WifiType
<1>4. ASSUME esp_wifi_disconnect
      PROVE  /\ HasSta(wifi'.mode) <=> wifi'.sta # "off"
             /\ Pending(evq) => Pending(evq')
             /\ Alone' => Alone \/ Pending(evq')
  <2>1. CASE UNCHANGED <<wifi, evq>>
    BY <1>1, <2>1 DEF Alone
  <2>2. CASE wifi.sta \in {"connecting", "up"} /\ wifi' = Dropped(wifi) /\ evq' = Append(evq, Ev("disc"))
    BY <1>1, <1>2, <2>2 DEF Dropped, WifiType
  <2>. QED
    BY <1>4, <2>1, <2>2 DEF esp_wifi_disconnect
<1>5. ASSUME NEW m \in {"STA", "AP", "APSTA"}, esp_wifi_set_mode(m)
      PROVE  /\ HasSta(wifi'.mode) <=> wifi'.sta # "off"
             /\ Pending(evq) => Pending(evq')
             /\ Alone' => Alone \/ Pending(evq')
  <2>1. wifi' = InMode(wifi, m)
    BY <1>5 DEF esp_wifi_set_mode
  <2>2. /\ wifi'.mode = m /\ wifi'.cfg = wifi.cfg
        /\ wifi'.sta = IF ~HasSta(m) THEN "off" ELSE IF wifi.sta = "off" THEN "idle" ELSE wifi.sta
    BY <1>1, <2>1 DEF InMode, WifiType
  <2>3. Pending(evq) => Pending(evq')
    BY <1>2, <1>5 DEF esp_wifi_set_mode
  <2>4. HasSta(m) /\ wifi.sta = "off" => Pending(evq')
    BY <1>2, <1>5 DEF esp_wifi_set_mode
  <2>. QED
    BY <1>1, <2>2, <2>3, <2>4 DEF Alone
<1>. QED
  BY <1>3, <1>4, <1>5

LEMMA RebootPending == ASSUME NEW c, Reboot(c) PROVE PendingInv'
BY DEF Reboot, Handle, NoEvent, PendingInv, Coherent, Alone, HasSta

LEMMA PendingStep == ASSUME NetTyped, PendingInv, [Next]_vars PROVE PendingInv'
<1>a. /\ wifi \in WifiType /\ evq \in Seq(RealEvent) /\ event \in EventType /\ http \in HttpType
      /\ Coherent
  BY DEF NetTyped, PendingInv
<1>h. \A at : HttpGoes(at) => http'.at = at
  BY <1>a DEF HttpGoes, HttpType
<1>0. ASSUME UNCHANGED <<wifi, evq, event>>, Told => Told' PROVE PendingInv'
  BY <1>0 DEF PendingInv, Coherent, Alone
<1>1. CASE EventTask
  <2>1. CASE TakeEvent
    <3>1. event'.e = Head(evq) /\ evq' = Tail(evq) /\ evq # << >> /\ UNCHANGED <<wifi, http>>
      BY <2>1 DEF TakeEvent
    <3>2. Pending(evq) => Pending(evq') \/ Wakes(event'.e)
      BY <1>a, <3>1, PendingOps
    <3>3. event'.at # "bit" /\ ~Wakes(event.e)
      BY <2>1 DEF TakeEvent, NoEvent, Wakes
    <3>. QED
      BY <3>1, <3>2, <3>3 DEF PendingInv, Coherent, Alone, Told
  <2>2. CASE AnnouncerHandles
    <3>1. event'.e = event.e /\ event.e.kind = "ip" /\ UNCHANGED <<wifi, evq, http>>
      BY <1>a, <2>2 DEF AnnouncerHandles, EventType
    <3>. QED
      BY <3>1 DEF PendingInv, Coherent, Alone, Told
  <2>3. CASE AnnouncerEnqueues
    BY <1>0, <2>3 DEF AnnouncerEnqueues, provVars, Told
  <2>4. CASE GotIp
    <3>1. event.e.kind = "ip" /\ event'.at = "announcer" /\ UNCHANGED <<wifi, evq>>
      BY <1>a, <2>4 DEF GotIp, Coherent, Handle
    <3>2. Told => Told'
      BY <2>4 DEF GotIp, SetBits, Told
    <3>. QED
      BY <3>1, <3>2 DEF PendingInv, Coherent, Alone, Wakes
  <2>5. CASE FlagDisconnect
    <3>1. event'.e = event.e /\ event'.at = "connect" /\ UNCHANGED <<wifi, evq>>
      BY <1>a, <2>5 DEF FlagDisconnect, EventType
    <3>2. Told => Told'
      BY <2>5 DEF FlagDisconnect, SetBits, Told
    <3>. QED
      BY <3>1, <3>2 DEF PendingInv, Coherent, Alone
  <2>6. CASE Connect
    <3>1. event'.at = "announcer" /\ esp_wifi_connect
      BY <2>6 DEF Connect, Handle
    <3>. QED
      BY <1>a, <3>1, DriverPending DEF PendingInv, Coherent
  <2>. QED
    BY <1>1, <2>1, <2>2, <2>3, <2>4, <2>5, <2>6 DEF EventTask
<1>2. CASE OnCredentials
  <2>1. CASE ApplyMode \/ RollDisconnect \/ RollMode
    <3>1. /\ esp_wifi_disconnect \/ \E m \in {"STA", "AP", "APSTA"} : esp_wifi_set_mode(m)
          /\ ~Told /\ event' = event
      BY <2>1 DEF ApplyMode, RollDisconnect, RollMode, Elsewhere, Told
    <3>. QED
      BY <1>a, <3>1, DriverPending DEF PendingInv, Coherent
  <2>2. CASE ApplyConfig
    <3>1. Told' /\ event' = event
      BY <1>h, <2>2 DEF ApplyConfig, Elsewhere, Told
    <3>2. wifi'.mode = wifi.mode /\ wifi'.sta = wifi.sta
      BY <1>a, <2>2 DEF ApplyConfig, WifiType
    <3>. QED
      BY <1>a, <3>1, <3>2 DEF PendingInv, Coherent
  <2>3. CASE ConfigRefused
    BY <2>3, RebootPending DEF ConfigRefused
  <2>4. CASE ClearBits \/ RaiseFlag
    BY <1>0, <1>h, <2>4 DEF ClearBits, RaiseFlag, Elsewhere, Told
  <2>5. CASE TryConnect
    <3>1. esp_wifi_connect /\ event' = event
      BY <2>5 DEF TryConnect, Elsewhere
    <3>. QED
      BY <1>a, <3>1, DriverPending DEF PendingInv, Coherent
  <2>6. CASE WaitEnds \/ Decide
    BY <1>0, <2>6 DEF WaitEnds, Decide, Elsewhere, Told
  <2>7. CASE RollBlank
    <3>1. ~Told /\ UNCHANGED <<evq, event>>
      BY <2>7 DEF RollBlank, Elsewhere, Told
    <3>2. wifi' = [wifi EXCEPT !.cfg = Blank] \/ wifi' = wifi
      BY <2>7 DEF RollBlank
    <3>3. /\ wifi'.mode = wifi.mode /\ wifi'.sta = wifi.sta
          /\ wifi'.cfg = Blank \/ wifi' = wifi
      BY <1>a, <3>2 DEF WifiType
    <3>. QED
      BY <1>a, <3>1, <3>3 DEF PendingInv, Coherent, Alone
  <2>. QED
    BY <1>2, <2>1, <2>2, <2>3, <2>4, <2>5, <2>6, <2>7 DEF OnCredentials
<1>3. CASE MainTask \/ GraceTask
  <2>1. CASE StartSta \/ StartPortal \/ DropAp
    <3>1. /\ \E m \in {"STA", "AP", "APSTA"} : esp_wifi_set_mode(m)
          /\ event' = event
      BY <2>1 DEF StartSta, StartPortal, DropAp
    <3>2. Told /\ Alone => Told'
      BY <2>1 DEF StartSta, StartPortal, DropAp, Told, Alone
    <3>. QED
      BY <1>a, <3>1, <3>2, DriverPending DEF PendingInv, Coherent
  <2>2. CASE StopPortal \/ PortalStopped \/ StopDns
    BY <1>0, <2>2 DEF StopPortal, PortalStopped, StopDns, Told
  <2>. QED
    BY <1>3, <2>1, <2>2 DEF MainTask, GraceTask
<1>4. CASE Push \/ Configure
  BY <1>0, <1>4 DEF Push, Configure, provVars, Told
<1>5. ASSUME NEW c \in {Good, Bad}, Post_save_wifi(c) PROVE PendingInv'
  BY <1>0, <1>5 DEF Post_save_wifi, Told
<1>6. CASE Associate
  <2>1. HasSta(wifi.mode)
    BY <1>a, <1>6 DEF Associate, Coherent
  <2>2. ASSUME NEW i, wifi' = [wifi EXCEPT !.sta = "up", !.ip = i], event' = event
        PROVE  PendingInv'
    <3>1. wifi'.mode = wifi.mode /\ wifi'.sta = "up"
      BY <1>a, <2>2 DEF WifiType
    <3>. QED
      BY <1>a, <2>1, <2>2, <3>1 DEF PendingInv, Coherent, Alone
  <2>3. ASSUME wifi' = Dropped(wifi), evq' = Append(evq, Ev("disc")), event' = event
        PROVE  PendingInv'
    <3>1. wifi'.mode = wifi.mode /\ wifi'.sta = "idle"
      BY <1>a, <2>3 DEF Dropped, WifiType
    <3>2. Ev("disc") \in RealEvent /\ Wakes(Ev("disc"))
      BY Events DEF Ev, Wakes
    <3>3. Pending(evq')
      BY <1>a, <2>3, <3>2, PendingOps
    <3>. QED
      BY <1>a, <2>1, <2>3, <3>1, <3>3 DEF PendingInv, Coherent
  <2>. QED
    BY <1>6, <2>2, <2>3 DEF Associate
<1>7. CASE LoseLink
  <2>1. wifi'.mode = wifi.mode /\ wifi'.sta = "idle" /\ event' = event /\ wifi.sta = "up"
    BY <1>a, <1>7 DEF LoseLink, Dropped, WifiType
  <2>2. Ev("disc") \in RealEvent /\ Wakes(Ev("disc")) /\ evq' = Append(evq, Ev("disc"))
    BY <1>7, Events DEF LoseLink, Ev, Wakes
  <2>3. Pending(evq')
    BY <1>a, <2>2, PendingOps
  <2>. QED
    BY <1>a, <2>1, <2>3 DEF PendingInv, Coherent
<1>8. CASE FactoryReset \/ Restart
  BY <1>8, RebootPending DEF FactoryReset, Restart
<1>9. CASE UNCHANGED vars
  BY <1>0, <1>9 DEF vars, provVars, Told
<1>. QED
  BY <1>1, <1>2, <1>3, <1>4, <1>5, <1>6, <1>7, <1>8, <1>9 DEF Next

-----------------------------------------------------------------------------
(* The announcer.                                                          *)

LEMMA AnnInitial ==
  /\ AnnInit => AnnInv
  /\ AnnInv /\ AnnReset => AnnInv'
<1>1. Resting \in PushType
  BY AnnouncerAssumption DEF Resting, PushType, Status
<1>2. ASSUME AnnInit PROVE AnnInv
  <2>1. annNvs \in [set: Settings, ip: Ip \cup {NoIp}]
    BY <1>2 DEF AnnInit, Settings
  <2>2. tel.status = "NEVER" /\ tel \in [ip: Ip \cup {NoIp}, status: Status]
    BY <1>2, <2>1 DEF AnnInit, Status
  <2>3. jobs \in Seq(Ip) /\ Len(jobs) <= Depth
    BY <1>2, AnnouncerAssumption DEF AnnInit
  <2>4. push.status = "NEVER"
    BY <1>2 DEF AnnInit, Resting
  <2>. QED
    BY <1>1, <1>2, <2>1, <2>2, <2>3, <2>4
       DEF AnnInit, AnnInv, AnnTypeOK, ConsentKnown, StatusTruthful, PushType
<1>3. AnnInv /\ AnnReset => AnnInv'
  BY <1>1, AnnouncerAssumption DEF AnnReset, AnnInv, AnnTypeOK, ConsentKnown, StatusTruthful, Resting, Settings,
     Status, PushType
<1>. QED
  BY <1>2, <1>3

\* The queue takes addresses, as many as fit.
LEMMA EnqueueTyping ==
  ASSUME AnnTypeOK, NEW ip \in Ip, Enqueue(ip)
  PROVE  jobs' \in Seq(Ip) /\ Len(jobs') <= Depth
BY AnnouncerAssumption DEF AnnTypeOK, Enqueue

\* The handler, the test push and the settings change no consent.
LEMMA ConsentUntouched ==
  ASSUME AnnInv, UNCHANGED <<tel, push, accepted>>, AnnTypeOK' PROVE AnnInv'
BY DEF AnnInv, ConsentKnown, StatusTruthful

LEMMA PushStep == ASSUME AnnInv, PushTask PROVE AnnInv'
<1>a. /\ push \in PushType /\ jobs \in Seq(Ip) /\ Len(jobs) <= Depth
      /\ Resting \in PushType /\ Retries \in Nat \ {0} /\ AnnTypeOK
  BY AnnouncerAssumption DEF AnnInv, AnnTypeOK, PushType, Resting, Status
<1>1. CASE TakeJob
  <2>1. Head(jobs) \in Ip /\ Tail(jobs) \in Seq(Ip) /\ Len(Tail(jobs)) <= Depth
    BY <1>a, <1>1, AnnouncerAssumption DEF TakeJob
  <2>2. push' \in PushType /\ push'.status = "NEVER" /\ push'.at = "check"
    <3> DEFINE job == [Resting EXCEPT !.at = "check", !.ip = Head(jobs)]
    <3>1. push' = job /\ Resting.status = "NEVER"
      BY <1>1 DEF TakeJob, Resting
    <3>2. job \in PushType /\ job.status = Resting.status /\ job.at = "check"
      BY <1>a, <2>1 DEF PushType
    <3>. QED
      BY <3>1, <3>2
  <2>3. push.status # "OK"
    BY <1>1 DEF TakeJob, AnnInv, ConsentKnown
  <2>. QED
    BY <1>a, <1>1, <2>1, <2>2, <2>3
       DEF TakeJob, AnnInv, AnnTypeOK, ConsentKnown, StatusTruthful, PushType
<1>2. CASE CheckJob
  <2>1. push.status # "OK"
    BY <1>2 DEF CheckJob, AnnInv, ConsentKnown
  <2>2. push' \in PushType /\ push'.status # "OK"
    BY <1>a, <1>2, <2>1 DEF CheckJob, PushType, Status
  <2>. QED
    BY <1>a, <1>2, <2>1, <2>2
       DEF CheckJob, AnnInv, AnnTypeOK, ConsentKnown, StatusTruthful, PushType
<1>3. CASE Post
  <2>1. push.status # "OK"
    BY <1>3 DEF Post, AnnInv, ConsentKnown
  <2>2. /\ push' \in PushType
        /\ \/ push'.status = "OK" /\ push'.at = "report" /\ push'.ip = push.ip /\ accepted' = push.ip
           \/ push'.status # "OK" /\ UNCHANGED accepted
    <3>1. ASSUME push' = [push EXCEPT !.at = "report", !.status = "OK"], accepted' = push.ip
          PROVE  push' \in PushType /\ push'.status = "OK" /\ push'.at = "report" /\ push'.ip = push.ip
      BY <1>a, <3>1 DEF PushType, Status
    <3>2. ASSUME push' = [push EXCEPT !.at = "report", !.status = "FAILED"]
          PROVE  push' \in PushType /\ push'.status # "OK"
      BY <1>a, <3>2 DEF PushType, Status
    <3>3. ASSUME push.tries + 1 < Retries, push' = [push EXCEPT !.tries = @ + 1]
          PROVE  push' \in PushType /\ push'.status # "OK"
      BY <1>a, <2>1, <3>3 DEF PushType
    <3>. QED
      BY <1>3, <3>1, <3>2, <3>3 DEF Post
  <2>3. accepted' \in Ip \cup {NoIp}
    BY <1>a, <2>2 DEF AnnTypeOK, PushType
  <2>. QED
    BY <1>a, <1>3, <2>1, <2>2, <2>3
       DEF Post, AnnInv, AnnTypeOK, ConsentKnown, StatusTruthful, PushType
<1>4. CASE Report
  <2>1. /\ tel' = [ip |-> push.ip, status |-> push.status] /\ push' = Resting
        /\ UNCHANGED <<set, jobs, handler, accepted>>
    BY <1>4 DEF Report
  <2>2. annNvs' \in [set: Settings, ip: Ip \cup {NoIp}]
    BY <1>a, <1>4 DEF Report, AnnTypeOK, PushType
  <2>3. tel' \in [ip: Ip \cup {NoIp}, status: Status]
    BY <1>a, <2>1 DEF PushType
  <2>4. push'.status = "NEVER"
    BY <2>1 DEF Resting
  <2>. QED
    BY <1>a, <2>1, <2>2, <2>3, <2>4
       DEF AnnInv, AnnTypeOK, ConsentKnown, StatusTruthful, PushType
<1>. QED
  BY <1>1, <1>2, <1>3, <1>4 DEF PushTask

LEMMA AnnStep == ASSUME IInv, [Next]_vars PROVE AnnInv'
<1>a. AnnInv /\ AnnTypeOK /\ NetTyped
  BY DEF IInv, AnnInv
<1>1. CASE UNCHANGED annVars
  BY <1>a, <1>1, ConsentUntouched DEF annVars, AnnTypeOK
<1>2. CASE AnnouncerHandles
  <2>1. event.e.ip \in Ip \cup {NoIp}
    BY <1>a DEF NetTyped, EventType, RealEvent, Event, NoEvent
  <2>2. handler' \in Ip \cup {NoIp}
    BY <1>2, <2>1 DEF AnnouncerHandles, OnGotIp
  <2>. QED
    BY <1>a, <1>2, <2>2, ConsentUntouched DEF AnnouncerHandles, OnGotIp, AnnTypeOK
<1>3. CASE AnnouncerEnqueues
  <2>1. handler \in Ip
    BY <1>a, <1>3 DEF AnnouncerEnqueues, HandlerEnqueues, AnnTypeOK
  <2>2. jobs' \in Seq(Ip) /\ Len(jobs') <= Depth
    BY <1>a, <1>3, <2>1, EnqueueTyping DEF AnnouncerEnqueues, HandlerEnqueues
  <2>. QED
    BY <1>a, <1>3, <2>2, ConsentUntouched DEF AnnouncerEnqueues, HandlerEnqueues, AnnTypeOK
<1>4. CASE Configure
  <2>1. ASSUME NEW s \in Settings, SetSettings(s) PROVE AnnInv'
    <3>1. annNvs' \in [set: Settings, ip: Ip \cup {NoIp}]
      BY <1>a, <2>1 DEF SetSettings, AnnTypeOK
    <3>. QED
      BY <1>a, <2>1, <3>1, ConsentUntouched DEF SetSettings, AnnTypeOK
  <2>2. ASSUME NEW on \in BOOLEAN, SetEnable(on) PROVE AnnInv'
    <3>1. [set EXCEPT !.on = on] \in Settings
      BY <1>a DEF AnnTypeOK, Settings
    <3>. QED
      BY <2>1, <2>2, <3>1 DEF SetEnable
  <2>3. ASSUME wifi.ip # NoIp, TestPush(wifi.ip) PROVE AnnInv'
    <3>1. wifi.ip \in Ip
      BY <1>a, <2>3 DEF NetTyped, WifiType
    <3>2. jobs' \in Seq(Ip) /\ Len(jobs') <= Depth
      BY <1>a, <2>3, <3>1, EnqueueTyping DEF TestPush
    <3>. QED
      BY <1>a, <2>3, <3>2, ConsentUntouched DEF TestPush, AnnTypeOK
  <2>. QED
    BY <1>4, <2>1, <2>2, <2>3 DEF Configure
<1>5. CASE Push
  BY <1>a, <1>5, PushStep DEF Push
<1>6. CASE FactoryReset \/ Restart \/ ConfigRefused
  BY <1>a, <1>6, AnnInitial DEF FactoryReset, Restart, ConfigRefused, Reboot
<1>7. CASE EventTask
  BY <1>1, <1>2, <1>3, <1>7 DEF EventTask, TakeEvent, GotIp, FlagDisconnect, Connect
<1>8. CASE OnCredentials
  BY <1>1, <1>6, <1>8 DEF OnCredentials, ApplyMode, ApplyConfig, ClearBits, RaiseFlag, TryConnect,
     WaitEnds, Decide, RollDisconnect, RollBlank, RollMode, Elsewhere
<1>9. CASE MainTask \/ GraceTask
  BY <1>1, <1>9 DEF MainTask, GraceTask, StartSta, StartPortal, StopPortal,
     PortalStopped, StopDns, DropAp
<1>10. CASE (\E c \in {Good, Bad} : Post_save_wifi(c)) \/ Associate \/ LoseLink
  BY <1>1, <1>10 DEF Post_save_wifi, Associate, LoseLink
<1>11. CASE UNCHANGED vars
  BY <1>1, <1>11 DEF vars
<1>. QED
  BY <1>4, <1>5, <1>6, <1>7, <1>8, <1>9, <1>10, <1>11 DEF Next

-----------------------------------------------------------------------------
(* The invariant and what follows from it.                                 *)

LEMMA InitInv == Init => IInv
<1> SUFFICES ASSUME Init PROVE IInv
  OBVIOUS
<1>1. AnnInv
  BY AnnInitial DEF Init
<1>2. wifi \in WifiType /\ left \in PlanType
  BY ProvAssumption DEF Init, WifiType, PlanType
<1>3. Off \in HttpType
  BY DEF Off, HttpType, Creds
<1>4. NetTyped
  BY <1>2, <1>3, Events DEF Init, NetTyped
<1>5. PlacesTyped
  BY DEF Init, PlacesTyped
<1>6. PendingInv
  BY DEF Init, Handle, PendingInv, Coherent, Alone, HasSta
<1>. QED
  BY <1>1, <1>4, <1>5, <1>6 DEF IInv

LEMMA NextInv == IInv /\ [Next]_vars => IInv'
BY NetStep, PlacesStep, PendingStep, AnnStep DEF IInv

\* Every variable of provisioning and of the announcer keeps its type: the
\* queue of jobs never passes its depth, and no address is ever empty.
THEOREM ProvTypeCorrect == Spec => []ProvTypeOK
<1>1. IInv => ProvTypeOK
  <2> SUFFICES ASSUME IInv PROVE ProvTypeOK
    OBVIOUS
  <2>1. evq \in Seq(Event)
    BY DEF IInv, NetTyped, RealEvent
  <2>2. event \in [e: Event \cup {NoEvent}, at: {"announcer", "flag", "bit", "connect"}]
    BY DEF IInv, NetTyped, EventType, RealEvent
  <2>. QED
    BY <2>1, <2>2 DEF IInv, AnnInv, NetTyped, PlacesTyped, ProvTypeOK, WifiType, HttpType, PlanType,
       Bits
<1>. QED
  BY <1>1, InitInv, NextInv, PTL DEF Spec

\* While the announcer's status says OK, the address beside it is the one the
\* server accepted last in this boot (ip_announcer_priv_set_telemetry).
THEOREM StatusAlwaysTruthful == Spec => []StatusTruthful
<1>1. IInv => StatusTruthful
  BY DEF IInv, AnnInv
<1>. QED
  BY <1>1, InitInv, NextInv, PTL DEF Spec

\* The handler passes over an address, while pushing is on, only when the
\* server has accepted that very address since the boot
\* (ip_announcer_on_ip_event).
THEOREM NoAddressLost == Spec => SkipJustified
<1>1. ASSUME IInv, AnnouncerHandles, set.on, handler' = NoIp
      PROVE  event.e.ip = accepted \/ push.status = "OK"
  <2>1. event.e.ip \in Ip
    BY <1>1 DEF AnnouncerHandles, IInv, NetTyped, EventType, RealEvent, NoEvent
  <2>2. event.e.ip # NoIp
    BY <2>1, AnnouncerAssumption
  <2>3. Same(event.e.ip)
    BY <1>1, <2>2 DEF AnnouncerHandles, OnGotIp
  <2>. QED
    BY <1>1, <2>3 DEF Same, IInv, AnnInv, StatusTruthful
<1>2. IInv /\ [Next]_vars =>
        [(AnnouncerHandles /\ set.on /\ handler' = NoIp)
           => event.e.ip = accepted \/ push.status = "OK"]_vars
  BY <1>1
<1>. QED
  BY <1>2, InitInv, NextInv, PTL DEF Spec, SkipJustified

\* A station that could connect is trying, or something on the way makes it
\* try: no order of lost links, retries, trials of credentials and roll-backs
\* leaves the board alone for good (on_wifi_event, on_credentials).
THEOREM NeverLeftAlone == Spec => []ConnectPending
<1>1. IInv => ConnectPending
  BY DEF IInv, PendingInv, ConnectPending, Alone, Pending, Wakes, Told
<1>. QED
  BY <1>1, InitInv, NextInv, PTL DEF Spec
===============================================================================
