------------------------------ MODULE FrontEnds ------------------------------
(***************************************************************************)
(* The front ends together: WebSocket clients (ws_handler.c), the CDC port *)
(* (usb_cdc_task.c), HID reports (usb_hid_task.c) and the console          *)
(* (main/app_main.c), all of which post to the queue of control_task, and  *)
(* the factory reset that three of them and the BOOT button can trigger    *)
(* (net_dashboard.c).                                                      *)
(* What the control task does with a command is in ControlTask, GpioIo,    *)
(* PsuDriver and IpAnnouncer; OTA frames are in OtaCore.                   *)
(***************************************************************************)
EXTENDS WsClients, UsbCdc

CONSTANTS
  QueueLen,    (* the length of s_cmd_q: 16                                *)
  Command,     (* the commands that take one post                          *)
  Plans        (* bounds of one behaviour: those of WsClients, how many    *)
               (* frames the CDC host writes, and how many commands the    *)
               (* other front ends are given                               *)

ASSUME FrontAssumption == QueueLen \in Nat \ {0}

VARIABLES
  queue,      (* s_cmd_q: who posted it, and the order                     *)
  hid,        (* TinyUSB's task: the second command of a report, or none   *)
  console,    (* the console: the command it waits to post, or none        *)
  triggered,  (* s_triggered: factory_reset_task has been created          *)
  asked,      (* history: what hosts have asked for in full                *)
  budget      (* of the plan: frames and commands still to come            *)

ctlVars   == <<queue, hid, console, triggered, asked, budget>>
frontVars == <<wsVars, cdcVars, ctlVars>>

FrontEnd == {"ws", "cdc", "hid", "console"}
ResetCmd == <<"FACTORY_RESET">>

FrontTypeOK ==
  /\ WsTypeOK /\ CdcTypeOK
  /\ Len(queue) <= QueueLen /\ \A i \in 1..Len(queue) : queue[i].from \in FrontEnd
  /\ triggered \in BOOLEAN

FromReset ==
  /\ queue = << >> /\ hid = Nothing /\ console = Nothing
  /\ triggered = FALSE /\ asked = {}

FrontInit ==
  /\ WsInit /\ CdcInit /\ FromReset
  /\ \E p \in Plans : room = p.ws /\ budget = p.usb

-----------------------------------------------------------------------------
(* control_task_post and net_dashboard_factory_reset.                      *)
Room == Len(queue) < QueueLen

\* With a timeout of 0: queued, or dropped without a word.
Post(who, c) ==
  queue' = IF Room THEN Append(queue, [from |-> who, order |-> c]) ELSE queue

Ask(c)   == asked' = asked \cup {c}
Spend(k) == budget[k] > 0 /\ budget' = [budget EXCEPT ![k] = @ - 1]

\* The control task takes a command.
Serve ==
  /\ queue # << >> /\ queue' = Tail(queue)
  /\ UNCHANGED <<wsVars, cdcVars, hid, console, triggered, asked, budget>>

-----------------------------------------------------------------------------
(* WebSocket: handle_json, in the web task.  A message that lacks a field  *)
(* or has it of another type asks for nothing; set_rpm asks for two        *)
(* commands, each of them if its fields are there: two messages here.      *)
WsMessage(fd, c) ==
  /\ web.at = "idle" /\ sess[fd] = "open"
  /\ Spend("posts") /\ Ask(c)
  /\ \/ c # ResetCmd /\ Post("ws", c) /\ UNCHANGED triggered
     \/ c = ResetCmd /\ triggered' = TRUE /\ UNCHANGED queue
  /\ UNCHANGED <<wsVars, cdcVars, hid, console>>

(* HID: tud_hid_set_report_cb.  Report 0x02 makes two commands.            *)
HidReport(c) ==
  /\ hid = Nothing
  /\ Spend("posts") /\ Ask(c) /\ Post("hid", c)
  /\ UNCHANGED <<wsVars, cdcVars, hid, console, triggered>>

RpmParams  == <<"SET_RPM_PARAMS">>
RpmTimeout == <<"SET_RPM_TIMEOUT">>

HidRpmReport ==
  /\ hid = Nothing
  /\ Spend("posts") /\ asked' = asked \cup {RpmParams, RpmTimeout}
  /\ Post("hid", RpmParams) /\ hid' = RpmTimeout
  /\ UNCHANGED <<wsVars, cdcVars, console, triggered>>

HidSecond ==
  /\ hid # Nothing
  /\ Post("hid", hid) /\ hid' = Nothing
  /\ UNCHANGED <<wsVars, cdcVars, console, triggered, asked, budget>>

HidReset ==
  /\ hid = Nothing
  /\ Spend("posts") /\ Ask(ResetCmd) /\ triggered' = TRUE
  /\ UNCHANGED <<wsVars, cdcVars, queue, hid, console>>

(* boot_button_task: the BOOT button was held for 3 s.                     *)
BootButton ==
  /\ Spend("posts") /\ Ask(ResetCmd) /\ triggered' = TRUE
  /\ UNCHANGED <<wsVars, cdcVars, queue, hid, console>>

(* The console waits for room, 50 or 100 ms.                               *)
ConsoleCommand(c) ==
  /\ console = Nothing
  /\ Spend("posts") /\ Ask(c) /\ console' = c
  /\ UNCHANGED <<wsVars, cdcVars, queue, hid, triggered>>

ConsoleEnds ==
  /\ console # Nothing /\ console' = Nothing
  /\ \/ Room /\ Post("console", console)
     \/ ~Room /\ UNCHANGED queue
  /\ UNCHANGED <<wsVars, cdcVars, hid, triggered, asked, budget>>

(* CDC.                                                                    *)
CdcHostWrites(f) ==
  /\ HostWrites(f) /\ Spend("frames")
  /\ UNCHANGED <<wsVars, queue, hid, console, triggered, asked>>

CdcHostStops == HostStops /\ UNCHANGED <<wsVars, ctlVars>>

OtaOps == {"OTA_BEGIN", "OTA_CHUNK", "OTA_END"}

CdcReads ==
  /\ Feed
  /\ LET order == IF Handles THEN OrderOf(parser.buf) ELSE Nothing IN
       \/ (order = Nothing \/ order[1] \in OtaOps) /\ UNCHANGED <<queue, triggered>>
       \/ order = ResetCmd /\ triggered' = TRUE /\ UNCHANGED queue
       \/ /\ order \notin {Nothing, ResetCmd} /\ order[1] \notin OtaOps
          /\ Post("cdc", order) /\ UNCHANGED triggered
  /\ asked' = IF src'.frame # << >> /\ src'.n = Len(src'.frame)
                 THEN asked \cup {OrderOf(src'.frame)} ELSE asked
  /\ UNCHANGED <<wsVars, hid, console, budget>>

-----------------------------------------------------------------------------
\* factory_reset_task restarts the chip; a WebSocket client may ask for a
\* restart as well.  The hosts' ports and connections are gone with it.
Restart ==
  /\ triggered \/ \E fd \in Fd : sess[fd] = "open" /\ web.at = "idle" /\ budget.posts > 0
  /\ budget' = [budget EXCEPT !.posts = 0]
  /\ WsReset
  /\ parser' = Fresh /\ src' = NoSrc /\ heard' = NotHeard
  /\ line' = Cut
  /\ queue' = << >> /\ hid' = Nothing /\ console' = Nothing
  /\ triggered' = FALSE /\ asked' = {}

WsOnly(A) == A /\ UNCHANGED <<cdcVars, ctlVars>>

FrontNext ==
  \/ WsOnly(WsNext)
  \/ \E c \in Command \cup {ResetCmd}, fd \in Fd : WsMessage(fd, c)
  \/ \E c \in Command : HidReport(c) \/ ConsoleCommand(c)
  \/ HidRpmReport \/ HidSecond \/ HidReset \/ BootButton \/ ConsoleEnds
  \/ \E f \in HostFrames : CdcHostWrites(f)
  \/ CdcHostStops \/ CdcReads
  \/ Serve \/ Restart

FrontSpec ==
  /\ FrontInit /\ [][FrontNext]_frontVars
  /\ WF_frontVars(WsOnly(WebStep)) /\ WF_frontVars(WsOnly(TelStep))

-----------------------------------------------------------------------------
(* Properties.                                                             *)

\* What reaches the queue, and the factory reset, is what a host has asked
\* for in full.  CDC frames carry no checksum, and one whose host stopped in
\* it is handled like a whole one: the lengths, the magic and the closing
\* zeros are all that tells them apart.  (OTA_CHUNK has none: what comes of a
\* torn chunk goes to ota_core.)  No queue, buffer or counter exceeds its size.
CommandsWhole ==
  /\ FrontTypeOK
  /\ \A i \in 1..Len(queue) : queue[i].order \in asked
  /\ triggered => ResetCmd \in asked
=============================================================================
