------------------------------ MODULE WsClients ------------------------------
(***************************************************************************)
(* components/net_dashboard/ws_handler.c: the table of WebSocket clients,  *)
(* which two tasks share without a lock, and the status frame.             *)
(*                                                                         *)
(* web is the one task of esp_http_server: it opens sessions, runs         *)
(* ws_handler and, when a session ends for any reason, the close function. *)
(* tel is telemetry_task.  Sockets and sessions are external: a send on a  *)
(* session that is closed or whose peer has vanished fails, any other may. *)
(***************************************************************************)
EXTENDS Naturals, SequencesExt

CONSTANTS
  Fd,            (* the sockets a session can have                         *)
  MaxClients,    (* MAX_CLIENTS: 4                                         *)
  FailThreshold, (* FAIL_THRESHOLD: 20                                     *)
  CountMax,      (* the largest value of an entry of s_client_fail: 255    *)
  PayloadSize,   (* the size of the buffer of a status frame: 768          *)
  PinCount,      (* GPIO_IO_PIN_COUNT: 16                                  *)
  Texts,         (* how many of the pins are outputs, and how long the     *)
                 (* values in each part of a status frame are              *)
  WsBounds       (* bounds: which sockets the sessions get, how many are   *)
                 (* opened, how many peers vanish and how often a close is *)
                 (* refused in one behaviour                               *)

NoFd == 0
Slot == 1..MaxClients

ASSUME WsAssumption ==
  /\ NoFd \notin Fd /\ MaxClients \in Nat \ {0}
  /\ FailThreshold \in 1..CountMax /\ CountMax \in Nat /\ PayloadSize \in Nat \ {0}
  /\ WsBounds \subseteq [fds: SUBSET Fd, open: Nat, vanish: Nat, refuse: Nat]

VARIABLES
  slots,    (* s_client_fds                                                *)
  fail,     (* s_client_fail                                               *)
  sess,     (* per socket: "free", "open", or the peer "gone" in silence   *)
  closing,  (* the sessions that httpd_sess_trigger_close was called for   *)
  web,      (* the web task: what it does to the table, for whom and where *)
  tel,      (* telemetry_task: its place, its slot, its fd, its count      *)
  served,   (* s_httpd_for_telemetry is set                                *)
  frame,    (* the last status frame: its length and the length sent       *)
  room      (* of the bounds                                               *)

wsVars == <<slots, fail, sess, closing, web, tel, served, frame, room>>

IdleWeb == [at |-> "idle", fd |-> NoFd, i |-> 0]
IdleTel == [at |-> "wait", i |-> 1, fd |-> NoFd, n |-> 0]

WsTypeOK ==
  /\ slots \in [Slot -> Fd \cup {NoFd}]
  /\ fail \in [Slot -> 0..CountMax]
  /\ sess \in [Fd -> {"free", "open", "gone"}]
  /\ closing \subseteq Fd
  /\ web \in [at: {"idle", "add", "count", "remove", "clear", "close"},
              fd: Fd \cup {NoFd}, i: 0..MaxClients]
  /\ tel \in [at: {"wait", "slot", "send", "reset", "load", "store", "ask"},
              i: 1..MaxClients + 1, fd: Fd \cup {NoFd}, n: 0..CountMax]
  /\ served \in BOOLEAN
  /\ frame.sent < PayloadSize
  /\ room \in [fds: SUBSET Fd, open: Nat, vanish: Nat, refuse: Nat]

WsInit ==
  /\ slots = [i \in Slot |-> NoFd] /\ fail = [i \in Slot |-> 0]
  /\ sess = [fd \in Fd |-> "free"] /\ closing = {}
  /\ web = IdleWeb /\ tel = IdleTel
  /\ served = FALSE /\ frame = [len |-> 0, sent |-> 0]
  /\ room \in WsBounds

WsReset ==
  /\ slots' = [i \in Slot |-> NoFd] /\ fail' = [i \in Slot |-> 0]
  /\ sess' = [fd \in Fd |-> "free"] /\ closing' = {}
  /\ web' = IdleWeb /\ tel' = IdleTel
  /\ served' = FALSE /\ frame' = [len |-> 0, sent |-> 0]
  /\ UNCHANGED room

-----------------------------------------------------------------------------
(* The web task.  add_client takes the first free slot, if there is one.   *)
FreeSlots == {i \in Slot : slots[i] = NoFd}
First(S)  == {i \in S : \A j \in S : i <= j}     \* a set of one, or none

Connect(fd) ==
  /\ web.at = "idle" /\ sess[fd] = "free" /\ room.open > 0
  /\ room' = [room EXCEPT !.open = @ - 1]
  /\ sess' = [sess EXCEPT ![fd] = "open"]
  /\ served' = TRUE
  /\ \/ FreeSlots = {} /\ web' = IdleWeb
     \/ \E i \in First(FreeSlots) : web' = [at |-> "add", fd |-> fd, i |-> i]
  /\ UNCHANGED <<slots, fail, closing, tel, frame>>

AddClient ==
  /\ web.at = "add"
  /\ slots' = [slots EXCEPT ![web.i] = web.fd]
  /\ web' = [web EXCEPT !.at = "count"]
  /\ UNCHANGED <<fail, sess, closing, tel, served, frame, room>>

AddCount ==
  /\ web.at = "count"
  /\ fail' = [fail EXCEPT ![web.i] = 0]
  /\ web' = IdleWeb
  /\ UNCHANGED <<slots, sess, closing, tel, served, frame, room>>

\* Mutant: the socket is closed, and the table left to find out.
CloseOnly(fd) ==
  /\ sess[fd] # "free"
  /\ web' = [at |-> "close", fd |-> fd, i |-> 0]
  /\ closing' = closing \ {fd}

\* remove_client looks for the slots of fd, one by one, and the socket is
\* closed when there are none left.
Removes(fd, S) ==
  \/ S = {} /\ web' = [at |-> "close", fd |-> fd, i |-> 0]
  \/ \E i \in First(S) : web' = [at |-> "remove", fd |-> fd, i |-> i]

\* The session of fd ends.
EndSession(fd) ==
  /\ sess[fd] # "free"
  /\ Removes(fd, {i \in Slot : slots[i] = fd})
  /\ closing' = closing \ {fd}

\* The peer closes or resets the connection, or sends a frame of 512 bytes
\* or more, which ws_handler refuses with an error that ends the session.
Leave(fd) ==
  /\ web.at = "idle" /\ sess[fd] = "open"
  /\ EndSession(fd)
  /\ UNCHANGED <<slots, fail, sess, tel, served, frame, room>>

\* The work that httpd_sess_trigger_close queued.
CloseAsked(fd) ==
  /\ web.at = "idle" /\ fd \in closing
  /\ EndSession(fd)
  /\ UNCHANGED <<slots, fail, sess, tel, served, frame, room>>

RemoveClient ==
  /\ web.at = "remove"
  /\ slots' = [slots EXCEPT ![web.i] = NoFd]
  /\ web' = [web EXCEPT !.at = "clear"]
  /\ UNCHANGED <<fail, sess, closing, tel, served, frame, room>>

RemoveCount ==
  /\ web.at = "clear"
  /\ fail' = [fail EXCEPT ![web.i] = 0]
  /\ Removes(web.fd, {i \in Slot : i > web.i /\ slots[i] = web.fd})
  /\ UNCHANGED <<slots, sess, closing, tel, served, frame, room>>

\* close(fd); httpd forgets the session, and work queued for it is void.
CloseSocket ==
  /\ web.at = "close"
  /\ sess' = [sess EXCEPT ![web.fd] = "free"]
  /\ closing' = closing \ {web.fd}
  /\ web' = IdleWeb
  /\ UNCHANGED <<slots, fail, tel, served, frame, room>>

\* A lid is closed, a phone roams: the peer is gone and no packet says so.
Vanish(fd) ==
  /\ sess[fd] = "open" /\ room.vanish > 0
  /\ sess' = [sess EXCEPT ![fd] = "gone"]
  /\ room' = [room EXCEPT !.vanish = @ - 1]
  /\ UNCHANGED <<slots, fail, closing, web, tel, served, frame>>

-----------------------------------------------------------------------------
(* telemetry_task.  A status frame is JSON in pieces: the head, one per    *)
(* pin ("i_pd" and the like or "o", and two digits; all but the first      *)
(* behind a comma), the bracket, and the blocks.  The numbers are what the *)
(* format strings hold besides the values.                                 *)
PinPiece(t, k) == 20 + (IF k <= t.out THEN 1 ELSE 4) + (IF k = 1 THEN 0 ELSE 1)

StatusPieces(t) ==
  <<81 + t.head>> \o [k \in 1..PinCount |-> PinPiece(t, k)]
    \o <<1, 94 + t.psu, 33 + t.ui, 123 + t.ann, 1>>

\* snprintf returns the length a piece would have; a piece is left out when
\* the lengths so far reach the size of the buffer.
Composed(pieces) == FoldLeft(LAMBDA n, len : IF n < PayloadSize THEN n + len ELSE n, 0, pieces)
StrLen(n)        == IF n < PayloadSize THEN n ELSE PayloadSize - 1

FrameOf == [t \in Texts |-> [len  |-> FoldLeft(LAMBDA n, len : n + len, 0, StatusPieces(t)),
                             sent |-> StrLen(Composed(StatusPieces(t)))]]

Turn(t) ==
  /\ tel.at = "wait" /\ served
  /\ frame' = FrameOf[t]
  /\ tel' = [IdleTel EXCEPT !.at = "slot"]
  /\ UNCHANGED <<slots, fail, sess, closing, web, served, room>>

NextSlot == [IdleTel EXCEPT !.at = "slot", !.i = tel.i + 1]

ReadSlot ==
  /\ tel.at = "slot" /\ tel.i \in Slot
  /\ tel' = IF slots[tel.i] = NoFd THEN NextSlot
            ELSE [tel EXCEPT !.at = "send", !.fd = slots[tel.i]]
  /\ UNCHANGED <<slots, fail, sess, closing, web, served, frame, room>>

TurnDone ==
  /\ tel.at = "slot" /\ tel.i \notin Slot
  /\ tel' = IdleTel
  /\ UNCHANGED <<slots, fail, sess, closing, web, served, frame, room>>

\* ws_send_json_to; a full socket makes it fail for a client that is there.
Send ==
  /\ tel.at = "send"
  /\ \/ sess[tel.fd] = "open" /\ tel' = [tel EXCEPT !.at = "reset"]
     \/ tel' = [tel EXCEPT !.at = "load"]
  /\ UNCHANGED <<slots, fail, sess, closing, web, served, frame, room>>

ResetCount ==
  /\ tel.at = "reset"
  /\ fail' = [fail EXCEPT ![tel.i] = 0]
  /\ tel' = NextSlot
  /\ UNCHANGED <<slots, sess, closing, web, served, frame, room>>

\* ++s_client_fail[i]: a load, an addition in 8 bits and a store.
LoadCount ==
  /\ tel.at = "load"
  /\ tel' = [tel EXCEPT !.at = "store", !.n = (fail[tel.i] + 1) % (CountMax + 1)]
  /\ UNCHANGED <<slots, fail, sess, closing, web, served, frame, room>>

\* Mutant: a close is asked for once, when the count is at the threshold of
\* a counter that stops at its largest value.
StoreCountOnce ==
  /\ tel.at = "store"
  /\ fail' = [fail EXCEPT ![tel.i] = IF tel.n = 0 THEN CountMax ELSE tel.n]
  /\ tel' = IF tel.n = FailThreshold THEN [tel EXCEPT !.at = "ask"] ELSE NextSlot
  /\ UNCHANGED <<slots, sess, closing, web, served, frame, room>>

StoreCount ==
  /\ tel.at = "store"
  /\ fail' = [fail EXCEPT ![tel.i] = tel.n]
  /\ tel' = IF tel.n >= FailThreshold THEN [tel EXCEPT !.at = "ask"] ELSE NextSlot
  /\ UNCHANGED <<slots, sess, closing, web, served, frame, room>>

\* httpd_sess_trigger_close: finds the session of fd, if there is one, and
\* queues work for the web task, for which there may be no room.
AskClose ==
  /\ tel.at = "ask"
  /\ \/ /\ closing' = closing \cup (IF sess[tel.fd] = "free" THEN {} ELSE {tel.fd})
        /\ UNCHANGED room
     \/ /\ room.refuse > 0 /\ room' = [room EXCEPT !.refuse = @ - 1]
        /\ UNCHANGED closing
  /\ tel' = NextSlot
  /\ UNCHANGED <<slots, fail, sess, web, served, frame>>

-----------------------------------------------------------------------------

WebTable == AddClient \/ AddCount \/ RemoveClient \/ RemoveCount \/ CloseSocket
WebStep  == WebTable \/ \E fd \in Fd : CloseAsked(fd)
TelStep  == \/ \E t \in Texts : Turn(t)
            \/ ReadSlot \/ TurnDone \/ Send \/ ResetCount \/ LoadCount \/ StoreCount \/ AskClose
Peers    == \E fd \in room.fds : Connect(fd) \/ Leave(fd) \/ Vanish(fd)
WsNext   == WebStep \/ TelStep \/ Peers

\* Both tasks are scheduled.  (The web task looks at its queue of work in
\* every round, before the sessions: clients that come and go do not hold it
\* up.  Here the bounds end their coming and going.)
WsFairness == WF_wsVars(WebStep) /\ WF_wsVars(TelStep)

WsSpec == WsInit /\ [][WsNext]_wsVars /\ WsFairness

-----------------------------------------------------------------------------
(* Properties.                                                             *)

\* No session has two slots, and a slot belongs to a session that is still
\* open: the table is cleared before the socket is closed, whatever made the
\* session end, so that no frame is sent to a socket's next owner from the
\* table (ws_on_client_closed).
SlotsSound ==
  /\ \A i, j \in Slot : slots[i] = slots[j] /\ slots[i] # NoFd => i = j
  /\ \A i \in Slot : slots[i] # NoFd => sess[slots[i]] # "free"

\* A peer that vanished without a word does not keep its slot
\* (FAIL_THRESHOLD's comment), although the count of its failures wraps
\* around in 8 bits, is written by two tasks, and closing may be refused.
GoneFreesSlot ==
  \A fd \in Fd : sess[fd] = "gone" ~> \A i \in Slot : slots[i] # fd

\* The status frame carries every block (ip_announcer.h:21, README.md:151):
\* the text that is sent is the whole of the JSON that was composed.
StatusFrameWhole == frame.sent = frame.len
=============================================================================
