--------------------------- MODULE FrontEnds_proofs ---------------------------
(***************************************************************************)
(* The front ends, for any number of sockets, slots, frames and queued     *)
(* commands, under every interleaving: a slot of the table of WebSocket    *)
(* clients belongs to one session that is open; the parser hands on what   *)
(* the host wrote and nothing else; and what reaches the control task's    *)
(* queue, or the factory reset, somebody asked for in full.                *)
(***************************************************************************)
EXTENDS FrontEnds, SequenceTheorems, WellFoundedInduction, TLAPS

TableTyped ==
  /\ slots \in [Slot -> Fd \cup {NoFd}]
  /\ sess \in [Fd -> {"free", "open", "gone"}]
  /\ web \in [at: {"idle", "add", "count", "remove", "clear", "close"},
              fd: Fd \cup {NoFd}, i: 0..MaxClients]
  /\ room \in [fds: SUBSET Fd, open: Nat, vanish: Nat, refuse: Nat]

\* A client about to be added has an open session, a free slot and no other.
AddingNew ==
  web.at = "add" =>
    /\ web.fd \in Fd /\ sess[web.fd] # "free"
    /\ web.i \in Slot /\ slots[web.i] = NoFd
    /\ \A i \in Slot : slots[i] # web.fd

\* A slot about to be cleared is the client's; with the slot cleared there is
\* no other of its; and a socket is closed when it has none.
RemovingOwn ==
  /\ web.at = "remove" => /\ web.fd \in Fd /\ web.i \in Slot /\ slots[web.i] = web.fd
  /\ web.at \in {"clear", "close"} => web.fd \in Fd /\ \A i \in Slot : slots[i] # web.fd
  /\ web.at \in {"count", "clear"} => web.i \in Slot

TableInv == TableTyped /\ AddingNew /\ RemovingOwn /\ SlotsSound

-----------------------------------------------------------------------------
\* What WsInit and a restart leave is sound.
LEMMA TableInit ==
  /\ WsInit => TableInv
  /\ TableInv /\ WsReset => TableInv'
<1>1. NoFd \notin Fd /\ NoFd \in Fd \cup {NoFd} /\ 0 \in 0..MaxClients
  BY WsAssumption
<1>. QED
  BY <1>1, WsAssumption DEF WsInit, WsReset, TableInv, TableTyped, AddingNew, RemovingOwn, SlotsSound, IdleWeb

\* A session that ends, and one more slot found: the slot is the client's.
LEMMA RemovesOwn ==
  ASSUME TableInv, NEW fd \in Fd, UNCHANGED <<slots, sess, room>>,
         NEW S \in SUBSET Slot, \A i \in S : slots[i] = fd,
         Removes(fd, S), S = {} => \A i \in Slot : slots[i] # fd
  PROVE  TableInv'
<1>1. 0 \in 0..MaxClients /\ Slot \subseteq 0..MaxClients
  BY WsAssumption DEF Slot
<1>2. CASE S = {} /\ web' = [at |-> "close", fd |-> fd, i |-> 0]
  BY <1>1, <1>2 DEF TableInv, TableTyped, AddingNew, RemovingOwn, SlotsSound
<1>3. ASSUME NEW i \in First(S), web' = [at |-> "remove", fd |-> fd, i |-> i] PROVE TableInv'
  <2>1. i \in S
    BY DEF First
  <2>2. i \in Slot /\ slots[i] = fd /\ i \in 0..MaxClients
    BY <1>1, <2>1
  <2>. QED
    BY <1>3, <2>2 DEF TableInv, TableTyped, AddingNew, RemovingOwn, SlotsSound
<1>. QED
  BY <1>2, <1>3 DEF Removes

\* Every step of the two tasks and of the peers keeps the table sound.
LEMMA TableStep == ASSUME TableInv, [WsNext]_wsVars PROVE TableInv'
<1>a. NoFd \notin Fd /\ Slot \subseteq 0..MaxClients /\ 0 \in 0..MaxClients
  BY WsAssumption DEF Slot
<1>1. ASSUME NEW fd \in Fd, Connect(fd) PROVE TableInv'
  <2>1. \A i \in Slot : slots[i] # fd
    BY <1>a, <1>1 DEF Connect, TableInv, SlotsSound
  <2>2. /\ sess' \in [Fd -> {"free", "open", "gone"}]
        /\ \A g \in Fd : sess'[g] = IF g = fd THEN "open" ELSE sess[g]
        /\ room' \in [fds: SUBSET Fd, open: Nat, vanish: Nat, refuse: Nat]
        /\ UNCHANGED slots
    BY <1>1 DEF Connect, TableInv, TableTyped
  <2>3. SlotsSound'
    BY <1>a, <2>2 DEF TableInv, TableTyped, SlotsSound
  <2>4. CASE web' = IdleWeb
    BY <1>a, <2>2, <2>3, <2>4 DEF TableInv, TableTyped, AddingNew, RemovingOwn, IdleWeb
  <2>5. ASSUME NEW i \in First(FreeSlots), web' = [at |-> "add", fd |-> fd, i |-> i]
        PROVE  TableInv'
    <3>1. i \in Slot /\ slots[i] = NoFd /\ i \in 0..MaxClients
      BY <1>a DEF First, FreeSlots
    <3>. QED
      BY <1>a, <2>1, <2>2, <2>3, <2>5, <3>1 DEF TableInv, TableTyped, AddingNew, RemovingOwn
  <2>. QED
    BY <1>1, <2>4, <2>5 DEF Connect
<1>2. ASSUME AddClient PROVE TableInv'
  <2>1. /\ web.fd \in Fd /\ sess[web.fd] # "free" /\ web.i \in Slot
        /\ \A i \in Slot : slots[i] # web.fd
    BY <1>2 DEF AddClient, TableInv, AddingNew
  <2>2. /\ slots' \in [Slot -> Fd \cup {NoFd}]
        /\ \A i \in Slot : slots'[i] = IF i = web.i THEN web.fd ELSE slots[i]
        /\ UNCHANGED <<sess, room>>
    BY <1>2, <2>1 DEF AddClient, TableInv, TableTyped
  <2>3. SlotsSound'
    BY <2>1, <2>2 DEF TableInv, SlotsSound
  <2>4. /\ web'.at = "count" /\ web'.i = web.i
        /\ web' \in [at: {"idle", "add", "count", "remove", "clear", "close"},
                     fd: Fd \cup {NoFd}, i: 0..MaxClients]
    BY <1>2 DEF AddClient, TableInv, TableTyped
  <2>. QED
    BY <2>1, <2>2, <2>3, <2>4 DEF TableInv, TableTyped, AddingNew, RemovingOwn
<1>3. ASSUME AddCount PROVE TableInv'
  BY <1>a, <1>3 DEF AddCount, IdleWeb, TableInv, TableTyped, AddingNew, RemovingOwn, SlotsSound
<1>4. ASSUME NEW fd \in Fd, EndSession(fd), UNCHANGED <<slots, sess, room>> PROVE TableInv'
  BY <1>4, RemovesOwn DEF EndSession
<1>5. ASSUME RemoveClient PROVE TableInv'
  <2>1. web.fd \in Fd /\ web.i \in Slot /\ slots[web.i] = web.fd
    BY <1>5 DEF RemoveClient, TableInv, RemovingOwn
  <2>2. /\ slots' \in [Slot -> Fd \cup {NoFd}]
        /\ \A i \in Slot : slots'[i] = IF i = web.i THEN NoFd ELSE slots[i]
        /\ UNCHANGED <<sess, room>>
    BY <1>5, <2>1 DEF RemoveClient, TableInv, TableTyped
  <2>3. SlotsSound'
    BY <2>1, <2>2 DEF TableInv, SlotsSound
  <2>4. ASSUME NEW i \in Slot PROVE slots'[i] # web.fd
    <3>1. web.fd # NoFd
      BY <1>a, <2>1
    <3>2. slots[i] = slots[web.i] /\ slots[i] # NoFd => i = web.i
      BY <2>1 DEF TableInv, SlotsSound
    <3>. QED
      BY <2>1, <2>2, <3>1, <3>2
  <2>5. /\ web'.at = "clear" /\ web'.i = web.i /\ web'.fd = web.fd
        /\ web' \in [at: {"idle", "add", "count", "remove", "clear", "close"},
                     fd: Fd \cup {NoFd}, i: 0..MaxClients]
    BY <1>5 DEF RemoveClient, TableInv, TableTyped
  <2>. QED
    BY <2>1, <2>2, <2>3, <2>4, <2>5 DEF TableInv, TableTyped, AddingNew, RemovingOwn
<1>6. ASSUME RemoveCount PROVE TableInv'
  <2> DEFINE S == {i \in Slot : i > web.i /\ slots[i] = web.fd}
  <2>1. web.fd \in Fd /\ \A i \in Slot : slots[i] # web.fd
    BY <1>6 DEF RemoveCount, TableInv, RemovingOwn
  <2>2. /\ S \in SUBSET Slot /\ \A i \in S : slots[i] = web.fd
        /\ Removes(web.fd, S) /\ UNCHANGED <<slots, sess, room>>
    BY <1>6 DEF RemoveCount
  <2> HIDE DEF S
  <2>. QED
    BY <2>1, <2>2, RemovesOwn
<1>7. ASSUME CloseSocket PROVE TableInv'
  <2>1. web.fd \in Fd /\ \A i \in Slot : slots[i] # web.fd
    BY <1>7 DEF CloseSocket, TableInv, RemovingOwn
  <2>2. /\ sess' \in [Fd -> {"free", "open", "gone"}]
        /\ \A g \in Fd : sess'[g] = IF g = web.fd THEN "free" ELSE sess[g]
        /\ UNCHANGED <<slots, room>> /\ web' = IdleWeb
    BY <1>7, <2>1 DEF CloseSocket, TableInv, TableTyped
  <2>3. SlotsSound'
    BY <2>1, <2>2 DEF TableInv, TableTyped, SlotsSound
  <2>. QED
    BY <1>a, <2>2, <2>3 DEF TableInv, TableTyped, AddingNew, RemovingOwn, IdleWeb
<1>8. ASSUME NEW fd \in Fd, Vanish(fd) PROVE TableInv'
  <2>1. /\ sess' \in [Fd -> {"free", "open", "gone"}]
        /\ \A g \in Fd : sess'[g] = IF g = fd THEN "gone" ELSE sess[g]
        /\ room' \in [fds: SUBSET Fd, open: Nat, vanish: Nat, refuse: Nat]
        /\ UNCHANGED <<slots, web>>
    BY <1>8 DEF Vanish, TableInv, TableTyped
  <2>2. SlotsSound'
    BY <1>a, <2>1 DEF TableInv, TableTyped, SlotsSound
  <2>. QED
    BY <2>1, <2>2 DEF TableInv, TableTyped, AddingNew, RemovingOwn
<1>9. ASSUME UNCHANGED <<slots, sess, web>>,
             room' \in [fds: SUBSET Fd, open: Nat, vanish: Nat, refuse: Nat]
      PROVE  TableInv'
  BY <1>9 DEF TableInv, TableTyped, AddingNew, RemovingOwn, SlotsSound
<1>10. ASSUME TelStep PROVE TableInv'
  <2>1. CASE AskClose
    BY <1>9, <2>1 DEF AskClose, TableInv, TableTyped
  <2>2. CASE UNCHANGED <<slots, sess, web, room>>
    BY <1>9, <2>2 DEF TableInv, TableTyped
  <2>. QED
    BY <1>10, <2>1, <2>2 DEF TelStep, Turn, ReadSlot, TurnDone, Send, ResetCount, LoadCount,
       StoreCount
<1>11. ASSUME WebStep PROVE TableInv'
  BY <1>2, <1>3, <1>4, <1>5, <1>6, <1>7, <1>11 DEF WebStep, WebTable, CloseAsked
<1>12. ASSUME NEW fd \in Fd, Connect(fd) \/ Leave(fd) \/ Vanish(fd) PROVE TableInv'
  BY <1>1, <1>4, <1>8, <1>12 DEF Leave
<1>. QED
  <2>1. room.fds \subseteq Fd
    BY DEF TableInv, TableTyped
  <2>2. CASE UNCHANGED wsVars
    BY <1>9, <2>2 DEF wsVars, TableInv, TableTyped
  <2>. QED
    BY <1>10, <1>11, <1>12, <2>1, <2>2 DEF WsNext, Peers, wsVars

\* What a step of the front ends does to the WebSocket part.
LEMMA WsAside ==
  ASSUME [FrontNext]_frontVars
  PROVE  WsOnly(WsNext) \/ Restart \/ UNCHANGED wsVars
<1>1. CASE \/ \E c \in Command \cup {ResetCmd}, fd \in Fd : WsMessage(fd, c)
           \/ \E c \in Command : HidReport(c) \/ ConsoleCommand(c)
           \/ HidRpmReport \/ HidSecond \/ HidReset \/ BootButton \/ ConsoleEnds
  BY <1>1 DEF WsMessage, HidReport, ConsoleCommand, HidRpmReport, HidSecond, HidReset,
     BootButton, ConsoleEnds
<1>2. CASE \E f \in HostFrames : CdcHostWrites(f)
  BY <1>2 DEF CdcHostWrites
<1>3. CASE CdcHostStops \/ CdcReads \/ Serve
  BY <1>3 DEF CdcHostStops, CdcReads, Serve
<1>4. CASE UNCHANGED frontVars
  BY <1>4 DEF frontVars
<1>. QED
  BY <1>1, <1>2, <1>3, <1>4 DEF FrontNext

\* The other front ends leave the table alone, and a restart empties it.
LEMMA FrontStep == ASSUME TableInv, [FrontNext]_frontVars PROVE TableInv'
<1>1. CASE WsOnly(WsNext)
  BY <1>1, TableStep DEF WsOnly
<1>2. CASE Restart
  BY <1>2, TableInit DEF Restart
<1>3. CASE UNCHANGED wsVars
  BY <1>3, TableStep
<1>. QED
  BY <1>1, <1>2, <1>3, WsAside

\* No frame is sent to a socket's next owner from the table: whatever ends a
\* session, and whatever the other front ends and a restart do, a slot is one
\* session's and the session is open (ws_on_client_closed).
THEOREM SlotsAlwaysSound == FrontSpec => []SlotsSound
<1>1. FrontInit => TableInv
  BY TableInit DEF FrontInit
<1>2. TableInv /\ [FrontNext]_frontVars => TableInv'
  BY FrontStep
<1>3. TableInv => SlotsSound
  BY DEF TableInv
<1>. QED
  BY <1>1, <1>2, <1>3, PTL DEF FrontSpec

-----------------------------------------------------------------------------
(* The types of the WebSocket part.  The counters wrap around within their *)
(* range, and what is sent of a status frame fits its buffer.              *)

\* Past reading a slot, telemetry_task has the socket it found there.
TelHas ==
  tel.at \in {"send", "reset", "load", "store", "ask"} => tel.i \in Slot /\ tel.fd \in Fd

WsTyped ==
  /\ fail \in [Slot -> 0..CountMax]
  /\ closing \subseteq Fd
  /\ tel \in [at: {"wait", "slot", "send", "reset", "load", "store", "ask"},
              i: 1..MaxClients + 1, fd: Fd \cup {NoFd}, n: 0..CountMax]
  /\ served \in BOOLEAN
  /\ frame.sent < PayloadSize
  /\ TelHas

LEMMA WsTypes == TableInv /\ WsTyped => WsTypeOK
  BY DEF TableInv, TableTyped, WsTyped, WsTypeOK

LEMMA WsTypedInit ==
  /\ WsInit => WsTyped
  /\ WsReset => WsTyped'
<1>1. 0 \in 0..CountMax /\ 1 \in 1..MaxClients + 1 /\ 0 < PayloadSize
  BY WsAssumption
<1>2. IdleTel \in [at: {"wait"}, i: 1..MaxClients + 1, fd: Fd \cup {NoFd}, n: 0..CountMax]
  BY <1>1 DEF IdleTel
<1>3. ASSUME tel = IdleTel, fail = [i \in Slot |-> 0], closing = {}, served = FALSE,
             frame = [len |-> 0, sent |-> 0]
      PROVE  WsTyped
  BY <1>1, <1>2, <1>3 DEF WsTyped, TelHas
<1>4. ASSUME tel' = IdleTel, fail' = [i \in Slot |-> 0], closing' = {}, served' = FALSE,
             frame' = [len |-> 0, sent |-> 0]
      PROVE  WsTyped'
  BY <1>1, <1>2, <1>4 DEF WsTyped, TelHas
<1>. QED
  BY <1>3, <1>4 DEF WsInit, WsReset

\* The counters: the two tasks store what is in their range.
LEMMA FailTyped ==
  ASSUME WsTyped, NEW i \in Slot, NEW n \in 0..CountMax, fail' = [fail EXCEPT ![i] = n],
         UNCHANGED <<closing, tel, served, frame>>
  PROVE  WsTyped'
  BY DEF WsTyped, TelHas

LEMMA WebTyped ==
  ASSUME TableInv, WsTyped,
         WebStep \/ \E fd \in Fd : Connect(fd) \/ Leave(fd) \/ Vanish(fd)
  PROVE  WsTyped'
<1>0. 0 \in 0..CountMax
  BY WsAssumption
<1>1. CASE AddCount
  BY <1>0, <1>1, FailTyped DEF AddCount, TableInv, RemovingOwn
<1>2. CASE RemoveCount
  BY <1>0, <1>2, FailTyped DEF RemoveCount, TableInv, RemovingOwn
<1>3. CASE AddClient \/ RemoveClient
  BY <1>3 DEF AddClient, RemoveClient, WsTyped, TelHas
<1>4. CASE CloseSocket
  BY <1>4 DEF CloseSocket, WsTyped, TelHas
<1>5. ASSUME NEW fd \in Fd, CloseAsked(fd) \/ Leave(fd) PROVE WsTyped'
  BY <1>5 DEF CloseAsked, Leave, EndSession, WsTyped, TelHas
<1>6. ASSUME NEW fd \in Fd, Connect(fd) \/ Vanish(fd) PROVE WsTyped'
  BY <1>6 DEF Connect, Vanish, WsTyped, TelHas
<1>. QED
  BY <1>1, <1>2, <1>3, <1>4, <1>5, <1>6 DEF WebStep, WebTable

LEMMA TelTyped ==
  ASSUME TableInv, WsTyped, TelStep
  PROVE  WsTyped'
<1>0. /\ MaxClients \in Nat \ {0} /\ CountMax \in Nat /\ PayloadSize \in Nat \ {0}
      /\ Slot = 1..MaxClients /\ slots \in [Slot -> Fd \cup {NoFd}]
  BY WsAssumption DEF Slot, TableInv, TableTyped
<1>1. IdleTel \in [at: {"wait"}, i: 1..MaxClients + 1, fd: Fd \cup {NoFd}, n: 0..CountMax]
  BY <1>0 DEF IdleTel
<1>2. tel.i \in Slot =>
        NextSlot \in [at: {"slot"}, i: 1..MaxClients + 1, fd: Fd \cup {NoFd}, n: 0..CountMax]
  <2>1. tel.i \in Slot => tel.i + 1 \in 1..MaxClients + 1
    BY <1>0
  <2>. QED
    BY <1>1, <2>1 DEF NextSlot, IdleTel
<1>3. ASSUME NEW t \in Texts, Turn(t) PROVE WsTyped'
  <2>1. frame'.sent = StrLen(Composed(StatusPieces(t)))
    BY <1>3 DEF Turn, FrameOf
  <2>2. \A n : StrLen(n) < PayloadSize
    BY <1>0 DEF StrLen
  <2>. QED
    BY <1>1, <1>3, <2>1, <2>2 DEF Turn, WsTyped, TelHas, IdleTel
<1>4. CASE ReadSlot
  <2>1. CASE slots[tel.i] = NoFd
    BY <1>2, <1>4, <2>1 DEF ReadSlot, WsTyped, TelHas
  <2>2. CASE slots[tel.i] # NoFd
    BY <1>0, <1>4, <2>2 DEF ReadSlot, WsTyped, TelHas
  <2>. QED
    BY <2>1, <2>2
<1>5. CASE TurnDone
  BY <1>1, <1>5 DEF TurnDone, WsTyped, TelHas
<1>6. CASE Send
  BY <1>6 DEF Send, WsTyped, TelHas
<1>7. CASE ResetCount
  BY <1>0, <1>2, <1>7 DEF ResetCount, WsTyped, TelHas
<1>8. CASE LoadCount
  <2> DEFINE n == (fail[tel.i] + 1) % (CountMax + 1)
  <2>1. fail[tel.i] \in Nat
    BY <1>0, <1>8 DEF LoadCount, WsTyped, TelHas
  <2>2. n \in 0..CountMax
    BY <1>0, <2>1
  <2>. QED
    BY <1>8, <2>2 DEF LoadCount, WsTyped, TelHas
<1>9. CASE StoreCount
  <2>1. fail' \in [Slot -> 0..CountMax]
    BY <1>9 DEF StoreCount, WsTyped, TelHas
  <2>2. tel.i \in Slot
    BY <1>9 DEF StoreCount, WsTyped, TelHas
  <2>. QED
    BY <1>2, <1>9, <2>1, <2>2 DEF StoreCount, WsTyped, TelHas
<1>10. CASE AskClose
  BY <1>2, <1>10 DEF AskClose, WsTyped, TelHas
<1>. QED
  BY <1>3, <1>4, <1>5, <1>6, <1>7, <1>8, <1>9, <1>10 DEF TelStep

LEMMA WsTypedStep ==
  ASSUME TableInv, WsTyped, [FrontNext]_frontVars
  PROVE  WsTyped'
<1>1. CASE WsOnly(WsNext)
  <2>1. room.fds \subseteq Fd
    BY DEF TableInv, TableTyped
  <2>. QED
    BY <1>1, <2>1, WebTyped, TelTyped DEF WsOnly, WsNext, Peers
<1>2. CASE Restart
  BY <1>2, WsTypedInit DEF Restart
<1>3. CASE UNCHANGED wsVars
  BY <1>3 DEF wsVars, WsTyped, TelHas
<1>. QED
  BY <1>1, <1>2, <1>3, WsAside

-----------------------------------------------------------------------------
(* The parser.  Byte by byte it holds the beginning of the frame on the    *)
(* line, and the half of an escape that the line is in.                    *)

Prefix(f, n) == SubSeq(f, 1, n)

LEMMA PrefixIs ==
  ASSUME NEW f \in Seq(STRING), NEW n \in 0..Len(f)
  PROVE  /\ Prefix(f, n) \in Seq(STRING) /\ Len(Prefix(f, n)) = n
         /\ \A i \in 1..n : Prefix(f, n)[i] = f[i]
<1>1. n \in Nat /\ Len(f) \in Nat /\ \A i \in 1..n : f[i] \in STRING
  BY ElementOfSeq
<1>2. /\ SubSeq(f, 1, n) \in Seq(STRING)
      /\ Len(SubSeq(f, 1, n)) = IF 1 <= n THEN n - 1 + 1 ELSE 0
      /\ \A i \in 1..(n - 1 + 1) : SubSeq(f, 1, n)[i] = f[1 + i - 1]
  BY <1>1, SubSeqProperties
<1>. QED
  BY <1>1, <1>2 DEF Prefix

LEMMA PrefixGrows ==
  ASSUME NEW f \in Seq(STRING), NEW n \in 0..(Len(f) - 1)
  PROVE  Append(Prefix(f, n), f[n + 1]) = Prefix(f, n + 1)
<1>1. n \in 0..Len(f) /\ n + 1 \in 0..Len(f) /\ n + 1 \in 1..Len(f) /\ n \in Nat
  BY LenProperties
<1> DEFINE p == Prefix(f, n)
           q == Prefix(f, n + 1)
<1>2. /\ p \in Seq(STRING) /\ Len(p) = n /\ \A i \in 1..n : p[i] = f[i]
      /\ q \in Seq(STRING) /\ Len(q) = n + 1 /\ \A i \in 1..(n + 1) : q[i] = f[i]
  BY <1>1, PrefixIs
<1>3. f[n + 1] \in STRING
  BY <1>1, ElementOfSeq
<1> HIDE DEF p, q
<1> DEFINE a == Append(p, f[n + 1])
<1>4. /\ a \in Seq(STRING) /\ Len(a) = n + 1 /\ a[n + 1] = f[n + 1]
      /\ \A i \in 1..n : a[i] = p[i]
  BY <1>1, <1>2, <1>3
<1>5. \A i \in 1..(n + 1) : a[i] = q[i]
  BY <1>1, <1>2, <1>4
<1> HIDE DEF a
<1>6. a = q
  BY <1>2, <1>4, <1>5, SeqEqual
<1>. QED
  BY <1>6 DEF a, p, q

Frames == HostFrames \cup {<< >>}

LEMMA FrameIs ==
  /\ \A f \in Frames : f \in Seq(STRING) /\ Len(f) \in Nat
  /\ \A f \in HostFrames : f # << >> /\ Len(f) > 0
<1>1. \A f \in HostFrames : f \in Seq(STRING) /\ f # << >>
  BY CdcAssumption
<1>2. << >> \in Seq(STRING)
  BY EmptySeq
<1>3. \A f \in Frames : f \in Seq(STRING)
  BY <1>1, <1>2 DEF Frames
<1>4. \A f \in Seq(STRING) : Len(f) \in Nat /\ (f # << >> => Len(f) > 0)
  BY EmptySeq, LenProperties
<1>. QED
  BY <1>1, <1>3, <1>4

CdcTyped ==
  /\ parser \in [inFrame: BOOLEAN, esc: BOOLEAN, buf: Seq(STRING)]
  /\ Len(parser.buf) <= BufLen
  /\ ~parser.inFrame => parser.buf = << >>
  /\ line \in [frame: Frames, k: Nat, half: BOOLEAN, torn: BOOLEAN]
  /\ line.k <= Len(line.frame) + 2
  /\ src \in [frame: Frames, n: Nat] /\ src.n <= Len(src.frame)

\* What the parser holds, and what of the line it has seen.
Follows ==
  /\ line.half => Escapes
  /\ parser.inFrame => parser.buf = Prefix(src.frame, src.n)
  /\ Left /\ line.k > 0 =>
       /\ src.frame = line.frame /\ src.n = line.k - 1
       /\ parser.inFrame => parser.esc = line.half
       /\ src.n <= BufLen => parser.inFrame

CdcInv == CdcTyped /\ Follows /\ FramesWhole

LEMMA CdcTypes == CdcInv => CdcTypeOK
<1>1. CdcInv => Len(line.frame) \in Nat
  BY FrameIs DEF CdcInv, CdcTyped
<1>2. CdcInv => line.k \in 0..(Len(line.frame) + 2)
  BY <1>1 DEF CdcInv, CdcTyped
<1>. QED
  BY <1>2 DEF CdcInv, CdcTyped, CdcTypeOK, Frames

\* A line that is silent, and a parser that has seen nothing, at first and
\* after a restart.
LEMMA CdcAtRest ==
  ASSUME parser = Fresh, src = NoSrc, heard = NotHeard,
         line \in [frame: Frames, k: Nat, half: BOOLEAN, torn: BOOLEAN],
         line.k = Len(line.frame) + 2, ~line.half, line.frame = << >> \/ line.torn
  PROVE  CdcInv
<1>1. << >> \in Seq(STRING) /\ Len(<< >>) = 0 /\ BufLen \in Nat /\ << >> \in Frames
  BY EmptySeq, CdcAssumption DEF Frames
<1>2. Len(line.frame) \in Nat
  BY FrameIs
<1>3. CdcTyped
  BY <1>1, <1>2 DEF CdcTyped, Fresh, NoSrc
<1>4. ~Left
  BY <1>2 DEF Left
<1>5. Follows /\ FramesWhole
  BY <1>4 DEF Follows, FramesWhole, Fresh, NotHeard
<1>. QED
  BY <1>3, <1>5 DEF CdcInv

LEMMA CdcFirst == CdcInit => CdcInv
<1>1. << >> \in Frames /\ Len(<< >>) = 0
  BY EmptySeq DEF Frames
<1>. QED
  BY <1>1, CdcAtRest DEF CdcInit, Silent

LEMMA CutEnds ==
  ASSUME CdcTyped, line' = Cut
  PROVE  /\ line' \in [frame: Frames, k: Nat, half: BOOLEAN, torn: BOOLEAN]
         /\ line'.frame = line.frame /\ line'.k = Len(line.frame) + 2
         /\ ~line'.half /\ line'.torn
<1> DEFINE m == Len(line.frame) + 2
<1>1. line \in [frame: Frames, k: Nat, half: BOOLEAN, torn: BOOLEAN] /\ m \in Nat
  BY FrameIs DEF CdcTyped
<1>2. line' = [line EXCEPT !.k = m, !.half = FALSE, !.torn = TRUE]
  BY DEF Cut
<1> HIDE DEF m
<1>3. /\ line' \in [frame: Frames, k: Nat, half: BOOLEAN, torn: BOOLEAN]
      /\ line'.frame = line.frame /\ line'.k = m /\ ~line'.half /\ line'.torn
  BY <1>1, <1>2
<1>. QED
  BY <1>3 DEF m

LEMMA CdcRestarts ==
  ASSUME CdcInv, parser' = Fresh, src' = NoSrc, heard' = NotHeard, line' = Cut
  PROVE  CdcInv'
<1>1. Len(line.frame) \in Nat /\ line \in [frame: Frames, k: Nat, half: BOOLEAN, torn: BOOLEAN]
  BY FrameIs DEF CdcInv, CdcTyped
<1>2. /\ line' \in [frame: Frames, k: Nat, half: BOOLEAN, torn: BOOLEAN]
      /\ line'.k = Len(line'.frame) + 2 /\ ~line'.half /\ line'.torn
  BY <1>1, CutEnds DEF CdcInv
<1>3. << >> \in Seq(STRING) /\ Len(<< >>) = 0 /\ BufLen \in Nat /\ << >> \in Frames
  BY EmptySeq, CdcAssumption DEF Frames
<1>4. CdcTyped'
  BY <1>1, <1>2, <1>3 DEF CdcTyped, Fresh, NoSrc
<1>5. ~Left'
  BY <1>1, <1>2 DEF Left
<1>6. Follows' /\ FramesWhole'
  BY <1>2, <1>5 DEF Follows, FramesWhole, Fresh, NotHeard
<1>. QED
  BY <1>4, <1>6 DEF CdcInv

LEMMA CdcWrites ==
  ASSUME CdcInv, NEW f \in HostFrames, HostWrites(f)
  PROVE  CdcInv'
<1>1. Len(f) \in Nat /\ f \in Frames /\ f # << >>
  BY FrameIs DEF Frames
<1>2. line' = [frame |-> f, k |-> 0, half |-> FALSE, torn |-> FALSE]
      /\ heard' = NotHeard /\ UNCHANGED <<parser, src>>
  BY DEF HostWrites
<1>3. CdcTyped'
  BY <1>1, <1>2 DEF CdcInv, CdcTyped
<1>4. Left' /\ line'.k = 0 /\ ~line'.half
  BY <1>1, <1>2 DEF Left
<1>5. (parser.inFrame => parser.buf = Prefix(src.frame, src.n))'
  BY <1>2 DEF CdcInv, Follows, Prefix
<1>6. Follows'
  BY <1>4, <1>5 DEF Follows
<1>. QED
  BY <1>2, <1>3, <1>4, <1>6 DEF CdcInv, FramesWhole

LEMMA CdcStops ==
  ASSUME CdcInv, HostStops
  PROVE  CdcInv'
<1>1. Len(line.frame) \in Nat /\ line \in [frame: Frames, k: Nat, half: BOOLEAN, torn: BOOLEAN]
  BY FrameIs DEF CdcInv, CdcTyped
<1>2. /\ line' \in [frame: Frames, k: Nat, half: BOOLEAN, torn: BOOLEAN]
      /\ line'.k = Len(line'.frame) + 2 /\ ~line'.half /\ line'.torn
      /\ UNCHANGED <<parser, src, heard>>
  BY <1>1, CutEnds DEF HostStops, CdcInv
<1>3. CdcTyped'
  BY <1>1, <1>2 DEF CdcInv, CdcTyped
<1>4. ~Left'
  BY <1>1, <1>2 DEF Left
<1>5. (parser.inFrame => parser.buf = Prefix(src.frame, src.n))'
  BY <1>2 DEF CdcInv, Follows, Prefix
<1>6. Follows' /\ FramesWhole'
  BY <1>2, <1>4, <1>5 DEF CdcInv, Follows, FramesWhole
<1>. QED
  BY <1>3, <1>6 DEF CdcInv

\* The line goes on.
LEMMA Advances ==
  ASSUME CdcTyped, Advance
  PROVE  /\ line' \in [frame: Frames, k: Nat, half: BOOLEAN, torn: BOOLEAN]
         /\ line'.frame = line.frame /\ line'.torn = line.torn
         /\ IF Escapes /\ ~line.half THEN line'.k = line.k /\ line'.half
                                     ELSE line'.k = line.k + 1 /\ ~line'.half
<1> DEFINE m == line.k + 1
<1>1. line \in [frame: Frames, k: Nat, half: BOOLEAN, torn: BOOLEAN] /\ m \in Nat
  BY DEF CdcTyped
<1>2. CASE Escapes /\ ~line.half
  <2>1. line' = [line EXCEPT !.half = TRUE]
    BY <1>2 DEF Advance
  <2>. QED
    BY <1>1, <1>2, <2>1
<1>3. CASE ~(Escapes /\ ~line.half)
  <2>1. line' = [line EXCEPT !.k = m, !.half = FALSE]
    BY <1>3 DEF Advance
  <2> HIDE DEF m
  <2>2. /\ line' \in [frame: Frames, k: Nat, half: BOOLEAN, torn: BOOLEAN]
        /\ line'.frame = line.frame /\ line'.torn = line.torn
        /\ line'.k = m /\ ~line'.half
    BY <1>1, <2>1
  <2>. QED
    BY <1>3, <2>2 DEF m
<1>. QED
  BY <1>2, <1>3

LEMMA NoPrefix == ASSUME NEW f \in Frames PROVE Prefix(f, 0) = << >>
  BY SubSeqEmpty DEF Prefix

\* An END begins the next frame, whatever came before it, and ends one.
LEMMA CdcFeedsEnd ==
  ASSUME CdcInv, Feed, ~Inside
  PROVE  CdcInv'
<1> DEFINE f == line.frame
<1>1. /\ Len(f) \in Nat /\ f \in Frames /\ line.k \in Nat /\ BufLen \in Nat
      /\ line.k < Len(f) + 2 /\ (f # << >> => Len(f) > 0)
  BY FrameIs, CdcAssumption DEF CdcInv, CdcTyped, Feed, Left, Frames
<1>2. line.k = 0 \/ line.k = Len(f) + 1
  BY <1>1 DEF Inside
<1>3. Byte = "END" /\ ~Escapes /\ FeedEnd
  BY DEF Byte, Escapes, Feed, FeedEsc, FeedData
<1>4. /\ line' \in [frame: Frames, k: Nat, half: BOOLEAN, torn: BOOLEAN]
      /\ line'.frame = f /\ line'.torn = line.torn /\ line'.k = line.k + 1 /\ ~line'.half
  BY <1>3, Advances DEF CdcInv, Feed
<1>5. parser' = [inFrame |-> TRUE, esc |-> FALSE, buf |-> << >>]
  BY <1>3 DEF FeedEnd, Fresh
<1>6. << >> \in Seq(STRING) /\ Len(<< >>) = 0 /\ << >> \in Frames
  BY EmptySeq DEF Frames
<1>7. src' \in [frame: Frames, n: Nat] /\ src'.n = 0 /\ src'.n <= Len(src'.frame)
      /\ (line.k = 0 => src'.frame = f)
  BY <1>1, <1>3, <1>6 DEF FeedEnd, NoSrc
<1>8. CdcTyped'
  BY <1>1, <1>4, <1>5, <1>6, <1>7 DEF CdcTyped
<1>9. Prefix(src'.frame, src'.n) = << >>
  BY <1>7, NoPrefix
<1>10. (parser.inFrame => parser.buf = Prefix(src.frame, src.n))'
  BY <1>5, <1>9 DEF Prefix
<1>11. Left' /\ line'.k > 0 => line.k = 0
  BY <1>1, <1>2, <1>4 DEF Left
<1>12. Follows'
  <2>1. (line.half => Escapes)'
    BY <1>4
  <2>2. Left' /\ line'.k > 0 => src'.frame = line'.frame /\ src'.n = line'.k - 1
    BY <1>4, <1>7, <1>11
  <2>3. (parser.inFrame => parser.esc = line.half)' /\ (src.n <= BufLen => parser.inFrame)'
    BY <1>4, <1>5
  <2>. QED
    BY <1>10, <2>1, <2>2, <2>3 DEF Follows
<1>13. heard' # NotHeard => heard'.frame = SubSeq(heard'.of.frame, 1, heard'.of.n)
  <2>1. CASE Handles
    <3>1. heard' = [frame |-> parser.buf, of |-> src]
      BY <1>3, <2>1 DEF FeedEnd
    <3>2. parser.buf = Prefix(src.frame, src.n)
      BY <2>1 DEF Handles, CdcInv, Follows
    <3>. QED
      BY <3>1, <3>2 DEF Prefix
  <2>2. CASE ~Handles
    BY <1>3, <2>2 DEF FeedEnd, CdcInv, FramesWhole
  <2>. QED
    BY <2>1, <2>2
<1>14. ASSUME f # << >>, ~Left', ~line'.torn, Len(f) <= BufLen
       PROVE  heard' = [frame |-> f, of |-> [frame |-> f, n |-> Len(f)]]
  <2>1. line.k = Len(f) + 1 /\ line.k > 0 /\ Left
    BY <1>1, <1>2, <1>4, <1>14 DEF Left
  <2>2. src.frame = f /\ src.n = Len(f)
    BY <1>1, <2>1 DEF CdcInv, Follows
  <2>3. parser.inFrame /\ parser.buf = Prefix(f, Len(f))
    BY <1>14, <2>1, <2>2 DEF CdcInv, Follows
  <2>4. parser.buf = f
    BY <1>1, <2>3, FrameIs, SubSeqFull DEF Prefix
  <2>5. Handles
    BY <1>3, <1>14, <2>1, <2>3, <2>4 DEF Handles
  <2>6. src = [frame |-> f, n |-> Len(f)]
    BY <2>2 DEF CdcInv, CdcTyped
  <2>. QED
    BY <1>3, <2>4, <2>5, <2>6 DEF FeedEnd
<1>15. FramesWhole'
  BY <1>4, <1>13, <1>14 DEF FramesWhole
<1>. QED
  BY <1>8, <1>12, <1>15 DEF CdcInv

\* The first byte of an escape.
LEMMA CdcFeedsEsc ==
  ASSUME CdcInv, Feed, Escapes, ~line.half
  PROVE  CdcInv'
<1> DEFINE f == line.frame
<1>1. /\ Len(f) \in Nat /\ line.k \in Nat /\ line.k \in 1..Len(f) /\ line.k > 0 /\ Left
  BY FrameIs DEF CdcInv, CdcTyped, Feed, Escapes, Inside
<1>2. Byte = "ESC"
  BY DEF Byte, Escapes
<1>3. parser.inFrame => ~parser.esc
  BY <1>1 DEF CdcInv, Follows
<1>4. FeedEsc
  BY <1>2, <1>3 DEF Feed, FeedEnd, FeedData
<1>5. /\ line' \in [frame: Frames, k: Nat, half: BOOLEAN, torn: BOOLEAN]
      /\ line'.frame = f /\ line'.torn = line.torn /\ line'.k = line.k /\ line'.half
  BY Advances DEF CdcInv, Feed
<1>6. /\ UNCHANGED <<src, heard>> /\ parser'.inFrame = parser.inFrame /\ parser'.buf = parser.buf
      /\ parser' \in [inFrame: BOOLEAN, esc: BOOLEAN, buf: Seq(STRING)]
      /\ parser.inFrame => parser'.esc
  BY <1>4 DEF FeedEsc, CdcInv, CdcTyped
<1>7. CdcTyped'
  BY <1>1, <1>5, <1>6 DEF CdcInv, CdcTyped
<1>8. Left' /\ Escapes'
  BY <1>1, <1>5 DEF Left, Escapes, Inside, Reserved
<1>9. (parser.inFrame => parser.buf = Prefix(src.frame, src.n))'
  BY <1>6 DEF CdcInv, Follows, Prefix
<1>10. Follows'
  <2>1. src.frame = f /\ src.n = line.k - 1 /\ (src.n <= BufLen => parser.inFrame)
    BY <1>1 DEF CdcInv, Follows
  <2>2. (parser.inFrame => parser.esc = line.half)'
    BY <1>5, <1>6, <1>7 DEF CdcTyped
  <2>. QED
    BY <1>5, <1>6, <1>8, <1>9, <2>1, <2>2 DEF Follows
<1>11. FramesWhole'
  BY <1>6, <1>8 DEF CdcInv, FramesWhole
<1>. QED
  BY <1>7, <1>10, <1>11 DEF CdcInv

\* Any other byte of the frame: itself, or the second of an escape.
LEMMA CdcFeedsData ==
  ASSUME CdcInv, Feed, Inside, ~(Escapes /\ ~line.half)
  PROVE  CdcInv'
<1> DEFINE f == line.frame
           b == f[line.k]
<1>1. /\ Len(f) \in Nat /\ f \in Seq(STRING) /\ f \in Frames
      /\ line.k \in Nat /\ line.k \in 1..Len(f) /\ line.k > 0 /\ Left
      /\ BufLen \in Nat
  BY FrameIs, CdcAssumption DEF CdcInv, CdcTyped, Feed, Inside
<1>2. /\ src.frame = f /\ src.n = line.k - 1
      /\ parser.inFrame => parser.esc = line.half
      /\ src.n <= BufLen => parser.inFrame
      /\ line.half => Escapes
      /\ parser.inFrame => parser.buf = Prefix(f, line.k - 1)
  BY <1>1 DEF CdcInv, Follows
<1>3. Byte \notin Reserved /\ (parser.inFrame => Unescaped(Byte) = b)
  <2>1. CASE Escapes
    <3>1. line.half /\ b \in Reserved /\ line.half = TRUE
      BY <2>1 DEF Escapes, CdcInv, CdcTyped
    <3>2. Byte = IF b = "END" THEN "ESC_END" ELSE "ESC_ESC"
      BY <2>1, <3>1 DEF Byte
    <3>3. ASSUME parser.inFrame PROVE Unescaped(Byte) = b
      <4>1. parser.esc
        BY <1>2, <3>1, <3>3
      <4>2. b = "END" \/ b = "ESC"
        BY <3>1 DEF Reserved
      <4>. QED
        BY <3>2, <4>1, <4>2 DEF Unescaped
    <3>. QED
      BY <3>2, <3>3 DEF Reserved
  <2>2. CASE ~Escapes
    <3>1. Byte = b /\ b \notin Reserved
      BY <2>2 DEF Byte, Escapes
    <3>2. ~line.half
      BY <1>2, <2>2
    <3>. QED
      BY <1>2, <3>1, <3>2 DEF Unescaped
  <2>. QED
    BY <2>1, <2>2
<1>4. FeedData
  BY <1>3 DEF Feed, FeedEnd, FeedEsc, Reserved
<1>5. /\ line' \in [frame: Frames, k: Nat, half: BOOLEAN, torn: BOOLEAN]
      /\ line'.frame = f /\ line'.torn = line.torn /\ line'.k = line.k + 1 /\ ~line'.half
  BY Advances DEF CdcInv, Feed
<1>6. src' \in [frame: Frames, n: Nat] /\ src'.frame = f /\ src'.n = line.k /\ heard' = heard
  <2>1. src \in [frame: Frames, n: Nat] /\ src' = [src EXCEPT !.n = src.n + 1] /\ heard' = heard
    BY <1>4 DEF FeedData, CdcInv, CdcTyped
  <2>. QED
    BY <1>1, <1>2, <2>1
<1>7. parser \in [inFrame: BOOLEAN, esc: BOOLEAN, buf: Seq(STRING)] /\ Len(parser.buf) <= BufLen
      /\ (~parser.inFrame => parser.buf = << >>)
  BY DEF CdcInv, CdcTyped
<1>8. b \in STRING
  BY <1>1, ElementOfSeq
<1> HIDE DEF b
<1>9. /\ parser' \in [inFrame: BOOLEAN, esc: BOOLEAN, buf: Seq(STRING)]
      /\ Len(parser'.buf) <= BufLen
      /\ ~parser'.inFrame => parser'.buf = << >>
      /\ parser'.inFrame => parser'.buf = Prefix(f, line.k) /\ ~parser'.esc
      /\ line.k <= BufLen => parser'.inFrame
  <2>1. CASE ~parser.inFrame
    <3>1. parser' = parser
      BY <1>4, <2>1 DEF FeedData
    <3>. QED
      BY <1>1, <1>2, <1>7, <2>1, <3>1
  <2>2. CASE parser.inFrame /\ Len(parser.buf) < BufLen
    <3> DEFINE a == Append(parser.buf, b)
    <3>1. parser' = [parser EXCEPT !.esc = FALSE, !.buf = a]
      BY <1>3, <1>4, <2>2 DEF FeedData
    <3>2. a \in Seq(STRING) /\ Len(a) = Len(parser.buf) + 1 /\ Len(parser.buf) \in Nat
      BY <1>7, <1>8
    <3>3. a = Prefix(f, line.k)
      <4>1. line.k - 1 \in 0..(Len(f) - 1) /\ (line.k - 1) + 1 = line.k
        BY <1>1
      <4>2. Append(Prefix(f, line.k - 1), f[(line.k - 1) + 1]) = Prefix(f, (line.k - 1) + 1)
        BY <1>1, <4>1, PrefixGrows
      <4>. QED
        BY <1>2, <2>2, <4>1, <4>2 DEF b
    <3> HIDE DEF a
    <3>4. Len(a) <= BufLen
      BY <1>1, <2>2, <3>2
    <3>. QED
      BY <1>7, <2>2, <3>1, <3>2, <3>3, <3>4
  <2>3. CASE parser.inFrame /\ ~(Len(parser.buf) < BufLen)
    <3>1. parser' = Overflow
      BY <1>4, <2>3 DEF FeedData
    <3>2. Len(parser.buf) = line.k - 1
      <4>1. line.k - 1 \in 0..Len(f)
        BY <1>1
      <4>. QED
        BY <1>1, <1>2, <2>3, <4>1, PrefixIs
    <3>3. ~(line.k <= BufLen)
      BY <1>1, <1>7, <2>3, <3>2
    <3>4. << >> \in Seq(STRING) /\ Len(<< >>) = 0
      BY EmptySeq
    <3>. QED
      BY <1>1, <3>1, <3>3, <3>4 DEF Overflow
  <2>. QED
    BY <1>7, <2>1, <2>2, <2>3
<1>10. CdcTyped'
  BY <1>1, <1>5, <1>6, <1>9 DEF CdcTyped
<1>11. Left'
  BY <1>1, <1>5 DEF Left
<1>12. (parser.inFrame => parser.buf = Prefix(src.frame, src.n))'
  BY <1>6, <1>9 DEF Prefix
<1>13. src'.frame = line'.frame /\ src'.n = line'.k - 1
  BY <1>1, <1>5, <1>6
<1>14. (parser.inFrame => parser.esc = line.half)' /\ (src.n <= BufLen => parser.inFrame)'
  BY <1>5, <1>6, <1>9, <1>10 DEF CdcTyped
<1>15. Follows'
  BY <1>5, <1>12, <1>13, <1>14 DEF Follows
<1>16. FramesWhole'
  BY <1>6, <1>11 DEF CdcInv, FramesWhole
<1>. QED
  BY <1>10, <1>15, <1>16 DEF CdcInv

LEMMA CdcFeeds ==
  ASSUME CdcInv, Feed
  PROVE  CdcInv'
<1>1. Escapes => Inside
  BY DEF Escapes
<1>. QED
  BY <1>1, CdcFeedsEnd, CdcFeedsEsc, CdcFeedsData

LEMMA CdcSame ==
  ASSUME CdcInv, UNCHANGED cdcVars
  PROVE  CdcInv'
BY DEF CdcInv, CdcTyped, Follows, FramesWhole, Prefix, Left, Escapes, Inside, cdcVars

\* What a step of the front ends does to the CDC part.
LEMMA CdcAside ==
  ASSUME [FrontNext]_frontVars
  PROVE  \/ \E f \in HostFrames : CdcHostWrites(f)
         \/ CdcHostStops \/ CdcReads \/ Restart \/ UNCHANGED cdcVars
<1>1. CASE WsOnly(WsNext)
  BY <1>1 DEF WsOnly
<1>2. CASE \/ \E c \in Command \cup {ResetCmd}, fd \in Fd : WsMessage(fd, c)
           \/ \E c \in Command : HidReport(c) \/ ConsoleCommand(c)
           \/ HidRpmReport \/ HidSecond \/ HidReset \/ BootButton \/ ConsoleEnds \/ Serve
  BY <1>2 DEF WsMessage, HidReport, ConsoleCommand, HidRpmReport, HidSecond, HidReset,
     BootButton, ConsoleEnds, Serve
<1>3. CASE UNCHANGED frontVars
  BY <1>3 DEF frontVars
<1>. QED
  BY <1>1, <1>2, <1>3 DEF FrontNext

LEMMA CdcStep ==
  ASSUME CdcInv, [FrontNext]_frontVars
  PROVE  CdcInv'
<1>1. ASSUME NEW f \in HostFrames, CdcHostWrites(f) PROVE CdcInv'
  BY <1>1, CdcWrites DEF CdcHostWrites
<1>2. CASE CdcHostStops
  BY <1>2, CdcStops DEF CdcHostStops
<1>3. CASE CdcReads
  BY <1>3, CdcFeeds DEF CdcReads
<1>4. CASE Restart
  BY <1>4, CdcRestarts DEF Restart
<1>. QED
  BY <1>1, <1>2, <1>3, <1>4, CdcAside, CdcSame

(* usb_cdc_task.c:274-304, slip_feed: whatever the frames are, wherever    *)
(* their hosts stop, and whatever was on the line before, a frame handled  *)
(* is one a host wrote or the beginning of one it stopped in, and one that  *)
(* fits the buffer is handled when its last byte has come.                 *)
THEOREM FramesAlwaysWhole == FrontSpec => []FramesWhole
<1>1. FrontInit => CdcInv
  BY CdcFirst DEF FrontInit
<1>2. CdcInv => FramesWhole
  BY DEF CdcInv
<1>. QED
  BY <1>1, <1>2, CdcStep, PTL DEF FrontSpec

-----------------------------------------------------------------------------
(* What a frame orders.  The beginning of a frame orders nothing, unless   *)
(* it is an OTA frame.                                                     *)

LEMMA LeastNatural ==
  ASSUME NEW T, T \subseteq Nat, T # {}
  PROVE  \E m \in T : \A y \in T : m <= y
<1> DEFINE R == OpToRel(<, Nat)
<1>1. IsWellFoundedOn(R, Nat)
  BY NatLessThanWellFounded
<1>2. \A x, y \in Nat : y < x => <<y, x>> \in R
  BY DEF OpToRel
<1> HIDE DEF R
<1>3. \E m \in T : \A y \in T : ~(<<y, m>> \in R)
  BY <1>1, WFMin
<1>4. \A m, y \in Nat : ~(y < m) => m <= y
  OBVIOUS
<1>. QED
  BY <1>2, <1>3, <1>4

\* strnlen: up to the first zero, or the whole if there is none.
LEMMA StrnLenIs ==
  ASSUME NEW s \in Seq(STRING)
  PROVE  /\ StrnLen(s) \in 0..Len(s)
         /\ StrnLen(s) < Len(s) => s[StrnLen(s) + 1] = "NUL"
         /\ (\A i \in 1..Len(s) : s[i] # "NUL") => StrnLen(s) = Len(s)
<1> DEFINE Z == {i \in 1..Len(s) : s[i] = "NUL"}
           z == IF Z # {} THEN Min(Z) ELSE 0
<1>1. StrnLen(s) = IF z = 0 THEN Len(s) ELSE z - 1
  BY DEF StrnLen, SelectInSeq
<1>2. Len(s) \in Nat
  BY LenProperties
<1>3. CASE Z = {}
  BY <1>1, <1>2, <1>3
<1>4. CASE Z # {}
  <2>1. Z \subseteq Nat
    BY <1>2
  <2>2. \E m \in Z : \A y \in Z : m <= y
    BY <1>4, <2>1, LeastNatural
  <2>3. Min(Z) \in Z
    BY <2>2 DEF Min
  <2>4. z \in Z
    BY <1>4, <2>3
  <2> HIDE DEF z
  <2>5. z \in 1..Len(s) /\ s[z] = "NUL"
    BY <2>4
  <2>. QED
    BY <1>1, <1>2, <2>5
<1>. QED
  BY <1>3, <1>4

LEMMA NeedIs ==
  /\ \A op \in DOMAIN Need : Need[op] \in Nat
  /\ Need["ANNOUNCER_SET"] = 4 /\ "ANNOUNCER_SET" \in DOMAIN Need
BY DEF Need

LEMMA TailIs ==
  ASSUME NEW f \in Seq(STRING), f # << >>
  PROVE  /\ Tail(f) \in Seq(STRING) /\ Len(Tail(f)) = Len(f) - 1 /\ Len(f) \in Nat \ {0}
         /\ \A i \in 1..(Len(f) - 1) : Tail(f)[i] = f[i + 1]
BY HeadTailProperties, EmptySeq

\* A topic and a server without their last zero.
LEMMA TornTexts ==
  ASSUME NEW q \in Seq(STRING), TwoTexts(q), NEW p \in Seq(STRING), Len(p) < Len(q),
         \A i \in 1..Len(p) : p[i] = q[i]
  PROVE  Len(p) >= 4 => AnnouncerSet(p) = Nothing
<1> DEFINE topic  == SubSeq(p, 3, Len(p))
           t      == StrnLen(topic)
           server == SubSeq(p, t + 4, Len(p))
<1>0. SUFFICES ASSUME Len(p) >= 4, t + 3 < Len(p)
               PROVE  StrnLen(server) = Len(server)
  <2>1. SUFFICES ASSUME Len(p) >= 4 PROVE AnnouncerSet(p) = Nothing
    OBVIOUS
  <2>2. Len(p) \in Nat /\ \A i \in 1..Len(p) : p[i] \in STRING
    BY LenProperties, ElementOfSeq
  <2>3. topic \in Seq(STRING)
    BY <2>1, <2>2, SubSeqProperties
  <2>4. t \in 0..Len(topic) /\ Len(topic) \in Nat
    BY <2>3, StrnLenIs, LenProperties
  <2>5. t + 3 < Len(p) => StrnLen(server) = Len(server)
    BY <1>0, <2>1
  <2>6. t + 3 >= Len(p) \/ t + 3 < Len(p)
    BY <2>2, <2>4
  <2> HIDE DEF topic, t, server
  <2>7. t + 3 >= Len(p) \/ StrnLen(server) = Len(server)
    BY <2>5, <2>6
  <2>. QED
    BY <2>7 DEF AnnouncerSet, topic, t, server
<1>1. Len(p) \in Nat /\ Len(q) \in Nat /\ \A i \in 1..Len(p) : p[i] \in STRING
  BY LenProperties, ElementOfSeq
<1>2. /\ topic \in Seq(STRING) /\ Len(topic) = Len(p) - 2
      /\ \A i \in 1..(Len(p) - 2) : topic[i] = p[i + 2]
  <2>1. /\ SubSeq(p, 3, Len(p)) \in Seq(STRING)
        /\ Len(SubSeq(p, 3, Len(p))) = IF 3 <= Len(p) THEN Len(p) - 3 + 1 ELSE 0
        /\ \A i \in 1..(Len(p) - 3 + 1) : SubSeq(p, 3, Len(p))[i] = p[3 + i - 1]
    BY <1>1, SubSeqProperties
  <2>. QED
    BY <1>0, <1>1, <2>1
<1> HIDE DEF topic
<1>3. t \in 0..Len(topic) /\ (t < Len(topic) => topic[t + 1] = "NUL")
  BY <1>2, StrnLenIs
<1> HIDE DEF t
<1>4. t \in Nat /\ t + 1 \in 1..(Len(p) - 2) /\ p[t + 3] = "NUL"
  BY <1>0, <1>1, <1>2, <1>3
<1>5. /\ server \in Seq(STRING) /\ Len(server) = Len(p) - t - 3
      /\ \A i \in 1..(Len(p) - t - 3) : server[i] = p[t + 3 + i]
  <2>1. \A i \in (t + 4)..Len(p) : p[i] \in STRING
    BY <1>1, <1>4
  <2>2. /\ SubSeq(p, t + 4, Len(p)) \in Seq(STRING)
        /\ Len(SubSeq(p, t + 4, Len(p))) = IF t + 4 <= Len(p) THEN Len(p) - (t + 4) + 1 ELSE 0
        /\ \A i \in 1..(Len(p) - (t + 4) + 1) : SubSeq(p, t + 4, Len(p))[i] = p[t + 4 + i - 1]
    <3>1. t + 4 \in Int /\ Len(p) \in Int
      BY <1>1, <1>4
    <3>. QED
      BY <2>1, <3>1, SubSeqProperties
  <2>3. \A i \in 1..(Len(p) - t - 3) : t + 4 + i - 1 = t + 3 + i
    BY <1>1, <1>4
  <2>4. Len(p) - (t + 4) + 1 = Len(p) - t - 3 /\ t + 4 <= Len(p)
    BY <1>0, <1>1, <1>4
  <2>. QED
    BY <2>2, <2>3, <2>4
<1> HIDE DEF server
<1>6. PICK z \in 3..(Len(q) - 1) : \A i \in 3..Len(q) : q[i] = "NUL" <=> i \in {z, Len(q)}
  BY DEF TwoTexts
<1>7. t + 3 = z
  <2>1. t + 3 \in 3..Len(q) /\ t + 3 \in 1..Len(p) /\ t + 3 # Len(q)
    BY <1>1, <1>4
  <2>. QED
    BY <1>4, <1>6, <2>1
<1>8. ASSUME NEW i \in 1..Len(server) PROVE server[i] # "NUL"
  <2>1. /\ t + 3 + i \in 3..Len(q) /\ t + 3 + i \in 1..Len(p)
        /\ t + 3 + i # z /\ t + 3 + i # Len(q) /\ server[i] = p[t + 3 + i]
    BY <1>1, <1>4, <1>5, <1>7
  <2>. QED
    BY <1>6, <2>1
<1>. QED
  BY <1>5, <1>8, StrnLenIs

LEMMA PrefixSilent ==
  ASSUME NEW f \in HostFrames, NEW n \in 1..(Len(f) - 1)
  PROVE  OrderOf(Prefix(f, n)) = Nothing \/ OrderOf(Prefix(f, n))[1] \in OtaOps
<1> DEFINE g == Prefix(f, n)
           op == f[1]
           p == Tail(g)
           q == Tail(f)
<1>1. f \in Seq(STRING) /\ f # << >> /\ Len(f) \in Nat \ {0} /\ WellFormed(f)
  BY FrameIs, CdcAssumption DEF Frames
<1>2. n \in 0..Len(f) /\ n \in Nat \ {0}
  BY <1>1
<1>3. g \in Seq(STRING) /\ Len(g) = n /\ (\A i \in 1..n : g[i] = f[i]) /\ g # << >> /\ g[1] = op
  <2>1. g \in Seq(STRING) /\ Len(g) = n /\ (\A i \in 1..n : g[i] = f[i])
    BY <1>1, <1>2, PrefixIs
  <2>2. g # << >>
    BY <1>2, <2>1, EmptySeq
  <2>. QED
    BY <1>2, <2>1, <2>2
<1> HIDE DEF g
<1>4. /\ p \in Seq(STRING) /\ Len(p) = n - 1 /\ \A i \in 1..(n - 1) : p[i] = g[i + 1]
      /\ q \in Seq(STRING) /\ Len(q) = Len(f) - 1 /\ \A i \in 1..(Len(f) - 1) : q[i] = f[i + 1]
  BY <1>1, <1>3, TailIs
<1>5. Len(p) < Len(q) /\ \A i \in 1..Len(p) : p[i] = q[i]
  BY <1>1, <1>2, <1>3, <1>4
<1> HIDE DEF p, q
<1>6. OrderOf(g) = IF op \notin DOMAIN Need \/ Len(p) < Need[op] THEN Nothing ELSE
       CASE op = "FACTORY_RESET" -> IF p[1] = "MAGIC" THEN <<op>> ELSE Nothing
         [] op = "PSU_SET_SLAVE" -> IF p[2] = "MAGIC" /\ p[1] \notin {"NUL", "BIG"}
                                      THEN <<op, p[1]>> ELSE Nothing
         [] op = "ANNOUNCER_SET" -> AnnouncerSet(p)
         [] op = "OTA_CHUNK"     -> g
         [] OTHER                -> SubSeq(g, 1, Need[op] + 1)
  BY <1>3 DEF OrderOf, p
<1> HIDE DEF op
<1>7. CASE op \notin DOMAIN Need
  BY <1>6, <1>7 DEF g
<1>8. SUFFICES ASSUME op \in DOMAIN Need, ~(Len(p) < Need[op])
               PROVE  OrderOf(g) = Nothing \/ OrderOf(g)[1] \in OtaOps
  BY <1>6, <1>7 DEF g
<1>9. CASE op = "OTA_CHUNK"
  <2>1. OrderOf(g) = g
    BY <1>6, <1>8, <1>9
  <2>. QED
    BY <1>3, <1>9, <2>1 DEF OtaOps
<1>10. CASE op = "ANNOUNCER_SET"
  <2>1. Len(p) >= 4 /\ TwoTexts(q)
    <3>1. Need[op] = 4 /\ Len(p) \in Nat
      BY <1>2, <1>4, <1>10, NeedIs
    <3>2. TwoTexts(q)
      BY <1>1, <1>10, NeedIs DEF WellFormed, op, q
    <3>. QED
      BY <1>8, <3>1, <3>2
  <2>2. AnnouncerSet(p) = Nothing
    BY <1>4, <1>5, <2>1, TornTexts
  <2>3. OrderOf(g) = AnnouncerSet(p)
    BY <1>6, <1>8, <1>10
  <2>. QED
    BY <2>2, <2>3
<1>11. CASE op \notin {"OTA_CHUNK", "ANNOUNCER_SET"}
  <2>1. Len(f) = Need[op] + 1
    BY <1>1, <1>8, <1>11 DEF WellFormed, op
  <2>2. Need[op] \in Nat
    BY <1>8, NeedIs
  <2>. QED
    BY <1>1, <1>2, <1>4, <1>8, <2>1, <2>2
<1>. QED
  BY <1>9, <1>10, <1>11

-----------------------------------------------------------------------------
(* The queue.  Whoever posts has been asked in full, and the frames whose  *)
(* last byte has come count as asked for before they are handled.          *)

Entry(A) == [from: FrontEnd, order: A]

AskInv ==
  /\ queue \in Seq(Entry(asked)) /\ Len(queue) <= QueueLen
  /\ hid \in asked \cup {Nothing} /\ console \in asked \cup {Nothing}
  /\ triggered \in BOOLEAN /\ (triggered => ResetCmd \in asked)
  /\ src.frame # << >> /\ src.n = Len(src.frame) => OrderOf(src.frame) \in asked

LEMMA EntriesStay ==
  ASSUME NEW A, NEW B, A \subseteq B, NEW q \in Seq(Entry(A))
  PROVE  q \in Seq(Entry(B))
<1>1. Entry(A) \subseteq Entry(B)
  BY DEF Entry
<1> DEFINE S == Entry(A)
           T == Entry(B)
<1>2. S \subseteq T /\ q \in Seq(S)
  BY <1>1
<1> HIDE DEF S, T
<1>3. q \in Seq(T)
  BY <1>2, SeqMonotonic
<1>. QED
  BY <1>3 DEF T

LEMMA PostKeeps ==
  ASSUME NEW A, NEW B, A \subseteq B, queue \in Seq(Entry(A)), Len(queue) <= QueueLen,
         NEW who \in FrontEnd, NEW c \in B, Post(who, c)
  PROVE  queue' \in Seq(Entry(B)) /\ Len(queue') <= QueueLen
<1> DEFINE S == Entry(B)
           e == [from |-> who, order |-> c]
<1>1. queue \in Seq(S) /\ e \in S /\ Len(queue) \in Nat /\ QueueLen \in Nat
  BY EntriesStay, FrontAssumption, LenProperties DEF Entry
<1>2. queue' = IF Len(queue) < QueueLen THEN Append(queue, e) ELSE queue
  BY DEF Post, Room
<1> HIDE DEF S, e
<1>3. queue' \in Seq(S) /\ Len(queue') <= QueueLen
  BY <1>1, <1>2, FrontAssumption
<1>. QED
  BY <1>3 DEF S

\* A frame that is handled orders nothing, something for ota_core, or what
\* its host has asked for.
LEMMA HeardIsAsked ==
  ASSUME CdcInv, AskInv, Handles
  PROVE  \/ OrderOf(parser.buf) = Nothing \/ OrderOf(parser.buf)[1] \in OtaOps
         \/ OrderOf(parser.buf) \in asked
<1> DEFINE f == src.frame
           n == src.n
<1>1. /\ f \in Frames /\ f \in Seq(STRING) /\ n \in Nat /\ Len(f) \in Nat /\ n <= Len(f)
      /\ parser.buf = Prefix(f, n) /\ parser.buf # << >>
  BY FrameIs DEF CdcInv, CdcTyped, Follows, Handles
<1>2. n # 0
  BY <1>1, NoPrefix
<1>3. f # << >> /\ f \in HostFrames
  <2>1. f = << >> => Len(f) = 0
    BY EmptySeq
  <2>. QED
    BY <1>1, <1>2, <2>1 DEF Frames
<1>4. CASE n = Len(f)
  <2>1. parser.buf = f
    BY <1>1, <1>4, SubSeqFull DEF Prefix
  <2>2. OrderOf(f) \in asked
    BY <1>3, <1>4 DEF AskInv
  <2>. QED
    BY <2>1, <2>2
<1>5. CASE n # Len(f)
  <2>1. n \in 1..(Len(f) - 1)
    BY <1>1, <1>2, <1>5
  <2>. QED
    BY <1>1, <1>3, <2>1, PrefixSilent
<1>. QED
  BY <1>4, <1>5

LEMMA ResetIs == ResetCmd # Nothing /\ ResetCmd[1] \notin OtaOps
BY DEF ResetCmd, Nothing, OtaOps

LEMMA AskReads ==
  ASSUME CdcInv, AskInv, CdcReads
  PROVE  AskInv'
<1> DEFINE order == IF Handles THEN OrderOf(parser.buf) ELSE Nothing
<1>1. asked \subseteq asked' /\ UNCHANGED <<hid, console>>
  BY DEF CdcReads
<1>2. order = Nothing \/ order[1] \in OtaOps \/ order \in asked
  BY HeardIsAsked
<1>3. \/ UNCHANGED <<queue, triggered>>
      \/ order = ResetCmd /\ triggered' = TRUE /\ UNCHANGED queue
      \/ /\ order # Nothing /\ order[1] \notin OtaOps
         /\ Post("cdc", order) /\ UNCHANGED triggered
  BY DEF CdcReads
<1> HIDE DEF order
<1>4. src'.frame # << >> /\ src'.n = Len(src'.frame) => OrderOf(src'.frame) \in asked'
  BY DEF CdcReads
<1>5. queue' \in Seq(Entry(asked')) /\ Len(queue') <= QueueLen
  <2>1. queue \in Seq(Entry(asked)) /\ Len(queue) <= QueueLen
    BY DEF AskInv
  <2>2. CASE UNCHANGED queue
    BY <1>1, <2>1, <2>2, EntriesStay
  <2>3. CASE order \in asked /\ Post("cdc", order)
    BY <1>1, <2>1, <2>3, PostKeeps DEF FrontEnd
  <2>. QED
    BY <1>2, <1>3, <2>2, <2>3
<1>6. triggered' \in BOOLEAN /\ (triggered' => ResetCmd \in asked')
  <2>1. CASE UNCHANGED triggered
    BY <1>1, <2>1 DEF AskInv
  <2>2. CASE order = ResetCmd /\ triggered' = TRUE
    <3>1. ResetCmd \in asked
      BY <1>2, <2>2, ResetIs
    <3>. QED
      BY <1>1, <2>2, <3>1
  <2>. QED
    BY <1>3, <2>1, <2>2
<1>7. hid' \in asked' \cup {Nothing} /\ console' \in asked' \cup {Nothing}
  BY <1>1 DEF AskInv
<1>. QED
  BY <1>4, <1>5, <1>6, <1>7 DEF AskInv, Entry

\* Every other step that does not restart leaves the parser's source alone,
\* and posts what it asks for or what waited.
LEMMA AskPosts ==
  ASSUME AskInv, asked \subseteq asked', NEW who \in FrontEnd, NEW c \in asked',
         Post(who, c) \/ UNCHANGED queue, UNCHANGED src,
         hid' \in asked' \cup {Nothing}, console' \in asked' \cup {Nothing},
         triggered' \in BOOLEAN, triggered' => ResetCmd \in asked'
  PROVE  AskInv'
<1>1. queue \in Seq(Entry(asked)) /\ Len(queue) <= QueueLen
  BY DEF AskInv
<1>2. queue' \in Seq(Entry(asked')) /\ Len(queue') <= QueueLen
  <2>1. CASE Post(who, c)
    BY <1>1, <2>1, PostKeeps
  <2>2. CASE UNCHANGED queue
    BY <1>1, <2>2, EntriesStay
  <2>. QED
    BY <2>1, <2>2
<1>3. src'.frame # << >> /\ src'.n = Len(src'.frame) => OrderOf(src'.frame) \in asked'
  BY DEF AskInv
<1>. QED
  BY <1>2, <1>3 DEF AskInv, Entry

LEMMA AskStep ==
  ASSUME CdcInv, AskInv, [FrontNext]_frontVars
  PROVE  AskInv'
<1>0. /\ hid \in asked \cup {Nothing} /\ console \in asked \cup {Nothing}
      /\ triggered \in BOOLEAN /\ (triggered => ResetCmd \in asked)
      /\ "ws" \in FrontEnd /\ "hid" \in FrontEnd /\ "console" \in FrontEnd
  BY DEF AskInv, FrontEnd
<1>1. CASE UNCHANGED <<queue, hid, console, triggered, asked, src>>
  BY <1>1 DEF AskInv, Entry
<1>2. CASE WsOnly(WsNext) \/ UNCHANGED frontVars
  BY <1>1, <1>2 DEF WsOnly, cdcVars, ctlVars, frontVars
<1>3. CASE CdcHostStops \/ \E f \in HostFrames : CdcHostWrites(f)
  BY <1>1, <1>3 DEF CdcHostStops, HostStops, CdcHostWrites, HostWrites, ctlVars
<1>4. CASE CdcReads
  BY <1>4, AskReads
<1>5. CASE Serve
  <2>1. queue \in Seq(Entry(asked)) /\ queue # << >> /\ Len(queue) <= QueueLen
        /\ QueueLen \in Nat
    BY <1>5, FrontAssumption DEF Serve, AskInv
  <2> DEFINE S == Entry(asked)
  <2>2. queue' = Tail(queue) /\ UNCHANGED <<hid, console, triggered, asked, src>>
    BY <1>5 DEF Serve, cdcVars
  <2>3. queue \in Seq(S)
    BY <2>1
  <2> HIDE DEF S
  <2>4. queue' \in Seq(S) /\ Len(queue') <= QueueLen
    BY <2>1, <2>2, <2>3, HeadTailProperties, LenProperties
  <2>. QED
    BY <1>0, <2>2, <2>4 DEF AskInv, Entry, S
<1>6. CASE Restart
  <2>1. /\ queue' = << >> /\ hid' = Nothing /\ console' = Nothing /\ triggered' = FALSE
        /\ src' = NoSrc
    BY <1>6 DEF Restart
  <2> DEFINE S == Entry(asked')
  <2>2. << >> \in Seq(S) /\ Len(<< >>) = 0 /\ QueueLen \in Nat
    BY EmptySeq, FrontAssumption
  <2> HIDE DEF S
  <2>3. queue' \in Seq(S) /\ Len(queue') <= QueueLen
    BY <2>1, <2>2
  <2>. QED
    BY <2>1, <2>3 DEF AskInv, Entry, S, NoSrc
<1>7. ASSUME NEW c \in Command \cup {ResetCmd}, NEW fd \in Fd, WsMessage(fd, c) PROVE AskInv'
  <2>1. c \in asked' /\ asked \subseteq asked' /\ UNCHANGED <<src, hid, console>>
    BY <1>7 DEF WsMessage, Ask, cdcVars
  <2>2. CASE c # ResetCmd /\ Post("ws", c) /\ UNCHANGED triggered
    BY <1>0, <2>1, <2>2, AskPosts
  <2>3. CASE c = ResetCmd /\ triggered' = TRUE /\ UNCHANGED queue
    BY <1>0, <2>1, <2>3, AskPosts
  <2>. QED
    BY <1>7, <2>2, <2>3 DEF WsMessage
<1>8. ASSUME NEW c \in Command, HidReport(c) PROVE AskInv'
  <2>1. /\ c \in asked' /\ asked \subseteq asked' /\ UNCHANGED <<src, hid, console, triggered>>
        /\ Post("hid", c)
    BY <1>8 DEF HidReport, Ask, cdcVars
  <2>. QED
    BY <1>0, <2>1, AskPosts
<1>9. ASSUME NEW c \in Command, ConsoleCommand(c) PROVE AskInv'
  <2>1. /\ c \in asked' /\ asked \subseteq asked' /\ UNCHANGED <<src, hid, queue, triggered>>
        /\ console' = c
    BY <1>9 DEF ConsoleCommand, Ask, cdcVars
  <2>. QED
    BY <1>0, <2>1, AskPosts
<1>10. CASE HidRpmReport
  <2>1. /\ RpmParams \in asked' /\ RpmTimeout \in asked' /\ asked \subseteq asked'
        /\ UNCHANGED <<src, console, triggered>>
        /\ Post("hid", RpmParams) /\ hid' = RpmTimeout
    BY <1>10 DEF HidRpmReport, cdcVars
  <2>. QED
    BY <1>0, <2>1, AskPosts
<1>11. CASE HidSecond
  <2>1. /\ hid \in asked' /\ asked \subseteq asked' /\ UNCHANGED <<src, console, triggered>>
        /\ Post("hid", hid) /\ hid' = Nothing
    BY <1>0, <1>11 DEF HidSecond, cdcVars
  <2>2. PICK c : c = hid
    OBVIOUS
  <2>3. c \in asked' /\ Post("hid", c)
    BY <2>1, <2>2 DEF Post, Room
  <2>. QED
    BY <1>0, <2>1, <2>3, AskPosts
<1>12. CASE HidReset \/ BootButton
  <2>1. /\ ResetCmd \in asked' /\ asked \subseteq asked' /\ UNCHANGED <<src, hid, console, queue>>
        /\ triggered' = TRUE
    BY <1>12 DEF HidReset, BootButton, Ask, cdcVars
  <2>. QED
    BY <1>0, <2>1, AskPosts
<1>13. CASE ConsoleEnds
  <2>1. /\ console \in asked' /\ asked \subseteq asked' /\ UNCHANGED <<src, hid, triggered>>
        /\ Post("console", console) \/ UNCHANGED queue
        /\ console' = Nothing
    BY <1>0, <1>13 DEF ConsoleEnds, cdcVars
  <2>2. PICK c : c = console
    OBVIOUS
  <2>3. c \in asked' /\ (Post("console", c) \/ UNCHANGED queue)
    BY <2>1, <2>2 DEF Post, Room
  <2>. QED
    BY <1>0, <2>1, <2>3, AskPosts
<1>. QED
  BY <1>2, <1>3, <1>4, <1>5, <1>6, <1>7, <1>8, <1>9, <1>10, <1>11, <1>12, <1>13 DEF FrontNext

LEMMA AskInit ==
  ASSUME FrontInit
  PROVE  AskInv
<1> DEFINE S == Entry(asked)
<1>1. << >> \in Seq(S) /\ Len(<< >>) = 0 /\ QueueLen \in Nat
  BY EmptySeq, FrontAssumption
<1> HIDE DEF S
<1>2. queue \in Seq(S) /\ Len(queue) <= QueueLen
  BY <1>1 DEF FrontInit, FromReset
<1>. QED
  BY <1>2 DEF FrontInit, FromReset, CdcInit, NoSrc, AskInv, S

LEMMA AskTells ==
  ASSUME AskInv
  PROVE  /\ \A i \in 1..Len(queue) : queue[i].order \in asked /\ queue[i].from \in FrontEnd
         /\ triggered => ResetCmd \in asked
<1> DEFINE S == Entry(asked)
<1>1. queue \in Seq(S)
  BY DEF AskInv
<1> HIDE DEF S
<1>2. \A i \in 1..Len(queue) : queue[i] \in S
  BY <1>1, ElementOfSeq
<1>3. \A i \in 1..Len(queue) : queue[i].order \in asked /\ queue[i].from \in FrontEnd
  BY <1>2 DEF S, Entry
<1>. QED
  BY <1>3 DEF AskInv

(* The front ends' types: the queue and the parser's buffer never exceed   *)
(* their size, no counter its width, and no status frame its buffer.       *)
THEOREM FrontTypes == FrontSpec => []FrontTypeOK
<1> DEFINE Inv == TableInv /\ WsTyped /\ CdcInv /\ AskInv
<1>1. FrontInit => Inv
  BY TableInit, WsTypedInit, CdcFirst, AskInit DEF FrontInit
<1>2. Inv /\ [FrontNext]_frontVars => Inv'
  BY FrontStep, WsTypedStep, CdcStep, AskStep
<1>3. Inv => FrontTypeOK
  BY WsTypes, CdcTypes, AskTells DEF AskInv, FrontTypeOK
<1>. QED
  BY <1>1, <1>2, <1>3, PTL DEF FrontSpec

(* control_task_post and net_dashboard_factory_reset as the front ends     *)
(* call them: what is posted, and what resets the board, was asked for in  *)
(* full, also when the CDC host is stopped in the middle of a frame.        *)
THEOREM CommandsAlwaysWhole == FrontSpec => []CommandsWhole
<1> DEFINE Inv == CdcInv /\ AskInv
<1>1. FrontInit => Inv
  BY CdcFirst, AskInit DEF FrontInit
<1>2. Inv /\ [FrontNext]_frontVars => Inv'
  BY CdcStep, AskStep
<1>3. FrontTypeOK /\ Inv => CommandsWhole
  BY AskTells DEF CommandsWhole
<1>. QED
  BY FrontTypes, <1>1, <1>2, <1>3, PTL DEF FrontSpec
===============================================================================
