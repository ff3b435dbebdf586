------------------------------- MODULE UsbCdc -------------------------------
(***************************************************************************)
(* components/usb_composite/usb_cdc_task.c, host to device: the SLIP       *)
(* parser of cdc_rx_task and what handle_frame makes of a frame.           *)
(*                                                                         *)
(* The host writes whole frames, and its program may be stopped in the     *)
(* middle of one: the bytes written so far arrive, and the next program    *)
(* begins with a new frame.  A byte is a name: what matters of it is       *)
(* whether it is reserved, an op, the magic, a zero, more than 247 ("BIG") *)
(* or anything else.                                                       *)
(***************************************************************************)
EXTENDS Naturals, SequencesExt

CONSTANTS
  HostFrames,  (* the frames a host sends; each begins with its op         *)
  BufLen       (* the size of the parser's buffer: 1100                    *)

VARIABLES
  parser,  (* slip_parser_t: in_frame, state = PARSE_ESC, and buf          *)
  line,    (* the host: the frame it writes; k, what it writes next: byte  *)
           (* k of the frame, or the END before (0) or after it; half: the *)
           (* second byte of that byte's escape; torn: it was stopped      *)
  src,     (* history: the frame the parser's bytes come from, and how     *)
           (* many of its bytes have been delivered                        *)
  heard    (* history: the frame handled in this step or last, and its src *)

cdcVars == <<parser, line, src, heard>>

NoSrc    == [frame |-> << >>, n |-> 0]
NotHeard == [frame |-> << >>, of |-> NoSrc]
Silent   == [frame |-> << >>, k |-> 2, half |-> FALSE, torn |-> FALSE]
Fresh    == [inFrame |-> FALSE, esc |-> FALSE, buf |-> << >>]

CdcTypeOK ==
  /\ parser.inFrame \in BOOLEAN /\ parser.esc \in BOOLEAN /\ Len(parser.buf) <= BufLen
  /\ ~parser.inFrame => parser.buf = << >>
  /\ line.frame \in HostFrames \cup {<< >>} /\ line.torn \in BOOLEAN
  /\ line.k \in 0..(Len(line.frame) + 2) /\ line.half \in BOOLEAN
  /\ src.n <= Len(src.frame)

CdcInit == parser = Fresh /\ line = Silent /\ src = NoSrc /\ heard = NotHeard

-----------------------------------------------------------------------------
(* handle_frame: the order that a frame gives.                             *)
Nothing == <<"NOTHING">>

\* How many bytes of payload an op of fixed size must have.
Need == [OTA_BEGIN |-> 8, OTA_CHUNK |-> 4, OTA_END |-> 0, GPIO_SET_MODE |-> 2,
         GPIO_SET_LEVEL |-> 2, GPIO_PULSE |-> 3, POWER |-> 1, PULSE_WIDTH_SET |-> 2,
         FACTORY_RESET |-> 1, PSU_SET_VOLTAGE |-> 4, PSU_SET_CURRENT |-> 4,
         PSU_SET_OUTPUT |-> 1, PSU_SET_SLAVE |-> 2, SAVE_RPM_PARAMS |-> 0,
         SAVE_RPM_TIMEOUT |-> 0, SAVE_PWM_FREQ |-> 0, SAVE_UI_STEPS |-> 6,
         ANNOUNCER_SET |-> 4, ANNOUNCER_TEST |-> 0]

\* A topic and a server, each with its closing zero and no other.
TwoTexts(p) ==
  /\ Len(p) >= 4 /\ p[Len(p)] = "NUL"
  /\ \E z \in 3..(Len(p) - 1) : \A i \in 3..Len(p) : p[i] = "NUL" <=> i \in {z, Len(p)}

\* The frames are as long as their op's payload, as the host's tools write
\* them: a text is as long as it needs to be, and so is a chunk.
WellFormed(f) ==
  \/ f[1] \notin DOMAIN Need \/ f[1] = "OTA_CHUNK"
  \/ f[1] # "ANNOUNCER_SET" /\ Len(f) = Need[f[1]] + 1
  \/ f[1] = "ANNOUNCER_SET" /\ TwoTexts(Tail(f))

ASSUME CdcAssumption ==
  /\ BufLen \in Nat /\ HostFrames \subseteq Seq(STRING)
  /\ \A f \in HostFrames : f # << >> /\ WellFormed(f)

\* strnlen of all that is left of a payload.
StrnLen(s) ==
  LET z == SelectInSeq(s, LAMBDA b : b = "NUL") IN IF z = 0 THEN Len(s) ELSE z - 1

\* Mutant: the last zero is not missed.
AnnouncerSetOpenEnded(p) ==
  LET topic  == SubSeq(p, 3, Len(p))
      t      == StrnLen(topic)
      server == SubSeq(p, t + 4, Len(p))
  IN IF t + 3 >= Len(p)
     THEN Nothing
     ELSE <<"ANNOUNCER_SET", p[1], p[2], SubSeq(topic, 1, t), SubSeq(server, 1, StrnLen(server))>>

\* enable, priority, the topic and its zero, the server and its zero.
AnnouncerSet(p) ==
  LET topic  == SubSeq(p, 3, Len(p))
      t      == StrnLen(topic)
      server == SubSeq(p, t + 4, Len(p))
  IN IF t + 3 >= Len(p) \/ StrnLen(server) = Len(server)
     THEN Nothing
     ELSE <<"ANNOUNCER_SET", p[1], p[2], SubSeq(topic, 1, t), SubSeq(server, 1, StrnLen(server))>>

OrderOf(f) ==
  LET op == f[1]
      p  == Tail(f)
  IN IF op \notin DOMAIN Need \/ Len(p) < Need[op] THEN Nothing ELSE
       CASE op = "FACTORY_RESET" -> IF p[1] = "MAGIC" THEN <<op>> ELSE Nothing
       [] op = "PSU_SET_SLAVE" -> IF p[2] = "MAGIC" /\ p[1] \notin {"NUL", "BIG"}
                                    THEN <<op, p[1]>> ELSE Nothing
       [] op = "ANNOUNCER_SET" -> AnnouncerSet(p)
       [] op = "OTA_CHUNK"     -> f
       [] OTHER                -> SubSeq(f, 1, Need[op] + 1)

-----------------------------------------------------------------------------
(* The host.                                                               *)
Reserved == {"END", "ESC"}

Left == line.k < Len(line.frame) + 2

HostWrites(f) ==
  /\ ~Left
  /\ line' = [frame |-> f, k |-> 0, half |-> FALSE, torn |-> FALSE]
  /\ heard' = NotHeard
  /\ UNCHANGED <<parser, src>>

\* No more bytes of the frame come.
Cut == [line EXCEPT !.k = Len(line.frame) + 2, !.half = FALSE, !.torn = TRUE]

HostStops ==
  /\ Left /\ line.k > 0
  /\ line' = Cut
  /\ UNCHANGED <<parser, src, heard>>

\* The byte on the line: an END around the frame, and in it a byte of the
\* frame, or one of the two that stand for a reserved one.
Inside == line.k \in 1..Len(line.frame)
Escapes == Inside /\ line.frame[line.k] \in Reserved

Byte == CASE ~Inside -> "END"
          [] Escapes /\ ~line.half -> "ESC"
          [] Escapes /\ line.half -> IF line.frame[line.k] = "END" THEN "ESC_END" ELSE "ESC_ESC"
          [] OTHER -> line.frame[line.k]

Advance == line' = IF Escapes /\ ~line.half THEN [line EXCEPT !.half = TRUE]
                                            ELSE [line EXCEPT !.k = @ + 1, !.half = FALSE]

-----------------------------------------------------------------------------
(* slip_feed, one byte at a time.                                          *)
Handles == Left /\ Byte = "END" /\ parser.inFrame /\ parser.buf # << >>

FeedEnd ==
  /\ Byte = "END"
  /\ heard' = IF Handles THEN [frame |-> parser.buf, of |-> src] ELSE heard
  /\ parser' = [Fresh EXCEPT !.inFrame = TRUE]
  /\ src' = IF line.k = 0 THEN [frame |-> line.frame, n |-> 0] ELSE NoSrc

FeedEsc ==
  /\ Byte = "ESC" /\ ~(parser.inFrame /\ parser.esc)
  /\ parser' = IF parser.inFrame THEN [parser EXCEPT !.esc = TRUE] ELSE parser
  /\ UNCHANGED <<src, heard>>

Unescaped(b) == CASE parser.esc /\ b = "ESC_END" -> "END"
                  [] parser.esc /\ b = "ESC_ESC" -> "ESC"
                  [] OTHER -> b

\* Mutant: the frame is not given up, and its rest is taken for a frame.
OverflowStarts == [inFrame |-> TRUE, esc |-> FALSE, buf |-> << >>]

\* A frame that does not fit is given up until the next END.
Overflow == [inFrame |-> FALSE, esc |-> FALSE, buf |-> << >>]

FeedData ==
  /\ Byte # "END" /\ (Byte = "ESC" => parser.inFrame /\ parser.esc)
  /\ parser' = CASE ~parser.inFrame -> parser
                 [] parser.inFrame /\ Len(parser.buf) < BufLen ->
                      [parser EXCEPT !.esc = FALSE, !.buf = Append(@, Unescaped(Byte))]
                 [] OTHER -> Overflow
  /\ src' = [src EXCEPT !.n = @ + 1]
  /\ UNCHANGED heard

Feed ==
  /\ Left /\ Advance
  /\ FeedEnd \/ FeedEsc \/ FeedData

-----------------------------------------------------------------------------
(* Properties.                                                             *)

\* A frame that is handled is the frame the host wrote, escaped bytes and all,
\* or the beginning of one it stopped in; a frame that fits is handled when
\* its last byte has come, whatever came before it on the line (a torn frame,
\* one that did not fit, an escape left open); the rest of a frame that did
\* not fit never is.
FramesWhole ==
  /\ heard # NotHeard => heard.frame = SubSeq(heard.of.frame, 1, heard.of.n)
  /\ line.frame # << >> /\ ~Left /\ ~line.torn /\ Len(line.frame) <= BufLen
       => heard = [frame |-> line.frame, of |-> [frame |-> line.frame, n |-> Len(line.frame)]]
=============================================================================
