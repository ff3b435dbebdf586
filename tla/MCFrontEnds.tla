----------------------------- MODULE MCFrontEnds -----------------------------
(* Six plans: two clients of which one vanishes, and one client that comes  *)
(* three times on the same socket, while a close may be refused; three      *)
(* clients for two slots; a CDC host that writes two frames and one command *)
(* from the HID host or the console, and one frame and two commands, over a *)
(* queue of two; and one client beside two commands.                        *)
EXTENDS FrontEnds

Ws(fds, open, vanish, refuse) == [fds |-> fds, open |-> open, vanish |-> vanish, refuse |-> refuse]
Plan(ws, frames, posts)       == [ws |-> ws, usb |-> [frames |-> frames, posts |-> posts]]

AllPlans  == {Plan(Ws({1, 2}, 2, 1, 1), 0, 0), Plan(Ws({1}, 3, 1, 1), 0, 0),
              Plan(Ws({1, 2, 3}, 3, 0, 0), 0, 0),
              Plan(Ws({}, 0, 0, 0), 2, 1), Plan(Ws({}, 0, 0, 0), 1, 2),
              Plan(Ws({1}, 1, 0, 0), 0, 2)}
Commands  == {<<"SET_PWM">>}
WsParts   == {p.ws : p \in AllPlans}

\* A payload with each reserved byte, the ops that check more than a length,
\* a frame as long as the buffer and one that is too long by two.
Frames == {<<"SAVE_PWM_FREQ">>, <<"POWER", "END">>, <<"GPIO_PULSE", "ESC", "x", "ESC_END">>,
           <<"PSU_SET_SLAVE", "ESC", "MAGIC">>, <<"PSU_SET_SLAVE", "BIG", "MAGIC">>,
           <<"FACTORY_RESET", "MAGIC">>, <<"OTA_CHUNK", "x", "x", "x", "x", "END">>,
           <<"ANNOUNCER_SET", "x", "x", "x", "NUL", "x", "NUL">>,
           <<"ANNOUNCER_SET", "x", "x", "x", "x", "x", "NUL", "x", "NUL">>}

\* As the board boots: eight inputs and eight outputs, 10000 Hz, the supply
\* not found yet, the topic and server of the default configuration.
BootTexts == {[out |-> 8, head |-> 21, psu |-> 41, ui |-> 7, ann |-> 40]}
=============================================================================
