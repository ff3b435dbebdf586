-------------------------------- MODULE OtaCore --------------------------------
(***************************************************************************)
(* components/ota_core/ota_core.c, called by two tasks: the HTTP server's  *)
(* ota_post, which uploads a whole image in one call, and the USB CDC      *)
(* receiver, which serves one frame of its host at a time.  A step is one  *)
(* access to the shared state or one call of the ESP-IDF OTA functions,    *)
(* which are external: a write appends to the target partition, an end     *)
(* verifies it, a mutex given by a task that does not hold it asserts.     *)
(***************************************************************************)
EXTENDS Integers, Sequences

CONSTANTS
  Http, Cdc,  (* the two front ends                                       *)
  Task,       (* those of them that are used                              *)
  Chunks,     (* the chunks of an image                                   *)
  Environment (* polite: the CDC host sends a whole image after its BEGIN *)
              (* was accepted, and nothing else; fails: the OTA functions *)
              (* that may fail                                            *)

ASSUME OtaAssumption ==
  /\ Http # Cdc /\ Task \subseteq {Http, Cdc}
  /\ "free" \notin Task
  /\ Chunks \in Nat \ {0}
  /\ Environment \subseteq [polite: BOOLEAN, fails: SUBSET {"begin", "write", "end", "boot"}]

VARIABLES
  core,       (* s: mtx, state and progress; whether handle is open; the  *)
              (* chunks in target with the task that wrote each; whether  *)
              (* target is the boot partition                             *)
  pc,         (* where each task is                                       *)
  sent,       (* the chunks of its image a front end has sent; -1: none   *)
  env         (* the environment of this behaviour                        *)

otaVars == <<core, pc, sent, env>>

Free == "free"
MaxFlash == Chunks + 1      (* bound of the model: chunks in the partition *)

PC == {"idle", "begin", "progress", "writing", "begin_error",
       "write", "add", "write_error", "write_abort",
       "end", "boot", "done", "restart", "end_error",
       "abort", "abort_idle", "give"}

OtaTypeOK ==
  /\ core \in [mtx: Task \cup {Free}, state: {"idle", "writing", "done", "error"},
               progress: 0..MaxFlash, open: BOOLEAN,
               flash: Seq(Task \X (1..Chunks)), boot: BOOLEAN]
  /\ Len(core.flash) <= MaxFlash
  /\ pc \in [Task -> PC]
  /\ sent \in [Task -> -1..Chunks]
  /\ env \in Environment

InitCore == [mtx |-> Free, state |-> "idle", progress |-> 0, open |-> FALSE,
             flash |-> <<>>, boot |-> FALSE]
InitPc   == [t \in Task |-> "idle"]
InitSent == [t \in Task |-> -1]
OtaInit  == core = InitCore /\ pc = InitPc /\ sent = InitSent /\ env \in Environment

\* Task t goes from l to next and leaves s as c and its front end's image as n.
Step(t, l, next, c, n) ==
  /\ pc[t] = l
  /\ pc' = [pc EXCEPT ![t] = next]
  /\ core' = c
  /\ sent' = [sent EXCEPT ![t] = n]
  /\ env' = env

Store(t, l, next, s)     == Step(t, l, next, [core EXCEPT !.state = s], sent[t])
CloseHandle(t, l, next)  == Step(t, l, next, [core EXCEPT !.open = FALSE], sent[t])

\* An image the bootloader accepts: all the chunks of one front end's image.
Verified == \E t \in Task : core.flash = [k \in 1..Chunks |-> <<t, k>>]

\* The HTTP body and a polite CDC host send their image in order, another CDC
\* host sends frames at will.
AtWill(t)     == t = Cdc /\ ~env.polite
MaySend(t, k) == (sent[t] >= 0 /\ k = sent[t] + 1) \/ AtWill(t)
MayEnd(t)     == sent[t] = Chunks \/ AtWill(t)

-----------------------------------------------------------------------------
(* ota_core_begin.                                                         *)

\* Mutant: the mutex is not looked at.
BeginUnlocked(t) ==
  /\ sent[t] = -1 \/ AtWill(t)
  /\ Step(t, "idle", "begin", [core EXCEPT !.mtx = t], sent[t])

\* The mutex is taken at once or the caller is turned away.
Begin(t) ==
  /\ sent[t] = -1 \/ AtWill(t)
  /\ core.mtx = Free
  /\ Step(t, "idle", "begin", [core EXCEPT !.mtx = t], sent[t])

\* esp_ota_begin erases the target; when it fails the mutex goes back first.
FlashBegin(t) ==
  \/ Step(t, "begin", "progress", [core EXCEPT !.open = TRUE, !.flash = <<>>], sent[t])
  \/ "begin" \in env.fails /\ Step(t, "begin", "begin_error", [core EXCEPT !.mtx = Free], sent[t])

BeginError(t)    == Store(t, "begin_error", "idle", "error")
\* Mutant: the progress of the session before is kept.
KeepProgress(t) == Step(t, "progress", "writing", core, sent[t])

ClearProgress(t) == Step(t, "progress", "writing", [core EXCEPT !.progress = 0], sent[t])
StartWriting(t)  == Step(t, "writing", "idle", [core EXCEPT !.state = "writing"], 0)

-----------------------------------------------------------------------------
(* ota_core_write and ota_core_end_and_reboot.                             *)

\* The check of s.state, at the head of both.
Checked(t, next) ==
  IF core.state = "writing" THEN Step(t, "idle", next, core, sent[t])
                            ELSE Step(t, "idle", "idle", core, -1)

Write(t) == (\E k \in 1..Chunks : MaySend(t, k)) /\ Checked(t, "write")
End(t)   == MayEnd(t) /\ Checked(t, "end")

\* Mutant: the chunk that esp_ota_write refused is taken for written.
FlashWriteIgnored(t) ==
  \/ /\ core.open /\ Len(core.flash) < MaxFlash
     /\ \E k \in 1..Chunks :
          /\ MaySend(t, k)
          /\ Step(t, "write", "add", [core EXCEPT !.flash = Append(@, <<t, k>>)],
                  IF sent[t] \in 0..(Chunks - 1) THEN sent[t] + 1 ELSE sent[t])
  \/ /\ ~core.open \/ "write" \in env.fails
     /\ Step(t, "write", "add", core, IF sent[t] \in 0..(Chunks - 1) THEN sent[t] + 1 ELSE sent[t])

\* esp_ota_write.
FlashWrite(t) ==
  \/ /\ core.open /\ Len(core.flash) < MaxFlash
     /\ \E k \in 1..Chunks :
          /\ MaySend(t, k)
          /\ Step(t, "write", "add", [core EXCEPT !.flash = Append(@, <<t, k>>)],
                  IF sent[t] \in 0..(Chunks - 1) THEN sent[t] + 1 ELSE sent[t])
  \/ /\ ~core.open \/ "write" \in env.fails
     /\ Step(t, "write", "write_error", core, -1)

AddProgress(t) ==
  Step(t, "add", "idle",
       [core EXCEPT !.progress = IF @ < MaxFlash THEN @ + 1 ELSE @], sent[t])

WriteError(t) == Store(t, "write_error", "write_abort", "error")
\* Mutant: the mutex is not given back.
WriteAbortKeepsMutex(t) == CloseHandle(t, "write_abort", "idle")

WriteAbort(t) == CloseHandle(t, "write_abort", "give")

\* esp_ota_end verifies the image and releases the handle either way.
FlashEnd(t) ==
  LET closed == [core EXCEPT !.open = FALSE] IN
    \/ core.open /\ Verified /\ Step(t, "end", "boot", closed, -1)
    \/ /\ ~core.open \/ ~Verified \/ "end" \in env.fails
       /\ Step(t, "end", "end_error", closed, -1)

\* esp_ota_set_boot_partition verifies it again.
SetBoot(t) ==
  \/ Verified /\ Step(t, "boot", "done", [core EXCEPT !.boot = TRUE], -1)
  \/ (~Verified \/ "boot" \in env.fails) /\ Step(t, "boot", "end_error", core, -1)

\* Mutant: the mutex is given back instead of restarting.
DoneThenGive(t) == Store(t, "done", "give", "done")

Done(t)     == Store(t, "done", "restart", "done")
EndError(t) == Store(t, "end_error", "give", "error")

-----------------------------------------------------------------------------
(* ota_core_abort, the mutex, and restarting.                              *)

\* ota_post gives up when the body stops coming.
RecvFails ==
  /\ Http \in Task
  /\ sent[Http] \in 0..(Chunks - 1)
  /\ Step(Http, "idle", IF core.state = "writing" THEN "abort" ELSE "abort_idle", core, -1)

AbortHandle(t) == CloseHandle(t, "abort", "abort_idle")
\* Mutant: the state is left as it is.
AbortKeepsState(t) == Step(t, "abort_idle", "give", core, sent[t])

AbortIdle(t)   == Store(t, "abort_idle", "give", "idle")

Give(t) ==
  /\ core.mtx \in {t, Free}
  /\ Step(t, "give", "idle", [core EXCEPT !.mtx = Free], sent[t])

\* The restart after the 500 ms delay, or by the assertion in a give of a
\* mutex that another task holds.
Restart ==
  /\ \E t \in Task : pc[t] = "restart" \/ (pc[t] = "give" /\ core.mtx \notin {t, Free})
  /\ core' = InitCore /\ pc' = InitPc /\ sent' = InitSent /\ env' = env

\* The CDC host goes away in the middle of an image.
HostGone ==
  /\ ~env.polite /\ Cdc \in Task
  /\ sent[Cdc] >= 0
  /\ Step(Cdc, "idle", "idle", core, -1)

-----------------------------------------------------------------------------

TaskStep(t) ==
  \/ FlashBegin(t) \/ BeginError(t) \/ ClearProgress(t) \/ StartWriting(t)
  \/ FlashWrite(t) \/ AddProgress(t) \/ WriteError(t) \/ WriteAbort(t)
  \/ FlashEnd(t) \/ SetBoot(t) \/ Done(t) \/ EndError(t)
  \/ AbortHandle(t) \/ AbortIdle(t) \/ Give(t)

OtaNext ==
  \/ \E t \in Task : Begin(t) \/ Write(t) \/ End(t) \/ TaskStep(t)
  \/ RecvFails
  \/ HostGone
  \/ Restart

OtaSpec == OtaInit /\ [][OtaNext]_otaVars

\* The tasks are scheduled, and ota_post goes on with the body or sees the
\* end of the connection.
OtaFairSpec ==
  /\ OtaSpec
  /\ \A t \in Task : WF_otaVars(TaskStep(t))
  /\ WF_otaVars(RecvFails \/ Write(Http) \/ End(Http))
  /\ WF_otaVars(Restart)

-----------------------------------------------------------------------------
(* Properties.                                                             *)

\* Claimed by the header: a single writer, enforced by the mutex.  The task
\* that calls the OTA functions on the handle is the one that holds it.  (It
\* rests on the CDC host: write and end look at the state, not at the mutex.)
SingleWriter ==
  env.polite => \A t \in Task : pc[t] \in {"write", "write_abort", "end", "abort"} => core.mtx = t

\* While the state says writing, the mutex is held: no second session is
\* opened under a running one.  Every variable keeps its type meanwhile, the
\* progress with its limit.
WritingLocked ==
  /\ OtaTypeOK
  /\ core.state = "writing" => core.mtx # Free

\* The progress reported is what is in the partition, but for a write that is
\* about to be counted.  (It rests on the host, too.)
ProgressCounts ==
  env.polite /\ core.state = "writing" =>
    \/ core.progress = Len(core.flash)
    \/ \E t \in Task : pc[t] = "add" /\ core.progress + 1 = Len(core.flash)

\* The boot partition is never switched to an image that is not whole, and
\* not touched again before the restart.  (It rests on the host: two ends that
\* both saw the state writing let a new session erase it in that time.)
BootIntact == env.polite /\ core.boot => Verified /\ ~core.open

\* An update is one transaction of its owner's: opened by one front end while
\* there is none, written in order by that one alone, then committed whole or
\* given up, wherever the body breaks off and whichever functions fail.  The
\* update is the mutex holder's; what the partition holds belongs to it once
\* esp_ota_begin has erased what was there.  (It rests on the host, too.)
Written ==
  IF core.mtx = Free \/ \E t \in Task : pc[t] = "begin" THEN << >> ELSE core.flash
Update == INSTANCE ImageUpdate WITH
  Owner <- Task, Nobody <- Free, Size <- Chunks,
  owner <- core.mtx, image <- Written, booted <- core.boot
UpdatesAreAtomic ==
  /\ Update!UpdateInit
  /\ [][env.polite => Update!UpdateNext]_(Update!updateVars)

\* An HTTP upload ends, whatever fails and whatever the CDC host sends: the
\* mutex is given back or the device restarts.  (Only when esp_ota_begin does
\* not fail.)
UploadEnds == (core.mtx = Http /\ "begin" \notin env.fails) ~> core.mtx # Http
=============================================================================
