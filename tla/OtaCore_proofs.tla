---------------------------- MODULE OtaCore_proofs ----------------------------
(***************************************************************************)
(* The mutex of OtaCore and the state "writing", for images of any length, *)
(* whatever the CDC host sends and whichever OTA functions fail; and that, *)
(* beside a host that keeps to the protocol, OtaCore implements            *)
(* ImageUpdate.                                                            *)
(***************************************************************************)
EXTENDS OtaCore, TLAPS

\* Where a task is between taking the mutex and announcing the state, and
\* where it is between withdrawing the state and giving the mutex back.
Opening == {"begin", "progress", "writing"}
Closing == {"write_abort", "give"}

\* A task that opens a session holds the mutex, and nobody is writing.
OpeningLocked ==
  \A t \in Task : pc[t] \in Opening => core.mtx = t /\ core.state # "writing"

\* A task that is about to give a mutex it holds has withdrawn the state.
ClosingSilent ==
  \A t \in Task : pc[t] \in Closing /\ core.mtx = t => core.state # "writing"

\* While the state says writing, the mutex is held.
WritingHeld == core.state = "writing" => core.mtx # Free

LockInv == OtaTypeOK /\ OpeningLocked /\ ClosingSilent /\ WritingHeld

CoreType ==
  {c \in [mtx: Task \cup {Free}, state: {"idle", "writing", "done", "error"},
          progress: 0..MaxFlash, open: BOOLEAN,
          flash: Seq(Task \X (1..Chunks)), boot: BOOLEAN] : Len(c.flash) <= MaxFlash}

-----------------------------------------------------------------------------
(* Types.                                                                  *)

\* A well typed core stays well typed when one of its fields is replaced.
LEMMA FieldTyping ==
  \A c \in CoreType :
    /\ \A x \in Task \cup {Free} : [c EXCEPT !.mtx = x] \in CoreType
    /\ \A x \in {"idle", "writing", "done", "error"} : [c EXCEPT !.state = x] \in CoreType
    /\ \A x \in 0..MaxFlash : [c EXCEPT !.progress = x] \in CoreType
    /\ \A x \in BOOLEAN : [c EXCEPT !.open = x] \in CoreType
    /\ \A x \in BOOLEAN : [c EXCEPT !.boot = x] \in CoreType
<1> SUFFICES ASSUME NEW c \in CoreType
    PROVE /\ \A x \in Task \cup {Free} : [c EXCEPT !.mtx = x] \in CoreType
          /\ \A x \in {"idle", "writing", "done", "error"} : [c EXCEPT !.state = x] \in CoreType
          /\ \A x \in 0..MaxFlash : [c EXCEPT !.progress = x] \in CoreType
          /\ \A x \in BOOLEAN : [c EXCEPT !.open = x] \in CoreType
          /\ \A x \in BOOLEAN : [c EXCEPT !.boot = x] \in CoreType
  OBVIOUS
<1>1. \A x \in Task \cup {Free} : [c EXCEPT !.mtx = x] \in CoreType
  BY DEF CoreType
<1>2. \A x \in {"idle", "writing", "done", "error"} : [c EXCEPT !.state = x] \in CoreType
  BY DEF CoreType
<1>3. \A x \in 0..MaxFlash : [c EXCEPT !.progress = x] \in CoreType
  BY DEF CoreType
<1>4. \A x \in BOOLEAN : [c EXCEPT !.open = x] \in CoreType
  BY DEF CoreType
<1>5. \A x \in BOOLEAN : [c EXCEPT !.boot = x] \in CoreType
  BY DEF CoreType
<1>. QED
  BY <1>1, <1>2, <1>3, <1>4, <1>5

\* The partition may hold any chunks, as many as fit.
LEMMA FlashTyping ==
  ASSUME NEW c \in CoreType, NEW s \in Seq(Task \X (1..Chunks)), Len(s) <= MaxFlash
  PROVE  [c EXCEPT !.flash = s] \in CoreType
BY DEF CoreType

\* A step to a well typed core, position and image keeps the types.
LEMMA StepTyping ==
  \A t \in Task, l, next \in PC, c \in CoreType, n \in -1..Chunks :
    OtaTypeOK /\ Step(t, l, next, c, n) => OtaTypeOK'
BY DEF OtaTypeOK, Step, CoreType

\* What ota_core_init and a restart leave is well typed.
LEMMA InitTyping ==
  /\ OtaInit => OtaTypeOK
  /\ OtaTypeOK /\ core' = InitCore /\ pc' = InitPc /\ sent' = InitSent /\ env' = env
       => OtaTypeOK'
<1>1. 0 \in 0..MaxFlash /\ MaxFlash \in Nat /\ -1 \in -1..Chunks
  BY OtaAssumption DEF MaxFlash
<1>2. InitCore \in CoreType
  <2>1. <<>> \in Seq(Task \X (1..Chunks)) /\ Len(<<>>) <= MaxFlash
    BY <1>1
  <2>. QED
    BY <1>1, <2>1 DEF InitCore, CoreType
<1>3. InitPc \in [Task -> PC] /\ InitSent \in [Task -> -1..Chunks]
  BY <1>1 DEF InitPc, InitSent, PC
<1>. QED
  BY <1>2, <1>3 DEF OtaInit, OtaTypeOK, CoreType

\* Every step keeps every variable in its type.
LEMMA OtaTypeStep == ASSUME OtaTypeOK, [OtaNext]_otaVars PROVE OtaTypeOK'
<1>0. core \in CoreType /\ \A t \in Task : sent[t] \in -1..Chunks
  BY DEF OtaTypeOK, CoreType
<1>a. 0 \in -1..Chunks /\ -1 \in -1..Chunks /\ MaxFlash \in Nat /\ 0 \in 0..MaxFlash
  BY OtaAssumption DEF MaxFlash
<1>p. PC = {"idle", "begin", "progress", "writing", "begin_error", "write", "add", "write_error",
            "write_abort", "end", "boot", "done", "restart", "end_error", "abort", "abort_idle",
            "give"}
  BY DEF PC
<1>m. \A x \in Task \cup {Free} : [core EXCEPT !.mtx = x] \in CoreType
  BY <1>0, FieldTyping
<1>s. \A x \in {"idle", "writing", "done", "error"} : [core EXCEPT !.state = x] \in CoreType
  BY <1>0, FieldTyping
<1>r. \A x \in 0..MaxFlash : [core EXCEPT !.progress = x] \in CoreType
  BY <1>0, FieldTyping
<1>o. \A x \in BOOLEAN : [core EXCEPT !.open = x] \in CoreType
  BY <1>0, FieldTyping
<1>b. \A x \in BOOLEAN : [core EXCEPT !.boot = x] \in CoreType
  BY <1>0, FieldTyping
<1> USE <1>0, <1>a, <1>p, StepTyping
<1>1. ASSUME NEW t \in Task, Begin(t) PROVE OtaTypeOK'
  BY <1>1, <1>m DEF Begin
<1>2. ASSUME NEW t \in Task, Write(t) PROVE OtaTypeOK'
  BY <1>2 DEF Write, Checked
<1>3. ASSUME NEW t \in Task, End(t) PROVE OtaTypeOK'
  BY <1>3 DEF End, Checked
<1>4. ASSUME NEW t \in Task, FlashBegin(t) PROVE OtaTypeOK'
  <2>1. CASE Step(t, "begin", "progress", [core EXCEPT !.open = TRUE, !.flash = <<>>], sent[t])
    <3>1. [core EXCEPT !.open = TRUE, !.flash = <<>>] \in CoreType
      <4> DEFINE c == [core EXCEPT !.open = TRUE]
      <4>1. c \in CoreType
        BY <1>o
      <4>2. <<>> \in Seq(Task \X (1..Chunks)) /\ Len(<<>>) <= MaxFlash
        OBVIOUS
      <4>3. [c EXCEPT !.flash = <<>>] \in CoreType
        BY <4>1, <4>2, FlashTyping
      <4>4. [c EXCEPT !.flash = <<>>] = [core EXCEPT !.open = TRUE, !.flash = <<>>]
        BY DEF CoreType
      <4>. QED
        BY <4>3, <4>4
    <3>. QED
      BY <2>1, <3>1
  <2>2. CASE Step(t, "begin", "begin_error", [core EXCEPT !.mtx = Free], sent[t])
    BY <2>2, <1>m
  <2>. QED
    BY <1>4, <2>1, <2>2 DEF FlashBegin
<1>5. ASSUME NEW t \in Task, ClearProgress(t) PROVE OtaTypeOK'
  BY <1>5, <1>r DEF ClearProgress
<1>6. ASSUME NEW t \in Task, StartWriting(t) PROVE OtaTypeOK'
  BY <1>6, <1>s DEF StartWriting
<1>7. ASSUME NEW t \in Task, FlashWrite(t) PROVE OtaTypeOK'
  <2>1. ASSUME NEW k \in 1..Chunks, NEW n \in -1..Chunks, Len(core.flash) < MaxFlash,
               Step(t, "write", "add", [core EXCEPT !.flash = Append(core.flash, <<t, k>>)], n)
        PROVE  OtaTypeOK'
    <3>1. core.flash \in Seq(Task \X (1..Chunks)) /\ <<t, k>> \in Task \X (1..Chunks)
      BY DEF CoreType
    <3>2. /\ Append(core.flash, <<t, k>>) \in Seq(Task \X (1..Chunks))
          /\ Len(Append(core.flash, <<t, k>>)) <= MaxFlash
      BY <2>1, <3>1
    <3>3. [core EXCEPT !.flash = Append(core.flash, <<t, k>>)] \in CoreType
      BY <3>2, FlashTyping
    <3>. QED
      BY <2>1, <3>3
  <2>2. CASE Step(t, "write", "write_error", core, -1)
    BY <2>2
  <2>3. ASSUME NEW k \in 1..Chunks
        PROVE  (IF sent[t] \in 0..(Chunks - 1) THEN sent[t] + 1 ELSE sent[t]) \in -1..Chunks
    BY OtaAssumption
  <2>. QED
    BY <1>7, <2>1, <2>2, <2>3 DEF FlashWrite
<1>8. ASSUME NEW t \in Task, AddProgress(t) PROVE OtaTypeOK'
  <2>1. core.progress \in 0..MaxFlash
    BY DEF CoreType
  <2>2. (IF core.progress < MaxFlash THEN core.progress + 1 ELSE core.progress) \in 0..MaxFlash
    BY <2>1
  <2>. QED
    BY <1>8, <1>r, <2>2 DEF AddProgress
<1>9. ASSUME NEW t \in Task,
             WriteError(t) \/ Done(t) \/ EndError(t) \/ AbortIdle(t) \/ BeginError(t)
      PROVE  OtaTypeOK'
  BY <1>9, <1>s DEF WriteError, Done, EndError, AbortIdle, BeginError, Store
<1>10. ASSUME NEW t \in Task, WriteAbort(t) \/ AbortHandle(t) PROVE OtaTypeOK'
  BY <1>10, <1>o DEF WriteAbort, AbortHandle, CloseHandle
<1>11. ASSUME NEW t \in Task, FlashEnd(t) PROVE OtaTypeOK'
  BY <1>11, <1>o DEF FlashEnd
<1>12. ASSUME NEW t \in Task, SetBoot(t) PROVE OtaTypeOK'
  BY <1>12, <1>b DEF SetBoot
<1>13. ASSUME NEW t \in Task, Give(t) PROVE OtaTypeOK'
  BY <1>13, <1>m DEF Give
<1>14. ASSUME RecvFails PROVE OtaTypeOK'
  BY <1>14 DEF RecvFails
<1>15. ASSUME HostGone PROVE OtaTypeOK'
  BY <1>15 DEF HostGone
<1>16. ASSUME Restart PROVE OtaTypeOK'
  BY <1>16, InitTyping DEF Restart, OtaInit
<1>17. CASE UNCHANGED otaVars
  BY <1>17 DEF otaVars, OtaTypeOK
<1>. QED
  BY <1>1, <1>2, <1>3, <1>4, <1>5, <1>6, <1>7, <1>8, <1>9, <1>10, <1>11, <1>12, <1>13,
     <1>14, <1>15, <1>16, <1>17 DEF OtaNext, TaskStep

-----------------------------------------------------------------------------
(* The mutex.                                                              *)

\* Every step keeps a session that is being opened or closed apart from the
\* one that is writing.
LEMMA LockStep ==
  ASSUME LockInv, [OtaNext]_otaVars
  PROVE  (OpeningLocked /\ ClosingSilent /\ WritingHeld)'
<1> USE OtaAssumption DEF LockInv, OpeningLocked, ClosingSilent, WritingHeld, Opening, Closing,
        OtaTypeOK, Free, Step
<1> DEFINE Goal == (OpeningLocked /\ ClosingSilent /\ WritingHeld)'
<1>1. ASSUME NEW t \in Task, Begin(t) PROVE Goal
  BY <1>1 DEF Begin
<1>2. ASSUME NEW t \in Task, Write(t) \/ End(t) PROVE Goal
  BY <1>2 DEF Write, End, Checked
<1>3. ASSUME NEW t \in Task, FlashBegin(t) PROVE Goal
  BY <1>3, ZenonT(30) DEF FlashBegin
<1>4. ASSUME NEW t \in Task, ClearProgress(t) \/ BeginError(t) PROVE Goal
  <2>1. CASE ClearProgress(t)
    BY <2>1, ZenonT(30) DEF ClearProgress
  <2>2. CASE BeginError(t)
    BY <2>2 DEF BeginError, Store
  <2>. QED
    BY <1>4, <2>1, <2>2
<1>5. ASSUME NEW t \in Task, StartWriting(t) PROVE Goal
  BY <1>5 DEF StartWriting
<1>6. ASSUME NEW t \in Task, FlashWrite(t) \/ AddProgress(t) PROVE Goal
  <2>1. core'.mtx = core.mtx /\ core'.state = core.state
    BY <1>6 DEF FlashWrite, AddProgress
  <2>2. \E next \in {"add", "write_error", "idle"} : pc' = [pc EXCEPT ![t] = next]
    BY <1>6 DEF FlashWrite, AddProgress
  <2>. QED
    BY <2>1, <2>2
<1>7. ASSUME NEW t \in Task, WriteError(t) \/ Done(t) \/ EndError(t) \/ AbortIdle(t) PROVE Goal
  BY <1>7 DEF WriteError, Done, EndError, AbortIdle, Store
<1>8. ASSUME NEW t \in Task, WriteAbort(t) \/ AbortHandle(t) PROVE Goal
  <2>1. core'.mtx = core.mtx /\ core'.state = core.state
    BY <1>8 DEF WriteAbort, AbortHandle, CloseHandle
  <2>2. \/ pc[t] = "write_abort" /\ pc' = [pc EXCEPT ![t] = "give"]
        \/ pc' = [pc EXCEPT ![t] = "abort_idle"]
    BY <1>8 DEF WriteAbort, AbortHandle, CloseHandle
  <2>. QED
    BY <2>1, <2>2
<1>9. ASSUME NEW t \in Task, FlashEnd(t) \/ SetBoot(t) PROVE Goal
  BY <1>9 DEF FlashEnd, SetBoot
<1>10. ASSUME NEW t \in Task, Give(t) PROVE Goal
  BY <1>10 DEF Give
<1>11. ASSUME RecvFails \/ HostGone PROVE Goal
  BY <1>11 DEF RecvFails, HostGone
<1>12. ASSUME Restart PROVE Goal
  BY <1>12 DEF Restart, InitCore, InitPc
<1>13. CASE UNCHANGED otaVars
  BY <1>13 DEF otaVars
<1>. QED
  BY <1>1, <1>2, <1>3, <1>4, <1>5, <1>6, <1>7, <1>8, <1>9, <1>10, <1>11, <1>12, <1>13
     DEF OtaNext, TaskStep

LEMMA LockInit == OtaInit => LockInv
BY InitTyping DEF OtaInit, LockInv, OpeningLocked, ClosingSilent, WritingHeld, Opening, Closing,
   InitCore, InitPc

\* OtaTypeOK holds for images of any length and any use of the front ends.
THEOREM OtaTypeCorrect == OtaSpec => []OtaTypeOK
<1>1. OtaTypeOK /\ [OtaNext]_otaVars => OtaTypeOK'
  BY OtaTypeStep
<1>. QED
  BY InitTyping, <1>1, PTL DEF OtaSpec

\* ota_core_begin cannot open a second session under a running one: the mutex
\* is held for as long as the state says "writing", on every path on which
\* ota_core.c gives it back.
THEOREM MutexHeldWhileWriting == OtaSpec => []WritingLocked
<1>1. LockInv /\ [OtaNext]_otaVars => LockInv'
  BY OtaTypeStep, LockStep DEF LockInv
<1>2. LockInv => WritingLocked
  BY DEF LockInv, WritingHeld, WritingLocked
<1>. QED
  BY LockInit, <1>1, <1>2, PTL DEF OtaSpec

-----------------------------------------------------------------------------
(* Beside a polite CDC host.  A session is its owner's from the begin to   *)
(* the give: an image that is being sent, and every place but idle and the *)
(* error of a failed begin, belong to the task that holds the mutex.       *)

SessionOwned ==
  \A t \in Task : pc[t] \notin {"idle", "begin_error"} \/ sent[t] # -1 => core.mtx = t

SentOnlyInSession ==
  \A t \in Task : pc[t] \notin {"idle", "write", "add", "end"} => sent[t] = -1

\* What has been written and what has been counted.
Counted ==
  /\ \A t \in Task : pc[t] \in {"progress", "writing"} => Len(core.flash) = 0
  /\ \A t \in Task : pc[t] = "writing" => core.progress = 0
  /\ core.state = "writing" =>
       \/ core.progress = Len(core.flash) /\ \A t \in Task : pc[t] # "add"
       \/ core.progress + 1 = Len(core.flash) /\ \E t \in Task : pc[t] = "add"

\* Once the boot partition is switched, its owner only restarts.
BootKept ==
  /\ \A t \in Task : pc[t] = "boot" => ~core.open
  /\ core.boot => /\ Verified /\ ~core.open
                  /\ \E t \in Task : core.mtx = t /\ pc[t] \in {"done", "restart"}

PoliteInv ==
  env.polite => SessionOwned /\ SentOnlyInSession /\ Counted /\ BootKept

\* What a step of a task t leaves alone: the place and the image of another.
LEMMA OthersStay ==
  ASSUME OtaTypeOK, NEW t \in Task, NEW l, NEW next, NEW c, NEW n, Step(t, l, next, c, n)
  PROVE  /\ pc[t] = l /\ pc'[t] = next /\ sent'[t] = n /\ core' = c /\ env' = env
         /\ \A u \in Task : u # t => pc'[u] = pc[u] /\ sent'[u] = sent[u]
BY DEF OtaTypeOK, Step

\* The owner's steps that change neither the partition nor what is counted.
LEMMA PlainStep ==
  ASSUME LockInv, env.polite, PoliteInv, NEW t \in Task, NEW l, NEW next, NEW c, NEW n,
         Step(t, l, next, c, n), c.flash = core.flash, c.progress = core.progress,
         c.open = core.open \/ (c.open = FALSE),
         c.boot = core.boot, c.mtx = core.mtx, core.mtx = t \/ next \in {"idle", "begin_error"},
         c.state = core.state \/ c.state # "writing",
         l \notin {"add", "done", "writing", "begin", "progress"},
         next \notin {"add", "progress", "writing"}, next = "boot" => ~c.open,
         n # -1 => next \in {"idle", "write", "end"} /\ core.mtx = t,
         l # "restart"
  PROVE  PoliteInv'
<1>1. /\ pc[t] = l /\ pc'[t] = next /\ sent'[t] = n /\ core' = c /\ env' = env
      /\ \A u \in Task : u # t => pc'[u] = pc[u] /\ sent'[u] = sent[u]
  BY OthersStay DEF LockInv
<1>2. SessionOwned /\ SentOnlyInSession /\ Counted /\ BootKept
  BY DEF PoliteInv
<1>3. SessionOwned'
  BY <1>1, <1>2 DEF SessionOwned
<1>4. SentOnlyInSession'
  BY <1>1, <1>2 DEF SentOnlyInSession
<1>5. Counted'
  <2>1. \A u \in Task : (pc'[u] = "add" <=> pc[u] = "add") /\ (pc'[u] \in {"progress", "writing"} => pc[u] = pc'[u])
    BY <1>1
  <2> QED
    BY <1>1, <1>2, <2>1 DEF Counted
<1>6. BootKept'
  <2>1. Verified => Verified'
    BY <1>1 DEF Verified
  <2>2. \A u \in Task : pc'[u] = "boot" => ~core'.open
    BY <1>1, <1>2 DEF BootKept
  <2>3. \A u \in Task : pc[u] \in {"done", "restart"} => pc'[u] = pc[u]
    BY <1>1
  <2> QED
    BY <1>1, <1>2, <2>1, <2>2, <2>3 DEF BootKept
<1> QED
  BY <1>3, <1>4, <1>5, <1>6 DEF PoliteInv

\* The same, when the core is left as it is.
LEMMA StayStep ==
  ASSUME LockInv, env.polite, PoliteInv, NEW t \in Task, NEW l, NEW next, NEW n,
         Step(t, l, next, core, n), core.mtx = t,
         l \notin {"add", "done", "writing", "begin", "progress", "restart"},
         next \notin {"add", "progress", "writing", "boot"},
         n # -1 => next \in {"idle", "write", "end"}
  PROVE  PoliteInv'
<1> DEFINE c == core
<1>1. /\ c.flash = core.flash /\ c.progress = core.progress /\ c.open = core.open
      /\ c.boot = core.boot /\ c.mtx = core.mtx /\ c.state = core.state
      /\ Step(t, l, next, c, n)
  OBVIOUS
<1> HIDE DEF c
<1> QED
  BY <1>1, PlainStep

LEMMA PoliteStep ==
  ASSUME LockInv, PoliteInv, [OtaNext]_otaVars
  PROVE  PoliteInv'
<1> SUFFICES ASSUME env.polite
             PROVE  PoliteInv'
  <2>1. env' = env
    BY DEF OtaNext, TaskStep, Begin, FlashBegin, BeginError, ClearProgress, StartWriting, Write, End,
       Checked, FlashWrite, AddProgress, WriteError, WriteAbort, FlashEnd, SetBoot, Done, EndError,
       RecvFails, AbortHandle, AbortIdle, Give, Restart, HostGone, Step, Store, CloseHandle, otaVars
  <2> QED
    BY <2>1 DEF PoliteInv
<1>0. /\ SessionOwned /\ SentOnlyInSession /\ Counted /\ BootKept /\ OtaTypeOK /\ OpeningLocked
      /\ core \in CoreType /\ \A t \in Task : sent[t] \in -1..Chunks /\ ~AtWill(t)
      /\ \A t \in Task : t # Free
  BY OtaAssumption DEF PoliteInv, LockInv, OtaTypeOK, CoreType, AtWill, Free
<1>b. ASSUME NEW t \in Task, pc[t] \notin {"idle", "begin_error", "done", "restart"} \/ sent[t] # -1
      PROVE  ~core.boot \/ pc[t] \in {"done", "restart"}
  BY <1>0, <1>b DEF BootKept, SessionOwned
<1>1. ASSUME NEW t \in Task, Begin(t) PROVE PoliteInv'
  <2>1. /\ pc[t] = "idle" /\ pc'[t] = "begin" /\ sent'[t] = -1 /\ core.mtx = Free
        /\ core' = [core EXCEPT !.mtx = t] /\ env' = env /\ sent[t] = -1
        /\ \A u \in Task : u # t => pc'[u] = pc[u] /\ sent'[u] = sent[u]
    BY <1>0, <1>1, OthersStay DEF Begin
  <2>2. /\ core'.mtx = t /\ core'.flash = core.flash /\ core'.progress = core.progress
        /\ core'.open = core.open /\ core'.boot = core.boot /\ core'.state = core.state
    BY <1>0, <2>1 DEF CoreType
  <2>3. ~core.boot
    BY <1>0, <2>1 DEF BootKept
  <2>4. SessionOwned' /\ SentOnlyInSession'
    BY <1>0, <2>1, <2>2 DEF SessionOwned, SentOnlyInSession
  <2>5. Counted' /\ BootKept'
    BY <1>0, <2>1, <2>2, <2>3 DEF Counted, BootKept
  <2> QED
    BY <2>4, <2>5 DEF PoliteInv
<1>2. ASSUME NEW t \in Task, Write(t) \/ End(t) PROVE PoliteInv'
  <2>1. sent[t] # -1
    BY <1>0, <1>2, OtaAssumption DEF Write, End, MaySend, MayEnd
  <2>2. core.mtx = t
    BY <1>0, <2>1 DEF SessionOwned
  <2>3. \/ Step(t, "idle", "write", core, sent[t]) \/ Step(t, "idle", "end", core, sent[t])
        \/ Step(t, "idle", "idle", core, -1)
    BY <1>2 DEF Write, End, Checked
  <2> QED
    BY <2>2, <2>3, StayStep
<1>3. ASSUME NEW t \in Task, FlashBegin(t) PROVE PoliteInv'
  <2>0. pc[t] = "begin" /\ core.mtx = t /\ core.state # "writing" /\ sent[t] = -1 /\ ~core.boot
    BY <1>0, <1>3, <1>b DEF FlashBegin, Step, OpeningLocked, Opening, SentOnlyInSession
  <2>1. /\ pc'[t] \in {"progress", "begin_error"} /\ sent'[t] = -1 /\ env' = env
        /\ \A u \in Task : u # t => pc'[u] = pc[u] /\ sent'[u] = sent[u]
    BY <1>0, <1>3, <2>0, OthersStay DEF FlashBegin
  <2>2. /\ core'.state = core.state /\ core'.boot = core.boot
        /\ \/ pc'[t] = "progress" /\ core'.mtx = t /\ Len(core'.flash) = 0
           \/ /\ pc'[t] = "begin_error" /\ core'.flash = core.flash
              /\ core'.progress = core.progress /\ core'.open = core.open
    <3>1. CASE Step(t, "begin", "progress", [core EXCEPT !.open = TRUE, !.flash = <<>>], sent[t])
      <4>1. core' = [core EXCEPT !.open = TRUE, !.flash = <<>>] /\ pc'[t] = "progress"
        BY <1>0, <3>1, OthersStay
      <4>2. Len(<<>>) = 0
        OBVIOUS
      <4>. QED
        BY <1>0, <2>0, <4>1, <4>2 DEF CoreType
    <3>2. CASE Step(t, "begin", "begin_error", [core EXCEPT !.mtx = Free], sent[t])
      <4>1. core' = [core EXCEPT !.mtx = Free] /\ pc'[t] = "begin_error"
        BY <1>0, <3>2, OthersStay
      <4>. QED
        BY <1>0, <4>1 DEF CoreType
    <3> QED
      BY <1>3, <3>1, <3>2 DEF FlashBegin
  <2>3. \A u \in Task : u # t => pc[u] \in {"idle", "begin_error"} /\ sent[u] = -1
    BY <1>0, <2>0 DEF SessionOwned
  <2>4. SessionOwned' /\ SentOnlyInSession'
    BY <1>0, <2>1, <2>2, <2>3 DEF SessionOwned, SentOnlyInSession
  <2>5. Counted' /\ BootKept'
    BY <1>0, <2>0, <2>1, <2>2, <2>3 DEF Counted, BootKept
  <2> QED
    BY <2>4, <2>5 DEF PoliteInv
<1>4. ASSUME NEW t \in Task, ClearProgress(t) \/ StartWriting(t) PROVE PoliteInv'
  <2>0. pc[t] \in {"progress", "writing"} /\ core.mtx = t /\ core.state # "writing" /\ ~core.boot
    BY <1>0, <1>4, <1>b DEF ClearProgress, StartWriting, Step, OpeningLocked, Opening
  <2>1. /\ \A u \in Task : u # t => pc'[u] = pc[u] /\ sent'[u] = sent[u]
        /\ \/ pc[t] = "progress" /\ pc'[t] = "writing" /\ sent'[t] = sent[t]
              /\ core' = [core EXCEPT !.progress = 0]
           \/ pc[t] = "writing" /\ pc'[t] = "idle" /\ sent'[t] = 0
              /\ core' = [core EXCEPT !.state = "writing"]
    BY <1>0, <1>4, OthersStay DEF ClearProgress, StartWriting
  <2>2. /\ core'.mtx = t /\ core'.flash = core.flash /\ core'.open = core.open
        /\ core'.boot = core.boot
        /\ \/ pc'[t] = "writing" /\ core'.progress = 0 /\ core'.state = core.state
           \/ pc'[t] = "idle" /\ core'.progress = core.progress
    BY <1>0, <2>0, <2>1 DEF CoreType
  <2>3. \A u \in Task : u # t => pc[u] \in {"idle", "begin_error"} /\ sent[u] = -1
    BY <1>0, <2>0 DEF SessionOwned
  <2>4. SessionOwned' /\ SentOnlyInSession'
    BY <1>0, <2>0, <2>1, <2>2, <2>3 DEF SessionOwned, SentOnlyInSession
  <2>5. Len(core.flash) = 0
    BY <1>0, <2>0 DEF Counted
  <2>6. Counted'
    BY <1>0, <2>0, <2>1, <2>2, <2>3, <2>5 DEF Counted
  <2>7. BootKept'
    BY <1>0, <2>0, <2>1, <2>2 DEF BootKept
  <2> QED
    BY <2>4, <2>6, <2>7 DEF PoliteInv
<1>5. ASSUME NEW t \in Task, FlashWrite(t) PROVE PoliteInv'
  <2>0. pc[t] = "write" /\ core.mtx = t /\ ~core.boot
    BY <1>0, <1>5, <1>b DEF FlashWrite, Step, SessionOwned
  <2>1. CASE Step(t, "write", "write_error", core, -1)
    BY <2>0, <2>1, StayStep
  <2>2. ASSUME NEW k \in 1..Chunks, NEW n,
               Step(t, "write", "add", [core EXCEPT !.flash = Append(core.flash, <<t, k>>)], n)
        PROVE  PoliteInv'
    <3>1. /\ pc'[t] = "add" /\ core' = [core EXCEPT !.flash = Append(core.flash, <<t, k>>)]
          /\ \A u \in Task : u # t => pc'[u] = pc[u] /\ sent'[u] = sent[u]
      BY <1>0, <2>2, OthersStay
    <3>2. /\ core'.mtx = t /\ core'.progress = core.progress /\ core'.open = core.open
          /\ core'.boot = core.boot /\ core'.state = core.state
          /\ core'.flash = Append(core.flash, <<t, k>>)
      BY <1>0, <2>0, <3>1 DEF CoreType
    <3>3. Len(core'.flash) = Len(core.flash) + 1
      BY <1>0, <3>2 DEF CoreType
    <3>4. \A u \in Task : u # t => pc[u] \in {"idle", "begin_error"} /\ sent[u] = -1
      BY <1>0, <2>0 DEF SessionOwned
    <3>5. SessionOwned' /\ SentOnlyInSession'
      BY <1>0, <3>1, <3>2, <3>4 DEF SessionOwned, SentOnlyInSession
    <3>6. Counted'
      <4>1. \A u \in Task : pc[u] # "add" /\ pc'[u] \notin {"progress", "writing"}
        BY <2>0, <3>1, <3>4
      <4>2. core.state = "writing" => core.progress = Len(core.flash)
        BY <1>0, <4>1 DEF Counted
      <4> QED
        BY <3>1, <3>2, <3>3, <4>1, <4>2 DEF Counted
    <3>7. BootKept'
      BY <1>0, <2>0, <3>1, <3>2, <3>4 DEF BootKept
    <3> QED
      BY <3>5, <3>6, <3>7 DEF PoliteInv
  <2> QED
    BY <1>5, <2>1, <2>2 DEF FlashWrite
<1>6. ASSUME NEW t \in Task, AddProgress(t) PROVE PoliteInv'
  <2>0. pc[t] = "add" /\ core.mtx = t /\ ~core.boot
    BY <1>0, <1>6, <1>b DEF AddProgress, Step, SessionOwned
  <2>1. /\ pc'[t] = "idle" /\ sent'[t] = sent[t]
        /\ core' = [core EXCEPT !.progress = IF @ < MaxFlash THEN @ + 1 ELSE @]
        /\ \A u \in Task : u # t => pc'[u] = pc[u] /\ sent'[u] = sent[u]
    BY <1>0, <1>6, OthersStay DEF AddProgress
  <2>2. /\ core'.mtx = t /\ core'.flash = core.flash /\ core'.open = core.open
        /\ core'.boot = core.boot /\ core'.state = core.state
        /\ core'.progress = IF core.progress < MaxFlash THEN core.progress + 1 ELSE core.progress
    BY <1>0, <2>0, <2>1 DEF CoreType
  <2>3. \A u \in Task : u # t => pc[u] \in {"idle", "begin_error"} /\ sent[u] = -1
    BY <1>0, <2>0 DEF SessionOwned
  <2>4. SessionOwned' /\ SentOnlyInSession'
    BY <1>0, <2>1, <2>2, <2>3 DEF SessionOwned, SentOnlyInSession
  <2>5. Counted'
    <3>1. Len(core.flash) <= MaxFlash /\ Len(core.flash) \in Nat /\ core.progress \in Nat
          /\ MaxFlash \in Nat
      BY <1>0, OtaAssumption DEF CoreType, MaxFlash
    <3>2. core.state = "writing" => core.progress + 1 = Len(core.flash)
      BY <1>0, <2>0 DEF Counted
    <3>3. core.state = "writing" => core'.progress = Len(core.flash)
      BY <2>2, <3>1, <3>2
    <3>4. \A u \in Task : pc'[u] \notin {"add", "progress", "writing"}
      BY <2>1, <2>3
    <3> QED
      BY <2>2, <3>3, <3>4 DEF Counted
  <2>6. BootKept'
    BY <1>0, <2>0, <2>1, <2>2 DEF BootKept
  <2> QED
    BY <2>4, <2>5, <2>6 DEF PoliteInv
<1>7. ASSUME NEW t \in Task, WriteError(t) \/ EndError(t) \/ AbortIdle(t) PROVE PoliteInv'
  <2>1. \E l \in {"write_error", "end_error", "abort_idle"}, s \in {"error", "idle"},
           next \in {"write_abort", "give"} :
          Step(t, l, next, [core EXCEPT !.state = s], sent[t])
    BY <1>7 DEF WriteError, EndError, AbortIdle, Store
  <2>2. PICK l \in {"write_error", "end_error", "abort_idle"}, s \in {"error", "idle"},
             next \in {"write_abort", "give"} :
          Step(t, l, next, [core EXCEPT !.state = s], sent[t])
    BY <2>1
  <2>3. core.mtx = t /\ sent[t] = -1
    BY <1>0, <2>2 DEF Step, SessionOwned, SentOnlyInSession
  <2> DEFINE c == [core EXCEPT !.state = s]
  <2>4. /\ c.flash = core.flash /\ c.progress = core.progress /\ c.open = core.open
        /\ c.boot = core.boot /\ c.mtx = core.mtx /\ c.state # "writing"
    BY <1>0 DEF CoreType
  <2> HIDE DEF c
  <2>5. Step(t, l, next, c, -1)
    BY <2>2, <2>3 DEF c
  <2> QED
    BY <1>0, <2>3, <2>4, <2>5, PlainStep
<1>8. ASSUME NEW t \in Task, BeginError(t) PROVE PoliteInv'
  <2>1. pc[t] = "begin_error" /\ sent[t] = -1
    BY <1>0, <1>8 DEF BeginError, Store, Step, SentOnlyInSession
  <2> DEFINE c == [core EXCEPT !.state = "error"]
  <2>2. /\ c.flash = core.flash /\ c.progress = core.progress /\ c.open = core.open
        /\ c.boot = core.boot /\ c.mtx = core.mtx /\ c.state # "writing"
    BY <1>0 DEF CoreType
  <2>3. Step(t, "begin_error", "idle", c, -1)
    BY <1>8, <2>1 DEF BeginError, Store
  <2> HIDE DEF c
  <2>4. ASSUME NEW l, NEW next, NEW n, Step(t, l, next, c, n), l = "begin_error", next = "idle",
               n = -1
        PROVE  PoliteInv'
    <3>1. core.mtx = t \/ next \in {"idle", "begin_error"}
      BY <2>4
    <3>2. l \notin {"add", "done", "writing", "begin", "progress"} /\ l # "restart"
      BY <2>4
    <3>3. next \notin {"add", "progress", "writing"} /\ (next = "boot" => ~c.open)
      BY <2>4
    <3>4. n # -1 => next \in {"idle", "write", "end"} /\ core.mtx = t
      BY <2>4
    <3> QED
      BY <2>2, <2>4, <3>1, <3>2, <3>3, <3>4, PlainStep
  <2> QED
    BY <2>3, <2>4
<1>9. ASSUME NEW t \in Task, WriteAbort(t) \/ AbortHandle(t) \/ FlashEnd(t) PROVE PoliteInv'
  <2> DEFINE c == [core EXCEPT !.open = FALSE]
  <2>1. PICK l \in {"write_abort", "abort", "end"}, next \in {"give", "abort_idle", "boot", "end_error"} :
          pc[t] = l /\ (Step(t, l, next, c, -1) \/ (l # "end" /\ Step(t, l, next, c, sent[t])))
    BY <1>9 DEF WriteAbort, AbortHandle, FlashEnd, CloseHandle, Step
  <2>2. core.mtx = t /\ (l # "end" => sent[t] = -1)
    BY <1>0, <2>1 DEF SessionOwned, SentOnlyInSession
  <2>3. /\ c.flash = core.flash /\ c.progress = core.progress /\ c.open = FALSE
        /\ c.boot = core.boot /\ c.mtx = core.mtx /\ c.state = core.state
    BY <1>0 DEF CoreType
  <2>4. Step(t, l, next, c, -1)
    BY <2>1, <2>2
  <2> HIDE DEF c
  <2> QED
    BY <1>0, <2>2, <2>3, <2>4, PlainStep
<1>10. ASSUME NEW t \in Task, SetBoot(t) PROVE PoliteInv'
  <2>0. pc[t] = "boot" /\ core.mtx = t /\ ~core.open /\ ~core.boot
    BY <1>0, <1>10, <1>b DEF SetBoot, Step, SessionOwned, BootKept
  <2>1. CASE Step(t, "boot", "end_error", core, -1)
    BY <2>0, <2>1, StayStep
  <2>2. CASE Verified /\ Step(t, "boot", "done", [core EXCEPT !.boot = TRUE], -1)
    <3>1. /\ pc'[t] = "done" /\ sent'[t] = -1 /\ core' = [core EXCEPT !.boot = TRUE]
          /\ \A u \in Task : u # t => pc'[u] = pc[u] /\ sent'[u] = sent[u]
      BY <1>0, <2>2, OthersStay
    <3>2. /\ core'.mtx = t /\ core'.flash = core.flash /\ core'.progress = core.progress
          /\ core'.open = core.open /\ core'.state = core.state
      BY <1>0, <2>0, <3>1 DEF CoreType
    <3>3. SessionOwned' /\ SentOnlyInSession'
      BY <1>0, <2>0, <3>1, <3>2 DEF SessionOwned, SentOnlyInSession
    <3>4. Counted'
      <4>1. \A u \in Task : (pc'[u] = "add" <=> pc[u] = "add")
                            /\ (pc'[u] \in {"progress", "writing"} => pc[u] = pc'[u])
        BY <2>0, <3>1
      <4> QED
        BY <1>0, <3>2, <4>1 DEF Counted
    <3>5. Verified'
      BY <2>2, <3>2 DEF Verified
    <3>6. BootKept'
      BY <1>0, <2>0, <3>1, <3>2, <3>5 DEF BootKept
    <3> QED
      BY <3>3, <3>4, <3>6 DEF PoliteInv
  <2> QED
    BY <1>10, <2>1, <2>2 DEF SetBoot
<1>11. ASSUME NEW t \in Task, Done(t) PROVE PoliteInv'
  <2>0. pc[t] = "done" /\ core.mtx = t /\ sent[t] = -1
    BY <1>0, <1>11 DEF Done, Store, Step, SessionOwned, SentOnlyInSession
  <2>1. /\ pc'[t] = "restart" /\ sent'[t] = -1 /\ core' = [core EXCEPT !.state = "done"]
        /\ \A u \in Task : u # t => pc'[u] = pc[u] /\ sent'[u] = sent[u]
    BY <1>0, <1>11, <2>0, OthersStay DEF Done, Store
  <2>2. /\ core'.mtx = t /\ core'.flash = core.flash /\ core'.progress = core.progress
        /\ core'.open = core.open /\ core'.state = "done" /\ core'.boot = core.boot
    BY <1>0, <2>0, <2>1 DEF CoreType
  <2>3. SessionOwned' /\ SentOnlyInSession'
    BY <1>0, <2>0, <2>1, <2>2 DEF SessionOwned, SentOnlyInSession
  <2>4. Counted'
    <3>1. \A u \in Task : pc'[u] \in {"progress", "writing"} => pc[u] = pc'[u]
      BY <2>1
    <3> QED
      BY <1>0, <2>2, <3>1 DEF Counted
  <2>5. core.boot => Verified'
    BY <1>0, <2>2 DEF Verified, BootKept
  <2>6. BootKept'
    BY <1>0, <2>0, <2>1, <2>2, <2>5 DEF BootKept
  <2> QED
    BY <2>3, <2>4, <2>6 DEF PoliteInv
<1>12. ASSUME NEW t \in Task, Give(t) PROVE PoliteInv'
  <2>0. pc[t] = "give" /\ core.mtx = t /\ sent[t] = -1 /\ ~core.boot /\ core.state # "writing"
    BY <1>0, <1>12, <1>b DEF Give, Step, SessionOwned, SentOnlyInSession, LockInv, ClosingSilent, Closing
  <2>1. /\ pc'[t] = "idle" /\ sent'[t] = -1 /\ core' = [core EXCEPT !.mtx = Free]
        /\ \A u \in Task : u # t => pc'[u] = pc[u] /\ sent'[u] = sent[u]
    BY <1>0, <1>12, <2>0, OthersStay DEF Give
  <2>2. /\ core'.flash = core.flash /\ core'.progress = core.progress
        /\ core'.open = core.open /\ core'.state = core.state /\ core'.boot = core.boot
    BY <1>0, <2>1 DEF CoreType
  <2>3. \A u \in Task : u # t => pc[u] \in {"idle", "begin_error"} /\ sent[u] = -1
    BY <1>0, <2>0 DEF SessionOwned
  <2>4. SessionOwned' /\ SentOnlyInSession'
    BY <1>0, <2>1, <2>2, <2>3 DEF SessionOwned, SentOnlyInSession
  <2>5. Counted' /\ BootKept'
    BY <1>0, <2>0, <2>1, <2>2, <2>3 DEF Counted, BootKept
  <2> QED
    BY <2>4, <2>5 DEF PoliteInv
<1>13. ASSUME RecvFails PROVE PoliteInv'
  <2>0. Http \in Task /\ sent[Http] # -1
    BY <1>13 DEF RecvFails
  <2>1. core.mtx = Http
    BY <1>0, <2>0 DEF SessionOwned
  <2>2. Step(Http, "idle", "abort", core, -1) \/ Step(Http, "idle", "abort_idle", core, -1)
    BY <1>13 DEF RecvFails
  <2> QED
    BY <2>0, <2>1, <2>2, StayStep
<1>14. ASSUME HostGone PROVE PoliteInv'
  BY <1>14 DEF HostGone
<1>15. ASSUME Restart PROVE PoliteInv'
  <2>1. core' = InitCore /\ pc' = InitPc /\ sent' = InitSent
    BY <1>15 DEF Restart
  <2>2. \A t \in Task : pc'[t] = "idle" /\ sent'[t] = -1
    BY <2>1 DEF InitPc, InitSent
  <2>3. ~core'.boot /\ core'.state # "writing"
    BY <2>1 DEF InitCore
  <2> QED
    BY <2>2, <2>3 DEF PoliteInv, SessionOwned, SentOnlyInSession, Counted, BootKept
<1>16. CASE UNCHANGED otaVars
  BY <1>16 DEF otaVars, PoliteInv, SessionOwned, SentOnlyInSession, Counted, BootKept, Verified
<1> QED
  BY <1>1, <1>2, <1>3, <1>4, <1>5, <1>6, <1>7, <1>8, <1>9, <1>10, <1>11, <1>12, <1>13, <1>14,
     <1>15, <1>16 DEF OtaNext, TaskStep

LEMMA PoliteInvariant == OtaSpec => [](LockInv /\ PoliteInv)
<1>1. OtaInit => PoliteInv
  BY DEF OtaInit, InitCore, InitPc, InitSent, PoliteInv, SessionOwned, SentOnlyInSession,
     Counted, BootKept
<1>2. LockInv /\ [OtaNext]_otaVars => LockInv'
  BY OtaTypeStep, LockStep DEF LockInv
<1>3. LockInv /\ PoliteInv /\ [OtaNext]_otaVars => PoliteInv'
  BY PoliteStep
<1>. QED
  BY LockInit, <1>1, <1>2, <1>3, PTL DEF OtaSpec

\* ota_core.h's single writer: beside a CDC host that keeps to the protocol,
\* the task that calls the OTA functions holds the mutex, whichever of them
\* fail and wherever the HTTP body breaks off.
THEOREM OneWriter == OtaSpec => []SingleWriter
<1>1. PoliteInv => SingleWriter
  BY DEF PoliteInv, SessionOwned, SingleWriter
<1>. QED
  BY <1>1, PoliteInvariant, PTL

\* ota_core_progress is what has been written, for images of any length.
THEOREM ProgressTrue == OtaSpec => []ProgressCounts
<1>1. PoliteInv => ProgressCounts
  BY DEF PoliteInv, Counted, ProgressCounts
<1>. QED
  BY <1>1, PoliteInvariant, PTL

\* ota_core_end_and_reboot switches the boot partition to a whole image only,
\* and nothing erases or reopens it before the restart.
THEOREM WholeImageBoots == OtaSpec => []BootIntact
<1>1. PoliteInv => BootIntact
  BY DEF PoliteInv, BootKept, BootIntact
<1>. QED
  BY <1>1, PoliteInvariant, PTL

-----------------------------------------------------------------------------
(* An update is one transaction: OtaCore implements ImageUpdate.           *)

Prefix(t, n) == [i \in 1..n |-> <<t, i>>]

\* An image that is being sent is in the partition as far as it was sent.
OwnImage == \A t \in Task : sent[t] # -1 => core.flash = Prefix(t, sent[t])

\* A task restarts only because it has switched the boot partition.
RestartsSwitched == \A t \in Task : pc[t] \in {"done", "restart"} => core.boot

AtomicInv == env.polite => OwnImage /\ RestartsSwitched

LEMMA PrefixIs ==
  ASSUME NEW t, NEW n \in Nat
  PROVE  /\ Prefix(t, n) \in Seq({t} \X Nat) /\ Len(Prefix(t, n)) = n
         /\ Append(Prefix(t, n), <<t, n + 1>>) = Prefix(t, n + 1)
<1>1. Prefix(t, n) \in Seq({t} \X Nat) /\ Len(Prefix(t, n)) = n
  BY DEF Prefix
<1>2. Prefix(t, n + 1) \in Seq({t} \X Nat) /\ Len(Prefix(t, n + 1)) = n + 1
  BY DEF Prefix
<1>3. \A i \in 1..(n + 1) : Append(Prefix(t, n), <<t, n + 1>>)[i] = Prefix(t, n + 1)[i]
  <2>1. \A i \in 1..n : Prefix(t, n)[i] = <<t, i>>
    BY DEF Prefix
  <2>2. \A i \in 1..(n + 1) : Prefix(t, n + 1)[i] = <<t, i>>
    BY DEF Prefix
  <2> DEFINE p == Prefix(t, n)
  <2> TAKE i \in 1..(n + 1)
  <2>3. p \in Seq({t} \X Nat) /\ Len(p) = n /\ <<t, n + 1>> \in {t} \X Nat
    BY <1>1
  <2> HIDE DEF p
  <2>4. Append(p, <<t, n + 1>>)[i] = IF i <= n THEN p[i] ELSE <<t, n + 1>>
    BY <2>3
  <2>5. i <= n => p[i] = <<t, i>>
    BY <2>1 DEF p
  <2>6. CASE i <= n
    BY <2>2, <2>4, <2>5, <2>6 DEF p
  <2>7. CASE i = n + 1
    <3>1. ~(i <= n)
      BY <2>7
    <3>2. Append(p, <<t, n + 1>>)[i] = <<t, i>>
      BY <2>4, <2>7, <3>1
    <3> QED
      BY <2>2, <3>2 DEF p
  <2>8. i <= n \/ i = n + 1
    OBVIOUS
  <2> QED
    BY <2>6, <2>7, <2>8
<1> QED
  BY <1>1, <1>2, <1>3

\* Nothing has been written of an image of which nothing was sent.
LEMMA NothingSent ==
  ASSUME NEW t, NEW S, NEW s \in Seq(S), Len(s) = 0
  PROVE  s = Prefix(t, 0)
BY DEF Prefix

\* No step changes the environment.
LEMMA EnvStays == [OtaNext]_otaVars => env' = env
BY DEF OtaNext, TaskStep, Begin, FlashBegin, BeginError, ClearProgress, StartWriting, Write, End,
   Checked, FlashWrite, AddProgress, WriteError, WriteAbort, FlashEnd, SetBoot, Done, EndError,
   RecvFails, AbortHandle, AbortIdle, Give, Restart, HostGone, Step, Store, CloseHandle, otaVars

\* Beside a polite host a write that succeeds is of the next chunk of the
\* image its owner is sending.
UpdateExtends(t) ==
  /\ pc[t] = "write" /\ pc'[t] = "add"
  /\ sent[t] \in 0..(Chunks - 1) /\ sent'[t] = sent[t] + 1
  /\ core' = [core EXCEPT !.flash = Append(core.flash, <<t, sent[t] + 1>>)]
  /\ core.mtx = t
  /\ \A u \in Task : u # t => pc'[u] = pc[u] /\ sent'[u] = sent[u]

LEMMA WriteExtends ==
  ASSUME LockInv, PoliteInv, env.polite, NEW t \in Task, FlashWrite(t)
  PROVE  UpdateExtends(t) \/ Step(t, "write", "write_error", core, -1)
<1>1. sent[t] \in -1..Chunks /\ ~AtWill(t) /\ OtaTypeOK /\ SessionOwned
  BY DEF LockInv, OtaTypeOK, AtWill, PoliteInv
<1>2. ASSUME NEW k \in 1..Chunks, MaySend(t, k), NEW n,
             n = IF sent[t] \in 0..(Chunks - 1) THEN sent[t] + 1 ELSE sent[t],
             Step(t, "write", "add", [core EXCEPT !.flash = Append(core.flash, <<t, k>>)], n)
      PROVE  UpdateExtends(t)
  <2>1. k = sent[t] + 1 /\ sent[t] \in 0..(Chunks - 1) /\ n = sent[t] + 1
    BY <1>1, <1>2, OtaAssumption DEF MaySend
  <2>2. /\ pc[t] = "write" /\ pc'[t] = "add" /\ sent'[t] = n
        /\ core' = [core EXCEPT !.flash = Append(core.flash, <<t, k>>)]
        /\ \A u \in Task : u # t => pc'[u] = pc[u] /\ sent'[u] = sent[u]
    BY <1>1, <1>2, OthersStay
  <2>3. core.mtx = t
    BY <1>1, <2>2 DEF SessionOwned
  <2> QED
    BY <2>1, <2>2, <2>3 DEF UpdateExtends
<1> QED
  BY <1>2 DEF FlashWrite

\* Every step keeps an update its owner's and a restart after its commit.
LEMMA AtomicStep ==
  ASSUME LockInv, PoliteInv, AtomicInv, [OtaNext]_otaVars
  PROVE  AtomicInv'
<1> SUFFICES ASSUME env.polite
             PROVE  (OwnImage /\ RestartsSwitched)'
  BY EnvStays DEF AtomicInv
<1>0. /\ SessionOwned /\ SentOnlyInSession /\ Counted /\ BootKept /\ OtaTypeOK
      /\ OwnImage /\ RestartsSwitched
      /\ core \in CoreType /\ \A t \in Task : sent[t] \in -1..Chunks /\ ~AtWill(t)
      /\ \A t \in Task : t # Free
  BY OtaAssumption DEF PoliteInv, AtomicInv, LockInv, OtaTypeOK, CoreType, AtWill, Free
\* Steps that leave the partition alone and send nothing.
<1>q. ASSUME NEW t \in Task, NEW l, NEW next, NEW c, NEW n, Step(t, l, next, c, n),
             n \in {-1, sent[t]}, c.flash = core.flash, c.boot = core.boot,
             next \in {"done", "restart"} => l \in {"done", "restart"}
      PROVE  (OwnImage /\ RestartsSwitched)'
  <2>1. /\ pc[t] = l /\ pc'[t] = next /\ sent'[t] = n /\ core' = c
        /\ \A u \in Task : u # t => pc'[u] = pc[u] /\ sent'[u] = sent[u]
    BY <1>0, <1>q, OthersStay
  <2> QED
    BY <1>0, <1>q, <2>1 DEF OwnImage, RestartsSwitched
<1>f. /\ \A x : [core EXCEPT !.mtx = x].flash = core.flash /\ [core EXCEPT !.mtx = x].boot = core.boot
      /\ \A x : [core EXCEPT !.state = x].flash = core.flash /\ [core EXCEPT !.state = x].boot = core.boot
      /\ \A x : [core EXCEPT !.open = x].flash = core.flash /\ [core EXCEPT !.open = x].boot = core.boot
      /\ \A x : /\ [core EXCEPT !.progress = x].flash = core.flash
               /\ [core EXCEPT !.progress = x].boot = core.boot
  BY <1>0 DEF CoreType
<1>1. ASSUME NEW t \in Task, Begin(t) PROVE (OwnImage /\ RestartsSwitched)'
  BY <1>1, <1>q, <1>f DEF Begin
<1>2. ASSUME NEW t \in Task, Write(t) \/ End(t) PROVE (OwnImage /\ RestartsSwitched)'
  BY <1>2, <1>q DEF Write, End, Checked
<1>3. ASSUME NEW t \in Task, FlashBegin(t) PROVE (OwnImage /\ RestartsSwitched)'
  <2>1. CASE Step(t, "begin", "progress", [core EXCEPT !.open = TRUE, !.flash = <<>>], sent[t])
    <3>1. /\ pc[t] = "begin" /\ pc'[t] = "progress" /\ sent'[t] = sent[t]
          /\ core' = [core EXCEPT !.open = TRUE, !.flash = <<>>]
          /\ \A u \in Task : u # t => pc'[u] = pc[u] /\ sent'[u] = sent[u]
      BY <1>0, <2>1, OthersStay
    <3>4. core'.boot = core.boot
      BY <1>0, <3>1 DEF CoreType
    <3>2. core.mtx = t /\ sent[t] = -1
      BY <1>0, <3>1 DEF SessionOwned, SentOnlyInSession
    <3>3. \A u \in Task : sent'[u] = -1
      BY <1>0, <3>1, <3>2 DEF SessionOwned
    <3> QED
      BY <1>0, <3>1, <3>3, <3>4 DEF OwnImage, RestartsSwitched
  <2>2. CASE Step(t, "begin", "begin_error", [core EXCEPT !.mtx = Free], sent[t])
    BY <2>2, <1>q, <1>f
  <2> QED
    BY <1>3, <2>1, <2>2 DEF FlashBegin
<1>4. ASSUME NEW t \in Task, StartWriting(t) PROVE (OwnImage /\ RestartsSwitched)'
  <2>1. /\ pc[t] = "writing" /\ pc'[t] = "idle" /\ sent'[t] = 0
        /\ core' = [core EXCEPT !.state = "writing"]
        /\ \A u \in Task : u # t => pc'[u] = pc[u] /\ sent'[u] = sent[u]
    BY <1>0, <1>4, OthersStay DEF StartWriting, Store
  <2>6. core'.boot = core.boot /\ core'.flash = core.flash
    BY <2>1, <1>f
  <2>2. core.mtx = t
    BY <1>0, <2>1 DEF SessionOwned
  <2>3. \A u \in Task : u # t => sent'[u] = -1
    BY <1>0, <2>1, <2>2 DEF SessionOwned
  <2>4. core.flash \in Seq(Task \X (1..Chunks)) /\ Len(core.flash) = 0
    BY <1>0, <2>1 DEF Counted, CoreType
  <2>5. core.flash = Prefix(t, 0)
    BY <2>4, NothingSent
  <2> QED
    BY <1>0, <2>1, <2>3, <2>5, <2>6 DEF OwnImage, RestartsSwitched
<1>5. ASSUME NEW t \in Task, FlashWrite(t) PROVE (OwnImage /\ RestartsSwitched)'
  <2>1. CASE Step(t, "write", "write_error", core, -1)
    BY <2>1, <1>q
  <2>2. CASE UpdateExtends(t)
    <3>1. /\ pc[t] = "write" /\ pc'[t] = "add" /\ sent[t] \in 0..(Chunks - 1)
          /\ sent'[t] = sent[t] + 1 /\ core'.boot = core.boot
          /\ core'.flash = Append(core.flash, <<t, sent[t] + 1>>)
          /\ \A u \in Task : u # t => pc'[u] = pc[u] /\ sent'[u] = sent[u]
      BY <1>0, <2>2 DEF UpdateExtends
    <3>2. \A u \in Task : u # t => sent'[u] = -1
      BY <1>0, <3>1 DEF SessionOwned
    <3>3. core'.flash = Prefix(t, sent'[t])
      <4>1. sent[t] \in Nat /\ sent[t] # -1
        BY <3>1, OtaAssumption
      <4>2. core.flash = Prefix(t, sent[t])
        BY <1>0, <4>1 DEF OwnImage
      <4> QED
        BY <3>1, <4>1, <4>2, PrefixIs
    <3> QED
      BY <1>0, <3>1, <3>2, <3>3 DEF OwnImage, RestartsSwitched
  <2> QED
    BY <1>0, <1>5, <2>1, <2>2, WriteExtends DEF LockInv
<1>6. ASSUME NEW t \in Task,
             \/ BeginError(t) \/ ClearProgress(t) \/ AddProgress(t) \/ WriteError(t)
             \/ WriteAbort(t) \/ EndError(t) \/ AbortHandle(t) \/ AbortIdle(t)
             \/ Give(t) \/ Done(t)
      PROVE  (OwnImage /\ RestartsSwitched)'
  BY <1>6, <1>q, <1>f DEF BeginError, ClearProgress, AddProgress, WriteError, WriteAbort,
     EndError, AbortHandle, AbortIdle, Give, Done, Store, CloseHandle
<1>7. ASSUME NEW t \in Task, FlashEnd(t) PROVE (OwnImage /\ RestartsSwitched)'
  BY <1>7, <1>q, <1>f DEF FlashEnd
<1>8. ASSUME NEW t \in Task, SetBoot(t) PROVE (OwnImage /\ RestartsSwitched)'
  <2>1. CASE Step(t, "boot", "done", [core EXCEPT !.boot = TRUE], -1)
    <3>1. /\ sent'[t] = -1 /\ core'.boot /\ core'.flash = core.flash
          /\ \A u \in Task : u # t => pc'[u] = pc[u] /\ sent'[u] = sent[u]
      BY <1>0, <2>1, OthersStay DEF CoreType
    <3> QED
      BY <1>0, <3>1 DEF OwnImage, RestartsSwitched
  <2>2. CASE Step(t, "boot", "end_error", core, -1)
    BY <2>2, <1>q
  <2> QED
    BY <1>8, <2>1, <2>2 DEF SetBoot
<1>9. ASSUME RecvFails \/ HostGone PROVE (OwnImage /\ RestartsSwitched)'
  BY <1>9, <1>q DEF RecvFails, HostGone
<1>10. ASSUME Restart PROVE (OwnImage /\ RestartsSwitched)'
  BY <1>10 DEF Restart, InitPc, InitSent, OwnImage, RestartsSwitched
<1>11. CASE UNCHANGED otaVars
  BY <1>0, <1>11 DEF otaVars, OwnImage, RestartsSwitched
<1> QED
  BY <1>1, <1>2, <1>3, <1>4, <1>5, <1>6, <1>7, <1>8, <1>9, <1>10, <1>11 DEF OtaNext, TaskStep

LEMMA AtomicInvariant == OtaSpec => [](LockInv /\ PoliteInv /\ AtomicInv)
<1>1. OtaInit => AtomicInv
  BY DEF OtaInit, InitPc, InitSent, AtomicInv, OwnImage, RestartsSwitched
<1>2. LockInv /\ PoliteInv /\ AtomicInv /\ [OtaNext]_otaVars => AtomicInv'
  BY AtomicStep
<1> QED
  BY PoliteInvariant, <1>1, <1>2, PTL DEF OtaSpec

\* Where the owner of an update is past its begin, the partition is its image.
LEMMA WrittenIs ==
  ASSUME LockInv, PoliteInv, env.polite, NEW t \in Task, core.mtx = t, pc[t] # "begin"
  PROVE  Written = core.flash
<1>1. t # Free /\ SessionOwned
  BY OtaAssumption DEF PoliteInv, Free
<1>2. \A u \in Task : pc[u] # "begin"
  BY <1>1 DEF SessionOwned
<1> QED
  BY <1>1, <1>2 DEF Written

\* Steps of a session in which ImageUpdate sees nothing.
LEMMA UnseenStep ==
  ASSUME OtaTypeOK, NEW t \in Task, NEW l, NEW next, NEW c, NEW n, Step(t, l, next, c, n),
         l # "begin", next # "begin",
         c.flash = core.flash, c.boot = core.boot, c.mtx = core.mtx
  PROVE  UNCHANGED Update!updateVars
<1>1. /\ pc[t] = l /\ pc'[t] = next /\ core' = c
      /\ \A u \in Task : u # t => pc'[u] = pc[u]
  BY OthersStay
<1>2. (\E u \in Task : pc[u] = "begin") <=> (\E u \in Task : pc'[u] = "begin")
  BY <1>1
<1> QED
  BY <1>1, <1>2 DEF Update!updateVars, Written

\* Every step is one of ImageUpdate's, or none.
LEMMA UpdateStep ==
  ASSUME LockInv, PoliteInv, AtomicInv, [OtaNext]_otaVars, env.polite
  PROVE  [Update!UpdateNext]_(Update!updateVars)
<1>0. /\ SessionOwned /\ SentOnlyInSession /\ Counted /\ BootKept /\ OtaTypeOK
      /\ OwnImage /\ RestartsSwitched
      /\ core \in CoreType /\ \A t \in Task : sent[t] \in -1..Chunks /\ ~AtWill(t)
      /\ \A t \in Task : t # Free
  BY OtaAssumption DEF PoliteInv, AtomicInv, LockInv, OtaTypeOK, CoreType, AtWill, Free
<1>f. \A x : /\ LET c == [core EXCEPT !.state = x]
                 IN c.flash = core.flash /\ c.boot = core.boot /\ c.mtx = core.mtx
             /\ LET c == [core EXCEPT !.open = x]
                 IN c.flash = core.flash /\ c.boot = core.boot /\ c.mtx = core.mtx
             /\ LET c == [core EXCEPT !.progress = x]
                 IN c.flash = core.flash /\ c.boot = core.boot /\ c.mtx = core.mtx
  BY <1>0 DEF CoreType
<1>b. ASSUME NEW t \in Task, core.mtx = t, pc[t] \notin {"done", "restart"} PROVE ~core.boot
  BY <1>0, <1>b DEF BootKept
<1>1. ASSUME NEW t \in Task, Begin(t) PROVE Update!Open(t)
  <2>1. /\ core.mtx = Free /\ pc'[t] = "begin" /\ core' = [core EXCEPT !.mtx = t]
    BY <1>0, <1>1, OthersStay DEF Begin
  <2>2. core'.mtx = t /\ core'.boot = core.boot
    BY <1>0, <2>1 DEF CoreType
  <2>3. Written = << >> /\ Written' = << >>
    BY <2>1 DEF Written
  <2> QED
    BY <2>1, <2>2, <2>3 DEF Update!Open
<1>2. ASSUME NEW t \in Task, Write(t) \/ End(t) PROVE UNCHANGED Update!updateVars
  <2>1. \/ Step(t, "idle", "write", core, sent[t]) \/ Step(t, "idle", "end", core, sent[t])
        \/ Step(t, "idle", "idle", core, -1)
    BY <1>2 DEF Write, End, Checked
  <2> QED
    BY <1>0, <2>1, UnseenStep
<1>3. ASSUME NEW t \in Task, FlashBegin(t)
      PROVE  Update!Discard \/ UNCHANGED Update!updateVars
  <2>1. pc[t] = "begin" /\ core.mtx = t /\ ~core.boot /\ Written = << >>
    BY <1>0, <1>3, <1>b DEF FlashBegin, Step, SessionOwned, Written
  <2>2. CASE Step(t, "begin", "progress", [core EXCEPT !.open = TRUE, !.flash = <<>>], sent[t])
    <3>1. core' = [core EXCEPT !.open = TRUE, !.flash = <<>>]
      BY <1>0, <2>2, OthersStay
    <3>2. core'.mtx = core.mtx /\ core'.boot = core.boot /\ core'.flash = << >>
      BY <1>0, <3>1 DEF CoreType
    <3> QED
      BY <2>1, <3>2 DEF Update!updateVars, Written
  <2>3. CASE Step(t, "begin", "begin_error", [core EXCEPT !.mtx = Free], sent[t])
    <3>1. core' = [core EXCEPT !.mtx = Free]
      BY <1>0, <2>3, OthersStay
    <3>2. core'.mtx = Free /\ core'.boot = core.boot
      BY <1>0, <3>1 DEF CoreType
    <3> QED
      BY <2>1, <3>2 DEF Update!Discard, Written
  <2> QED
    BY <1>3, <2>2, <2>3 DEF FlashBegin
<1>4. ASSUME NEW t \in Task, FlashWrite(t)
      PROVE  Update!Extend \/ UNCHANGED Update!updateVars
  <2>1. CASE Step(t, "write", "write_error", core, -1)
    BY <1>0, <2>1, UnseenStep
  <2>2. CASE UpdateExtends(t)
    <3>1. /\ pc[t] = "write" /\ pc'[t] = "add" /\ core.mtx = t
          /\ core' = [core EXCEPT !.flash = Append(core.flash, <<t, sent[t] + 1>>)]
          /\ sent[t] \in Nat /\ sent[t] # -1
          /\ \A u \in Task : u # t => pc'[u] = pc[u]
      BY <2>2, OtaAssumption DEF UpdateExtends
    <3>2. /\ core'.mtx = t /\ core'.boot = core.boot
          /\ core'.flash = Append(core.flash, <<t, sent[t] + 1>>)
      BY <1>0, <3>1 DEF CoreType
    <3>3. Len(core.flash) = sent[t]
      <4>1. core.flash = Prefix(t, sent[t])
        BY <1>0, <3>1 DEF OwnImage
      <4>2. sent[t] \in Nat
        BY <3>1
      <4>3. Len(Prefix(t, sent[t])) = sent[t]
        BY <4>2, PrefixIs
      <4> QED
        BY <4>1, <4>3
    <3>4. Written = core.flash
      BY <3>1, WrittenIs
    <3>5. \A u \in Task : pc'[u] # "begin"
      BY <1>0, <3>1 DEF SessionOwned
    <3>6. Written' = core'.flash
      BY <1>0, <3>2, <3>5 DEF Written
    <3>7. ~core.boot
      BY <1>b, <3>1
    <3>8. core'.flash = Append(Written, <<core.mtx, Len(Written) + 1>>)
      BY <3>1, <3>2, <3>3, <3>4
    <3> QED
      BY <3>1, <3>2, <3>6, <3>7, <3>8 DEF Update!Extend
  <2> QED
    BY <1>4, <2>1, <2>2, WriteExtends
<1>5. ASSUME NEW t \in Task,
             \/ BeginError(t) \/ ClearProgress(t) \/ StartWriting(t) \/ AddProgress(t)
             \/ WriteError(t) \/ WriteAbort(t) \/ EndError(t) \/ AbortHandle(t)
             \/ AbortIdle(t) \/ Done(t)
      PROVE  UNCHANGED Update!updateVars
  BY <1>0, <1>5, <1>f, UnseenStep DEF BeginError, ClearProgress, StartWriting, AddProgress,
     WriteError, WriteAbort, EndError, AbortHandle, AbortIdle, Done, Store, CloseHandle
<1>6. ASSUME NEW t \in Task, FlashEnd(t) PROVE UNCHANGED Update!updateVars
  BY <1>0, <1>6, <1>f, UnseenStep DEF FlashEnd
<1>7. ASSUME NEW t \in Task, SetBoot(t)
      PROVE  Update!Commit \/ UNCHANGED Update!updateVars
  <2>1. CASE Verified /\ Step(t, "boot", "done", [core EXCEPT !.boot = TRUE], -1)
    <3>1. /\ pc[t] = "boot" /\ pc'[t] = "done" /\ core' = [core EXCEPT !.boot = TRUE]
          /\ \A u \in Task : u # t => pc'[u] = pc[u]
      BY <1>0, <2>1, OthersStay
    <3>2. core'.mtx = core.mtx /\ core'.boot /\ core'.boot = TRUE /\ core'.flash = core.flash
      BY <1>0, <3>1 DEF CoreType
    <3>3. core.mtx = t
      BY <1>0, <3>1 DEF SessionOwned
    <3>4. Written = core.flash
      BY <3>1, <3>3, WrittenIs
    <3>5. \A u \in Task : pc'[u] # "begin"
      BY <1>0, <3>1, <3>3 DEF SessionOwned
    <3>6. Written' = core.flash
      BY <1>0, <3>2, <3>3, <3>5 DEF Written
    <3>7. Len(core.flash) = Chunks
      <4>1. PICK u \in Task : core.flash = Prefix(u, Chunks)
        BY <2>1 DEF Verified, Prefix
      <4> QED
        BY <4>1, PrefixIs, OtaAssumption
    <3> QED
      BY <3>2, <3>3, <3>4, <3>6, <3>7 DEF Update!Commit
  <2>2. CASE Step(t, "boot", "end_error", core, -1)
    BY <1>0, <2>2, UnseenStep
  <2> QED
    BY <1>7, <2>1, <2>2 DEF SetBoot
<1>8. ASSUME NEW t \in Task, Give(t) PROVE Update!Discard
  <2>1. pc[t] = "give" /\ core' = [core EXCEPT !.mtx = Free]
    BY <1>0, <1>8, OthersStay DEF Give
  <2>2. core.mtx = t /\ ~core.boot
    BY <1>0, <1>b, <2>1 DEF SessionOwned
  <2>3. core'.mtx = Free /\ core'.boot = core.boot
    BY <1>0, <2>1 DEF CoreType
  <2> QED
    BY <2>2, <2>3 DEF Update!Discard, Written
<1>9. ASSUME RecvFails \/ HostGone PROVE UNCHANGED Update!updateVars
  <2>1. RecvFails
    BY <1>9 DEF HostGone
  <2>2. \/ Step(Http, "idle", "abort", core, -1) \/ Step(Http, "idle", "abort_idle", core, -1)
    BY <2>1 DEF RecvFails
  <2> QED
    BY <1>0, <2>1, <2>2, UnseenStep DEF RecvFails
<1>10. ASSUME Restart PROVE Update!Reboot
  <2>1. \E t \in Task : pc[t] = "restart"
    BY <1>0, <1>10 DEF Restart, SessionOwned
  <2>2. core.boot
    BY <1>0, <2>1 DEF RestartsSwitched
  <2>3. core' = InitCore
    BY <1>10 DEF Restart
  <2> QED
    BY <2>2, <2>3 DEF Update!Reboot, Written, InitCore
<1>11. CASE UNCHANGED otaVars
  BY <1>11 DEF otaVars, Update!updateVars, Written
<1> QED
  BY <1>1, <1>2, <1>3, <1>4, <1>5, <1>6, <1>7, <1>8, <1>9, <1>10, <1>11
     DEF OtaNext, TaskStep, Update!UpdateNext

\* ota_core.c implements the transaction that ota_core.h promises, beside a
\* CDC host that keeps to the protocol: for images of any length, whichever
\* functions fail and wherever the HTTP body breaks off.
THEOREM OtaImplementsUpdate == OtaSpec => UpdatesAreAtomic
<1>1. OtaInit => Update!UpdateInit
  BY DEF OtaInit, InitCore, Update!UpdateInit, Written
<1>2. LockInv /\ PoliteInv /\ AtomicInv /\ [OtaNext]_otaVars
        => [env.polite => Update!UpdateNext]_(Update!updateVars)
  BY UpdateStep
<1> QED
  BY AtomicInvariant, <1>1, <1>2, PTL DEF OtaSpec, UpdatesAreAtomic

=============================================================================
