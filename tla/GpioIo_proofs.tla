---------------------------- MODULE GpioIo_proofs ----------------------------
(***************************************************************************)
(* Proofs about GpioIo, for every set of pins and of input modes.          *)
(*                                                                         *)
(* TypeStep and OwnStep are the two inductive steps: the types, and the    *)
(* ownership of a pin by at most one of its three writers (control task,   *)
(* armed timer, callback) together with what the owner still has to do.    *)
(* The theorems at the end read the properties of GpioIo off them.         *)
(***************************************************************************)
EXTENDS GpioIo, TLAPS

\* The conjuncts of IInv that say who owns a pin and what it still has to do.
Owners ==
  /\ ArmedOwns /\ CbOwns
  /\ SettingOwns /\ PulsingOwns /\ PowerOwns
  /\ PollSawInput

\* The conjuncts of IInv that are properties of GpioIo.
Claims == PulseHasEnd /\ SettledPadMatches /\ PowerMatches

-----------------------------------------------------------------------------
(* Typing.                                                                 *)

\* The program counters of the control task, spelled out.
LEMMA CtlPCs ==
  CtlPC = {"idle", "power", "config", "drive", "publish",
           "burst", "mark", "arm", "restore", "unmark"}
BY DEF CtlPC, CtlSetting, CtlPulsing

\* MAKE_STATE of well-typed parts is a well-typed word.
LEMMA WordTyping == \A m \in Mode, l \in Level, p \in 0..1 : MakeState(m, l, p) \in WordType
BY DEF MakeState, WordType

\* The level opposite to a level is a level.
LEMMA FlipTyping == \A l \in Level : Flip(l) \in Level
BY DEF Flip, Level

\* Every step of the three tasks keeps every variable in its type.
LEMMA TypeStep == ASSUME TypeOK, [Next]_vars PROVE TypeOK'
<1> USE ConstAssumption, CtlPCs, FlipTyping DEF TypeOK, Goto, CtlDone, PollDone, Drive
<1>1. ASSUME NEW i \in Pin, NEW m \in Mode, SetMode(i, m)
      PROVE  TypeOK'
  <2>1. ctl' \in CtlType
    BY <1>1 DEF SetMode, CtlType, WordType, Level, Mode
  <2>. QED
    BY <1>1, <2>1 DEF SetMode
<1>2. ASSUME NEW i \in Pin, NEW l \in Level, SetLevel(i, l)
      PROVE  TypeOK'
  <2>1. ctl' \in CtlType
    BY <1>2 DEF SetLevel, CtlType, WordType, Level, Mode
  <2>. QED
    BY <1>2, <2>1 DEF SetLevel
<1>3. ASSUME NEW i \in Pin, Pulse(i)
      PROVE  TypeOK'
  <2>1. ctl' \in CtlType
    BY <1>3 DEF Pulse, CtlType, WordType, Level, Mode
  <2>. QED
    BY <1>3, <2>1 DEF Pulse
<1>4. ASSUME NEW l \in Level, SetPower(l)
      PROVE  TypeOK'
  <2>1. ctl' \in CtlType
    BY <1>4 DEF SetPower, CtlType, WordType, Level, Mode
  <2>. QED
    BY <1>4, <2>1 DEF SetPower, CtlType, Level
<1>5. ASSUME ApplyModeToHw
      PROVE  TypeOK'
  <2>1. ctl' \in CtlType
    BY <1>5 DEF ApplyModeToHw, CtlType, WordType, Level, Mode
  <2>2. pad' \in [Pin -> PadType]
    BY <1>5 DEF ApplyModeToHw, CtlType, CbType, PadType
  <2>. QED
    BY <1>5, <2>1, <2>2 DEF ApplyModeToHw
<1>6. ASSUME DriveLevel
      PROVE  TypeOK'
  <2>1. ctl' \in CtlType
    BY <1>6 DEF DriveLevel, CtlType, WordType, Level, Mode
  <2>2. pad' \in [Pin -> PadType]
    BY <1>6 DEF DriveLevel, CtlType, CbType, PadType
  <2>. QED
    BY <1>6, <2>1, <2>2 DEF DriveLevel
<1>7. ASSUME PublishWord
      PROVE  TypeOK'
  <2>1. ctl' \in CtlType
    BY <1>7 DEF PublishWord, CtlType, WordType, Level, Mode
  <2>2. word' \in [Pin -> WordType]
    BY <1>7, WordTyping DEF PublishWord, CtlType, CbType, PollType, WordType, Mode
  <2>. QED
    BY <1>7, <2>1, <2>2 DEF PublishWord
<1>8. ASSUME PulseBurst
      PROVE  TypeOK'
  <2>1. ctl' \in CtlType
    BY <1>8 DEF PulseBurst, CtlType, WordType, Level, Mode
  <2>2. pad' \in [Pin -> PadType]
    BY <1>8 DEF PulseBurst, CtlType, CbType, PadType
  <2>. QED
    BY <1>8, <2>1, <2>2 DEF PulseBurst
<1>9. ASSUME PulseMark
      PROVE  TypeOK'
  <2>1. ctl' \in CtlType
    BY <1>9 DEF PulseMark, CtlType, WordType, Level, Mode
  <2>2. word' \in [Pin -> WordType]
    BY <1>9, WordTyping DEF PulseMark, CtlType, CbType, PollType, WordType, Mode
  <2>. QED
    BY <1>9, <2>1, <2>2 DEF PulseMark
<1>10. ASSUME PulseArm
      PROVE  TypeOK'
  <2>1. ctl' \in CtlType
    BY <1>10 DEF PulseArm, CtlType, WordType, Level, Mode
  <2>. QED
    BY <1>10, <2>1 DEF PulseArm
<1>11. ASSUME PulseRestore
      PROVE  TypeOK'
  <2>1. ctl' \in CtlType
    BY <1>11 DEF PulseRestore, CtlType, WordType, Level, Mode
  <2>2. pad' \in [Pin -> PadType]
    BY <1>11 DEF PulseRestore, CtlType, CbType, PadType
  <2>. QED
    BY <1>11, <2>1, <2>2 DEF PulseRestore
<1>12. ASSUME PulseUnmark
      PROVE  TypeOK'
  <2>1. ctl' \in CtlType
    BY <1>12 DEF PulseUnmark, CtlType, WordType, Level, Mode
  <2>2. word' \in [Pin -> WordType]
    BY <1>12, WordTyping DEF PulseUnmark, CtlType, CbType, PollType, WordType, Mode
  <2>. QED
    BY <1>12, <2>1, <2>2 DEF PulseUnmark
<1>13. ASSUME StorePower
      PROVE  TypeOK'
  <2>1. ctl' \in CtlType
    BY <1>13 DEF StorePower, CtlType, WordType, Level, Mode
  <2>. QED
    BY <1>13, <2>1 DEF StorePower, CtlType, Level
<1>14. ASSUME NEW i \in Pin, PulseExpire(i)
      PROVE  TypeOK'
  <2>1. cb' \in CbType
    BY <1>14 DEF PulseExpire, CbType, CbPC, WordType, Level
  <2>. QED
    BY <1>14, <2>1 DEF PulseExpire
<1>15. ASSUME PulseDoneLoad
      PROVE  TypeOK'
  <2>1. cb' \in CbType
    BY <1>15 DEF PulseDoneLoad, CbType, CbPC, WordType, Level
  <2>. QED
    BY <1>15, <2>1 DEF PulseDoneLoad
<1>16. ASSUME PulseDoneDrive
      PROVE  TypeOK'
  <2>1. cb' \in CbType
    BY <1>16 DEF PulseDoneDrive, CbType, CbPC, WordType, Level
  <2>2. pad' \in [Pin -> PadType]
    BY <1>16 DEF PulseDoneDrive, CtlType, CbType, PadType
  <2>. QED
    BY <1>16, <2>1, <2>2 DEF PulseDoneDrive
<1>17. ASSUME PulseDonePublish
      PROVE  TypeOK'
  <2>1. cb' \in CbType
    BY <1>17 DEF PulseDonePublish, CbType, CbPC, WordType, Level
  <2>2. word' \in [Pin -> WordType]
    BY <1>17, WordTyping DEF PulseDonePublish, CtlType, CbType, PollType, WordType, Mode
  <2>. QED
    BY <1>17, <2>1, <2>2 DEF PulseDonePublish
<1>18. ASSUME NEW i \in Pin, PollLoad(i)
      PROVE  TypeOK'
  <2>1. poll' \in PollType
    BY <1>18, WordTyping DEF PollLoad, PollType, PollPC, WordType, Mode, Level
  <2>. QED
    BY <1>18, <2>1 DEF PollLoad
<1>19. ASSUME NEW l \in Level, PollSample(l)
      PROVE  TypeOK'
  <2>1. poll' \in PollType
    BY <1>19, WordTyping DEF PollSample, PollType, PollPC, WordType, Mode, Level
  <2>. QED
    BY <1>19, <2>1 DEF PollSample
<1>20. ASSUME PollCas
      PROVE  TypeOK'
  <2>1. poll' \in PollType
    BY <1>20, WordTyping DEF PollCas, PollType, PollPC, WordType, Mode, Level
  <2>2. word' \in [Pin -> WordType]
    BY <1>20, WordTyping DEF PollCas, CtlType, CbType, PollType, WordType, Mode
  <2>. QED
    BY <1>20, <2>1, <2>2 DEF PollCas
<1>21. CASE UNCHANGED vars
  BY <1>21 DEF vars
<1>. QED
  BY <1>1, <1>2, <1>3, <1>4, <1>5, <1>6, <1>7, <1>8, <1>9, <1>10, <1>11, <1>12, <1>13, <1>14, <1>15, <1>16, <1>17, <1>18, <1>19, <1>20, <1>21
     DEF Next, CtlCall, CtlStep, CbStep, PollStep

-----------------------------------------------------------------------------
(* Ownership.                                                              *)

\* Every step keeps the owners of the pins apart and every claim of IInv.
LEMMA OwnStep == ASSUME IInv, [Next]_vars PROVE (Owners /\ Claims)'
<1> USE ConstAssumption
    DEF TypeOK, WordType, PadType, CtlType, CbType, PollType, Level, Mode,
        CtlSetting, CtlPulsing, MakeState, Flip, Goto, CtlDone, PollDone, Drive,
        CtlOn, CbOn, PadMatches
<1> USE DEF IInv, Owners, ArmedOwns, CbOwns, SettingOwns, PulsingOwns, PowerOwns,
        PollSawInput, Claims, PulseHasEnd, SettledPadMatches, PowerMatches
<1>1. ASSUME NEW i \in Pin, NEW m \in Mode, SetMode(i, m)
      PROVE  (Owners /\ Claims)'
  <2>1. Owners'
    BY <1>1 DEF SetMode
  <2>2. PulseHasEnd'
    BY <1>1 DEF SetMode
  <2>3. (SettledPadMatches /\ PowerMatches)'
    BY <1>1 DEF SetMode
  <2>. QED
    BY <2>1, <2>2, <2>3
<1>2. ASSUME NEW i \in Pin, NEW l \in Level, SetLevel(i, l)
      PROVE  (Owners /\ Claims)'
  <2>1. Owners'
    BY <1>2 DEF SetLevel
  <2>2. PulseHasEnd'
    BY <1>2 DEF SetLevel
  <2>3. (SettledPadMatches /\ PowerMatches)'
    BY <1>2 DEF SetLevel
  <2>. QED
    BY <2>1, <2>2, <2>3
<1>3. ASSUME NEW i \in Pin, Pulse(i)
      PROVE  (Owners /\ Claims)'
  <2>1. Owners'
    BY <1>3 DEF Pulse
  <2>2. PulseHasEnd'
    BY <1>3 DEF Pulse
  <2>3. (SettledPadMatches /\ PowerMatches)'
    BY <1>3 DEF Pulse
  <2>. QED
    BY <2>1, <2>2, <2>3
<1>4. ASSUME NEW l \in Level, SetPower(l)
      PROVE  (Owners /\ Claims)'
  BY <1>4 DEF SetPower
<1>5. ASSUME ApplyModeToHw
      PROVE  (Owners /\ Claims)'
  <2>1. Owners'
    BY <1>5 DEF ApplyModeToHw
  <2>2. PulseHasEnd'
    BY <1>5 DEF ApplyModeToHw
  <2>3. (SettledPadMatches /\ PowerMatches)'
    BY <1>5 DEF ApplyModeToHw
  <2>. QED
    BY <2>1, <2>2, <2>3
<1>6. ASSUME DriveLevel
      PROVE  (Owners /\ Claims)'
  <2>1. Owners'
    BY <1>6 DEF DriveLevel
  <2>2. PulseHasEnd'
    BY <1>6 DEF DriveLevel
  <2>3. (SettledPadMatches /\ PowerMatches)'
    BY <1>6 DEF DriveLevel
  <2>. QED
    BY <2>1, <2>2, <2>3
<1>7. ASSUME PublishWord
      PROVE  (Owners /\ Claims)'
  <2>1. Owners'
    BY <1>7 DEF PublishWord
  <2>2. PulseHasEnd'
    BY <1>7 DEF PublishWord
  <2>3. (SettledPadMatches /\ PowerMatches)'
    BY <1>7 DEF PublishWord
  <2>. QED
    BY <2>1, <2>2, <2>3
<1>8. ASSUME PulseBurst
      PROVE  (Owners /\ Claims)'
  <2>1. Owners'
    BY <1>8 DEF PulseBurst
  <2>2. PulseHasEnd'
    BY <1>8 DEF PulseBurst
  <2>3. (SettledPadMatches /\ PowerMatches)'
    BY <1>8 DEF PulseBurst
  <2>. QED
    BY <2>1, <2>2, <2>3
<1>9. ASSUME PulseMark
      PROVE  (Owners /\ Claims)'
  <2>1. Owners'
    BY <1>9 DEF PulseMark
  <2>2. PulseHasEnd'
    BY <1>9 DEF PulseMark
  <2>3. (SettledPadMatches /\ PowerMatches)'
    BY <1>9 DEF PulseMark
  <2>. QED
    BY <2>1, <2>2, <2>3
<1>10. ASSUME PulseArm
      PROVE  (Owners /\ Claims)'
  <2>1. Owners'
    BY <1>10 DEF PulseArm
  <2>2. PulseHasEnd'
    BY <1>10 DEF PulseArm
  <2>3. (SettledPadMatches /\ PowerMatches)'
    BY <1>10 DEF PulseArm
  <2>. QED
    BY <2>1, <2>2, <2>3
<1>11. ASSUME PulseRestore
      PROVE  (Owners /\ Claims)'
  <2>1. Owners'
    BY <1>11 DEF PulseRestore
  <2>2. PulseHasEnd'
    BY <1>11 DEF PulseRestore
  <2>3. (SettledPadMatches /\ PowerMatches)'
    BY <1>11 DEF PulseRestore
  <2>. QED
    BY <2>1, <2>2, <2>3
<1>12. ASSUME PulseUnmark
      PROVE  (Owners /\ Claims)'
  <2>1. Owners'
    BY <1>12 DEF PulseUnmark
  <2>2. PulseHasEnd'
    BY <1>12 DEF PulseUnmark
  <2>3. (SettledPadMatches /\ PowerMatches)'
    BY <1>12 DEF PulseUnmark
  <2>. QED
    BY <2>1, <2>2, <2>3
<1>13. ASSUME StorePower
      PROVE  (Owners /\ Claims)'
  BY <1>13 DEF StorePower
<1>14. ASSUME NEW i \in Pin, PulseExpire(i)
      PROVE  (Owners /\ Claims)'
  <2>1. Owners'
    BY <1>14 DEF PulseExpire
  <2>2. PulseHasEnd'
    BY <1>14 DEF PulseExpire
  <2>3. (SettledPadMatches /\ PowerMatches)'
    BY <1>14 DEF PulseExpire
  <2>. QED
    BY <2>1, <2>2, <2>3
<1>15. ASSUME PulseDoneLoad
      PROVE  (Owners /\ Claims)'
  BY <1>15 DEF PulseDoneLoad
<1>16. ASSUME PulseDoneDrive
      PROVE  (Owners /\ Claims)'
  <2>1. Owners'
    BY <1>16 DEF PulseDoneDrive
  <2>2. PulseHasEnd'
    BY <1>16 DEF PulseDoneDrive
  <2>3. (SettledPadMatches /\ PowerMatches)'
    BY <1>16 DEF PulseDoneDrive
  <2>. QED
    BY <2>1, <2>2, <2>3
<1>17. ASSUME PulseDonePublish
      PROVE  (Owners /\ Claims)'
  <2>1. Owners'
    BY <1>17 DEF PulseDonePublish
  <2>2. PulseHasEnd'
    BY <1>17 DEF PulseDonePublish
  <2>3. (SettledPadMatches /\ PowerMatches)'
    BY <1>17 DEF PulseDonePublish
  <2>. QED
    BY <2>1, <2>2, <2>3
<1>18. ASSUME NEW i \in Pin, PollLoad(i)
      PROVE  (Owners /\ Claims)'
  BY <1>18 DEF PollLoad
<1>19. ASSUME NEW l \in Level, PollSample(l)
      PROVE  (Owners /\ Claims)'
  BY <1>19 DEF PollSample
<1>20. ASSUME PollCas
      PROVE  (Owners /\ Claims)'
  <2>1. Owners'
    BY <1>20 DEF PollCas
  <2>2. PulseHasEnd'
    BY <1>20 DEF PollCas
  <2>3. (SettledPadMatches /\ PowerMatches)'
    BY <1>20 DEF PollCas
  <2>. QED
    BY <2>1, <2>2, <2>3
<1>21. CASE UNCHANGED vars
  BY <1>21 DEF vars
<1>. QED
  BY <1>1, <1>2, <1>3, <1>4, <1>5, <1>6, <1>7, <1>8, <1>9, <1>10, <1>11, <1>12, <1>13, <1>14, <1>15, <1>16, <1>17, <1>18, <1>19, <1>20, <1>21
     DEF Next, CtlCall, CtlStep, CbStep, PollStep

-----------------------------------------------------------------------------
(* The theorems.                                                           *)

\* gpio_io_init leaves every pin at rest: the inductive invariant holds.
LEMMA InitIInv == Init => IInv
<1> SUFFICES ASSUME Init PROVE IInv
  OBVIOUS
<1> USE ConstAssumption
    DEF Init, BootMode, MakeState, TypeOK, WordType, PadType, CtlType, CbType, PollType,
        CtlPC, CtlSetting, CtlPulsing, CbPC, PollPC, Level, Mode
<1>1. ctl \in CtlType
  OBVIOUS
<1>2. TypeOK
  BY <1>1
<1>3. Owners
  BY DEF Owners, ArmedOwns, CbOwns, SettingOwns, PulsingOwns, PowerOwns, PollSawInput
<1>4. Claims
  BY DEF Claims, PulseHasEnd, SettledPadMatches, PadMatches, PowerMatches
<1>. QED
  BY <1>2, <1>3, <1>4 DEF IInv, Owners, Claims

\* The variables of gpio_io.c always have their types: in particular a state
\* word never holds anything but a mode, a level bit and a pulsing bit.
THEOREM TypeCorrect == Spec => []TypeOK
<1>1. Init => TypeOK
  BY InitIInv DEF IInv
<1>2. TypeOK /\ [Next]_vars => TypeOK'
  BY TypeStep
<1>. QED
  BY <1>1, <1>2, PTL DEF Spec

\* At most one of the control task, the armed timer and the callback works on
\* a pin, and it knows the level the pin has to return to.
THEOREM Ownership == Spec => []IInv
<1>1. IInv /\ [Next]_vars => IInv'
  <2> SUFFICES ASSUME IInv, [Next]_vars PROVE IInv'
    OBVIOUS
  <2>1. TypeOK'
    BY TypeStep DEF IInv
  <2>2. (Owners /\ Claims)'
    BY OwnStep
  <2>. QED
    BY <2>1, <2>2 DEF IInv, Owners, Claims
<1>. QED
  BY InitIInv, <1>1, PTL DEF Spec

\* gpio_io_pulse never leaves a pin marked as pulsing with nobody to end it.
THEOREM NoStuckPulse == Spec => []PulseHasEnd
<1>1. IInv => PulseHasEnd
  BY DEF IInv
<1>. QED
  BY <1>1, Ownership, PTL

\* Between the calls on a pin, telemetry reports the direction and the level
\* that the pad really has, however the poll task interleaves.
THEOREM TelemetryTrue == Spec => [](SettledPadMatches /\ PowerMatches)
<1>1. IInv => SettledPadMatches /\ PowerMatches
  BY DEF IInv
<1>. QED
  BY <1>1, Ownership, PTL

\* A pulse ends only with its idle level back on the pad, mode and level bits
\* of the word untouched.
THEOREM PulseRestores == Spec => PulseEndsRestored
<1> DEFINE Restored(i) ==
      /\ word'[i] = [word[i] EXCEPT !.pulsing = 0]
      /\ pad[i].latch = word[i].level
<1>1. ASSUME IInv, [Next]_vars, NEW i \in Pin, word[i].pulsing = 1, word'[i] # word[i]
      PROVE  Restored(i)
  <2> USE <1>1, ConstAssumption
      DEF IInv, TypeOK, WordType, PadType, CtlType, CbType, PollType, Level, Mode, MakeState
  <2>1. CASE PublishWord
    BY <2>1 DEF PublishWord, SettingOwns, CtlSetting
  <2>2. CASE PulseMark
    BY <2>2 DEF PulseMark, PulsingOwns, CtlPulsing
  <2>3. CASE PulseUnmark
    BY <2>3 DEF PulseUnmark, PulsingOwns, CtlPulsing
  <2>4. CASE PulseDonePublish
    <3>1. i = cb.pin /\ cb.level = word[i].level /\ pad[i].latch = word[i].level
      BY <2>4 DEF PulseDonePublish, CbOwns
    <3>2. word[i].mode = Output
      BY DEF PulseHasEnd
    <3>. QED
      BY <2>4, <3>1, <3>2 DEF PulseDonePublish
  <2>5. CASE PollCas
    BY <2>5 DEF PollCas, PollSawInput
  <2>6. CASE UNCHANGED word
    BY <2>6
  <2>. QED
    BY <2>1, <2>2, <2>3, <2>4, <2>5, <2>6
       DEF Next, CtlCall, CtlStep, CbStep, PollStep, vars, SetMode, SetLevel, Pulse,
           SetPower, ApplyModeToHw, DriveLevel, PulseBurst, PulseArm, PulseRestore,
           StorePower, PulseExpire, PulseDoneLoad, PulseDoneDrive, PollLoad, PollSample
<1>2. IInv /\ [Next]_vars =>
        [\A i \in Pin : word[i].pulsing = 1 /\ word'[i] # word[i] => Restored(i)]_vars
  BY <1>1
<1>. QED
  BY <1>2, Ownership, PTL DEF Spec, PulseEndsRestored

\* The compare-and-swap of the poll task only ever replaces the level of an
\* input word that still is what the task sampled.
THEOREM PollRespectsControl == Spec => PollKeepsMode
<1> DEFINE Kept(i) ==
      /\ word[i].mode # Output
      /\ word'[i] = [word[i] EXCEPT !.level = Flip(@)]
<1>1. ASSUME IInv, PollStep, NEW i \in Pin, word'[i] # word[i]
      PROVE  Kept(i)
  <2>1. PollCas /\ i = poll.pin /\ word[i] = poll.seen
    BY <1>1 DEF PollStep, PollLoad, PollSample, PollCas, IInv, TypeOK
  <2>2. word'[i] = [word[i] EXCEPT !.level = poll.level]
    <3>1. word[i] \in WordType
      BY <1>1 DEF IInv, TypeOK
    <3>2. word'[i] = MakeState(word[i].mode, poll.level, word[i].pulsing)
      BY <1>1, <2>1 DEF PollCas, IInv, TypeOK
    <3>. QED
      BY <3>1, <3>2 DEF MakeState, WordType
  <2>3. poll.level = Flip(word[i].level)
    BY <1>1, <2>1, <2>2 DEF IInv, TypeOK, WordType, PollType, Level, Flip
  <2>4. word[i].mode # Output
    BY <1>1, <2>1 DEF IInv, PollSawInput, PollCas
  <2>. QED
    BY <2>2, <2>3, <2>4
<1>2. IInv /\ [Next]_vars =>
        [PollStep => \A i \in Pin : word'[i] # word[i] => Kept(i)]_vars
  BY <1>1
<1>. QED
  BY <1>2, Ownership, PTL DEF Spec, PollKeepsMode
=============================================================================
