---------------------------- MODULE KeyInput_proofs ----------------------------
(***************************************************************************)
(* The safety properties of KeyInput for every set of buttons and host     *)
(* keys, every queue size, clipboard and ROM program.                      *)
(*                                                                         *)
(* The inductive invariant adds to the properties what the two threads     *)
(* have in hand: the emulator thread holds a code exactly while it is in   *)
(* key_event(), a handler of the SDL thread raises the alarm last, and the *)
(* SDL thread saves after the emulator thread has gone.                    *)
(***************************************************************************)
EXTENDS KeyInput, SequenceTheorems, TLAPS

-----------------------------------------------------------------------------
(* What every operation of SaturnKeys preserves: the types, that a pending
   interrupt is masked, and that a set bit is a pressed button. *)

KeysInv == KeysTypeOK /\ PendingIsMasked /\ BitsArePressed

(* The interrupt half of the state is in order after each way the CPU can be
   interrupted (do_interupt, do_kbd_int). *)
IntOK ==
  /\ intenable \in BOOLEAN /\ int_pending \in BOOLEAN
  /\ interrupt_called \in BOOLEAN /\ depth \in 0 .. NR_RSTK
  /\ PendingIsMasked

(* Taking an interrupt turns interrupts off and keeps RSTK within its levels. *)
LEMMA VectorKeeps ==
  ASSUME IntOK, Vector
  PROVE  intenable' = FALSE /\ depth' \in 0 .. NR_RSTK
  BY KeysAssumption DEF IntOK, Vector

(* A timer or serial interrupt leaves the interrupt half in order ... *)
LEMMA DoInteruptKeeps == IntOK /\ DoInterupt => IntOK'
  <1> SUFFICES ASSUME IntOK, DoInterupt PROVE IntOK'
    OBVIOUS
  <1>1. CASE intenable
    BY <1>1, VectorKeeps DEF IntOK, DoInterupt, PendingIsMasked
  <1>2. CASE ~intenable
    BY <1>2 DEF IntOK, DoInterupt, PendingIsMasked
  <1> QED  BY <1>1, <1>2

(* ... and so does a keyboard interrupt, accepted or kept pending. *)
LEMMA DoKbdIntKeeps == IntOK /\ DoKbdInt => IntOK'
  <1> SUFFICES ASSUME IntOK, DoKbdInt PROVE IntOK'
    OBVIOUS
  <1>1. CASE intenable
    BY <1>1, VectorKeeps DEF IntOK, DoKbdInt, PendingIsMasked
  <1>2. CASE ~intenable
    BY <1>2 DEF IntOK, DoKbdInt, PendingIsMasked
  <1> QED  BY <1>1, <1>2

(* The bits of a button are columns of the keyboard, and two buttons never
   own the same bit (the codes of buttons[]). *)
LEMMA BitsAreColumns ==
  ASSUME NEW b \in Button, NEW r \in Row
  PROVE  Bits(b, r) \subseteq Column
  BY DEF Bits, Column

(* No two buttons own the same bit of keybuf. *)
LEMMA BitsAreUnshared ==
  ASSUME NEW b \in Button, NEW c \in Button, NEW r \in Row,
         Bits(b, r) \cap Bits(c, r) # {}
  PROVE  b = c
  <1>1. CASE b = ON \/ c = ON
    BY <1>1, KeysAssumption DEF Bits
  <1>2. CASE b # ON /\ c # ON
    <2>1. Position[b][1] = r /\ Position[c][1] = r /\ Position[b][2] = Position[c][2]
      BY <1>2 DEF Bits
    <2> QED  BY <2>1, <1>2, KeysAssumption
  <1> QED  BY <1>1, <1>2
(* init_saturn() leaves the keyboard and the interrupt system in order. *)
LEMMA KeysStart == KeysInit => KeysInv
  <1> SUFFICES ASSUME KeysInit PROVE KeysInv
    OBVIOUS
  <1>1. \A r \in Row : keybuf[r] = {}
    BY DEF KeysInit
  <1>2. KeysTypeOK /\ PendingIsMasked
    <2>1. depth \in 0 .. NR_RSTK
      BY KeysAssumption DEF KeysInit
    <2>2. keybuf \in [Row -> SUBSET Column]
      BY DEF KeysInit
    <2> QED  BY <2>1, <2>2 DEF KeysInit, KeysTypeOK, PendingIsMasked
  <1> QED  BY <1>1, <1>2 DEF KeysInv, BitsArePressed, IsDown

(* A step that clears bits of keybuf, leaves the flags of the buttons still
   down alone, and keeps the interrupt half in order keeps the invariant. *)
LEMMA ClearingKeeps ==
  ASSUME KeysInv, IntOK',
         keybuf' \in [Row -> SUBSET Column], kbd_ien' \in BOOLEAN,
         first_press' \in BOOLEAN, pressed' \subseteq Button,
         \A r \in Row : keybuf'[r] \subseteq keybuf[r],
         \A b \in pressed : b \notin pressed' => ~IsDown(b)'
  PROVE  KeysInv'
  <1>1. KeysTypeOK' /\ PendingIsMasked'
    BY DEF KeysTypeOK, IntOK
  <1>2. ASSUME NEW b \in Button, IsDown(b)' PROVE b \in pressed'
    <2>1. PICK r \in Row : Bits(b, r) \cap keybuf'[r] # {}
      BY <1>2 DEF IsDown, Bits
    <2>2. IsDown(b)
      BY <2>1 DEF IsDown
    <2> QED  BY <2>2, <1>2 DEF KeysInv, BitsArePressed
  <1> QED  BY <1>1, <1>2 DEF KeysInv, BitsArePressed

(* key_event(b, 1) preserves the invariant. *)
LEMMA KeyPressKeeps ==
  ASSUME KeysInv, NEW b \in Button, KeyPress(b)
  PROVE  KeysInv'
  <1>1. IntOK
    BY DEF KeysInv, KeysTypeOK, IntOK
  <1>2. IntOK'
    BY <1>1, DoKbdIntKeeps DEF KeyPress, intVars, IntOK, PendingIsMasked
  <1>3. keybuf' = [r \in Row |-> keybuf[r] \cup Bits(b, r)]
    BY DEF KeyPress
  <1>4. keybuf' \in [Row -> SUBSET Column]
    BY <1>3, BitsAreColumns DEF KeysInv, KeysTypeOK
  <1>5. KeysTypeOK' /\ PendingIsMasked'
    BY <1>2, <1>4 DEF KeysInv, KeysTypeOK, IntOK, KeyPress
  <1>6. ASSUME NEW c \in Button, IsDown(c)' PROVE c \in pressed'
    <2>1. PICK r \in Row : Bits(c, r) \cap keybuf'[r] # {}
      BY <1>6 DEF IsDown, Bits
    <2>2. CASE Bits(c, r) \cap keybuf[r] # {}
      BY <2>2 DEF IsDown, KeysInv, BitsArePressed, KeyPress
    <2>3. CASE Bits(c, r) \cap keybuf[r] = {}
      <3>1. Bits(c, r) \cap Bits(b, r) # {}
        BY <2>1, <2>3, <1>3
      <3>2. c = b
        BY <3>1, BitsAreUnshared
      <3> QED  BY <3>2 DEF KeyPress
    <2> QED  BY <2>2, <2>3
  <1> QED  BY <1>5, <1>6 DEF KeysInv, BitsArePressed

(* key_event(b, 0) preserves the invariant. *)
LEMMA KeyReleaseKeeps ==
  ASSUME KeysInv, NEW b \in Button, KeyRelease(b)
  PROVE  KeysInv'
  <1>1. keybuf' = [r \in Row |-> IF b = ON THEN {} ELSE keybuf[r] \ Bits(b, r)]
    BY DEF KeyRelease
  <1>2. IntOK'
    BY DEF KeysInv, KeysTypeOK, IntOK, PendingIsMasked, KeyRelease, intVars
  <1>3. keybuf' \in [Row -> SUBSET Column]
    BY <1>1 DEF KeysInv, KeysTypeOK
  <1>4. \A r \in Row : keybuf'[r] \subseteq keybuf[r]
    BY <1>1
  <1>5. ~IsDown(b)'
    BY <1>1 DEF IsDown, Bits
  <1>6. /\ kbd_ien' \in BOOLEAN /\ first_press' \in BOOLEAN
        /\ pressed' \subseteq Button
        /\ \A c \in pressed : c \notin pressed' => c = b
    BY DEF KeysInv, KeysTypeOK, KeyRelease
  <1> QED  BY <1>2, <1>3, <1>4, <1>5, <1>6, ClearingKeeps

(* Every instruction preserves the invariant. *)
LEMMA DoInKeeps ==
  ASSUME KeysInv, NEW out, NEW loop, DoIn(out, loop)
  PROVE  KeysInv'
  <1>1. IntOK'
    BY DEF KeysInv, KeysTypeOK, IntOK, PendingIsMasked, DoIn, intVars
  <1>2. keybuf' \in [Row -> SUBSET Column] /\ \A r \in Row : keybuf'[r] \subseteq keybuf[r]
    BY DEF KeysInv, KeysTypeOK, DoIn
  <1>3. kbd_ien' \in BOOLEAN /\ first_press' \in BOOLEAN /\ pressed' = pressed
    BY DEF KeysInv, KeysTypeOK, DoIn
  <1>4. pressed' \subseteq Button
    BY <1>3 DEF KeysInv, KeysTypeOK
  <1> QED  BY <1>1, <1>2, <1>3, <1>4, ClearingKeeps

(* A step that leaves keybuf and pressed alone preserves the invariant if it
   keeps the interrupt half in order. *)
LEMMA InterruptsKeep ==
  ASSUME KeysInv, IntOK', kbd_ien' \in BOOLEAN, UNCHANGED <<keybuf, pressed, first_press>>
  PROVE  KeysInv'
  BY DEF KeysInv, KeysTypeOK, IntOK, PendingIsMasked, BitsArePressed, IsDown, Bits

(* Every other instruction preserves the invariant. *)
LEMMA InstructionsKeep ==
  ASSUME KeysInv,
         \/ \E on \in BOOLEAN : DoIntOnOff(on)
         \/ DoResetInterruptSystem
         \/ DoReturnInterupt
         \/ \E outZero \in BOOLEAN : ShutdownMask(outZero)
         \/ DoInterupt /\ UNCHANGED keyVars
  PROVE  KeysInv'
  <1>1. IntOK
    BY DEF KeysInv, KeysTypeOK, IntOK
  <1>2. kbd_ien' \in BOOLEAN /\ UNCHANGED <<keybuf, pressed, first_press>>
    BY DEF DoIntOnOff, DoResetInterruptSystem, DoReturnInterupt, ShutdownMask, keyVars,
           KeysInv, KeysTypeOK
  <1>3. IntOK'
    <2>1. CASE \E on \in BOOLEAN : DoIntOnOff(on)
      BY <2>1, <1>1 DEF DoIntOnOff, IntOK, PendingIsMasked, intVars
    <2>2. CASE DoResetInterruptSystem
      BY <2>2, <1>1, DoKbdIntKeeps DEF DoResetInterruptSystem, IntOK, PendingIsMasked, intVars
    <2>3. CASE DoReturnInterupt
      <3>1. depth' = depth \/ depth' = IF depth > 0 THEN depth - 1 ELSE 0
        BY <2>3 DEF DoReturnInterupt
      <3>2. depth' \in 0 .. NR_RSTK
        BY <3>1, <1>1, KeysAssumption DEF IntOK
      <3> QED  BY <3>2, <2>3, <1>1 DEF DoReturnInterupt, IntOK, PendingIsMasked
    <2>4. CASE \E outZero \in BOOLEAN : ShutdownMask(outZero)
      BY <2>4, <1>1 DEF ShutdownMask, IntOK, PendingIsMasked
    <2>5. CASE DoInterupt
      BY <2>5, <1>1, DoInteruptKeeps
    <2> QED  BY <2>1, <2>2, <2>3, <2>4, <2>5
  <1> QED  BY <1>2, <1>3, InterruptsKeep

-----------------------------------------------------------------------------
(* The two threads. *)

InHand == handling = <<>> <=> emu # "event"

AlarmLast == outbox # <<>> /\ clip = <<>> => outbox[Len(outbox)] = Alarm

GoneBeforeSave == sdl = "saved" => emu = "gone"

IInv == /\ KeysInv /\ InputTypeOK /\ EmuTypeOK /\ QueueTypeOK
        /\ InHand /\ AlarmLast /\ NoneUnannounced /\ GoneBeforeSave

(* A code is the press or the release of one button, and neither of them is
   the alarm. *)
LEMMA CodeIsButton ==
  ASSUME NEW c \in Code
  PROVE  /\ c \in Nat /\ c # Alarm
         /\ c >= 100 => c - 100 \in Button
         /\ c < 100 => c - 1 \in Button
  <1>1. PICK b \in Button : c = Press(b) \/ c = Release(b)
    BY KeyInputAssumption
  <1>2. b \in 0 .. 48
    BY KeyInputAssumption
  <1> QED  BY <1>1, <1>2 DEF Press, Release, Alarm

(* Every button has both of its codes. *)
LEMMA ButtonHasCodes ==
  ASSUME NEW b \in Button
  PROVE  Press(b) \in Code /\ Release(b) \in Code
  BY KeyInputAssumption

(* What a handler leaves to send is well typed and ends in an alarm. *)
Filled == outbox \in Seq(Code \cup {Alarm}) /\ AlarmLast

(* A handler that sends nothing leaves the outbox in order ... *)
LEMMA NothingFilled ==
  ASSUME outbox' = <<>>
  PROVE  Filled'
  BY DEF Filled, AlarmLast

(* ... and so does one that sends one code and the alarm ... *)
LEMMA OneCodeFilled ==
  ASSUME NEW c \in Code, outbox' = <<c, Alarm>>
  PROVE  Filled'
  <1>1. outbox' \in Seq(Code \cup {Alarm}) /\ Len(outbox') = 2 /\ outbox'[2] = Alarm
    OBVIOUS
  <1> QED  BY <1>1 DEF Filled, AlarmLast

(* ... or two codes with an alarm after each. *)
LEMMA TwoCodesFilled ==
  ASSUME NEW c \in Code, NEW d \in Code, outbox' = <<c, Alarm, d, Alarm>>
  PROVE  Filled'
  <1>1. outbox' \in Seq(Code \cup {Alarm}) /\ Len(outbox') = 4 /\ outbox'[4] = Alarm
    OBVIOUS
  <1> QED  BY <1>1 DEF Filled, AlarmLast

(* A step in which the queue, got_alarm and the emulator thread do not move
   and no alarm is taken from the outbox announces what was announced. *)
LEMMA StillAnnounced ==
  ASSUME NoneUnannounced, UNCHANGED <<waiting, got_alarm, emu>>,
         AlarmDue => AlarmDue'
  PROVE  NoneUnannounced'
  BY DEF NoneUnannounced

(* The same for a step of the emulator thread: it clears got_alarm only when
   it starts to drain the queue. *)
LEMMA DrainsAnnounced ==
  ASSUME NoneUnannounced, UNCHANGED <<waiting, outbox, clip>>,
         \/ emu \notin {"getevent", "event"} /\ UNCHANGED got_alarm
         \/ emu' \in {"getevent", "event"}
         \/ waiting = <<>>
  PROVE  NoneUnannounced'
  BY DEF NoneUnannounced, AlarmDue

--------------------------------------------------------------------------------
(* Init establishes the invariant. *)
LEMMA InitInv == Init => IInv
  <1> SUFFICES ASSUME Init PROVE IInv
    OBVIOUS
  <1>1. KeysInv
    BY KeysStart DEF Init
  <1>2. InputTypeOK
    <2>1. hold \in 0 .. HOLD
      BY InputAssumption DEF Init, InputInit
    <2>2. clip \in Seq(Char)
      BY DEF Init, InputInit
    <2> QED  BY <2>1, <2>2 DEF Init, InputInit, InputTypeOK
  <1>3. EmuTypeOK /\ InHand /\ GoneBeforeSave
    BY DEF Init, InputInit, FifoInit, EmuTypeOK, InHand, GoneBeforeSave
  <1>4. QueueTypeOK /\ AlarmLast /\ NoneUnannounced
    BY DEF Init, InputInit, FifoInit, QueueTypeOK, AlarmLast, NoneUnannounced
  <1> QED  BY <1>1, <1>2, <1>3, <1>4 DEF IInv

(* A step that leaves the emulated keyboard alone. *)
LEMMA KeyboardUnchanged ==
  ASSUME KeysInv, UNCHANGED satVars
  PROVE  KeysInv'
  BY DEF KeysInv, KeysTypeOK, PendingIsMasked, BitsArePressed, IsDown, Bits,
         satVars, keyVars, intVars

(* The SDL thread's handlers and the rest of its loop. *)
LEMMA HandlerKeeps ==
  ASSUME IInv, Handler \/ LoopTurn
  PROVE  IInv'
  <1> USE DEF Listening
  <1>1. UNCHANGED <<fifoVars, satVars, emuVars>>
    BY DEF Handler, LoopTurn
  <1>2. KeysInv'
    BY <1>1, KeyboardUnchanged DEF IInv
  <1>3. EmuTypeOK' /\ InHand'
    BY <1>1 DEF IInv, EmuTypeOK, InHand, fifoVars, emuVars
  <1>4. outbox = <<>> /\ clip = <<>> /\ sdl = "loop"
    BY DEF Handler, LoopTurn, MouseDown, MouseUp, KeyDown, KeyUp, KeyRepeat, CmdKeyDown,
           ToggleOverlay, Paste, Quit, DeferredRelease, LeaveLoop
  <1>5. NoneUnannounced'
    <2>1. ~AlarmDue
      BY <1>4 DEF AlarmDue
    <2> QED  BY <2>1, <1>1, StillAnnounced DEF IInv, fifoVars, emuVars
  <1>6. InputTypeOK' /\ Filled' /\ sdl' # "saved"
    <2> USE <1>4
    <2>1. InputTypeOK /\ Filled
      BY DEF IInv, QueueTypeOK, Filled
    <2>2. CASE outbox' = <<>> /\ UNCHANGED clip
      <3>1. Filled'
        BY <2>2, NothingFilled
      <3>2. UNCHANGED <<hold, pressed_btn>> /\ sdl' \in {"loop", "join"}
        BY <2>2 DEF Handler, LoopTurn, MouseDown, MouseUp, KeyDown, KeyUp, KeyRepeat,
             CmdKeyDown, ToggleOverlay, Paste, Quit, DeferredRelease, LeaveLoop
      <3>3. /\ exit_state' \in BOOLEAN /\ mouse' \in BOOLEAN /\ overlay' \in BOOLEAN
            /\ pending_release' \in BOOLEAN
            /\ pending_release' => pending_release \/ pressed_btn # NoButton
        <4>1. exit_state' \in BOOLEAN
          BY <2>1, <2>2 DEF Handler, LoopTurn, MouseDown, MouseUp, KeyDown, KeyUp, KeyRepeat,
               CmdKeyDown, ToggleOverlay, Paste, Quit, DeferredRelease, LeaveLoop, InputTypeOK
        <4>2. mouse' \in BOOLEAN
          BY <2>1, <2>2 DEF Handler, LoopTurn, MouseDown, MouseUp, KeyDown, KeyUp, KeyRepeat,
               CmdKeyDown, ToggleOverlay, Paste, Quit, DeferredRelease, LeaveLoop, InputTypeOK
        <4>3. overlay' \in BOOLEAN
          BY <2>1, <2>2 DEF Handler, LoopTurn, MouseDown, MouseUp, KeyDown, KeyUp, KeyRepeat,
               CmdKeyDown, ToggleOverlay, Paste, Quit, DeferredRelease, LeaveLoop, InputTypeOK
        <4>4. pending_release' \in BOOLEAN
          BY <2>1, <2>2 DEF Handler, LoopTurn, MouseDown, MouseUp, KeyDown, KeyUp, KeyRepeat,
               CmdKeyDown, ToggleOverlay, Paste, Quit, DeferredRelease, LeaveLoop, InputTypeOK
        <4>5. pending_release' => pending_release \/ pressed_btn # NoButton
          BY <2>1, <2>2 DEF Handler, LoopTurn, MouseDown, MouseUp, KeyDown, KeyUp, KeyRepeat,
               CmdKeyDown, ToggleOverlay, Paste, Quit, DeferredRelease, LeaveLoop, InputTypeOK
        <4> QED  BY <4>1, <4>2, <4>3, <4>4, <4>5
      <3>4. keys' \subseteq HostKey
        BY <2>1, <2>2 DEF Handler, LoopTurn, MouseDown, MouseUp, KeyDown, KeyUp, KeyRepeat,
             CmdKeyDown, ToggleOverlay, Paste, Quit, DeferredRelease, LeaveLoop, InputTypeOK
      <3>5. InputTypeOK' /\ sdl' # "saved"
        BY <2>1, <2>2, <3>2, <3>3, <3>4 DEF InputTypeOK
      <3> QED  BY <3>1, <3>5
    <2>3. ASSUME NEW b \in Clickable \cup {NoButton}, MouseDown(b), outbox' # <<>>
          PROVE  InputTypeOK' /\ Filled' /\ sdl' # "saved"
      <3>1. b \in Clickable /\ Press(b) \in Code
        BY <2>3, ButtonHasCodes, KeyInputAssumption DEF MouseDown
      <3>2. InputTypeOK' /\ sdl' # "saved"
        <4>1. hold' \in 0 .. HOLD
          BY <2>3, <2>1, InputAssumption DEF MouseDown, InputTypeOK
        <4>2. pressed_btn' = b /\ pending_release' = FALSE
          BY <2>3 DEF MouseDown
        <4>3. b \in Clickable \cup {NoButton} /\ mouse' = TRUE /\ overlay' = FALSE
          BY <2>3 DEF MouseDown
        <4>4. UNCHANGED <<sdl, exit_state, keys, clip>>
          BY <2>3 DEF MouseDown
        <4> QED  BY <4>1, <4>2, <4>3, <4>4, <2>1 DEF InputTypeOK
      <3>3. Filled'
        <4>1. CASE pending_release
          <5>1. pressed_btn \in Clickable /\ Release(pressed_btn) \in Code
            BY <4>1, <2>1, ButtonHasCodes, KeyInputAssumption DEF InputTypeOK
          <5>2. outbox' = <<Release(pressed_btn), Alarm, Press(b), Alarm>>
            BY <4>1, <2>3 DEF MouseDown
          <5> QED  BY <5>1, <5>2, <3>1, TwoCodesFilled
        <4>2. CASE ~pending_release
          <5>1. outbox' = <<Press(b), Alarm>>
            BY <4>2, <2>3 DEF MouseDown
          <5> QED  BY <5>1, <3>1, OneCodeFilled
        <4> QED  BY <4>1, <4>2
      <3> QED  BY <3>2, <3>3
    <2>4. ASSUME NEW k \in HostKey, KeyDown(k) \/ KeyUp(k), outbox' # <<>>
          PROVE  InputTypeOK' /\ Filled' /\ sdl' # "saved"
      <3>1. Keysym[k] \in Button
        BY KeyInputAssumption
      <3>2. PICK c \in Code : outbox' = <<c, Alarm>>
        BY <2>4, <3>1, ButtonHasCodes DEF KeyDown, KeyUp
      <3>3. InputTypeOK' /\ sdl' # "saved"
        <4>1. keys' \subseteq HostKey
          BY <2>4, <2>1 DEF KeyDown, KeyUp, InputTypeOK
        <4>2. overlay' \in BOOLEAN
          BY <2>4, <2>1 DEF KeyDown, KeyUp, InputTypeOK
        <4>3. UNCHANGED <<sdl, exit_state, mouse, pressed_btn, pending_release, hold, clip>>
          BY <2>4 DEF KeyDown, KeyUp
        <4> QED  BY <4>1, <4>2, <4>3, <2>1 DEF InputTypeOK
      <3> QED  BY <3>2, <3>3, OneCodeFilled
    <2>5. ASSUME NEW t \in Text, Paste(t)
          PROVE  InputTypeOK' /\ Filled' /\ sdl' # "saved"
      <3>1. outbox' = <<>>
        BY <2>5 DEF Paste
      <3>2. InputTypeOK' /\ sdl' # "saved"
        <4>1. clip' \in Seq(Char)
          BY <2>5, InputAssumption DEF Paste
        <4> QED  BY <4>1, <2>1, <2>5 DEF Paste, InputTypeOK
      <3> QED  BY <3>1, <3>2, NothingFilled
    <2>6. CASE DeferredRelease
      <3>1. pressed_btn \in Clickable /\ Release(pressed_btn) \in Code
        BY <2>6, <2>1, ButtonHasCodes, KeyInputAssumption DEF InputTypeOK, DeferredRelease
      <3>2. outbox' = <<Release(pressed_btn), Alarm>>
        BY <2>6 DEF DeferredRelease
      <3>3. InputTypeOK' /\ sdl' # "saved"
        BY <2>6, <2>1 DEF DeferredRelease, InputTypeOK
      <3> QED  BY <3>1, <3>2, <3>3, OneCodeFilled
    <2>7. CASE MouseUp \/ ToggleOverlay \/ Quit \/ LeaveLoop
               \/ \E k \in HostKey : KeyRepeat(k) \/ CmdKeyDown(k)
      BY <2>2, <2>7 DEF MouseUp, ToggleOverlay, Quit, LeaveLoop, KeyRepeat, CmdKeyDown
    <2>8. ASSUME \/ \E b \in Clickable \cup {NoButton} : MouseDown(b)
                 \/ \E k \in HostKey : KeyDown(k) \/ KeyUp(k)
          PROVE  UNCHANGED clip
      BY <2>8 DEF MouseDown, KeyDown, KeyUp
    <2> QED  BY <2>2, <2>3, <2>4, <2>5, <2>6, <2>7, <2>8 DEF Handler, LoopTurn
  <1> QED  BY <1>1, <1>2, <1>3, <1>5, <1>6 DEF IInv, QueueTypeOK, GoneBeforeSave, fifoVars, Filled
(* A character of a paste fills the outbox; after the last one the alarm
   follows. *)
LEMMA PasteLoopKeeps ==
  ASSUME IInv, PasteLoop
  PROVE  IInv'
  <1>1. KeysInv'
    BY KeyboardUnchanged DEF IInv, PasteLoop
  <1>2. EmuTypeOK' /\ InHand' /\ GoneBeforeSave'
    BY DEF IInv, PasteLoop, TypeCharacter, EmuTypeOK, InHand, GoneBeforeSave, fifoVars, emuVars
  <1>3. clip \in Seq(Char) /\ clip # <<>>
    BY DEF IInv, InputTypeOK, PasteLoop, TypeCharacter
  <1>4. clip' = Tail(clip) /\ clip' \in Seq(Char)
    BY <1>3 DEF PasteLoop, TypeCharacter
  <1>5. InputTypeOK'
    BY <1>4 DEF IInv, InputTypeOK, PasteLoop, TypeCharacter
  <1> DEFINE end == IF Len(clip) = 1 THEN <<Alarm>> ELSE <<>>
  <1>6. /\ Typed(Head(clip)) \in Seq(Code \cup {Alarm})
        /\ end \in Seq(Code \cup {Alarm})
        /\ outbox' = Typed(Head(clip)) \o end
    <2>1. Head(clip) \in Char
      BY <1>3, HeadTailProperties
    <2>2. PressedFor(Head(clip)) \in Button /\ ReleasedFor(Head(clip)) \in Button
      BY <2>1, KeyInputAssumption DEF PressedFor, ReleasedFor
    <2>3. Typed(Head(clip)) \in Seq(Code \cup {Alarm})
      <3> DEFINE down == Press(PressedFor(Head(clip)))
                 up == Release(ReleasedFor(Head(clip)))
      <3>1. down \in Code /\ up \in Code
        BY <2>2, ButtonHasCodes
      <3> HIDE DEF down, up
      <3>2. /\ <<>> \in Seq(Code \cup {Alarm}) /\ <<down>> \in Seq(Code \cup {Alarm})
            /\ <<up>> \in Seq(Code \cup {Alarm})
        BY <3>1
      <3>3. Typed(Head(clip)) \in {<<>> \o <<up>>, <<down>> \o <<up>>}
        BY DEF Typed, down, up
      <3> QED  BY <3>2, <3>3, ConcatProperties
    <2> QED  BY <2>3 DEF PasteLoop, TypeCharacter
  <1>7. outbox' \in Seq(Code \cup {Alarm})
    BY <1>6, ConcatProperties
  <1>8. clip' = <<>> => Len(clip) = 1
    <2>1. Len(clip') = Len(clip) - 1 /\ Len(clip) \in Nat
      BY <1>3, <1>4, HeadTailProperties, LenProperties
    <2> QED  BY <2>1
  <1>9. Len(clip) = 1 => outbox' # <<>> /\ outbox'[Len(outbox')] = Alarm
    <2> SUFFICES ASSUME Len(clip) = 1
                 PROVE  outbox' # <<>> /\ outbox'[Len(outbox')] = Alarm
      OBVIOUS
    <2>1. outbox' = Typed(Head(clip)) \o <<Alarm>>
      BY <1>6
    <2>2. Len(<<Alarm>>) = 1 /\ <<Alarm>>[1] = Alarm /\ <<Alarm>> \in Seq(Code \cup {Alarm})
      OBVIOUS
    <2>3. Len(outbox') = Len(Typed(Head(clip))) + 1
      BY <2>1, <2>2, <1>6, ConcatProperties
    <2>4. Len(Typed(Head(clip))) \in Nat
      BY <1>6, LenProperties
    <2> HIDE DEF end
    <2>5. outbox'[Len(outbox')] = <<Alarm>>[1]
      BY <2>1, <2>2, <2>3, <2>4, <1>6, ConcatProperties
    <2> QED  BY <2>2, <2>3, <2>4, <2>5
  <1>10. AlarmLast' /\ AlarmDue'
    BY <1>7, <1>8, <1>9, LenProperties DEF AlarmLast, AlarmDue
  <1>11. NoneUnannounced'
    BY <1>10 DEF NoneUnannounced
  <1> QED  BY <1>1, <1>2, <1>5, <1>7, <1>10, <1>11 DEF IInv, QueueTypeOK, PasteLoop, fifoVars
(* The hand, the outbox and the queue when a code or an alarm is sent. *)
LEMMA SendKeeps ==
  ASSUME IInv, SendCode \/ SendAlarm
  PROVE  IInv'
  <1>1. KeysInv'
    BY KeyboardUnchanged DEF IInv, SendCode, SendAlarm
  <1>2. InputTypeOK'
    BY DEF IInv, InputTypeOK, SendCode, SendAlarm
  <1>3. EmuTypeOK' /\ InHand' /\ GoneBeforeSave'
    BY DEF IInv, SendCode, SendAlarm, EmuTypeOK, InHand, GoneBeforeSave, FifoPush, fifoVars,
           emuVars
  <1>4. /\ outbox \in Seq(Code \cup {Alarm}) /\ outbox # <<>>
        /\ outbox' = Tail(outbox) /\ UNCHANGED clip
    BY DEF IInv, QueueTypeOK, SendCode, SendAlarm
  <1>5. /\ outbox' \in Seq(Code \cup {Alarm})
        /\ Len(outbox) \in Nat \ {0} /\ Len(outbox') = Len(outbox) - 1
        /\ \A i \in 1 .. Len(outbox') : outbox'[i] = outbox[i + 1]
        /\ Head(outbox) = outbox[1]
    BY <1>4, HeadTailProperties, LenProperties, EmptySeq
  <1>6. AlarmLast'
    <2>1. outbox' # <<>> => outbox'[Len(outbox')] = outbox[Len(outbox)] /\ outbox # <<>>
      BY <1>5
    <2> QED  BY <2>1, <1>4 DEF IInv, AlarmLast
  <1>7. waiting' \in Seq(Code) /\ handling' = handling
    <2>1. waiting \in Seq(Code) /\ Head(outbox) \in Code \cup {Alarm}
      BY <1>5, ElementOfSeq DEF IInv, QueueTypeOK
    <2>2. CASE SendAlarm
      BY <2>1, <2>2 DEF SendAlarm, fifoVars
    <2>3. CASE SendCode
      <3>1. Append(waiting, Head(outbox)) \in Seq(Code)
        BY <2>1, <2>3, AppendProperties DEF SendCode
      <3> QED  BY <3>1, <2>3, EmptySeq DEF SendCode, FifoPush, Pushed
    <2> QED  BY <2>2, <2>3
  <1>8. NoneUnannounced'
    <2>1. CASE SendAlarm
      BY <2>1 DEF SendAlarm, NoneUnannounced
    <2>2. CASE SendCode /\ clip # <<>>
      BY <2>2, <1>4 DEF NoneUnannounced, AlarmDue
    <2>3. CASE SendCode /\ clip = <<>>
      <3>1. outbox[Len(outbox)] = Alarm /\ outbox[1] # Alarm
        BY <2>3, <1>4, <1>5 DEF IInv, AlarmLast, SendCode
      <3>2. Len(outbox') \in 1 .. Len(outbox') /\ outbox'[Len(outbox')] = Alarm
        BY <3>1, <1>5
      <3> QED  BY <3>2 DEF NoneUnannounced, AlarmDue
    <2> QED  BY <2>1, <2>2, <2>3
  <1> QED  BY <1>1, <1>2, <1>3, <1>5, <1>6, <1>7, <1>8 DEF IInv, QueueTypeOK

(* Time, the signal handler and the end of main(). *)
LEMMA ClockKeeps ==
  ASSUME IInv, Clock \/ SigAlrm \/ JoinAndSave
  PROVE  IInv'
  <1>1. KeysInv'
    BY KeyboardUnchanged DEF IInv, Clock, SigAlrm, JoinAndSave
  <1>2. hold' \in 0 .. HOLD
    BY InputAssumption DEF IInv, InputTypeOK, Clock, Tick, SigAlrm, JoinAndSave, sdlVars
  <1>3. InputTypeOK'
    BY <1>2 DEF IInv, InputTypeOK, Clock, Tick, SigAlrm, JoinAndSave, sdlVars
  <1>4. UNCHANGED <<fifoVars, emu, caller, wakeEv, wake, outbox, clip>> /\ got_alarm' \in BOOLEAN
    BY DEF IInv, EmuTypeOK, Clock, Tick, SigAlrm, JoinAndSave, emuVars, sdlVars
  <1>5. EmuTypeOK' /\ InHand' /\ QueueTypeOK' /\ AlarmLast'
    BY <1>4 DEF IInv, EmuTypeOK, InHand, QueueTypeOK, AlarmLast, fifoVars
  <1>6. got_alarm => got_alarm'
    BY DEF Clock, SigAlrm, JoinAndSave, emuVars
  <1>7. NoneUnannounced'
    BY <1>4, <1>6 DEF IInv, NoneUnannounced, AlarmDue, fifoVars
  <1>8. GoneBeforeSave'
    BY <1>4 DEF IInv, GoneBeforeSave, Clock, Tick, SigAlrm, JoinAndSave, sdlVars
  <1> QED  BY <1>1, <1>3, <1>5, <1>7, <1>8 DEF IInv

--------------------------------------------------------------------------------
(* The emulator thread.  All its steps but TakeEvent and HandleEvent leave the
   queue alone, and it leaves the SDL thread's state alone. *)
EmulatorOnly == UNCHANGED <<fifoVars, sdlVars>> /\ KeysInv' /\ EmuTypeOK'

(* Such a step preserves the invariant. *)
LEMMA EmulatorStep ==
  ASSUME IInv, EmulatorOnly, emu # "event", emu' # "event", emu # "gone",
         \/ emu # "getevent" /\ UNCHANGED got_alarm
         \/ emu' = "getevent"
         \/ waiting = <<>>
  PROVE  IInv'
  <1>1. UNCHANGED <<waiting, handling, outbox, clip, sdl>>
    BY DEF EmulatorOnly, fifoVars, sdlVars
  <1>2. InputTypeOK'
    BY DEF IInv, InputTypeOK, EmulatorOnly, sdlVars
  <1>3. InHand' /\ AlarmLast' /\ QueueTypeOK' /\ GoneBeforeSave'
    BY <1>1 DEF IInv, InHand, AlarmLast, QueueTypeOK, GoneBeforeSave
  <1>4. NoneUnannounced'
    BY <1>1, DrainsAnnounced DEF IInv
  <1> QED  BY <1>2, <1>3, <1>4 DEF IInv, EmulatorOnly

(* The instructions. *)
LEMMA InstructionKeeps ==
  ASSUME IInv, Instruction \/ OtherInstruction \/ Shutdown
  PROVE  IInv'
  <1>1. KeysInv'
    <2>1. CASE OtherInstruction
      BY <2>1, KeyboardUnchanged DEF IInv, OtherInstruction
    <2>2. CASE \E out \in OutRows, loop \in BOOLEAN : DoIn(out, loop)
      BY <2>2, DoInKeeps DEF IInv
    <2>3. CASE \/ DoIntOnOff(TRUE) \/ DoIntOnOff(FALSE) \/ DoResetInterruptSystem
               \/ DoReturnInterupt \/ \E outZero \in BOOLEAN : ShutdownMask(outZero)
      BY <2>3, InstructionsKeep DEF IInv
    <2> QED  BY <2>1, <2>2, <2>3 DEF Instruction, Shutdown
  <1>2. EmulatorOnly
    BY <1>1 DEF IInv, EmuTypeOK, EmulatorOnly, Instruction, OtherInstruction, Shutdown,
           fifoVars, sdlVars
  <1>3. emu = "run" /\ emu' \in {"stepped", "block"} /\ UNCHANGED got_alarm
    BY DEF Instruction, OtherInstruction, Shutdown
  <1> QED  BY <1>2, <1>3, EmulatorStep

(* schedule(), and do_shutdown()'s loop, outside GetEvent(). *)
LEMMA LoopsKeep ==
  ASSUME IInv, \/ NotDue \/ Schedule \/ ScheduleNoAlarm \/ ScheduleAlarm
               \/ EventsDone \/ ShutdownLoop
  PROVE  IInv'
  <1> USE DEF ShutdownLoop
  <1>1. KeysInv'
    <2>1. CASE UNCHANGED satVars
      BY <2>1, KeyboardUnchanged DEF IInv
    <2>2. CASE DoInterupt /\ UNCHANGED keyVars
      BY <2>2, InstructionsKeep DEF IInv
    <2>3. CASE /\ interrupt_called' \in BOOLEAN
               /\ UNCHANGED <<keyVars, intenable, int_pending, depth>>
      BY <2>3 DEF IInv, KeysInv, KeysTypeOK, PendingIsMasked, BitsArePressed, IsDown, Bits,
                  keyVars
    <2>4. interrupt_called \in BOOLEAN /\ wake \in BOOLEAN
      BY DEF IInv, KeysInv, KeysTypeOK, EmuTypeOK
    <2>5. CASE NotDue \/ ScheduleNoAlarm \/ ScheduleAlarm \/ EventsDone \/ ShutdownNoAlarm
      BY <2>1, <2>5 DEF NotDue, ScheduleNoAlarm, ScheduleAlarm, EventsDone, ShutdownNoAlarm
    <2>6. CASE Schedule \/ ShutdownTimer \/ ShutdownReceive
      BY <2>1, <2>2, <2>6 DEF Schedule, ShutdownTimer, ShutdownReceive, satVars
    <2>7. CASE ShutdownAlarm
      BY <2>3, <2>7 DEF ShutdownAlarm
    <2>8. CASE ShutdownLoopTest
      <3>1. interrupt_called' \in BOOLEAN
        BY <2>8, <2>4 DEF ShutdownLoopTest
      <3> QED  BY <2>3, <2>8, <3>1 DEF ShutdownLoopTest
    <2> QED  BY <2>5, <2>6, <2>7, <2>8
  <1>2. emu \in {"stepped", "scheduled", "getevent", "block", "expire"}
    BY DEF NotDue, Schedule, ScheduleNoAlarm, ScheduleAlarm, EventsDone, ShutdownAlarm,
           ShutdownNoAlarm, ShutdownTimer, ShutdownReceive, ShutdownLoopTest
  <1>3. /\ emu' \in {"run", "stepped", "scheduled", "getevent", "block", "expire", "gone"}
        /\ got_alarm' \in BOOLEAN /\ caller' \in {"schedule", "shutdown"}
    BY DEF IInv, EmuTypeOK, NotDue, Schedule, ScheduleNoAlarm, ScheduleAlarm, EventsDone,
           ShutdownAlarm, ShutdownNoAlarm, ShutdownTimer, ShutdownReceive, ShutdownLoopTest,
           Continue
  <1>4. wakeEv' \in BOOLEAN /\ wake' \in BOOLEAN
    BY DEF IInv, EmuTypeOK, NotDue, Schedule, ScheduleNoAlarm, ScheduleAlarm, EventsDone,
           ShutdownAlarm, ShutdownNoAlarm, ShutdownTimer, ShutdownReceive, ShutdownLoopTest
  <1>5. EmulatorOnly
    <2>1. UNCHANGED <<fifoVars, sdlVars>>
      BY DEF NotDue, Schedule, ScheduleNoAlarm, ScheduleAlarm, EventsDone, ShutdownAlarm,
             ShutdownNoAlarm, ShutdownTimer, ShutdownReceive, ShutdownLoopTest
    <2> QED  BY <1>1, <1>3, <1>4, <2>1 DEF EmulatorOnly, EmuTypeOK
  <1>6. \/ emu # "getevent" /\ UNCHANGED got_alarm
        \/ emu' = "getevent"
        \/ waiting = <<>>
    BY DEF NotDue, Schedule, ScheduleNoAlarm, ScheduleAlarm, EventsDone, ShutdownAlarm,
           ShutdownNoAlarm, ShutdownTimer, ShutdownReceive, ShutdownLoopTest
  <1> QED  BY <1>2, <1>3, <1>5, <1>6, EmulatorStep

(* GetEvent() takes a code under the mutex ... *)
LEMMA TakeEventKeeps ==
  ASSUME IInv, TakeEvent
  PROVE  IInv'
  <1>1. KeysInv' /\ InputTypeOK'
    BY KeyboardUnchanged DEF IInv, TakeEvent, InputTypeOK, sdlVars
  <1>2. EmuTypeOK' /\ InHand' /\ GoneBeforeSave'
    BY DEF IInv, TakeEvent, FifoTake, EmuTypeOK, InHand, GoneBeforeSave, sdlVars
  <1>3. waiting' \in Seq(Code) /\ \E c \in Code : handling' = <<c>>
    BY HeadTailProperties DEF IInv, QueueTypeOK, TakeEvent, FifoTake
  <1>4. QueueTypeOK' /\ AlarmLast' /\ NoneUnannounced'
    BY <1>3 DEF IInv, TakeEvent, QueueTypeOK, AlarmLast, NoneUnannounced, sdlVars
  <1> QED  BY <1>1, <1>2, <1>4 DEF IInv

(* ... and handles it after releasing it. *)
LEMMA HandleEventKeeps ==
  ASSUME IInv, HandleEvent
  PROVE  IInv'
  <1>1. PICK c \in Code : Head(handling) = c
    BY DEF IInv, QueueTypeOK, HandleEvent, FifoHandled
  <1>2. /\ c >= 100 => KeyRelease(c - 100) /\ UNCHANGED wakeEv
        /\ c < 100 => KeyPress(c - 1) /\ wakeEv' = TRUE
        /\ c >= 100 \/ c < 100
    BY <1>1, CodeIsButton DEF HandleEvent
  <1>3. KeysInv' /\ wakeEv' \in BOOLEAN
    BY <1>2, CodeIsButton, KeyPressKeeps, KeyReleaseKeeps DEF IInv, EmuTypeOK
  <1>4. InputTypeOK'
    BY DEF IInv, HandleEvent, InputTypeOK, sdlVars
  <1>5. EmuTypeOK' /\ InHand' /\ GoneBeforeSave'
    BY <1>3 DEF IInv, HandleEvent, FifoHandled, EmuTypeOK, InHand, GoneBeforeSave, sdlVars
  <1>6. QueueTypeOK' /\ AlarmLast' /\ NoneUnannounced'
    BY DEF IInv, HandleEvent, FifoHandled, QueueTypeOK, AlarmLast, NoneUnannounced, sdlVars
  <1> QED  BY <1>3, <1>4, <1>5, <1>6 DEF IInv

--------------------------------------------------------------------------------
(* Every step of the two threads and the clock preserves the invariant. *)
LEMMA StepInv == IInv /\ [Next]_vars => IInv'
  <1> SUFFICES ASSUME IInv, [Next]_vars PROVE IInv'
    OBVIOUS
  <1>1. CASE SdlThread \/ Clock \/ SigAlrm
    BY <1>1, HandlerKeeps, PasteLoopKeeps, SendKeeps, ClockKeeps DEF SdlThread
  <1>2. CASE EmulatorThread
    BY <1>2, InstructionKeeps, LoopsKeep, TakeEventKeeps, HandleEventKeeps DEF EmulatorThread
  <1>3. CASE UNCHANGED vars
    <2>1. KeysInv'
      BY <1>3, KeyboardUnchanged DEF IInv, vars
    <2>2. InputTypeOK' /\ EmuTypeOK' /\ QueueTypeOK'
      BY <1>3 DEF IInv, vars, InputTypeOK, EmuTypeOK, QueueTypeOK, sdlVars, emuVars, fifoVars
    <2>3. InHand' /\ AlarmLast' /\ NoneUnannounced' /\ GoneBeforeSave'
      BY <1>3 DEF IInv, vars, InHand, AlarmLast, NoneUnannounced, AlarmDue, GoneBeforeSave,
             sdlVars, emuVars, fifoVars
    <2> QED  BY <2>1, <2>2, <2>3 DEF IInv
  <1> QED  BY <1>1, <1>2, <1>3 DEF Next

(* The invariant holds in every behaviour of the two threads. *)
LEMMA Inductive == Spec => []IInv
  BY InitInv, StepInv, PTL DEF Spec

(* Types, the codes in the queue and in a handler's outbox included. *)
THEOREM TypeCorrect == Spec => []TypeOK
  <1>1. IInv => TypeOK
    BY DEF IInv, KeysInv, TypeOK
  <1> QED  BY <1>1, Inductive, PTL

(* The CPU never runs with interrupts on while a keyboard interrupt waits for
   an RTI (do_kbd_int, do_return_interupt, do_shutdown). *)
THEOREM PendingMasked == Spec => []PendingIsMasked
  <1>1. IInv => PendingIsMasked
    BY DEF IInv, KeysInv
  <1> QED  BY <1>1, Inductive, PTL

(* The ROM reads no key but those drawn as pressed (key_event, do_in). *)
THEOREM ReadsPressed == Spec => []BitsArePressed
  <1>1. IInv => BitsArePressed
    BY DEF IInv, KeysInv
  <1> QED  BY <1>1, Inductive, PTL

(* No pushed event is left waiting for the next SIGALRM (sdl_push_event and
   got_alarm against schedule, do_shutdown and GetEvent). *)
THEOREM Announced == Spec => []NoneUnannounced
  <1>1. IInv => NoneUnannounced
    BY DEF IInv
  <1> QED  BY <1>1, Inductive, PTL

(* write_files() runs after the emulator thread, with no event half handled
   (the join in main()). *)
THEOREM SavesAtRest == Spec => []SavedAtRest
  <1>1. IInv => SavedAtRest
    BY DEF IInv, InHand, GoneBeforeSave, SavedAtRest
  <1> QED  BY <1>1, Inductive, PTL
================================================================================
