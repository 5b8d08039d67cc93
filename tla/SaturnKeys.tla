------------------------------ MODULE SaturnKeys ------------------------------
(***************************************************************************)
(* The keyboard and the interrupt system of the emulated Saturn CPU, as    *)
(* the emulator thread drives them: key_event() of macos/x48_sdl.c and     *)
(* do_in(), do_kbd_int(), do_interupt(), do_return_interupt(),             *)
(* do_reset_interrupt_system(), do_inton() and do_intoff() of              *)
(* app/src/main/jni/actions.c.  Only the emulator thread writes this state *)
(* (README.md, "Key Design Decisions").                                    *)
(***************************************************************************)
EXTENDS Naturals, Sequences, FiniteSets

CONSTANTS
  Button,    (* the buttons of the calculator (indices of buttons[]) *)
  ON,        (* the ON button: code 0x8000, a bit of every row *)
  Row,       (* the rows of saturn.keybuf: 0..8 *)
  Position,  (* of every other button: <<row, column>>, its code *)
  OnColumn,  (* the column of the ON bit: 15 *)
  Repeating, (* the <<row, column>> pairs do_in() suppresses on repeat *)
  NR_RSTK    (* levels of the return stack: 8 *)

ASSUME KeysAssumption ==
  /\ ON \in Button
  /\ NR_RSTK \in Nat \ {0}
  /\ \A b \in Button \ {ON} : Position[b][1] \in Row /\ Position[b][2] # OnColumn
  /\ \A b, c \in Button \ {ON} :
       Position[b][1] = Position[c][1] /\ Position[b][2] = Position[c][2] => b = c

VARIABLES
  keybuf,           (* saturn.keybuf.rows: the set columns of each row *)
  pressed,          (* the buttons with buttons[].pressed = 1 *)
  first_press,      (* actions.c first_press *)
  intenable,        (* saturn.intenable: the CPU accepts interrupts *)
  int_pending,      (* saturn.int_pending: a keyboard interrupt waits for RTI *)
  kbd_ien,          (* saturn.kbd_ien: key presses raise interrupts *)
  interrupt_called, (* actions.c interrupt_called, read by do_shutdown() *)
  depth             (* return addresses interrupts have pushed on RSTK *)

intVars == <<intenable, int_pending, interrupt_called, depth>>
keyVars == <<keybuf, pressed, first_press, kbd_ien>>

(* init_saturn(), main.c's zeroed statics. *)
KeysInit ==
  /\ keybuf = [r \in Row |-> {}]
  /\ pressed = {}
  /\ first_press = TRUE
  /\ intenable = TRUE
  /\ int_pending = FALSE
  /\ kbd_ien = TRUE
  /\ interrupt_called = FALSE
  /\ depth = 0

(* The columns button b owns in row r, and whether its bit is set. *)
Bits(b, r) == IF b = ON THEN {OnColumn}
              ELSE IF Position[b][1] = r THEN {Position[b][2]} ELSE {}
IsDown(b) == \E r \in Row : Bits(b, r) \cap keybuf[r] # {}

(* Mutant: RSTK is pushed without a look at its depth. *)
VectorUnbounded ==
  /\ depth' = depth + 1
  /\ intenable' = FALSE

(* The CPU takes an interrupt: the return address goes on RSTK, whose oldest
   entry falls off when it is full, and PC goes to 0xf with interrupts off. *)
Vector ==
  /\ depth' = IF depth < NR_RSTK THEN depth + 1 ELSE depth
  /\ intenable' = FALSE

(* Timers and the serial port: an interrupt that is not accepted is not kept. *)
DoInterupt ==
  /\ interrupt_called' = TRUE
  /\ IF intenable THEN Vector ELSE UNCHANGED <<depth, intenable>>
  /\ UNCHANGED int_pending

(* The keyboard: one that is not accepted stays pending. *)
DoKbdInt ==
  /\ interrupt_called' = TRUE
  /\ IF intenable THEN Vector /\ UNCHANGED int_pending
                  ELSE int_pending' = TRUE /\ UNCHANGED <<depth, intenable>>

(* key_event(b, 1) *)
KeyPress(b) ==
  /\ pressed' = pressed \cup {b}
  /\ keybuf' = [r \in Row |-> keybuf[r] \cup Bits(b, r)]
  /\ IF b = ON \/ (~IsDown(b) /\ kbd_ien) THEN DoKbdInt ELSE UNCHANGED intVars
  /\ UNCHANGED <<first_press, kbd_ien>>

(* Mutant: ON's bit is cleared in all rows but the last. *)
KeyReleaseButLastRow(b) ==
  /\ pressed' = pressed \ {b}
  /\ keybuf' = [r \in Row |-> IF b = ON /\ (\A s \in Row : s <= r) THEN keybuf[r]
                              ELSE keybuf[r] \ Bits(b, r)]
  /\ UNCHANGED <<first_press, kbd_ien, intVars>>

(* key_event(b, 0): letting go of ON clears the whole key buffer. *)
KeyRelease(b) ==
  /\ pressed' = pressed \ {b}
  /\ keybuf' = [r \in Row |-> IF b = ON THEN {} ELSE keybuf[r] \ Bits(b, r)]
  /\ UNCHANGED <<first_press, kbd_ien, intVars>>

-----------------------------------------------------------------------------
(* The instructions that touch this state. *)

(* A=IN and C=IN with the rows of OUT selected.  In the ROM's key-repeat
   routine (repeatLoop) do_in() answers an arrow or backspace key once and
   then clears the selected rows. *)
DoIn(out, repeatLoop) ==
  LET cols == UNION {keybuf[r] : r \in out}
      again == /\ repeatLoop
               /\ ~first_press
               /\ \E r \in out : \E c \in cols : <<r, c>> \in Repeating
  IN /\ first_press' = again
     /\ keybuf' = [r \in Row |-> IF again /\ r \in out THEN {} ELSE keybuf[r]]
     /\ UNCHANGED <<pressed, kbd_ien, intVars>>

(* INTON and INTOFF. *)
DoIntOnOff(on) ==
  /\ kbd_ien' = on
  /\ UNCHANGED <<keybuf, pressed, first_press, intVars>>

(* RSI: interrupt again for the keys that are down. *)
DoResetInterruptSystem ==
  /\ kbd_ien' = TRUE
  /\ IF \E r \in Row : keybuf[r] # {} THEN DoKbdInt ELSE UNCHANGED intVars
  /\ UNCHANGED <<keybuf, pressed, first_press>>

(* RTI: serve the pending keyboard interrupt before going back.  Popping an
   empty RSTK goes to address 0. *)
DoReturnInterupt ==
  /\ IF int_pending
     THEN int_pending' = FALSE /\ intenable' = FALSE /\ UNCHANGED depth
     ELSE depth' = (IF depth > 0 THEN depth - 1 ELSE 0) /\ intenable' = TRUE /\ UNCHANGED int_pending
  /\ UNCHANGED <<interrupt_called, keyVars>>

(* Mutant: interrupts come back on with the pending one kept. *)
ShutdownMaskKeepsPending(outZero) ==
  /\ intenable' = (outZero \/ intenable)
  /\ UNCHANGED <<int_pending, interrupt_called, depth, keyVars>>

(* The interrupt part of do_shutdown(): with OUT = 0 (no key row selected)
   interrupts come back on and the pending one is forgotten. *)
ShutdownMask(outZero) ==
  /\ intenable' = (outZero \/ intenable)
  /\ int_pending' = (~outZero /\ int_pending)
  /\ UNCHANGED <<interrupt_called, depth, keyVars>>

-----------------------------------------------------------------------------
Column == {OnColumn} \cup {Position[b][2] : b \in Button \ {ON}}

KeysTypeOK ==
  /\ keybuf \in [Row -> SUBSET Column]
  /\ pressed \subseteq Button
  /\ first_press \in BOOLEAN
  /\ intenable \in BOOLEAN
  /\ int_pending \in BOOLEAN
  /\ kbd_ien \in BOOLEAN
  /\ interrupt_called \in BOOLEAN
  /\ depth \in 0 .. NR_RSTK

(* A keyboard interrupt waits only while interrupts are off: whatever the
   order of key events, timer interrupts, RTI, RSI and SHUTDN, the CPU never
   runs on with interrupts enabled and one pending, where no RTI would come
   to serve it (do_kbd_int, do_return_interupt, do_shutdown in actions.c). *)
PendingIsMasked == int_pending => ~intenable

(* The CPU never reads a key nobody presses: a set bit of keybuf belongs to
   a button whose .pressed flag, which the SDL thread draws, is set
   (key_event in x48_sdl.c, the row clearing of do_in in actions.c). *)
BitsArePressed == \A b \in Button : IsDown(b) => b \in pressed
==============================================================================
