------------------------------- MODULE SdlInput -------------------------------
(***************************************************************************)
(* The SDL main thread's input handling, main() of macos/main_sdl.c: what  *)
(* each mouse, keyboard and paste event makes it push on the event queue.  *)
(*                                                                         *)
(* A handler's pushes are separate critical sections, so a handler is one  *)
(* action that fills outbox, and the actions of KeyInput send the outbox   *)
(* one entry at a time before the thread looks at its next event.  A paste *)
(* fills it once per character of clip.                                    *)
(***************************************************************************)
EXTENDS Integers, Sequences

CONSTANTS
  Clickable,  (* buttons the user clicks *)
  HostKey,    (* keys of the host keyboard *)
  Keysym,     (* keysym_to_button: the button of each host key *)
  Escape,     (* the host key that dismisses overlays; also the ON button *)
  Text,       (* clipboard texts: sequences of Char *)
  Digit,      (* the digits, 0..9 *)
  BTN,        (* the button of each digit: BTN_0 .. BTN_9 *)
  BTN_1,      (* BTN[1] *)
  PERIOD,     (* BTN_PERIOD *)
  NEG,        (* BTN_NEG *)
  NoButton,   (* pressed_btn = -1 *)
  HOLD        (* the 80 ms of release_after_ms, in ticks of hold *)

(* The characters a paste tells apart: the digits, '.', '-' and the rest. *)
Point == 10
Minus == 11
Other == 12
Char == Digit \cup {Point, Minus, Other}

ASSUME InputAssumption ==
  /\ NoButton \notin Clickable
  /\ Digit \subseteq 0 .. 9
  /\ Text \subseteq Seq(Char)
  /\ HOLD \in Nat

VARIABLES
  sdl,             (* "loop": main()'s event loop; "join": waiting for the
                      emulator thread; "saved": write_files() has run *)
  exit_state,      (* cleared, with running, to stop both threads *)
  mouse,           (* the left mouse button is held *)
  keys,            (* host keys held *)
  overlay,         (* show_keyboard_help or show_about *)
  pressed_btn,     (* the button of the last click *)
  pending_release, (* the click ended; its release is still to be sent *)
  hold,            (* ticks until release_after_ms *)
  outbox,          (* what the running handler has still to send *)
  clip             (* the characters a paste has still to type *)

sdlVars == <<sdl, exit_state, mouse, keys, overlay, pressed_btn,
             pending_release, hold, outbox, clip>>

(* Event codes: 1..49 press, 100..148 release. *)
Press(b) == b + 1
Release(b) == b + 100

(* got_alarm = 1 and a signal on uiConditionVariable; no code is 0. *)
Alarm == 0

InputInit ==
  /\ sdl = "loop"
  /\ exit_state = TRUE
  /\ mouse = FALSE
  /\ keys = {}
  /\ overlay = FALSE
  /\ pressed_btn = NoButton
  /\ pending_release = FALSE
  /\ hold = 0
  /\ outbox = <<>>
  /\ clip = <<>>

(* The thread is between two SDL events. *)
Listening == sdl = "loop" /\ outbox = <<>> /\ clip = <<>>

(* Mutant: a click forgets the release of the click before. *)
MouseDownForgets(b) ==
  /\ Listening
  /\ ~mouse
  /\ mouse' = TRUE
  /\ overlay' = FALSE
  /\ IF overlay \/ b = NoButton
     THEN UNCHANGED <<pressed_btn, pending_release, hold, outbox>>
     ELSE /\ outbox' = <<Press(b), Alarm>>
          /\ pending_release' = FALSE
          /\ pressed_btn' = b
          /\ hold' = HOLD
  /\ UNCHANGED <<sdl, exit_state, keys, clip>>

(* Left button down on button b, or on no button (hit_test gives -1). *)
MouseDown(b) ==
  /\ Listening
  /\ ~mouse
  /\ mouse' = TRUE
  /\ overlay' = FALSE
  /\ IF overlay \/ b = NoButton
     THEN UNCHANGED <<pressed_btn, pending_release, hold, outbox>>
     ELSE /\ outbox' = IF pending_release
                       THEN <<Release(pressed_btn), Alarm, Press(b), Alarm>>
                       ELSE <<Press(b), Alarm>>
          /\ pending_release' = FALSE
          /\ pressed_btn' = b
          /\ hold' = HOLD
  /\ UNCHANGED <<sdl, exit_state, keys, clip>>

(* Left button up: the release is due, but not before the hold is over. *)
MouseUp ==
  /\ Listening
  /\ mouse
  /\ mouse' = FALSE
  /\ pending_release' = (pending_release \/ pressed_btn # NoButton)
  /\ UNCHANGED <<sdl, exit_state, keys, overlay, pressed_btn, hold, outbox, clip>>

(* After polling, each turn of the loop sends a release that has come due. *)
DeferredRelease ==
  /\ Listening
  /\ pending_release
  /\ hold = 0
  /\ outbox' = <<Release(pressed_btn), Alarm>>
  /\ pressed_btn' = NoButton
  /\ pending_release' = FALSE
  /\ UNCHANGED <<sdl, exit_state, mouse, keys, overlay, hold, clip>>

(* Time passes. *)
Tick ==
  /\ hold > 0
  /\ hold' = hold - 1
  /\ UNCHANGED <<sdl, exit_state, mouse, keys, overlay, pressed_btn,
                 pending_release, outbox, clip>>

(* A host key goes down: Escape first dismisses an overlay. *)
KeyDown(k) ==
  /\ Listening
  /\ k \notin keys
  /\ keys' = keys \cup {k}
  /\ LET dismiss == overlay /\ k = Escape
     IN /\ overlay' = (overlay /\ ~dismiss)
        /\ outbox' = IF dismiss THEN <<>> ELSE <<Press(Keysym[k]), Alarm>>
  /\ UNCHANGED <<sdl, exit_state, mouse, pressed_btn, pending_release, hold, clip>>

(* The host repeats a held key: only the dismissal does not look at .repeat. *)
KeyRepeat(k) ==
  /\ Listening
  /\ k \in keys
  /\ overlay /\ k = Escape
  /\ overlay' = FALSE
  /\ UNCHANGED <<sdl, exit_state, mouse, keys, pressed_btn, pending_release,
                 hold, outbox, clip>>

(* With Cmd held a mapped key pushes no press (Cmd+C copies, others do
   nothing, Escape still dismisses), but its key-up is not filtered. *)
CmdKeyDown(k) ==
  /\ Listening
  /\ k \notin keys
  /\ keys' = keys \cup {k}
  /\ overlay' = (overlay /\ k # Escape)
  /\ UNCHANGED <<sdl, exit_state, mouse, pressed_btn, pending_release, hold,
                 outbox, clip>>

(* Mutant: the alarm is raised before the release is pushed. *)
KeyUpAlarmFirst(k) ==
  /\ Listening
  /\ k \in keys
  /\ keys' = keys \ {k}
  /\ outbox' = <<Alarm, Release(Keysym[k])>>
  /\ UNCHANGED <<sdl, exit_state, mouse, overlay, pressed_btn,
                 pending_release, hold, clip>>

KeyUp(k) ==
  /\ Listening
  /\ k \in keys
  /\ keys' = keys \ {k}
  /\ outbox' = <<Release(Keysym[k]), Alarm>>
  /\ UNCHANGED <<sdl, exit_state, mouse, overlay, pressed_btn,
                 pending_release, hold, clip>>

(* Cmd+K and Cmd+I. *)
ToggleOverlay ==
  /\ Listening
  /\ overlay' = ~overlay
  /\ UNCHANGED <<sdl, exit_state, mouse, keys, pressed_btn, pending_release,
                 hold, outbox, clip>>

(* The button Cmd+V presses for a character, and the one it lets go of: the
   buttons of the digits are not in a row, but the release counts from BTN_1. *)
PressedFor(c) == IF c \in Digit THEN BTN[c] ELSE IF c = Point THEN PERIOD ELSE NEG
ReleasedFor(c) == IF c \notin Digit THEN PERIOD ELSE IF c = 0 THEN BTN[0] ELSE BTN_1 + (c - 1)

(* Mutant: only digits are released. *)
TypedDigitReleased(c) ==
  (IF c = Other THEN <<>> ELSE <<Press(PressedFor(c))>>)
    \o (IF c \in Digit THEN <<Release(ReleasedFor(c))>> ELSE <<>>)

(* What Cmd+V pushes for one character.  A character that is no part of a
   number is not pressed, but released. *)
Typed(c) ==
  (IF c = Other THEN <<>> ELSE <<Press(PressedFor(c))>>) \o <<Release(ReleasedFor(c))>>

(* Cmd+V: push the codes of every character, then wake the emulator once. *)
Paste(text) ==
  /\ Listening
  /\ clip' = text
  /\ UNCHANGED <<sdl, exit_state, mouse, keys, overlay, pressed_btn,
                 pending_release, hold, outbox>>

TypeCharacter ==
  /\ outbox = <<>>
  /\ clip # <<>>
  /\ outbox' = Typed(Head(clip)) \o (IF Len(clip) = 1 THEN <<Alarm>> ELSE <<>>)
  /\ clip' = Tail(clip)
  /\ UNCHANGED <<sdl, exit_state, mouse, keys, overlay, pressed_btn,
                 pending_release, hold>>

(* Cmd+Q or the window's close button. *)
Quit ==
  /\ Listening
  /\ exit_state' = FALSE
  /\ UNCHANGED <<sdl, mouse, keys, overlay, pressed_btn, pending_release, hold, outbox, clip>>

(* The loop ends after the turn in which it was told to: broadcast, then
   pthread_join. *)
LeaveLoop ==
  /\ Listening
  /\ ~exit_state
  /\ sdl' = "join"
  /\ UNCHANGED <<exit_state, mouse, keys, overlay, pressed_btn, pending_release,
                 hold, outbox, clip>>

InputTypeOK ==
  /\ sdl \in {"loop", "join", "saved"}
  /\ exit_state \in BOOLEAN
  /\ mouse \in BOOLEAN
  /\ keys \subseteq HostKey
  /\ overlay \in BOOLEAN
  /\ pressed_btn \in Clickable \cup {NoButton}
  /\ pending_release \in BOOLEAN
  /\ pending_release => pressed_btn # NoButton
  /\ hold \in 0 .. HOLD
  /\ clip \in Seq(Char)
==============================================================================
