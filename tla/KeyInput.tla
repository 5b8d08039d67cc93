------------------------------- MODULE KeyInput -------------------------------
(***************************************************************************)
(* A key's way from the user's hand to the emulated CPU: the SDL main      *)
(* thread (SdlInput), the event queue (KeyFifo, which EventQueue is shown  *)
(* to implement), and the emulator thread, whose loops emulate(),          *)
(* schedule(), do_shutdown() and GetEvent() are the actions of this        *)
(* module and whose keyboard and interrupts are SaturnKeys.                *)
(*                                                                         *)
(* The ROM program is any sequence of the instructions of SaturnKeys.      *)
(* Timers and the serial port are the interrupts they may raise.           *)
(***************************************************************************)
EXTENDS KeyFifo, SdlInput, SaturnKeys

CONSTANTS
  Program,  (* which of IN, INTON, INTOFF, RSI, RTI, SHUTDN the ROM executes *)
  OutRows,  (* the sets of rows it may select with OUT *)
  OtherIrq, (* TRUE: timers and the serial port raise interrupts *)
  Shortcut, (* which of "cmd" and "overlay" the user uses *)
  KeepsUp   (* TRUE: the emulator drains the queue before it overflows *)

ASSUME KeyInputAssumption ==
  /\ Button \subseteq 0 .. 48
  /\ Clickable \cup {PERIOD, NEG} \subseteq Button
  /\ BTN \in [Digit -> Button]
  /\ \A c \in Digit : ReleasedFor(c) \in Button
  /\ Keysym \in [HostKey -> Button]
  /\ Code = UNION {{Press(b), Release(b)} : b \in Button}
  /\ Program \subseteq {"IN", "INTON", "INTOFF", "RSI", "RTI", "SHUTDN"}
  /\ OutRows \subseteq SUBSET Row
  /\ Shortcut \subseteq {"cmd", "overlay"}
  /\ OtherIrq \in BOOLEAN
  /\ KeepsUp \in BOOLEAN

VARIABLES
  got_alarm, (* set by SIGALRM and by the SDL thread *)
  emu,       (* where the emulator thread is, see EmuTypeOK *)
  caller,    (* who called GetEvent(): "schedule" or "shutdown" *)
  wakeEv,    (* GetEvent's wake: it handled a press *)
  wake       (* do_shutdown's wake *)

emuVars == <<got_alarm, emu, caller, wakeEv, wake>>
satVars == <<keyVars, intVars>>
vars == <<fifoVars, sdlVars, satVars, emuVars>>

Init ==
  /\ FifoInit /\ InputInit /\ KeysInit
  /\ got_alarm = FALSE
  /\ emu = "run"
  /\ caller = "schedule"
  /\ wakeEv = FALSE
  /\ wake = FALSE

-----------------------------------------------------------------------------
(* The SDL thread and the interval timer. *)

(* One event handler or timeout of the SDL thread. *)
Handler ==
  /\ \/ \E b \in Clickable \cup {NoButton} : MouseDown(b)
     \/ MouseUp
     \/ \E k \in HostKey : KeyDown(k) \/ KeyUp(k)
     \/ \E k \in HostKey : KeyRepeat(k)
     \/ "cmd" \in Shortcut /\ \E k \in HostKey : CmdKeyDown(k)
     \/ "overlay" \in Shortcut /\ ToggleOverlay
     \/ \E t \in Text : Paste(t)
     \/ Quit
  /\ UNCHANGED <<fifoVars, satVars, emuVars>>

LoopTurn == (DeferredRelease \/ LeaveLoop) /\ UNCHANGED <<fifoVars, satVars, emuVars>>

PasteLoop == TypeCharacter /\ UNCHANGED <<fifoVars, satVars, emuVars>>

Clock == Tick /\ UNCHANGED <<fifoVars, satVars, emuVars>>

(* Send the next entry of the outbox: sdl_push_event() or got_alarm = 1. *)
SendCode ==
  /\ outbox # <<>>
  /\ Head(outbox) # Alarm
  /\ KeepsUp /\ emu # "gone" => Len(waiting) + 1 < EVQ_SIZE
  /\ FifoPush(Head(outbox))
  /\ outbox' = Tail(outbox)
  /\ UNCHANGED <<sdl, exit_state, mouse, keys, overlay, pressed_btn,
                 pending_release, hold, clip, satVars, emuVars>>

SendAlarm ==
  /\ outbox # <<>>
  /\ Head(outbox) = Alarm
  /\ got_alarm' = TRUE
  /\ outbox' = Tail(outbox)
  /\ UNCHANGED <<sdl, exit_state, mouse, keys, overlay, pressed_btn,
                 pending_release, hold, clip, fifoVars, satVars, emu, caller, wakeEv, wake>>

(* sigalrm_handler, every 20 ms. *)
SigAlrm ==
  /\ got_alarm' = TRUE
  /\ UNCHANGED <<fifoVars, sdlVars, satVars, emu, caller, wakeEv, wake>>

(* Mutant: the files are written without waiting for the emulator thread. *)
SaveWithoutJoin ==
  /\ sdl = "join"
  /\ sdl' = "saved"
  /\ UNCHANGED <<exit_state, mouse, keys, overlay, pressed_btn, pending_release,
                 hold, outbox, clip, fifoVars, satVars, emuVars>>

(* pthread_join(emu_thread) returns; write_files(). *)
JoinAndSave ==
  /\ sdl = "join"
  /\ emu = "gone"
  /\ sdl' = "saved"
  /\ UNCHANGED <<exit_state, mouse, keys, overlay, pressed_btn, pending_release,
                 hold, outbox, clip, fifoVars, satVars, emuVars>>

-----------------------------------------------------------------------------
(* The emulator thread: emulate() executes an instruction, may call
   schedule(), and tests exit_state. *)

(* An instruction that touches the keyboard or the interrupt system. *)
Instruction ==
  /\ emu = "run"
  /\ \/ "IN" \in Program /\ \E out \in OutRows, loop \in BOOLEAN : DoIn(out, loop)
     \/ "INTON" \in Program /\ DoIntOnOff(TRUE)
     \/ "INTOFF" \in Program /\ DoIntOnOff(FALSE)
     \/ "RSI" \in Program /\ DoResetInterruptSystem
     \/ "RTI" \in Program /\ DoReturnInterupt
  /\ emu' = "stepped"
  /\ UNCHANGED <<fifoVars, sdlVars, got_alarm, caller, wakeEv, wake>>

(* Any other instruction. *)
OtherInstruction ==
  /\ emu = "run"
  /\ emu' = "stepped"
  /\ UNCHANGED <<fifoVars, sdlVars, satVars, got_alarm, caller, wakeEv, wake>>

(* SHUTDN: do_shutdown() up to its loop. *)
Shutdown ==
  /\ emu = "run"
  /\ "SHUTDN" \in Program
  /\ \E outZero \in BOOLEAN : ShutdownMask(outZero)
  /\ wake' = FALSE
  /\ emu' = "block"
  /\ UNCHANGED <<fifoVars, sdlVars, got_alarm, caller, wakeEv>>

(* The loop test of emulate(); debug(), which then only clears its flags. *)
Continue == IF exit_state THEN "run" ELSE "gone"

(* schedule_event is not yet due. *)
NotDue ==
  /\ emu = "stepped"
  /\ emu' = Continue
  /\ UNCHANGED <<fifoVars, sdlVars, satVars, got_alarm, caller, wakeEv, wake>>

(* schedule() up to its test of got_alarm: timers and the serial port may
   raise an interrupt. *)
Schedule ==
  /\ emu = "stepped"
  /\ (OtherIrq /\ DoInterupt) \/ UNCHANGED intVars
  /\ emu' = "scheduled"
  /\ UNCHANGED <<fifoVars, sdlVars, keyVars, got_alarm, caller, wakeEv, wake>>

(* The end of schedule(): GetEvent() if the alarm went off. *)
ScheduleNoAlarm ==
  /\ emu = "scheduled"
  /\ ~got_alarm
  /\ emu' = Continue
  /\ UNCHANGED <<fifoVars, sdlVars, satVars, got_alarm, caller, wakeEv, wake>>

ScheduleAlarm ==
  /\ emu = "scheduled"
  /\ got_alarm
  /\ got_alarm' = FALSE
  /\ caller' = "schedule"
  /\ wakeEv' = FALSE
  /\ emu' = "getevent"
  /\ UNCHANGED <<fifoVars, sdlVars, satVars, wake>>

(* GetEvent(): pop a code under the mutex ... *)
TakeEvent ==
  /\ emu = "getevent"
  /\ FifoTake
  /\ emu' = "event"
  /\ UNCHANGED <<sdlVars, satVars, got_alarm, caller, wakeEv, wake>>

(* ... and handle it with the mutex released. *)
HandleEvent ==
  /\ emu = "event"
  /\ FifoHandled
  /\ LET c == Head(handling)
     IN IF c >= 100 THEN KeyRelease(c - 100) /\ UNCHANGED wakeEv
                    ELSE KeyPress(c - 1) /\ wakeEv' = TRUE
  /\ emu' = "getevent"
  /\ UNCHANGED <<sdlVars, got_alarm, caller, wake>>

(* Mutant: do_shutdown() ignores the result as well. *)
EventsDoneIgnored ==
  /\ emu = "getevent"
  /\ waiting = <<>>
  /\ emu' = IF caller = "schedule" THEN Continue ELSE "expire"
  /\ UNCHANGED <<fifoVars, sdlVars, satVars, got_alarm, caller, wakeEv, wake>>

(* The queue is empty.  schedule() ignores the result; do_shutdown() wakes
   up if a press raised an interrupt. *)
EventsDone ==
  /\ emu = "getevent"
  /\ waiting = <<>>
  /\ IF caller = "schedule"
     THEN emu' = Continue /\ UNCHANGED wake
     ELSE emu' = "expire" /\ wake' = (wake \/ (wakeEv /\ interrupt_called))
  /\ UNCHANGED <<fifoVars, sdlVars, satVars, got_alarm, caller, wakeEv>>

(* The loop of do_shutdown(): after blockConditionVariable() returns, on a
   signal or after 20 ms, an alarm makes it look at events ... *)
ShutdownAlarm ==
  /\ emu = "block"
  /\ got_alarm
  /\ got_alarm' = FALSE
  /\ interrupt_called' = FALSE
  /\ caller' = "shutdown"
  /\ wakeEv' = FALSE
  /\ emu' = "getevent"
  /\ UNCHANGED <<fifoVars, sdlVars, keyVars, intenable, int_pending, depth, wake>>

(* ... and without one it only looks at exit_state. *)
ShutdownNoAlarm ==
  /\ emu = "block"
  /\ ~got_alarm
  /\ ~exit_state
  /\ emu' = "stepped"
  /\ UNCHANGED <<fifoVars, sdlVars, satVars, got_alarm, caller, wakeEv, wake>>

(* Timer 1 or 2 has run out; its control nibble asks for a wake-up, with or
   without an interrupt. *)
ShutdownTimer ==
  /\ emu = "expire"
  /\ OtherIrq
  /\ DoInterupt \/ UNCHANGED intVars
  /\ wake' = TRUE
  /\ emu' = "stepped"
  /\ UNCHANGED <<fifoVars, sdlVars, keyVars, got_alarm, caller, wakeEv>>

(* No timer has.  Unless it is awake the CPU is woken by a received
   character; else it sleeps on, until the program is to exit. *)
ShutdownReceive ==
  /\ emu = "expire"
  /\ ~wake
  /\ OtherIrq
  /\ DoInterupt
  /\ wake' = TRUE
  /\ emu' = "stepped"
  /\ UNCHANGED <<fifoVars, sdlVars, keyVars, got_alarm, caller, wakeEv>>

(* Mutant: the loop does not look at exit_state. *)
ShutdownLoopForever ==
  /\ emu = "expire"
  /\ interrupt_called' = (wake /\ interrupt_called)
  /\ emu' = IF wake THEN "stepped" ELSE "block"
  /\ UNCHANGED <<fifoVars, sdlVars, keyVars, intenable, int_pending, depth,
                 got_alarm, caller, wakeEv, wake>>

ShutdownLoopTest ==
  /\ emu = "expire"
  /\ interrupt_called' = (wake /\ interrupt_called)
  /\ emu' = IF wake \/ ~exit_state THEN "stepped" ELSE "block"
  /\ UNCHANGED <<fifoVars, sdlVars, keyVars, intenable, int_pending, depth,
                 got_alarm, caller, wakeEv, wake>>

-----------------------------------------------------------------------------
SdlThread == Handler \/ PasteLoop \/ LoopTurn \/ SendCode \/ SendAlarm \/ JoinAndSave

ShutdownLoop == ShutdownAlarm \/ ShutdownNoAlarm \/ ShutdownTimer
                  \/ ShutdownReceive \/ ShutdownLoopTest

EmulatorThread ==
  \/ Instruction \/ OtherInstruction \/ Shutdown
  \/ NotDue \/ Schedule \/ ScheduleNoAlarm \/ ScheduleAlarm
  \/ TakeEvent \/ HandleEvent \/ EventsDone
  \/ ShutdownLoop

Next == SdlThread \/ Clock \/ SigAlrm \/ EmulatorThread

(***************************************************************************)
(* Both threads run, time passes and the interval timer fires.  The SDL    *)
(* thread owes what it has begun, its due releases and its exit, not the   *)
(* user's input: it polls events until there is none, which happens again  *)
(* and again, so the rest of its turn comes again and again.  schedule()   *)
(* is due again and again, because schedule_event counts down with every   *)
(* instruction (emulate.c).                                                *)
(***************************************************************************)
Fairness ==
  /\ WF_vars(SendCode \/ SendAlarm \/ PasteLoop) /\ SF_vars(LoopTurn) /\ WF_vars(JoinAndSave)
  /\ WF_vars(Clock) /\ WF_vars(SigAlrm)
  /\ WF_vars(EmulatorThread) /\ SF_vars(Schedule)

Spec == Init /\ [][Next]_vars /\ Fairness

-----------------------------------------------------------------------------
EmuTypeOK ==
  /\ got_alarm \in BOOLEAN
  /\ emu \in {"run",       (* about to execute an instruction *)
              "stepped",   (* executed one *)
              "scheduled", (* in schedule(), before its got_alarm test *)
              "getevent",  (* in GetEvent(), the mutex held *)
              "event",     (* in key_event() *)
              "block",     (* SHUTDN: in blockConditionVariable() *)
              "expire",    (* SHUTDN: after GetEvent() *)
              "gone"}      (* the thread has returned *)
  /\ caller \in {"schedule", "shutdown"}
  /\ wakeEv \in BOOLEAN
  /\ wake \in BOOLEAN

QueueTypeOK ==
  /\ waiting \in Seq(Code)
  /\ handling \in {<<>>} \cup {<<c>> : c \in Code}
  /\ outbox \in Seq(Code \cup {Alarm})

TypeOK == KeysTypeOK /\ InputTypeOK /\ EmuTypeOK /\ QueueTypeOK

(* The running handler of the SDL thread will still raise the alarm. *)
AlarmDue == clip # <<>> \/ \E i \in 1 .. Len(outbox) : outbox[i] = Alarm

(* A key event never waits unannounced: when the queue holds a code, the
   emulator is draining it, got_alarm is set, or the SDL thread is about to
   set it.  So the flag that schedule() and do_shutdown() test and clear in
   separate steps never swallows the news of an event pushed in between, and
   no key has to wait for the next SIGALRM. *)
NoneUnannounced ==
  waiting # <<>> => got_alarm \/ AlarmDue \/ emu \in {"getevent", "event"}

(* The state is written to disk only after the emulator thread has ended and
   with nothing left in its hands: no key event is half handled in the files
   (the join before write_files() in main()). *)
SavedAtRest == sdl = "saved" => emu = "gone" /\ handling = <<>>

(* In SHUTDN, its GetEvent() included. *)
Asleep == emu \in {"block", "expire"} \/ (emu \in {"getevent", "event"} /\ caller = "shutdown")

(* A press of b, if handled now, raises an interrupt. *)
Rouses(b) == b = ON \/ (kbd_ien /\ ~IsDown(b))

(* A key press that is pushed while the CPU sleeps in SHUTDN wakes it,
   wherever the push falls between the alarm, the drain and the next block:
   no wake-up is lost (do_shutdown, GetEvent, sdl_push_event).  A user who
   typed without end could keep GetEvent in its loop. *)
PressWakes ==
  <>[](outbox = <<>>) =>
  \A b \in Button :
    (emu = "block" /\ Rouses(b) /\ \E i \in 1 .. Len(waiting) : waiting[i] = Press(b))
      ~> ~Asleep

(* When the user has let go of mouse and keyboard, no key stays down in the
   emulated keyboard or on the screen: every press the SDL thread pushes is
   followed by its release, through overlays, Cmd shortcuts, overlapping
   clicks and pastes (the handlers of main() in main_sdl.c, key_event). *)
KeysComeUp ==
  <>[](~mouse /\ keys = {} /\ clip = <<>> /\ exit_state)
    => <>[](pressed = {} /\ \A r \in Row : keybuf[r] = {})

(* Quitting ends the emulator thread wherever it is, SHUTDN included, and
   the state is saved. *)
QuitSaves == ~exit_state ~> sdl = "saved"

(* A press that Cmd+V is about to push is in time followed by its release
   ("Brief release after each", main_sdl.c). *)
PastedKeysReleased ==
  []exit_state /\ <>[](outbox = <<>>) =>
  \A b \in Button :
    (\E i \in 1 .. Len(outbox) : outbox[i] = Press(b)) ~> b \notin pressed

(* A pasted key is down while the CPU executes an instruction, so that the
   ROM can read it ("Cmd+V pastes numbers", README.md). *)
PastedKeysSeen ==
  []exit_state /\ <>[](outbox = <<>>) =>
  \A b \in Button :
    (\E i \in 1 .. Len(outbox) : outbox[i] = Press(b))
      ~> (emu = "run" /\ IsDown(b))

(* A paste types each key: it is seen, and let go of ("Cmd+V pastes numbers"). *)
PastedKeysTyped == PastedKeysSeen /\ PastedKeysReleased
==============================================================================
