------------------------------ MODULE Scheduler ------------------------------
(***************************************************************************)
(* What happens between two instructions, and in SHUTDN: schedule() of     *)
(* emulate.c with its countdowns, check_devices() of device.c, the serial  *)
(* port without a line (serial.c), and do_shutdown() of actions.c.         *)
(*                                                                         *)
(* m.sched holds the countdowns sched_*, m.steps the instructions since    *)
(* schedule() was last called, m.t1_ticks what the host's clock has        *)
(* counted for timer 1.  What the host and the SDL thread contribute is    *)
(* the record env: elapsed, how far the clock has gone on, lag, by how     *)
(* much timer 2 is behind it, the ticks that the statistics come to, and   *)
(* key, whether GetEvent() handles a key press.                            *)
(***************************************************************************)
EXTENDS Lcd

CONSTANTS
  NEVER,  (* SCHED_NEVER: so far away that it is not counted *)
  LATEST, (* bound: how late timer 2 is remembered to be *)
  SLOWEST,(* bound: instructions in a tick of timer 2 *)
  LONGEST (* bound: ticks counted for timer 1 *)

(* timer2 is a word_32, the ticks are shorts. *)
Short == -32768 .. 32767
MaxWord32 == 2147483647
ASSUME SchedulerAssumption ==
  /\ NEVER \in Int /\ NEVER > DISP_INSTR_OFF
  /\ LATEST \in 0 .. MaxWord32 /\ SLOWEST \in Short /\ LONGEST \in Int

Minus(count, steps) == IF count = NEVER THEN NEVER ELSE count - steps

(* A char, and timer 2 with all values from -LATEST down as one. *)
Char(x) == ((x + 128) % 256) - 128
Late(t) == IF t < -LATEST THEN -LATEST ELSE t

(* get_t1_t2(): timer 1 goes on; timer 2 is set to the time of the host's
   clock (see Clock), but never back, and counted more slowly instead. *)
get_t1_t2(m, env) ==
  LET t1 == m.t1_ticks + env.elapsed
      slow == env.lag = 0 /\ m.saturn.t2_tick < SLOWEST
      late == IF Bit(m.saturn.t2_ctrl, 0) THEN env.lag ELSE 0
  IN [m EXCEPT !.t1_ticks = IF t1 > LONGEST THEN LONGEST ELSE t1,
               !.saturn.t2_tick = IF slow THEN @ + 1 ELSE @,
               !.saturn.timer2 = Late(@ - late)]

(* The next event is not later than count. *)
Before(m, count) == [m EXCEPT !.schedule_event = IF count < @ THEN count ELSE @]

(* do_kbd_int(), which GetEvent() comes to when a key is pressed. *)
do_kbd_int(m) ==
  IF m.saturn.intenable THEN do_interupt(m)
  ELSE [m EXCEPT !.saturn.int_pending = TRUE, !.interrupt_called = TRUE]
GetEvent(m, env) == IF env.key THEN do_kbd_int(m) ELSE m

-----------------------------------------------------------------------------
(* transmit_char(): the character is gone.  receive_char() finds no line. *)
transmit_char(m) ==
  LET sent == [m EXCEPT !.saturn.tcs = (@ \div 2) * 2]
  IN IF Bit(m.saturn.io_ctrl, 2) THEN do_interupt(sent) ELSE sent
receive_char(m) == m

(* check_devices(), one request after the other. *)
CheckDisplay(m) ==
  LET n == [m EXCEPT !.display_touched = IF @ > 0 THEN @ - 1 ELSE @]
      drawn == IF m.display_touched = 1 THEN update_display(n) ELSE n
  IN IF n.display_touched > 0 THEN [drawn EXCEPT !.device_check = TRUE] ELSE drawn

CheckAnnunc(m) == IF "ann" \in m.touched THEN draw_annunc(m) ELSE m

CheckIoc(m) ==
  IF "ioc" \in m.touched /\ Bit(m.saturn.io_ctrl, 1) /\ Bit(m.saturn.rcs, 0)
  THEN do_interupt(m) ELSE m

CheckRbr(m) == IF "rbr" \in m.touched THEN receive_char(m) ELSE m
CheckTbr(m) == IF "tbr" \in m.touched THEN transmit_char(m) ELSE m

CheckTimers(m) ==
  LET t1 == IF "t1" \in m.touched
            THEN [m EXCEPT !.sched.timer1 = m.saturn.t1_tick, !.set_t1 = m.saturn.timer1,
                           !.t1_ticks = 0]
            ELSE m
  IN IF "t2" \in m.touched THEN [t1 EXCEPT !.sched.timer2 = m.saturn.t2_tick] ELSE t1

check_devices(m) ==
  [CheckTimers(CheckTbr(CheckRbr(CheckIoc(CheckAnnunc(CheckDisplay(m)))))) EXCEPT !.touched = {}]

-----------------------------------------------------------------------------
(* Timer 2 has expired: bit 3 of its control register, and an interrupt. *)
Expire2(m) == do_interupt([m EXCEPT !.saturn.t2_ctrl = IF Bit(@, 3) THEN @ ELSE @ + 8])
Expire1(m) == do_interupt([m EXCEPT !.saturn.t1_ctrl = IF Bit(@, 3) THEN @ ELSE @ + 8])

(* schedule(): one more tick of timer 2 ... *)
ScheduleTimer2(m, period) ==
  LET left == Minus(m.sched.timer2, m.steps)
      ran == IF Bit(m.saturn.t2_ctrl, 0) THEN [m EXCEPT !.saturn.timer2 = Late(@ - 1)] ELSE m
      next == [ran EXCEPT !.sched.timer2 = IF m.saturn.intenable THEN m.saturn.t2_tick
                                           ELSE period.timer2]
      n == IF left > 0 THEN [m EXCEPT !.sched.timer2 = left]
           ELSE IF next.saturn.timer2 = 0 /\ Bit(next.saturn.t2_ctrl, 1) THEN Expire2(next)
           ELSE next
  IN [n EXCEPT !.schedule_event = n.sched.timer2]

(* ... the devices, with the countdown to a drawing of the display ... *)
CountDisplay(m) ==
  LET left == Minus(m.sched.display, m.steps)
      touched == m.display_touched - m.steps
      n == [m EXCEPT !.sched.display = left]
  IN IF left > 0 \/ m.display_touched = 0 THEN n
     ELSE [n EXCEPT !.display_touched = IF touched < 0 THEN 1 ELSE touched]

ScheduleDevices(m) ==
  LET n == check_devices(CountDisplay([m EXCEPT !.device_check = FALSE]))
      display == IF n.display_touched # 0 THEN n.display_touched - 1 ELSE NEVER
  IN IF ~m.device_check THEN m ELSE Before([n EXCEPT !.sched.display = display], display)

(* ... the serial port ... *)
ScheduleReceive(m, period) ==
  LET left == Minus(m.sched.receive, m.steps)
      n == IF left > 0 THEN [m EXCEPT !.sched.receive = left]
           ELSE [IF Bit(m.saturn.rcs, 0) THEN m ELSE receive_char(m)
                   EXCEPT !.sched.receive = period.receive]
  IN Before(n, n.sched.receive)

(* Mutant: an expiry is looked for on the tick of 0 only. *)
NoticeTimer2AtZero(m) ==
  IF ~Bit(m.saturn.t2_ctrl, 3) /\ m.saturn.timer2 = 0 /\ Bit(m.saturn.t2_ctrl, 1)
  THEN Expire2(m) ELSE m

(* ... both timers, set by the host's clock, outside of the interrupt
   service routine, or as soon as it returns ... *)
NoticeTimer2(m) ==
  IF ~Bit(m.saturn.t2_ctrl, 3) /\ m.saturn.timer2 <= 0 /\ Bit(m.saturn.t2_ctrl, 1)
  THEN Expire2(m) ELSE m

(* Mutant: timer 1 is left below 0. *)
AdjustTimer1Below(m) ==
  LET timer1 == Char(m.set_t1 - m.t1_ticks)
      n == [m EXCEPT !.saturn.timer1 = timer1]
  IN IF ~Bit(n.saturn.t1_ctrl, 3) /\ timer1 <= 0 /\ Bit(n.saturn.t1_ctrl, 1)
     THEN Expire1(n) ELSE n

AdjustTimer1(m) ==
  LET timer1 == Char(m.set_t1 - m.t1_ticks)
      n == [m EXCEPT !.saturn.timer1 = timer1 % 16]
  IN IF ~Bit(n.saturn.t1_ctrl, 3) /\ timer1 <= 0 /\ Bit(n.saturn.t1_ctrl, 1)
     THEN Expire1(n) ELSE n

ScheduleAdjtime(m, period, env) ==
  LET left == Minus(m.sched.adjtime, m.steps)
      due == [m EXCEPT !.sched.adjtime = period.adjtime]
      n == IF left > 0 THEN [m EXCEPT !.sched.adjtime = left]
           ELSE IF m.saturn.PC = "service" THEN [due EXCEPT !.adj_time_pending = TRUE]
           ELSE [AdjustTimer1(NoticeTimer2(get_t1_t2(due, env))) EXCEPT !.adj_time_pending = FALSE]
  IN Before(n, n.sched.adjtime)

(* ... one more tick of timer 1 ... *)
ScheduleTimer1(m, period) ==
  LET left == Minus(m.sched.timer1, m.steps)
      next == [m EXCEPT !.saturn.timer1 = (@ - 1) % 16,
                        !.sched.timer1 = IF m.saturn.intenable THEN m.saturn.t1_tick
                                         ELSE period.timer1]
      n == IF left > 0 THEN [m EXCEPT !.sched.timer1 = left]
           ELSE IF next.saturn.timer1 = 0 /\ Bit(next.saturn.t1_ctrl, 1) THEN Expire1(next)
           ELSE next
  IN Before(n, n.sched.timer1)

(* ... and how many instructions a tick takes. *)
ScheduleStatistics(m, period, env) ==
  LET left == Minus(m.sched.statistics, m.steps)
      n == IF left > 0 THEN [m EXCEPT !.sched.statistics = left]
           ELSE [m EXCEPT !.sched.statistics = period.statistics,
                          !.saturn.t1_tick = env.ticks[1], !.saturn.t2_tick = env.ticks[2]]
  IN Before(n, n.sched.statistics)

(* schedule().  Counting the instructions anew (instr_rollover) changes none of
   the differences that are used here.  Mostly no alarm has been raised. *)
schedule(m, period, env) ==
  LET n == ScheduleStatistics(
             ScheduleTimer1(
               ScheduleAdjtime(
                 ScheduleReceive(
                   ScheduleDevices(ScheduleTimer2(m, period)), period), period, env), period),
             period, env)
  IN GetEvent([n EXCEPT !.steps = 0, !.schedule_event = Minus(@, 1)], env)

(* emulate() after an instruction. *)
AfterInstruction(m, period, env) ==
  LET n == [m EXCEPT !.steps = @ + 1, !.schedule_event = Minus(@, 1)]
  IN IF m.schedule_event <= 0 THEN schedule(n, period, env) ELSE n

-----------------------------------------------------------------------------
(* do_shutdown() up to its loop; outZero: no row of keys is selected. *)
ShutdownBegin(m, outZero) ==
  LET drawn == IF m.display_touched # 0 THEN update_display([m EXCEPT !.display_touched = 0]) ELSE m
      n == [drawn EXCEPT !.awake = FALSE]
  IN IF outZero THEN [n EXCEPT !.saturn.intenable = TRUE, !.saturn.int_pending = FALSE] ELSE n

(* A turn of the loop after an alarm. *)
Alarm(m, env) ==
  LET got == get_t1_t2(m, env)
      timer1 == Char(m.set_t1 - got.t1_ticks)
      clock == [got EXCEPT !.saturn.timer1 = IF timer1 <= 0 THEN timer1 % 16 ELSE timer1,
                           !.set_t1 = got.t1_ticks, !.interrupt_called = FALSE]
      keys == GetEvent(clock, env)
      late2 == keys.saturn.timer2 <= 0
      t2 == IF late2 /\ Bit(keys.saturn.t2_ctrl, 1) THEN Expire2(keys) ELSE keys
      late1 == timer1 <= 0
      t1 == IF late1 /\ (Bit(t2.saturn.t1_ctrl, 0) \/ Bit(t2.saturn.t1_ctrl, 1))
            THEN Expire1(t2) ELSE t2
      wake == \/ keys.interrupt_called
              \/ late2 /\ (Bit(keys.saturn.t2_ctrl, 1) \/ Bit(keys.saturn.t2_ctrl, 2))
              \/ late1 /\ \E i \in 0 .. 2 : Bit(keys.saturn.t1_ctrl, i)
  IN IF wake THEN [t1 EXCEPT !.awake = TRUE]
     ELSE [receive_char(t1) EXCEPT !.interrupt_called = FALSE]
=============================================================================
