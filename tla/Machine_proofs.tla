---------------------------- MODULE Machine_proofs ----------------------------
(***************************************************************************)
(* The calculator and the program around it, for every ROM, host, size of  *)
(* the display, file of before and setting of the bounds.                  *)
(*                                                                         *)
(* 1. Both threads share the LCD without a lock: what the emulator thread  *)
(*    has drawn is shown, or flipable says that it is to be, but for       *)
(*    drawings between the SDL thread's copy and its clearing of flipable. *)
(* 2. The state files: struct saturn is read back as it was written.       *)
(* 3. The layout of the display follows each write to a register.          *)
(* 4. The registers, the interrupts and the timers.                        *)
(* 5. Drawing: two caches, and the nibbles of memory below them.           *)
(* 6. The requests, the devices that serve them and the scheduler.         *)
(* 7. The instructions that use the registers.                             *)
(* 8. A start from the files, and the saving of them.                      *)
(* 9. The inductive invariant and the theorems.                            *)
(***************************************************************************)
EXTENDS Machine, RecursiveFunctions, SequenceTheorems, TLAPS

(***************************************************************************)
(* 1. An operator of the emulator thread maps its memory m to n.           *)
(* Tells(m, n) says that it does not change the pixels without setting     *)
(* flipable, and does not clear flipable; one lemma for each operator.     *)
(***************************************************************************)

(* The part of m that render() reads. *)
Framed(n) ==
  /\ {"flipable", "buffer"} \subseteq DOMAIN n
  /\ n.flipable \in BOOLEAN
  /\ n.buffer = [p \in Seen |-> n.buffer[p]]

Same(n, o) ==
  /\ DOMAIN o = DOMAIN n
  /\ o.flipable = n.flipable
  /\ o.buffer = n.buffer

Tells(n, o) ==
  /\ Framed(o)
  /\ n.flipable => o.flipable
  /\ o.buffer = n.buffer \/ o.flipable

LEMMA SameTells ==
  ASSUME NEW n, NEW o, Framed(n), Same(n, o)
  PROVE  Tells(n, o)
  BY DEF Framed, Same, Tells

LEMMA TellsOn ==
  ASSUME NEW n, NEW o, NEW q, Tells(n, o), Tells(o, q)
  PROVE  Tells(n, q)
  BY DEF Framed, Tells

LEMMA InterruptSame == ASSUME NEW n, Framed(n) PROVE Same(n, do_interupt(n))
  BY DEF Framed, Same, do_interupt

LEMMA DrawNibbles ==
  ASSUME NEW n, NEW image, Framed(n)
  PROVE  Tells(n, draw_nibbles(n, image))
  <1> DEFINE drawn == {p \in DOMAIN image : image[p] # n.lcd_buffer[p]}
             o == draw_nibbles(n, image)
  <1>1. /\ DOMAIN o = DOMAIN n
        /\ o.flipable = (n.flipable \/ drawn \cap Seen # {})
        /\ o.buffer = [p \in Seen |-> IF p \in drawn THEN image[p] ELSE n.buffer[p]]
    BY DEF draw_nibbles, Framed
  <1> HIDE DEF o
  <1>2. ASSUME drawn \cap Seen = {} PROVE Tells(n, o)
    <2>1. o.buffer = [p \in Seen |-> n.buffer[p]]
      BY <1>1, <1>2
    <2>2. Same(n, o)
      BY <1>1, <1>2, <2>1 DEF Framed, Same
    <2> QED  BY <2>2, SameTells
  <1>3. ASSUME drawn \cap Seen # {} PROVE Tells(n, o)
    <2>1. o.flipable = TRUE
      BY <1>1, <1>3
    <2>2. o.buffer = [p \in Seen |-> o.buffer[p]]
      BY <1>1
    <2> QED  BY <1>1, <2>1, <2>2 DEF Framed, Tells
  <1>4. Tells(n, o)
    BY <1>2, <1>3
  <1> QED  BY <1>4 DEF o

LEMMA DrawChanged ==
  ASSUME NEW n, NEW image, Framed(n)
  PROVE  Tells(n, draw_changed(n, image))
  <1> DEFINE new == {p \in DOMAIN image : image[p] # n.disp_buf[p]}
             o == [n EXCEPT !.disp_buf = [p \in Cell |-> IF p \in new THEN image[p] ELSE @[p]]]
  <1>1. Same(n, o)
    BY DEF Framed, Same
  <1>2. Tells(n, o) /\ Framed(o)
    BY <1>1, SameTells DEF Tells
  <1>3. Tells(o, draw_nibbles(o, [p \in new |-> image[p]]))
    BY <1>2, DrawNibbles
  <1> QED  BY <1>2, <1>3, TellsOn DEF draw_changed

-----------------------------------------------------------------------------
(* Drawing. *)

LEMMA UpdateDisplay ==
  ASSUME NEW n, Framed(n)
  PROVE  Tells(n, update_display(n))
  <1> DEFINE o == [n EXCEPT !.drawn = TRUE]
  <1>1. Same(n, o)
    BY DEF Framed, Same
  <1>2. Tells(n, o) /\ Framed(o)
    BY <1>1, SameTells DEF Tells
  <1> HIDE DEF o
  <1>3. Tells(o, DrawRows(o))
    <2>1. ASSUME NEW rows, NEW offset, NEW lines
          PROVE  Same(o, [o EXCEPT !.disp_buf = Forget(@, rows), !.lcd_buffer = Forget(@, rows),
                                   !.old_offset = offset, !.old_lines = lines])
      BY <1>2 DEF Framed, Same
    <2>2. ASSUME NEW q, Same(o, q), NEW image PROVE Tells(o, draw_changed(q, image))
      BY <1>2, <2>2, SameTells, DrawChanged, TellsOn DEF Tells
    <2> QED  BY <2>1, <2>2 DEF DrawRows
  <1>4. Tells(o, Blank(o))
    <2>1. ASSUME NEW cache PROVE Same(o, [o EXCEPT !.disp_buf = cache])
      BY <1>2 DEF Framed, Same
    <2>2. ASSUME NEW cache, NEW image PROVE Tells(o, draw_nibbles([o EXCEPT !.disp_buf = cache], image))
      BY <1>2, <2>1, SameTells, DrawNibbles, TellsOn DEF Tells
    <2> QED  BY <2>2 DEF Blank
  <1> QED  BY <1>2, <1>3, <1>4, TellsOn DEF update_display, o

LEMMA WriteNibble ==
  ASSUME NEW n, NEW addr, NEW val, Framed(n)
  PROVE  Tells(n, write_nibble(n, addr, val))
  <1> DEFINE stored == [n EXCEPT !.ram[addr] = val]
             shown == IF addr >= n.display.disp_start /\ addr < n.display.disp_end
                      THEN disp_draw_nibble(stored, addr, val) ELSE stored
  <1>1. Same(n, stored)
    BY DEF Framed, Same
  <1>2. Tells(n, stored) /\ Framed(stored)
    BY <1>1, SameTells DEF Tells
  <1> HIDE DEF stored
  <1>3. ASSUME NEW o, Framed(o) PROVE Tells(o, disp_draw_nibble(o, addr, val))
    BY <1>3, DrawChanged, SameTells DEF disp_draw_nibble, Same
  <1>4. ASSUME NEW o, Framed(o) PROVE Tells(o, menu_draw_nibble(o, addr, val))
    BY <1>4, DrawChanged DEF menu_draw_nibble
  <1>5. Tells(n, shown) /\ Framed(shown)
    BY <1>2, <1>3, TellsOn DEF Tells
  <1>6. Tells(n, menu_draw_nibble(shown, addr, val))
    BY <1>4, <1>5, TellsOn
  <1>7. write_nibble(n, addr, val) \in {stored, shown, menu_draw_nibble(shown, addr, val)}
    BY DEF write_nibble, stored
  <1> QED  BY <1>2, <1>5, <1>6, <1>7

LEMMA DrawAnnunc ==
  ASSUME NEW n, Framed(n)
  PROVE  Tells(n, draw_annunc(n))
  BY DEF draw_annunc, Framed, Tells

-----------------------------------------------------------------------------
(* The I/O registers draw nothing themselves. *)

LEMMA RelayoutSame ==
  ASSUME NEW n, NEW d, Framed(n)
  PROVE  Same(n, Relayout(n, d)) /\ Same(n, DrawLater(n))
  BY DEF Framed, Same, Relayout, DrawLater

LEMMA ReadDevMem ==
  ASSUME NEW n, NEW addr, Framed(n)
  PROVE  Same(n, read_dev_mem(n, addr).memory)
  BY DEF Framed, Same, read_dev_mem, CheckDevicesSoon

LEMMA WriteDevMem ==
  ASSUME NEW n, NEW addr, NEW val, Framed(n)
  PROVE  Same(n, write_dev_mem(n, addr, val))
  <1> DEFINE soon == CheckDevicesSoon(n)
  <1>1. Same(n, soon) /\ Framed(soon)
    BY DEF Framed, Same, CheckDevicesSoon
  <1> HIDE DEF soon
  <1>2. ASSUME NEW o, Framed(o) PROVE Same(o, WriteDispIo(o, val))
    BY <1>2 DEF WriteDispIo, Relayout, DrawLater, Framed, Same
  <1>3. ASSUME NEW o, NEW name, NEW i, Framed(o) PROVE Same(o, SideEffect(o, name, i, val))
    <2>1. Same(o, DispAddrWritten(o)) /\ Same(o, LineOffsetWritten(o))
      BY <1>3 DEF DispAddrWritten, LineOffsetWritten, Relayout, DrawLater, Framed, Same
    <2>2. Same(o, LineCountWritten(o)) /\ Same(o, MenuAddrWritten(o))
      BY <1>3 DEF LineCountWritten, MenuAddrWritten, Relayout, DrawLater, Framed, Same
    <2>3. ASSUME name = "card_ctrl" PROVE Same(o, SideEffect(o, name, i, val))
      BY <1>3, <2>3 DEF SideEffect, do_interupt, Framed, Same
    <2>4. CASE name \in {"contrast_ctrl", "disp_test", "annunc", "tbr"}
      BY <1>3, <2>4 DEF SideEffect, Framed, Same
    <2>5. CASE name \in {"disp_addr", "line_offset", "line_count", "menu_addr"}
      BY <2>1, <2>2, <2>5 DEF SideEffect
    <2> QED  BY <2>3, <2>4, <2>5 DEF SideEffect, Same
  <1> DEFINE r == Register(addr)
             stored == [soon EXCEPT !.saturn[r[1]] = StoreNibble(r[1], @, addr - r[2], val),
                                    !.touched = @ \cup (IF r[1] = "disp_test" /\ addr - r[2] = 1 THEN {}
                                                        ELSE RequestOf(r[1]))]
             crer == [soon EXCEPT !.saturn.rcs = (@ % 4) + (8 * (@ \div 8))]
  <1>4. Same(soon, stored) /\ Framed(stored) /\ Same(soon, crer)
    BY <1>1 DEF Framed, Same
  <1>5. write_dev_mem(n, addr, val)
          \in {WriteDispIo(soon, val), soon, crer, SideEffect(stored, r[1], addr - r[2], val)}
    BY DEF write_dev_mem, soon
  <1> HIDE DEF stored, crer, r
  <1>6. Same(soon, WriteDispIo(soon, val)) /\ Same(stored, SideEffect(stored, r[1], addr - r[2], val))
    BY <1>1, <1>2, <1>3, <1>4
  <1> QED  BY <1>1, <1>4, <1>5, <1>6 DEF Same

-----------------------------------------------------------------------------
(* Between two instructions only check_devices() draws. *)

LEMMA SameOn ==
  ASSUME NEW n, NEW o, NEW q, Same(n, o), Same(o, q)
  PROVE  Same(n, q)
  BY DEF Same

LEMMA SameFramed ==
  ASSUME NEW n, NEW o, Framed(n), Same(n, o)
  PROVE  Framed(o)
  BY DEF Framed, Same

LEMMA Expiring ==
  ASSUME NEW n, Framed(n)
  PROVE  Same(n, Expire1(n)) /\ Same(n, Expire2(n))
  BY DEF Framed, Same, Expire1, Expire2, do_interupt

LEMMA ClockSame ==
  ASSUME NEW n, NEW env, Framed(n)
  PROVE  Same(n, get_t1_t2(n, env)) /\ Same(n, GetEvent(n, env))
  BY DEF Framed, Same, get_t1_t2, GetEvent, do_kbd_int, do_interupt

LEMMA CheckDevices ==
  ASSUME NEW n, Framed(n)
  PROVE  Tells(n, check_devices(n))
  <1>1. Tells(n, CheckDisplay(n))
    <2> DEFINE o == [n EXCEPT !.display_touched = IF @ > 0 THEN @ - 1 ELSE @]
               drawn == IF n.display_touched = 1 THEN update_display(o) ELSE o
    <2>1. Tells(n, o) /\ Framed(o)
      BY SameTells DEF Framed, Same, Tells
    <2>2. Tells(n, drawn) /\ Framed(drawn)
      <3> HIDE DEF o
      <3> QED  BY <2>1, UpdateDisplay, TellsOn DEF Tells
    <2>3. CheckDisplay(n) \in {drawn, [drawn EXCEPT !.device_check = TRUE]}
      BY DEF CheckDisplay
    <2> HIDE DEF o, drawn
    <2>4. Same(drawn, [drawn EXCEPT !.device_check = TRUE])
      BY <2>2 DEF Framed, Same
    <2>5. Tells(n, [drawn EXCEPT !.device_check = TRUE])
      BY <2>2, <2>4, SameTells, TellsOn
    <2> QED  BY <2>2, <2>3, <2>5
  <1>2. ASSUME NEW o, Framed(o) PROVE Tells(o, CheckAnnunc(o))
    BY <1>2, DrawAnnunc, SameTells DEF CheckAnnunc, Same
  <1>3. ASSUME NEW o, Framed(o)
        PROVE  Same(o, CheckIoc(o)) /\ Same(o, CheckRbr(o)) /\ Same(o, CheckTbr(o))
    BY <1>3 DEF Framed, Same, CheckIoc, CheckRbr, CheckTbr, receive_char, transmit_char, do_interupt
  <1>4. ASSUME NEW o, Framed(o) PROVE Same(o, [CheckTimers(o) EXCEPT !.touched = {}])
    BY <1>4 DEF Framed, Same, CheckTimers
  <1>5. ASSUME NEW o, Framed(o)
        PROVE  Same(o, [CheckTimers(CheckTbr(CheckRbr(CheckIoc(o)))) EXCEPT !.touched = {}])
    BY <1>3, <1>4, <1>5, SameOn, SameFramed
  <1>6. Tells(n, CheckAnnunc(CheckDisplay(n)))
    BY <1>1, <1>2, TellsOn DEF Tells
  <1> QED  BY <1>5, <1>6, SameTells, TellsOn DEF check_devices, Tells

LEMMA Devices ==
  ASSUME NEW n, Framed(n)
  PROVE  Tells(n, ScheduleDevices(n))
  <1> DEFINE o == CountDisplay([n EXCEPT !.device_check = FALSE])
             c == check_devices(o)
  <1>1. Same(n, o) /\ Framed(o)
    BY DEF Framed, Same, CountDisplay
  <1> HIDE DEF o
  <1>2. Tells(n, c) /\ Framed(c)
    BY <1>1, CheckDevices, SameTells, TellsOn DEF Tells
  <1> HIDE DEF c
  <1>3. ASSUME NEW count, NEW left
        PROVE  Same(c, Before([c EXCEPT !.sched.display = left], count))
    BY <1>2 DEF Framed, Same, Before
  <1>4. ASSUME NEW count, NEW left
        PROVE  Tells(n, Before([c EXCEPT !.sched.display = left], count))
    BY <1>2, <1>3, SameTells, TellsOn
  <1>5. Tells(n, n)
    BY SameTells DEF Same
  <1> QED  BY <1>4, <1>5 DEF ScheduleDevices, o, c

LEMMA Countdowns ==
  ASSUME NEW n, NEW period, NEW env, Framed(n)
  PROVE  /\ Same(n, ScheduleTimer2(n, period))
         /\ Same(n, ScheduleReceive(n, period))
         /\ Same(n, ScheduleTimer1(n, period))
         /\ Same(n, ScheduleStatistics(n, period, env))
  <1>1. Same(n, ScheduleTimer2(n, period))
    BY DEF Framed, Same, ScheduleTimer2, Expire2, do_interupt
  <1>2. Same(n, ScheduleReceive(n, period))
    BY DEF Framed, Same, ScheduleReceive, receive_char, Before
  <1>3. Same(n, ScheduleTimer1(n, period))
    BY DEF Framed, Same, ScheduleTimer1, Expire1, do_interupt, Before
  <1>4. Same(n, ScheduleStatistics(n, period, env))
    BY DEF Framed, Same, ScheduleStatistics, Before
  <1> QED  BY <1>1, <1>2, <1>3, <1>4

LEMMA Adjtime ==
  ASSUME NEW n, NEW period, NEW env, Framed(n)
  PROVE  Same(n, ScheduleAdjtime(n, period, env))
  <1> DEFINE due == [n EXCEPT !.sched.adjtime = period.adjtime]
             noticed == NoticeTimer2(get_t1_t2(due, env))
             adjusted == AdjustTimer1(noticed)
  <1>1. Same(n, due) /\ Framed(due)
    BY DEF Framed, Same
  <1> HIDE DEF due
  <1>2. ASSUME NEW o, Framed(o) PROVE Same(o, NoticeTimer2(o)) /\ Same(o, AdjustTimer1(o))
    BY <1>2 DEF NoticeTimer2, AdjustTimer1, Expire1, Expire2, do_interupt, Framed, Same
  <1>3. Same(n, noticed) /\ Framed(noticed)
    BY <1>1, <1>2, ClockSame, SameOn, SameFramed
  <1> HIDE DEF noticed
  <1>4. Same(n, adjusted) /\ Framed(adjusted)
    BY <1>2, <1>3, SameOn, SameFramed
  <1> HIDE DEF adjusted
  <1>5. ASSUME NEW q, NEW count, Same(n, q) PROVE Same(n, Before(q, count))
    BY <1>5 DEF Framed, Same, Before
  <1>6. /\ Same(n, [adjusted EXCEPT !.adj_time_pending = FALSE])
        /\ Same(n, [due EXCEPT !.adj_time_pending = TRUE])
        /\ \A left : Same(n, [n EXCEPT !.sched.adjtime = left])
    BY <1>1, <1>4 DEF Framed, Same
  <1> QED  BY <1>5, <1>6 DEF ScheduleAdjtime, due, noticed, adjusted

LEMMA Schedule ==
  ASSUME NEW n, NEW period, NEW env, Framed(n)
  PROVE  Tells(n, schedule(n, period, env))
  <1> DEFINE t2 == ScheduleTimer2(n, period)
             devices == ScheduleDevices(t2)
             receive == ScheduleReceive(devices, period)
             adjtime == ScheduleAdjtime(receive, period, env)
             t1 == ScheduleTimer1(adjtime, period)
             last == ScheduleStatistics(t1, period, env)
             left == [last EXCEPT !.steps = 0, !.schedule_event = Minus(@, 1)]
  <1>1. Tells(n, t2) /\ Framed(t2)
    BY Countdowns, SameTells DEF Tells
  <1>2. Tells(n, devices) /\ Framed(devices)
    BY <1>1, Devices, TellsOn DEF Tells
  <1>3. Tells(n, receive) /\ Framed(receive)
    BY <1>2, Countdowns, SameTells, TellsOn DEF Tells
  <1>4. Tells(n, adjtime) /\ Framed(adjtime)
    BY <1>3, Adjtime, SameTells, TellsOn DEF Tells
  <1>5. Tells(n, t1) /\ Framed(t1)
    BY <1>4, Countdowns, SameTells, TellsOn DEF Tells
  <1>6. Tells(n, last) /\ Framed(last)
    BY <1>5, Countdowns, SameTells, TellsOn DEF Tells
  <1> HIDE DEF last
  <1>7. Same(last, left) /\ Framed(left)
    BY <1>6 DEF Framed, Same
  <1> HIDE DEF left
  <1>8. Same(last, GetEvent(left, env))
    BY <1>7, ClockSame, SameOn
  <1>9. Tells(n, GetEvent(left, env))
    BY <1>6, <1>8, SameTells, TellsOn
  <1> QED  BY <1>9 DEF schedule, left, last

LEMMA After ==
  ASSUME NEW n, NEW period, NEW env, Framed(n)
  PROVE  Tells(n, AfterInstruction(n, period, env))
  <1> DEFINE o == [n EXCEPT !.steps = @ + 1, !.schedule_event = Minus(@, 1)]
  <1>1. Tells(n, o) /\ Framed(o)
    BY SameTells DEF Framed, Same, Tells
  <1> HIDE DEF o
  <1>2. Tells(n, schedule(o, period, env))
    BY <1>1, Schedule, TellsOn
  <1> QED  BY <1>1, <1>2 DEF AfterInstruction, o

LEMMA ShutdownTells ==
  ASSUME NEW n, NEW outZero, Framed(n)
  PROVE  Tells(n, ShutdownBegin(n, outZero))
  <1> DEFINE zero == [n EXCEPT !.display_touched = 0]
             drawn == IF n.display_touched # 0 THEN update_display(zero) ELSE n
  <1>1. Tells(n, zero) /\ Framed(zero) /\ Tells(n, n)
    BY SameTells DEF Framed, Same, Tells
  <1> HIDE DEF zero
  <1>2. Tells(n, drawn) /\ Framed(drawn)
    BY <1>1, UpdateDisplay, TellsOn DEF Tells
  <1> HIDE DEF drawn
  <1>3. /\ Same(drawn, [drawn EXCEPT !.awake = FALSE])
        /\ Same(drawn, [[drawn EXCEPT !.awake = FALSE]
                          EXCEPT !.saturn.intenable = TRUE, !.saturn.int_pending = FALSE])
    BY <1>2 DEF Framed, Same
  <1>4. /\ Tells(n, [drawn EXCEPT !.awake = FALSE])
        /\ Tells(n, [[drawn EXCEPT !.awake = FALSE]
                       EXCEPT !.saturn.intenable = TRUE, !.saturn.int_pending = FALSE])
    BY <1>2, <1>3, SameTells, TellsOn
  <1> QED  BY <1>4 DEF ShutdownBegin, drawn, zero

LEMMA AlarmSame ==
  ASSUME NEW n, NEW env, Framed(n)
  PROVE  Same(n, Alarm(n, env))
  <1> DEFINE got == get_t1_t2(n, env)
  <1>1. Same(n, got) /\ Framed(got)
    BY ClockSame, SameFramed
  <1> HIDE DEF got
  <1>2. ASSUME NEW t, NEW set
        PROVE  Same(n, [got EXCEPT !.saturn.timer1 = t, !.set_t1 = set, !.interrupt_called = FALSE])
    BY <1>1 DEF Framed, Same
  <1>3. ASSUME NEW o, Same(n, o) PROVE Same(n, GetEvent(o, env))
    BY <1>3, ClockSame, SameOn, SameFramed
  <1>4. ASSUME NEW o, Same(n, o) PROVE Same(n, Expire1(o)) /\ Same(n, Expire2(o))
    BY <1>4, Expiring, SameOn, SameFramed
  <1>5. ASSUME NEW o, Same(n, o)
        PROVE  /\ Same(n, [o EXCEPT !.awake = TRUE])
               /\ Same(n, [receive_char(o) EXCEPT !.interrupt_called = FALSE])
    BY <1>5 DEF Framed, Same, receive_char
  <1> DEFINE timer1 == Char(n.set_t1 - got.t1_ticks)
             clock == [got EXCEPT !.saturn.timer1 = IF timer1 <= 0 THEN timer1 % 16 ELSE timer1,
                                  !.set_t1 = got.t1_ticks, !.interrupt_called = FALSE]
             keys == GetEvent(clock, env)
             t2 == IF keys.saturn.timer2 <= 0 /\ Bit(keys.saturn.t2_ctrl, 1) THEN Expire2(keys) ELSE keys
             t1 == IF timer1 <= 0 /\ (Bit(t2.saturn.t1_ctrl, 0) \/ Bit(t2.saturn.t1_ctrl, 1))
                   THEN Expire1(t2) ELSE t2
  <1>6. Same(n, clock)
    BY <1>2
  <1> HIDE DEF timer1, clock
  <1>7. Same(n, keys)
    BY <1>3, <1>6
  <1> HIDE DEF keys
  <1>8. Same(n, t2)
    BY <1>4, <1>7
  <1> HIDE DEF t2
  <1>9. Same(n, t1)
    BY <1>4, <1>8
  <1> HIDE DEF t1
  <1>10. Alarm(n, env) \in {[t1 EXCEPT !.awake = TRUE],
                            [receive_char(t1) EXCEPT !.interrupt_called = FALSE]}
    BY DEF Alarm, t1, t2, keys, clock, timer1, got
  <1> QED  BY <1>5, <1>9, <1>10

LEMMA EffectTells ==
  ASSUME NEW n, NEW o, Framed(n)
  PROVE  Tells(n, Effect(n, o)) /\ Framed(Effect(n, o))
  <1>1. CASE o.op = "write"
    <2> DEFINE w == write_dev_mem(n, o.addr, o.val)
    <2>1. Same(n, w) /\ Framed(w)
      BY WriteDevMem, SameFramed
    <2>2. Effect(n, o) = [w EXCEPT !.saturn.timer2 = Late(@)]
      BY <1>1 DEF Effect
    <2> HIDE DEF w
    <2>3. Same(w, [w EXCEPT !.saturn.timer2 = Late(@)])
      BY <2>1 DEF Framed, Same
    <2> QED  BY <2>1, <2>2, <2>3, SameOn, SameTells DEF Tells
  <1>2. CASE o.op = "poll"
    <2> DEFINE r == read_dev_mem(n, o.addr)
    <2>1. Same(n, r.memory) /\ Framed(r.memory)
      BY ReadDevMem, SameFramed
    <2>2. Effect(n, o) = write_nibble(r.memory, o.to, r.nibble)
      BY <1>2 DEF Effect
    <2> HIDE DEF r
    <2> QED  BY <2>1, <2>2, WriteNibble, SameTells, TellsOn DEF Tells
  <1>3. CASE o.op = "store"
    BY <1>3, WriteNibble DEF Effect, Tells
  <1>4. CASE o.op = "card"
    <2>1. Same(n, [n EXCEPT !.port[o.port].data = o.val])
      BY DEF Framed, Same
    <2> QED  BY <1>4, <2>1, SameTells DEF Effect, Tells
  <1>5. CASE o.op = "service"
    <2>1. Same(n, [n EXCEPT !.saturn.PC = "service"])
      BY DEF Framed, Same
    <2> QED  BY <1>5, <2>1, SameTells DEF Effect, Tells
  <1>6. CASE o.op = "rti"
    <2>1. Same(n, Return(n))
      BY DEF Return, Framed, Same
    <2> QED  BY <1>6, <2>1, SameTells DEF Effect, Tells
  <1>7. CASE o.op \notin {"write", "poll", "store", "card", "service", "rti"}
    BY <1>7, SameTells DEF Effect, Same, Tells
  <1> QED  BY <1>1, <1>2, <1>3, <1>4, <1>5, <1>6, <1>7

-----------------------------------------------------------------------------
(* What a step of either thread does to the LCD, or a start. *)
Shows ==
  \/ /\ Tells(m, m')
     /\ texture' = texture
  \/ /\ m' = m
     /\ texture' = m.buffer
  \/ /\ pc = "clear"
     /\ m'.buffer = m.buffer
     /\ texture' = texture
  \/ texture' = m'.buffer

LEMMA PowerOnFramed ==
  ASSUME NEW f, NEW period, NEW time
  PROVE  /\ Framed(PowerOn(f, period, time))
         /\ PowerOn(f, period, time).buffer = [p \in Seen |-> Dark]
  BY DEF PowerOn, Framed

LEMMA EmulatorShows ==
  ASSUME Framed(m), Emulator \/ LoadCounter \/ \E outZero : Shutdown(outZero)
  PROVE  Framed(m') /\ Shows
  <1>1. ASSUME NEW o, NEW env, Execute(o, env) PROVE Tells(m, m') /\ texture' = texture
    BY <1>1, EffectTells, After, TellsOn DEF Execute, mainVars
  <1>2. ASSUME NEW env, StoreCounter(env) PROVE Tells(m, m') /\ texture' = texture
    <2> DEFINE o == [m EXCEPT !.speaker_counter = loaded + 1, !.last_state = ~@]
    <2>1. Same(m, o) /\ Framed(o)
      BY DEF Framed, Same
    <2>2. m' = AfterInstruction(o, setup.period, env) /\ texture' = texture
      BY <1>2 DEF StoreCounter, mainVars
    <2> HIDE DEF o
    <2> QED  BY <2>1, <2>2, After, SameTells, TellsOn
  <1>3. ASSUME NEW env, Sleep(env) PROVE Tells(m, m') /\ texture' = texture
    <2> DEFINE n == Alarm(m, env)
    <2>1. Tells(m, n) /\ Framed(n)
      BY AlarmSame, SameTells DEF Tells
    <2>2. m' \in {n, AfterInstruction(n, setup.period, env)} /\ texture' = texture
      BY <1>3 DEF Sleep, mainVars
    <2> HIDE DEF n
    <2> QED  BY <2>1, <2>2, After, TellsOn
  <1>4. CASE Emulator
    BY <1>1, <1>2, <1>3, <1>4 DEF Emulator, Shows, Tells
  <1>5. CASE LoadCounter
    BY <1>5, SameTells DEF LoadCounter, mainVars, Shows, Same
  <1>6. CASE \E outZero : Shutdown(outZero)
    BY <1>6, ShutdownTells DEF Shutdown, mainVars, Shows, Tells
  <1> QED  BY <1>4, <1>5, <1>6

LEMMA FrameShows ==
  ASSUME Framed(m), Frame
  PROVE  Framed(m') /\ Shows
  <1>1. CASE Render \/ AddToggles
    BY <1>1, SameTells DEF Render, AddToggles, Shows, Same
  <1>2. CASE CopyLcd
    BY <1>2 DEF CopyLcd, Shows
  <1>3. CASE ClearFlipable
    BY <1>3 DEF ClearFlipable, Main, Shows, Framed
  <1>4. CASE ClearToggles
    <2>1. Same(m, m') /\ texture' = texture
      BY <1>4 DEF ClearToggles, Framed, Same
    <2> QED  BY <2>1, SameTells DEF Shows, Tells
  <1> QED  BY <1>1, <1>2, <1>3, <1>4 DEF Frame

LEMMA SessionShows ==
  ASSUME Framed(m), Quit \/ Truncate \/ FinishFile \/ Crash \/ Start
  PROVE  Framed(m') /\ Shows
  <1>1. CASE Start
    BY <1>1, PowerOnFramed DEF Start, Shows
  <1>2. CASE Quit \/ Truncate \/ FinishFile \/ Crash
    <2>1. m' = m /\ texture' = texture
      BY <1>2 DEF Quit, Truncate, FinishFile, Crash, Saving, emuVars, mainVars
    <2> QED  BY <2>1, SameTells DEF Shows, Same
  <1> QED  BY <1>1, <1>2

LEMMA StepShows == Framed(m) /\ [Next]_vars => Framed(m') /\ Shows
  <1> SUFFICES ASSUME Framed(m), [Next]_vars PROVE Framed(m') /\ Shows
    OBVIOUS
  <1>1. CASE UNCHANGED vars
    BY <1>1, SameTells DEF vars, emuVars, mainVars, Shows, Same
  <1>2. CASE Next
    BY <1>2, EmulatorShows, FrameShows, SessionShows DEF Next
  <1> QED  BY <1>1, <1>2

(* Only a drawing between the SDL thread's copy and its clearing of flipable is
   hidden (main_sdl.c:743-753), whatever the ROM draws and when. *)
THEOREM DrawingsShown == Spec => OnlyAnOverlapHides
  <1> DEFINE Inv == Framed(m)
             Overlap == ~Hidden /\ Hidden' => pc = "clear" /\ texture # m.buffer
  <1>1. Init => Inv
    BY PowerOnFramed DEF Init
  <1>2. Inv /\ [Next]_vars => Inv'
    BY StepShows
  <1>3. Inv /\ [Next]_vars => [Overlap]_vars
    BY StepShows DEF Shows, Tells, Hidden
  <1> HIDE DEF Inv
  <1> QED  BY <1>1, <1>2, <1>3, PTL DEF Spec, OnlyAnOverlapHides

(***************************************************************************)
(* 2. The state files: each field is so many bytes, and found again.       *)
(***************************************************************************)

(* The fields of the file hp48: their names, counts and widths. *)
OneByte ==
  {"P", "CARRY", "XM", "SB", "SR", "MP", "hexmode", "intenable", "int_pending", "kbd_ien",
   "disp_io", "contrast_ctrl", "disp_test", "power_status", "power_ctrl", "mode", "annunc", "baud",
   "card_ctrl", "card_status", "io_ctrl", "rcs", "tcs", "rbr", "tbr", "sreq", "ir_ctrl",
   "base_off", "lcr", "lbr", "scratch", "base_nibble", "line_count", "t1_ctrl", "t2_ctrl",
   "unknown2", "timer1"}
TwoBytes == {"rstkp", "crc", "line_offset", "unknown", "t1_tick", "t2_tick", "bank_switch"}
FourBytes ==
  {"magic", "D0", "D1", "PC", "disp_addr", "menu_addr", "timer2", "t1_instr", "t2_instr", "i_per_s"}
SixteenBytes == {"A", "B", "C", "D", "R0", "R1", "R2", "R3", "R4", "PSTAT"}
Single == OneByte \cup TwoBytes \cup FourBytes
AllNames ==
  Single \cup SixteenBytes \cup {"version", "IN", "OUT", "rstk", "keybuf", "mem_cntl"}

CountOf(name) ==
  CASE name \in SixteenBytes -> 16 [] name \in {"version", "IN"} -> 4 [] name = "OUT" -> 3
    [] name = "rstk" -> 8 [] name = "keybuf" -> 9 [] name = "mem_cntl" -> 6 [] OTHER -> 1
WidthOf(name) ==
  CASE name \in TwoBytes \cup {"keybuf"} -> 2 [] name \in FourBytes \cup {"rstk"} -> 4
    [] name = "mem_cntl" -> 10 [] OTHER -> 1
Entry(name) == <<name, CountOf(name), WidthOf(name)>>

(* A list of fields, and the names in it. *)
Lists(fields, names) ==
  /\ fields \in Seq({Entry(name) : name \in AllNames})
  /\ {fields[i][1] : i \in DOMAIN fields} = names

LEMMA Joined ==
  ASSUME NEW a, NEW b, NEW S, NEW T, Lists(a, S), Lists(b, T)
  PROVE  Lists(a \o b, S \cup T)
<1> DEFINE E == {Entry(name) : name \in AllNames}
           c == a \o b
<1> HIDE DEF E
<1>1. a \in Seq(E) /\ b \in Seq(E)
  BY DEF Lists, E
<1>2. /\ c \in Seq(E) /\ Len(c) = Len(a) + Len(b)
      /\ \A i \in 1 .. Len(a) : c[i] = a[i]
      /\ \A i \in 1 .. Len(b) : c[Len(a) + i] = b[i]
  BY <1>1, ConcatProperties
<1>3. /\ DOMAIN a = 1 .. Len(a) /\ DOMAIN b = 1 .. Len(b) /\ DOMAIN c = 1 .. Len(c)
      /\ Len(a) \in Nat /\ Len(b) \in Nat
  BY <1>1, <1>2, LenProperties
<1> HIDE DEF c
<1>4. {c[i][1] : i \in DOMAIN c} = S \cup T
  <2>1. ASSUME NEW i \in DOMAIN c PROVE c[i][1] \in S \cup T
    <3>1. CASE i <= Len(a)
      BY <1>2, <1>3, <2>1, <3>1 DEF Lists
    <3>2. CASE i > Len(a)
      <4>1. i - Len(a) \in 1 .. Len(b) /\ Len(a) + (i - Len(a)) = i
        BY <1>2, <1>3, <2>1, <3>2
      <4>2. c[i] = b[i - Len(a)]
        BY <1>2, <4>1
      <4> QED BY <1>3, <4>1, <4>2 DEF Lists
    <3> QED BY <1>3, <3>1, <3>2
  <2>2. ASSUME NEW x \in S \cup T PROVE \E i \in DOMAIN c : c[i][1] = x
    <3>1. CASE x \in S
      <4>1. PICK i \in 1 .. Len(a) : a[i][1] = x
        BY <1>3, <3>1 DEF Lists
      <4> QED BY <1>2, <1>3, <4>1
    <3>2. CASE x \in T
      <4>1. PICK i \in 1 .. Len(b) : b[i][1] = x
        BY <1>3, <3>2 DEF Lists
      <4>2. Len(a) + i \in DOMAIN c /\ c[Len(a) + i] = b[i]
        BY <1>2, <1>3, <4>1
      <4> QED BY <4>1, <4>2
    <3> QED BY <3>1, <3>2
  <2> QED BY <2>1, <2>2
<1> QED BY <1>2, <1>4 DEF Lists, E, c

LEMMA FieldsList ==
  ASSUME NEW names, NEW S, NEW count, NEW width,
         names \in Seq(S), \A x \in S : \E i \in DOMAIN names : names[i] = x,
         \A x \in S : x \in AllNames /\ CountOf(x) = count /\ WidthOf(x) = width
  PROVE  Lists(Fields(names, count, width), S)
<1> DEFINE f == Fields(names, count, width)
           E == {Entry(name) : name \in AllNames}
<1>1. /\ DOMAIN f = 1 .. Len(names) /\ Len(names) \in Nat /\ DOMAIN names = 1 .. Len(names)
      /\ \A i \in DOMAIN f : f[i] = <<names[i], count, width>> /\ names[i] \in S
  BY ElementOfSeq, LenProperties DEF Fields
<1>2. f = [i \in 1 .. Len(names) |-> f[i]]
  BY <1>1 DEF Fields
<1> HIDE DEF f, E
<1>3. \A i \in DOMAIN f : f[i] \in E /\ f[i][1] = names[i]
  <2> SUFFICES ASSUME NEW i \in DOMAIN f PROVE f[i] \in E /\ f[i][1] = names[i]
    OBVIOUS
  <2>1. f[i] = <<names[i], count, width>> /\ names[i] \in AllNames
    BY <1>1
  <2>2. <<names[i], count, width>> = Entry(names[i])
    BY <1>1 DEF Entry
  <2> QED BY <2>1, <2>2 DEF E
<1>4. f \in Seq(E)
  <2>1. f \in [1 .. Len(names) -> E]
    BY <1>1, <1>2, <1>3
  <2> QED BY <1>1, <2>1
<1>5. {f[i][1] : i \in DOMAIN f} = S
  BY <1>1, <1>2
<1> QED BY <1>4, <1>5 DEF Lists, f, E

(* The list of the fields that write_files() writes. *)
LEMMA WrittenLists == Lists(Written, AllNames)
<1> DEFINE
  c1 == Word32(<<"magic">>)
  s1 == {"magic"}
  c2 == Fields(<<"version">>, 4, 1)
  s2 == {"version"}
  c3 == Nibbles16(<<"A", "B", "C", "D">>)
  s3 == {"A", "B", "C", "D"}
  c4 == Word32(<<"D0", "D1">>)
  s4 == {"D0", "D1"}
  c5 == Byte(<<"P">>)
  s5 == {"P"}
  c6 == Word32(<<"PC">>)
  s6 == {"PC"}
  c7 == Nibbles16(<<"R0", "R1", "R2", "R3", "R4">>)
  s7 == {"R0", "R1", "R2", "R3", "R4"}
  c8 == Fields(<<"IN">>, 4, 1)
  s8 == {"IN"}
  c9 == Fields(<<"OUT">>, 3, 1)
  s9 == {"OUT"}
  c10 == Byte(<<"CARRY">>)
  s10 == {"CARRY"}
  c11 == Fields(<<"PSTAT">>, 16, 1)
  s11 == {"PSTAT"}
  c12 == Byte(<<"XM", "SB", "SR", "MP", "hexmode">>)
  s12 == {"XM", "SB", "SR", "MP", "hexmode"}
  c13 == Fields(<<"rstk">>, 8, 4)
  s13 == {"rstk"}
  c14 == Word16(<<"rstkp">>)
  s14 == {"rstkp"}
  c15 == Fields(<<"keybuf">>, 9, 2)
  s15 == {"keybuf"}
  c16 == Byte(<<"intenable", "int_pending", "kbd_ien">>)
  s16 == {"intenable", "int_pending", "kbd_ien"}
  c17 == Byte(<<"disp_io", "contrast_ctrl", "disp_test">>)
  s17 == {"disp_io", "contrast_ctrl", "disp_test"}
  c18 == Word16(<<"crc">>)
  s18 == {"crc"}
  c19 == Byte(<<"power_status", "power_ctrl", "mode", "annunc", "baud">>)
  s19 == {"power_status", "power_ctrl", "mode", "annunc", "baud"}
  c20 == Byte(<<"card_ctrl", "card_status", "io_ctrl", "rcs", "tcs", "rbr", "tbr", "sreq">>)
  s20 == {"card_ctrl", "card_status", "io_ctrl", "rcs", "tcs", "rbr", "tbr", "sreq"}
  c21 == Byte(<<"ir_ctrl", "base_off", "lcr", "lbr", "scratch", "base_nibble">>)
  s21 == {"ir_ctrl", "base_off", "lcr", "lbr", "scratch", "base_nibble"}
  c22 == Word32(<<"disp_addr">>)
  s22 == {"disp_addr"}
  c23 == Word16(<<"line_offset">>)
  s23 == {"line_offset"}
  c24 == Byte(<<"line_count">>)
  s24 == {"line_count"}
  c25 == Word16(<<"unknown">>)
  s25 == {"unknown"}
  c26 == Byte(<<"t1_ctrl", "t2_ctrl">>)
  s26 == {"t1_ctrl", "t2_ctrl"}
  c27 == Word32(<<"menu_addr">>)
  s27 == {"menu_addr"}
  c28 == Byte(<<"unknown2">>)
  s28 == {"unknown2"}
  c29 == Byte(<<"timer1">>)
  s29 == {"timer1"}
  c30 == Word32(<<"timer2", "t1_instr", "t2_instr">>)
  s30 == {"timer2", "t1_instr", "t2_instr"}
  c31 == Word16(<<"t1_tick", "t2_tick">>)
  s31 == {"t1_tick", "t2_tick"}
  c32 == Word32(<<"i_per_s">>)
  s32 == {"i_per_s"}
  c33 == Word16(<<"bank_switch">>)
  s33 == {"bank_switch"}
  c34 == Fields(<<"mem_cntl">>, 6, 10)
  s34 == {"mem_cntl"}
  w1 == c1 \o c2 \o c3 \o c4 \o c5 \o c6
  t1 == s1 \cup s2 \cup s3 \cup s4 \cup s5 \cup s6
  w2 == w1 \o c7 \o c8 \o c9 \o c10 \o c11 \o c12
  t2 == t1 \cup s7 \cup s8 \cup s9 \cup s10 \cup s11 \cup s12
  w3 == w2 \o c13 \o c14 \o c15 \o c16 \o c17 \o c18
  t3 == t2 \cup s13 \cup s14 \cup s15 \cup s16 \cup s17 \cup s18
  w4 == w3 \o c19 \o c20 \o c21 \o c22 \o c23 \o c24
  t4 == t3 \cup s19 \cup s20 \cup s21 \cup s22 \cup s23 \cup s24
  w5 == w4 \o c25 \o c26 \o c27 \o c28 \o c29 \o c30
  t5 == t4 \cup s25 \cup s26 \cup s27 \cup s28 \cup s29 \cup s30
  w6 == w5 \o c31 \o c32 \o c33 \o c34
  t6 == t5 \cup s31 \cup s32 \cup s33 \cup s34
<1>1. Lists(c1, s1)
  <2>1. <<"magic">> \in Seq(s1) /\ \A x \in s1 : \E i \in DOMAIN <<"magic">> : <<"magic">>[i] = x
    OBVIOUS
  <2>2. \A x \in s1 : x \in AllNames /\ CountOf(x) = 1 /\ WidthOf(x) = 4
    BY DEF AllNames, Single, OneByte, TwoBytes, FourBytes, SixteenBytes, CountOf, WidthOf
  <2> HIDE DEF s1
  <2>3. Lists(Fields(<<"magic">>, 1, 4), s1)
    BY <2>1, <2>2, FieldsList, Zenon
  <2> QED BY <2>3 DEF Word32
<1>2. Lists(c2, s2)
  <2>1. <<"version">> \in Seq(s2) /\ \A x \in s2 : \E i \in DOMAIN <<"version">> : <<"version">>[i] = x
    OBVIOUS
  <2>2. \A x \in s2 : x \in AllNames /\ CountOf(x) = 4 /\ WidthOf(x) = 1
    BY DEF AllNames, Single, OneByte, TwoBytes, FourBytes, SixteenBytes, CountOf, WidthOf
  <2> HIDE DEF s2
  <2>3. Lists(Fields(<<"version">>, 4, 1), s2)
    BY <2>1, <2>2, FieldsList, Zenon
  <2> QED BY <2>3
<1>3. Lists(c3, s3)
  <2>1. <<"A", "B", "C", "D">> \in Seq(s3) /\ \A x \in s3 : \E i \in DOMAIN <<"A", "B", "C", "D">> : <<"A", "B", "C", "D">>[i] = x
    OBVIOUS
  <2>2. \A x \in s3 : x \in AllNames /\ CountOf(x) = 16 /\ WidthOf(x) = 1
    BY DEF AllNames, Single, OneByte, TwoBytes, FourBytes, SixteenBytes, CountOf, WidthOf
  <2> HIDE DEF s3
  <2>3. Lists(Fields(<<"A", "B", "C", "D">>, 16, 1), s3)
    BY <2>1, <2>2, FieldsList, Zenon
  <2> QED BY <2>3 DEF Nibbles16
<1>4. Lists(c4, s4)
  <2>1. <<"D0", "D1">> \in Seq(s4) /\ \A x \in s4 : \E i \in DOMAIN <<"D0", "D1">> : <<"D0", "D1">>[i] = x
    OBVIOUS
  <2>2. \A x \in s4 : x \in AllNames /\ CountOf(x) = 1 /\ WidthOf(x) = 4
    BY DEF AllNames, Single, OneByte, TwoBytes, FourBytes, SixteenBytes, CountOf, WidthOf
  <2> HIDE DEF s4
  <2>3. Lists(Fields(<<"D0", "D1">>, 1, 4), s4)
    BY <2>1, <2>2, FieldsList, Zenon
  <2> QED BY <2>3 DEF Word32
<1>5. Lists(c5, s5)
  <2>1. <<"P">> \in Seq(s5) /\ \A x \in s5 : \E i \in DOMAIN <<"P">> : <<"P">>[i] = x
    OBVIOUS
  <2>2. \A x \in s5 : x \in AllNames /\ CountOf(x) = 1 /\ WidthOf(x) = 1
    BY DEF AllNames, Single, OneByte, TwoBytes, FourBytes, SixteenBytes, CountOf, WidthOf
  <2> HIDE DEF s5
  <2>3. Lists(Fields(<<"P">>, 1, 1), s5)
    BY <2>1, <2>2, FieldsList, Zenon
  <2> QED BY <2>3 DEF Byte
<1>6. Lists(c6, s6)
  <2>1. <<"PC">> \in Seq(s6) /\ \A x \in s6 : \E i \in DOMAIN <<"PC">> : <<"PC">>[i] = x
    OBVIOUS
  <2>2. \A x \in s6 : x \in AllNames /\ CountOf(x) = 1 /\ WidthOf(x) = 4
    BY DEF AllNames, Single, OneByte, TwoBytes, FourBytes, SixteenBytes, CountOf, WidthOf
  <2> HIDE DEF s6
  <2>3. Lists(Fields(<<"PC">>, 1, 4), s6)
    BY <2>1, <2>2, FieldsList, Zenon
  <2> QED BY <2>3 DEF Word32
<1>7. Lists(c7, s7)
  <2>1. <<"R0", "R1", "R2", "R3", "R4">> \in Seq(s7) /\ \A x \in s7 : \E i \in DOMAIN <<"R0", "R1", "R2", "R3", "R4">> : <<"R0", "R1", "R2", "R3", "R4">>[i] = x
    OBVIOUS
  <2>2. \A x \in s7 : x \in AllNames /\ CountOf(x) = 16 /\ WidthOf(x) = 1
    BY DEF AllNames, Single, OneByte, TwoBytes, FourBytes, SixteenBytes, CountOf, WidthOf
  <2> HIDE DEF s7
  <2>3. Lists(Fields(<<"R0", "R1", "R2", "R3", "R4">>, 16, 1), s7)
    BY <2>1, <2>2, FieldsList, Zenon
  <2> QED BY <2>3 DEF Nibbles16
<1>8. Lists(c8, s8)
  <2>1. <<"IN">> \in Seq(s8) /\ \A x \in s8 : \E i \in DOMAIN <<"IN">> : <<"IN">>[i] = x
    OBVIOUS
  <2>2. \A x \in s8 : x \in AllNames /\ CountOf(x) = 4 /\ WidthOf(x) = 1
    BY DEF AllNames, Single, OneByte, TwoBytes, FourBytes, SixteenBytes, CountOf, WidthOf
  <2> HIDE DEF s8
  <2>3. Lists(Fields(<<"IN">>, 4, 1), s8)
    BY <2>1, <2>2, FieldsList, Zenon
  <2> QED BY <2>3
<1>9. Lists(c9, s9)
  <2>1. <<"OUT">> \in Seq(s9) /\ \A x \in s9 : \E i \in DOMAIN <<"OUT">> : <<"OUT">>[i] = x
    OBVIOUS
  <2>2. \A x \in s9 : x \in AllNames /\ CountOf(x) = 3 /\ WidthOf(x) = 1
    BY DEF AllNames, Single, OneByte, TwoBytes, FourBytes, SixteenBytes, CountOf, WidthOf
  <2> HIDE DEF s9
  <2>3. Lists(Fields(<<"OUT">>, 3, 1), s9)
    BY <2>1, <2>2, FieldsList, Zenon
  <2> QED BY <2>3
<1>10. Lists(c10, s10)
  <2>1. <<"CARRY">> \in Seq(s10) /\ \A x \in s10 : \E i \in DOMAIN <<"CARRY">> : <<"CARRY">>[i] = x
    OBVIOUS
  <2>2. \A x \in s10 : x \in AllNames /\ CountOf(x) = 1 /\ WidthOf(x) = 1
    BY DEF AllNames, Single, OneByte, TwoBytes, FourBytes, SixteenBytes, CountOf, WidthOf
  <2> HIDE DEF s10
  <2>3. Lists(Fields(<<"CARRY">>, 1, 1), s10)
    BY <2>1, <2>2, FieldsList, Zenon
  <2> QED BY <2>3 DEF Byte
<1>11. Lists(c11, s11)
  <2>1. <<"PSTAT">> \in Seq(s11) /\ \A x \in s11 : \E i \in DOMAIN <<"PSTAT">> : <<"PSTAT">>[i] = x
    OBVIOUS
  <2>2. \A x \in s11 : x \in AllNames /\ CountOf(x) = 16 /\ WidthOf(x) = 1
    BY DEF AllNames, Single, OneByte, TwoBytes, FourBytes, SixteenBytes, CountOf, WidthOf
  <2> HIDE DEF s11
  <2>3. Lists(Fields(<<"PSTAT">>, 16, 1), s11)
    BY <2>1, <2>2, FieldsList, Zenon
  <2> QED BY <2>3
<1>12. Lists(c12, s12)
  <2>1. <<"XM", "SB", "SR", "MP", "hexmode">> \in Seq(s12) /\ \A x \in s12 : \E i \in DOMAIN <<"XM", "SB", "SR", "MP", "hexmode">> : <<"XM", "SB", "SR", "MP", "hexmode">>[i] = x
    OBVIOUS
  <2>2. \A x \in s12 : x \in AllNames /\ CountOf(x) = 1 /\ WidthOf(x) = 1
    BY DEF AllNames, Single, OneByte, TwoBytes, FourBytes, SixteenBytes, CountOf, WidthOf
  <2> HIDE DEF s12
  <2>3. Lists(Fields(<<"XM", "SB", "SR", "MP", "hexmode">>, 1, 1), s12)
    BY <2>1, <2>2, FieldsList, Zenon
  <2> QED BY <2>3 DEF Byte
<1>13. Lists(c13, s13)
  <2>1. <<"rstk">> \in Seq(s13) /\ \A x \in s13 : \E i \in DOMAIN <<"rstk">> : <<"rstk">>[i] = x
    OBVIOUS
  <2>2. \A x \in s13 : x \in AllNames /\ CountOf(x) = 8 /\ WidthOf(x) = 4
    BY DEF AllNames, Single, OneByte, TwoBytes, FourBytes, SixteenBytes, CountOf, WidthOf
  <2> HIDE DEF s13
  <2>3. Lists(Fields(<<"rstk">>, 8, 4), s13)
    BY <2>1, <2>2, FieldsList, Zenon
  <2> QED BY <2>3
<1>14. Lists(c14, s14)
  <2>1. <<"rstkp">> \in Seq(s14) /\ \A x \in s14 : \E i \in DOMAIN <<"rstkp">> : <<"rstkp">>[i] = x
    OBVIOUS
  <2>2. \A x \in s14 : x \in AllNames /\ CountOf(x) = 1 /\ WidthOf(x) = 2
    BY DEF AllNames, Single, OneByte, TwoBytes, FourBytes, SixteenBytes, CountOf, WidthOf
  <2> HIDE DEF s14
  <2>3. Lists(Fields(<<"rstkp">>, 1, 2), s14)
    BY <2>1, <2>2, FieldsList, Zenon
  <2> QED BY <2>3 DEF Word16
<1>15. Lists(c15, s15)
  <2>1. <<"keybuf">> \in Seq(s15) /\ \A x \in s15 : \E i \in DOMAIN <<"keybuf">> : <<"keybuf">>[i] = x
    OBVIOUS
  <2>2. \A x \in s15 : x \in AllNames /\ CountOf(x) = 9 /\ WidthOf(x) = 2
    BY DEF AllNames, Single, OneByte, TwoBytes, FourBytes, SixteenBytes, CountOf, WidthOf
  <2> HIDE DEF s15
  <2>3. Lists(Fields(<<"keybuf">>, 9, 2), s15)
    BY <2>1, <2>2, FieldsList, Zenon
  <2> QED BY <2>3
<1>16. Lists(c16, s16)
  <2>1. <<"intenable", "int_pending", "kbd_ien">> \in Seq(s16) /\ \A x \in s16 : \E i \in DOMAIN <<"intenable", "int_pending", "kbd_ien">> : <<"intenable", "int_pending", "kbd_ien">>[i] = x
    OBVIOUS
  <2>2. \A x \in s16 : x \in AllNames /\ CountOf(x) = 1 /\ WidthOf(x) = 1
    BY DEF AllNames, Single, OneByte, TwoBytes, FourBytes, SixteenBytes, CountOf, WidthOf
  <2> HIDE DEF s16
  <2>3. Lists(Fields(<<"intenable", "int_pending", "kbd_ien">>, 1, 1), s16)
    BY <2>1, <2>2, FieldsList, Zenon
  <2> QED BY <2>3 DEF Byte
<1>17. Lists(c17, s17)
  <2>1. <<"disp_io", "contrast_ctrl", "disp_test">> \in Seq(s17) /\ \A x \in s17 : \E i \in DOMAIN <<"disp_io", "contrast_ctrl", "disp_test">> : <<"disp_io", "contrast_ctrl", "disp_test">>[i] = x
    OBVIOUS
  <2>2. \A x \in s17 : x \in AllNames /\ CountOf(x) = 1 /\ WidthOf(x) = 1
    BY DEF AllNames, Single, OneByte, TwoBytes, FourBytes, SixteenBytes, CountOf, WidthOf
  <2> HIDE DEF s17
  <2>3. Lists(Fields(<<"disp_io", "contrast_ctrl", "disp_test">>, 1, 1), s17)
    BY <2>1, <2>2, FieldsList, Zenon
  <2> QED BY <2>3 DEF Byte
<1>18. Lists(c18, s18)
  <2>1. <<"crc">> \in Seq(s18) /\ \A x \in s18 : \E i \in DOMAIN <<"crc">> : <<"crc">>[i] = x
    OBVIOUS
  <2>2. \A x \in s18 : x \in AllNames /\ CountOf(x) = 1 /\ WidthOf(x) = 2
    BY DEF AllNames, Single, OneByte, TwoBytes, FourBytes, SixteenBytes, CountOf, WidthOf
  <2> HIDE DEF s18
  <2>3. Lists(Fields(<<"crc">>, 1, 2), s18)
    BY <2>1, <2>2, FieldsList, Zenon
  <2> QED BY <2>3 DEF Word16
<1>19. Lists(c19, s19)
  <2>1. <<"power_status", "power_ctrl", "mode", "annunc", "baud">> \in Seq(s19) /\ \A x \in s19 : \E i \in DOMAIN <<"power_status", "power_ctrl", "mode", "annunc", "baud">> : <<"power_status", "power_ctrl", "mode", "annunc", "baud">>[i] = x
    OBVIOUS
  <2>2. \A x \in s19 : x \in AllNames /\ CountOf(x) = 1 /\ WidthOf(x) = 1
    BY DEF AllNames, Single, OneByte, TwoBytes, FourBytes, SixteenBytes, CountOf, WidthOf
  <2> HIDE DEF s19
  <2>3. Lists(Fields(<<"power_status", "power_ctrl", "mode", "annunc", "baud">>, 1, 1), s19)
    BY <2>1, <2>2, FieldsList, Zenon
  <2> QED BY <2>3 DEF Byte
<1>20. Lists(c20, s20)
  <2>1. <<"card_ctrl", "card_status", "io_ctrl", "rcs", "tcs", "rbr", "tbr", "sreq">> \in Seq(s20) /\ \A x \in s20 : \E i \in DOMAIN <<"card_ctrl", "card_status", "io_ctrl", "rcs", "tcs", "rbr", "tbr", "sreq">> : <<"card_ctrl", "card_status", "io_ctrl", "rcs", "tcs", "rbr", "tbr", "sreq">>[i] = x
    OBVIOUS
  <2>2. \A x \in s20 : x \in AllNames /\ CountOf(x) = 1 /\ WidthOf(x) = 1
    BY DEF AllNames, Single, OneByte, TwoBytes, FourBytes, SixteenBytes, CountOf, WidthOf
  <2> HIDE DEF s20
  <2>3. Lists(Fields(<<"card_ctrl", "card_status", "io_ctrl", "rcs", "tcs", "rbr", "tbr", "sreq">>, 1, 1), s20)
    BY <2>1, <2>2, FieldsList, Zenon
  <2> QED BY <2>3 DEF Byte
<1>21. Lists(c21, s21)
  <2>1. <<"ir_ctrl", "base_off", "lcr", "lbr", "scratch", "base_nibble">> \in Seq(s21) /\ \A x \in s21 : \E i \in DOMAIN <<"ir_ctrl", "base_off", "lcr", "lbr", "scratch", "base_nibble">> : <<"ir_ctrl", "base_off", "lcr", "lbr", "scratch", "base_nibble">>[i] = x
    OBVIOUS
  <2>2. \A x \in s21 : x \in AllNames /\ CountOf(x) = 1 /\ WidthOf(x) = 1
    BY DEF AllNames, Single, OneByte, TwoBytes, FourBytes, SixteenBytes, CountOf, WidthOf
  <2> HIDE DEF s21
  <2>3. Lists(Fields(<<"ir_ctrl", "base_off", "lcr", "lbr", "scratch", "base_nibble">>, 1, 1), s21)
    BY <2>1, <2>2, FieldsList, Zenon
  <2> QED BY <2>3 DEF Byte
<1>22. Lists(c22, s22)
  <2>1. <<"disp_addr">> \in Seq(s22) /\ \A x \in s22 : \E i \in DOMAIN <<"disp_addr">> : <<"disp_addr">>[i] = x
    OBVIOUS
  <2>2. \A x \in s22 : x \in AllNames /\ CountOf(x) = 1 /\ WidthOf(x) = 4
    BY DEF AllNames, Single, OneByte, TwoBytes, FourBytes, SixteenBytes, CountOf, WidthOf
  <2> HIDE DEF s22
  <2>3. Lists(Fields(<<"disp_addr">>, 1, 4), s22)
    BY <2>1, <2>2, FieldsList, Zenon
  <2> QED BY <2>3 DEF Word32
<1>23. Lists(c23, s23)
  <2>1. <<"line_offset">> \in Seq(s23) /\ \A x \in s23 : \E i \in DOMAIN <<"line_offset">> : <<"line_offset">>[i] = x
    OBVIOUS
  <2>2. \A x \in s23 : x \in AllNames /\ CountOf(x) = 1 /\ WidthOf(x) = 2
    BY DEF AllNames, Single, OneByte, TwoBytes, FourBytes, SixteenBytes, CountOf, WidthOf
  <2> HIDE DEF s23
  <2>3. Lists(Fields(<<"line_offset">>, 1, 2), s23)
    BY <2>1, <2>2, FieldsList, Zenon
  <2> QED BY <2>3 DEF Word16
<1>24. Lists(c24, s24)
  <2>1. <<"line_count">> \in Seq(s24) /\ \A x \in s24 : \E i \in DOMAIN <<"line_count">> : <<"line_count">>[i] = x
    OBVIOUS
  <2>2. \A x \in s24 : x \in AllNames /\ CountOf(x) = 1 /\ WidthOf(x) = 1
    BY DEF AllNames, Single, OneByte, TwoBytes, FourBytes, SixteenBytes, CountOf, WidthOf
  <2> HIDE DEF s24
  <2>3. Lists(Fields(<<"line_count">>, 1, 1), s24)
    BY <2>1, <2>2, FieldsList, Zenon
  <2> QED BY <2>3 DEF Byte
<1>25. Lists(c25, s25)
  <2>1. <<"unknown">> \in Seq(s25) /\ \A x \in s25 : \E i \in DOMAIN <<"unknown">> : <<"unknown">>[i] = x
    OBVIOUS
  <2>2. \A x \in s25 : x \in AllNames /\ CountOf(x) = 1 /\ WidthOf(x) = 2
    BY DEF AllNames, Single, OneByte, TwoBytes, FourBytes, SixteenBytes, CountOf, WidthOf
  <2> HIDE DEF s25
  <2>3. Lists(Fields(<<"unknown">>, 1, 2), s25)
    BY <2>1, <2>2, FieldsList, Zenon
  <2> QED BY <2>3 DEF Word16
<1>26. Lists(c26, s26)
  <2>1. <<"t1_ctrl", "t2_ctrl">> \in Seq(s26) /\ \A x \in s26 : \E i \in DOMAIN <<"t1_ctrl", "t2_ctrl">> : <<"t1_ctrl", "t2_ctrl">>[i] = x
    OBVIOUS
  <2>2. \A x \in s26 : x \in AllNames /\ CountOf(x) = 1 /\ WidthOf(x) = 1
    BY DEF AllNames, Single, OneByte, TwoBytes, FourBytes, SixteenBytes, CountOf, WidthOf
  <2> HIDE DEF s26
  <2>3. Lists(Fields(<<"t1_ctrl", "t2_ctrl">>, 1, 1), s26)
    BY <2>1, <2>2, FieldsList, Zenon
  <2> QED BY <2>3 DEF Byte
<1>27. Lists(c27, s27)
  <2>1. <<"menu_addr">> \in Seq(s27) /\ \A x \in s27 : \E i \in DOMAIN <<"menu_addr">> : <<"menu_addr">>[i] = x
    OBVIOUS
  <2>2. \A x \in s27 : x \in AllNames /\ CountOf(x) = 1 /\ WidthOf(x) = 4
    BY DEF AllNames, Single, OneByte, TwoBytes, FourBytes, SixteenBytes, CountOf, WidthOf
  <2> HIDE DEF s27
  <2>3. Lists(Fields(<<"menu_addr">>, 1, 4), s27)
    BY <2>1, <2>2, FieldsList, Zenon
  <2> QED BY <2>3 DEF Word32
<1>28. Lists(c28, s28)
  <2>1. <<"unknown2">> \in Seq(s28) /\ \A x \in s28 : \E i \in DOMAIN <<"unknown2">> : <<"unknown2">>[i] = x
    OBVIOUS
  <2>2. \A x \in s28 : x \in AllNames /\ CountOf(x) = 1 /\ WidthOf(x) = 1
    BY DEF AllNames, Single, OneByte, TwoBytes, FourBytes, SixteenBytes, CountOf, WidthOf
  <2> HIDE DEF s28
  <2>3. Lists(Fields(<<"unknown2">>, 1, 1), s28)
    BY <2>1, <2>2, FieldsList, Zenon
  <2> QED BY <2>3 DEF Byte
<1>29. Lists(c29, s29)
  <2>1. <<"timer1">> \in Seq(s29) /\ \A x \in s29 : \E i \in DOMAIN <<"timer1">> : <<"timer1">>[i] = x
    OBVIOUS
  <2>2. \A x \in s29 : x \in AllNames /\ CountOf(x) = 1 /\ WidthOf(x) = 1
    BY DEF AllNames, Single, OneByte, TwoBytes, FourBytes, SixteenBytes, CountOf, WidthOf
  <2> HIDE DEF s29
  <2>3. Lists(Fields(<<"timer1">>, 1, 1), s29)
    BY <2>1, <2>2, FieldsList, Zenon
  <2> QED BY <2>3 DEF Byte
<1>30. Lists(c30, s30)
  <2>1. <<"timer2", "t1_instr", "t2_instr">> \in Seq(s30) /\ \A x \in s30 : \E i \in DOMAIN <<"timer2", "t1_instr", "t2_instr">> : <<"timer2", "t1_instr", "t2_instr">>[i] = x
    OBVIOUS
  <2>2. \A x \in s30 : x \in AllNames /\ CountOf(x) = 1 /\ WidthOf(x) = 4
    BY DEF AllNames, Single, OneByte, TwoBytes, FourBytes, SixteenBytes, CountOf, WidthOf
  <2> HIDE DEF s30
  <2>3. Lists(Fields(<<"timer2", "t1_instr", "t2_instr">>, 1, 4), s30)
    BY <2>1, <2>2, FieldsList, Zenon
  <2> QED BY <2>3 DEF Word32
<1>31. Lists(c31, s31)
  <2>1. <<"t1_tick", "t2_tick">> \in Seq(s31) /\ \A x \in s31 : \E i \in DOMAIN <<"t1_tick", "t2_tick">> : <<"t1_tick", "t2_tick">>[i] = x
    OBVIOUS
  <2>2. \A x \in s31 : x \in AllNames /\ CountOf(x) = 1 /\ WidthOf(x) = 2
    BY DEF AllNames, Single, OneByte, TwoBytes, FourBytes, SixteenBytes, CountOf, WidthOf
  <2> HIDE DEF s31
  <2>3. Lists(Fields(<<"t1_tick", "t2_tick">>, 1, 2), s31)
    BY <2>1, <2>2, FieldsList, Zenon
  <2> QED BY <2>3 DEF Word16
<1>32. Lists(c32, s32)
  <2>1. <<"i_per_s">> \in Seq(s32) /\ \A x \in s32 : \E i \in DOMAIN <<"i_per_s">> : <<"i_per_s">>[i] = x
    OBVIOUS
  <2>2. \A x \in s32 : x \in AllNames /\ CountOf(x) = 1 /\ WidthOf(x) = 4
    BY DEF AllNames, Single, OneByte, TwoBytes, FourBytes, SixteenBytes, CountOf, WidthOf
  <2> HIDE DEF s32
  <2>3. Lists(Fields(<<"i_per_s">>, 1, 4), s32)
    BY <2>1, <2>2, FieldsList, Zenon
  <2> QED BY <2>3 DEF Word32
<1>33. Lists(c33, s33)
  <2>1. <<"bank_switch">> \in Seq(s33) /\ \A x \in s33 : \E i \in DOMAIN <<"bank_switch">> : <<"bank_switch">>[i] = x
    OBVIOUS
  <2>2. \A x \in s33 : x \in AllNames /\ CountOf(x) = 1 /\ WidthOf(x) = 2
    BY DEF AllNames, Single, OneByte, TwoBytes, FourBytes, SixteenBytes, CountOf, WidthOf
  <2> HIDE DEF s33
  <2>3. Lists(Fields(<<"bank_switch">>, 1, 2), s33)
    BY <2>1, <2>2, FieldsList, Zenon
  <2> QED BY <2>3 DEF Word16
<1>34. Lists(c34, s34)
  <2>1. <<"mem_cntl">> \in Seq(s34) /\ \A x \in s34 : \E i \in DOMAIN <<"mem_cntl">> : <<"mem_cntl">>[i] = x
    OBVIOUS
  <2>2. \A x \in s34 : x \in AllNames /\ CountOf(x) = 6 /\ WidthOf(x) = 10
    BY DEF AllNames, Single, OneByte, TwoBytes, FourBytes, SixteenBytes, CountOf, WidthOf
  <2> HIDE DEF s34
  <2>3. Lists(Fields(<<"mem_cntl">>, 6, 10), s34)
    BY <2>1, <2>2, FieldsList, Zenon
  <2> QED BY <2>3
<1> HIDE DEF c1, s1, c2, s2, c3, s3, c4, s4, c5, s5, c6, s6, c7, s7, c8, s8, c9, s9, c10, s10, c11, s11, c12, s12, c13, s13, c14, s14, c15, s15, c16, s16, c17, s17, c18, s18, c19, s19, c20, s20, c21, s21, c22, s22, c23, s23, c24, s24, c25, s25, c26, s26, c27, s27, c28, s28, c29, s29, c30, s30, c31, s31, c32, s32, c33, s33, c34, s34
<1>35. Lists(w1, t1)
  BY <1>1, <1>2, <1>3, <1>4, <1>5, <1>6, Joined
<1> HIDE DEF w1, t1
<1>36. Lists(w2, t2)
  BY <1>35, <1>7, <1>8, <1>9, <1>10, <1>11, <1>12, Joined
<1> HIDE DEF w2, t2
<1>37. Lists(w3, t3)
  BY <1>36, <1>13, <1>14, <1>15, <1>16, <1>17, <1>18, Joined
<1> HIDE DEF w3, t3
<1>38. Lists(w4, t4)
  BY <1>37, <1>19, <1>20, <1>21, <1>22, <1>23, <1>24, Joined
<1> HIDE DEF w4, t4
<1>39. Lists(w5, t5)
  BY <1>38, <1>25, <1>26, <1>27, <1>28, <1>29, <1>30, Joined
<1> HIDE DEF w5, t5
<1>40. Lists(w6, t6)
  BY <1>39, <1>31, <1>32, <1>33, <1>34, Joined
<1>41. w6 = Written
  BY DEF Written, w1, w2, w3, w4, w5, w6, c1, c2, c3, c4, c5, c6, c7, c8, c9, c10, c11, c12, c13, c14, c15, c16, c17, c18, c19, c20, c21, c22, c23, c24, c25, c26, c27, c28, c29, c30, c31, c32, c33, c34
<1>42. t6 = AllNames
  BY DEF AllNames, Single, OneByte, TwoBytes, FourBytes, SixteenBytes, t1, t2, t3, t4, t5, t6, s1, s2, s3, s4, s5, s6, s7, s8, s9, s10, s11, s12, s13, s14, s15, s16, s17, s18, s19, s20, s21, s22, s23, s24, s25, s26, s27, s28, s29, s30, s31, s32, s33, s34
<1> QED BY <1>40, <1>41, <1>42

(* Every field is the entry of its name, and every name has one. *)
LEMMA Entries ==
  /\ Len(Written) \in Nat \ {0} /\ DOMAIN Written = 1 .. Len(Written) /\ DOMAIN Read = DOMAIN Written
  /\ \A i \in DOMAIN Written : Written[i][1] \in AllNames /\ Written[i] = Entry(Written[i][1])
  /\ \A name \in AllNames : \E i \in DOMAIN Written : Written[i][1] = name
  /\ Names = AllNames /\ Read = Written
<1>1. Written \in Seq({Entry(name) : name \in AllNames}) /\ Names = AllNames
  BY WrittenLists DEF Lists, Names
<1>2. Len(Written) \in Nat /\ DOMAIN Written = 1 .. Len(Written)
  BY <1>1, LenProperties
<1>3. \A i \in DOMAIN Written : \E name \in AllNames : Written[i] = Entry(name)
  <2> DEFINE E == {Entry(name) : name \in AllNames}
  <2> SUFFICES ASSUME NEW i \in DOMAIN Written
               PROVE  \E name \in AllNames : Written[i] = Entry(name)
    OBVIOUS
  <2> HIDE DEF E
  <2>1. Written[i] \in E
    BY <1>1, <1>2, ElementOfSeq DEF E
  <2> QED BY <2>1 DEF E
<1>4. \A i \in DOMAIN Written : Written[i][1] \in AllNames /\ Written[i] = Entry(Written[i][1])
  BY <1>3 DEF Entry
<1>5. \A name \in AllNames : \E i \in DOMAIN Written : Written[i][1] = name
  BY <1>1, Zenon DEF Names
<1>6. Read = Written
  BY Zenon DEF Read, Written
<1>7. "P" \in AllNames
  BY DEF AllNames, Single, OneByte
<1>8. Len(Written) # 0
  BY <1>2, <1>5, <1>7
<1> QED BY <1>1, <1>2, <1>4, <1>5, <1>6, <1>8

LEMMA FieldOfName ==
  ASSUME NEW name \in AllNames
  PROVE  FieldOf(name) = Entry(name)
<1> DEFINE i == CHOOSE j \in DOMAIN Written : Written[j][1] = name
<1>1. i \in DOMAIN Written /\ Written[i][1] = name
  BY Entries, Zenon
<1> HIDE DEF i
<1>2. Written[i] = Entry(name)
  BY <1>1, Entries
<1> QED BY <1>2, Zenon DEF FieldOf, i

LEMMA EntrySize ==
  ASSUME NEW name \in AllNames
  PROVE  Size(Entry(name)) = CountOf(name) * WidthOf(name) /\ Size(Entry(name)) \in Nat \ {0}
<1>1. CountOf(name) \in {1, 3, 4, 6, 8, 9, 16} /\ WidthOf(name) \in {1, 2, 4, 10}
  BY DEF CountOf, WidthOf
<1>2. Size(Entry(name)) = CountOf(name) * WidthOf(name)
  BY DEF Size, Entry
<1>3. CountOf(name) * WidthOf(name) \in Nat \ {0}
  BY <1>1
<1> QED BY <1>2, <1>3

(* Where the fields begin. *)
Places(b, n, size) ==
  /\ b \in [1 .. n -> Int]
  /\ b[1] = 1
  /\ \A i \in 1 .. n - 1 : b[i + 1] = b[i] + size[i]
IsBegin(b) == b = [i \in DOMAIN Read |-> IF i = 1 THEN 1 ELSE b[i - 1] + Size(Read[i - 1])]

LEMMA BeginSteps == Places(Begin, Len(Written), [i \in DOMAIN Written |-> Size(Written[i])])
<1> DEFINE n == Len(Written)
           size == [i \in DOMAIN Written |-> Size(Written[i])]
           step == [p \in Nat \X Int |-> p[2] + (IF p[1] + 1 \in 1 .. n THEN size[p[1] + 1] ELSE 0)]
<1>1. n \in Nat \ {0} /\ DOMAIN Written = 1 .. n /\ Read = Written
  BY Entries
<1>2. \A i \in 1 .. n : size[i] = Size(Read[i]) /\ size[i] \in Int
  BY <1>1, Entries, EntrySize
<1> HIDE DEF size, n
<1>3. step \in [Nat \X Int -> Int]
  BY <1>1, <1>2
<1>4. PICK g : Steps(g, Int, 1, step, n - 1)
  <2> HIDE DEF step
  <2>1. n - 1 \in Nat /\ 1 \in Int
    BY <1>1
  <2> QED BY <1>3, <2>1, Recursion, Zenon
<1>5. g \in [0 .. n - 1 -> Int] /\ g[0] = 1
  BY <1>4 DEF Steps
<1>6. ASSUME NEW k \in 0 .. n - 2
      PROVE  g[k + 1] = g[k] + size[k + 1]
  <2>1. k \in Nat /\ g[k] \in Int /\ k + 1 \in 1 .. n /\ k \in 0 .. n - 1 - 1
    BY <1>1, <1>5
  <2>2. step[<<k, g[k]>>] = g[k] + size[k + 1]
    BY <2>1
  <2> HIDE DEF step
  <2> QED BY <1>4, <2>1, <2>2 DEF Steps
<1> DEFINE b == [i \in 1 .. n |-> g[i - 1]]
<1>7. IsBegin(b)
  <2>1. ASSUME NEW i \in 1 .. n
        PROVE  b[i] = IF i = 1 THEN 1 ELSE b[i - 1] + Size(Read[i - 1])
    <3>1. CASE i = 1
      BY <1>1, <1>5, <3>1
    <3>2. CASE i # 1
      <4>1. i - 2 \in 0 .. n - 2 /\ i - 2 + 1 = i - 1 /\ i - 1 \in 1 .. n /\ i - 1 - 1 = i - 2
        BY <1>1, <3>2
      <4>2. g[i - 2 + 1] = g[i - 2] + size[i - 2 + 1]
        BY <1>6, <4>1
      <4>3. g[i - 1] = g[i - 2] + size[i - 1]
        BY <4>1, <4>2
      <4> QED BY <1>2, <3>2, <4>1, <4>3
    <3> QED BY <3>1, <3>2
  <2>2. b = [i \in 1 .. n |-> b[i]]
    OBVIOUS
  <2> HIDE DEF b
  <2>3. b = [i \in 1 .. n |-> IF i = 1 THEN 1 ELSE b[i - 1] + Size(Read[i - 1])]
    BY <2>1, <2>2
  <2> QED BY <1>1, <2>3 DEF IsBegin
<1> HIDE DEF b
<1>8. IsBegin(Begin)
  BY <1>7, Zenon DEF Begin, IsBegin
<1>9. /\ DOMAIN Begin = 1 .. n
      /\ Begin = [i \in 1 .. n |-> Begin[i]]
      /\ \A i \in 1 .. n : Begin[i] = IF i = 1 THEN 1 ELSE Begin[i - 1] + size[i - 1]
  BY <1>1, <1>2, <1>8 DEF IsBegin
<1>10. ASSUME NEW i \in 1 .. n - 1
       PROVE  Begin[i + 1] = Begin[i] + size[i]
  <2>1. \A j \in 1 .. n : j # 1 => Begin[j] = Begin[j - 1] + size[j - 1]
    BY <1>9
  <2>2. i + 1 \in 1 .. n /\ i + 1 # 1 /\ i + 1 - 1 = i
    BY <1>1
  <2> QED BY <2>1, <2>2
<1>11. Begin[1] = 1
  BY <1>1, <1>9
<1>12. \A i \in 1 .. n : Begin[i] \in Int
  <2> DEFINE S == {i \in Int : Begin[i] \in Int}
  <2>1. 1 \in S
    BY <1>11
  <2>2. ASSUME NEW i \in 1 .. n - 1, i \in S
        PROVE  i + 1 \in S
    <3>1. i \in 1 .. n /\ i \in Int
      BY <1>1
    <3>2. Begin[i] \in Int /\ size[i] \in Int
      BY <1>2, <2>2, <3>1
    <3>3. Begin[i + 1] = Begin[i] + size[i]
      BY <1>10
    <3> QED BY <3>1, <3>2, <3>3
  <2> HIDE DEF S
  <2>3. 1 .. n - 1 + 1 \subseteq S
    BY <1>1, <2>1, <2>2, Ascent
  <2> QED BY <1>1, <2>3 DEF S
<1>13. Begin \in [1 .. n -> Int]
  BY <1>9, <1>12
<1>14. Places(Begin, n, size)
  BY <1>10, <1>11, <1>13 DEF Places
<1> QED BY <1>14 DEF n, size

-----------------------------------------------------------------------------
(* What FlattenSeq joins is found again where it has been put. *)
Parts(q, V) == q \in Seq(Seq(V)) /\ Len(q) # 0
IsFlatten(f, q) == f = [i \in 1 .. Len(q) |-> IF i = 1 THEN q[i] ELSE f[i - 1] \o q[i]]
Joins(f, q, V) ==
  /\ f \in [1 .. Len(q) -> Seq(V)]
  /\ f[1] = q[1]
  /\ \A i \in 1 .. Len(q) - 1 : f[i + 1] = f[i] \o q[i + 1]

LEMMA FlattenExists ==
  ASSUME NEW V, NEW q, Parts(q, V)
  PROVE  \E f : IsFlatten(f, q)
<1> DEFINE n == Len(q)
           step == [p \in Nat \X Seq(V) |-> IF p[1] + 2 \in 1 .. n THEN p[2] \o q[p[1] + 2] ELSE p[2]]
<1>1. n \in Nat \ {0} /\ \A i \in 1 .. n : q[i] \in Seq(V)
  BY LenProperties, ElementOfSeq DEF Parts
<1> HIDE DEF n
<1>2. step \in [Nat \X Seq(V) -> Seq(V)]
  <2> SUFFICES ASSUME NEW p \in Nat \X Seq(V), p[1] + 2 \in 1 .. n
               PROVE  p[2] \o q[p[1] + 2] \in Seq(V)
    OBVIOUS
  <2>1. p[2] \in Seq(V) /\ q[p[1] + 2] \in Seq(V)
    BY <1>1
  <2> QED BY <2>1, ConcatProperties
<1>3. PICK g : Steps(g, Seq(V), q[1], step, n - 1)
  <2> HIDE DEF step
  <2>1. n - 1 \in Nat /\ q[1] \in Seq(V)
    BY <1>1
  <2> QED BY <1>2, <2>1, Recursion, Zenon
<1>4. g \in [0 .. n - 1 -> Seq(V)] /\ g[0] = q[1]
  BY <1>3 DEF Steps
<1>5. ASSUME NEW k \in 0 .. n - 2
      PROVE  g[k + 1] = g[k] \o q[k + 2]
  <2>1. k \in Nat /\ g[k] \in Seq(V) /\ k + 2 \in 1 .. n /\ k \in 0 .. n - 1 - 1
    BY <1>1, <1>4
  <2>2. step[<<k, g[k]>>] = g[k] \o q[k + 2]
    BY <2>1
  <2> HIDE DEF step
  <2> QED BY <1>3, <2>1, <2>2 DEF Steps
<1> DEFINE f == [i \in 1 .. n |-> g[i - 1]]
<1>6. ASSUME NEW i \in 1 .. n
      PROVE  f[i] = IF i = 1 THEN q[i] ELSE f[i - 1] \o q[i]
  <2>1. CASE i = 1
    BY <1>1, <1>4, <2>1
  <2>2. CASE i # 1
    <3>1. i - 2 \in 0 .. n - 2 /\ i - 2 + 1 = i - 1 /\ i - 2 + 2 = i /\ i - 1 \in 1 .. n /\ i - 1 - 1 = i - 2
      BY <1>1, <2>2
    <3>2. g[i - 2 + 1] = g[i - 2] \o q[i - 2 + 2]
      BY <1>5, <3>1
    <3>3. g[i - 1] = g[i - 2] \o q[i]
      BY <3>1, <3>2
    <3> QED BY <2>2, <3>1, <3>3
  <2> QED BY <2>1, <2>2
<1>7. f = [i \in 1 .. n |-> f[i]]
  OBVIOUS
<1> HIDE DEF f
<1>8. f = [i \in 1 .. n |-> IF i = 1 THEN q[i] ELSE f[i - 1] \o q[i]]
  BY <1>6, <1>7
<1>9. IsFlatten(f, q)
  BY <1>8 DEF IsFlatten, n
<1> QED BY <1>9

LEMMA FlattenSteps ==
  ASSUME NEW V, NEW q, Parts(q, V)
  PROVE  \E f : Joins(f, q, V) /\ FlattenSeq(q) = f[Len(q)]
<1> DEFINE n == Len(q)
           f == CHOOSE g : IsFlatten(g, q)
<1>1. FlattenSeq(q) = f[Len(q)]
  BY Zenon DEF FlattenSeq, IsFlatten, Parts
<1>2. IsFlatten(f, q)
  BY FlattenExists, Zenon
<1>3. n \in Nat \ {0} /\ \A i \in 1 .. n : q[i] \in Seq(V)
  BY LenProperties, ElementOfSeq DEF Parts
<1> HIDE DEF f
<1>4. f = [i \in 1 .. n |-> IF i = 1 THEN q[i] ELSE f[i - 1] \o q[i]]
  BY <1>2 DEF IsFlatten
<1> HIDE DEF n
<1>5. /\ f = [i \in 1 .. n |-> f[i]]
      /\ \A i \in 1 .. n : f[i] = IF i = 1 THEN q[i] ELSE f[i - 1] \o q[i]
  BY <1>4
<1>6. f[1] = q[1]
  <2>1. 1 \in 1 .. n
    BY <1>3
  <2> QED BY <1>5, <2>1, Zenon
<1>7. ASSUME NEW i \in 1 .. n - 1
      PROVE  f[i + 1] = f[i] \o q[i + 1]
  <2>1. \A j \in 1 .. n : \A k : j # 1 /\ j - 1 = k => f[j] = f[k] \o q[j]
    BY <1>5, Zenon
  <2> DEFINE k == i + 1
  <2>2. k \in 1 .. n /\ k # 1 /\ k - 1 = i
    BY <1>3
  <2> HIDE DEF k
  <2>3. f[k] = f[i] \o q[k]
    BY <2>1, <2>2, Zenon
  <2> QED BY <2>3 DEF k
<1>8. \A i \in 1 .. n : f[i] \in Seq(V)
  <2> DEFINE S == {i \in Int : f[i] \in Seq(V)}
  <2>1. 1 \in S
    BY <1>3, <1>6
  <2>2. ASSUME NEW i \in 1 .. n - 1, i \in S
        PROVE  i + 1 \in S
    <3>1. i + 1 \in 1 .. n /\ i + 1 \in Int
      BY <1>3
    <3>2. f[i] \in Seq(V) /\ q[i + 1] \in Seq(V)
      BY <1>3, <2>2, <3>1
    <3>3. f[i] \o q[i + 1] \in Seq(V)
      BY <3>2, ConcatProperties
    <3> QED BY <1>7, <3>1, <3>3
  <2> HIDE DEF S
  <2>3. 1 .. n - 1 + 1 \subseteq S
    <3>1. 1 \in Int /\ n - 1 \in Int /\ 1 <= n - 1 + 1
      BY <1>3
    <3> QED BY <2>1, <2>2, <3>1, Ascent, Zenon
  <2> QED BY <1>3, <2>3 DEF S
<1>9. f \in [1 .. n -> Seq(V)]
  BY <1>5, <1>8
<1>10. Joins(f, q, V)
  BY <1>6, <1>7, <1>9 DEF Joins, n
<1> QED BY <1>1, <1>10

(* The first of the parts i to n of a sequence. *)
Starts(a, b) == Len(a) <= Len(b) /\ \A j \in 1 .. Len(a) : b[j] = a[j]

LEMMA Flattened ==
  ASSUME NEW V, NEW q, Parts(q, V), NEW b,
         Places(b, Len(q), [i \in 1 .. Len(q) |-> Len(q[i])]),
         NEW i \in 1 .. Len(q)
  PROVE  /\ SubSeq(FlattenSeq(q), b[i], b[i] + Len(q[i]) - 1) = q[i]
         /\ b[i] >= 1 /\ b[i] - 1 + Len(q[i]) <= Len(FlattenSeq(q))
         /\ FlattenSeq(q) \in Seq(V)
<1> DEFINE n == Len(q)
<1>1. n \in Nat \ {0} /\ \A k \in 1 .. n : q[k] \in Seq(V) /\ Len(q[k]) \in Nat
  BY LenProperties, ElementOfSeq DEF Parts
<1>2. PICK f : Joins(f, q, V) /\ FlattenSeq(q) = f[n]
  BY FlattenSteps
<1>3. /\ \A k \in 1 .. n : f[k] \in Seq(V) /\ Len(f[k]) \in Nat
      /\ f[1] = q[1]
      /\ \A k \in 1 .. n - 1 : f[k + 1] = f[k] \o q[k + 1]
  BY <1>2, LenProperties DEF Joins
<1>4. ASSUME NEW k \in 1 .. n - 1
      PROVE  /\ Len(f[k + 1]) = Len(f[k]) + Len(q[k + 1])
             /\ Starts(f[k], f[k + 1])
             /\ \A j \in 1 .. Len(q[k + 1]) : f[k + 1][Len(f[k]) + j] = q[k + 1][j]
  <2>1. k \in 1 .. n /\ k + 1 \in 1 .. n
    BY <1>1
  <2> DEFINE x == f[k]
             y == q[k + 1]
  <2>2. x \in Seq(V) /\ y \in Seq(V) /\ f[k + 1] = x \o y /\ Len(x) \in Nat /\ Len(y) \in Nat
    BY <1>1, <1>3, <2>1
  <2> HIDE DEF x, y
  <2>3. /\ Len(x \o y) = Len(x) + Len(y)
        /\ \A j \in 1 .. Len(x) + Len(y) : (x \o y)[j] = IF j <= Len(x) THEN x[j] ELSE y[j - Len(x)]
    BY <2>2, ConcatProperties
  <2>4. ASSUME NEW j \in 1 .. Len(y)
        PROVE  (x \o y)[Len(x) + j] = y[j]
    <3>1. Len(x) + j \in 1 .. Len(x) + Len(y) /\ ~(Len(x) + j <= Len(x)) /\ Len(x) + j - Len(x) = j
      BY <2>2
    <3> QED BY <2>3, <3>1
  <2>5. Starts(x, x \o y)
    BY <2>2, <2>3 DEF Starts
  <2> QED BY <2>2, <2>3, <2>4, <2>5 DEF x, y
<1>5. /\ b[1] = 1 /\ \A k \in 1 .. n : b[k] \in Int
      /\ \A k \in 1 .. n - 1 : b[k + 1] = b[k] + Len(q[k])
  <2> DEFINE size == [k \in 1 .. n |-> Len(q[k])]
  <2>1. \A k \in 1 .. n - 1 : k \in 1 .. n /\ size[k] = Len(q[k])
    BY <1>1
  <2> HIDE DEF size
  <2>2. b \in [1 .. n -> Int] /\ b[1] = 1 /\ \A k \in 1 .. n - 1 : b[k + 1] = b[k] + size[k]
    BY Zenon DEF Places, size
  <2> QED BY <2>1, <2>2, Zenon
<1> HIDE DEF n
<1>6. ASSUME NEW k \in 1 .. n
      PROVE  Len(f[k]) = b[k] + Len(q[k]) - 1
  <2> DEFINE S == {j \in Int : Len(f[j]) = b[j] + Len(q[j]) - 1}
  <2>1. 1 \in S
    <3>1. Len(q[1]) \in Nat
      BY <1>1
    <3> QED BY <1>3, <1>5, <3>1
  <2>2. ASSUME NEW j \in 1 .. n - 1, j \in S
        PROVE  j + 1 \in S
    <3>1. /\ j + 1 \in Int /\ Len(q[j]) \in Nat /\ Len(q[j + 1]) \in Nat /\ b[j] \in Int
          /\ Len(f[j]) = b[j] + Len(q[j]) - 1
      BY <1>1, <1>5, <2>2
    <3>2. b[j + 1] = b[j] + Len(q[j]) /\ Len(f[j + 1]) = Len(f[j]) + Len(q[j + 1])
      BY <1>4, <1>5
    <3>3. Len(f[j + 1]) = b[j + 1] + Len(q[j + 1]) - 1
      <4>1. \A x \in Int, y, z \in Nat : x + y - 1 + z = x + y + z - 1
        OBVIOUS
      <4> QED BY <3>1, <3>2, <4>1, Zenon
    <3> QED BY <3>1, <3>3
  <2> HIDE DEF S
  <2>3. 1 .. n - 1 + 1 \subseteq S
    <3>1. 1 \in Int /\ n - 1 \in Int /\ 1 <= n - 1 + 1
      BY <1>1
    <3> QED BY <2>1, <2>2, <3>1, Ascent, Zenon
  <2>4. k \in S
    BY <1>1, <2>3
  <2> QED BY <2>4 DEF S
<1>7. i \in 1 .. n
  BY DEF n
<1>8. Starts(f[i], f[n])
  <2> DEFINE S == {j \in Int : Starts(f[i], f[j])}
  <2>1. i \in S
    BY <1>3, <1>7 DEF Starts
  <2>2. ASSUME NEW j \in i .. n - 1, j \in S
        PROVE  j + 1 \in S
    <3>1. j \in 1 .. n - 1 /\ j \in 1 .. n /\ j + 1 \in 1 .. n
      BY <1>1, <1>7
    <3>2. Starts(f[j], f[j + 1]) /\ Starts(f[i], f[j])
      BY <1>4, <2>2, <3>1
    <3>3. Len(f[i]) \in Nat /\ Len(f[j]) \in Nat /\ Len(f[j + 1]) \in Nat
      BY <1>3, <1>7, <3>1
    <3>4. Starts(f[i], f[j + 1])
      BY <3>2, <3>3 DEF Starts
    <3> QED BY <3>1, <3>4
  <2> HIDE DEF S
  <2>3. i .. n - 1 + 1 \subseteq S
    <3>1. i \in Int /\ n - 1 \in Int /\ i <= n - 1 + 1
      BY <1>1, <1>7
    <3> QED BY <2>1, <2>2, <3>1, Ascent, Zenon
  <2>4. n \in S
    BY <1>1, <1>7, <2>3
  <2> QED BY <2>4 DEF S
<1>9. b[i] >= 1 /\ \A j \in 1 .. Len(q[i]) : f[i][b[i] - 1 + j] = q[i][j]
  <2>1. CASE i = 1
    BY <1>1, <1>3, <1>5, <2>1
  <2>2. CASE i # 1
    <3> DEFINE k == i - 1
    <3>1. k \in 1 .. n - 1 /\ k \in 1 .. n /\ k + 1 = i
      BY <1>1, <1>7, <2>2
    <3> HIDE DEF k
    <3>2. /\ \A j \in 1 .. Len(q[k + 1]) : f[k + 1][Len(f[k]) + j] = q[k + 1][j]
          /\ Len(f[k]) = b[k] + Len(q[k]) - 1 /\ Len(f[k]) \in Nat
          /\ b[k + 1] = b[k] + Len(q[k])
      BY <1>3, <1>4, <1>5, <1>6, <3>1
    <3>3. /\ \A j \in 1 .. Len(q[i]) : f[i][Len(f[k]) + j] = q[i][j]
          /\ Len(f[k]) = b[i] - 1
      <4>1. b[k] \in Int /\ Len(q[k]) \in Nat /\ b[i] = b[k] + Len(q[k])
        BY <1>1, <1>5, <3>1, <3>2
      <4> QED BY <3>1, <3>2, <4>1
    <3>4. b[i] \in Int
      BY <1>5, <1>7
    <3> QED BY <3>2, <3>3, <3>4
  <2> QED BY <2>1, <2>2
<1> DEFINE t == FlattenSeq(q)
           l == Len(q[i])
<1>10. t = f[n]
  BY <1>2 DEF n
<1> HIDE DEF t
<1>11. b[i] \in Int /\ l \in Nat /\ q[i] \in Seq(V)
  BY <1>1, <1>5, <1>7
<1>12. \A j \in 1 .. l : b[i] - 1 + j \in 1 .. Len(f[i]) /\ t[b[i] - 1 + j] = q[i][j]
  <2> SUFFICES ASSUME NEW j \in 1 .. l
               PROVE  b[i] - 1 + j \in 1 .. Len(f[i]) /\ t[b[i] - 1 + j] = q[i][j]
    OBVIOUS
  <2>1. Len(f[i]) = b[i] + l - 1
    BY <1>6, <1>7
  <2>2. b[i] - 1 + j \in 1 .. Len(f[i])
    BY <1>9, <1>11, <2>1
  <2>3. f[n][b[i] - 1 + j] = f[i][b[i] - 1 + j]
    BY <1>8, <2>2 DEF Starts
  <2> QED BY <1>9, <1>10, <2>2, <2>3
<1>17. b[i] - 1 + l <= Len(t) /\ t \in Seq(V)
  <2>1. Len(f[i]) = b[i] + l - 1 /\ Len(f[i]) <= Len(f[n])
    BY <1>6, <1>7, <1>8 DEF Starts
  <2>2. \A x \in Int, y \in Nat : x - 1 + y = x + y - 1
    OBVIOUS
  <2>3. b[i] - 1 + l = b[i] + l - 1
    BY <1>11, <2>2, Zenon
  <2> QED BY <1>1, <1>3, <1>10, <2>1, <2>3
<1>13. \A k \in b[i] .. b[i] + l - 1 : t[k] \in V
  <2> SUFFICES ASSUME NEW k \in b[i] .. b[i] + l - 1 PROVE t[k] \in V
    OBVIOUS
  <2>1. k - b[i] + 1 \in 1 .. l /\ b[i] - 1 + (k - b[i] + 1) = k
    <3>1. \A x \in Int, y \in Nat : \A z \in x .. x + y - 1 :
            z - x + 1 \in 1 .. y /\ x - 1 + (z - x + 1) = z
      OBVIOUS
    <3> QED BY <1>11, <3>1, Zenon
  <2>2. t[k] = q[i][k - b[i] + 1]
    BY <1>12, <2>1
  <2> QED BY <1>11, <2>1, <2>2, ElementOfSeq
<1> DEFINE u == SubSeq(t, b[i], b[i] + l - 1)
<1>14. /\ u \in Seq(V)
       /\ Len(u) = IF b[i] <= b[i] + l - 1 THEN b[i] + l - 1 - b[i] + 1 ELSE 0
       /\ \A j \in 1 .. b[i] + l - 1 - b[i] + 1 : u[j] = t[b[i] + j - 1]
  <2> DEFINE e == b[i] + l - 1
             s == b[i]
  <2>1. s \in Int /\ e \in Int /\ \A k \in s .. e : t[k] \in V
    BY <1>11, <1>13
  <2> HIDE DEF e, s
  <2>2. /\ SubSeq(t, s, e) \in Seq(V)
        /\ Len(SubSeq(t, s, e)) = IF s <= e THEN e - s + 1 ELSE 0
        /\ \A j \in 1 .. e - s + 1 : SubSeq(t, s, e)[j] = t[s + j - 1]
    BY <2>1, SubSeqProperties
  <2> QED BY <2>2 DEF e, s
<1> HIDE DEF u
<1>15. Len(u) = l /\ \A j \in 1 .. l : u[j] = q[i][j]
  <2>1. Len(u) = l /\ b[i] + l - 1 - b[i] + 1 = l
    BY <1>11, <1>14
  <2>2. ASSUME NEW j \in 1 .. l PROVE u[j] = q[i][j]
    <3>1. u[j] = t[b[i] + j - 1] /\ b[i] + j - 1 = b[i] - 1 + j
      <4>1. \A x \in Int, y \in Nat, z \in Nat : x + z - 1 = x - 1 + z
        OBVIOUS
      <4>2. j \in Nat
        BY <1>11
      <4> QED BY <1>11, <1>14, <2>1, <4>1, <4>2, Zenon
    <3> QED BY <1>12, <3>1
  <2> QED BY <2>1, <2>2
<1>16. u = q[i]
  BY <1>11, <1>14, <1>15, SeqEqual
<1> QED BY <1>9, <1>16, <1>17 DEF u, t, l

-----------------------------------------------------------------------------
(* Numbers, as bytes and back. *)
Bytes(b, n) == b \in [1 .. n -> Octet]
HighByte(b, f) == IF Signed(f) /\ b[1] > 127 THEN b[1] - 256 ELSE b[1]
IsSum(u, b, h, n) == u = [i \in 1 .. n |-> IF i = 1 THEN h ELSE (u[i - 1] * 256) + b[i]]

(* The bytes of v; and the values read_number() goes through. *)
AreBytesOf(b, v, n) ==
  /\ Bytes(b, n)
  /\ n = 1 => b[1] = v % 256
  /\ n = 2 => b[1] = (v \div 256) % 256 /\ b[2] = v % 256
  /\ n = 4 => /\ b[1] = (((v \div 256) \div 256) \div 256) % 256 /\ b[2] = ((v \div 256) \div 256) % 256
              /\ b[3] = (v \div 256) % 256 /\ b[4] = v % 256
AreSumsOf(u, b, f, n) ==
  /\ read_number(b, f) = u[n]
  /\ u[1] = HighByte(b, f)
  /\ n > 1 => u[2] = (u[1] * 256) + b[2]
  /\ n > 2 => u[3] = (u[2] * 256) + b[3] /\ u[4] = (u[3] * 256) + b[4]
OneTwoFour == {1, 2, 4}

LEMMA BytesSequence ==
  ASSUME NEW b, NEW n \in Nat, NEW E, b \in [1 .. n -> E]
  PROVE  b \in Seq(E) /\ Len(b) = n
<1>1. b \in Seq(E)
  OBVIOUS
<1>2. DOMAIN b = 1 .. n
  OBVIOUS
<1>3. DOMAIN b = 1 .. Len(b) /\ Len(b) \in Nat
  BY <1>1, LenProperties
<1>4. \A k \in Nat : 1 .. k = 1 .. n => k = n
  OBVIOUS
<1> QED BY <1>1, <1>2, <1>3, <1>4

LEMMA SumSteps ==
  ASSUME NEW b, NEW n \in OneTwoFour, NEW f, Bytes(b, n)
  PROVE  \E u : AreSumsOf(u, b, f, n)
<1>n. n \in {1, 2, 4}
  BY DEF OneTwoFour
<1> DEFINE h == HighByte(b, f)
           u == CHOOSE w : IsSum(w, b, h, n)
           h2 == (h * 256) + b[2]
           h3 == (h2 * 256) + b[3]
           h4 == (h3 * 256) + b[4]
           w == [i \in 1 .. n |-> IF i = 1 THEN h ELSE IF i = 2 THEN h2 ELSE IF i = 3 THEN h3 ELSE h4]
<1>1. Len(b) = n /\ DOMAIN b = 1 .. n
  <2>1. n \in Nat
    BY <1>n
  <2> QED BY <2>1, BytesSequence DEF Bytes
<1>2. read_number(b, f) = u[n]
  BY <1>1, Zenon DEF read_number, IsSum, HighByte
<1>3. IsSum(w, b, h, n)
  <2> HIDE DEF h, h2, h3, h4
  <2>1. CASE n = 1
    BY <2>1 DEF IsSum
  <2>2. CASE n = 2
    BY <2>2 DEF IsSum, h2
  <2>3. CASE n = 4
    BY <2>3 DEF IsSum, h2, h3, h4
  <2> QED BY <1>n, <2>1, <2>2, <2>3
<1>4. IsSum(u, b, h, n)
  BY <1>3, Zenon
<1> HIDE DEF u, h
<1>5. \A i \in 1 .. n : u[i] = IF i = 1 THEN h ELSE (u[i - 1] * 256) + b[i]
  BY <1>4 DEF IsSum
<1>6. /\ u[1] = h
      /\ n > 1 => u[2] = (u[1] * 256) + b[2]
      /\ n > 2 => u[3] = (u[2] * 256) + b[3] /\ u[4] = (u[3] * 256) + b[4]
  BY <1>n, <1>5
<1> QED BY <1>2, <1>6 DEF h, AreSumsOf

LEMMA Bytes32 ==
  ASSUME NEW v \in Int
  PROVE  /\ v \div 256 ^ 3 = ((v \div 256) \div 256) \div 256
         /\ v \div 256 ^ 2 = (v \div 256) \div 256
         /\ v \div 256 ^ 1 = v \div 256 /\ v \div 256 ^ 0 = v
         /\ -MaxWord32 - 1 <= v /\ v <= MaxWord32 => ((v \div 256) \div 256) \div 256 \in -128 .. 127
  BY SMT DEF MaxWord32

LEMMA Interval == \A x, y \in Int : \A v : v \in x .. y <=> v \in Int /\ x <= v /\ v <= y
  OBVIOUS

LEMMA Octets == \A v : v \in Octet <=> v \in Int /\ 0 <= v /\ v <= 255
<1>1. 0 \in Int /\ 255 \in Int
  OBVIOUS
<1> QED BY <1>1, Interval, Zenon DEF Octet

LEMMA WrittenBytes ==
  ASSUME NEW v \in Int, NEW n \in OneTwoFour
  PROVE  AreBytesOf(write_number(v, n), v, n)
<1> DEFINE b == write_number(v, n)
<1>1. b = [i \in 1 .. n |-> (v \div 256 ^ (n - i)) % 256]
  BY DEF write_number
<1> HIDE DEF b
<1>n. n \in {1, 2, 4}
  BY DEF OneTwoFour
<1>2. CASE n = 1
  <2>1. b[1] = (v \div 256 ^ 0) % 256
    BY <1>1, <1>2
  <2> QED BY <1>1, <1>2, <2>1, Bytes32, Octets DEF AreBytesOf, Bytes, b
<1>3. CASE n = 2
  <2>1. b[1] = (v \div 256 ^ 1) % 256 /\ b[2] = (v \div 256 ^ 0) % 256
    BY <1>1, <1>3
  <2> QED BY <1>1, <1>3, <2>1, Bytes32, Octets DEF AreBytesOf, Bytes, b
<1>4. CASE n = 4
  <2>1. /\ b[1] = (v \div 256 ^ 3) % 256 /\ b[2] = (v \div 256 ^ 2) % 256
        /\ b[3] = (v \div 256 ^ 1) % 256 /\ b[4] = (v \div 256 ^ 0) % 256
    BY <1>1, <1>4
  <2>2. /\ b[1] = (((v \div 256) \div 256) \div 256) % 256 /\ b[2] = ((v \div 256) \div 256) % 256
        /\ b[3] = (v \div 256) % 256 /\ b[4] = v % 256
    <3>1. /\ v \div 256 ^ 3 = ((v \div 256) \div 256) \div 256
          /\ v \div 256 ^ 2 = (v \div 256) \div 256
          /\ v \div 256 ^ 1 = v \div 256 /\ v \div 256 ^ 0 = v
      BY Bytes32
    <3> QED BY <2>1, <3>1, Zenon
  <2>3. Bytes(b, 4)
    BY <1>1, <1>4, <2>2, Octets DEF Bytes
  <2> QED BY <1>4, <2>2, <2>3 DEF AreBytesOf, b
<1> QED BY <1>n, <1>2, <1>3, <1>4

(* The values that a field of as many bytes holds. *)
Holds(v, f) ==
  /\ v \in Int
  /\ \/ f[3] = 1 /\ 0 <= v /\ v <= 127
     \/ f[3] = 1 /\ ~Signed(f) /\ 0 <= v /\ v <= 255
     \/ f[3] = 2 /\ Signed(f) /\ -32768 <= v /\ v <= 32767
     \/ f[3] = 2 /\ ~Signed(f) /\ 0 <= v /\ v <= 65535
     \/ f[3] = 4 /\ ((v \div 256) \div 256) \div 256 \in -128 .. 127

LEMMA NumberBack ==
  ASSUME NEW v, NEW f, Holds(v, f)
  PROVE  read_number(write_number(v, f[3]), f) = v
<1> DEFINE n == f[3]
           b == write_number(v, n)
<1> SUFFICES read_number(b, f) = v
  OBVIOUS
<1>1. v \in Int /\ n \in {1, 2, 4}
  BY DEF Holds
<1>4. n = f[3] /\ n \in OneTwoFour
  BY <1>1 DEF OneTwoFour
<1> HIDE DEF n
<1>10. AreBytesOf(b, v, n)
  BY <1>1, <1>4, WrittenBytes, Zenon
<1> HIDE DEF b
<1>2. /\ Bytes(b, n)
      /\ n = 1 => b[1] = v % 256
      /\ n = 2 => b[1] = (v \div 256) % 256 /\ b[2] = v % 256
      /\ n = 4 => /\ b[1] = (((v \div 256) \div 256) \div 256) % 256 /\ b[2] = ((v \div 256) \div 256) % 256
                  /\ b[3] = (v \div 256) % 256 /\ b[4] = v % 256
  BY <1>10 DEF AreBytesOf
<1>11. PICK u : AreSumsOf(u, b, f, n)
  <2>1. Bytes(b, n) /\ n \in OneTwoFour
    BY <1>2, <1>4
  <2> QED BY ONLY <2>1, SumSteps
<1>3. /\ read_number(b, f) = u[n]
      /\ u[1] = HighByte(b, f)
      /\ n > 1 => u[2] = (u[1] * 256) + b[2]
      /\ n > 2 => u[3] = (u[2] * 256) + b[3] /\ u[4] = (u[3] * 256) + b[4]
  BY <1>11 DEF AreSumsOf
<1>5. u[1] = HighByte(b, f) /\ (~Signed(f) \/ b[1] <= 127 => u[1] = b[1])
        /\ (Signed(f) /\ b[1] > 127 => u[1] = b[1] - 256) /\ b[1] \in Int
  BY <1>1, <1>2, <1>3, Octets DEF HighByte, Bytes
<1> DEFINE h == u[1]
<1>6. CASE n = 1
  <2>1. h = v
    BY <1>1, <1>2, <1>4, <1>5, <1>6 DEF Holds
  <2> QED BY <1>3, <1>6, <2>1
<1>7. CASE n = 2
  <2>1. h = v \div 256
    BY <1>1, <1>2, <1>4, <1>5, <1>7 DEF Holds
  <2> QED BY <1>1, <1>2, <1>3, <1>7, <2>1
<1>8. CASE n = 4
  <2>1. Signed(f) /\ ((v \div 256) \div 256) \div 256 \in -128 .. 127
    BY <1>4, <1>8 DEF Signed, Holds
  <2>2. h = ((v \div 256) \div 256) \div 256
    <3>1. b[1] = (((v \div 256) \div 256) \div 256) % 256
      BY <1>2, <1>8
    <3> QED BY <1>1, <1>5, <2>1, <3>1
  <2>3. u[2] = (v \div 256) \div 256
    BY <1>1, <1>2, <1>3, <1>8, <2>2
  <2>4. u[3] = v \div 256
    BY <1>1, <1>2, <1>3, <1>8, <2>3
  <2>5. u[4] = v
    BY <1>1, <1>2, <1>3, <1>8, <2>4
  <2> QED BY <1>3, <1>8, <2>5
<1> QED BY <1>1, <1>6, <1>7, <1>8

-----------------------------------------------------------------------------
(* The nibbles of the registers. *)
TwoNibbles == {"disp_test", "annunc", "rbr", "tbr", "sreq", "line_count", "unknown2"}
FourNibbles == {"crc", "unknown"}
FiveNibbles == {"disp_addr", "menu_addr"}
NibblesOf(name) ==
  CASE name \in TwoNibbles -> 2 [] name = "line_offset" -> 3 [] name \in FourNibbles -> 4
    [] name \in FiveNibbles -> 5 [] name = "timer2" -> 8 [] OTHER -> 1

LEMMA WidthOfName ==
  ASSUME NEW name \in RegisterNames
  PROVE  Width(name) = NibblesOf(name)
<1>1. \A r \in Registers : r[3] = NibblesOf(r[1])
  BY DEF Registers, NibblesOf, TwoNibbles, FourNibbles, FiveNibbles
<1>2. \E r \in Registers : r[1] = name
  BY DEF RegisterNames
<1> QED BY <1>1, <1>2, Zenon DEF Width

OneNibble == RegisterNames \ (TwoNibbles \cup FourNibbles \cup FiveNibbles \cup {"line_offset", "timer1", "timer2"})

LEMMA RegisterRange ==
  ASSUME NEW name \in RegisterNames \ {"timer1", "timer2"}, NEW v, v \in 0 .. 16 ^ Width(name) - 1
  PROVE  /\ v \in Int /\ 0 <= v
         /\ name \in OneNibble => v <= 15
         /\ name \in TwoNibbles => v <= 255
         /\ name = "line_offset" => v <= 4095
         /\ name \in FourNibbles => v <= 65535
         /\ name \in FiveNibbles => v <= 1048575
<1> DEFINE w == NibblesOf(name)
<1>1. Width(name) = w
  BY WidthOfName
<1>2. 16 ^ 1 = 16 /\ 16 ^ 2 = 256 /\ 16 ^ 3 = 4096 /\ 16 ^ 4 = 65536 /\ 16 ^ 5 = 1048576
  BY SMT
<1>3. /\ name \in OneNibble => w = 1
      /\ name \in TwoNibbles => w = 2
      /\ name = "line_offset" => w = 3
      /\ name \in FourNibbles => w = 4
      /\ name \in FiveNibbles => w = 5
  BY DEF NibblesOf, OneNibble, TwoNibbles, FourNibbles, FiveNibbles
<1>4. w \in {1, 2, 3, 4, 5}
  BY DEF NibblesOf
<1> HIDE DEF w
<1>5. 16 ^ w - 1 \in Int
  BY <1>4, <1>2
<1> DEFINE top == 16 ^ w - 1
<1>6. v \in Int /\ 0 <= v /\ v <= top
  <2>1. v \in 0 .. top
    BY <1>1
  <2> HIDE DEF top
  <2> QED BY <1>5, <2>1 DEF top
<1>7. /\ w = 1 => top = 16 ^ 1 - 1
      /\ w = 2 => top = 16 ^ 2 - 1
      /\ w = 3 => top = 16 ^ 3 - 1
      /\ w = 4 => top = 16 ^ 4 - 1
      /\ w = 5 => top = 16 ^ 5 - 1
  BY Zenon
<1> HIDE DEF top
<1> QED BY <1>3, <1>6, <1>7, SMT

LEMMA ShortRange == \A v : v \in Short <=> v \in Int /\ -32768 <= v /\ v <= 32767
<1> DEFINE low == -32768
           high == 32767
<1>1. Short = low .. high /\ low \in Int /\ high \in Int
  BY DEF Short
<1> HIDE DEF low, high
<1>2. \A v : v \in Short <=> v \in Int /\ low <= v /\ v <= high
  BY <1>1
<1>3. low = -32768 /\ high = 32767
  BY DEF low, high
<1> QED BY <1>2, <1>3

LEMMA NumberFits ==
  ASSUME NEW name \in Number, NEW v, Fits(name, v)
  PROVE  Holds(v, Entry(name))
<1>1. CASE name \in RegisterNames \ {"timer1", "timer2"}
  <2>1. v \in 0 .. 16 ^ Width(name) - 1
    BY <1>1 DEF Fits
  <2>2. /\ v \in Int /\ 0 <= v
        /\ name \in OneNibble => v <= 15
        /\ name \in TwoNibbles => v <= 255
        /\ name = "line_offset" => v <= 4095
        /\ name \in FourNibbles => v <= 65535
        /\ name \in FiveNibbles => v <= 1048575
    BY <1>1, <2>1, RegisterRange
  <2>3. CASE name \in OneNibble
    <3>1. WidthOf(name) = 1
      BY <1>1, <2>3 DEF OneNibble, RegisterNames, Registers, WidthOf, TwoBytes, FourBytes, TwoNibbles, FourNibbles, FiveNibbles
    <3> QED BY <2>2, <2>3, <3>1 DEF Holds, Entry
  <2>4. CASE name \in TwoNibbles
    <3>1. WidthOf(name) = 1 /\ name # "timer1"
      BY <2>4 DEF WidthOf, TwoBytes, FourBytes, TwoNibbles
    <3>2. ~Signed(Entry(name))
      BY <2>4, <3>1 DEF Signed, Entry, TwoNibbles
    <3> QED BY <2>2, <2>4, <3>1, <3>2 DEF Holds, Entry
  <2>5. CASE name \in FourNibbles \cup {"line_offset"}
    <3>1. WidthOf(name) = 2
      BY <2>5 DEF WidthOf, TwoBytes, FourBytes, FourNibbles
    <3>2. ~Signed(Entry(name))
      BY <2>5, <3>1 DEF Signed, Entry, FourNibbles
    <3>3. v <= 65535
      BY <2>2, <2>5
    <3> QED BY <2>2, <3>1, <3>2, <3>3 DEF Holds, Entry
  <2>6. CASE name \in FiveNibbles
    <3>1. WidthOf(name) = 4
      BY <2>6 DEF WidthOf, TwoBytes, FourBytes, FiveNibbles
    <3>2. ((v \div 256) \div 256) \div 256 \in -128 .. 127
      BY <2>2, <2>6, SMT
    <3> QED BY <2>2, <3>1, <3>2 DEF Holds, Entry
  <2> QED BY <1>1, <2>3, <2>4, <2>5, <2>6 DEF OneNibble
<1>2. CASE name = "timer1"
  <2>1. v \in Int /\ 0 <= v /\ v <= 127
    <3>1. v \in 0 .. 127
      BY <1>2, Zenon DEF Fits
    <3> QED BY <3>1
  <2>2. WidthOf(name) = 1
    BY <1>2 DEF WidthOf, TwoBytes, FourBytes
  <2> QED BY <2>1, <2>2 DEF Holds, Entry
<1>3. CASE name = "timer2"
  <2>1. v \in Int /\ -MaxWord32 - 1 <= v /\ v <= MaxWord32
    <3>1. LATEST \in Int /\ LATEST <= MaxWord32 /\ MaxWord32 \in Int
      <4>1. MaxWord32 \in Int
        BY DEF MaxWord32
      <4> QED BY <4>1, SchedulerAssumption, Interval
    <3>2. v \in -LATEST .. MaxWord32
      BY <1>3 DEF Fits
    <3>3. v \in Int /\ -LATEST <= v /\ v <= MaxWord32
      BY <3>1, <3>2
    <3> QED BY <3>1, <3>3
  <2>2. ((v \div 256) \div 256) \div 256 \in -128 .. 127
    BY <2>1, Bytes32
  <2>3. WidthOf(name) = 4
    BY <1>3 DEF WidthOf, TwoBytes, FourBytes
  <2> QED BY <2>1, <2>2, <2>3 DEF Holds, Entry
<1>4. CASE name \in {"t1_tick", "t2_tick"}
  <2>1. v \in Short
    BY <1>4 DEF Fits
  <2>2. v \in Int /\ -32768 <= v /\ v <= 32767
    BY <2>1, ShortRange
  <2>3. WidthOf(name) = 2 /\ Signed(Entry(name))
    BY <1>4 DEF WidthOf, TwoBytes, FourBytes, Signed, Entry
  <2> QED BY <2>2, <2>3 DEF Holds, Entry
<1>5. CASE name = "MP"
  <2>1. v \in {0, 1}
    BY <1>5 DEF Fits
  <2>2. WidthOf(name) = 1
    BY <1>5 DEF WidthOf, TwoBytes, FourBytes
  <2> QED BY <2>1, <2>2 DEF Holds, Entry
<1> QED BY <1>1, <1>2, <1>3, <1>4, <1>5 DEF Number, RegisterNames, Registers

-----------------------------------------------------------------------------
(* Each field is written as many bytes as it has, and read back. *)
Code == Octet \cup {"main", "handler", "service"}

LEMMA FieldBack ==
  ASSUME NEW name \in AllNames, NEW s, Fits(name, s[name])
  PROVE  /\ WriteField(s, Entry(name)) \in Seq(Code)
         /\ Len(WriteField(s, Entry(name))) = Size(Entry(name))
         /\ ReadField(WriteField(s, Entry(name)), Entry(name)) = s[name]
<1> DEFINE v == s[name]
           f == Entry(name)
<1>1. f[1] = name /\ f[2] = CountOf(name) /\ f[3] = WidthOf(name)
  BY DEF Entry
<1>2. Size(f) = CountOf(name) * WidthOf(name) /\ Size(f) \in Nat \ {0}
  BY EntrySize
<1>3. \A b, n : n \in Nat /\ b \in [1 .. n -> Octet] => b \in Seq(Code) /\ Len(b) = n
  <2> SUFFICES ASSUME NEW b, NEW n \in Nat, b \in [1 .. n -> Octet]
               PROVE  b \in Seq(Code) /\ Len(b) = n
    OBVIOUS
  <2>1. b \in [1 .. n -> Code]
    BY DEF Code
  <2> QED BY <2>1, BytesSequence
<1> HIDE DEF v, f
<1>4. CASE name \in Number
  <2>1. Holds(v, f)
    BY <1>4, NumberFits DEF v, f
  <2>2. f[3] \in OneTwoFour /\ v \in Int /\ f[3] \in Nat
    BY <2>1 DEF Holds, OneTwoFour
  <2> DEFINE b == write_number(v, f[3])
  <2>3. b \in [1 .. f[3] -> Octet]
    BY <2>2, WrittenBytes DEF AreBytesOf, Bytes
  <2>4. read_number(b, f) = v
    BY <2>1, NumberBack
  <2>5. WriteField(s, f) = b /\ ReadField(b, f) = read_number(b, f)
    BY <1>1, <1>4 DEF WriteField, ReadField, v, Number, Flag, Place
  <2>6. Size(f) = f[3]
    <3>1. CountOf(name) = 1
      BY <1>4 DEF Number, CountOf, SixteenBytes
    <3> QED BY <1>1, <1>2, <2>2, <3>1
  <2> HIDE DEF b
  <2> QED BY <1>3, <2>2, <2>3, <2>4, <2>5, <2>6 DEF v, f
<1>5. CASE name \in Flag
  <2>1. v \in BOOLEAN
    BY <1>5 DEF Fits, v
  <2> DEFINE b == <<IF v THEN 1 ELSE 0>>
  <2>2. WriteField(s, f) = b /\ ReadField(b, f) = (b[1] # 0)
    BY <1>1, <1>5 DEF WriteField, ReadField, v, Flag, Number, Place
  <2>3. b \in [1 .. 1 -> Octet]
    BY Octets
  <2>4. Size(f) = 1
    BY <1>2, <1>5 DEF Flag, CountOf, WidthOf, SixteenBytes, TwoBytes, FourBytes
  <2>5. (b[1] # 0) = v
    BY <2>1
  <2>7. b \in Seq(Code) /\ Len(b) = 1
    BY <1>3, <2>3
  <2> HIDE DEF b
  <2> QED BY <2>2, <2>4, <2>5, <2>7 DEF v, f
<1>6. CASE name \in Place
  <2>1. v \in {"main", "handler", "service"}
    BY <1>6 DEF Fits, v
  <2> DEFINE b == [i \in 1 .. Size(f) |-> v]
  <2>2. WriteField(s, f) = b /\ ReadField(b, f) = b[1]
    BY <1>1, <1>6 DEF WriteField, ReadField, v, Place, Flag, Number
  <2>3. b \in [1 .. Size(f) -> Code] /\ b[1] = v
    BY <1>2, <2>1 DEF Code
  <2>4. b \in Seq(Code) /\ Len(b) = Size(f)
    BY <1>2, <2>3, BytesSequence
  <2> HIDE DEF b
  <2> QED BY <2>2, <2>3, <2>4 DEF v, f
<1>7. CASE name \notin Number \cup Flag \cup Place
  <2>1. v \in Seq(Octet) /\ Len(v) = Size(f)
    BY <1>7, FieldOfName DEF Fits, v, f
  <2>2. WriteField(s, f) = v /\ ReadField(v, f) = v
    BY <1>1, <1>7 DEF WriteField, ReadField, v
  <2>3. v \in Seq(Code)
    BY <2>1 DEF Code
  <2> QED BY <2>1, <2>2, <2>3 DEF v, f
<1> QED BY <1>4, <1>5, <1>6, <1>7

(* What has been saved of the registers is read back, each field where it has been
   put, with all of its bytes and its sign (write_files() and read_files() of
   init.c). *)
THEOREM ReadsBack ==
  ASSUME NEW s, IsSaturn(s)
  PROVE  ReadConf(Conf(s)) = s /\ Conf(s) \notin {NoFile, <<>>}
<1> DEFINE q == [i \in DOMAIN Written |-> WriteField(s, Written[i])]
           n == Len(Written)
           t == Conf(s)
<1>1. /\ n \in Nat \ {0} /\ DOMAIN Written = 1 .. n /\ Read = Written /\ Names = AllNames
      /\ \A i \in 1 .. n : Written[i][1] \in AllNames /\ Written[i] = Entry(Written[i][1])
      /\ \A name \in AllNames : \E i \in 1 .. n : Written[i][1] = name
  BY Entries
<1> HIDE DEF n
<1>2. \A name \in AllNames : Fits(name, s[name])
  BY <1>1 DEF IsSaturn
<1>3. \A i \in 1 .. n : /\ q[i] \in Seq(Code) /\ Len(q[i]) = Size(Written[i])
                        /\ ReadField(q[i], Written[i]) = s[Written[i][1]]
  <2> SUFFICES ASSUME NEW i \in 1 .. n
               PROVE  /\ q[i] \in Seq(Code) /\ Len(q[i]) = Size(Written[i])
                      /\ ReadField(q[i], Written[i]) = s[Written[i][1]]
    OBVIOUS
  <2> DEFINE name == Written[i][1]
  <2>1. q[i] = WriteField(s, Written[i]) /\ name \in AllNames /\ Written[i] = Entry(name) /\ Fits(name, s[name])
    BY <1>1, <1>2
  <2> HIDE DEF name, q
  <2>2. /\ WriteField(s, Entry(name)) \in Seq(Code)
        /\ Len(WriteField(s, Entry(name))) = Size(Entry(name))
        /\ ReadField(WriteField(s, Entry(name)), Entry(name)) = s[name]
    BY <2>1, FieldBack
  <2> QED BY <2>1, <2>2 DEF name
<1>4. q \in Seq(Seq(Code)) /\ Len(q) = n
  <2>1. q \in [1 .. n -> Seq(Code)]
    BY <1>1, <1>3
  <2> HIDE DEF q
  <2> QED BY <1>1, <2>1, BytesSequence
<1> HIDE DEF q
<1>5. Parts(q, Code)
  BY <1>1, <1>4 DEF Parts
<1>6. Places(Begin, Len(q), [i \in 1 .. Len(q) |-> Len(q[i])])
  <2>1. [i \in 1 .. Len(q) |-> Len(q[i])] = [i \in DOMAIN Written |-> Size(Written[i])]
    BY <1>1, <1>3, <1>4
  <2> QED BY <1>4, <2>1, BeginSteps, Zenon DEF n
<1>7. \A i \in 1 .. n : /\ SubSeq(t, Begin[i], Begin[i] + Len(q[i]) - 1) = q[i]
                        /\ Begin[i] >= 1 /\ Begin[i] - 1 + Len(q[i]) <= Len(t)
                        /\ t \in Seq(Code)
  <2>1. t = FlattenSeq(q)
    BY DEF Conf, q
  <2> HIDE DEF t
  <2> SUFFICES ASSUME NEW i \in 1 .. n
               PROVE  /\ SubSeq(t, Begin[i], Begin[i] + Len(q[i]) - 1) = q[i]
                      /\ Begin[i] >= 1 /\ Begin[i] - 1 + Len(q[i]) <= Len(t)
                      /\ t \in Seq(Code)
    OBVIOUS
  <2>2. i \in 1 .. Len(q)
    BY <1>4
  <2>3. /\ SubSeq(FlattenSeq(q), Begin[i], Begin[i] + Len(q[i]) - 1) = q[i]
        /\ Begin[i] >= 1 /\ Begin[i] - 1 + Len(q[i]) <= Len(FlattenSeq(q))
        /\ FlattenSeq(q) \in Seq(Code)
    BY <1>5, <1>6, <2>2, Flattened
  <2> QED BY <2>1, <2>3
<1> HIDE DEF t
<1>8. ASSUME NEW name \in Names
      PROVE  LET i == CHOOSE j \in DOMAIN Read : Read[j][1] = name
             IN  ReadField(SubSeq(t, Begin[i], Begin[i] + Size(Read[i]) - 1), Read[i]) = s[name]
  <2> DEFINE i == CHOOSE j \in DOMAIN Read : Read[j][1] = name
  <2>1. i \in 1 .. n /\ Written[i][1] = name /\ Read = Written
    BY <1>1, Zenon
  <2> HIDE DEF i
  <2>2. SubSeq(t, Begin[i], Begin[i] + Size(Read[i]) - 1) = q[i]
    BY <1>3, <1>7, <2>1
  <2>3. ReadField(q[i], Read[i]) = s[name]
    BY <1>3, <2>1
  <2> QED BY <2>2, <2>3 DEF i
<1>9. ReadConf(t) = [name \in Names |-> s[name]]
  <2>1. {Read[i][1] : i \in DOMAIN Read} = Names
    BY <1>1 DEF Names
  <2> QED BY <1>8, <2>1, Zenon DEF ReadConf
<1>10. ReadConf(t) = s
  BY <1>9 DEF IsSaturn
<1>11. Len(t) \in Nat /\ Len(t) > 1
  <2>1. PICK i \in 1 .. n : Written[i][1] = "A"
    BY <1>1 DEF AllNames, SixteenBytes
  <2>2. Written[i] = Entry("A")
    BY <1>1, <2>1
  <2>3. Size(Entry("A")) = 16
    BY DEF Size, Entry, CountOf, WidthOf, SixteenBytes, TwoBytes, FourBytes
  <2>4. Begin[i] - 1 + 16 <= Len(t) /\ Begin[i] >= 1 /\ t \in Seq(Code)
    BY <1>3, <1>7, <2>2, <2>3
  <2>5. Begin[i] \in Int
    BY <1>4, <1>6, Zenon DEF Places
  <2>6. Len(t) \in Nat
    BY <2>4, LenProperties
  <2> QED BY <2>4, <2>5, <2>6
<1>12. t # NoFile /\ t # <<>>
  <2>1. Len(NoFile) = 1 /\ Len(<<>>) = 0 /\ Len(t) # 1 /\ Len(t) # 0
    <3>1. Len(t) # 1 /\ Len(t) # 0
      BY <1>11
    <3>2. Len(<<-1>>) = 1 /\ Len(<<>>) = 0
      BY SMT
    <3> QED BY <3>1, <3>2, Zenon DEF NoFile
  <2> QED BY <2>1, Zenon
<1> QED BY <1>10, <1>12 DEF t

(***************************************************************************)
(* 3. The layout of the display.                                           *)
(***************************************************************************)

LinesOf(s) ==
  IF s.line_count % DISP_ROWS = 0 THEN DISP_ROWS - 1 ELSE s.line_count % DISP_ROWS

LayoutFields == {"on", "offset", "lines", "disp_start", "nibs_per_line", "disp_end", "menu_start",
           "menu_end", "contrast", "annunc"}

(* d is the layout for s, field by field, but for the end. *)
Begins(d, s) ==
  /\ d = [f \in LayoutFields |-> d[f]]
  /\ d.on = Bit(s.disp_io, 3)
  /\ d.offset = s.disp_io % 8
  /\ d.lines = LinesOf(s)
  /\ d.disp_start = DispStart(s.disp_addr)
  /\ d.nibs_per_line = NibsPerLine(s.disp_io % 8, s.line_offset)
  /\ d.menu_start = s.menu_addr
  /\ d.menu_end = s.menu_addr + (MENU_ROWS * NIBBLES_PER_ROW)
  /\ d.contrast = s.contrast_ctrl + (16 * (s.disp_test % 2))
  /\ d.annunc = s.annunc

Follows(d, s) ==
  Begins(d, s) /\ d.disp_end = d.disp_start + (d.nibs_per_line * (d.lines + 1))

(* WithEnd sets the end. *)
LEMMA EndFollows ==
  ASSUME NEW d, NEW s, Begins(d, s)
  PROVE  Follows(WithEnd(d), s)
  <1> DEFINE end == d.disp_start + (d.nibs_per_line * (d.lines + 1))
             w == [d EXCEPT !.disp_end = end]
  <1> HIDE DEF end
  <1>1. /\ w = [f \in LayoutFields |-> w[f]]
        /\ \A f \in LayoutFields \ {"disp_end"} : w[f] = d[f]
        /\ w.disp_end = end
    BY DEF Begins, LayoutFields
  <1> HIDE DEF w
  <1>2. Follows(w, s)
    BY <1>1 DEF Begins, Follows, LayoutFields, end
  <1> QED  BY <1>2 DEF WithEnd, w, end

LEMMA LayoutFollows ==
  ASSUME NEW s
  PROVE  Follows(LayoutOf(s), s)
  BY EndFollows DEF LayoutOf, LinesOf, Begins, LayoutFields

(* The fields determine the layout. *)
LEMMA FollowsLayout ==
  ASSUME NEW d, NEW s, Follows(d, s)
  PROVE  d = LayoutOf(s)
  <1> DEFINE l == LayoutOf(s)
  <1>1. Follows(l, s)
    BY LayoutFollows
  <1> HIDE DEF l
  <1>2. \A f \in LayoutFields : d[f] = l[f]
    BY <1>1 DEF Follows, Begins, LayoutFields
  <1>3. d = [f \in LayoutFields |-> d[f]] /\ l = [f \in LayoutFields |-> l[f]]
    BY <1>1 DEF Follows, Begins
  <1>4. d = l
    BY <1>2, <1>3
  <1> QED  BY <1>4 DEF l

(***************************************************************************)
(* The registers the layout depends on are in their ranges, and the layout *)
(* is the one init_display() derives from them (LayoutFollows and          *)
(* FollowsLayout: Follows is equality with LayoutOf).                      *)
(***************************************************************************)
Layouted(n) ==
  /\ {"saturn", "display", "old_line_offset"} \subseteq DOMAIN n
  /\ {"disp_io", "contrast_ctrl", "disp_test", "annunc", "disp_addr", "line_offset", "line_count",
      "menu_addr"} \subseteq DOMAIN n.saturn
  /\ n.saturn.contrast_ctrl \in 0 .. 15
  /\ n.saturn.disp_test \in Nat
  /\ n.saturn.line_offset \in Nat
  /\ n.saturn.line_count \in Nat
  /\ n.old_line_offset \in {-1, n.saturn.line_offset}
  /\ Follows(n.display, n.saturn)

LayoutRegisters == {"disp_io", "contrast_ctrl", "disp_test", "annunc", "disp_addr", "line_offset",
                    "line_count", "menu_addr"}

(* A change of anything else keeps the layout. *)
LEMMA OthersKeepLayout ==
  ASSUME NEW n, NEW o, Layouted(n), DOMAIN o = DOMAIN n, DOMAIN o.saturn = DOMAIN n.saturn,
         \A r \in LayoutRegisters : o.saturn[r] = n.saturn[r],
         o.display = n.display, o.old_line_offset = n.old_line_offset
  PROVE  Layouted(o)
  <1>1. Follows(o.display, o.saturn)
    BY DEF Layouted, LayoutRegisters, Follows, Begins, LinesOf
  <1> QED  BY <1>1 DEF Layouted, LayoutRegisters

-----------------------------------------------------------------------------
(* What becomes of a register by a write to one of its nibbles. *)
LEMMA Power16 == 16 ^ 0 = 1 /\ 16 ^ 1 = 16 /\ 16 ^ 2 = 256
  OBVIOUS

LEMMA Nibble0 ==
  ASSUME NEW v \in Nat, NEW x \in 0 .. 15
  PROVE  /\ SetNibble(v, 0, x) \in Nat
         /\ v \in 0 .. 15 => SetNibble(v, 0, x) = x
         /\ SetNibble(v, 0, x) % 2 = x % 2
  BY Power16 DEF SetNibble

LEMMA Nibble1 ==
  ASSUME NEW v \in Nat, NEW x \in 0 .. 15
  PROVE  /\ SetNibble(v, 1, x) \in Nat
         /\ SetNibble(v, 1, x) % 2 = v % 2
  BY Power16 DEF SetNibble

LEMMA Nibble2 ==
  ASSUME NEW v \in Nat, NEW x \in 0 .. 15
  PROVE  SetNibble(v, 2, x) \in Nat
  BY Power16 DEF SetNibble

LEMMA RegisterFound ==
  ASSUME NEW addr \in \h100 .. \h13f
  PROVE  LET r == Register(addr) IN r \in Registers /\ addr \in r[2] .. r[2] + r[3] - 1
  <1>1. \E r \in Registers : addr \in r[2] .. r[2] + r[3] - 1
    BY DEF Registers
  <1> QED  BY <1>1 DEF Register

-----------------------------------------------------------------------------
LEMMA DispIoKeepsLayout ==
  ASSUME NEW n, NEW val \in 0 .. 15, Layouted(n)
  PROVE  Layouted(WriteDispIo(n, val))
  <1> DEFINE o == WriteDispIo(n, val)
  <1>1. CASE val = n.saturn.disp_io
    BY <1>1 DEF WriteDispIo
  <1>2. ASSUME val # n.saturn.disp_io PROVE Layouted(o)
    <2>1. /\ DOMAIN o = DOMAIN n
          /\ o.saturn = [n.saturn EXCEPT !.disp_io = val]
          /\ o.old_line_offset = n.old_line_offset
          /\ o.display = WithEnd([n.display EXCEPT !.on = Bit(val, 3), !.offset = val % 8,
                                   !.nibs_per_line = NibsPerLine(val % 8, n.saturn.line_offset)])
      BY <1>2 DEF WriteDispIo, Relayout, DrawLater, Layouted
    <2> HIDE DEF o
    <2>2. \A r \in LayoutRegisters \ {"disp_io"} : o.saturn[r] = n.saturn[r]
      BY <2>1 DEF LayoutRegisters, Layouted
    <2>3. o.saturn.disp_io = val
      BY <2>1 DEF Layouted
    <2>4. LinesOf(o.saturn) = LinesOf(n.saturn)
      BY <2>2 DEF LinesOf, LayoutRegisters
    <2>5. Begins([n.display EXCEPT !.on = Bit(val, 3), !.offset = val % 8,
                    !.nibs_per_line = NibsPerLine(val % 8, n.saturn.line_offset)], o.saturn)
      BY <2>2, <2>3, <2>4 DEF Layouted, LayoutRegisters, Follows, Begins, LayoutFields
    <2>6. Follows(o.display, o.saturn)
      BY <2>1, <2>5, EndFollows
    <2> QED  BY <2>1, <2>2, <2>3, <2>6 DEF Layouted, LayoutRegisters
  <1> QED  BY <1>1, <1>2

-----------------------------------------------------------------------------
(* Nibble i of a register has been stored, and w has the display of before. *)
Stored(n, w, name, i, val) ==
  /\ DOMAIN w = DOMAIN n
  /\ name \in LayoutRegisters => i # 7
  /\ w.saturn = [n.saturn EXCEPT ![name] = StoreNibble(name, n.saturn[name], i, val)]
  /\ w.display = n.display
  /\ w.old_line_offset = n.old_line_offset

LEMMA StoredRegisters ==
  ASSUME NEW n, NEW w, NEW name, NEW i, NEW val, Layouted(n), Stored(n, w, name, i, val)
  PROVE  /\ {"saturn", "display", "old_line_offset"} \subseteq DOMAIN w
         /\ LayoutRegisters \subseteq DOMAIN w.saturn
         /\ \A r \in LayoutRegisters : r # name => w.saturn[r] = n.saturn[r]
         /\ name \in LayoutRegisters => w.saturn[name] = SetNibble(n.saturn[name], i, val)
  BY DEF Layouted, Stored, LayoutRegisters, StoreNibble

(* What the side effect of the write still has to bring about. *)
LEMMA LayoutedAgain ==
  ASSUME NEW n, NEW w, NEW o, NEW name, NEW i, NEW val, Layouted(n), Stored(n, w, name, i, val),
         DOMAIN o = DOMAIN w, o.saturn = w.saturn, Follows(o.display, o.saturn),
         name = "contrast_ctrl" => o.saturn.contrast_ctrl \in 0 .. 15,
         name \in {"disp_test", "line_offset", "line_count"} => o.saturn[name] \in Nat,
         name = "line_offset" => o.old_line_offset \in {-1, o.saturn.line_offset},
         name # "line_offset" => o.old_line_offset = w.old_line_offset
  PROVE  Layouted(o)
  <1>1. /\ {"saturn", "display", "old_line_offset"} \subseteq DOMAIN o
        /\ LayoutRegisters \subseteq DOMAIN o.saturn
    BY StoredRegisters
  <1>2. \A r \in LayoutRegisters : r # name => o.saturn[r] = n.saturn[r]
    BY StoredRegisters
  <1>3. /\ o.saturn.contrast_ctrl \in 0 .. 15
        /\ o.saturn.disp_test \in Nat
        /\ o.saturn.line_offset \in Nat
        /\ o.saturn.line_count \in Nat
    BY <1>2 DEF Layouted, LayoutRegisters
  <1>4. o.old_line_offset \in {-1, o.saturn.line_offset}
    <2>1. CASE name # "line_offset"
      BY <2>1, <1>2 DEF Layouted, Stored, LayoutRegisters
    <2> QED  BY <2>1
  <1> QED  BY <1>1, <1>3, <1>4 DEF Layouted, LayoutRegisters

LEMMA ContrastKeepsLayout ==
  ASSUME NEW n, NEW w, NEW val \in 0 .. 15, Layouted(n), Stored(n, w, "contrast_ctrl", 0, val)
  PROVE  Layouted(SideEffect(w, "contrast_ctrl", 0, val))
  <1> DEFINE o == SideEffect(w, "contrast_ctrl", 0, val)
  <1>1. /\ {"saturn", "display", "old_line_offset"} \subseteq DOMAIN w
        /\ \A r \in LayoutRegisters : r # "contrast_ctrl" => w.saturn[r] = n.saturn[r]
        /\ w.saturn.contrast_ctrl = val
    <2>1. w.saturn.contrast_ctrl = SetNibble(n.saturn.contrast_ctrl, 0, val)
      BY StoredRegisters DEF LayoutRegisters
    <2>2. n.saturn.contrast_ctrl \in 0 .. 15
      BY DEF Layouted
    <2> QED  BY StoredRegisters, <2>1, <2>2, Power16 DEF SetNibble
  <1>2. o = [w EXCEPT !.display.contrast = ((@ \div 16) * 16) + val]
    BY Zenon DEF SideEffect
  <1>3. /\ DOMAIN o = DOMAIN w /\ o.saturn = w.saturn /\ o.old_line_offset = w.old_line_offset
        /\ o.display = [n.display EXCEPT !.contrast = ((@ \div 16) * 16) + val]
    BY <1>1, <1>2 DEF Stored
  <1> HIDE DEF o
  <1>4. ((n.display.contrast \div 16) * 16) + val = val + (16 * (n.saturn.disp_test % 2))
    BY DEF Layouted, Follows, Begins
  <1>5. LinesOf(o.saturn) = LinesOf(n.saturn)
    BY <1>1, <1>3 DEF LinesOf, LayoutRegisters
  <1>6. Follows(o.display, o.saturn)
    BY <1>1, <1>3, <1>4, <1>5 DEF Layouted, LayoutRegisters, Follows, Begins, LayoutFields
  <1> QED  BY <1>1, <1>3, <1>6, LayoutedAgain DEF o

LEMMA DispTestKeepsLayout ==
  ASSUME NEW n, NEW w, NEW i \in {0, 1}, NEW val \in 0 .. 15, Layouted(n),
         Stored(n, w, "disp_test", i, val)
  PROVE  Layouted(SideEffect(w, "disp_test", i, val))
  <1>1. /\ {"saturn", "display", "old_line_offset"} \subseteq DOMAIN w
        /\ \A r \in LayoutRegisters : r # "disp_test" => w.saturn[r] = n.saturn[r]
        /\ w.saturn.disp_test = SetNibble(n.saturn.disp_test, i, val)
    BY StoredRegisters DEF LayoutRegisters
  <1>2. LinesOf(w.saturn) = LinesOf(n.saturn)
    BY <1>1 DEF LinesOf, LayoutRegisters
  <1>3. n.saturn.disp_test \in Nat
    BY DEF Layouted
  <1>4. CASE i = 0
    <2> DEFINE o == SideEffect(w, "disp_test", i, val)
    <2>1. o = [w EXCEPT !.display.contrast = (@ % 16) + (16 * (val % 2))]
      BY <1>4, Zenon DEF SideEffect
    <2>2. /\ DOMAIN o = DOMAIN w /\ o.saturn = w.saturn /\ o.old_line_offset = w.old_line_offset
          /\ o.display = [n.display EXCEPT !.contrast = (@ % 16) + (16 * (val % 2))]
      BY <1>1, <2>1 DEF Stored
    <2> HIDE DEF o
    <2>3. o.saturn.disp_test \in Nat /\ o.saturn.disp_test % 2 = val % 2
      <3>1. /\ SetNibble(n.saturn.disp_test, 0, val) \in Nat
            /\ SetNibble(n.saturn.disp_test, 0, val) % 2 = val % 2
        BY <1>3, Nibble0
      <3> QED  BY <1>1, <1>4, <2>2, <3>1
    <2>4. (n.display.contrast % 16) + (16 * (val % 2)) = n.saturn.contrast_ctrl + (16 * (val % 2))
      BY DEF Layouted, Follows, Begins
    <2>5. Follows(o.display, o.saturn)
      BY <1>1, <1>2, <2>2, <2>3, <2>4 DEF Layouted, LayoutRegisters, Follows, Begins, LayoutFields
    <2> QED  BY <1>1, <2>2, <2>3, <2>5, LayoutedAgain DEF o
  <1>5. CASE i = 1
    <2>1. w.saturn.disp_test \in Nat /\ w.saturn.disp_test % 2 = n.saturn.disp_test % 2
      BY <1>1, <1>3, <1>5, Power16 DEF SetNibble
    <2>2. Follows(w.display, w.saturn)
      BY <1>1, <1>2, <2>1 DEF Stored, Layouted, LayoutRegisters, Follows, Begins
    <2>3. SideEffect(w, "disp_test", i, val) = w
      BY <1>5 DEF SideEffect
    <2> QED  BY <1>1, <2>1, <2>2, <2>3, LayoutedAgain
  <1> QED  BY <1>4, <1>5

LEMMA AnnuncKeepsLayout ==
  ASSUME NEW n, NEW w, NEW i, NEW val, Layouted(n), Stored(n, w, "annunc", i, val)
  PROVE  Layouted(SideEffect(w, "annunc", i, val))
  <1> DEFINE o == SideEffect(w, "annunc", i, val)
  <1>1. /\ {"saturn", "display", "old_line_offset"} \subseteq DOMAIN w
        /\ \A r \in LayoutRegisters : r # "annunc" => w.saturn[r] = n.saturn[r]
    BY StoredRegisters
  <1>2. o = [w EXCEPT !.display.annunc = w.saturn.annunc]
    BY Zenon DEF SideEffect
  <1>3. /\ DOMAIN o = DOMAIN w /\ o.saturn = w.saturn /\ o.old_line_offset = w.old_line_offset
        /\ o.display = [n.display EXCEPT !.annunc = w.saturn.annunc]
    BY <1>1, <1>2 DEF Stored
  <1> HIDE DEF o
  <1>4. LinesOf(o.saturn) = LinesOf(n.saturn)
    BY <1>1, <1>3 DEF LinesOf, LayoutRegisters
  <1>5. Follows(o.display, o.saturn)
    BY <1>1, <1>3, <1>4 DEF Layouted, LayoutRegisters, Follows, Begins, LayoutFields
  <1> QED  BY <1>1, <1>3, <1>5, LayoutedAgain DEF o

LEMMA DispAddrKeepsLayout ==
  ASSUME NEW n, NEW w, NEW i, NEW val, Layouted(n), Stored(n, w, "disp_addr", i, val)
  PROVE  Layouted(DispAddrWritten(w))
  <1> DEFINE o == DispAddrWritten(w)
             start == DispStart(w.saturn.disp_addr)
  <1>1. /\ {"saturn", "display", "old_line_offset"} \subseteq DOMAIN w
        /\ \A r \in LayoutRegisters : r # "disp_addr" => w.saturn[r] = n.saturn[r]
    BY StoredRegisters
  <1>2. LinesOf(w.saturn) = LinesOf(n.saturn)
    BY <1>1 DEF LinesOf, LayoutRegisters
  <1>3. CASE w.display.disp_start = start
    <2>1. Follows(w.display, w.saturn)
      BY <1>1, <1>2, <1>3 DEF Stored, Layouted, LayoutRegisters, Follows, Begins
    <2> QED  BY <1>1, <1>3, <2>1, LayoutedAgain DEF DispAddrWritten
  <1>4. CASE w.display.disp_start # start
    <2>1. /\ DOMAIN o = DOMAIN w /\ o.saturn = w.saturn /\ o.old_line_offset = w.old_line_offset
          /\ o.display = WithEnd([n.display EXCEPT !.disp_start = start])
      BY <1>1, <1>4 DEF DispAddrWritten, Relayout, DrawLater, Stored
    <2> HIDE DEF o
    <2>2. Begins([n.display EXCEPT !.disp_start = start], w.saturn)
      BY <1>1, <1>2 DEF Layouted, LayoutRegisters, Follows, Begins, LayoutFields
    <2>3. Follows(o.display, o.saturn)
      BY <2>1, <2>2, EndFollows
    <2> QED  BY <1>1, <2>1, <2>3, LayoutedAgain DEF o
  <1> QED  BY <1>3, <1>4

LEMMA LineOffsetKeepsLayout ==
  ASSUME NEW n, NEW w, NEW i \in 0 .. 2, NEW val \in 0 .. 15, Layouted(n),
         Stored(n, w, "line_offset", i, val)
  PROVE  Layouted(LineOffsetWritten(w))
  <1> DEFINE o == LineOffsetWritten(w)
             nibs == NibsPerLine(w.display.offset, w.saturn.line_offset)
  <1>1. /\ {"saturn", "display", "old_line_offset"} \subseteq DOMAIN w
        /\ \A r \in LayoutRegisters : r # "line_offset" => w.saturn[r] = n.saturn[r]
        /\ w.saturn.line_offset = SetNibble(n.saturn.line_offset, i, val)
    BY StoredRegisters DEF LayoutRegisters
  <1>2. LinesOf(w.saturn) = LinesOf(n.saturn)
    BY <1>1 DEF LinesOf, LayoutRegisters
  <1>3. w.saturn.line_offset \in Nat
    <2>1. n.saturn.line_offset \in Nat
      BY DEF Layouted
    <2>2. /\ SetNibble(n.saturn.line_offset, 0, val) \in Nat
          /\ SetNibble(n.saturn.line_offset, 1, val) \in Nat
          /\ SetNibble(n.saturn.line_offset, 2, val) \in Nat
      BY <2>1, Nibble0, Nibble1, Nibble2
    <2> QED  BY <1>1, <2>2
  <1>4. CASE w.saturn.line_offset = w.old_line_offset
    <2>1. w.saturn.line_offset = n.saturn.line_offset
      BY <1>3, <1>4 DEF Stored, Layouted
    <2>2. Follows(w.display, w.saturn)
      BY <1>1, <1>2, <2>1 DEF Stored, Layouted, LayoutRegisters, Follows, Begins
    <2> QED  BY <1>3, <1>4, <2>2, LayoutedAgain DEF LineOffsetWritten
  <1>5. CASE w.saturn.line_offset # w.old_line_offset
    <2>1. /\ DOMAIN o = DOMAIN w /\ o.saturn = w.saturn /\ o.old_line_offset = w.saturn.line_offset
          /\ o.display = WithEnd([n.display EXCEPT !.nibs_per_line = nibs])
      BY <1>1, <1>5 DEF LineOffsetWritten, Relayout, DrawLater, Stored
    <2> HIDE DEF o
    <2>2. w.display.offset = w.saturn.disp_io % 8
      BY <1>1 DEF Stored, Layouted, LayoutRegisters, Follows, Begins
    <2>3. Begins([n.display EXCEPT !.nibs_per_line = nibs], w.saturn)
      BY <1>1, <1>2, <2>2 DEF Layouted, LayoutRegisters, Follows, Begins, LayoutFields
    <2>4. Follows(o.display, o.saturn)
      BY <2>1, <2>3, EndFollows
    <2> QED  BY <1>3, <2>1, <2>4, LayoutedAgain DEF o
  <1> QED  BY <1>4, <1>5

LEMMA LineCountKeepsLayout ==
  ASSUME NEW n, NEW w, NEW i \in {0, 1}, NEW val \in 0 .. 15, Layouted(n),
         Stored(n, w, "line_count", i, val)
  PROVE  Layouted(LineCountWritten(w))
  <1> DEFINE o == LineCountWritten(w)
             lines == w.saturn.line_count % DISP_ROWS
  <1>1. /\ {"saturn", "display", "old_line_offset"} \subseteq DOMAIN w
        /\ \A r \in LayoutRegisters : r # "line_count" => w.saturn[r] = n.saturn[r]
        /\ w.saturn.line_count = SetNibble(n.saturn.line_count, i, val)
    BY StoredRegisters DEF LayoutRegisters
  <1>2. w.saturn.line_count \in Nat
    <2>1. n.saturn.line_count \in Nat
      BY DEF Layouted
    <2>2. SetNibble(n.saturn.line_count, 0, val) \in Nat /\ SetNibble(n.saturn.line_count, 1, val) \in Nat
      BY <2>1, Nibble0, Nibble1
    <2> QED  BY <1>1, <2>2
  <1>3. DOMAIN o = DOMAIN w /\ o.saturn = w.saturn /\ o.old_line_offset = w.old_line_offset
    BY <1>1 DEF LineCountWritten, Relayout, DrawLater
  <1>4. CASE w.display.lines = lines
    <2>1. o.display = n.display
      BY <1>1, <1>4 DEF LineCountWritten, Stored
    <2>2. LinesOf(n.saturn) # 0
      BY IoAssumption DEF LinesOf, Layouted
    <2>3. n.display.lines = LinesOf(w.saturn)
      BY <1>4, <2>2 DEF Stored, Layouted, Follows, Begins, LinesOf
    <2> HIDE DEF o
    <2>4. Follows(o.display, o.saturn)
      BY <1>1, <1>3, <2>1, <2>3 DEF Layouted, LayoutRegisters, Follows, Begins
    <2> QED  BY <1>2, <1>3, <2>4, LayoutedAgain DEF o
  <1>5. CASE w.display.lines # lines
    <2>1. o.display = WithEnd([n.display EXCEPT !.lines = LinesOf(w.saturn)])
      BY <1>1, <1>5 DEF LineCountWritten, Relayout, DrawLater, Stored, LinesOf
    <2> HIDE DEF o
    <2>2. Begins([n.display EXCEPT !.lines = LinesOf(w.saturn)], w.saturn)
      BY <1>1 DEF Layouted, LayoutRegisters, Follows, Begins, LayoutFields
    <2>3. Follows(o.display, o.saturn)
      BY <1>3, <2>1, <2>2, EndFollows
    <2> QED  BY <1>2, <1>3, <2>3, LayoutedAgain DEF o
  <1> QED  BY <1>4, <1>5

LEMMA MenuAddrKeepsLayout ==
  ASSUME NEW n, NEW w, NEW i, NEW val, Layouted(n), Stored(n, w, "menu_addr", i, val)
  PROVE  Layouted(MenuAddrWritten(w))
  <1> DEFINE o == MenuAddrWritten(w)
             start == w.saturn.menu_addr
  <1>1. /\ {"saturn", "display", "old_line_offset"} \subseteq DOMAIN w
        /\ \A r \in LayoutRegisters : r # "menu_addr" => w.saturn[r] = n.saturn[r]
    BY StoredRegisters
  <1>2. LinesOf(w.saturn) = LinesOf(n.saturn)
    BY <1>1 DEF LinesOf, LayoutRegisters
  <1>3. CASE w.display.menu_start = start
    <2>1. Follows(w.display, w.saturn)
      BY <1>1, <1>2, <1>3 DEF Stored, Layouted, LayoutRegisters, Follows, Begins
    <2> QED  BY <1>1, <1>3, <2>1, LayoutedAgain DEF MenuAddrWritten
  <1>4. CASE w.display.menu_start # start
    <2> DEFINE end == start + (MENU_ROWS * NIBBLES_PER_ROW)
    <2>1. /\ DOMAIN o = DOMAIN w /\ o.saturn = w.saturn /\ o.old_line_offset = w.old_line_offset
          /\ o.display = [n.display EXCEPT !.menu_start = start, !.menu_end = end]
      BY <1>1, <1>4 DEF MenuAddrWritten, DrawLater, Stored
    <2> HIDE DEF o
    <2>2. Follows(o.display, o.saturn)
      BY <1>1, <1>2, <2>1 DEF Layouted, LayoutRegisters, Follows, Begins, LayoutFields
    <2> QED  BY <1>1, <2>1, <2>2, LayoutedAgain DEF o
  <1> QED  BY <1>3, <1>4

(* The registers the layout does not depend on. *)
LEMMA OtherRegisters ==
  ASSUME NEW n, NEW w, NEW name, NEW i, NEW val, Layouted(n), Stored(n, w, name, i, val),
         name \notin LayoutRegisters
  PROVE  Layouted(SideEffect(w, name, i, val))
  <1> DEFINE o == SideEffect(w, name, i, val)
  <1>1. /\ {"saturn", "display", "old_line_offset"} \subseteq DOMAIN w
        /\ LayoutRegisters \subseteq DOMAIN w.saturn
        /\ \A r \in LayoutRegisters : w.saturn[r] = n.saturn[r]
    BY StoredRegisters
  <1>2. /\ DOMAIN o = DOMAIN w
        /\ DOMAIN o.saturn = DOMAIN w.saturn
        /\ \A r \in LayoutRegisters : o.saturn[r] = w.saturn[r]
        /\ o.display = w.display
        /\ o.old_line_offset = w.old_line_offset
    <2>1. CASE name = "card_ctrl"
      BY <1>1, <2>1 DEF SideEffect, do_interupt, LayoutRegisters
    <2>2. CASE name = "tbr"
      BY <1>1, <2>2 DEF SideEffect, LayoutRegisters
    <2>3. CASE name \notin {"card_ctrl", "tbr"}
      BY <2>3 DEF SideEffect, LayoutRegisters
    <2> QED  BY <2>1, <2>2, <2>3
  <1> HIDE DEF o
  <1>3. /\ DOMAIN o = DOMAIN n
        /\ DOMAIN o.saturn = DOMAIN n.saturn
        /\ \A r \in LayoutRegisters : o.saturn[r] = n.saturn[r]
        /\ o.display = n.display
        /\ o.old_line_offset = n.old_line_offset
    BY <1>1, <1>2 DEF Stored
  <1> QED  BY <1>3, OthersKeepLayout DEF o

-----------------------------------------------------------------------------
(* write_dev_mem() keeps the layout that init_display() would derive from the
   registers, whatever nibble is written: the five registers that each change a
   part of it, the contrast and the annunciators (memory.c against lcd_mac.c). *)
THEOREM WriteKeepsLayout ==
  ASSUME NEW n, NEW addr \in \h100 .. \h13f, NEW val \in 0 .. 15, Layouted(n)
  PROVE  LET o == write_dev_mem(n, addr, val)
         IN Layouted(o) /\ o.display = LayoutOf(o.saturn)
  <1> DEFINE r == Register(addr)
             name == r[1]
             i == addr - r[2]
             soon == CheckDevicesSoon(n)
             w == [soon EXCEPT !.saturn[name] = StoreNibble(name, @, i, val),
                               !.touched = @ \cup (IF name = "disp_test" /\ i = 1 THEN {}
                                                   ELSE RequestOf(name))]
             crer == [soon EXCEPT !.saturn.rcs = (@ % 4) + (8 * (@ \div 8))]
             o == write_dev_mem(n, addr, val)
  <1>1. r \in Registers /\ addr \in r[2] .. r[2] + r[3] - 1
    BY RegisterFound
  <1> HIDE DEF r
  <1>2. /\ name \in {"contrast_ctrl", "disp_io"} => i = 0
        /\ name \in {"disp_test", "line_count"} => i \in {0, 1}
        /\ name = "line_offset" => i \in 0 .. 2
        /\ name \in LayoutRegisters => i # 7
    BY <1>1 DEF Registers, LayoutRegisters
  <1>3. Layouted(soon)
    <2>1. /\ DOMAIN soon = DOMAIN n /\ soon.saturn = n.saturn /\ soon.display = n.display
          /\ soon.old_line_offset = n.old_line_offset
      BY DEF CheckDevicesSoon, Layouted
    <2> HIDE DEF soon
    <2> QED  BY <2>1 DEF Layouted
  <1>4. /\ name = "disp_io" => o = WriteDispIo(soon, val)
        /\ name \in {"card_status", "rbr"} => o = soon
        /\ name = "crer" => o = crer
        /\ name \notin {"disp_io", "card_status", "rbr", "crer"} => o = SideEffect(w, name, i, val)
    BY DEF write_dev_mem, r
  <1> HIDE DEF soon, o
  <1>5. Stored(soon, w, name, i, val)
    BY <1>2, <1>3 DEF Stored, Layouted
  <1>6. Layouted(crer)
    <2>1. /\ DOMAIN crer = DOMAIN soon
          /\ DOMAIN crer.saturn = DOMAIN soon.saturn
          /\ \A q \in LayoutRegisters : crer.saturn[q] = soon.saturn[q]
          /\ crer.display = soon.display
          /\ crer.old_line_offset = soon.old_line_offset
      BY <1>3 DEF Layouted, LayoutRegisters
    <2> HIDE DEF crer
    <2> QED  BY <1>3, <2>1, OthersKeepLayout
  <1> HIDE DEF w, crer, name, i
  <1>7. CASE name \in {"disp_io", "card_status", "rbr", "crer"}
    <2>1. Layouted(o)
      BY <1>3, <1>4, <1>6, <1>7, DispIoKeepsLayout
    <2> QED  BY <2>1, FollowsLayout DEF Layouted, o
  <1>8. CASE name \notin {"disp_io", "card_status", "rbr", "crer"}
    <2>1. Layouted(SideEffect(w, name, i, val))
      <3>1. CASE name = "contrast_ctrl"
        BY <1>2, <1>3, <1>5, <3>1, ContrastKeepsLayout
      <3>2. CASE name = "disp_test"
        BY <1>2, <1>3, <1>5, <3>2, DispTestKeepsLayout
      <3>3. CASE name = "annunc"
        BY <1>3, <1>5, <3>3, AnnuncKeepsLayout
      <3>4. CASE name = "disp_addr"
        BY <1>3, <1>5, <3>4, DispAddrKeepsLayout DEF SideEffect
      <3>5. CASE name = "line_offset"
        BY <1>2, <1>3, <1>5, <3>5, LineOffsetKeepsLayout DEF SideEffect
      <3>6. CASE name = "line_count"
        BY <1>2, <1>3, <1>5, <3>6, LineCountKeepsLayout DEF SideEffect
      <3>7. CASE name = "menu_addr"
        BY <1>3, <1>5, <3>7, MenuAddrKeepsLayout DEF SideEffect
      <3>8. CASE name \notin LayoutRegisters
        BY <1>3, <1>5, <3>8, OtherRegisters
      <3> QED  BY <1>8, <3>1, <3>2, <3>3, <3>4, <3>5, <3>6, <3>7, <3>8 DEF LayoutRegisters
    <2>2. Layouted(o)
      BY <1>4, <1>8, <2>1
    <2> QED  BY <2>2, FollowsLayout DEF Layouted, o
  <1> QED  BY <1>7, <1>8

(***************************************************************************)
(* 4. The registers, the interrupts and the timers.                        *)
(***************************************************************************)

(* The values of the registers that the program changes. *)
LEMMA Fitting ==
  ASSUME NEW name, NEW v
  PROVE  /\ name \in OneNibble => (Fits(name, v) <=> v \in 0 .. 15)
         /\ name = "timer1" => (Fits(name, v) <=> v \in 0 .. 127)
         /\ name = "timer2" => (Fits(name, v) <=> v \in -LATEST .. MaxWord32)
         /\ name \in {"t1_tick", "t2_tick"} => (Fits(name, v) <=> v \in Short)
         /\ name = "MP" => (Fits(name, v) <=> v \in {0, 1})
         /\ name \in Flag => (Fits(name, v) <=> v \in BOOLEAN)
         /\ name \in Place => (Fits(name, v) <=> v \in {"main", "handler", "service"})
<1>1. CASE name \in OneNibble
  <2>1. name \in RegisterNames \ {"timer1", "timer2"} /\ name \in Number
        /\ name \notin {"timer1", "timer2", "t1_tick", "t2_tick", "MP"} \cup Flag \cup Place
    BY <1>1 DEF OneNibble, RegisterNames, Registers, Number, Flag, Place
  <2>2. 16 ^ Width(name) - 1 = 15
    <3>1. Width(name) = 1
      BY <1>1, <2>1, WidthOfName DEF NibblesOf, OneNibble
    <3> QED BY <3>1
  <2> QED BY <2>1, <2>2, Zenon DEF Fits
<1>2. CASE name \in {"timer1", "timer2"}
  <2>1. name \notin {"t1_tick", "t2_tick", "MP"} \cup Flag \cup Place \cup OneNibble /\ name \in Number
    BY <1>2 DEF Flag, Place, Number, OneNibble
  <2> QED BY <1>2, <2>1, Zenon DEF Fits
<1>3. CASE name \in {"t1_tick", "t2_tick", "MP"} \cup Flag \cup Place
  <2>1. name \notin RegisterNames /\ name \notin OneNibble /\ name \notin {"timer1", "timer2"}
    BY <1>3 DEF Flag, Place, RegisterNames, Registers, OneNibble
  <2>2. name \in Number \cup Flag \cup Place
    BY <1>3 DEF Number
  <2>3. name \in Flag => name \notin {"t1_tick", "t2_tick", "MP"} \cup Place
    BY DEF Flag, Place
  <2>4. name \in Place => name \notin {"t1_tick", "t2_tick", "MP"} \cup Flag
    BY DEF Flag, Place
  <2>5. name \in {"t1_tick", "t2_tick", "MP"} => name \notin Flag \cup Place
    BY DEF Flag, Place
  <2> QED BY <1>3, <2>1, <2>2, <2>3, <2>4, <2>5, Zenon DEF Fits
<1> QED BY <1>1, <1>2, <1>3

Changed == {"t1_ctrl", "t2_ctrl", "tcs", "rcs", "card_status", "lbr"}

LEMMA Known ==
  /\ Names = AllNames
  /\ Changed \subseteq OneNibble
  /\ OneNibble \cup {"timer1", "timer2", "t1_tick", "t2_tick", "MP"} \cup Flag \cup Place \subseteq AllNames
  /\ (Changed \cup {"timer1", "timer2", "t1_tick", "t2_tick", "MP"} \cup Flag \cup Place)
       \cap LayoutRegisters = {}
<1>1. Names = AllNames
  BY Entries
<1>2. Changed \subseteq OneNibble
  BY DEF Changed, OneNibble, RegisterNames, Registers, TwoNibbles, FourNibbles, FiveNibbles
<1>3. OneNibble \cup {"timer1", "timer2", "t1_tick", "t2_tick", "MP"} \cup Flag \cup Place \subseteq AllNames
  BY DEF OneNibble, RegisterNames, Registers, AllNames, Single, OneByte, TwoBytes, FourBytes, Flag, Place
<1>4. (Changed \cup {"timer1", "timer2", "t1_tick", "t2_tick", "MP"} \cup Flag \cup Place)
        \cap LayoutRegisters = {}
  BY DEF Changed, Flag, Place, LayoutRegisters
<1> QED BY <1>1, <1>2, <1>3, <1>4

(* The registers of a calculator, for those that the scheduler looks at. *)
LEMMA SaturnValues ==
  ASSUME NEW s, IsSaturn(s)
  PROVE  /\ s.t1_ctrl \in 0 .. 15 /\ s.t2_ctrl \in 0 .. 15 /\ s.tcs \in 0 .. 15 /\ s.rcs \in 0 .. 15
         /\ s.timer1 \in 0 .. 127 /\ s.timer2 \in -LATEST .. MaxWord32
         /\ s.t1_tick \in Short /\ s.t2_tick \in Short
         /\ s.intenable \in BOOLEAN /\ s.int_pending \in BOOLEAN
         /\ s.PC \in {"main", "handler", "service"} /\ s.rstk \in {"main", "handler", "service"}
         /\ DOMAIN s = AllNames
<1>1. \A name \in AllNames : Fits(name, s[name])
  BY Known DEF IsSaturn
<1>2. Changed \cup {"timer1", "timer2", "t1_tick", "t2_tick", "MP"} \cup Flag \cup Place \subseteq AllNames
  BY Known
<1>3. /\ s.t1_ctrl \in 0 .. 15 /\ s.t2_ctrl \in 0 .. 15 /\ s.tcs \in 0 .. 15 /\ s.rcs \in 0 .. 15
  BY <1>1, <1>2, Known, Fitting DEF Changed
<1>4. s.timer1 \in 0 .. 127
  BY <1>1, <1>2, Fitting
<1>5. s.timer2 \in -LATEST .. MaxWord32
  BY <1>1, <1>2, Fitting
<1>6. s.t1_tick \in Short /\ s.t2_tick \in Short
  BY <1>1, <1>2, Fitting
<1>7. s.intenable \in BOOLEAN /\ s.int_pending \in BOOLEAN
  BY <1>1, <1>2, Fitting DEF Flag
<1>8. s.PC \in {"main", "handler", "service"} /\ s.rstk \in {"main", "handler", "service"}
  BY <1>1, <1>2, Fitting DEF Place
<1>9. DOMAIN s = AllNames
  BY Known, Zenon DEF IsSaturn
<1> QED BY <1>3, <1>4, <1>5, <1>6, <1>7, <1>8, <1>9

(* A change of a register that the layout of the display does not depend on. *)
Other(s, t) == IsSaturn(t) /\ \A r \in LayoutRegisters : t[r] = s[r]

LEMMA SaturnUpdate ==
  ASSUME NEW s, IsSaturn(s), NEW name \in AllNames, NEW v, Fits(name, v)
  PROVE  IsSaturn([s EXCEPT ![name] = v])
<1> DEFINE t == [s EXCEPT ![name] = v]
<1>1. Names = AllNames
  BY Known
<1>2. s = [r \in Names |-> s[r]] /\ \A r \in Names : Fits(r, s[r])
  BY DEF IsSaturn
<1>3. \A r \in Names : t[r] = IF r = name THEN v ELSE s[r]
  BY <1>1, <1>2
<1>4. t = [r \in Names |-> t[r]]
  BY <1>1, <1>2
<1> HIDE DEF t
<1>5. \A r \in Names : Fits(r, t[r])
  BY <1>2, <1>3
<1> QED BY <1>4, <1>5 DEF IsSaturn, t

LEMMA OtherUpdate ==
  ASSUME NEW s, IsSaturn(s), NEW name, NEW v,
         \/ name \in Changed /\ v \in 0 .. 15
         \/ name = "timer1" /\ v \in 0 .. 127
         \/ name = "timer2" /\ v \in -LATEST .. MaxWord32
         \/ name \in {"t1_tick", "t2_tick"} /\ v \in Short
         \/ name = "MP" /\ v \in {0, 1}
         \/ name \in Flag /\ v \in BOOLEAN
         \/ name \in Place /\ v \in {"main", "handler", "service"}
  PROVE  Other(s, [s EXCEPT ![name] = v])
<1>1. Fits(name, v)
  BY Fitting, Known
<1>2. name \in AllNames /\ name \notin LayoutRegisters
  BY Known
<1>3. IsSaturn([s EXCEPT ![name] = v])
  BY <1>1, <1>2, SaturnUpdate
<1>4. \A r \in LayoutRegisters : [s EXCEPT ![name] = v][r] = s[r]
  <2>1. LayoutRegisters \subseteq DOMAIN s
    <3>1. LayoutRegisters \subseteq AllNames
      BY DEF LayoutRegisters, AllNames, Single, OneByte, TwoBytes, FourBytes
    <3> QED BY <3>1, SaturnValues
  <2> QED BY <1>2, <2>1
<1> QED BY <1>3, <1>4 DEF Other

LEMMA OtherOn ==
  ASSUME NEW s, NEW t, NEW u, Other(s, t), Other(t, u)
  PROVE  Other(s, u)
  BY DEF Other

-----------------------------------------------------------------------------
(* The memory of the emulator thread, and what of it the time changes. *)
MemoryFields ==
  {"saturn", "ram", "port", "display", "touched", "display_touched", "drawn", "device_check",
   "schedule_event", "steps", "sched", "set_t1", "t1_ticks", "adj_time_pending",
   "interrupt_called", "awake", "line_counter", "old_line_offset", "disp_buf", "lcd_buffer",
   "old_offset", "old_lines", "last_annunc_state", "buffer", "flipable", "speaker_counter",
   "last_state"}
TimeFields ==
  {"saturn", "schedule_event", "steps", "sched", "set_t1", "t1_ticks", "adj_time_pending",
   "interrupt_called", "awake"}

Clocked(n) ==
  /\ n.sched \in [Countdown \cup {"display"} -> Int]
  /\ n.schedule_event \in Int /\ n.steps \in Nat /\ n.set_t1 \in Int /\ n.t1_ticks \in Int
Good(n) == DOMAIN n = MemoryFields /\ IsSaturn(n.saturn) /\ Clocked(n)

Calm(n, o) ==
  /\ DOMAIN o = DOMAIN n
  /\ \A f \in MemoryFields \ TimeFields : o[f] = n[f]
  /\ Other(n.saturn, o.saturn)
  /\ Clocked(o)

LEMMA CalmGood == ASSUME NEW n, NEW o, Good(n), Calm(n, o) PROVE Good(o)
  BY DEF Good, Calm, Other

LEMMA CalmOn == ASSUME NEW n, NEW o, NEW q, Calm(n, o), Calm(o, q) PROVE Calm(n, q)
  BY OtherOn DEF Calm

(* The next event is as far away as before. *)
Still(n, o) == Calm(n, o) /\ o.schedule_event = n.schedule_event

LEMMA StillGood == ASSUME NEW n, NEW o, Good(n), Still(n, o) PROVE Good(o)
  BY CalmGood DEF Still

LEMMA StillOn == ASSUME NEW n, NEW o, NEW q, Still(n, o), Still(o, q) PROVE Still(n, q)
  BY CalmOn DEF Still

LEMMA StillSelf == ASSUME NEW n, Good(n) PROVE Still(n, n)
  BY DEF Good, Calm, Still, Other

(* Changes of the fields one by one. *)
LEMMA StillField ==
  ASSUME NEW n, Good(n), NEW v
  PROVE  /\ Other(n.saturn, v) => Still(n, [n EXCEPT !.saturn = v])
         /\ Still(n, [n EXCEPT !.adj_time_pending = v])
         /\ Still(n, [n EXCEPT !.interrupt_called = v])
         /\ Still(n, [n EXCEPT !.awake = v])
         /\ v \in Int => Still(n, [n EXCEPT !.set_t1 = v]) /\ Still(n, [n EXCEPT !.t1_ticks = v])
         /\ v \in Int => Calm(n, [n EXCEPT !.schedule_event = v])
         /\ v \in Nat => Still(n, [n EXCEPT !.steps = v])
         /\ v \in Int => \A c \in Countdown \cup {"display"} : Still(n, [n EXCEPT !.sched[c] = v])
<1>1. Other(n.saturn, v) => Still(n, [n EXCEPT !.saturn = v])
  BY DEF Good, Calm, Still, Clocked, MemoryFields, TimeFields
<1>2. /\ Still(n, [n EXCEPT !.adj_time_pending = v])
      /\ Still(n, [n EXCEPT !.interrupt_called = v])
      /\ Still(n, [n EXCEPT !.awake = v])
  BY DEF Good, Calm, Still, Clocked, MemoryFields, TimeFields, Other
<1>3. v \in Int => Still(n, [n EXCEPT !.set_t1 = v]) /\ Still(n, [n EXCEPT !.t1_ticks = v])
  BY DEF Good, Calm, Still, Clocked, MemoryFields, TimeFields, Other
<1>4. v \in Int => Calm(n, [n EXCEPT !.schedule_event = v])
  BY DEF Good, Calm, Still, Clocked, MemoryFields, TimeFields, Other
<1>5. v \in Nat => Still(n, [n EXCEPT !.steps = v])
  BY DEF Good, Calm, Still, Clocked, MemoryFields, TimeFields, Other
<1>6. ASSUME v \in Int, NEW c \in Countdown \cup {"display"} PROVE Still(n, [n EXCEPT !.sched[c] = v])
  BY <1>6 DEF Good, Calm, Still, Clocked, MemoryFields, TimeFields, Other
<1> QED BY <1>1, <1>2, <1>3, <1>4, <1>5, <1>6

LEMMA MinusInt == ASSUME NEW c \in Int, NEW d \in Int PROVE Minus(c, d) \in Int
  BY SchedulerAssumption DEF Minus

-----------------------------------------------------------------------------
(* Interrupts. *)
LEMMA InterruptStill == ASSUME NEW n, Good(n) PROVE Still(n, do_interupt(n))
<1> DEFINE o == [n EXCEPT !.interrupt_called = TRUE]
           s == n.saturn
           s1 == [s EXCEPT !.rstk = s.PC]
           s2 == [s1 EXCEPT !.PC = "handler"]
           s3 == [s2 EXCEPT !.intenable = FALSE]
<1>1. Still(n, o) /\ Good(o) /\ o.saturn = s
  BY StillField, StillGood DEF Good, MemoryFields
<1>2. Other(s, s3)
  <2>1. Other(s, s1)
    BY SaturnValues, OtherUpdate DEF Good, Place
  <2>2. Other(s1, s2)
    <3>1. IsSaturn(s1)
      BY <2>1 DEF Other
    <3> HIDE DEF s1
    <3> QED BY <3>1, OtherUpdate DEF Place
  <2>3. Other(s2, s3)
    <3>1. IsSaturn(s2)
      BY <2>2 DEF Other
    <3> HIDE DEF s2
    <3> QED BY <3>1, OtherUpdate DEF Flag
  <2> HIDE DEF s1, s2, s3
  <2> QED BY <2>1, <2>2, <2>3, OtherOn
<1>3. do_interupt(n) = IF s.intenable THEN [o EXCEPT !.saturn = s3] ELSE o
  <2>1. [o EXCEPT !.saturn.rstk = n.saturn.PC, !.saturn.PC = "handler", !.saturn.intenable = FALSE]
          = [o EXCEPT !.saturn = s3]
    BY <1>1 DEF Good, MemoryFields
  <2> QED BY <2>1 DEF do_interupt
<1> HIDE DEF o, s3, s
<1>4. Still(o, [o EXCEPT !.saturn = s3])
  BY <1>1, <1>2, StillField
<1>5. Still(n, [o EXCEPT !.saturn = s3])
  BY <1>1, <1>4, StillOn
<1> QED BY <1>1, <1>3, <1>5

LEMMA SetStill ==
  ASSUME NEW n, Good(n), NEW name, NEW v,
         \/ name \in Changed /\ v \in 0 .. 15
         \/ name = "timer1" /\ v \in 0 .. 127
         \/ name = "timer2" /\ v \in -LATEST .. MaxWord32
         \/ name \in {"t1_tick", "t2_tick"} /\ v \in Short
         \/ name = "MP" /\ v \in {0, 1}
         \/ name \in Flag /\ v \in BOOLEAN
         \/ name \in Place /\ v \in {"main", "handler", "service"}
  PROVE  /\ Still(n, [n EXCEPT !.saturn[name] = v]) /\ Good([n EXCEPT !.saturn[name] = v])
         /\ [n EXCEPT !.saturn[name] = v].saturn[name] = v
         /\ \A r \in AllNames \ {name} : [n EXCEPT !.saturn[name] = v].saturn[r] = n.saturn[r]
<1> DEFINE s == [n.saturn EXCEPT ![name] = v]
<1>1. Other(n.saturn, s)
  BY OtherUpdate DEF Good
<1>2. [n EXCEPT !.saturn[name] = v] = [n EXCEPT !.saturn = s]
  BY DEF Good, MemoryFields
<1>3. DOMAIN n.saturn = AllNames /\ name \in AllNames
  BY SaturnValues, Known DEF Good
<1>4. s[name] = v /\ \A r \in AllNames \ {name} : s[r] = n.saturn[r]
  BY <1>3
<1>5. [n EXCEPT !.saturn = s].saturn = s
  BY DEF Good, MemoryFields
<1> HIDE DEF s
<1> QED BY <1>1, <1>2, <1>4, <1>5, StillField, StillGood

-----------------------------------------------------------------------------
(* The timers. *)
LEMMA LateFits ==
  ASSUME NEW t \in Int, t <= MaxWord32
  PROVE  Late(t) \in -LATEST .. MaxWord32
<1>1. MaxWord32 \in Int /\ 0 <= MaxWord32
  BY DEF MaxWord32
<1>2. LATEST \in Int /\ 0 <= LATEST /\ LATEST <= MaxWord32
  <2>1. LATEST \in 0 .. MaxWord32
    BY SchedulerAssumption
  <2> QED BY <1>1, <2>1
<1> QED BY <1>1, <1>2 DEF Late

LEMMA Timer2Later ==
  ASSUME NEW n, Good(n), NEW d \in Nat
  PROVE  Late(n.saturn.timer2 - d) \in -LATEST .. MaxWord32
<1>1. MaxWord32 \in Int /\ LATEST \in Int
  <2>1. MaxWord32 \in Int
    BY DEF MaxWord32
  <2> QED BY <2>1, SchedulerAssumption
<1>2. n.saturn.timer2 \in -LATEST .. MaxWord32
  BY SaturnValues DEF Good
<1>3. n.saturn.timer2 - d \in Int /\ n.saturn.timer2 - d <= MaxWord32
  BY <1>1, <1>2
<1> QED BY <1>3, LateFits

LEMMA Bit8 == \A v \in 0 .. 15 : ~Bit(v, 3) => v + 8 \in 0 .. 15
<1>1. 2 ^ 3 = 8
  OBVIOUS
<1> QED BY <1>1 DEF Bit

LEMMA ExpireStill ==
  ASSUME NEW n, Good(n)
  PROVE  Still(n, Expire1(n)) /\ Still(n, Expire2(n))
<1>1. ASSUME NEW name \in {"t1_ctrl", "t2_ctrl"}
      PROVE  Still(n, do_interupt([n EXCEPT !.saturn[name] = IF Bit(@, 3) THEN @ ELSE @ + 8]))
  <2> DEFINE v == IF Bit(n.saturn[name], 3) THEN n.saturn[name] ELSE n.saturn[name] + 8
             o == [n EXCEPT !.saturn[name] = v]
  <2>1. n.saturn[name] \in 0 .. 15
    BY <1>1, SaturnValues DEF Good
  <2>2. v \in 0 .. 15 /\ name \in Changed
    BY <1>1, <2>1, Bit8 DEF Changed
  <2> HIDE DEF v
  <2>3. Still(n, o) /\ Good(o)
    BY <2>2, SetStill
  <2> HIDE DEF o
  <2>4. Still(n, do_interupt(o))
    BY <2>3, InterruptStill, StillOn
  <2> QED BY <2>4 DEF o, v
<1> QED BY <1>1 DEF Expire1, Expire2

LEMMA ClockStill ==
  ASSUME NEW n, Good(n), NEW env, IsHost(env)
  PROVE  /\ Still(n, get_t1_t2(n, env))
         /\ get_t1_t2(n, env).t1_ticks \in Int
<1> DEFINE t1 == n.t1_ticks + env.elapsed
           t == IF t1 > LONGEST THEN LONGEST ELSE t1
           slow == env.lag = 0 /\ n.saturn.t2_tick < SLOWEST
           late == IF Bit(n.saturn.t2_ctrl, 0) THEN env.lag ELSE 0
           k == IF slow THEN n.saturn.t2_tick + 1 ELSE n.saturn.t2_tick
           l == Late(n.saturn.timer2 - late)
           o1 == [n EXCEPT !.t1_ticks = t]
           o2 == [o1 EXCEPT !.saturn["t2_tick"] = k]
           o3 == [o2 EXCEPT !.saturn["timer2"] = l]
<1>1. t \in Int
  BY SchedulerAssumption DEF Good, Clocked, IsHost
<1>2. k \in Short
  <2>1. n.saturn.t2_tick \in Short /\ SLOWEST \in Short
    BY SaturnValues, SchedulerAssumption DEF Good
  <2>2. \A x, y \in Short : x < y => x + 1 \in Short
    <3> SUFFICES ASSUME NEW x \in Short, NEW y \in Short, x < y PROVE x + 1 \in Short
      OBVIOUS
    <3>1. x \in Int /\ y \in Int /\ -32768 <= x /\ y <= 32767
      BY ShortRange
    <3>2. x + 1 \in Int /\ -32768 <= x + 1 /\ x + 1 <= 32767
      BY <3>1
    <3> QED BY <3>2, ShortRange
  <2> QED BY <2>1, <2>2
<1>3. l \in -LATEST .. MaxWord32
  <2>1. late \in Nat
    BY DEF IsHost
  <2> HIDE DEF late
  <2> QED BY <2>1, Timer2Later
<1>4. o1.saturn = n.saturn
  BY DEF Good, MemoryFields
<1>5. get_t1_t2(n, env) = o3
  <2>1. o2.saturn.timer2 = n.saturn.timer2
    <3>1. DOMAIN n.saturn = AllNames /\ DOMAIN o1 = MemoryFields
      BY SaturnValues DEF Good
    <3> HIDE DEF k
    <3> QED BY <1>4, <3>1 DEF MemoryFields
  <2> QED BY <1>4, <2>1 DEF get_t1_t2
<1> HIDE DEF t, k, l
<1>6. Still(n, o1) /\ Good(o1) /\ o1.t1_ticks = t
  BY <1>1, StillField, StillGood DEF Good, MemoryFields
<1> HIDE DEF o1
<1>7. Still(n, o2) /\ Good(o2)
  BY <1>2, <1>6, SetStill, StillOn, StillGood
<1> HIDE DEF o2
<1>8. Still(n, o3) /\ Good(o3)
  BY <1>3, <1>7, SetStill, StillOn, StillGood
<1>9. o3.t1_ticks \in Int
  BY <1>8 DEF Good, Clocked
<1> QED BY <1>5, <1>8, <1>9

LEMMA EventStill ==
  ASSUME NEW n, Good(n), NEW env
  PROVE  Still(n, GetEvent(n, env))
<1> DEFINE o == [n EXCEPT !.saturn["int_pending"] = TRUE]
<1>1. Still(n, o) /\ Good(o)
  BY SetStill DEF Flag
<1>2. [n EXCEPT !.saturn.int_pending = TRUE, !.interrupt_called = TRUE] = [o EXCEPT !.interrupt_called = TRUE]
  OBVIOUS
<1> HIDE DEF o
<1>3. Still(n, [o EXCEPT !.interrupt_called = TRUE])
  BY <1>1, StillField, StillOn
<1> QED BY <1>2, <1>3, InterruptStill, StillSelf DEF GetEvent, do_kbd_int

LEMMA Chars == \A x \in Int : Char(x) \in -128 .. 127 /\ Char(x) % 16 \in 0 .. 15
<1> SUFFICES ASSUME NEW x \in Int PROVE Char(x) \in -128 .. 127 /\ Char(x) % 16 \in 0 .. 15
  OBVIOUS
<1>1. Char(x) \in -128 .. 127
  BY DEF Char
<1> QED BY <1>1

LEMMA AdjustStill ==
  ASSUME NEW n, Good(n)
  PROVE  Still(n, NoticeTimer2(n)) /\ Still(n, AdjustTimer1(n))
<1>1. Still(n, NoticeTimer2(n))
  BY ExpireStill, StillSelf DEF NoticeTimer2
<1> DEFINE v == Char(n.set_t1 - n.t1_ticks) % 16
           o == [n EXCEPT !.saturn["timer1"] = v]
<1>2. v \in 0 .. 127
  <2>1. n.set_t1 - n.t1_ticks \in Int
    BY DEF Good, Clocked
  <2> QED BY <2>1, Chars
<1> HIDE DEF v
<1>3. Still(n, o) /\ Good(o)
  BY <1>2, SetStill
<1> HIDE DEF o
<1>4. Still(n, Expire1(o))
  BY <1>3, ExpireStill, StillOn
<1>5. AdjustTimer1(n) \in {o, Expire1(o)}
  BY DEF AdjustTimer1, o, v
<1> QED BY <1>1, <1>3, <1>4, <1>5

LEMMA SerialStill ==
  ASSUME NEW n, Good(n)
  PROVE  /\ Still(n, CheckIoc(n)) /\ Still(n, CheckRbr(n)) /\ Still(n, CheckTbr(n))
<1> DEFINE v == (n.saturn.tcs \div 2) * 2
           o == [n EXCEPT !.saturn["tcs"] = v]
<1>1. v \in 0 .. 15
  BY SaturnValues DEF Good
<1> HIDE DEF v
<1>2. Still(n, o) /\ Good(o)
  BY <1>1, SetStill DEF Changed
<1> HIDE DEF o
<1>3. Still(n, do_interupt(o))
  BY <1>2, InterruptStill, StillOn
<1>4. transmit_char(n) \in {o, do_interupt(o)}
  BY DEF transmit_char, o, v
<1> QED BY <1>2, <1>3, <1>4, InterruptStill, StillSelf DEF CheckIoc, CheckRbr, CheckTbr, receive_char

-----------------------------------------------------------------------------
(* The countdowns. *)
IsPeriod(period) == period \in [Countdown -> Int]

LEMMA ShortInt == \A v \in Short : v \in Int
  BY ShortRange

LEMMA SchedInt ==
  ASSUME NEW n, Good(n)
  PROVE  /\ \A c \in Countdown \cup {"display"} : n.sched[c] \in Int /\ Minus(n.sched[c], n.steps) \in Int
         /\ n.schedule_event \in Int /\ n.steps \in Nat
<1>1. \A c \in Countdown \cup {"display"} : n.sched[c] \in Int
  BY DEF Good, Clocked
<1>2. n.steps \in Nat /\ n.steps \in Int /\ n.schedule_event \in Int
  BY DEF Good, Clocked
<1> QED BY <1>1, <1>2, MinusInt

LEMMA TicksStill ==
  ASSUME NEW n, Good(n), NEW v \in Int
  PROVE  /\ Still(n, [n EXCEPT !.set_t1 = v]) /\ Good([n EXCEPT !.set_t1 = v])
         /\ Still(n, [n EXCEPT !.t1_ticks = v]) /\ Good([n EXCEPT !.t1_ticks = v])
<1>1. Still(n, [n EXCEPT !.set_t1 = v]) /\ Still(n, [n EXCEPT !.t1_ticks = v])
  BY StillField
<1> QED BY <1>1, StillGood

LEMMA SchedStill ==
  ASSUME NEW n, Good(n), NEW c \in Countdown \cup {"display"}, NEW v \in Int
  PROVE  /\ Still(n, [n EXCEPT !.sched[c] = v]) /\ Good([n EXCEPT !.sched[c] = v])
         /\ [n EXCEPT !.sched[c] = v].saturn = n.saturn
<1>1. Still(n, [n EXCEPT !.sched[c] = v])
  BY StillField
<1>2. [n EXCEPT !.sched[c] = v].saturn = n.saturn
  OBVIOUS
<1> QED BY <1>1, <1>2, StillGood

LEMMA CheckTimersStill ==
  ASSUME NEW n, Good(n)
  PROVE  Still(n, CheckTimers(n))
<1> DEFINE o1 == [n EXCEPT !.sched["timer1"] = n.saturn.t1_tick]
           o2 == [o1 EXCEPT !.set_t1 = n.saturn.timer1]
           o3 == [o2 EXCEPT !.t1_ticks = 0]
           t1 == IF "t1" \in n.touched THEN o3 ELSE n
           o4 == [t1 EXCEPT !.sched["timer2"] = n.saturn.t2_tick]
<1>1. n.saturn.t1_tick \in Int /\ n.saturn.t2_tick \in Int /\ n.saturn.timer1 \in Int
  <2>1. n.saturn.t1_tick \in Short /\ n.saturn.t2_tick \in Short /\ n.saturn.timer1 \in 0 .. 127
    BY SaturnValues DEF Good
  <2>2. n.saturn.t1_tick \in Int /\ n.saturn.t2_tick \in Int
    BY <2>1, ShortInt
  <2>3. n.saturn.timer1 \in Int
    BY <2>1
  <2> QED BY <2>2, <2>3
<1>2. Still(n, o1) /\ Good(o1)
  BY <1>1, SchedStill DEF Countdown
<1> HIDE DEF o1
<1>3. Still(o1, o2) /\ Good(o2)
  BY <1>1, <1>2, TicksStill
<1> HIDE DEF o2
<1>4. Still(o2, o3) /\ Good(o3)
  <2> DEFINE zero == 0
  <2>1. zero \in Int
    OBVIOUS
  <2>2. Still(o2, [o2 EXCEPT !.t1_ticks = zero]) /\ Good([o2 EXCEPT !.t1_ticks = zero])
    <3> HIDE DEF zero
    <3> QED BY <1>3, <2>1, TicksStill
  <2> QED BY <2>2
<1>5. Still(n, o3)
  BY <1>2, <1>3, <1>4, StillOn
<1> HIDE DEF o3
<1>6. Still(n, t1) /\ Good(t1)
  BY <1>4, <1>5, StillSelf
<1> HIDE DEF t1
<1>7. Still(n, o4)
  BY <1>1, <1>6, SchedStill, StillOn DEF Countdown
<1>8. CheckTimers(n) = IF "t2" \in n.touched THEN o4 ELSE t1
  BY DEF CheckTimers, t1, o3, o2, o1
<1> HIDE DEF o4
<1> QED BY <1>6, <1>7, <1>8

LEMMA Timer2Calm ==
  ASSUME NEW n, Good(n), NEW period, IsPeriod(period)
  PROVE  Calm(n, ScheduleTimer2(n, period))
<1> DEFINE left == Minus(n.sched.timer2, n.steps)
           l == Late(n.saturn.timer2 - 1)
           o == [n EXCEPT !.saturn["timer2"] = l]
           ran == IF Bit(n.saturn.t2_ctrl, 0) THEN o ELSE n
           tick == IF n.saturn.intenable THEN n.saturn.t2_tick ELSE period.timer2
           next == [ran EXCEPT !.sched["timer2"] = tick]
           wait == [n EXCEPT !.sched["timer2"] = left]
           q == IF left > 0 THEN wait
                ELSE IF next.saturn.timer2 = 0 /\ Bit(next.saturn.t2_ctrl, 1) THEN Expire2(next)
                ELSE next
<1>1. left \in Int
  BY SchedInt DEF Countdown
<1>2. tick \in Int
  BY SaturnValues, ShortInt DEF Good, IsPeriod, Countdown
<1>3. ScheduleTimer2(n, period) = [q EXCEPT !.schedule_event = q.sched.timer2]
  BY DEF ScheduleTimer2
<1>4. l \in -LATEST .. MaxWord32
  BY Timer2Later
<1> HIDE DEF l, tick, left
<1>5. Still(n, o) /\ Good(o)
  BY <1>4, SetStill
<1> HIDE DEF o
<1>6. Still(n, ran) /\ Good(ran)
  BY <1>5, StillSelf
<1> HIDE DEF ran
<1>7. Still(n, next) /\ Good(next)
  BY <1>2, <1>6, SchedStill, StillOn DEF Countdown
<1>8. Still(n, wait) /\ Good(wait)
  BY <1>1, SchedStill DEF Countdown
<1> HIDE DEF next, wait
<1>9. Still(n, Expire2(next)) /\ Good(Expire2(next))
  BY <1>7, ExpireStill, StillOn, StillGood
<1>10. Still(n, q) /\ Good(q)
  BY <1>7, <1>8, <1>9
<1> HIDE DEF q
<1>11. Calm(q, [q EXCEPT !.schedule_event = q.sched.timer2])
  <2>1. q.sched.timer2 \in Int
    BY <1>10 DEF Good, Clocked, Countdown
  <2> QED BY <1>10, <2>1, StillField
<1> QED BY <1>3, <1>10, <1>11, CalmOn DEF Still

(* What comes after the devices only brings the next event nearer. *)
Nearer(n, o) == Calm(n, o) /\ o.schedule_event <= n.schedule_event

LEMMA NearerOn ==
  ASSUME NEW n, NEW o, NEW q, Good(n), Nearer(n, o), Nearer(o, q)
  PROVE  Nearer(n, q) /\ Good(o) /\ Good(q)
<1>1. Good(o) /\ Good(q) /\ Calm(n, q)
  BY CalmOn, CalmGood DEF Nearer
<1>2. n.schedule_event \in Int /\ o.schedule_event \in Int /\ q.schedule_event \in Int
  BY <1>1 DEF Good, Clocked
<1> QED BY <1>1, <1>2 DEF Nearer

LEMMA BeforeNearer ==
  ASSUME NEW n, NEW o, Good(n), Still(n, o), NEW count \in Int
  PROVE  Nearer(n, Before(o, count))
<1>1. Good(o) /\ Calm(n, o) /\ o.schedule_event = n.schedule_event
  BY StillGood DEF Still
<1> DEFINE v == IF count < o.schedule_event THEN count ELSE o.schedule_event
           q == [o EXCEPT !.schedule_event = v]
<1>2. v \in Int /\ v <= o.schedule_event
  BY <1>1 DEF Good, Clocked
<1> HIDE DEF v
<1>3. Calm(o, q) /\ q.schedule_event = v
  <2>1. "schedule_event" \in DOMAIN o
    BY <1>1 DEF Good, MemoryFields
  <2> QED BY <1>1, <1>2, <2>1, StillField
<1>4. Before(o, count) = q
  BY DEF Before, v
<1> HIDE DEF q
<1> QED BY <1>1, <1>2, <1>3, <1>4, CalmOn DEF Nearer

LEMMA ReceiveNearer ==
  ASSUME NEW n, Good(n), NEW period, IsPeriod(period)
  PROVE  Nearer(n, ScheduleReceive(n, period))
<1> DEFINE left == Minus(n.sched.receive, n.steps)
           v == IF left > 0 THEN left ELSE period.receive
           o == [n EXCEPT !.sched["receive"] = v]
<1>1. v \in Int
  BY SchedInt DEF Countdown, IsPeriod
<1>2. ScheduleReceive(n, period) = Before(o, o.sched.receive)
  BY DEF ScheduleReceive, receive_char
<1> HIDE DEF v
<1>3. Still(n, o) /\ Good(o)
  BY <1>1, SchedStill DEF Countdown
<1> HIDE DEF o
<1>4. o.sched.receive \in Int
  BY <1>3, SchedInt DEF Countdown
<1> QED BY <1>2, <1>3, <1>4, BeforeNearer

LEMMA AdjtimeNearer ==
  ASSUME NEW n, Good(n), NEW period, IsPeriod(period), NEW env, IsHost(env)
  PROVE  Nearer(n, ScheduleAdjtime(n, period, env))
<1> DEFINE left == Minus(n.sched.adjtime, n.steps)
           due == [n EXCEPT !.sched["adjtime"] = period.adjtime]
           wait == [n EXCEPT !.sched["adjtime"] = left]
           got == get_t1_t2(due, env)
           noticed == NoticeTimer2(got)
           adjusted == AdjustTimer1(noticed)
           pending == [due EXCEPT !.adj_time_pending = TRUE]
           done == [adjusted EXCEPT !.adj_time_pending = FALSE]
           o == IF left > 0 THEN wait ELSE IF n.saturn.PC = "service" THEN pending ELSE done
<1>1. left \in Int /\ period.adjtime \in Int
  BY SchedInt DEF Countdown, IsPeriod
<1>2. ScheduleAdjtime(n, period, env) = Before(o, o.sched.adjtime)
  BY DEF ScheduleAdjtime
<1> HIDE DEF left
<1>3. Still(n, due) /\ Good(due) /\ Still(n, wait)
  BY <1>1, SchedStill DEF Countdown
<1> HIDE DEF due, wait
<1>4. Still(n, pending)
  BY <1>3, StillField, StillOn
<1>5. Still(n, got) /\ Good(got)
  BY <1>3, ClockStill, StillOn, StillGood
<1> HIDE DEF got
<1>6. Still(n, noticed) /\ Good(noticed)
  BY <1>5, AdjustStill, StillOn, StillGood
<1> HIDE DEF noticed
<1>7. Still(n, adjusted) /\ Good(adjusted)
  BY <1>6, AdjustStill, StillOn, StillGood
<1> HIDE DEF adjusted
<1>8. Still(n, done)
  BY <1>7, StillField, StillOn
<1> HIDE DEF pending, done
<1>9. Still(n, o)
  BY <1>3, <1>4, <1>8
<1> HIDE DEF o
<1>10. o.sched.adjtime \in Int
  BY <1>9, StillGood, SchedInt DEF Countdown
<1> QED BY <1>2, <1>9, <1>10, BeforeNearer

LEMMA Timer1Nearer ==
  ASSUME NEW n, Good(n), NEW period, IsPeriod(period)
  PROVE  Nearer(n, ScheduleTimer1(n, period))
<1> DEFINE left == Minus(n.sched.timer1, n.steps)
           v == (n.saturn.timer1 - 1) % 16
           tick == IF n.saturn.intenable THEN n.saturn.t1_tick ELSE period.timer1
           ran == [n EXCEPT !.saturn["timer1"] = v]
           next == [ran EXCEPT !.sched["timer1"] = tick]
           wait == [n EXCEPT !.sched["timer1"] = left]
           o == IF left > 0 THEN wait
                ELSE IF next.saturn.timer1 = 0 /\ Bit(next.saturn.t1_ctrl, 1) THEN Expire1(next)
                ELSE next
<1>1. left \in Int /\ tick \in Int
  <2>1. n.saturn.t1_tick \in Int
    BY SaturnValues, ShortInt DEF Good
  <2> QED BY <2>1, SchedInt DEF Countdown, IsPeriod
<1>2. v \in 0 .. 127
  BY SaturnValues DEF Good
<1>3. ScheduleTimer1(n, period) = Before(o, o.sched.timer1)
  BY DEF ScheduleTimer1
<1> HIDE DEF left, tick, v
<1>4. Still(n, ran) /\ Good(ran)
  BY <1>2, SetStill
<1> HIDE DEF ran
<1>5. Still(n, next) /\ Good(next) /\ Still(n, wait)
  BY <1>1, <1>4, SchedStill, StillOn DEF Countdown
<1> HIDE DEF next, wait
<1>6. Still(n, Expire1(next))
  BY <1>5, ExpireStill, StillOn
<1>7. Still(n, o)
  BY <1>5, <1>6
<1> HIDE DEF o
<1>8. o.sched.timer1 \in Int
  BY <1>7, StillGood, SchedInt DEF Countdown
<1> QED BY <1>3, <1>7, <1>8, BeforeNearer

LEMMA StatisticsNearer ==
  ASSUME NEW n, Good(n), NEW period, IsPeriod(period), NEW env, IsHost(env)
  PROVE  Nearer(n, ScheduleStatistics(n, period, env))
<1> DEFINE left == Minus(n.sched.statistics, n.steps)
           wait == [n EXCEPT !.sched["statistics"] = left]
           o1 == [n EXCEPT !.sched["statistics"] = period.statistics]
           o2 == [o1 EXCEPT !.saturn["t1_tick"] = env.ticks[1]]
           o3 == [o2 EXCEPT !.saturn["t2_tick"] = env.ticks[2]]
           o == IF left > 0 THEN wait ELSE o3
<1>1. left \in Int /\ period.statistics \in Int
  BY SchedInt DEF Countdown, IsPeriod
<1>2. env.ticks[1] \in Short /\ env.ticks[2] \in Short
  BY DEF IsHost
<1>3. ScheduleStatistics(n, period, env) = Before(o, o.sched.statistics)
  BY DEF ScheduleStatistics
<1> HIDE DEF left
<1>4. Still(n, wait) /\ Still(n, o1) /\ Good(o1)
  BY <1>1, SchedStill DEF Countdown
<1> HIDE DEF wait, o1
<1>5. Still(n, o2) /\ Good(o2)
  BY <1>2, <1>4, SetStill, StillOn
<1> HIDE DEF o2
<1>6. Still(n, o3)
  BY <1>2, <1>5, SetStill, StillOn
<1> HIDE DEF o3
<1>7. Still(n, o)
  BY <1>4, <1>6
<1> HIDE DEF o
<1>8. o.sched.statistics \in Int
  BY <1>7, StillGood, SchedInt DEF Countdown
<1> QED BY <1>3, <1>7, <1>8, BeforeNearer

-----------------------------------------------------------------------------
(* Asleep, and back from an interrupt. *)
LEMMA AlarmStill ==
  ASSUME NEW n, Good(n), NEW env, IsHost(env)
  PROVE  Still(n, Alarm(n, env))
<1> DEFINE got == get_t1_t2(n, env)
           timer1 == Char(n.set_t1 - got.t1_ticks)
           v == IF timer1 <= 0 THEN timer1 % 16 ELSE timer1
           c1 == [got EXCEPT !.saturn["timer1"] = v]
           c2 == [c1 EXCEPT !.set_t1 = got.t1_ticks]
           clock == [c2 EXCEPT !.interrupt_called = FALSE]
           keys == GetEvent(clock, env)
           late2 == keys.saturn.timer2 <= 0
           t2 == IF late2 /\ Bit(keys.saturn.t2_ctrl, 1) THEN Expire2(keys) ELSE keys
           late1 == timer1 <= 0
           t1 == IF late1 /\ (Bit(t2.saturn.t1_ctrl, 0) \/ Bit(t2.saturn.t1_ctrl, 1))
                 THEN Expire1(t2) ELSE t2
           up == [t1 EXCEPT !.awake = TRUE]
           down == [t1 EXCEPT !.interrupt_called = FALSE]
<1>1. Still(n, got) /\ Good(got) /\ got.t1_ticks \in Int /\ n.set_t1 \in Int
  BY ClockStill, StillGood DEF Good, Clocked
<1>2. v \in 0 .. 127
  <2>1. n.set_t1 - got.t1_ticks \in Int
    BY <1>1
  <2>2. timer1 \in -128 .. 127 /\ timer1 % 16 \in 0 .. 15
    BY <2>1, Chars
  <2> HIDE DEF timer1
  <2> QED BY <2>2
<1>3. Alarm(n, env) \in {up, down}
  BY DEF Alarm, receive_char
<1> HIDE DEF v, timer1, got
<1>4. Still(n, c1) /\ Good(c1)
  BY <1>1, <1>2, SetStill, StillOn
<1> HIDE DEF c1
<1>5. Still(n, c2) /\ Good(c2)
  BY <1>1, <1>4, TicksStill, StillOn
<1> HIDE DEF c2
<1>6. Still(n, clock) /\ Good(clock)
  BY <1>5, StillField, StillOn, StillGood
<1> HIDE DEF clock
<1>7. Still(n, keys) /\ Good(keys)
  BY <1>6, EventStill, StillOn, StillGood
<1> HIDE DEF keys
<1>8. Still(n, t2) /\ Good(t2)
  BY <1>7, ExpireStill, StillOn, StillGood
<1> HIDE DEF t2
<1>9. Still(n, t1) /\ Good(t1)
  BY <1>8, ExpireStill, StillOn, StillGood
<1> HIDE DEF t1
<1>10. Still(n, up) /\ Still(n, down)
  BY <1>9, StillField, StillOn
<1> QED BY <1>3, <1>10

LEMMA ReturnCalm ==
  ASSUME NEW n, Good(n)
  PROVE  /\ Calm(n, Return(n))
         /\ Return(n).schedule_event \in {n.schedule_event, 0}
<1> DEFINE s1 == [n EXCEPT !.saturn["int_pending"] = FALSE]
           s2 == [s1 EXCEPT !.saturn["intenable"] = FALSE]
           s3 == [s2 EXCEPT !.saturn["PC"] = "handler"]
           l0 == [n EXCEPT !.schedule_event = 0]
           l1 == [l0 EXCEPT !.sched["adjtime"] = 0]
           late == IF n.adj_time_pending THEN l1 ELSE n
           b1 == [late EXCEPT !.saturn["PC"] = n.saturn.rstk]
           b2 == [b1 EXCEPT !.saturn["intenable"] = TRUE]
<1>1. Return(n) = IF n.saturn.int_pending THEN s3 ELSE b2
  BY DEF Return
<1>2. Still(n, s1) /\ Good(s1)
  BY SetStill DEF Flag
<1> HIDE DEF s1
<1>3. Still(n, s2) /\ Good(s2)
  BY <1>2, SetStill, StillOn DEF Flag
<1> HIDE DEF s2
<1>4. Still(n, s3)
  BY <1>3, SetStill, StillOn DEF Place
<1> HIDE DEF s3
<1>5. Calm(n, l0) /\ Good(l0) /\ l0.schedule_event = 0
  <2> DEFINE zero == 0
  <2>1. zero \in Int /\ "schedule_event" \in DOMAIN n
    BY DEF Good, MemoryFields
  <2> HIDE DEF zero
  <2>2. Calm(n, [n EXCEPT !.schedule_event = zero]) /\ [n EXCEPT !.schedule_event = zero].schedule_event = zero
    BY <2>1, StillField
  <2>3. Calm(n, l0) /\ l0.schedule_event = 0
    BY <2>2 DEF zero
  <2> HIDE DEF l0
  <2> QED BY <2>3, CalmGood
<1> HIDE DEF l0
<1>6. Still(l0, l1) /\ Good(l1)
  <2> DEFINE zero == 0
  <2>1. zero \in Int
    OBVIOUS
  <2>2. Still(l0, [l0 EXCEPT !.sched["adjtime"] = zero]) /\ Good([l0 EXCEPT !.sched["adjtime"] = zero])
    <3> HIDE DEF zero
    <3> QED BY <1>5, <2>1, SchedStill DEF Countdown
  <2> QED BY <2>2
<1> HIDE DEF l1
<1>7. Calm(n, late) /\ Good(late) /\ late.schedule_event \in {n.schedule_event, 0}
  BY <1>5, <1>6, CalmOn, StillSelf DEF Still
<1> HIDE DEF late
<1>8. Still(late, b1) /\ Good(b1)
  <2>1. n.saturn.rstk \in {"main", "handler", "service"}
    BY SaturnValues DEF Good
  <2> QED BY <1>7, <2>1, SetStill DEF Place
<1> HIDE DEF b1
<1>9. Still(late, b2)
  BY <1>8, SetStill, StillOn DEF Flag
<1> HIDE DEF b2
<1> QED BY <1>1, <1>4, <1>7, <1>9, CalmOn DEF Still

-----------------------------------------------------------------------------
(* What of the memory the time leaves alone. *)
Requests == {"contrast", "ann", "baud", "ioc", "rbr", "tbr", "t1", "t2"}
Asked(n) ==
  /\ n.touched \subseteq Requests /\ n.display_touched \in 0 .. DISP_INSTR_OFF
  /\ n.device_check \in BOOLEAN /\ n.line_counter \in Int

Pixels(n) ==
  /\ n.ram \in [RAM -> 0 .. 15]
  /\ n.disp_buf \in [Cell -> 0 .. 15 \cup {None}]
  /\ n.lcd_buffer \in [Cell -> 0 .. 15 \cup {None}]
  /\ n.buffer \in [Seen -> 0 .. 15]
  /\ \A p \in Cell : n.disp_buf[p] # None => n.lcd_buffer[p] = n.disp_buf[p]
  /\ \A p \in Seen : n.lcd_buffer[p] # None => n.buffer[p] = n.lcd_buffer[p]

(* Where the layout d shows memory. *)
Shown(d) ==
  {p \in Cell : /\ p[1] <= d.lines + MENU_ROWS /\ p[2] < RowLength(d, p[1])
                /\ p[1] <= d.lines => p[2] < d.nibs_per_line}
Image(n) ==
  n.drawn =>
    /\ n.display_touched = 0
    /\ n.display.on => \A p \in Shown(n.display) :
         n.disp_buf[p] = read_nibble(n, RowAddress(n.display, p[1]) + p[2])

Memory(n) == Good(n) /\ Asked(n) /\ Layouted(n) /\ Pixels(n) /\ Image(n)

LEMMA CalmKeeps ==
  ASSUME NEW n, NEW o, Memory(n), Calm(n, o)
  PROVE  /\ Memory(o)
         /\ o.touched = n.touched /\ o.display_touched = n.display_touched
         /\ o.device_check = n.device_check /\ o.port = n.port
         /\ o.speaker_counter = n.speaker_counter
<1>1. Good(n) /\ Asked(n) /\ Layouted(n) /\ Pixels(n) /\ Image(n)
  BY DEF Memory
<1>2. Good(o)
  BY <1>1, CalmGood
<1>3. /\ o.ram = n.ram /\ o.port = n.port /\ o.display = n.display /\ o.touched = n.touched
      /\ o.display_touched = n.display_touched /\ o.drawn = n.drawn
      /\ o.device_check = n.device_check /\ o.line_counter = n.line_counter
      /\ o.old_line_offset = n.old_line_offset
      /\ o.disp_buf = n.disp_buf /\ o.lcd_buffer = n.lcd_buffer /\ o.buffer = n.buffer
      /\ o.speaker_counter = n.speaker_counter
  BY DEF Calm, MemoryFields, TimeFields
<1>4. Layouted(o)
  <2>1. DOMAIN o = DOMAIN n /\ DOMAIN o.saturn = DOMAIN n.saturn
    BY <1>1, <1>2, SaturnValues DEF Good
  <2>2. \A r \in LayoutRegisters : o.saturn[r] = n.saturn[r]
    BY DEF Calm, Other
  <2> QED BY <1>1, <1>3, <2>1, <2>2, OthersKeepLayout
<1>5. Asked(o) /\ Pixels(o)
  BY <1>1, <1>3 DEF Asked, Pixels
<1>6. Image(o)
  BY <1>1, <1>3, Zenon DEF Image, read_nibble
<1> QED BY <1>2, <1>3, <1>4, <1>5, <1>6 DEF Memory

(***************************************************************************)
(* 5. Drawing.                                                             *)
(***************************************************************************)

(* Rows and columns. *)
LEMMA Division ==
  ASSUME NEW v \in Int, NEW w \in Nat \ {0}
  PROVE  v = ((v \div w) * w) + (v % w) /\ 0 <= v % w /\ v % w < w /\ v \div w \in Int /\ v % w \in Int
<1>1. w \in Int /\ w > 0
  OBVIOUS
<1>2. v \div w \in Int /\ v % w \in Int
  BY <1>1
<1>3. 0 <= v % w /\ v % w < w
  BY <1>1
<1>4. v = ((v \div w) * w) + (v % w)
  BY <1>1
<1> QED BY <1>2, <1>3, <1>4
LEMMA RowColumn ==
  ASSUME NEW w \in Nat \ {0}, NEW y \in Int, NEW x \in 0 .. w - 1
  PROVE  ((y * w) + x) \div w = y /\ ((y * w) + x) % w = x
<1> DEFINE v == (y * w) + x
           q == v \div w
           r == v % w
<1>1. v \in Int /\ v = (y * w) + x
  OBVIOUS
<1> HIDE DEF v
<1>2. q \in Int /\ r \in Int /\ v = (q * w) + r /\ 0 <= r /\ r < w
  BY <1>1
<1> HIDE DEF q, r
<1>3. q = y
  <2>1. (q - y) * w = x - r
    BY <1>1, <1>2
  <2>2. CASE q - y >= 1
    <3>1. (q - y) * w >= w
      BY <2>2, <1>2
    <3> QED BY <2>1, <3>1, <1>2
  <2>3. CASE q - y <= -1
    <3>1. (q - y) * w <= -w
      BY <2>3, <1>2
    <3> QED BY <2>1, <3>1, <1>2
  <2> QED BY <1>2, <2>2, <2>3
<1>4. r = x
  BY <1>1, <1>2, <1>3
<1> QED BY <1>3, <1>4 DEF v, q, r

(* The layout, in numbers. *)
Laid(d) ==
  /\ d.lines \in Nat /\ 1 <= d.lines /\ d.lines <= LastRow
  /\ d.nibs_per_line \in Nat /\ d.disp_start \in Int /\ d.menu_start \in Int
  /\ d.disp_end = d.disp_start + (d.nibs_per_line * (d.lines + 1))
  /\ d.menu_end = d.menu_start + (MENU_ROWS * NIBBLES_PER_ROW)

LEMMA LayoutLaid ==
  ASSUME NEW n, Good(n), Layouted(n)
  PROVE  Laid(n.display)
<1> DEFINE s == n.saturn
           d == n.display
<1>1. IsSaturn(s) /\ Follows(d, s) /\ s.line_count \in Nat /\ s.line_offset \in Nat
  BY DEF Good, Layouted
<1>2. \A name \in FiveNibbles : s[name] \in Int
  <2> TAKE name \in FiveNibbles
  <2>1. name \in Names /\ name \in RegisterNames \ {"timer1", "timer2"}
    <3>1. name \in AllNames
      BY DEF FiveNibbles, AllNames, Single, OneByte, TwoBytes, FourBytes
    <3>2. name \in RegisterNames \ {"timer1", "timer2"}
      BY DEF FiveNibbles, RegisterNames, Registers
    <3> QED BY <3>1, <3>2, Known
  <2>2. s[name] \in 0 .. 16 ^ Width(name) - 1
    <3>1. Fits(name, s[name])
      BY <1>1, <2>1 DEF IsSaturn
    <3> HIDE DEF s
    <3> QED BY <2>1, <3>1, Zenon DEF Fits
  <2> HIDE DEF s
  <2> QED BY <2>1, <2>2, RegisterRange
<1>3. s.disp_addr \in Int /\ s.menu_addr \in Int
  BY <1>2 DEF FiveNibbles
<1> HIDE DEF s, d
<1>4. d.lines \in Nat /\ 1 <= d.lines /\ d.lines <= LastRow
  <2>1. DISP_ROWS \in Nat /\ DISP_ROWS > 1
    BY IoAssumption
  <2>2. s.line_count % DISP_ROWS \in Int /\ 0 <= s.line_count % DISP_ROWS
        /\ s.line_count % DISP_ROWS < DISP_ROWS
    BY <1>1, <2>1
  <2>3. d.lines = LinesOf(s)
    BY <1>1 DEF Follows, Begins
  <2> QED BY <2>1, <2>2, <2>3 DEF LinesOf, LastRow
<1>5. d.nibs_per_line \in Nat
  <2>1. d.nibs_per_line = NibsPerLine(s.disp_io % 8, s.line_offset)
    BY <1>1 DEF Follows, Begins
  <2> DEFINE a == NIBBLES_PER_ROW + s.line_offset + (IF s.disp_io % 8 > 3 THEN 2 ELSE 0)
  <2>2. a \in Nat
    BY <1>1, IoAssumption
  <2>3. 2 ^ 12 = 4096
    BY SMT
  <2>4. NibsPerLine(s.disp_io % 8, s.line_offset) = a % 2 ^ 12
    BY Zenon DEF NibsPerLine
  <2> HIDE DEF a
  <2>5. a % 2 ^ 12 \in Nat
    BY <2>2, <2>3, SMT
  <2> QED BY <2>1, <2>4, <2>5
<1>6. d.disp_start \in Int
  <2>1. d.disp_start = DispStart(s.disp_addr)
    BY <1>1 DEF Follows, Begins
  <2> DEFINE a == (s.disp_addr \div 2) * 2
  <2>2. a \in Int
    BY <1>3
  <2>3. 2 ^ 20 = 1048576
    BY SMT
  <2>4. DispStart(s.disp_addr) = a % 2 ^ 20
    BY Zenon DEF DispStart
  <2> HIDE DEF a
  <2>5. a % 2 ^ 20 \in Int
    BY <2>2, <2>3, SMT
  <2> QED BY <2>1, <2>4, <2>5
<1>7. d.menu_start \in Int /\ d.menu_end = d.menu_start + (MENU_ROWS * NIBBLES_PER_ROW)
      /\ d.disp_end = d.disp_start + (d.nibs_per_line * (d.lines + 1))
  BY <1>1, <1>3 DEF Follows, Begins
<1> QED BY <1>4, <1>5, <1>6, <1>7 DEF Laid, d

-----------------------------------------------------------------------------
(* Drawing changes the pixels and nothing else of the memory. *)
Painted ==
  {"disp_buf", "lcd_buffer", "buffer", "flipable", "old_offset", "old_lines", "drawn",
   "last_annunc_state"}
Paints(n, o) == DOMAIN o = DOMAIN n /\ \A f \in MemoryFields \ Painted : o[f] = n[f]

LEMMA PaintsOn == ASSUME NEW n, NEW o, NEW q, Paints(n, o), Paints(o, q) PROVE Paints(n, q)
  BY DEF Paints

LEMMA PaintsFields ==
  ASSUME NEW n, NEW o, Paints(n, o)
  PROVE  /\ o.saturn = n.saturn /\ o.ram = n.ram /\ o.port = n.port /\ o.display = n.display
         /\ o.touched = n.touched /\ o.display_touched = n.display_touched
         /\ o.device_check = n.device_check /\ o.schedule_event = n.schedule_event
         /\ o.steps = n.steps /\ o.sched = n.sched /\ o.set_t1 = n.set_t1 /\ o.t1_ticks = n.t1_ticks
         /\ o.line_counter = n.line_counter /\ o.old_line_offset = n.old_line_offset
         /\ o.speaker_counter = n.speaker_counter
  BY DEF Paints, MemoryFields, Painted

LEMMA PaintsKeeps ==
  ASSUME NEW n, NEW o, Good(n), Asked(n), Layouted(n), Paints(n, o)
  PROVE  Good(o) /\ Asked(o) /\ Layouted(o)
<1>1. Good(o)
  <2>1. DOMAIN o = MemoryFields
    BY DEF Paints, Good
  <2> QED BY <2>1, PaintsFields DEF Good, Clocked
<1>2. Asked(o)
  BY PaintsFields DEF Asked
<1>3. Layouted(o)
  <2>1. DOMAIN o = DOMAIN n
    BY DEF Paints
  <2>2. o.saturn = n.saturn
    BY PaintsFields
  <2> QED BY <2>1, <2>2, PaintsFields, OthersKeepLayout
<1> QED BY <1>1, <1>2, <1>3

(* The caches hold what is drawn. *)
Level == 0 .. 15
LcdHolds(n) ==
  /\ n.lcd_buffer \in [Cell -> Level \cup {None}]
  /\ n.buffer \in [Seen -> Level]
  /\ \A p \in Seen : n.lcd_buffer[p] # None => n.buffer[p] = n.lcd_buffer[p]
BufferHolds(n) ==
  /\ n.disp_buf \in [Cell -> Level \cup {None}]
  /\ \A p \in Cell : n.disp_buf[p] # None => n.lcd_buffer[p] = n.disp_buf[p]

LEMMA PixelsHold == \A n : Pixels(n) <=> n.ram \in [RAM -> Level] /\ LcdHolds(n) /\ BufferHolds(n)
  BY DEF Pixels, LcdHolds, BufferHolds, Level

LEMMA SeenCells == Seen \subseteq Cell
  BY LcdAssumption, IoAssumption DEF Seen, Cell, Column

IsImage(image) == \A p \in DOMAIN image : image[p] \in Level

LEMMA NibblesHold ==
  ASSUME NEW n, DOMAIN n = MemoryFields, LcdHolds(n), NEW image, IsImage(image)
  PROVE  LET o == draw_nibbles(n, image)
         IN /\ Paints(n, o) /\ o.disp_buf = n.disp_buf /\ o.drawn = n.drawn
            /\ LcdHolds(o)
            /\ \A p \in Cell : o.lcd_buffer[p] = IF p \in DOMAIN image THEN image[p] ELSE n.lcd_buffer[p]
<1> DEFINE drawn == {p \in DOMAIN image : image[p] # n.lcd_buffer[p]}
           lcd == [p \in Cell |-> IF p \in drawn THEN image[p] ELSE n.lcd_buffer[p]]
           buffer == [p \in Seen |-> IF p \in drawn THEN image[p] ELSE n.buffer[p]]
           flipable == n.flipable \/ drawn \cap Seen # {}
           o == [n EXCEPT !.lcd_buffer = lcd, !.buffer = buffer, !.flipable = flipable]
<1>1. draw_nibbles(n, image) = o
  BY DEF draw_nibbles
<1>2. \A p \in Cell : lcd[p] = IF p \in DOMAIN image THEN image[p] ELSE n.lcd_buffer[p]
  OBVIOUS
<1>3. lcd \in [Cell -> Level \cup {None}]
  BY DEF IsImage, LcdHolds
<1>4. buffer \in [Seen -> Level]
  BY DEF IsImage, LcdHolds
<1>5. \A p \in Seen : lcd[p] # None => buffer[p] = lcd[p]
  BY SeenCells DEF LcdHolds
<1> HIDE DEF lcd, buffer, flipable
<1>6. Paints(n, o) /\ o.disp_buf = n.disp_buf /\ o.drawn = n.drawn /\ o.lcd_buffer = lcd /\ o.buffer = buffer
  BY DEF Paints, MemoryFields, Painted
<1> HIDE DEF o
<1> QED BY <1>1, <1>2, <1>3, <1>4, <1>5, <1>6 DEF LcdHolds

LEMMA ChangedHold ==
  ASSUME NEW n, DOMAIN n = MemoryFields, LcdHolds(n), BufferHolds(n), NEW image, IsImage(image)
  PROVE  LET o == draw_changed(n, image)
         IN /\ Paints(n, o) /\ o.drawn = n.drawn
            /\ LcdHolds(o) /\ BufferHolds(o)
            /\ \A p \in Cell : o.disp_buf[p] = IF p \in DOMAIN image THEN image[p] ELSE n.disp_buf[p]
<1> DEFINE new == {p \in DOMAIN image : image[p] # n.disp_buf[p]}
           cache == [p \in Cell |-> IF p \in new THEN image[p] ELSE n.disp_buf[p]]
           part == [p \in new |-> image[p]]
           q == [n EXCEPT !.disp_buf = cache]
           o == draw_nibbles(q, part)
<1>1. draw_changed(n, image) = o
  BY DEF draw_changed
<1>2. \A p \in Cell : cache[p] = IF p \in DOMAIN image THEN image[p] ELSE n.disp_buf[p]
  OBVIOUS
<1>3. cache \in [Cell -> Level \cup {None}]
  BY DEF IsImage, BufferHolds
<1>4. IsImage(part) /\ DOMAIN part = new /\ \A p \in new : part[p] = image[p]
  BY DEF IsImage
<1>5. \A p \in Cell : cache[p] # None => (IF p \in new THEN part[p] ELSE n.lcd_buffer[p]) = cache[p]
  BY <1>4 DEF BufferHolds
<1> HIDE DEF new, cache, part
<1>6. Paints(n, q) /\ DOMAIN q = MemoryFields /\ q.disp_buf = cache /\ q.drawn = n.drawn
      /\ q.lcd_buffer = n.lcd_buffer /\ q.buffer = n.buffer
  BY DEF Paints, MemoryFields, Painted
<1> HIDE DEF q
<1>7. LcdHolds(q)
  BY <1>6 DEF LcdHolds
<1>8. /\ Paints(q, o) /\ o.disp_buf = q.disp_buf /\ o.drawn = q.drawn
      /\ LcdHolds(o)
      /\ \A p \in Cell : o.lcd_buffer[p] = IF p \in DOMAIN part THEN part[p] ELSE q.lcd_buffer[p]
  BY <1>4, <1>6, <1>7, NibblesHold
<1> HIDE DEF o
<1>9. BufferHolds(o)
  BY <1>3, <1>4, <1>5, <1>6, <1>8 DEF BufferHolds
<1>10. Paints(n, o)
  BY <1>6, <1>8, PaintsOn
<1> QED BY <1>1, <1>2, <1>6, <1>8, <1>9, <1>10

-----------------------------------------------------------------------------
(* The display is drawn as a whole. *)
LEMMA NibbleRead == ASSUME NEW n, n.ram \in [RAM -> Level], NEW addr PROVE read_nibble(n, addr) \in Level
  BY DEF read_nibble, Level

LEMMA RowsHold ==
  ASSUME NEW n, Good(n), Pixels(n)
  PROVE  LET o == DrawRows(n)
         IN /\ Paints(n, o) /\ o.drawn = n.drawn /\ LcdHolds(o) /\ BufferHolds(o)
            /\ \A p \in Shown(n.display) :
                 o.disp_buf[p] = read_nibble(n, RowAddress(n.display, p[1]) + p[2])
<1> DEFINE d == n.display
           stale == (IF d.offset # n.old_offset THEN 0 .. d.lines ELSE {})
                      \cup (IF d.lines # n.old_lines THEN DISP_ROWS - MENU_ROWS .. LastRow ELSE {})
           image == [p \in {q \in Cell : q[2] < RowLength(d, q[1])} |->
                       read_nibble(n, RowAddress(d, p[1]) + p[2])]
           disp == Forget(n.disp_buf, stale)
           lcd == Forget(n.lcd_buffer, stale)
           q == [n EXCEPT !.disp_buf = disp, !.lcd_buffer = lcd,
                          !.old_offset = d.offset, !.old_lines = d.lines]
           o == draw_changed(q, image)
<1>1. DrawRows(n) = o
  BY DEF DrawRows
<1>2. n.ram \in [RAM -> Level] /\ LcdHolds(n) /\ BufferHolds(n) /\ DOMAIN n = MemoryFields
  BY PixelsHold DEF Good
<1>3. IsImage(image)
  BY <1>2, NibbleRead DEF IsImage
<1>4. \A p \in Shown(d) : p \in Cell /\ p \in DOMAIN image
                           /\ image[p] = read_nibble(n, RowAddress(d, p[1]) + p[2])
  BY DEF Shown
<1>5. \A p \in Cell : /\ disp[p] = IF p[1] \in stale THEN None ELSE n.disp_buf[p]
                      /\ lcd[p] = IF p[1] \in stale THEN None ELSE n.lcd_buffer[p]
  BY DEF Forget
<1>6. disp \in [Cell -> Level \cup {None}] /\ lcd \in [Cell -> Level \cup {None}]
  BY <1>2 DEF Forget, LcdHolds, BufferHolds
<1> HIDE DEF stale, image, disp, lcd
<1>7. Paints(n, q) /\ DOMAIN q = MemoryFields /\ q.disp_buf = disp /\ q.lcd_buffer = lcd
      /\ q.buffer = n.buffer /\ q.drawn = n.drawn
  BY <1>2 DEF Paints, MemoryFields, Painted
<1> HIDE DEF q
<1>8. LcdHolds(q)
  BY <1>2, <1>5, <1>6, <1>7, SeenCells DEF LcdHolds
<1>9. BufferHolds(q)
  BY <1>2, <1>5, <1>6, <1>7 DEF BufferHolds
<1>10. /\ Paints(q, o) /\ o.drawn = q.drawn /\ LcdHolds(o) /\ BufferHolds(o)
       /\ \A p \in Cell : o.disp_buf[p] = IF p \in DOMAIN image THEN image[p] ELSE q.disp_buf[p]
  BY <1>3, <1>7, <1>8, <1>9, ChangedHold
<1> HIDE DEF o
<1>11. Paints(n, o) /\ o.drawn = n.drawn
  BY <1>7, <1>10, PaintsOn
<1>12. \A p \in Shown(d) : o.disp_buf[p] = read_nibble(n, RowAddress(d, p[1]) + p[2])
  BY <1>4, <1>10
<1> QED BY <1>1, <1>10, <1>11, <1>12

LEMMA BlankHolds ==
  ASSUME NEW n, Good(n), Pixels(n)
  PROVE  LET o == Blank(n)
         IN Paints(n, o) /\ o.drawn = n.drawn /\ LcdHolds(o) /\ BufferHolds(o)
<1> DEFINE disp == Forget(n.disp_buf, 0 .. LastRow)
           image == [p \in {q \in Cell : q[2] < NIBBLES_PER_ROW} |-> 0]
           q == [n EXCEPT !.disp_buf = disp]
           o == draw_nibbles(q, image)
<1>1. Blank(n) = o
  BY DEF Blank
<1>2. LcdHolds(n) /\ DOMAIN n = MemoryFields
  BY PixelsHold DEF Good
<1>3. IsImage(image)
  BY DEF IsImage, Level
<1>4. disp = [p \in Cell |-> None]
  BY DEF Forget, Cell
<1> HIDE DEF disp, image
<1>5. Paints(n, q) /\ DOMAIN q = MemoryFields /\ q.disp_buf = disp /\ q.lcd_buffer = n.lcd_buffer
      /\ q.buffer = n.buffer /\ q.drawn = n.drawn
  BY <1>2 DEF Paints, MemoryFields, Painted
<1> HIDE DEF q
<1>6. LcdHolds(q)
  BY <1>2, <1>5 DEF LcdHolds
<1>7. Paints(q, o) /\ o.disp_buf = q.disp_buf /\ o.drawn = q.drawn /\ LcdHolds(o)
  BY <1>3, <1>5, <1>6, NibblesHold
<1> HIDE DEF o
<1>8. BufferHolds(o)
  BY <1>4, <1>5, <1>7 DEF BufferHolds
<1>9. Paints(n, o) /\ o.drawn = n.drawn
  BY <1>5, <1>7, PaintsOn
<1> QED BY <1>1, <1>7, <1>8, <1>9

LEMMA DisplayUpdated ==
  ASSUME NEW n, Good(n), Asked(n), Layouted(n), Pixels(n), n.display_touched = 0
  PROVE  Paints(n, update_display(n)) /\ Memory(update_display(n))
<1> DEFINE q == [n EXCEPT !.drawn = TRUE]
           o == update_display(n)
<1>1. o = IF n.display.on THEN DrawRows(q) ELSE Blank(q)
  BY DEF update_display
<1>2. Paints(n, q) /\ q.drawn = TRUE /\ q.disp_buf = n.disp_buf /\ q.lcd_buffer = n.lcd_buffer
      /\ q.buffer = n.buffer
  BY DEF Paints, MemoryFields, Painted, Good
<1>3. q.ram = n.ram /\ q.display = n.display
  BY <1>2, PaintsFields
<1> HIDE DEF q, o
<1>4. Good(q) /\ Pixels(q)
  BY <1>2, <1>3, PaintsKeeps DEF Pixels
<1>5. /\ Paints(q, o) /\ o.drawn = TRUE /\ LcdHolds(o) /\ BufferHolds(o)
      /\ q.display.on => \A p \in Shown(q.display) :
           o.disp_buf[p] = read_nibble(q, RowAddress(q.display, p[1]) + p[2])
  BY <1>1, <1>2, <1>3, <1>4, RowsHold, BlankHolds
<1>6. Paints(n, o)
  BY <1>2, <1>5, PaintsOn
<1>7. Good(o) /\ Asked(o) /\ Layouted(o)
  BY <1>6, PaintsKeeps
<1>8. o.ram = n.ram /\ o.display = n.display /\ o.display_touched = n.display_touched
  BY <1>6, PaintsFields
<1>9. Pixels(o)
  <2>1. n.ram \in [RAM -> Level]
    BY PixelsHold
  <2> QED BY <1>5, <1>8, <2>1, PixelsHold
<1>10. Image(o)
  <2>1. \A a : read_nibble(q, a) = read_nibble(o, a)
    BY <1>3, <1>8 DEF read_nibble
  <2>2. o.display.on => \A p \in Shown(o.display) :
          o.disp_buf[p] = read_nibble(o, RowAddress(o.display, p[1]) + p[2])
    BY <1>3, <1>5, <1>8, <2>1
  <2> QED BY <1>8, <2>2 DEF Image
<1> QED BY <1>6, <1>7, <1>9, <1>10 DEF Memory, o

LEMMA AnnuncPaints ==
  ASSUME NEW n, Memory(n)
  PROVE  Paints(n, draw_annunc(n)) /\ Memory(draw_annunc(n))
<1> DEFINE o == [n EXCEPT !.last_annunc_state = n.display.annunc, !.flipable = TRUE]
<1>1. draw_annunc(n) \in {n, o}
  BY DEF draw_annunc
<1>2. Paints(n, o) /\ o.drawn = n.drawn /\ o.disp_buf = n.disp_buf /\ o.lcd_buffer = n.lcd_buffer
      /\ o.buffer = n.buffer
  BY DEF Paints, MemoryFields, Painted, Memory, Good
<1> HIDE DEF o
<1>3. o.ram = n.ram /\ o.display = n.display /\ o.display_touched = n.display_touched
  BY <1>2, PaintsFields
<1>4. Good(o) /\ Asked(o) /\ Layouted(o)
  BY <1>2, PaintsKeeps DEF Memory
<1>5. Pixels(o)
  BY <1>2, <1>3 DEF Pixels, Memory
<1>6. Image(o)
  BY <1>2, <1>3, Zenon DEF Image, read_nibble, Memory
<1>7. Paints(n, n)
  BY DEF Paints
<1> QED BY <1>1, <1>2, <1>4, <1>5, <1>6, <1>7 DEF Memory

-----------------------------------------------------------------------------
(* A nibble is written to memory and drawn where it is seen. *)
Address(d, p) == RowAddress(d, p[1]) + p[2]

(* The cell of the display, and of the menu, that the address a belongs to. *)
DispCell(d, a) == <<(a - d.disp_start) \div d.nibs_per_line, (a - d.disp_start) % d.nibs_per_line>>
MenuCell(d, a) == <<d.lines + ((a - d.menu_start) \div NIBBLES_PER_ROW) + 1,
                    (a - d.menu_start) % NIBBLES_PER_ROW>>
OfDisp(d, a) == a >= d.disp_start /\ a < d.disp_end
OfMenu(d, a) == d.lines # LastRow /\ a >= d.menu_start /\ a < d.menu_end

LEMMA DispCells ==
  ASSUME NEW d, Laid(d), NEW a \in Int, OfDisp(d, a)
  PROVE  LET c == DispCell(d, a)
         IN c[1] \in Int /\ c[2] \in Int /\ c[1] <= d.lines /\ Address(d, c) = a
<1> DEFINE w == d.nibs_per_line
           v == a - d.disp_start
           y == v \div w
           x == v % w
<1>1. w \in Nat /\ v \in Int /\ 0 <= v /\ v < w * (d.lines + 1) /\ d.lines \in Nat /\ d.disp_start \in Int
  BY DEF Laid, OfDisp
<1>2. DispCell(d, a) = <<y, x>> /\ a = d.disp_start + v
  BY <1>1 DEF DispCell
<1>3. w # 0
  BY <1>1
<1> HIDE DEF v, w
<1>4. y \in Int /\ x \in Int /\ v = (y * w) + x /\ 0 <= x /\ x < w
  BY <1>1, <1>3, Division
<1> HIDE DEF x, y
<1>5. y <= d.lines
  <2>1. CASE y >= d.lines + 1
    <3>1. y * w >= (d.lines + 1) * w
      BY <1>1, <1>4, <2>1
    <3> QED BY <1>1, <1>4, <3>1
  <2> QED BY <1>1, <1>4, <2>1
<1>6. Address(d, <<y, x>>) = a
  BY <1>1, <1>2, <1>4, <1>5 DEF Address, RowAddress, w
<1> QED BY <1>2, <1>4, <1>5, <1>6

LEMMA MenuCells ==
  ASSUME NEW d, Laid(d), NEW a \in Int, OfMenu(d, a)
  PROVE  LET c == MenuCell(d, a)
         IN c[1] \in Int /\ c[2] \in Int /\ c[1] > d.lines /\ Address(d, c) = a
<1> DEFINE w == NIBBLES_PER_ROW
           v == a - d.menu_start
           y == v \div w
           x == v % w
<1>1. w \in Nat \ {0} /\ v \in Int /\ 0 <= v /\ d.lines \in Nat /\ d.menu_start \in Int
  BY IoAssumption DEF Laid, OfMenu
<1>2. MenuCell(d, a) = <<d.lines + y + 1, x>> /\ a = d.menu_start + v
  BY <1>1 DEF MenuCell
<1> HIDE DEF v, w
<1>4. y \in Int /\ x \in Int /\ v = (y * w) + x /\ 0 <= x /\ x < w
  BY <1>1, Division
<1> HIDE DEF x, y
<1>5. y >= 0
  <2>1. CASE y <= -1
    <3>1. y * w <= -w
      BY <1>1, <1>4, <2>1
    <3> QED BY <1>1, <1>4, <3>1
  <2> QED BY <1>4, <2>1
<1>6. Address(d, <<d.lines + y + 1, x>>) = a
  <2>1. (d.lines + y + 1) - d.lines - 1 = y /\ ~(d.lines + y + 1 <= d.lines)
    BY <1>1, <1>4, <1>5
  <2> QED BY <1>1, <1>2, <1>4, <2>1 DEF Address, RowAddress, w
<1> QED BY <1>1, <1>2, <1>4, <1>5, <1>6

(* A cell shows one nibble, and it is the cell that is drawn for it. *)
LEMMA ShownCells ==
  ASSUME NEW d, Laid(d), NEW p \in Shown(d)
  PROVE  LET a == Address(d, p)
         IN /\ a \in Int
            /\ p[1] <= d.lines => OfDisp(d, a) /\ DispCell(d, a) = p
            /\ p[1] > d.lines => OfMenu(d, a) /\ MenuCell(d, a) = p
<1>1. /\ p \in Cell /\ p[1] <= d.lines + MENU_ROWS /\ p[2] < RowLength(d, p[1])
      /\ p[1] <= d.lines => p[2] < d.nibs_per_line
  BY DEF Shown
<1>2. /\ p = <<p[1], p[2]>> /\ p[1] \in Int /\ 0 <= p[1] /\ p[1] <= LastRow /\ p[2] \in Int /\ 0 <= p[2]
  BY <1>1, IoAssumption DEF Cell, Column, LastRow
<1>3. d.lines \in Nat /\ d.nibs_per_line \in Nat /\ d.disp_start \in Int /\ d.menu_start \in Int
      /\ NIBBLES_PER_ROW \in Nat \ {0} /\ MENU_ROWS \in Nat /\ LastRow \in Int
  BY IoAssumption DEF Laid, LastRow
<1> DEFINE x == p[2]
           r == p[1]
<1>4. CASE p[1] <= d.lines
  <2> DEFINE w == d.nibs_per_line
  <2>1. Address(d, p) = d.disp_start + (r * w) + x
    BY <1>2, <1>3, <1>4 DEF Address, RowAddress
  <2>2. x < w /\ w \in Nat \ {0}
    BY <1>1, <1>2, <1>3, <1>4
  <2> HIDE DEF w
  <2>3. ((r * w) + x) \div w = r /\ ((r * w) + x) % w = x
    BY <1>2, <2>2, RowColumn
  <2>4. Address(d, p) - d.disp_start = (r * w) + x /\ Address(d, p) \in Int
    BY <1>2, <1>3, <2>1, <2>2
  <2>5. DispCell(d, Address(d, p)) = p
    BY <1>2, <2>3, <2>4 DEF DispCell, w
  <2>6. (r * w) + x < w * (d.lines + 1) /\ 0 <= (r * w) + x
    <3>1. r * w <= d.lines * w /\ 0 <= r * w
      BY <1>2, <1>3, <1>4, <2>2
    <3> QED BY <1>2, <1>3, <2>2, <3>1
  <2>7. d.disp_end = d.disp_start + (w * (d.lines + 1))
    BY DEF Laid, w
  <2>8. OfDisp(d, Address(d, p))
    BY <1>2, <1>3, <2>1, <2>2, <2>6, <2>7 DEF OfDisp
  <2> QED BY <1>2, <1>3, <1>4, <2>4, <2>5, <2>8
<1>5. CASE p[1] > d.lines
  <2> DEFINE w == NIBBLES_PER_ROW
             y == r - d.lines - 1
  <2>1. Address(d, p) = d.menu_start + (y * w) + x
    BY <1>2, <1>3, <1>5 DEF Address, RowAddress
  <2>2. x < w /\ w \in Nat \ {0} /\ y \in Nat /\ y < MENU_ROWS /\ r = d.lines + y + 1
    BY <1>1, <1>2, <1>3, <1>5 DEF RowLength
  <2>3. d.lines # LastRow
    BY <1>2, <1>3, <1>5
  <2> HIDE DEF w, y
  <2>4. ((y * w) + x) \div w = y /\ ((y * w) + x) % w = x
    BY <1>2, <2>2, RowColumn
  <2>5. Address(d, p) - d.menu_start = (y * w) + x /\ Address(d, p) \in Int
    BY <1>2, <1>3, <2>1, <2>2
  <2>6. MenuCell(d, Address(d, p)) = p
    BY <1>2, <2>2, <2>4, <2>5 DEF MenuCell, w
  <2>7. (y * w) + x < MENU_ROWS * w /\ 0 <= (y * w) + x
    <3>1. (y + 1) * w <= MENU_ROWS * w /\ 0 <= y * w
      BY <1>2, <1>3, <2>2
    <3> QED BY <1>2, <1>3, <2>2, <3>1
  <2>8. d.menu_end = d.menu_start + (MENU_ROWS * w)
    BY DEF Laid, w
  <2>9. OfMenu(d, Address(d, p))
    BY <1>2, <1>3, <2>1, <2>2, <2>3, <2>7, <2>8 DEF OfMenu
  <2> QED BY <1>2, <1>3, <1>5, <2>5, <2>6, <2>9
<1> QED BY <1>2, <1>3, <1>4, <1>5

LEMMA OneCell ==
  ASSUME NEW n, DOMAIN n = MemoryFields, LcdHolds(n), BufferHolds(n), NEW c, NEW val \in Level,
         NEW image, DOMAIN image = {c}, image[c] = val
  PROVE  LET o == draw_changed(n, image)
         IN /\ Paints(n, o) /\ o.drawn = n.drawn /\ LcdHolds(o) /\ BufferHolds(o)
            /\ \A p \in Cell : o.disp_buf[p] = IF p = c THEN val ELSE n.disp_buf[p]
<1>1. IsImage(image)
  BY DEF IsImage
<1> DEFINE o == draw_changed(n, image)
<1>2. /\ Paints(n, o) /\ o.drawn = n.drawn /\ LcdHolds(o) /\ BufferHolds(o)
      /\ \A p \in Cell : o.disp_buf[p] = IF p \in DOMAIN image THEN image[p] ELSE n.disp_buf[p]
  BY <1>1, ChangedHold
<1> HIDE DEF o
<1>3. \A p \in Cell : o.disp_buf[p] = IF p = c THEN val ELSE n.disp_buf[p]
  BY <1>2
<1> QED BY <1>2, <1>3 DEF o

(* The memory as it is stored, with cell c drawn or not. *)
LEMMA DispDrawn ==
  ASSUME NEW n, DOMAIN n = MemoryFields, LcdHolds(n), BufferHolds(n), NEW a, NEW val \in Level
  PROVE  LET o == disp_draw_nibble(n, a, val)
         IN /\ Paints(n, o) /\ o.drawn = n.drawn /\ LcdHolds(o) /\ BufferHolds(o)
            /\ \A p \in Cell : o.disp_buf[p] = IF p = DispCell(n.display, a) THEN val ELSE n.disp_buf[p]
<1> DEFINE c == DispCell(n.display, a)
           x == (a - n.display.disp_start) % n.display.nibs_per_line
           y == (a - n.display.disp_start) \div n.display.nibs_per_line
           o == disp_draw_nibble(n, a, val)
           image == [p \in {c} |-> val]
<1>1. o = IF x \notin Column \/ y > LastRow THEN n ELSE draw_changed(n, image)
  BY DEF disp_draw_nibble, DispCell
<1>2. c = <<y, x>>
  BY DEF DispCell
<1>3. DOMAIN image = {c} /\ image[c] = val
  OBVIOUS
<1> HIDE DEF c, o, x, y, image
<1>4. CASE x \notin Column \/ y > LastRow
  <2>1. c \notin Cell
    BY <1>2, <1>4, IoAssumption DEF Cell, LastRow
  <2>2. Paints(n, n)
    BY DEF Paints
  <2> QED BY <1>1, <1>4, <2>1, <2>2 DEF c, o
<1>5. CASE ~(x \notin Column \/ y > LastRow)
  <2>1. o = draw_changed(n, image)
    BY <1>1, <1>5
  <2> QED BY <1>3, <2>1, OneCell DEF c, o
<1> QED BY <1>4, <1>5

LEMMA MenuDrawn ==
  ASSUME NEW n, DOMAIN n = MemoryFields, LcdHolds(n), BufferHolds(n), NEW a, NEW val \in Level
  PROVE  LET o == menu_draw_nibble(n, a, val)
         IN /\ Paints(n, o) /\ o.drawn = n.drawn /\ LcdHolds(o) /\ BufferHolds(o)
            /\ \A p \in Cell : o.disp_buf[p] = IF p = MenuCell(n.display, a) THEN val ELSE n.disp_buf[p]
<1> DEFINE c == MenuCell(n.display, a)
           image == [p \in {c} |-> val]
<1>1. menu_draw_nibble(n, a, val) = draw_changed(n, image)
  BY DEF menu_draw_nibble, MenuCell
<1>2. DOMAIN image = {c} /\ image[c] = val
  OBVIOUS
<1> HIDE DEF c, image
<1>3. LET o == draw_changed(n, image)
      IN /\ Paints(n, o) /\ o.drawn = n.drawn /\ LcdHolds(o) /\ BufferHolds(o)
         /\ \A p \in Cell : o.disp_buf[p] = IF p = c THEN val ELSE n.disp_buf[p]
  BY <1>2, OneCell
<1> QED BY <1>1, <1>3 DEF c

(* What write_nibble() changes besides the pixels. *)
Stores(n, o) == DOMAIN o = DOMAIN n /\ \A f \in MemoryFields \ (Painted \cup {"ram"}) : o[f] = n[f]

LEMMA StoresKeeps ==
  ASSUME NEW n, NEW o, Good(n), Asked(n), Layouted(n), Stores(n, o)
  PROVE  /\ Good(o) /\ Asked(o) /\ Layouted(o)
         /\ o.saturn = n.saturn /\ o.port = n.port /\ o.display = n.display
         /\ o.touched = n.touched /\ o.display_touched = n.display_touched
         /\ o.device_check = n.device_check /\ o.schedule_event = n.schedule_event
         /\ o.speaker_counter = n.speaker_counter
<1>1. /\ o.saturn = n.saturn /\ o.port = n.port /\ o.display = n.display
      /\ o.touched = n.touched /\ o.display_touched = n.display_touched
      /\ o.device_check = n.device_check /\ o.schedule_event = n.schedule_event
      /\ o.steps = n.steps /\ o.sched = n.sched /\ o.set_t1 = n.set_t1 /\ o.t1_ticks = n.t1_ticks
      /\ o.line_counter = n.line_counter /\ o.old_line_offset = n.old_line_offset
      /\ o.speaker_counter = n.speaker_counter
  BY DEF Stores, MemoryFields, Painted
<1>2. Good(o)
  <2>1. DOMAIN o = MemoryFields
    BY DEF Stores, Good
  <2> QED BY <1>1, <2>1 DEF Good, Clocked
<1>3. Asked(o)
  BY <1>1 DEF Asked
<1>4. Layouted(o)
  <2>1. DOMAIN o = DOMAIN n
    BY DEF Stores
  <2> QED BY <1>1, <2>1, OthersKeepLayout
<1> QED BY <1>1, <1>2, <1>3, <1>4

LEMMA PaintsStores == ASSUME NEW n, NEW o, NEW q, Stores(n, o), Paints(o, q) PROVE Stores(n, q)
  BY DEF Stores, Paints

LEMMA NibbleWritten ==
  ASSUME NEW n, Memory(n), NEW addr \in RAM, NEW val \in Level
  PROVE  LET o == write_nibble(n, addr, val) IN Stores(n, o) /\ Memory(o)
<1> DEFINE d == n.display
           ram == [n.ram EXCEPT ![addr] = val]
           stored == [n EXCEPT !.ram = ram]
           shown == IF OfDisp(d, addr) THEN disp_draw_nibble(stored, addr, val) ELSE stored
           o == IF OfMenu(d, addr) THEN menu_draw_nibble(shown, addr, val) ELSE shown
<1>1. Good(n) /\ Asked(n) /\ Layouted(n) /\ Pixels(n) /\ Image(n)
  BY DEF Memory
<1>2. write_nibble(n, addr, val) = IF n.display_touched # 0 THEN stored ELSE o
  BY DEF write_nibble, OfDisp, OfMenu
<1>3. n.ram \in [RAM -> Level] /\ LcdHolds(n) /\ BufferHolds(n) /\ DOMAIN n = MemoryFields
  BY <1>1, PixelsHold DEF Good
<1>4. ram \in [RAM -> Level] /\ ram[addr] = val /\ \A a \in RAM \ {addr} : ram[a] = n.ram[a]
  BY <1>3
<1> HIDE DEF ram
<1>5. Stores(n, stored) /\ DOMAIN stored = MemoryFields /\ stored.ram = ram /\ stored.display = d
      /\ stored.disp_buf = n.disp_buf /\ stored.lcd_buffer = n.lcd_buffer /\ stored.buffer = n.buffer
      /\ stored.drawn = n.drawn
  BY <1>3 DEF Stores, MemoryFields, Painted
<1> HIDE DEF stored
<1>6. LcdHolds(stored) /\ BufferHolds(stored)
  BY <1>3, <1>5 DEF LcdHolds, BufferHolds
<1>7. CASE n.display_touched # 0
  <2>1. Good(stored) /\ Asked(stored) /\ Layouted(stored) /\ stored.display_touched = n.display_touched
    BY <1>1, <1>5, StoresKeeps
  <2>2. Pixels(stored)
    BY <1>4, <1>5, <1>6, PixelsHold
  <2>3. Image(stored)
    BY <1>1, <1>5, <1>7, <2>1 DEF Image
  <2> QED BY <1>2, <1>5, <1>7, <2>1, <2>2, <2>3 DEF Memory
<1>8. CASE n.display_touched = 0
  <2>1. write_nibble(n, addr, val) = o
    BY <1>2, <1>8
  <2>2. /\ Stores(n, shown) /\ DOMAIN shown = MemoryFields /\ shown.ram = ram /\ shown.display = d
        /\ LcdHolds(shown) /\ BufferHolds(shown) /\ shown.drawn = n.drawn
        /\ \A p \in Cell : shown.disp_buf[p] =
             IF OfDisp(d, addr) /\ p = DispCell(d, addr) THEN val ELSE n.disp_buf[p]
    <3>1. CASE OfDisp(d, addr)
      <4>1. shown = disp_draw_nibble(stored, addr, val)
        BY <3>1
      <4> HIDE DEF shown
      <4>2. /\ Paints(stored, shown) /\ shown.drawn = stored.drawn /\ LcdHolds(shown) /\ BufferHolds(shown)
            /\ \A p \in Cell : shown.disp_buf[p] = IF p = DispCell(stored.display, addr) THEN val ELSE stored.disp_buf[p]
        BY <1>5, <1>6, <4>1, DispDrawn
      <4>3. Stores(n, shown)
        BY <1>5, <4>2, PaintsStores
      <4>4. shown.ram = stored.ram /\ shown.display = stored.display /\ DOMAIN shown = DOMAIN stored
        BY <4>2, PaintsFields DEF Paints
      <4> QED BY <1>5, <3>1, <4>2, <4>3, <4>4
    <3>2. CASE ~OfDisp(d, addr)
      <4>1. shown = stored
        BY <3>2
      <4> QED BY <1>5, <1>6, <3>2, <4>1
    <3> QED BY <3>1, <3>2
  <2> HIDE DEF shown
  <2>3. /\ Stores(n, o) /\ o.ram = ram /\ o.display = d
        /\ LcdHolds(o) /\ BufferHolds(o) /\ o.drawn = n.drawn
        /\ \A p \in Cell : o.disp_buf[p] =
             IF OfMenu(d, addr) /\ p = MenuCell(d, addr) THEN val ELSE shown.disp_buf[p]
    <3>1. CASE OfMenu(d, addr)
      <4>1. o = menu_draw_nibble(shown, addr, val)
        BY <3>1
      <4> HIDE DEF o
      <4>2. /\ Paints(shown, o) /\ o.drawn = shown.drawn /\ LcdHolds(o) /\ BufferHolds(o)
            /\ \A p \in Cell : o.disp_buf[p] = IF p = MenuCell(shown.display, addr) THEN val ELSE shown.disp_buf[p]
        BY <2>2, <4>1, MenuDrawn
      <4>3. Stores(n, o)
        BY <2>2, <4>2, PaintsStores
      <4>4. o.ram = shown.ram /\ o.display = shown.display
        BY <4>2, PaintsFields
      <4> QED BY <2>2, <3>1, <4>2, <4>3, <4>4
    <3>2. CASE ~OfMenu(d, addr)
      <4>1. o = shown
        BY <3>2
      <4> QED BY <2>2, <3>2, <4>1
    <3> QED BY <3>1, <3>2
  <2> HIDE DEF o
  <2>4. Good(o) /\ Asked(o) /\ Layouted(o) /\ o.display_touched = n.display_touched
    BY <1>1, <2>3, StoresKeeps
  <2>5. Pixels(o)
    BY <1>4, <2>3, PixelsHold
  <2>6. ASSUME n.drawn, d.on, NEW p \in Shown(d)
        PROVE  o.disp_buf[p] = read_nibble(o, Address(d, p))
    <3> DEFINE a == Address(d, p)
    <3>1. Laid(d) /\ addr \in Int
      BY <1>1, LayoutLaid, MachineAssumption
    <3> HIDE DEF d
    <3>2. /\ p \in Cell /\ a \in Int /\ d.lines \in Int /\ p[1] \in Int
          /\ p[1] <= d.lines => OfDisp(d, a) /\ DispCell(d, a) = p
          /\ p[1] > d.lines => OfMenu(d, a) /\ MenuCell(d, a) = p
      BY <2>6, <3>1, ShownCells, IoAssumption DEF Shown, Cell, LastRow, Laid
    <3>3. OfDisp(d, addr) /\ p = DispCell(d, addr) => p[1] <= d.lines /\ a = addr
      BY <3>1, DispCells
    <3>4. OfMenu(d, addr) /\ p = MenuCell(d, addr) => p[1] > d.lines /\ a = addr
      BY <3>1, MenuCells
    <3>5. n.disp_buf[p] = read_nibble(n, a)
      <4>1. \A q \in Shown(d) : n.disp_buf[q] = read_nibble(n, Address(d, q))
        BY <1>1, <2>6 DEF Image, d, Address
      <4> QED BY <2>6, <4>1
    <3> HIDE DEF a
    <3>6. CASE a = addr
      <4>1. o.disp_buf[p] = val
        <5>1. CASE p[1] <= d.lines
          BY <2>2, <2>3, <3>2, <3>4, <3>6, <5>1
        <5>2. CASE p[1] > d.lines
          BY <2>3, <3>2, <3>6, <5>2
        <5> QED BY <3>2, <5>1, <5>2
      <4> QED BY <1>4, <2>3, <3>6, <4>1 DEF read_nibble, a
    <3>7. CASE a # addr
      <4>1. o.disp_buf[p] = n.disp_buf[p]
        BY <2>2, <2>3, <3>2, <3>3, <3>4, <3>7
      <4>2. read_nibble(o, a) = read_nibble(n, a)
        BY <1>4, <2>3, <3>7 DEF read_nibble
      <4> QED BY <3>5, <4>1, <4>2 DEF a
    <3> QED BY <3>6, <3>7
  <2>7. Image(o)
    BY <1>1, <2>3, <2>4, <2>6 DEF Image, Address
  <2> QED BY <2>1, <2>3, <2>4, <2>5, <2>7 DEF Memory
<1>9. n.display_touched # 0 \/ n.display_touched = 0
  OBVIOUS
<1> QED BY <1>7, <1>8

(***************************************************************************)
(* 6. Requests, devices and the scheduler.                                 *)
(***************************************************************************)

(* Requests, and the devices that serve them. *)
Rest(n, o) == o.port = n.port /\ o.speaker_counter = n.speaker_counter

LEMMA RestOn == ASSUME NEW n, NEW o, NEW q, Rest(n, o), Rest(o, q) PROVE Rest(n, q)
  BY DEF Rest

(* o is n but for what is asked for. *)
Asking == {"touched", "display_touched", "device_check"}

LEMMA AskingField ==
  ASSUME NEW n, Memory(n), NEW o, DOMAIN o = MemoryFields,
         \A f \in MemoryFields \ Asking : o[f] = n[f]
  PROVE  /\ Good(o) /\ Layouted(o) /\ Pixels(o) /\ Rest(n, o)
         /\ o.schedule_event = n.schedule_event /\ o.drawn = n.drawn
         /\ o.line_counter = n.line_counter
         /\ o.display_touched = n.display_touched => Image(o)
         /\ o.display_touched = 0 => Image(o)
         /\ ~n.drawn => Image(o)
<1>0. /\ Good(n) /\ Asked(n) /\ Layouted(n) /\ Pixels(n) /\ Image(n) /\ DOMAIN n = MemoryFields
  BY DEF Memory, Good
<1>1. /\ o.saturn = n.saturn /\ o.ram = n.ram /\ o.port = n.port /\ o.display = n.display
      /\ o.drawn = n.drawn /\ o.schedule_event = n.schedule_event
      /\ o.steps = n.steps /\ o.sched = n.sched /\ o.set_t1 = n.set_t1 /\ o.t1_ticks = n.t1_ticks
      /\ o.line_counter = n.line_counter /\ o.old_line_offset = n.old_line_offset
      /\ o.disp_buf = n.disp_buf /\ o.lcd_buffer = n.lcd_buffer /\ o.buffer = n.buffer
      /\ o.speaker_counter = n.speaker_counter
  BY DEF MemoryFields, Asking
<1>2. Good(o)
  BY <1>0, <1>1 DEF Good, Clocked
<1>3. Layouted(o)
  BY <1>0, <1>1, OthersKeepLayout
<1>4. Pixels(o)
  BY <1>0, <1>1 DEF Pixels
<1>5. n.drawn /\ o.display.on => \A p \in Shown(o.display) :
        o.disp_buf[p] = read_nibble(o, RowAddress(o.display, p[1]) + p[2])
  <2>1. \A a : read_nibble(o, a) = read_nibble(n, a)
    BY <1>1 DEF read_nibble
  <2> QED BY <1>0, <1>1, <2>1 DEF Image
<1>6. /\ o.display_touched = n.display_touched => Image(o)
      /\ o.display_touched = 0 => Image(o)
      /\ ~n.drawn => Image(o)
  BY <1>0, <1>1, <1>5 DEF Image
<1> QED BY <1>1, <1>2, <1>3, <1>4, <1>6 DEF Rest

LEMMA TouchedField ==
  ASSUME NEW n, Memory(n), NEW v, v \subseteq Requests
  PROVE  LET o == [n EXCEPT !.touched = v]
         IN /\ Memory(o) /\ Rest(n, o) /\ o.touched = v
            /\ o.display_touched = n.display_touched /\ o.device_check = n.device_check
            /\ o.schedule_event = n.schedule_event
<1> DEFINE o == [n EXCEPT !.touched = v]
<1>1. Good(n) /\ Asked(n)
  BY DEF Memory
<1>2. /\ DOMAIN o = MemoryFields /\ \A f \in MemoryFields \ Asking : o[f] = n[f]
      /\ o.touched = v /\ o.display_touched = n.display_touched /\ o.device_check = n.device_check
  BY <1>1 DEF Good, MemoryFields, Asking
<1> HIDE DEF o
<1>3. Good(o) /\ Layouted(o) /\ Pixels(o) /\ Image(o) /\ Rest(n, o)
      /\ o.schedule_event = n.schedule_event /\ o.line_counter = n.line_counter
  BY <1>2, AskingField
<1> QED BY <1>1, <1>2, <1>3 DEF Memory, Asked, o

LEMMA DeviceCheckField ==
  ASSUME NEW n, Memory(n), NEW v \in BOOLEAN
  PROVE  LET o == [n EXCEPT !.device_check = v]
         IN /\ Memory(o) /\ Rest(n, o) /\ o.touched = n.touched
            /\ o.display_touched = n.display_touched /\ o.device_check = v
            /\ o.schedule_event = n.schedule_event
<1> DEFINE o == [n EXCEPT !.device_check = v]
<1>1. Good(n) /\ Asked(n)
  BY DEF Memory
<1>2. /\ DOMAIN o = MemoryFields /\ \A f \in MemoryFields \ Asking : o[f] = n[f]
      /\ o.touched = n.touched /\ o.display_touched = n.display_touched /\ o.device_check = v
  BY <1>1 DEF Good, MemoryFields, Asking
<1> HIDE DEF o
<1>3. Good(o) /\ Layouted(o) /\ Pixels(o) /\ Image(o) /\ Rest(n, o)
      /\ o.schedule_event = n.schedule_event /\ o.line_counter = n.line_counter
  BY <1>2, AskingField
<1> QED BY <1>1, <1>2, <1>3 DEF Memory, Asked, o

(* The rows are as drawn, and either are drawn or are not said to be. *)
LEMMA DisplayTouchedField ==
  ASSUME NEW n, Memory(n), NEW v \in 0 .. DISP_INSTR_OFF
  PROVE  LET o == [n EXCEPT !.display_touched = v]
         IN /\ Good(o) /\ Asked(o) /\ Layouted(o) /\ Pixels(o) /\ Rest(n, o)
            /\ o.touched = n.touched /\ o.display_touched = v
            /\ o.device_check = n.device_check /\ o.schedule_event = n.schedule_event
            /\ (n.drawn => v = 0) => Memory(o)
<1> DEFINE o == [n EXCEPT !.display_touched = v]
<1>1. Good(n) /\ Asked(n)
  BY DEF Memory
<1>2. /\ DOMAIN o = MemoryFields /\ \A f \in MemoryFields \ Asking : o[f] = n[f]
      /\ o.touched = n.touched /\ o.display_touched = v /\ o.device_check = n.device_check
  BY <1>1 DEF Good, MemoryFields, Asking
<1> HIDE DEF o
<1>3. Good(o) /\ Layouted(o) /\ Pixels(o) /\ Rest(n, o)
      /\ o.schedule_event = n.schedule_event /\ o.line_counter = n.line_counter
  BY <1>2, AskingField
<1>4. (n.drawn => v = 0) => Image(o)
  BY <1>2, AskingField
<1>5. Asked(o)
  BY <1>1, <1>2, <1>3 DEF Asked
<1> QED BY <1>2, <1>3, <1>4, <1>5 DEF Memory, o

LEMMA StillRest ==
  ASSUME NEW n, NEW o, Memory(n), Calm(n, o)
  PROVE  /\ Memory(o) /\ Rest(n, o) /\ o.touched = n.touched
         /\ o.display_touched = n.display_touched /\ o.device_check = n.device_check
  BY CalmKeeps DEF Rest

LEMMA DisplayChecked ==
  ASSUME NEW n, Memory(n)
  PROVE  LET o == CheckDisplay(n)
         IN /\ Memory(o) /\ Rest(n, o)
            /\ o.display_touched > 0 => o.device_check
<1> DEFINE v == IF n.display_touched > 0 THEN n.display_touched - 1 ELSE n.display_touched
           q == [n EXCEPT !.display_touched = v]
           drawn == IF n.display_touched = 1 THEN update_display(q) ELSE q
           asks == [drawn EXCEPT !.device_check = TRUE]
           o == CheckDisplay(n)
<1>1. n.display_touched \in 0 .. DISP_INSTR_OFF /\ DISP_INSTR_OFF \in Nat
  BY IoAssumption DEF Memory, Asked
<1>2. o = IF q.display_touched > 0 THEN asks ELSE drawn
  BY DEF CheckDisplay
<1>3. v \in 0 .. DISP_INSTR_OFF /\ (n.display_touched = 1 => v = 0) /\ (n.display_touched = 0 => v = 0)
  BY <1>1
<1> HIDE DEF v, o
<1>4. /\ Good(q) /\ Asked(q) /\ Layouted(q) /\ Pixels(q) /\ Rest(n, q) /\ q.display_touched = v
      /\ (n.drawn => v = 0) => Memory(q)
  BY <1>3, DisplayTouchedField
<1>5. n.drawn => v = 0
  BY <1>3 DEF Memory, Image
<1> HIDE DEF q
<1>6. Memory(drawn) /\ Rest(n, drawn) /\ drawn.display_touched = v
  <2>1. CASE n.display_touched = 1
    <3>1. Paints(q, drawn) /\ Memory(drawn)
      BY <1>3, <1>4, <2>1, DisplayUpdated
    <3> QED BY <1>4, <3>1, PaintsFields DEF Rest
  <2>2. CASE n.display_touched # 1
    BY <1>4, <1>5, <2>2
  <2> QED BY <2>1, <2>2
<1> HIDE DEF drawn
<1>7. Memory(asks) /\ Rest(drawn, asks) /\ asks.device_check = TRUE
  <2> DEFINE yes == TRUE
  <2>1. yes \in BOOLEAN
    OBVIOUS
  <2> HIDE DEF yes
  <2>2. Memory([drawn EXCEPT !.device_check = yes]) /\ Rest(drawn, [drawn EXCEPT !.device_check = yes])
        /\ [drawn EXCEPT !.device_check = yes].device_check = yes
    BY <1>6, <2>1, DeviceCheckField
  <2> QED BY <2>2 DEF yes
<1> HIDE DEF asks
<1>8. Memory(o) /\ Rest(n, o) /\ (o.display_touched > 0 => o.device_check)
  BY <1>2, <1>4, <1>6, <1>7, RestOn
<1> QED BY <1>8 DEF o

(* A drawing that is due makes check_devices() come back. *)
Recalled(n) == n.display_touched > 0 => n.device_check

LEMMA RecalledOn ==
  ASSUME NEW n, NEW o, Memory(n), Recalled(n), Calm(n, o)
  PROVE  Memory(o) /\ Rest(n, o) /\ Recalled(o) /\ o.touched = n.touched
  BY StillRest DEF Recalled

LEMMA DevicesChecked ==
  ASSUME NEW n, Memory(n)
  PROVE  LET o == check_devices(n) IN Memory(o) /\ Rest(n, o) /\ Recalled(o) /\ o.touched = {}
<1> DEFINE a == CheckDisplay(n)
           b == CheckAnnunc(a)
           c == CheckIoc(b)
           d == CheckRbr(c)
           e == CheckTbr(d)
           f == CheckTimers(e)
           none == {}
           o == [f EXCEPT !.touched = none]
<1>1. check_devices(n) = o
  BY DEF check_devices
<1>2. Memory(a) /\ Rest(n, a) /\ Recalled(a)
  BY DisplayChecked DEF Recalled
<1> HIDE DEF a
<1>3. Memory(b) /\ Rest(a, b) /\ Recalled(b)
  <2>1. Memory(draw_annunc(a)) /\ Rest(a, draw_annunc(a)) /\ Recalled(draw_annunc(a))
    BY <1>2, AnnuncPaints, PaintsFields DEF Rest, Recalled
  <2> QED BY <1>2, <2>1 DEF CheckAnnunc, Rest
<1> HIDE DEF b
<1>4. Memory(c) /\ Rest(b, c) /\ Recalled(c)
  <2>1. Calm(b, c)
    BY <1>3, SerialStill DEF Memory, Still
  <2> HIDE DEF c
  <2> QED BY <1>3, <2>1, RecalledOn
<1> HIDE DEF c
<1>5. Memory(d) /\ Rest(c, d) /\ Recalled(d)
  <2>1. Calm(c, d)
    BY <1>4, SerialStill DEF Memory, Still
  <2> HIDE DEF d
  <2> QED BY <1>4, <2>1, RecalledOn
<1> HIDE DEF d
<1>6. Memory(e) /\ Rest(d, e) /\ Recalled(e)
  <2>1. Calm(d, e)
    BY <1>5, SerialStill DEF Memory, Still
  <2> HIDE DEF e
  <2> QED BY <1>5, <2>1, RecalledOn
<1> HIDE DEF e
<1>7. Memory(f) /\ Rest(e, f) /\ Recalled(f)
  <2>1. Calm(e, f)
    BY <1>6, CheckTimersStill DEF Memory, Still
  <2> HIDE DEF f
  <2> QED BY <1>6, <2>1, RecalledOn
<1> HIDE DEF f
<1>8. none \subseteq Requests
  OBVIOUS
<1>9. Memory(o) /\ Rest(f, o) /\ Recalled(o) /\ o.touched = none
  <2> HIDE DEF none
  <2>1. /\ Memory(o) /\ Rest(f, o) /\ o.touched = none
        /\ o.display_touched = f.display_touched /\ o.device_check = f.device_check
    BY <1>7, <1>8, TouchedField
  <2> HIDE DEF o
  <2> QED BY <1>7, <2>1 DEF Recalled
<1> HIDE DEF o
<1>10. Rest(n, o)
  BY <1>2, <1>3, <1>4, <1>5, <1>6, <1>7, <1>9 DEF Rest
<1> QED BY <1>1, <1>9, <1>10

LEMMA DisplayCounted ==
  ASSUME NEW n, Memory(n)
  PROVE  Memory(CountDisplay(n)) /\ Rest(n, CountDisplay(n))
<1> DEFINE left == Minus(n.sched.display, n.steps)
           touched == n.display_touched - n.steps
           v == IF touched < 0 THEN 1 ELSE touched
           q == [n EXCEPT !.sched["display"] = left]
           o == [q EXCEPT !.display_touched = v]
<1>1. CountDisplay(n) = IF left > 0 \/ n.display_touched = 0 THEN q ELSE o
  BY DEF CountDisplay
<1>2. left \in Int /\ n.steps \in Nat
  BY SchedInt DEF Memory
<1>3. v \in 0 .. DISP_INSTR_OFF
  BY <1>2, IoAssumption DEF Memory, Asked
<1> HIDE DEF left, v
<1>4. Still(n, q)
  BY <1>2, SchedStill DEF Memory
<1> HIDE DEF q
<1>5. Memory(q) /\ Rest(n, q) /\ q.display_touched = n.display_touched
  BY <1>4, StillRest DEF Still
<1>6. CASE left > 0 \/ n.display_touched = 0
  BY <1>1, <1>5, <1>6
<1>7. CASE n.display_touched # 0
  <2>1. ~q.drawn
    BY <1>5, <1>7 DEF Memory, Image
  <2>2. Memory(o) /\ Rest(q, o)
    BY <1>3, <1>5, <2>1, DisplayTouchedField
  <2> HIDE DEF o
  <2> QED BY <1>1, <1>5, <2>2, RestOn
<1> QED BY <1>6, <1>7

(* When check_devices() has been called, a drawing that is due is scheduled. *)
Scheduled(n) ==
  n.touched = {} /\ (n.display_touched > 0 => n.device_check /\ n.schedule_event < n.display_touched)

LEMMA DevicesScheduled ==
  ASSUME NEW n, Memory(n)
  PROVE  LET o == ScheduleDevices(n)
         IN /\ Memory(o) /\ Rest(n, o)
            /\ n.device_check => Scheduled(o)
            /\ ~n.device_check => o = n
<1> DEFINE no == FALSE
           a == [n EXCEPT !.device_check = no]
           b == CountDisplay(a)
           c == check_devices(b)
           display == IF c.display_touched # 0 THEN c.display_touched - 1 ELSE NEVER
           d == [c EXCEPT !.sched["display"] = display]
           o == Before(d, display)
<1>1. ScheduleDevices(n) = IF ~n.device_check THEN n ELSE o
  BY DEF ScheduleDevices
<1>2. no \in BOOLEAN
  OBVIOUS
<1>3. Memory(a) /\ Rest(n, a)
  <2> HIDE DEF no
  <2> QED BY <1>2, DeviceCheckField
<1> HIDE DEF a
<1>4. Memory(b) /\ Rest(a, b)
  BY <1>3, DisplayCounted
<1> HIDE DEF b
<1>5. Memory(c) /\ Rest(b, c) /\ Recalled(c) /\ c.touched = {}
  BY <1>4, DevicesChecked
<1> HIDE DEF c
<1>6. display \in Int /\ c.display_touched \in 0 .. DISP_INSTR_OFF /\ DISP_INSTR_OFF \in Nat
  BY <1>5, SchedulerAssumption, IoAssumption DEF Memory, Asked
<1>7. c.display_touched > 0 => display < c.display_touched
  BY <1>6
<1> HIDE DEF display
<1>8. Still(c, d) /\ Good(d)
  BY <1>5, <1>6, SchedStill DEF Memory
<1> HIDE DEF d
<1>9. Calm(c, o)
  BY <1>5, <1>6, <1>8, BeforeNearer DEF Memory, Nearer
<1>10. o.schedule_event <= display /\ o.schedule_event \in Int
  <2>1. d.schedule_event \in Int /\ "schedule_event" \in DOMAIN d
    BY <1>8 DEF Good, Clocked, MemoryFields
  <2> QED BY <1>6, <2>1 DEF Before
<1> HIDE DEF o
<1>11. /\ Memory(o) /\ Rest(c, o) /\ o.touched = c.touched
       /\ o.display_touched = c.display_touched /\ o.device_check = c.device_check
  BY <1>5, <1>9, StillRest
<1>12. Scheduled(o)
  BY <1>5, <1>6, <1>7, <1>10, <1>11 DEF Scheduled, Recalled
<1>13. Rest(n, o)
  BY <1>3, <1>4, <1>5, <1>11 DEF Rest
<1>14. Rest(n, n)
  BY DEF Rest
<1> QED BY <1>1, <1>11, <1>12, <1>13, <1>14

-----------------------------------------------------------------------------
(* The time between two instructions. *)
AtStart(n) == n.touched = {"contrast", "baud", "ann"} /\ n.display_touched <= 1
Serves(n) == Memory(n) /\ (AtStart(n) \/ Scheduled(n))

LEMMA NearerServes ==
  ASSUME NEW n, NEW o, Serves(n), Nearer(n, o)
  PROVE  Serves(o) /\ Rest(n, o)
<1>1. Memory(n) /\ Calm(n, o)
  BY DEF Serves, Nearer
<1>2. /\ Memory(o) /\ Rest(n, o) /\ o.touched = n.touched
      /\ o.display_touched = n.display_touched /\ o.device_check = n.device_check
  BY <1>1, StillRest
<1>3. /\ n.schedule_event \in Int /\ o.schedule_event \in Int /\ o.schedule_event <= n.schedule_event
      /\ n.display_touched \in Int
  BY <1>1, <1>2, IoAssumption DEF Memory, Good, Clocked, Nearer, Asked
<1> QED BY <1>2, <1>3 DEF Serves, AtStart, Scheduled

(* One instruction more, or the count begins again. *)
LEMMA OneStep ==
  ASSUME NEW n, Good(n), NEW steps \in Nat
  PROVE  Nearer(n, [n EXCEPT !.steps = steps, !.schedule_event = Minus(@, 1)])
<1> DEFINE v == Minus(n.schedule_event, 1)
           a == [n EXCEPT !.steps = steps]
           o == [a EXCEPT !.schedule_event = v]
<1>1. [n EXCEPT !.steps = steps, !.schedule_event = Minus(@, 1)] = o
  OBVIOUS
<1>2. v \in Int /\ v <= n.schedule_event /\ n.schedule_event \in Int
  BY SchedulerAssumption DEF Minus, Good, Clocked
<1> HIDE DEF v
<1>3. Still(n, a) /\ Good(a)
  BY StillField, StillGood
<1> HIDE DEF a
<1>4. Calm(n, o) /\ o.schedule_event = v
  <2>1. "schedule_event" \in DOMAIN a
    BY <1>3 DEF Good, MemoryFields
  <2> QED BY <1>2, <1>3, <2>1, StillField, CalmOn DEF Still
<1> QED BY <1>1, <1>2, <1>4 DEF Nearer

(* Nothing is asked for that check_devices() would not be called for. *)
Waits(n) == n.device_check \/ AtStart(n) \/ (n.touched = {} /\ n.display_touched = 0)

LEMMA ScheduleServes ==
  ASSUME NEW n, Memory(n), Waits(n), NEW period, IsPeriod(period), NEW env, IsHost(env)
  PROVE  LET o == schedule(n, period, env) IN Serves(o) /\ Rest(n, o)
<1> DEFINE t2 == ScheduleTimer2(n, period)
           devices == ScheduleDevices(t2)
           receive == ScheduleReceive(devices, period)
           adjtime == ScheduleAdjtime(receive, period, env)
           t1 == ScheduleTimer1(adjtime, period)
           last == ScheduleStatistics(t1, period, env)
           zero == 0
           left == [last EXCEPT !.steps = zero, !.schedule_event = Minus(@, 1)]
           o == GetEvent(left, env)
<1>1. schedule(n, period, env) = o
  BY DEF schedule
<1>2. Memory(t2) /\ Rest(n, t2) /\ Waits(t2)
  <2>1. Calm(n, t2)
    BY Timer2Calm DEF Memory
  <2> HIDE DEF t2
  <2> QED BY <2>1, StillRest DEF Waits, AtStart
<1> HIDE DEF t2
<1>3. Serves(devices) /\ Rest(t2, devices)
  <2>1. /\ Memory(devices) /\ Rest(t2, devices)
        /\ t2.device_check => Scheduled(devices)
        /\ ~t2.device_check => devices = t2
    BY <1>2, DevicesScheduled
  <2> HIDE DEF devices
  <2>2. t2.touched = {} /\ t2.display_touched = 0 => Scheduled(t2)
    BY DEF Scheduled
  <2> QED BY <1>2, <2>1, <2>2 DEF Serves, Waits
<1> HIDE DEF devices
<1>4. Serves(receive) /\ Rest(devices, receive)
  BY <1>3, ReceiveNearer, NearerServes DEF Serves, Memory
<1> HIDE DEF receive
<1>5. Serves(adjtime) /\ Rest(receive, adjtime)
  BY <1>4, AdjtimeNearer, NearerServes DEF Serves, Memory
<1> HIDE DEF adjtime
<1>6. Serves(t1) /\ Rest(adjtime, t1)
  BY <1>5, Timer1Nearer, NearerServes DEF Serves, Memory
<1> HIDE DEF t1
<1>7. Serves(last) /\ Rest(t1, last)
  BY <1>6, StatisticsNearer, NearerServes DEF Serves, Memory
<1> HIDE DEF last
<1>8. Serves(left) /\ Rest(last, left)
  <2>1. zero \in Nat
    OBVIOUS
  <2> HIDE DEF zero
  <2>2. Nearer(last, left)
    BY <1>7, <2>1, OneStep DEF Serves, Memory
  <2> HIDE DEF left
  <2> QED BY <1>7, <2>2, NearerServes
<1> HIDE DEF left
<1>9. Serves(o) /\ Rest(left, o)
  <2>1. Nearer(left, o)
    <3>1. Good(left)
      BY <1>8 DEF Serves, Memory
    <3>2. Still(left, o)
      BY <3>1, EventStill
    <3> HIDE DEF o
    <3>3. left.schedule_event \in Int
      BY <3>1 DEF Good, Clocked
    <3> QED BY <3>2, <3>3 DEF Still, Nearer
  <2> HIDE DEF o
  <2> QED BY <1>8, <2>1, NearerServes
<1> HIDE DEF o
<1>10. Rest(n, o)
  BY <1>2, <1>3, <1>4, <1>5, <1>6, <1>7, <1>8, <1>9 DEF Rest
<1> QED BY <1>1, <1>9, <1>10

(* What an instruction may leave behind. *)
Attended(n) == (n.device_check /\ n.schedule_event <= 0) \/ AtStart(n) \/ Scheduled(n)

LEMMA InstructionServes ==
  ASSUME NEW n, Memory(n), Attended(n), NEW period, IsPeriod(period), NEW env, IsHost(env)
  PROVE  LET o == AfterInstruction(n, period, env) IN Serves(o) /\ Rest(n, o)
<1> DEFINE steps == n.steps + 1
           a == [n EXCEPT !.steps = steps, !.schedule_event = Minus(@, 1)]
<1>1. AfterInstruction(n, period, env) = IF n.schedule_event <= 0 THEN schedule(a, period, env) ELSE a
  BY DEF AfterInstruction
<1>2. steps \in Nat /\ n.schedule_event \in Int /\ n.display_touched \in Nat
  BY IoAssumption DEF Memory, Good, Clocked, Asked
<1> HIDE DEF steps
<1>3. Nearer(n, a)
  BY <1>2, OneStep DEF Memory
<1> HIDE DEF a
<1>4. Memory(a) /\ Rest(n, a) /\ a.touched = n.touched
      /\ a.display_touched = n.display_touched /\ a.device_check = n.device_check
  BY <1>3, StillRest DEF Nearer
<1>5. CASE n.schedule_event <= 0
  <2>1. Waits(a)
    BY <1>2, <1>4 DEF Attended, Waits, AtStart, Scheduled
  <2>2. LET o == schedule(a, period, env) IN Serves(o) /\ Rest(a, o)
    BY <1>4, <2>1, ScheduleServes
  <2> QED BY <1>1, <1>4, <1>5, <2>2, RestOn
<1>6. CASE ~(n.schedule_event <= 0)
  <2>1. Serves(n)
    BY <1>6 DEF Attended, Serves
  <2>2. Serves(a)
    BY <1>3, <2>1, NearerServes
  <2> QED BY <1>1, <1>4, <1>6, <2>2
<1> QED BY <1>5, <1>6

LEMMA ShutdownServes ==
  ASSUME NEW n, Serves(n), NEW outZero
  PROVE  LET o == ShutdownBegin(n, outZero) IN Serves(o) /\ Rest(n, o)
<1> DEFINE zero == 0
           a == [n EXCEPT !.display_touched = zero]
           b == update_display(a)
           drawn == IF n.display_touched # 0 THEN b ELSE n
           c == [drawn EXCEPT !.awake = FALSE]
           d == [c EXCEPT !.saturn["intenable"] = TRUE]
           e == [d EXCEPT !.saturn["int_pending"] = FALSE]
<1>1. ShutdownBegin(n, outZero) = IF outZero THEN e ELSE c
  BY DEF ShutdownBegin
<1>2. zero \in 0 .. DISP_INSTR_OFF /\ Memory(n)
  BY IoAssumption DEF Serves
<1>3. /\ Good(a) /\ Asked(a) /\ Layouted(a) /\ Pixels(a) /\ Rest(n, a) /\ a.display_touched = 0
      /\ a.touched = n.touched
  <2> HIDE DEF zero
  <2>1. /\ Good(a) /\ Asked(a) /\ Layouted(a) /\ Pixels(a) /\ Rest(n, a) /\ a.display_touched = zero
        /\ a.touched = n.touched
    BY <1>2, DisplayTouchedField
  <2> QED BY <2>1 DEF zero
<1> HIDE DEF a
<1>4. Memory(b) /\ Paints(a, b)
  BY <1>3, DisplayUpdated
<1> HIDE DEF b
<1>5. Serves(drawn) /\ Rest(n, drawn)
  <2>1. CASE n.display_touched # 0
    <3>1. b.display_touched = 0 /\ b.touched = n.touched /\ Rest(a, b)
      BY <1>3, <1>4, PaintsFields DEF Rest
    <3>2. Serves(b)
      BY <1>4, <3>1 DEF Serves, AtStart, Scheduled
    <3> QED BY <1>3, <2>1, <3>1, <3>2, RestOn
  <2>2. CASE n.display_touched = 0
    BY <2>2 DEF Rest
  <2> QED BY <2>1, <2>2
<1> HIDE DEF drawn
<1>6. ASSUME NEW p, NEW q, Serves(p), Still(p, q) PROVE Serves(q) /\ Rest(p, q)
  <2>1. Nearer(p, q)
    <3>1. p.schedule_event \in Int
      BY <1>6 DEF Serves, Memory, Good, Clocked
    <3> QED BY <1>6, <3>1 DEF Still, Nearer
  <2> QED BY <1>6, <2>1, NearerServes
<1>7. Serves(c) /\ Rest(drawn, c)
  <2>1. Still(drawn, c)
    BY <1>5, StillField DEF Serves, Memory
  <2> HIDE DEF c
  <2> QED BY <1>5, <1>6, <2>1
<1> HIDE DEF c
<1>8. Serves(d) /\ Rest(c, d)
  <2>1. Still(c, d)
    BY <1>7, SetStill DEF Serves, Memory, Flag
  <2> HIDE DEF d
  <2> QED BY <1>6, <1>7, <2>1
<1> HIDE DEF d
<1>9. Serves(e) /\ Rest(d, e)
  <2>1. Still(d, e)
    BY <1>8, SetStill DEF Serves, Memory, Flag
  <2> HIDE DEF e
  <2> QED BY <1>6, <1>8, <2>1
<1> HIDE DEF e
<1> QED BY <1>1, <1>5, <1>7, <1>8, <1>9, RestOn

(***************************************************************************)
(* 7. The instructions that use the registers.                             *)
(***************************************************************************)

(* A nibble is stored in a register of so many nibbles. *)
LEMMA Powers == 16 ^ 0 = 1 /\ 16 ^ 1 = 16 /\ 16 ^ 2 = 256 /\ 16 ^ 3 = 4096 /\ 16 ^ 4 = 65536
                /\ 16 ^ 5 = 1048576 /\ 16 ^ 6 = 16777216 /\ 16 ^ 7 = 268435456
  BY SMT

Within(v, top) == v \in Int /\ 0 <= v /\ v <= top

LEMMA StoredOne == ASSUME NEW v, Within(v, 15), NEW x, Within(x, 15) PROVE Within(SetNibble(v, 0, x), 15)
  BY Powers, SMT DEF SetNibble, Within

LEMMA StoredTwo ==
  ASSUME NEW v, Within(v, 255), NEW x, Within(x, 15), NEW i \in {0, 1}
  PROVE  Within(SetNibble(v, i, x), 255)
<1>1. Within(SetNibble(v, 0, x), 255)
  BY Powers, SMT DEF SetNibble, Within
<1>2. Within(SetNibble(v, 1, x), 255)
  BY Powers, SMT DEF SetNibble, Within
<1> QED BY <1>1, <1>2

LEMMA StoredThree ==
  ASSUME NEW v, Within(v, 4095), NEW x, Within(x, 15), NEW i \in {0, 1, 2}
  PROVE  Within(SetNibble(v, i, x), 4095)
<1>1. Within(SetNibble(v, 0, x), 4095)
  BY Powers, SMT DEF SetNibble, Within
<1>2. Within(SetNibble(v, 1, x), 4095)
  BY Powers, SMT DEF SetNibble, Within
<1>3. Within(SetNibble(v, 2, x), 4095)
  BY Powers, SMT DEF SetNibble, Within
<1> QED BY <1>1, <1>2, <1>3, SMT

LEMMA StoredFour ==
  ASSUME NEW v, Within(v, 65535), NEW x, Within(x, 15), NEW i \in {0, 1, 2, 3}
  PROVE  Within(SetNibble(v, i, x), 65535)
<1>1. Within(SetNibble(v, 0, x), 65535)
  BY Powers, SMT DEF SetNibble, Within
<1>2. Within(SetNibble(v, 1, x), 65535)
  BY Powers, SMT DEF SetNibble, Within
<1>3. Within(SetNibble(v, 2, x), 65535)
  BY Powers, SMT DEF SetNibble, Within
<1>4. Within(SetNibble(v, 3, x), 65535)
  BY Powers, SMT DEF SetNibble, Within
<1> QED BY <1>1, <1>2, <1>3, <1>4, SMT

LEMMA StoredFive ==
  ASSUME NEW v, Within(v, 1048575), NEW x, Within(x, 15), NEW i \in {0, 1, 2, 3, 4}
  PROVE  Within(SetNibble(v, i, x), 1048575)
<1>1. Within(SetNibble(v, 0, x), 1048575)
  BY Powers, SMT DEF SetNibble, Within
<1>2. Within(SetNibble(v, 1, x), 1048575)
  BY Powers, SMT DEF SetNibble, Within
<1>3. Within(SetNibble(v, 2, x), 1048575)
  BY Powers, SMT DEF SetNibble, Within
<1>4. Within(SetNibble(v, 3, x), 1048575)
  BY Powers, SMT DEF SetNibble, Within
<1>5. Within(SetNibble(v, 4, x), 1048575)
  BY Powers, SMT DEF SetNibble, Within
<1> QED BY <1>1, <1>2, <1>3, <1>4, <1>5, SMT

LEMMA StoredTimer ==
  ASSUME NEW v \in Int, -2147483648 <= v, v <= 2147483647, NEW x, Within(x, 15), NEW i \in 0 .. 7
  PROVE  StoreNibble("timer2", v, i, x) \in Int /\ StoreNibble("timer2", v, i, x) <= 2147483647
<1> DEFINE S(j, y) == SetNibble(v, j, y)
           Fine(r) == r \in Int /\ r <= 2147483647
<1>1. Fine(S(0, x))
  BY Powers, SMT DEF SetNibble, Within
<1>2. Fine(S(1, x))
  BY Powers, SMT DEF SetNibble, Within
<1>3. Fine(S(2, x))
  BY Powers, SMT DEF SetNibble, Within
<1>4. Fine(S(3, x))
  BY Powers, SMT DEF SetNibble, Within
<1>5. Fine(S(4, x))
  BY Powers, SMT DEF SetNibble, Within
<1>6. Fine(S(5, x))
  BY Powers, SMT DEF SetNibble, Within
<1>7. Fine(S(6, x))
  BY Powers, SMT DEF SetNibble, Within
<1>8. x <= 7 \/ v < 0 => Fine(S(7, x))
  BY Powers, SMT DEF SetNibble, Within
<1>9. x > 7 /\ v >= 0 => Fine(S(7, x - 16))
  BY Powers, SMT DEF SetNibble, Within
<1> HIDE DEF S, Fine
<1>10. StoreNibble("timer2", v, i, x) = S(i, IF i = 7 /\ x > 7 /\ v >= 0 THEN x - 16 ELSE x)
  BY DEF StoreNibble, S
<1>11. Fine(StoreNibble("timer2", v, i, x))
  <2>1. i \in {0, 1, 2, 3, 4, 5, 6, 7} /\ x \in Int
    BY DEF Within
  <2> QED BY <1>1, <1>2, <1>3, <1>4, <1>5, <1>6, <1>7, <1>8, <1>9, <1>10, <2>1
<1> QED BY <1>11 DEF Fine

Top(name) ==
  CASE name \in TwoNibbles -> 255 [] name = "line_offset" -> 4095 [] name \in FourNibbles -> 65535
    [] name \in FiveNibbles -> 1048575 [] OTHER -> 15

LEMMA FitsWithin ==
  ASSUME NEW name \in RegisterNames \ {"timer1", "timer2"}, NEW v
  PROVE  Fits(name, v) <=> Within(v, Top(name))
<1>1. name \notin {"timer1", "timer2", "t1_tick", "t2_tick", "MP"} \cup Flag \cup Place /\ name \in Number
  BY DEF RegisterNames, Registers, Number, Flag, Place
<1>2. Fits(name, v) <=> v \in 0 .. 16 ^ Width(name) - 1
  BY <1>1, Zenon DEF Fits
<1> DEFINE w == NibblesOf(name)
           top == 16 ^ w - 1
<1>3. Width(name) = w
  BY WidthOfName
<1>4. top = Top(name) /\ top \in Int
  <2>1. CASE name \in TwoNibbles
    <3>1. w = 2 /\ Top(name) = 255
      BY <2>1 DEF NibblesOf, Top, TwoNibbles, FourNibbles, FiveNibbles
    <3> HIDE DEF w
    <3> QED BY <3>1, Powers, SMT
  <2>2. CASE name = "line_offset"
    <3>1. w = 3
      BY <2>2, Zenon DEF NibblesOf, TwoNibbles, FourNibbles, FiveNibbles
    <3>2. Top(name) = 4095
      BY <2>2, SMT DEF Top, TwoNibbles, FourNibbles, FiveNibbles
    <3> HIDE DEF w
    <3> QED BY <3>1, <3>2, Powers, SMT
  <2>3. CASE name \in FourNibbles
    <3>1. w = 4 /\ Top(name) = 65535
      BY <2>3, SMT DEF NibblesOf, Top, TwoNibbles, FourNibbles, FiveNibbles
    <3> HIDE DEF w
    <3> QED BY <3>1, Powers, SMT
  <2>4. CASE name \in FiveNibbles
    <3>1. w = 5 /\ Top(name) = 1048575
      BY <2>4, SMT DEF NibblesOf, Top, TwoNibbles, FourNibbles, FiveNibbles
    <3> HIDE DEF w
    <3> QED BY <3>1, Powers, SMT
  <2>5. CASE name \notin TwoNibbles \cup FourNibbles \cup FiveNibbles \cup {"line_offset"}
    <3>1. w = 1 /\ Top(name) = 15
      BY <2>5, SMT DEF NibblesOf, Top
    <3> HIDE DEF w
    <3> QED BY <3>1, Powers, SMT
  <2> QED BY <2>1, <2>2, <2>3, <2>4, <2>5
<1>5. v \in 0 .. 16 ^ Width(name) - 1 <=> v \in 0 .. top
  BY <1>3
<1> HIDE DEF top
<1>6. v \in 0 .. top <=> v \in Int /\ 0 <= v /\ v <= top
  BY <1>4
<1> QED BY <1>2, <1>4, <1>5, <1>6 DEF Within

LEMMA StoredFits ==
  ASSUME NEW s, IsSaturn(s), NEW r \in Registers, r[1] # "crer", NEW i \in 0 .. r[3] - 1,
         NEW val \in 0 .. 15
  PROVE  LET v == StoreNibble(r[1], s[r[1]], i, val)
         IN /\ r[1] # "timer2" => Fits(r[1], v)
            /\ r[1] = "timer2" => Fits("timer2", Late(v))
<1> DEFINE name == r[1]
           old == s[name]
           v == StoreNibble(name, old, i, val)
<1>1. name \in RegisterNames /\ name \in Names /\ r[3] = NibblesOf(name)
  <2>1. name \in RegisterNames /\ r[3] = NibblesOf(name)
    BY DEF RegisterNames, Registers, NibblesOf, TwoNibbles, FourNibbles, FiveNibbles
  <2>2. RegisterNames \subseteq AllNames
    BY DEF RegisterNames, Registers, AllNames, Single, OneByte, TwoBytes, FourBytes
  <2> QED BY <2>1, <2>2, Known
<1>2. Fits(name, old)
  BY <1>1 DEF IsSaturn
<1>3. Within(val, 15)
  BY DEF Within
<1> HIDE DEF name, old
<1>4. CASE name = "timer1"
  <2>1. v = val
    BY <1>4 DEF StoreNibble
  <2>2. val \in 0 .. 127
    OBVIOUS
  <2>3. Fits(name, v)
    BY <1>4, <2>1, <2>2, Fitting
  <2> QED BY <1>4, <2>3 DEF name, old
<1>5. CASE name = "timer2"
  <2>1. old \in -LATEST .. MaxWord32
    BY <1>2, <1>5, Fitting
  <2>2. LATEST \in Int /\ LATEST <= MaxWord32 /\ MaxWord32 \in Int
    <3>1. MaxWord32 \in Int
      BY SMT DEF MaxWord32
    <3> QED BY <3>1, SchedulerAssumption, Interval
  <2>3. old \in Int /\ -2147483648 <= old /\ old <= 2147483647
    <3>1. old \in Int /\ -LATEST <= old /\ old <= MaxWord32
      BY <2>1, <2>2
    <3> QED BY <2>2, <3>1, SMT DEF MaxWord32
  <2>4. i \in 0 .. 7
    BY <1>1, <1>5 DEF NibblesOf, TwoNibbles, FourNibbles, FiveNibbles
  <2>5. v \in Int /\ v <= 2147483647
    BY <1>3, <1>5, <2>3, <2>4, StoredTimer, SMT
  <2> HIDE DEF v
  <2>6. v \in Int /\ v <= MaxWord32
    BY <2>2, <2>5, SMT DEF MaxWord32
  <2>7. Fits("timer2", Late(v))
    BY <2>6, LateFits, Fitting
  <2> QED BY <1>5, <2>7 DEF v, name, old
<1>6. CASE name \in RegisterNames \ {"timer1", "timer2"}
  <2>1. Within(old, Top(name))
    BY <1>2, <1>6, FitsWithin
  <2>2. i # 7 /\ v = SetNibble(old, i, val)
    BY <1>1, <1>6 DEF NibblesOf, StoreNibble
  <2> HIDE DEF v
  <2>3. Within(v, Top(name))
    <3>1. CASE name \in TwoNibbles
      <4>1. Top(name) = 255 /\ i \in {0, 1}
        BY <1>1, <3>1 DEF NibblesOf, Top, TwoNibbles, FourNibbles, FiveNibbles
      <4> QED BY <1>3, <2>1, <2>2, <4>1, StoredTwo, SMT
    <3>2. CASE name = "line_offset"
      <4>1. Top(name) = 4095 /\ i \in {0, 1, 2}
        BY <1>1, <3>2, SMT DEF NibblesOf, Top, TwoNibbles, FourNibbles, FiveNibbles
      <4> QED BY <1>3, <2>1, <2>2, <4>1, StoredThree, SMT
    <3>3. CASE name \in FourNibbles
      <4>1. Top(name) = 65535 /\ i \in {0, 1, 2, 3}
        BY <1>1, <3>3, SMT DEF NibblesOf, Top, TwoNibbles, FourNibbles, FiveNibbles
      <4> QED BY <1>3, <2>1, <2>2, <4>1, StoredFour, SMT
    <3>4. CASE name \in FiveNibbles
      <4>1. Top(name) = 1048575 /\ i \in {0, 1, 2, 3, 4}
        BY <1>1, <3>4, SMT DEF NibblesOf, Top, TwoNibbles, FourNibbles, FiveNibbles
      <4> QED BY <1>3, <2>1, <2>2, <4>1, StoredFive, SMT
    <3>5. CASE name \notin TwoNibbles \cup FourNibbles \cup FiveNibbles \cup {"line_offset"}
      <4>1. Top(name) = 15 /\ i = 0
        BY <1>1, <1>6, <3>5, SMT DEF NibblesOf, Top
      <4> QED BY <1>3, <2>1, <2>2, <4>1, StoredOne
    <3> QED BY <3>1, <3>2, <3>3, <3>4, <3>5
  <2>4. Fits(name, v)
    BY <1>6, <2>3, FitsWithin
  <2> QED BY <1>6, <2>4 DEF v, name, old
<1> QED BY <1>1, <1>4, <1>5, <1>6

-----------------------------------------------------------------------------
(* A write to a register. *)

(* The fields that nothing of this depends on. *)
Outside == {"port", "line_counter", "speaker_counter", "last_state", "flipable"}

LEMMA OutsideField ==
  ASSUME NEW n, Memory(n), NEW o, DOMAIN o = DOMAIN n,
         \A f \in MemoryFields \ Outside : o[f] = n[f], o.line_counter \in Int
  PROVE  /\ Memory(o)
         /\ o.touched = n.touched /\ o.display_touched = n.display_touched
         /\ o.device_check = n.device_check /\ o.schedule_event = n.schedule_event
         /\ Serves(n) => Serves(o)
<1>1. /\ Good(n) /\ Asked(n) /\ Layouted(n) /\ Pixels(n) /\ Image(n) /\ DOMAIN n = MemoryFields
  BY DEF Memory, Good
<1>2. /\ o.saturn = n.saturn /\ o.ram = n.ram /\ o.display = n.display
      /\ o.touched = n.touched /\ o.display_touched = n.display_touched
      /\ o.device_check = n.device_check
      /\ o.drawn = n.drawn /\ o.schedule_event = n.schedule_event
      /\ o.steps = n.steps /\ o.sched = n.sched /\ o.set_t1 = n.set_t1 /\ o.t1_ticks = n.t1_ticks
      /\ o.old_line_offset = n.old_line_offset
      /\ o.disp_buf = n.disp_buf /\ o.lcd_buffer = n.lcd_buffer /\ o.buffer = n.buffer
  BY DEF MemoryFields, Outside
<1>3. Good(o) /\ Asked(o)
  BY <1>1, <1>2 DEF Good, Clocked, Asked
<1>4. Layouted(o)
  BY <1>1, <1>2, OthersKeepLayout
<1>5. Pixels(o)
  BY <1>1, <1>2 DEF Pixels
<1>6. Image(o)
  <2>1. \A a : read_nibble(o, a) = read_nibble(n, a)
    BY <1>2 DEF read_nibble
  <2> QED BY <1>1, <1>2, <2>1 DEF Image
<1>7. Memory(o)
  BY <1>3, <1>4, <1>5, <1>6 DEF Memory
<1>8. Serves(n) => Serves(o)
  BY <1>2, <1>7 DEF Serves, AtStart, Scheduled
<1> QED BY <1>2, <1>7, <1>8

(* A change of the layout that does not matter to what is drawn, or that is going
   to be drawn. *)
SameShape(d, e) ==
  /\ e.on = d.on /\ e.offset = d.offset /\ e.lines = d.lines /\ e.disp_start = d.disp_start
  /\ e.nibs_per_line = d.nibs_per_line /\ e.menu_start = d.menu_start
Redrawn(n, o) ==
  \/ o.drawn = FALSE /\ o.display_touched = DISP_INSTR_OFF
  \/ o.drawn = n.drawn /\ o.display_touched = n.display_touched /\ SameShape(n.display, o.display)
Sides(n, o) ==
  /\ DOMAIN o = DOMAIN n
  /\ \A f \in MemoryFields \ {"display", "display_touched", "drawn", "line_counter", "old_line_offset"} :
       o[f] = n[f]
  /\ o.line_counter \in {n.line_counter, -1}
  /\ Redrawn(n, o)

LEMMA RelayoutSides ==
  ASSUME NEW n, DOMAIN n = MemoryFields, NEW d, NEW offset, NEW counter \in {n.line_counter, -1}
  PROVE  /\ Sides(n, Relayout(n, d))
         /\ Sides(n, DrawLater([n EXCEPT !.display = d]))
         /\ Sides(n, Relayout([n EXCEPT !.old_line_offset = offset], d))
         /\ Sides(n, Relayout([n EXCEPT !.line_counter = counter], d))
         /\ Sides(n, [n EXCEPT !.line_counter = counter])
         /\ Sides(n, n)
         /\ SameShape(n.display, d) => Sides(n, [n EXCEPT !.display = d])
<1>1. Sides(n, DrawLater([n EXCEPT !.display = d]))
  BY DEF Sides, DrawLater, Redrawn, MemoryFields
<1>2. Sides(n, Relayout(n, d))
  <2> DEFINE e == WithEnd(d)
  <2> HIDE DEF e
  <2>1. Sides(n, DrawLater([n EXCEPT !.display = e]))
    BY DEF Sides, DrawLater, Redrawn, MemoryFields
  <2> QED BY <2>1 DEF Relayout, e
<1>3. Sides(n, Relayout([n EXCEPT !.old_line_offset = offset], d))
  <2> DEFINE e == WithEnd(d)
  <2> HIDE DEF e
  <2>1. Sides(n, DrawLater([[n EXCEPT !.old_line_offset = offset] EXCEPT !.display = e]))
    BY DEF Sides, DrawLater, Redrawn, MemoryFields
  <2> QED BY <2>1 DEF Relayout, e
<1>4. Sides(n, Relayout([n EXCEPT !.line_counter = counter], d))
  <2> DEFINE e == WithEnd(d)
  <2> HIDE DEF e
  <2>1. Sides(n, DrawLater([[n EXCEPT !.line_counter = counter] EXCEPT !.display = e]))
    BY DEF Sides, DrawLater, Redrawn, MemoryFields
  <2> QED BY <2>1 DEF Relayout, e
<1>5. Sides(n, [n EXCEPT !.line_counter = counter]) /\ Sides(n, n)
  BY DEF Sides, Redrawn, SameShape, MemoryFields
<1>6. SameShape(n.display, d) => Sides(n, [n EXCEPT !.display = d])
  BY DEF Sides, Redrawn, MemoryFields
<1> QED BY <1>1, <1>2, <1>3, <1>4, <1>5, <1>6

LEMMA SideEffectSides ==
  ASSUME NEW n, DOMAIN n = MemoryFields, LayoutFields = DOMAIN n.display,
         NEW name \in LayoutRegisters \ {"disp_io"}, NEW i, NEW val
  PROVE  Sides(n, SideEffect(n, name, i, val))
<1>1. ASSUME NEW v PROVE /\ Sides(n, [n EXCEPT !.display.contrast = v])
                         /\ Sides(n, [n EXCEPT !.display.annunc = v])
  <2>1. /\ SameShape(n.display, [n.display EXCEPT !.contrast = v])
        /\ SameShape(n.display, [n.display EXCEPT !.annunc = v])
    BY DEF SameShape, LayoutFields
  <2>2. /\ [n EXCEPT !.display.contrast = v] = [n EXCEPT !.display = [n.display EXCEPT !.contrast = v]]
        /\ [n EXCEPT !.display.annunc = v] = [n EXCEPT !.display = [n.display EXCEPT !.annunc = v]]
    OBVIOUS
  <2>3. \A d : SameShape(n.display, d) => Sides(n, [n EXCEPT !.display = d])
    BY RelayoutSides
  <2> QED BY <2>1, <2>2, <2>3
<1>2. Sides(n, n)
  BY RelayoutSides
<1>3. CASE name = "contrast_ctrl"
  BY <1>1, <1>3 DEF SideEffect
<1>4. CASE name = "disp_test"
  BY <1>1, <1>2, <1>4 DEF SideEffect
<1>5. CASE name = "annunc"
  BY <1>1, <1>5 DEF SideEffect
<1>6. CASE name = "disp_addr"
  <2>1. SideEffect(n, name, i, val) = DispAddrWritten(n)
    BY <1>6 DEF SideEffect
  <2>2. \A d : Sides(n, Relayout(n, d))
    BY RelayoutSides
  <2> QED BY <1>2, <2>1, <2>2 DEF DispAddrWritten
<1>7. CASE name = "line_offset"
  <2>1. SideEffect(n, name, i, val) = LineOffsetWritten(n)
    BY <1>7 DEF SideEffect
  <2>2. \A d, offset : Sides(n, Relayout([n EXCEPT !.old_line_offset = offset], d))
    BY RelayoutSides
  <2> QED BY <1>2, <2>1, <2>2 DEF LineOffsetWritten
<1>8. CASE name = "line_count"
  <2> DEFINE one == -1
  <2>1. SideEffect(n, name, i, val) = LineCountWritten(n)
    BY <1>8 DEF SideEffect
  <2>2. one \in {n.line_counter, -1}
    OBVIOUS
  <2>3. /\ \A d : Sides(n, Relayout([n EXCEPT !.line_counter = one], d))
        /\ Sides(n, [n EXCEPT !.line_counter = one])
    <3> HIDE DEF one
    <3> QED BY <2>2, RelayoutSides
  <2> DEFINE lines == n.saturn.line_count % DISP_ROWS
             d == [n.display EXCEPT !.lines = IF lines = 0 THEN DISP_ROWS - 1 ELSE lines]
  <2>4. LineCountWritten(n) = IF n.display.lines = lines THEN [n EXCEPT !.line_counter = one]
                              ELSE Relayout([n EXCEPT !.line_counter = one], d)
    BY DEF LineCountWritten
  <2> HIDE DEF d, lines, one
  <2> QED BY <2>1, <2>3, <2>4
<1>9. CASE name = "menu_addr"
  <2>1. SideEffect(n, name, i, val) = MenuAddrWritten(n)
    BY <1>9 DEF SideEffect
  <2>2. \A d : Sides(n, DrawLater([n EXCEPT !.display = d]))
    BY RelayoutSides
  <2> DEFINE start == n.saturn.menu_addr
             d == [n.display EXCEPT !.menu_start = start,
                                    !.menu_end = start + (MENU_ROWS * NIBBLES_PER_ROW)]
  <2>3. MenuAddrWritten(n) = IF n.display.menu_start = start THEN n ELSE DrawLater([n EXCEPT !.display = d])
    <3> DEFINE end == start + (MENU_ROWS * NIBBLES_PER_ROW)
    <3>1. "display" \in DOMAIN n
      BY DEF MemoryFields
    <3>2. [n EXCEPT !.display.menu_start = start, !.display.menu_end = end] = [n EXCEPT !.display = d]
      <4> HIDE DEF start
      <4> QED BY <3>1
    <3> QED BY <3>2 DEF MenuAddrWritten
  <2> HIDE DEF d, start
  <2> QED BY <1>2, <2>1, <2>2, <2>3
<1> QED BY <1>3, <1>4, <1>5, <1>6, <1>7, <1>8, <1>9 DEF LayoutRegisters

-----------------------------------------------------------------------------
(* check_devices() is called as soon as the instruction ends. *)
Prompt(n, o) == Memory(o) /\ Rest(n, o) /\ o.device_check = TRUE /\ o.schedule_event = 0

LEMMA SoonPrompt ==
  ASSUME NEW n, Memory(n)
  PROVE  LET o == CheckDevicesSoon(n)
         IN Prompt(n, o) /\ o.saturn = n.saturn /\ o.touched = n.touched /\ o.ram = n.ram
<1> DEFINE yes == TRUE
           zero == 0
           a == [n EXCEPT !.device_check = yes]
           o == [a EXCEPT !.schedule_event = zero]
<1>1. CheckDevicesSoon(n) = o
  BY DEF CheckDevicesSoon
<1>2. yes \in BOOLEAN /\ zero \in Int
  OBVIOUS
<1>3. Good(n) /\ DOMAIN n = MemoryFields
  BY DEF Memory, Good
<1>4. a.saturn = n.saturn /\ a.ram = n.ram /\ o.saturn = n.saturn /\ o.ram = n.ram /\ o.touched = n.touched
  BY <1>3 DEF MemoryFields
<1>5. o.schedule_event = zero /\ o.device_check = yes
  BY <1>3 DEF MemoryFields
<1> HIDE DEF yes, zero
<1>6. Memory(a) /\ Rest(n, a)
  BY <1>2, DeviceCheckField
<1> HIDE DEF a
<1>7. Calm(a, o)
  BY <1>2, <1>6, StillField DEF Memory
<1> HIDE DEF o
<1>8. Memory(o) /\ Rest(n, o)
  BY <1>6, <1>7, StillRest, RestOn
<1> QED BY <1>1, <1>4, <1>5, <1>8 DEF Prompt, yes, zero

LEMMA StillPrompt == ASSUME NEW n, NEW o, NEW q, Prompt(n, o), Still(o, q) PROVE Prompt(n, q)
<1>1. Memory(o) /\ Rest(n, o) /\ o.device_check = TRUE /\ o.schedule_event = 0
  BY DEF Prompt
<1>2. Calm(o, q) /\ q.schedule_event = o.schedule_event
  BY DEF Still
<1>3. Memory(q) /\ Rest(o, q) /\ q.device_check = o.device_check
  BY <1>1, <1>2, StillRest
<1> QED BY <1>1, <1>2, <1>3, RestOn DEF Prompt

LEMMA TouchPrompt ==
  ASSUME NEW n, NEW o, Prompt(n, o), NEW v, v \subseteq Requests
  PROVE  Prompt(n, [o EXCEPT !.touched = v])
<1> DEFINE q == [o EXCEPT !.touched = v]
<1>1. Memory(o) /\ Rest(n, o) /\ o.device_check = TRUE /\ o.schedule_event = 0
  BY DEF Prompt
<1>2. /\ Memory(q) /\ Rest(o, q) /\ q.device_check = o.device_check
      /\ q.schedule_event = o.schedule_event
  <2>1. Memory(o) /\ v \subseteq Requests
    BY <1>1
  <2> QED BY ONLY <2>1, TouchedField DEF q
<1> HIDE DEF q
<1>3. Prompt(n, q)
  BY <1>1, <1>2, RestOn DEF Prompt
<1> QED BY <1>3 DEF q

LEMMA RequestsOf == ASSUME NEW name PROVE RequestOf(name) \subseteq Requests
  BY DEF RequestOf, Requests

(* A register is stored, and then the layout is changed. *)
Wrote(n, w) ==
  /\ DOMAIN w = DOMAIN n
  /\ \A f \in MemoryFields \ {"saturn", "touched"} : w[f] = n[f]
  /\ IsSaturn(w.saturn) /\ w.touched \subseteq Requests

LEMMA SidesPrompt ==
  ASSUME NEW n, NEW soon, Prompt(n, soon), NEW w, Wrote(soon, w), NEW o, Sides(w, o), Layouted(o)
  PROVE  Prompt(n, o)
<1>1. /\ Good(soon) /\ Asked(soon) /\ Pixels(soon) /\ Image(soon) /\ DOMAIN soon = MemoryFields
      /\ Rest(n, soon) /\ soon.device_check = TRUE /\ soon.schedule_event = 0
  BY DEF Prompt, Memory, Good
<1>2. /\ w.device_check = soon.device_check /\ w.schedule_event = soon.schedule_event
      /\ w.ram = soon.ram /\ w.port = soon.port /\ w.speaker_counter = soon.speaker_counter
      /\ w.steps = soon.steps /\ w.sched = soon.sched /\ w.set_t1 = soon.set_t1
      /\ w.t1_ticks = soon.t1_ticks /\ w.line_counter = soon.line_counter
      /\ w.disp_buf = soon.disp_buf /\ w.lcd_buffer = soon.lcd_buffer /\ w.buffer = soon.buffer
      /\ w.display = soon.display /\ w.display_touched = soon.display_touched
      /\ w.drawn = soon.drawn
      /\ DOMAIN w = MemoryFields /\ IsSaturn(w.saturn) /\ w.touched \subseteq Requests
  BY <1>1 DEF Wrote, MemoryFields
<1>3. /\ o.device_check = w.device_check /\ o.schedule_event = w.schedule_event
      /\ o.ram = w.ram /\ o.port = w.port /\ o.speaker_counter = w.speaker_counter
      /\ o.steps = w.steps /\ o.sched = w.sched /\ o.set_t1 = w.set_t1
      /\ o.t1_ticks = w.t1_ticks /\ o.saturn = w.saturn /\ o.touched = w.touched
      /\ o.disp_buf = w.disp_buf /\ o.lcd_buffer = w.lcd_buffer /\ o.buffer = w.buffer
      /\ DOMAIN o = DOMAIN w /\ o.line_counter \in {w.line_counter, -1}
      /\ Redrawn(w, o)
  BY DEF Sides, MemoryFields
<1>4. Good(o)
  BY <1>1, <1>2, <1>3 DEF Good, Clocked
<1>5. Asked(o)
  <2>1. o.display_touched \in 0 .. DISP_INSTR_OFF
    BY <1>1, <1>2, <1>3, IoAssumption DEF Redrawn, Asked
  <2>2. o.line_counter \in Int
    BY <1>1, <1>2, <1>3 DEF Asked
  <2> QED BY <1>1, <1>2, <1>3, <2>1, <2>2 DEF Asked
<1>6. Pixels(o)
  BY <1>1, <1>2, <1>3 DEF Pixels
<1>7. Image(o)
  <2>1. CASE o.drawn = FALSE
    BY <2>1 DEF Image
  <2>2. CASE o.drawn # FALSE
    <3>1. /\ o.drawn = soon.drawn /\ o.display_touched = soon.display_touched
          /\ SameShape(soon.display, o.display)
      BY <1>2, <1>3, <2>2 DEF Redrawn
    <3>2. Shown(o.display) = Shown(soon.display)
      BY <3>1 DEF SameShape, Shown, RowLength
    <3>3. \A row : RowAddress(o.display, row) = RowAddress(soon.display, row)
      BY <3>1 DEF SameShape, RowAddress
    <3>4. \A a : read_nibble(o, a) = read_nibble(soon, a)
      BY <1>2, <1>3 DEF read_nibble
    <3>5. o.display.on = soon.display.on /\ o.disp_buf = soon.disp_buf
      BY <1>2, <1>3, <3>1 DEF SameShape
    <3>6. ASSUME o.drawn, o.display.on, NEW p \in Shown(o.display)
          PROVE  o.disp_buf[p] = read_nibble(o, RowAddress(o.display, p[1]) + p[2])
      <4>1. p \in Shown(soon.display) /\ soon.drawn /\ soon.display.on
        BY <3>1, <3>2, <3>5, <3>6
      <4>2. soon.disp_buf[p] = read_nibble(soon, RowAddress(soon.display, p[1]) + p[2])
        BY <1>1, <4>1 DEF Image
      <4>3. read_nibble(o, RowAddress(o.display, p[1]) + p[2])
              = read_nibble(soon, RowAddress(soon.display, p[1]) + p[2])
        BY <3>3, <3>4
      <4> QED BY <3>5, <4>2, <4>3
    <3>7. soon.drawn => soon.display_touched = 0
      BY <1>1 DEF Image
    <3> QED BY <3>1, <3>6, <3>7 DEF Image
  <2> QED BY <2>1, <2>2
<1> QED BY <1>1, <1>2, <1>3, <1>4, <1>5, <1>6, <1>7 DEF Prompt, Memory, Rest

(* A nibble of register r is stored in the registers s: t are the registers then. *)
LEMMA StoredSaturn ==
  ASSUME NEW s, IsSaturn(s), NEW r \in Registers, r[1] # "crer", NEW i \in 0 .. r[3] - 1,
         NEW val \in 0 .. 15
  PROVE  LET v == StoreNibble(r[1], s[r[1]], i, val)
         IN /\ r[1] # "timer2" => IsSaturn([s EXCEPT ![r[1]] = v])
            /\ r[1] = "timer2" => IsSaturn([s EXCEPT !["timer2"] = Late(v)])
            /\ r[1] \notin LayoutRegisters \cup {"timer2"} => Other(s, [s EXCEPT ![r[1]] = v])
            /\ r[1] = "timer2" => Other(s, [s EXCEPT !["timer2"] = Late(v)])
<1> DEFINE name == r[1]
           v == StoreNibble(name, s[name], i, val)
<1>1. name \in AllNames /\ DOMAIN s = AllNames
  <2>1. name \in RegisterNames
    BY DEF RegisterNames
  <2>2. RegisterNames \subseteq AllNames
    BY DEF RegisterNames, Registers, AllNames, Single, OneByte, TwoBytes, FourBytes
  <2> QED BY <2>1, <2>2, SaturnValues
<1>2. /\ name # "timer2" => Fits(name, v)
      /\ name = "timer2" => Fits("timer2", Late(v))
  BY StoredFits
<1>3. "timer2" \notin LayoutRegisters
  BY DEF LayoutRegisters
<1> HIDE DEF v, name
<1>4. name # "timer2" => IsSaturn([s EXCEPT ![name] = v])
  BY <1>1, <1>2, SaturnUpdate
<1>5. name = "timer2" => IsSaturn([s EXCEPT !["timer2"] = Late(v)])
  <2> DEFINE l == Late(v)
  <2> HIDE DEF l
  <2>1. name = "timer2" => IsSaturn([s EXCEPT !["timer2"] = l])
    <3>1. name = "timer2" => Fits("timer2", l) /\ "timer2" \in AllNames
      BY <1>1, <1>2 DEF l
    <3> QED BY <3>1, SaturnUpdate
  <2> QED BY <2>1 DEF l
<1>6. name \notin LayoutRegisters \cup {"timer2"} => Other(s, [s EXCEPT ![name] = v])
  BY <1>1, <1>4 DEF Other
<1>7. name = "timer2" => Other(s, [s EXCEPT !["timer2"] = Late(v)])
  BY <1>1, <1>3, <1>5 DEF Other
<1> QED BY <1>4, <1>5, <1>6, <1>7 DEF name, v

(* tcs has its bit 0 set. *)
LEMMA Bit0 == \A v \in 0 .. 15 : ~Bit(v, 0) => v + 1 \in 0 .. 15
<1> SUFFICES ASSUME NEW v \in 0 .. 15, ~Bit(v, 0) PROVE v + 1 \in 0 .. 15
  OBVIOUS
<1>1. 2 ^ 0 = 1
  OBVIOUS
<1>2. (v \div 1) % 2 # 1
  BY <1>1 DEF Bit
<1>3. v # 15
  BY <1>2
<1> QED BY <1>3

LEMMA OtherWritten ==
  ASSUME NEW n, NEW w, Prompt(n, w), NEW name, name \notin LayoutRegisters, NEW i, NEW val
  PROVE  Prompt(n, SideEffect(w, name, i, val))
<1>1. Memory(w) /\ Good(w)
  BY DEF Prompt, Memory
<1>2. CASE name = "card_ctrl"
  <2> DEFINE one == 1
             a == [w EXCEPT !.saturn["MP"] = one]
             mp == IF Bit(val, 1) THEN a ELSE w
  <2>1. SideEffect(w, name, i, val) = IF Bit(val, 0) THEN do_interupt(mp) ELSE mp
    BY <1>2 DEF SideEffect
  <2>2. one \in {0, 1}
    OBVIOUS
  <2> HIDE DEF one
  <2>3. Prompt(n, a)
    BY <1>1, <2>2, SetStill, StillPrompt
  <2>4. Prompt(n, mp)
    BY <2>3
  <2> HIDE DEF mp
  <2>5. Prompt(n, do_interupt(mp))
    BY <2>4, InterruptStill, StillPrompt DEF Prompt, Memory
  <2> QED BY <2>1, <2>4, <2>5
<1>3. CASE name = "tbr"
  <2> DEFINE v == IF Bit(w.saturn.tcs, 0) THEN w.saturn.tcs ELSE w.saturn.tcs + 1
             o == [w EXCEPT !.saturn["tcs"] = v]
  <2>1. SideEffect(w, name, i, val) = o
    BY <1>3 DEF SideEffect
  <2>2. v \in 0 .. 15
    BY <1>1, SaturnValues, Bit0 DEF Good
  <2> HIDE DEF v
  <2>3. Prompt(n, o)
    BY <1>1, <2>2, SetStill, StillPrompt DEF Changed
  <2> QED BY <2>1, <2>3
<1>4. CASE name \notin {"card_ctrl", "tbr"}
  <2>1. SideEffect(w, name, i, val) = w
    BY <1>4 DEF SideEffect, LayoutRegisters
  <2> QED BY <2>1
<1> QED BY <1>2, <1>3, <1>4

(* write_dev_mem(), in the terms of the lemmas. *)
WriteIs(n, addr, val) ==
  LET r == Register(addr)
      name == r[1]
      i == addr - r[2]
      soon == CheckDevicesSoon(n)
      touched == soon.touched \cup (IF name = "disp_test" /\ i = 1 THEN {} ELSE RequestOf(name))
      a == [soon EXCEPT !.saturn[name] = StoreNibble(name, soon.saturn[name], i, val)]
      w == [a EXCEPT !.touched = touched]
      rcs == (soon.saturn.rcs % 4) + (8 * (soon.saturn.rcs \div 8))
      o == write_dev_mem(n, addr, val)
  IN /\ name = "disp_io" => o = WriteDispIo(soon, val)
     /\ name \in {"card_status", "rbr"} => o = soon
     /\ name = "crer" => o = [soon EXCEPT !.saturn["rcs"] = rcs]
     /\ name \notin {"disp_io", "card_status", "rbr", "crer"} => o = SideEffect(w, name, i, val)

LEMMA WriteCases ==
  ASSUME NEW n, Memory(n), NEW addr, NEW val
  PROVE  WriteIs(n, addr, val)
<1> DEFINE r == Register(addr)
           name == r[1]
           i == addr - r[2]
           soon == CheckDevicesSoon(n)
           more == IF name = "disp_test" /\ i = 1 THEN {} ELSE RequestOf(name)
           a == [soon EXCEPT !.saturn[name] = StoreNibble(name, soon.saturn[name], i, val)]
           w == [a EXCEPT !.touched = soon.touched \cup more]
           crer == [soon EXCEPT !.saturn["rcs"] = (soon.saturn.rcs % 4) + (8 * (soon.saturn.rcs \div 8))]
           o == write_dev_mem(n, addr, val)
<1>1. DOMAIN soon = MemoryFields
  <2>1. Prompt(n, soon)
    BY SoonPrompt
  <2> HIDE DEF soon
  <2> QED BY <2>1 DEF Prompt, Memory, Good
<1>2. o = CASE name = "disp_io" -> WriteDispIo(soon, val)
            [] name \in {"card_status", "rbr"} -> soon
            [] name = "crer" -> [soon EXCEPT !.saturn.rcs = (@ % 4) + (8 * (@ \div 8))]
            [] OTHER -> SideEffect([soon EXCEPT !.saturn[name] = StoreNibble(name, @, i, val),
                                                !.touched = @ \cup more], name, i, val)
  BY DEF write_dev_mem
<1> HIDE DEF soon, o, name, i, more
<1>3. [soon EXCEPT !.saturn[name] = StoreNibble(name, @, i, val), !.touched = @ \cup more] = w
  BY <1>1 DEF MemoryFields
<1>4. [soon EXCEPT !.saturn.rcs = (@ % 4) + (8 * (@ \div 8))] = crer
  BY <1>1 DEF MemoryFields
<1> HIDE DEF w, crer
<1>5. /\ name = "disp_io" => o = WriteDispIo(soon, val)
      /\ name \in {"card_status", "rbr"} => o = soon
      /\ name = "crer" => o = crer
      /\ name \notin {"disp_io", "card_status", "rbr", "crer"} => o = SideEffect(w, name, i, val)
  BY <1>2, <1>3, <1>4
<1> QED BY <1>5 DEF o, soon, name, i, more, w, crer, WriteIs

LEMMA LatePrompt ==
  ASSUME NEW n, NEW o, Prompt(n, o)
  PROVE  Prompt(n, [o EXCEPT !.saturn.timer2 = Late(@)])
<1> DEFINE v == Late(o.saturn.timer2)
           q == [o EXCEPT !.saturn["timer2"] = v]
<1>1. Good(o)
  BY DEF Prompt, Memory
<1>2. v \in -LATEST .. MaxWord32
  <2>1. o.saturn.timer2 \in -LATEST .. MaxWord32
    BY <1>1, SaturnValues DEF Good
  <2>2. MaxWord32 \in Int /\ LATEST \in Int
    <3>1. MaxWord32 \in Int
      BY DEF MaxWord32
    <3> QED BY <3>1, SchedulerAssumption
  <2> HIDE DEF v
  <2>3. v \in -LATEST .. MaxWord32
    <3>1. o.saturn.timer2 \in Int /\ o.saturn.timer2 <= MaxWord32
      BY <2>1, <2>2
    <3> QED BY <3>1, LateFits DEF v
  <2> QED BY <2>3
<1> HIDE DEF v
<1>3. Prompt(n, q)
  BY <1>1, <1>2, SetStill, StillPrompt
<1> QED BY <1>3 DEF v

(* The control register of the serial port, with bit 2 cleared. *)
LEMMA Bit2Cleared == \A v \in 0 .. 15 : (v % 4) + (8 * (v \div 8)) \in 0 .. 15
<1> SUFFICES ASSUME NEW v \in 0 .. 15 PROVE (v % 4) + (8 * (v \div 8)) \in 0 .. 15
  OBVIOUS
<1> QED OBVIOUS

LEMMA WrotePrompt ==
  ASSUME NEW n, NEW soon, Prompt(n, soon), NEW s, IsSaturn(s), NEW v, v \subseteq Requests
  PROVE  /\ Wrote(soon, [[soon EXCEPT !.saturn = s] EXCEPT !.touched = v])
         /\ Wrote(soon, [soon EXCEPT !.saturn = s])
<1>1. DOMAIN soon = MemoryFields /\ soon.touched \subseteq Requests
  BY DEF Prompt, Memory, Good, Asked
<1> QED BY <1>1 DEF Wrote, MemoryFields

LEMMA WritePrompt ==
  ASSUME NEW n, Memory(n), NEW addr \in \h100 .. \h13f, NEW val \in 0 .. 15
  PROVE  Prompt(n, [write_dev_mem(n, addr, val) EXCEPT !.saturn.timer2 = Late(@)])
<1> DEFINE r == Register(addr)
           name == r[1]
           i == addr - r[2]
           soon == CheckDevicesSoon(n)
           touched == soon.touched \cup (IF name = "disp_test" /\ i = 1 THEN {} ELSE RequestOf(name))
           x == StoreNibble(name, soon.saturn[name], i, val)
           a == [soon EXCEPT !.saturn[name] = x]
           w == [a EXCEPT !.touched = touched]
           rcs == (soon.saturn.rcs % 4) + (8 * (soon.saturn.rcs \div 8))
           crer == [soon EXCEPT !.saturn["rcs"] = rcs]
           o == write_dev_mem(n, addr, val)
<1>1. r \in Registers /\ i \in 0 .. r[3] - 1
  <2>1. r \in Registers /\ addr \in r[2] .. r[2] + r[3] - 1
    BY RegisterFound
  <2>2. \A q \in Registers : q[2] \in Int /\ q[3] \in Int
    BY DEF Registers
  <2> HIDE DEF r
  <2> QED BY <2>1, <2>2
<1>2. /\ name = "disp_io" => o = WriteDispIo(soon, val)
      /\ name \in {"card_status", "rbr"} => o = soon
      /\ name = "crer" => o = crer
      /\ name \notin {"disp_io", "card_status", "rbr", "crer"} => o = SideEffect(w, name, i, val)
  <2>1. WriteIs(n, addr, val)
    BY WriteCases
  <2> QED BY <2>1 DEF WriteIs
<1>3. Prompt(n, soon)
  BY SoonPrompt
<1>4. Layouted(o)
  BY WriteKeepsLayout DEF Memory
<1> HIDE DEF r, soon, o
<1>5. touched \subseteq Requests
  <2>1. soon.touched \subseteq Requests
    BY <1>3 DEF Prompt, Memory, Asked
  <2> QED BY <2>1, RequestsOf
<1>6. IsSaturn(soon.saturn) /\ Good(soon) /\ DOMAIN soon = MemoryFields
  BY <1>3 DEF Prompt, Memory, Good
<1>7. r[1] # "crer" =>
        /\ name # "timer2" => IsSaturn([soon.saturn EXCEPT ![name] = x])
        /\ name = "timer2" => Other(soon.saturn, [soon.saturn EXCEPT !["timer2"] = Late(x)])
        /\ name \notin LayoutRegisters \cup {"timer2"} => Other(soon.saturn, [soon.saturn EXCEPT ![name] = x])
  BY <1>1, <1>6, StoredSaturn
<1> HIDE DEF touched, x, i
<1>8. CASE name = "timer2"
  <2> DEFINE s == [soon.saturn EXCEPT !["timer2"] = Late(x)]
             b == [soon EXCEPT !.saturn = s]
  <2>1. o = w
    BY <1>2, <1>8 DEF SideEffect
  <2>2. [w EXCEPT !.saturn.timer2 = Late(@)] = [b EXCEPT !.touched = touched]
    <3>1. "timer2" \in DOMAIN soon.saturn
      BY <1>6, SaturnValues, Known
    <3>2. w = [[soon EXCEPT !.saturn = [soon.saturn EXCEPT !["timer2"] = x]] EXCEPT !.touched = touched]
      BY <1>8
    <3>3. w.saturn = [soon.saturn EXCEPT !["timer2"] = x]
      BY <1>6, <3>2 DEF MemoryFields
    <3>4. [w EXCEPT !.saturn.timer2 = Late(@)] = [w EXCEPT !.saturn = s]
      BY <3>1, <3>3
    <3> HIDE DEF s
    <3>5. [w EXCEPT !.saturn = s] = [b EXCEPT !.touched = touched]
      BY <1>6, <3>2 DEF MemoryFields
    <3> QED BY <3>4, <3>5
  <2>3. Other(soon.saturn, s)
    BY <1>7, <1>8
  <2> HIDE DEF s
  <2>4. Prompt(n, b)
    BY <1>3, <1>6, <2>3, StillField, StillPrompt
  <2> HIDE DEF b
  <2>5. Prompt(n, [b EXCEPT !.touched = touched])
    BY <1>5, <2>4, TouchPrompt
  <2> QED BY <2>1, <2>2, <2>5 DEF o
<1>9. CASE name # "timer2"
  <2> SUFFICES Prompt(n, o)
    BY LatePrompt DEF o
  <2>1. CASE name \in {"card_status", "rbr"}
    BY <1>2, <1>3, <2>1
  <2>2. CASE name = "crer"
    <3>1. rcs \in 0 .. 15
      BY <1>6, SaturnValues, Bit2Cleared
    <3> HIDE DEF rcs
    <3>2. Prompt(n, crer)
      BY <1>3, <1>6, <3>1, SetStill, StillPrompt DEF Changed
    <3> QED BY <1>2, <2>2, <3>2
  <2>3. CASE name = "disp_io"
    <3> DEFINE s == [soon.saturn EXCEPT !.disp_io = val]
               q == [soon EXCEPT !.saturn = s]
               d == [soon.display EXCEPT !.on = Bit(val, 3), !.offset = val % 8,
                       !.nibs_per_line = NibsPerLine(val % 8, soon.saturn.line_offset)]
    <3>1. o = IF val = soon.saturn.disp_io THEN soon ELSE Relayout(q, d)
      BY <1>2, <2>3 DEF WriteDispIo
    <3>2. IsSaturn(s)
      <4>1. "disp_io" \in OneNibble
        BY DEF OneNibble, RegisterNames, Registers, TwoNibbles, FourNibbles, FiveNibbles
      <4>2. Fits("disp_io", val) /\ "disp_io" \in AllNames
        BY <4>1, Fitting, Known
      <4> QED BY <1>6, <4>2, SaturnUpdate
    <3> HIDE DEF s
    <3>3. Wrote(soon, q)
      BY <1>3, <3>2, <1>5, WrotePrompt
    <3> HIDE DEF q, d
    <3>4. Sides(q, Relayout(q, d))
      <4>1. DOMAIN q = MemoryFields
        BY <1>6, <3>3 DEF Wrote
      <4> QED BY <4>1, RelayoutSides
    <3> QED BY <1>3, <1>4, <3>1, <3>3, <3>4, SidesPrompt
  <2>4. CASE name \in LayoutRegisters \ {"disp_io"}
    <3>1. name \notin {"disp_io", "card_status", "rbr", "crer"}
      BY <2>4 DEF LayoutRegisters
    <3> DEFINE s == [soon.saturn EXCEPT ![name] = x]
    <3>2. IsSaturn(s) /\ w = [[soon EXCEPT !.saturn = s] EXCEPT !.touched = touched]
      BY <1>7, <1>9, <3>1
    <3> HIDE DEF s, w
    <3>3. Wrote(soon, w)
      BY <1>3, <3>2, <1>5, WrotePrompt
    <3>4. DOMAIN w = MemoryFields /\ LayoutFields = DOMAIN w.display
      <4>1. w.display = soon.display /\ DOMAIN w = MemoryFields
        BY <1>6, <3>3 DEF Wrote, MemoryFields
      <4>2. Begins(soon.display, soon.saturn)
        BY <1>3 DEF Prompt, Memory, Layouted, Follows
      <4>3. DOMAIN soon.display = LayoutFields
        BY <4>2 DEF Begins
      <4> QED BY <4>1, <4>3
    <3>5. Sides(w, SideEffect(w, name, i, val))
      BY <2>4, <3>4, SideEffectSides
    <3> QED BY <1>2, <1>3, <1>4, <3>1, <3>3, <3>5, SidesPrompt
  <2>5. CASE name \notin LayoutRegisters \cup {"card_status", "rbr", "crer"}
    <3> DEFINE s == [soon.saturn EXCEPT ![name] = x]
    <3>1. name \notin {"disp_io", "card_status", "rbr", "crer"}
      BY <2>5 DEF LayoutRegisters
    <3>2. Other(soon.saturn, s) /\ a = [soon EXCEPT !.saturn = s]
      BY <1>7, <1>9, <2>5, <3>1
    <3> HIDE DEF s, a
    <3>3. Prompt(n, a)
      BY <1>3, <1>6, <3>2, StillField, StillPrompt
    <3>4. Prompt(n, w)
      BY <1>5, <3>3, TouchPrompt
    <3> HIDE DEF w
    <3>5. Prompt(n, SideEffect(w, name, i, val))
      BY <2>5, <3>4, OtherWritten
    <3> QED BY <1>2, <3>1, <3>5
  <2> QED BY <2>1, <2>2, <2>3, <2>4, <2>5 DEF LayoutRegisters
<1> QED BY <1>8, <1>9

-----------------------------------------------------------------------------
(* A register is read. *)
LEMMA NibbleLevel == ASSUME NEW v \in Int, NEW i \in 0 .. 7 PROVE Nibble(v, i) \in Level
<1> DEFINE p == 16 ^ i
<1>1. p \in Nat \ {0}
  <2>1. i = 0 \/ i = 1 \/ i = 2 \/ i = 3 \/ i = 4 \/ i = 5 \/ i = 6 \/ i = 7
    OBVIOUS
  <2>2. /\ 16 ^ 0 \in Nat \ {0} /\ 16 ^ 1 \in Nat \ {0} /\ 16 ^ 2 \in Nat \ {0}
        /\ 16 ^ 3 \in Nat \ {0} /\ 16 ^ 4 \in Nat \ {0} /\ 16 ^ 5 \in Nat \ {0}
        /\ 16 ^ 6 \in Nat \ {0} /\ 16 ^ 7 \in Nat \ {0}
    BY Powers, SMT
  <2> QED BY <2>1, <2>2, Zenon
<1> HIDE DEF p
<1>2. v \div p \in Int
  BY <1>1, Division
<1> DEFINE q == v \div p
<1>3. q \in Int
  BY <1>2
<1> HIDE DEF q
<1>4. q % 16 \in 0 .. 15
  BY <1>3
<1> QED BY <1>4 DEF Nibble, p, q, Level

LEMMA RegisterInt ==
  ASSUME NEW s, IsSaturn(s), NEW name \in RegisterNames
  PROVE  s[name] \in Int
<1>1. name \in Names
  <2>1. RegisterNames \subseteq AllNames
    BY DEF RegisterNames, Registers, AllNames, Single, OneByte, TwoBytes, FourBytes
  <2> QED BY <2>1, Known
<1>2. Fits(name, s[name])
  BY <1>1 DEF IsSaturn
<1>3. CASE name = "timer1"
  BY <1>3, SaturnValues
<1>4. CASE name = "timer2"
  <2>1. MaxWord32 \in Int
    BY DEF MaxWord32
  <2>2. LATEST \in Int
    BY <2>1, SchedulerAssumption
  <2> QED BY <1>4, <2>1, <2>2, SaturnValues
<1>5. CASE name \in RegisterNames \ {"timer1", "timer2"}
  BY <1>2, <1>5, FitsWithin DEF Within
<1> QED BY <1>3, <1>4, <1>5

(* What an instruction leaves behind, and what it may have changed of the rest. *)
Leaves(n, o) == Memory(o) /\ Attended(o) /\ Rest(n, o)

LEMMA PromptLeaves == ASSUME NEW n, NEW o, Prompt(n, o) PROVE Leaves(n, o)
<1>1. o.device_check /\ o.schedule_event <= 0
  BY DEF Prompt
<1> QED BY <1>1 DEF Prompt, Leaves, Attended

LEMMA ServesLeaves == ASSUME NEW n, Serves(n) PROVE Leaves(n, n)
  BY DEF Serves, Leaves, Attended, Rest

LEMMA ReadLeaves ==
  ASSUME NEW n, Serves(n), NEW addr \in \h100 .. \h13f
  PROVE  LET r == read_dev_mem(n, addr) IN Leaves(n, r.memory) /\ r.nibble \in Level
<1> DEFINE reg == Register(addr)
           name == reg[1]
           i == addr - reg[2]
           r == read_dev_mem(n, addr)
           zero == 0
           counter == IF n.line_counter + 1 > DISP_ROWS - 1 THEN -1 ELSE n.line_counter + 1
           lines == ((n.saturn.line_count \div DISP_ROWS) * DISP_ROWS) + (counter % DISP_ROWS)
           soon == CheckDevicesSoon(n)
           rbr == [soon EXCEPT !.saturn.rcs = (@ \div 2) * 2, !.touched = @ \cup {"rbr"}]
           counted == [n EXCEPT !.line_counter = counter]
<1>1. /\ reg \in Registers /\ i \in 0 .. 7
      /\ name # "crer" => name \in RegisterNames
  <2>1. reg \in Registers /\ addr \in reg[2] .. reg[2] + reg[3] - 1
    BY RegisterFound
  <2>2. \A q \in Registers : q[2] \in Int /\ q[3] \in Int /\ q[3] <= 8
    BY DEF Registers
  <2> HIDE DEF reg
  <2> QED BY <2>1, <2>2 DEF RegisterNames
<1>2. r = CASE name \in {"crer", "tbr"} -> [nibble |-> 0, memory |-> n]
            [] name = "rbr" -> [nibble |-> Nibble(n.saturn.rbr, i), memory |-> rbr]
            [] name = "line_count" -> [nibble |-> Nibble(lines, i), memory |-> counted]
            [] OTHER -> [nibble |-> Nibble(n.saturn[name], i), memory |-> n]
  BY DEF read_dev_mem
<1>3. Memory(n) /\ Good(n) /\ IsSaturn(n.saturn) /\ n.line_counter \in Int
  BY DEF Serves, Memory, Good, Asked
<1>4. Leaves(n, n)
  BY ServesLeaves
<1>5. DISP_ROWS \in Nat \ {0}
  BY IoAssumption
<1>6. Leaves(n, rbr)
  <2> DEFINE v == (soon.saturn.rcs \div 2) * 2
             a == [soon EXCEPT !.saturn["rcs"] = v]
             t == soon.touched \cup {"rbr"}
             b == [a EXCEPT !.touched = t]
  <2>1. Prompt(n, soon)
    BY <1>3, SoonPrompt
  <2> HIDE DEF soon
  <2>2. Good(soon) /\ t \subseteq Requests
    BY <2>1 DEF Prompt, Memory, Asked, Requests
  <2>3. rbr = b
    BY <2>2 DEF Good, MemoryFields
  <2>4. v \in 0 .. 15
    <3>1. \A x \in 0 .. 15 : (x \div 2) * 2 \in 0 .. 15
      OBVIOUS
    <3> QED BY <2>2, <3>1, SaturnValues DEF Good
  <2> HIDE DEF v, t
  <2>5. Prompt(n, a)
    BY <2>1, <2>2, <2>4, SetStill, StillPrompt DEF Changed
  <2> HIDE DEF a
  <2>6. Prompt(n, b)
    BY <2>2, <2>5, TouchPrompt
  <2> QED BY <2>3, <2>6, PromptLeaves
<1>7. counter \in Int
  BY <1>3, <1>5
<1>8. lines \in Int
  <2> DEFINE x == n.saturn.line_count
             y == x \div DISP_ROWS
             z == counter % DISP_ROWS
  <2>1. "line_count" \in RegisterNames
    BY DEF RegisterNames, Registers
  <2>2. x \in Int
    BY <1>3, <2>1, RegisterInt
  <2> HIDE DEF x, counter
  <2>3. y \in Int /\ z \in Int
    BY <1>5, <1>7, <2>2, Division
  <2> HIDE DEF y, z
  <2>4. (y * DISP_ROWS) + z \in Int
    BY <1>5, <2>3
  <2> QED BY <2>4 DEF y, z, x
<1> HIDE DEF counter, lines, rbr
<1>9. Leaves(n, counted)
  <2>1. DOMAIN counted = DOMAIN n /\ counted.line_counter \in Int
        /\ (\A f \in MemoryFields \ Outside : counted[f] = n[f])
        /\ counted.port = n.port /\ counted.speaker_counter = n.speaker_counter
    BY <1>3, <1>7 DEF Good, MemoryFields, Outside
  <2> HIDE DEF counted
  <2>2. Serves(counted)
    BY <1>3, <2>1, OutsideField DEF Serves
  <2> QED BY <2>1, <2>2, ServesLeaves DEF Leaves, Rest
<1>10. Nibble(lines, i) \in Level /\ (name # "crer" => Nibble(n.saturn[name], i) \in Level)
  BY <1>1, <1>3, <1>8, NibbleLevel, RegisterInt
<1>11. 0 \in Level
  BY DEF Level
<1> HIDE DEF r, counted, i, name
<1>12. CASE name \in {"crer", "tbr"}
  <2>1. r = [nibble |-> 0, memory |-> n]
    BY <1>2, <1>12
  <2> QED BY <1>4, <1>11, <2>1 DEF r
<1>13. CASE name = "rbr"
  <2>1. r = [nibble |-> Nibble(n.saturn.rbr, i), memory |-> rbr]
    BY <1>2, <1>13
  <2>2. Nibble(n.saturn.rbr, i) \in Level
    BY <1>10, <1>13
  <2> QED BY <1>6, <2>1, <2>2 DEF r
<1>14. CASE name = "line_count"
  <2>1. r = [nibble |-> Nibble(lines, i), memory |-> counted]
    BY <1>2, <1>14
  <2> QED BY <1>9, <1>10, <2>1 DEF r
<1>15. CASE name \notin {"crer", "tbr", "rbr", "line_count"}
  <2>1. r = [nibble |-> Nibble(n.saturn[name], i), memory |-> n]
    BY <1>2, <1>15
  <2> QED BY <1>4, <1>10, <1>15, <2>1 DEF r
<1> QED BY <1>12, <1>13, <1>14, <1>15

-----------------------------------------------------------------------------
(* What an operation does. *)
LEMMA StoresLeaves ==
  ASSUME NEW n, NEW q, Leaves(n, q), NEW o, Stores(q, o), Memory(o)
  PROVE  Leaves(n, o)
<1>1. Good(q) /\ Asked(q) /\ Layouted(q) /\ Rest(n, q) /\ Attended(q)
  BY DEF Leaves, Memory
<1>2. /\ o.port = q.port /\ o.touched = q.touched /\ o.display_touched = q.display_touched
      /\ o.device_check = q.device_check /\ o.schedule_event = q.schedule_event
      /\ o.speaker_counter = q.speaker_counter
  BY <1>1, StoresKeeps
<1> QED BY <1>1, <1>2 DEF Leaves, Rest, Attended, AtStart, Scheduled

LEMMA CalmServes ==
  ASSUME NEW n, Serves(n), NEW o, Calm(n, o), o.schedule_event \in {n.schedule_event, 0}
  PROVE  Serves(o) /\ Rest(n, o)
<1>1. Memory(n)
  BY DEF Serves
<1>2. /\ Memory(o) /\ Rest(n, o) /\ o.touched = n.touched
      /\ o.display_touched = n.display_touched /\ o.device_check = n.device_check
  BY <1>1, StillRest
<1> QED BY <1>2 DEF Serves, AtStart, Scheduled

LEMMA CardServes ==
  ASSUME NEW n, Serves(n), NEW port
  PROVE  Serves([n EXCEPT !.port = port])
<1> DEFINE o == [n EXCEPT !.port = port]
<1>1. Memory(n) /\ Good(n) /\ n.line_counter \in Int
  BY DEF Serves, Memory, Asked
<1>2. DOMAIN o = DOMAIN n /\ o.line_counter \in Int /\ (\A f \in MemoryFields \ Outside : o[f] = n[f])
  BY <1>1 DEF Good, MemoryFields, Outside
<1> HIDE DEF o
<1>3. Serves(o)
  BY <1>1, <1>2, OutsideField
<1> QED BY <1>3 DEF o

LEMMA EffectLeaves ==
  ASSUME NEW n, Serves(n), NEW o, IsOperation(o), Possible(n, o)
  PROVE  LET e == Effect(n, o)
         IN /\ Memory(e) /\ Attended(e) /\ e.speaker_counter = n.speaker_counter
            /\ o.op # "card" => e.port = n.port
            /\ o.op = "card" => e.port = [n.port EXCEPT ![o.port].data = o.val]
<1> DEFINE e == Effect(n, o)
<1>1. Memory(n) /\ Good(n)
  BY DEF Serves, Memory
<1>2. CASE o.op = "write"
  <2>1. e = [write_dev_mem(n, o.addr, o.val) EXCEPT !.saturn.timer2 = Late(@)]
    BY <1>2 DEF Effect
  <2>2. o.addr \in \h100 .. \h13f /\ o.val \in 0 .. 15
    BY <1>2 DEF IsOperation
  <2> HIDE DEF e
  <2>3. Leaves(n, e)
    BY <1>1, <2>1, <2>2, WritePrompt, PromptLeaves
  <2> QED BY <1>2, <2>3 DEF Leaves, Rest, e
<1>3. CASE o.op = "poll"
  <2> DEFINE r == read_dev_mem(n, o.addr)
             q == r.memory
             v == r.nibble
  <2>1. e = write_nibble(q, o.to, v)
    BY <1>3 DEF Effect
  <2>2. o.addr \in \h100 .. \h13f /\ o.to \in RAM
    BY <1>3 DEF IsOperation
  <2>3. Leaves(n, q) /\ v \in Level
    BY <2>2, ReadLeaves
  <2> HIDE DEF e, r, q, v
  <2>4. Stores(q, e) /\ Memory(e)
    BY <2>1, <2>2, <2>3, NibbleWritten DEF Leaves
  <2>5. Leaves(n, e)
    BY <2>3, <2>4, StoresLeaves
  <2> QED BY <1>3, <2>5 DEF Leaves, Rest, e
<1>4. CASE o.op = "store"
  <2>1. e = write_nibble(n, o.to, o.val)
    BY <1>4 DEF Effect
  <2>2. o.val \in Level /\ o.to \in RAM
    BY <1>4 DEF IsOperation, Level
  <2> HIDE DEF e
  <2>3. Stores(n, e) /\ Memory(e)
    BY <1>1, <2>1, <2>2, NibbleWritten
  <2>4. Leaves(n, e)
    BY <2>3, StoresLeaves, ServesLeaves
  <2> QED BY <1>4, <2>4 DEF Leaves, Rest, e
<1>5. CASE o.op = "card"
  <2> DEFINE p == [n.port EXCEPT ![o.port].data = o.val]
  <2>1. e = [n EXCEPT !.port = p]
    BY <1>5 DEF Effect
  <2>2. e.port = p /\ e.speaker_counter = n.speaker_counter
    BY <1>1, <2>1 DEF Good, MemoryFields
  <2> HIDE DEF e, p
  <2>3. Serves(e)
    BY <2>1, CardServes
  <2>4. Memory(e) /\ Attended(e)
    BY <2>3 DEF Serves, Attended
  <2> QED BY <1>5, <2>2, <2>4 DEF e, p
<1>6. CASE o.op = "service"
  <2> DEFINE service == "service"
             q == [n EXCEPT !.saturn["PC"] = service]
  <2>1. e = q
    BY <1>6 DEF Effect
  <2>2. service \in {"main", "handler", "service"}
    OBVIOUS
  <2> HIDE DEF service
  <2>3. Still(n, q)
    BY <1>1, <2>2, SetStill DEF Place
  <2> HIDE DEF q, e
  <2>4. Serves(e) /\ Rest(n, e)
    BY <2>1, <2>3, CalmServes DEF Still
  <2> QED BY <1>6, <2>4 DEF Serves, Attended, Rest, e
<1>7. CASE o.op = "rti"
  <2>1. e = Return(n)
    BY <1>7 DEF Effect
  <2> HIDE DEF e
  <2>2. Serves(e) /\ Rest(n, e)
    BY <1>1, <2>1, ReturnCalm, CalmServes
  <2> QED BY <1>7, <2>2 DEF Serves, Attended, Rest, e
<1>8. CASE o.op \notin {"write", "poll", "store", "card", "service", "rti"}
  <2>1. e = n
    BY <1>8 DEF Effect
  <2> HIDE DEF e
  <2> QED BY <1>8, <2>1, ServesLeaves DEF Leaves, Rest, e
<1> QED BY <1>2, <1>3, <1>4, <1>5, <1>6, <1>7, <1>8

(* An instruction. *)
LEMMA ExecuteServes ==
  ASSUME NEW n, Serves(n), NEW o, IsOperation(o), Possible(n, o),
         NEW period, IsPeriod(period), NEW env, IsHost(env)
  PROVE  LET q == AfterInstruction(Effect(n, o), period, env)
         IN /\ Serves(q) /\ q.speaker_counter = n.speaker_counter
            /\ o.op # "card" => q.port = n.port
            /\ o.op = "card" => q.port = [n.port EXCEPT ![o.port].data = o.val]
<1> DEFINE e == Effect(n, o)
           q == AfterInstruction(e, period, env)
<1>1. /\ Memory(e) /\ Attended(e) /\ e.speaker_counter = n.speaker_counter
      /\ o.op # "card" => e.port = n.port
      /\ o.op = "card" => e.port = [n.port EXCEPT ![o.port].data = o.val]
  BY EffectLeaves
<1> HIDE DEF e
<1>2. Serves(q) /\ Rest(e, q)
  BY <1>1, InstructionServes
<1> HIDE DEF q
<1> QED BY <1>1, <1>2 DEF Rest, q, e

(***************************************************************************)
(* 8. A start from the files, and the saving of them.                      *)
(***************************************************************************)

(* The start: the registers of a fresh calculator, and those of the file. *)
LEMMA FreshFits ==
  ASSUME NEW name \in AllNames
  PROVE  Fits(name, FreshValue(FieldOf(name)))
<1> DEFINE f == FieldOf(name)
           v == FreshValue(f)
<1> SUFFICES Fits(name, v)
  OBVIOUS
<1>1. f = Entry(name)
  BY FieldOfName
<1>2. f[1] = name
  BY <1>1 DEF Entry
<1> HIDE DEF f
<1> DEFINE timers == [t1_tick |-> 8192, t2_tick |-> 16, timer2 |-> 8192]
<1>3. /\ name \in Flag => v = (name = "intenable")
      /\ name \in Place => v = "main"
      /\ name \in DOMAIN timers => v = timers[name]
      /\ name \in Number \ DOMAIN timers => v = 0
      /\ name \notin Number \cup Flag \cup Place =>
           v = [i \in 1 .. Size(f) |-> IF name = "kbd_ien" THEN 1 ELSE 0]
  <2>1. v = CASE name \in Flag -> name = "intenable"
              [] name \in Place -> "main"
              [] name \in DOMAIN timers -> timers[name]
              [] name \in Number \ DOMAIN timers -> 0
              [] OTHER -> [i \in 1 .. Size(f) |-> IF name = "kbd_ien" THEN 1 ELSE 0]
    BY <1>2 DEF FreshValue
  <2>2. /\ name \in Flag => name \notin Place \cup Number \cup DOMAIN timers
        /\ name \in Place => name \notin Flag \cup Number \cup DOMAIN timers
        /\ name \in DOMAIN timers => name \in Number
    BY DEF Flag, Place, Number
  <2> HIDE DEF v, timers
  <2> QED BY <2>1, <2>2
<1>0. DOMAIN timers = {"t1_tick", "t2_tick", "timer2"}
      /\ timers.t1_tick = 8192 /\ timers.t2_tick = 16 /\ timers.timer2 = 8192
  BY SMT
<1> HIDE DEF v, timers
<1>4. CASE name \in Flag
  <2>1. v \in BOOLEAN
    BY <1>3, <1>4
  <2> QED BY <1>4, <2>1, Fitting
<1>5. CASE name \in Place
  <2>1. v = "main"
    BY <1>3, <1>5
  <2>2. v \in {"main", "handler", "service"}
    BY <2>1
  <2> QED BY <1>5, <2>2, Fitting
<1>6. CASE name \in {"t1_tick", "t2_tick"}
  <2>1. v = 8192 \/ v = 16
    BY <1>0, <1>3, <1>6, SMT
  <2>2. v \in Int /\ -32768 <= v /\ v <= 32767
    BY <2>1, SMT
  <2>3. v \in Short
    BY <2>2, ShortRange
  <2> QED BY <1>6, <2>3, Fitting
<1>7. CASE name = "timer2"
  <2>1. v = 8192
    BY <1>0, <1>3, <1>7, SMT
  <2>2. MaxWord32 \in Int /\ v \in Int /\ 0 <= v /\ v <= MaxWord32
    BY <2>1, SMT DEF MaxWord32
  <2>3. LATEST \in Nat
    BY <2>2, SchedulerAssumption
  <2>4. v \in -LATEST .. MaxWord32
    BY <2>2, <2>3
  <2> QED BY <1>7, <2>4, Fitting
<1>8. CASE name \in Number \ {"t1_tick", "t2_tick", "timer2"}
  <2>1. v = 0
    <3>1. name \in Number \ DOMAIN timers
      BY ONLY <1>0, <1>8
    <3> QED BY <1>3, <3>1
  <2>2. CASE name \in {"timer1", "MP"}
    <3>1. v \in 0 .. 127 /\ v \in {0, 1}
      BY <2>1
    <3> QED BY <2>2, <3>1, Fitting
  <2>3. CASE name \in RegisterNames \ {"timer1", "timer2"}
    <3>1. Within(v, Top(name))
      BY <2>1, SMT DEF Within, Top
    <3> QED BY <2>3, <3>1, FitsWithin
  <2>4. name \in {"timer1", "MP"} \cup (RegisterNames \ {"timer1", "timer2"})
    BY <1>8 DEF Number, RegisterNames, Registers
  <2> QED BY <2>2, <2>3, <2>4
<1>9. CASE name \notin Number \cup Flag \cup Place
  <2>2. v = [i \in 1 .. Size(f) |-> IF name = "kbd_ien" THEN 1 ELSE 0]
    BY <1>3, <1>9
  <2>3. Size(f) \in Nat
    BY <1>1 DEF Entry, Size, CountOf, WidthOf
  <2> DEFINE size == Size(f)
  <2> HIDE DEF size
  <2>4. v \in [1 .. size -> Octet]
    BY <2>2 DEF Octet, size
  <2>5. v \in Seq(Octet) /\ Len(v) = size
    BY <2>3, <2>4 DEF size
  <2>6. name \notin RegisterNames \cup {"timer1", "timer2", "t1_tick", "t2_tick", "MP"}
    BY <1>9 DEF Number, RegisterNames, Registers
  <2> QED BY <1>9, <2>5, <2>6, Zenon DEF Fits, size, f
<1> QED BY <1>4, <1>5, <1>6, <1>7, <1>8, <1>9

LEMMA FreshIsSaturn == IsSaturn(FreshSaturn)
<1>1. Names = AllNames
  BY Known
<1>2. \A name \in Names : FreshSaturn[name] = FreshValue(FieldOf(name))
  BY DEF FreshSaturn
<1>3. FreshSaturn = [name \in Names |-> FreshSaturn[name]]
  BY DEF FreshSaturn
<1>4. \A name \in Names : Fits(name, FreshSaturn[name])
  BY <1>1, <1>2, FreshFits
<1> QED BY <1>3, <1>4 DEF IsSaturn

LEMMA OneNibbleUpdate ==
  ASSUME NEW s, IsSaturn(s), NEW name \in Changed, NEW v \in 0 .. 15
  PROVE  IsSaturn([s EXCEPT ![name] = v])
  BY OtherUpdate DEF Other

LEMMA ConfigIsSaturn ==
  ASSUME NEW s, IsSaturn(s)
  PROVE  IsSaturn(ConfigInit(s))
<1> DEFINE zero == 0
           s1 == [s EXCEPT !["rcs"] = zero]
           s2 == [s1 EXCEPT !["tcs"] = zero]
           s3 == [s2 EXCEPT !["lbr"] = zero]
<1>1. ConfigInit(s) = s3
  BY DEF ConfigInit
<1>2. zero \in 0 .. 15
  OBVIOUS
<1> HIDE DEF zero
<1>3. IsSaturn(s1)
  BY <1>2, OneNibbleUpdate DEF Changed
<1> HIDE DEF s1
<1>4. IsSaturn(s2)
  BY <1>2, <1>3, OneNibbleUpdate DEF Changed
<1> HIDE DEF s2
<1>5. IsSaturn(s3)
  BY <1>2, <1>4, OneNibbleUpdate DEF Changed
<1> QED BY <1>1, <1>5

LEMMA StatusNibble == ASSUME NEW port PROVE CardStatus(port) \in 0 .. 15
<1> DEFINE bit(p) == IF opt_gx <=> p = "port2" THEN 0 ELSE 1
           of(p) == (IF port[p].size > 0 THEN 2 ^ bit(p) ELSE 0)
                      + (IF port[p].is_ram THEN 4 * 2 ^ bit(p) ELSE 0)
<1>1. 2 ^ 0 = 1 /\ 2 ^ 1 = 2
  OBVIOUS
<1>2. ASSUME NEW p PROVE /\ bit(p) = 0 => of(p) \in {0, 1, 4, 5}
                         /\ bit(p) = 1 => of(p) \in {0, 2, 8, 10}
  BY <1>1, SMT
<1>3. bit("port1") \in {0, 1} /\ bit("port2") \in {0, 1} /\ bit("port1") # bit("port2")
  BY StateFilesAssumption
<1>4. CardStatus(port) = of("port1") + of("port2")
  BY DEF CardStatus
<1>5. \/ of("port1") \in {0, 1, 4, 5} /\ of("port2") \in {0, 2, 8, 10}
      \/ of("port1") \in {0, 2, 8, 10} /\ of("port2") \in {0, 1, 4, 5}
  BY <1>2, <1>3
<1> HIDE DEF of, bit
<1> QED BY <1>4, <1>5

(* The calculator that the files f hold: what init_emulator() makes of them. *)
CardOf(p, c, file) ==
  /\ c = [size |-> c.size, is_ram |-> c.is_ram, data |-> c.data]
  /\ c.size \in Nat /\ c.is_ram \in BOOLEAN
  /\ c.is_ram => /\ file.writable /\ Accepted(p, c.size)
                 /\ c.size = 0 => file.size = 0 /\ file.data = c.data
CardsOf(port, f) == DOMAIN port = Port /\ \A p \in Port : CardOf(p, port[p], f.port[p])

LEMMA PortRead ==
  ASSUME NEW p \in Port, NEW file, file.size \in Nat \cup {Absent}, file.writable \in BOOLEAN
  PROVE  CardOf(p, ReadPort(p, file), file)
<1> DEFINE c == ReadPort(p, file)
<1> SUFFICES CardOf(p, c, file)
  OBVIOUS
<1>1. CASE file.size = Absent
  <2>1. c = [size |-> 0, is_ram |-> FALSE, data |-> NULL]
    BY <1>1 DEF ReadPort, NoCard
  <2> HIDE DEF c
  <2> QED BY <2>1 DEF CardOf
<1>2. CASE file.size # Absent /\ Accepted(p, file.size)
  <2>1. c = [size |-> file.size, is_ram |-> file.writable, data |-> file.data]
    BY <1>2 DEF ReadPort
  <2> HIDE DEF c
  <2> QED BY <1>2, <2>1 DEF CardOf
<1>3. CASE file.size # Absent /\ ~Accepted(p, file.size)
  <2>1. c = [size |-> file.size, is_ram |-> FALSE, data |-> NULL]
    BY <1>3 DEF ReadPort
  <2> HIDE DEF c
  <2> QED BY <1>3, <2>1 DEF CardOf
<1> QED BY <1>1, <1>2, <1>3

LEMMA Started ==
  ASSUME NEW f, AreFiles(f)
  PROVE  LET e == init_emulator(f)
         IN /\ IsSaturn(e.saturn) /\ e.ram \in [RAM -> 0 .. 15] /\ CardsOf(e.port, f)
            /\ e.requests \in BOOLEAN
<1> DEFINE s == IF f.conf = <<>> THEN FreshSaturn ELSE ReadConf(f.conf)
           t == ConfigInit(s)
           port == [p \in Port |-> ReadPort(p, f.port[p])]
           status == CardStatus(port)
           none == [p \in Port |-> NoCard]
           zeros == [a \in DOMAIN f.ram.data |-> 0]
           e == init_emulator(f)
<1>1. e = IF f.conf # NoFile /\ f.ram.size = RamSize
          THEN [ saturn |-> [t EXCEPT !.card_status = status],
                 ram |-> f.ram.data, port |-> port, requests |-> TRUE ]
          ELSE [ saturn |-> FreshSaturn, ram |-> zeros, port |-> none,
                 requests |-> f.conf # NoFile ]
  BY DEF init_emulator
<1>2. f.ram.data \in [RAM -> 0 .. 15]
  BY DEF AreFiles
<1>3. zeros \in [RAM -> 0 .. 15]
  <2>1. DOMAIN f.ram.data = RAM
    BY <1>2
  <2> QED BY <2>1
<1>4. CardsOf(port, f)
  <2>1. \A p \in Port : f.port[p].size \in Nat \cup {Absent} /\ f.port[p].writable \in BOOLEAN
    BY DEF AreFiles
  <2>2. \A p \in Port : CardOf(p, ReadPort(p, f.port[p]), f.port[p])
    BY <2>1, PortRead
  <2> QED BY <2>2 DEF CardsOf
<1>5. CardsOf(none, f)
  <2> SUFFICES ASSUME NEW p \in Port PROVE CardOf(p, NoCard, f.port[p])
    BY DEF CardsOf
  <2>1. NoCard = [size |-> 0, is_ram |-> FALSE, data |-> NULL]
    BY DEF NoCard
  <2> QED BY <2>1 DEF CardOf
<1>6. f.conf # NoFile => IsSaturn([t EXCEPT !.card_status = status])
  <2> SUFFICES ASSUME f.conf # NoFile PROVE IsSaturn([t EXCEPT !.card_status = status])
    OBVIOUS
  <2>1. IsSaturn(s)
    BY FreshIsSaturn DEF AreFiles
  <2> HIDE DEF s
  <2>2. IsSaturn(t)
    BY <2>1, ConfigIsSaturn
  <2>3. status \in 0 .. 15
    BY StatusNibble
  <2> HIDE DEF t, status
  <2>4. IsSaturn([t EXCEPT !["card_status"] = status])
    BY <2>2, <2>3, OneNibbleUpdate DEF Changed
  <2> QED BY <2>4
<1> DEFINE u == [t EXCEPT !.card_status = status]
<1> HIDE DEF e, u, port, none, zeros
<1>7. CASE f.conf # NoFile /\ f.ram.size = RamSize
  <2>1. e = [saturn |-> u, ram |-> f.ram.data, port |-> port, requests |-> TRUE]
    BY <1>1, <1>7 DEF u
  <2>2. IsSaturn(u)
    BY <1>6, <1>7 DEF u
  <2> QED BY <1>2, <1>4, <2>1, <2>2 DEF e
<1>8. CASE ~(f.conf # NoFile /\ f.ram.size = RamSize)
  <2>1. e = [saturn |-> FreshSaturn, ram |-> zeros, port |-> none, requests |-> f.conf # NoFile]
    BY <1>1, <1>8
  <2> QED BY <1>3, <1>5, <2>1, FreshIsSaturn DEF e
<1> QED BY <1>7, <1>8

LEMMA LayoutValues ==
  ASSUME NEW s, IsSaturn(s)
  PROVE  /\ LayoutRegisters \subseteq DOMAIN s
         /\ s.contrast_ctrl \in 0 .. 15 /\ s.disp_test \in Nat /\ s.line_offset \in Nat
         /\ s.line_count \in Nat
<1> DEFINE some == {"contrast_ctrl", "disp_test", "line_offset", "line_count"}
<1>1. LayoutRegisters \subseteq DOMAIN s
  <2>1. LayoutRegisters \subseteq AllNames
    BY DEF LayoutRegisters, AllNames, Single, OneByte, TwoBytes, FourBytes
  <2> QED BY <2>1, SaturnValues
<1>2. some \subseteq RegisterNames \ {"timer1", "timer2"} /\ some \subseteq Names
  <2>1. some \subseteq RegisterNames \ {"timer1", "timer2"}
    BY DEF RegisterNames, Registers
  <2>2. some \subseteq AllNames
    BY DEF AllNames, Single, OneByte, TwoBytes, FourBytes
  <2> QED BY <2>1, <2>2, Known
<1>3. \A name \in some : Within(s[name], Top(name))
  BY <1>2, FitsWithin DEF IsSaturn
<1>4. \A name \in some : s[name] \in Nat
  BY <1>3 DEF Within
<1>5. Top("contrast_ctrl") = 15
  BY SMT DEF Top, TwoNibbles, FourNibbles, FiveNibbles
<1>6. s.contrast_ctrl \in 0 .. 15
  BY <1>3, <1>5 DEF Within
<1> QED BY <1>1, <1>4, <1>6

BeginsAs(n, e, period, time) ==
  /\ DOMAIN n = MemoryFields
  /\ n.saturn = e.saturn /\ n.ram = set_accesstime(e.ram, time) /\ n.port = e.port
  /\ n.display = LayoutOf(e.saturn)
  /\ n.touched = (IF e.requests THEN {"contrast", "baud", "ann"} ELSE {})
  /\ n.display_touched = (IF e.requests THEN 1 ELSE 0)
  /\ n.drawn = FALSE /\ n.device_check = FALSE
  /\ n.schedule_event = 0 /\ n.steps = 0
  /\ n.sched = [ timer1 |-> e.saturn.t1_tick, timer2 |-> e.saturn.t2_tick,
                 adjtime |-> period.adjtime, receive |-> period.receive,
                 statistics |-> period.statistics, display |-> NEVER ]
  /\ n.set_t1 = e.saturn.timer1 /\ n.t1_ticks = 0
  /\ n.line_counter = -1 /\ n.old_line_offset = -1
  /\ n.disp_buf = [p \in Cell |-> None] /\ n.lcd_buffer = [p \in Cell |-> None]
  /\ n.buffer = [p \in Seen |-> Dark] /\ n.speaker_counter = 0

LEMMA PowerOnFields ==
  ASSUME NEW f, NEW period, NEW time
  PROVE  BeginsAs(PowerOn(f, period, time), init_emulator(f), period, time)
<1> DEFINE e == init_emulator(f)
           n == PowerOn(f, period, time)
           ram == set_accesstime(e.ram, time)
           s == e.saturn
           display == LayoutOf(s)
           touched == IF e.requests THEN {"contrast", "baud", "ann"} ELSE {}
           due == IF e.requests THEN 1 ELSE 0
           sched == [ timer1 |-> s.t1_tick, timer2 |-> s.t2_tick,
                      adjtime |-> period.adjtime, receive |-> period.receive,
                      statistics |-> period.statistics, display |-> NEVER ]
           blank == [p \in Cell |-> None]
           dark == [p \in Seen |-> Dark]
<1>1. n = [ saturn |-> s, ram |-> ram, port |-> e.port, display |-> display,
            touched |-> touched, display_touched |-> due,
            drawn |-> FALSE, device_check |-> FALSE, schedule_event |-> 0, steps |-> 0,
            sched |-> sched, set_t1 |-> s.timer1, t1_ticks |-> 0, adj_time_pending |-> FALSE,
            interrupt_called |-> FALSE, awake |-> TRUE, line_counter |-> -1, old_line_offset |-> -1,
            disp_buf |-> blank, lcd_buffer |-> blank,
            old_offset |-> -1, old_lines |-> -1, last_annunc_state |-> -1,
            buffer |-> dark, flipable |-> FALSE,
            speaker_counter |-> 0, last_state |-> FALSE ]
  BY DEF PowerOn
<1> HIDE DEF n, ram, display, touched, due, sched, blank, dark, e
<1>2. DOMAIN n = MemoryFields
  BY <1>1 DEF MemoryFields
<1>3. /\ n.saturn = s /\ n.ram = ram /\ n.port = e.port /\ n.display = display
      /\ n.touched = touched /\ n.display_touched = due
  BY <1>1
<1>4. /\ n.drawn = FALSE /\ n.device_check = FALSE /\ n.schedule_event = 0 /\ n.steps = 0
      /\ n.sched = sched /\ n.set_t1 = s.timer1 /\ n.t1_ticks = 0
      /\ n.line_counter = -1 /\ n.old_line_offset = -1
  BY <1>1
<1>5. n.disp_buf = blank /\ n.lcd_buffer = blank /\ n.buffer = dark /\ n.speaker_counter = 0
  BY <1>1
<1> QED BY <1>2, <1>3, <1>4, <1>5 DEF n, ram, display, touched, due, sched, blank, dark, e, BeginsAs

LEMMA ClockSet ==
  ASSUME NEW ram \in [RAM -> 0 .. 15], NEW time \in [CLOCK -> 0 .. 15]
  PROVE  set_accesstime(ram, time) \in [RAM -> 0 .. 15]
  BY DEF set_accesstime

LEMMA PowerOnServes ==
  ASSUME NEW f, AreFiles(f), NEW period, IsPeriod(period), NEW time \in [CLOCK -> 0 .. 15]
  PROVE  LET n == PowerOn(f, period, time)
         IN Serves(n) /\ CardsOf(n.port, f) /\ n.speaker_counter = 0
<1> DEFINE n == PowerOn(f, period, time)
           e == init_emulator(f)
           sched == [ timer1 |-> e.saturn.t1_tick, timer2 |-> e.saturn.t2_tick,
                      adjtime |-> period.adjtime, receive |-> period.receive,
                      statistics |-> period.statistics, display |-> NEVER ]
<1>1. /\ IsSaturn(e.saturn) /\ e.ram \in [RAM -> 0 .. 15] /\ CardsOf(e.port, f)
      /\ e.requests \in BOOLEAN
  BY Started
<1>2. /\ DOMAIN n = MemoryFields
      /\ n.saturn = e.saturn /\ n.ram = set_accesstime(e.ram, time) /\ n.port = e.port
      /\ n.display = LayoutOf(e.saturn)
      /\ n.touched = (IF e.requests THEN {"contrast", "baud", "ann"} ELSE {})
      /\ n.display_touched = (IF e.requests THEN 1 ELSE 0)
      /\ n.drawn = FALSE /\ n.device_check = FALSE
      /\ n.schedule_event = 0 /\ n.steps = 0 /\ n.sched = sched
      /\ n.set_t1 = e.saturn.timer1 /\ n.t1_ticks = 0
      /\ n.line_counter = -1 /\ n.old_line_offset = -1
      /\ n.disp_buf = [p \in Cell |-> None] /\ n.lcd_buffer = [p \in Cell |-> None]
      /\ n.buffer = [p \in Seen |-> Dark] /\ n.speaker_counter = 0
  <2>1. BeginsAs(n, e, period, time)
    BY PowerOnFields
  <2> HIDE DEF n, e
  <2> QED BY <2>1 DEF BeginsAs
<1>3. sched \in [Countdown \cup {"display"} -> Int]
  <2> DEFINE a == e.saturn.t1_tick
             b == e.saturn.t2_tick
             c == period.adjtime
             d == period.receive
             g == period.statistics
             q == [timer1 |-> a, timer2 |-> b, adjtime |-> c, receive |-> d,
                   statistics |-> g, display |-> NEVER]
  <2>1. a \in Int /\ b \in Int
    BY <1>1, SaturnValues, ShortInt
  <2>2. c \in Int /\ d \in Int /\ g \in Int /\ NEVER \in Int
    BY SchedulerAssumption DEF IsPeriod, Countdown
  <2>3. sched = q
    OBVIOUS
  <2> HIDE DEF a, b, c, d, g, sched
  <2>4. q \in [Countdown \cup {"display"} -> Int]
    BY <2>1, <2>2 DEF Countdown
  <2> QED BY <2>3, <2>4
<1> HIDE DEF n, e, sched
<1>4. Good(n)
  <2>1. e.saturn.timer1 \in Int
    BY <1>1, SaturnValues
  <2> QED BY <1>1, <1>2, <1>3, <2>1 DEF Good, Clocked
<1>5. Asked(n)
  <2>1. n.touched \subseteq Requests
    BY <1>1, <1>2 DEF Requests
  <2>2. n.display_touched \in 0 .. DISP_INSTR_OFF
    BY <1>1, <1>2, IoAssumption
  <2>3. n.line_counter \in Int
    BY <1>2
  <2> QED BY <1>2, <2>1, <2>2, <2>3 DEF Asked
<1>6. Layouted(n)
  <2>1. Follows(n.display, n.saturn)
    BY <1>2, LayoutFollows
  <2>2. /\ LayoutRegisters \subseteq DOMAIN n.saturn
        /\ n.saturn.contrast_ctrl \in 0 .. 15 /\ n.saturn.disp_test \in Nat
        /\ n.saturn.line_offset \in Nat /\ n.saturn.line_count \in Nat
    BY <1>1, <1>2, LayoutValues
  <2>3. n.old_line_offset \in {-1, n.saturn.line_offset}
    BY <1>2
  <2>4. {"saturn", "display", "old_line_offset"} \subseteq DOMAIN n
    BY <1>2 DEF MemoryFields
  <2> QED BY <2>1, <2>2, <2>3, <2>4 DEF Layouted, LayoutRegisters
<1>7. Pixels(n)
  <2>1. /\ \A p \in Cell : n.disp_buf[p] = None /\ n.lcd_buffer[p] = None
        /\ \A p \in Seen : n.lcd_buffer[p] = None
    BY <1>2, SeenCells
  <2>2. /\ n.disp_buf \in [Cell -> 0 .. 15 \cup {None}]
        /\ n.lcd_buffer \in [Cell -> 0 .. 15 \cup {None}]
    BY <1>2
  <2>3. n.buffer \in [Seen -> 0 .. 15]
    BY <1>2 DEF Dark
  <2>4. n.ram \in [RAM -> 0 .. 15]
    BY <1>1, <1>2, ClockSet
  <2> QED BY <2>1, <2>2, <2>3, <2>4 DEF Pixels
<1>8. Image(n)
  BY <1>2 DEF Image
<1>9. AtStart(n) \/ Scheduled(n)
  BY <1>1, <1>2 DEF AtStart, Scheduled
<1> QED BY <1>1, <1>2, <1>4, <1>5, <1>6, <1>7, <1>8, <1>9 DEF Serves, Memory, n

-----------------------------------------------------------------------------
(* write_files(). *)
Writable(port) == {"conf", "ram"} \cup {p \in Port : port[p].size > 0 /\ port[p].is_ram}

(* The files of S, one after the other. *)
StateFile == {"conf", "ram", "port1", "port2"}
Order(o, S) ==
  /\ o \in Seq(StateFile) /\ Len(o) \in Nat /\ 2 <= Len(o)
  /\ \A i \in 1 .. Len(o) : o[i] \in S
  /\ \A i, j \in 1 .. Len(o) : o[i] = o[j] => i = j
  /\ \A name \in S : \E i \in 1 .. Len(o) : o[i] = name

LEMMA OneMore ==
  ASSUME NEW o, NEW S, Order(o, S), NEW x \in StateFile, x \notin S
  PROVE  Order(o \o <<x>>, S \cup {x})
<1> DEFINE n == Len(o)
           y == <<x>>
           q == o \o y
<1>1. y \in Seq(StateFile) /\ Len(y) = 1 /\ y[1] = x
  OBVIOUS
<1>2. /\ o \in Seq(StateFile) /\ n \in Nat /\ 2 <= n
      /\ \A i \in 1 .. n : o[i] \in S
      /\ \A i, j \in 1 .. n : o[i] = o[j] => i = j
      /\ \A name \in S : \E i \in 1 .. n : o[i] = name
  BY DEF Order
<1> HIDE DEF y, n
<1>3. /\ q \in Seq(StateFile) /\ Len(q) = n + 1
      /\ \A i \in 1 .. n + 1 : q[i] = IF i <= n THEN o[i] ELSE y[i - n]
  <2>1. /\ q \in Seq(StateFile) /\ Len(q) = Len(o) + Len(y)
        /\ \A i \in 1 .. Len(o) + Len(y) : q[i] = IF i <= Len(o) THEN o[i] ELSE y[i - Len(o)]
    <3>1. o \in Seq(StateFile) /\ y \in Seq(StateFile)
      BY <1>1, <1>2
    <3> QED BY ONLY <3>1, ConcatProperties
  <2> QED BY <1>1, <2>1 DEF n
<1> HIDE DEF q
<1>4. (\A i \in 1 .. n : q[i] = o[i]) /\ q[n + 1] = x
  <2>1. \A i \in 1 .. n : i \in 1 .. n + 1 /\ i <= n
    BY <1>2
  <2>2. n + 1 \in 1 .. n + 1 /\ ~(n + 1 <= n) /\ (n + 1) - n = 1
    BY <1>2
  <2> QED BY <1>1, <1>3, <2>1, <2>2
<1>5. \A i \in 1 .. n + 1 : i \in 1 .. n \/ i = n + 1
  BY <1>2
<1>6. \A i \in 1 .. n + 1 : q[i] \in S \cup {x}
  BY <1>2, <1>4, <1>5
<1>7. \A i, j \in 1 .. n + 1 : q[i] = q[j] => i = j
  <2> SUFFICES ASSUME NEW i \in 1 .. n + 1, NEW j \in 1 .. n + 1, q[i] = q[j] PROVE i = j
    OBVIOUS
  <2>1. CASE i \in 1 .. n /\ j \in 1 .. n
    BY <1>2, <1>4, <2>1
  <2>2. CASE i \notin 1 .. n \/ j \notin 1 .. n
    <3>1. \A k \in 1 .. n : q[k] # x
      BY <1>2, <1>4
    <3> QED BY <1>4, <1>5, <2>2, <3>1
  <2> QED BY <2>1, <2>2
<1>8. \A name \in S \cup {x} : \E i \in 1 .. n + 1 : q[i] = name
  <2>1. n + 1 \in 1 .. n + 1 /\ \A i \in 1 .. n : i \in 1 .. n + 1
    BY <1>2
  <2> QED BY <1>2, <1>4, <2>1
<1>9. Order(q, S \cup {x})
  BY <1>2, <1>3, <1>6, <1>7, <1>8 DEF Order
<1> QED BY <1>9 DEF q, y

LEMMA Ordered ==
  ASSUME NEW port
  PROVE  Order(WriteOrder(port), Writable(port))
<1> DEFINE has(p) == port[p].size > 0 /\ port[p].is_ram
           card(p) == IF has(p) THEN <<p>> ELSE <<>>
           first == <<"conf", "ram">>
           second == first \o card("port1")
           o == second \o card("port2")
           s1 == {"conf", "ram"}
           s2 == IF has("port1") THEN s1 \cup {"port1"} ELSE s1
           s3 == IF has("port2") THEN s2 \cup {"port2"} ELSE s2
<1>1. Order(first, s1)
  BY DEF Order, StateFile
<1>2. WriteOrder(port) = o
  BY DEF WriteOrder
<1>3. s3 = Writable(port)
  BY DEF Writable, Port
<1>4. "port1" \notin s1 /\ "port2" \notin s2 /\ "port1" \in StateFile /\ "port2" \in StateFile
  BY DEF StateFile
<1> HIDE DEF has, first, s1
<1>5. Order(second, s2)
  <2>1. CASE has("port1")
    BY <1>1, <1>4, <2>1, OneMore
  <2>2. CASE ~has("port1")
    BY <1>1, <2>2, ConcatEmptySeq DEF Order
  <2> QED BY <2>1, <2>2
<1> HIDE DEF second, s2
<1>6. Order(o, s3)
  <2>1. CASE has("port2")
    BY <1>4, <1>5, <2>1, OneMore
  <2>2. CASE ~has("port2")
    BY <1>5, <2>2, ConcatEmptySeq DEF Order
  <2> QED BY <2>1, <2>2
<1> QED BY <1>2, <1>3, <1>6

(* What file name holds of the memory n. *)
Saved(f, n, name) ==
  /\ name = "conf" => f.conf = Conf(n.saturn)
  /\ name = "ram" => f.ram = [size |-> RamSize, data |-> n.ram]
  /\ name \in Port => f.port[name].size = n.port[name].size /\ f.port[name].data = n.port[name].data

(* What was saved is what a start reads. *)
IsKept(k, f) ==
  /\ IsSaturn(k.saturn) /\ f.conf = Conf(k.saturn) /\ f.ram = [size |-> RamSize, data |-> k.ram]
  /\ \A p \in Port : k.port[p].is_ram => ReadPort(p, f.port[p]) = k.port[p]

(* The files f and g, but for the file name. *)
Apart(f, g, name) ==
  /\ DOMAIN g = DOMAIN f
  /\ name # "conf" => g.conf = f.conf
  /\ name # "ram" => g.ram = f.ram
  /\ DOMAIN g.port = DOMAIN f.port
  /\ \A p \in Port : /\ p # name => g.port[p] = f.port[p]
                     /\ DOMAIN g.port[p] = DOMAIN f.port[p] /\ g.port[p].writable = f.port[p].writable

LEMMA ApartKeeps ==
  ASSUME NEW f, NEW g, NEW name, Apart(f, g, name), NEW n
  PROVE  /\ \A other \in {"conf", "ram"} \cup Port : other # name /\ Saved(f, n, other) => Saved(g, n, other)
         /\ name \in Writable(n.port) /\ CardsOf(n.port, f) => CardsOf(n.port, g)
<1>1. \A other \in {"conf", "ram"} \cup Port : other # name /\ Saved(f, n, other) => Saved(g, n, other)
  BY DEF Apart, Saved
<1>2. ASSUME name \in Writable(n.port), CardsOf(n.port, f), NEW p \in Port
      PROVE  CardOf(p, n.port[p], g.port[p])
  <2>1. CardOf(p, n.port[p], f.port[p])
    BY <1>2 DEF CardsOf
  <2>2. CASE p = name
    <3>1. n.port[p].size > 0
      BY <1>2, <2>2 DEF Writable, Port
    <3>2. n.port[p].size # 0 /\ g.port[p].writable = f.port[p].writable
      BY <2>1, <3>1 DEF Apart, CardOf
    <3> QED BY <2>1, <3>2 DEF CardOf
  <2>3. CASE p # name
    BY <2>1, <2>3 DEF Apart
  <2> QED BY <2>2, <2>3
<1> QED BY <1>1, <1>2 DEF CardsOf

LEMMA CutApart ==
  ASSUME NEW f, AreFiles(f), NEW n, CardsOf(n.port, f), NEW name \in Writable(n.port),
         NEW size \in CutSizes(n, name)
  PROVE  AreFiles(Cut(f, name, size)) /\ Apart(f, Cut(f, name, size), name)
<1> DEFINE g == Cut(f, name, size)
<1>1. /\ DOMAIN f = {"conf", "ram", "port"} /\ DOMAIN f.port = Port
      /\ f.conf \in {NoFile, <<>>} \/ IsSaturn(ReadConf(f.conf))
      /\ f.ram \in [size : Int, data : [RAM -> 0 .. 15]]
      /\ \A p \in Port : /\ DOMAIN f.port[p] = {"size", "writable", "data"}
                         /\ f.port[p].size \in Nat \cup {Absent} /\ f.port[p].writable \in BOOLEAN
  BY DEF AreFiles
<1>2. CASE name = "conf"
  <2>1. g = [f EXCEPT !.conf = <<>>]
    BY <1>2 DEF Cut
  <2>2. /\ DOMAIN g = DOMAIN f /\ g.conf = <<>> /\ g.ram = f.ram /\ g.port = f.port
    BY <1>1, <2>1
  <2> HIDE DEF g
  <2>3. AreFiles(g)
    BY <1>1, <2>2 DEF AreFiles
  <2>4. Apart(f, g, name)
    BY <1>2, <2>2 DEF Apart
  <2> QED BY <2>3, <2>4 DEF g
<1>3. CASE name = "ram"
  <2>1. g = [f EXCEPT !.ram = [f.ram EXCEPT !.size = size]]
    BY <1>3 DEF Cut
  <2>2. /\ DOMAIN g = DOMAIN f /\ g.conf = f.conf /\ g.ram = [f.ram EXCEPT !.size = size]
        /\ g.port = f.port
    BY <1>1, <2>1
  <2>3. size \in Int
    BY <1>3, StateFilesAssumption DEF CutSizes
  <2> HIDE DEF g
  <2>4. g.ram \in [size : Int, data : [RAM -> 0 .. 15]]
    BY <1>1, <2>2, <2>3
  <2>5. AreFiles(g)
    BY <1>1, <2>2, <2>4 DEF AreFiles
  <2>6. Apart(f, g, name)
    BY <1>3, <2>2 DEF Apart
  <2> QED BY <2>5, <2>6 DEF g
<1>4. CASE name \in Port
  <2> DEFINE c == [f.port[name] EXCEPT !.size = size]
             port == [f.port EXCEPT ![name] = c]
  <2>0. name # "conf" /\ name # "ram"
    BY <1>4 DEF Port
  <2>1. g = [f EXCEPT !.port = port]
    BY <2>0 DEF Cut
  <2>2. size \in Nat
    <3>1. size \in 0 .. n.port[name].size - 1
      BY <2>0 DEF CutSizes
    <3>2. n.port[name].size \in Nat
      BY <1>4 DEF CardsOf, CardOf
    <3> QED BY <3>1, <3>2
  <2>3. /\ DOMAIN c = {"size", "writable", "data"} /\ c.size = size
        /\ c.writable = f.port[name].writable
    BY <1>1, <1>4
  <2> HIDE DEF c
  <2>4. /\ DOMAIN port = Port /\ port[name] = c
        /\ \A p \in Port : p # name => port[p] = f.port[p]
    BY <1>1, <1>4
  <2> HIDE DEF port
  <2>5. DOMAIN g = DOMAIN f /\ g.conf = f.conf /\ g.ram = f.ram /\ g.port = port
    BY <1>1, <2>1
  <2> HIDE DEF g
  <2>6. \A p \in Port : /\ DOMAIN port[p] = {"size", "writable", "data"}
                        /\ port[p].size \in Nat \cup {Absent} /\ port[p].writable = f.port[p].writable
    BY <1>1, <2>2, <2>3, <2>4
  <2>7. AreFiles(g)
    BY <1>1, <2>5, <2>6, <2>4 DEF AreFiles
  <2>8. Apart(f, g, name)
    BY <1>1, <2>0, <2>4, <2>5, <2>6 DEF Apart
  <2> QED BY <2>7, <2>8 DEF g
<1> QED BY <1>2, <1>3, <1>4 DEF Writable

LEMMA WholeApart ==
  ASSUME NEW f, AreFiles(f), NEW n, CardsOf(n.port, f), IsSaturn(n.saturn), n.ram \in [RAM -> 0 .. 15],
         NEW name \in Writable(n.port)
  PROVE  LET g == Whole(f, n, name) IN AreFiles(g) /\ Apart(f, g, name) /\ Saved(g, n, name)
<1> DEFINE g == Whole(f, n, name)
<1>1. /\ DOMAIN f = {"conf", "ram", "port"} /\ DOMAIN f.port = Port
      /\ f.conf \in {NoFile, <<>>} \/ IsSaturn(ReadConf(f.conf))
      /\ f.ram \in [size : Int, data : [RAM -> 0 .. 15]]
      /\ \A p \in Port : /\ DOMAIN f.port[p] = {"size", "writable", "data"}
                         /\ f.port[p].size \in Nat \cup {Absent} /\ f.port[p].writable \in BOOLEAN
  BY DEF AreFiles
<1>2. CASE name = "conf"
  <2> DEFINE conf == Conf(n.saturn)
  <2>1. g = [f EXCEPT !.conf = conf]
    BY <1>2 DEF Whole
  <2>2. DOMAIN g = DOMAIN f /\ g.conf = conf /\ g.ram = f.ram /\ g.port = f.port
    BY <1>1, <2>1
  <2>3. IsSaturn(ReadConf(conf))
    BY ReadsBack
  <2>4. Saved(g, n, name)
    BY <1>2, <2>2 DEF Saved, Port
  <2> HIDE DEF g, conf
  <2>5. AreFiles(g)
    BY <1>1, <2>2, <2>3 DEF AreFiles
  <2>6. Apart(f, g, name)
    BY <1>2, <2>2 DEF Apart
  <2> QED BY <2>4, <2>5, <2>6 DEF g
<1>3. CASE name = "ram"
  <2> DEFINE ram == [size |-> RamSize, data |-> n.ram]
  <2>1. g = [f EXCEPT !.ram = ram]
    BY <1>3 DEF Whole
  <2>2. DOMAIN g = DOMAIN f /\ g.conf = f.conf /\ g.ram = ram /\ g.port = f.port
    BY <1>1, <2>1
  <2>3. ram \in [size : Int, data : [RAM -> 0 .. 15]]
    BY StateFilesAssumption
  <2>4. Saved(g, n, name)
    BY <1>3, <2>2 DEF Saved, Port
  <2> HIDE DEF g, ram
  <2>5. AreFiles(g)
    BY <1>1, <2>2, <2>3 DEF AreFiles
  <2>6. Apart(f, g, name)
    BY <1>3, <2>2 DEF Apart
  <2> QED BY <2>4, <2>5, <2>6 DEF g
<1>4. CASE name \in Port
  <2> DEFINE size == n.port[name].size
             data == n.port[name].data
             c == [f.port[name] EXCEPT !.size = size, !.data = data]
             port == [f.port EXCEPT ![name] = c]
  <2>0. name # "conf" /\ name # "ram"
    BY <1>4 DEF Port
  <2>1. g = [f EXCEPT !.port = port]
    <3>1. g = [f EXCEPT !.port[name].size = size, !.port[name].data = data]
      BY <2>0 DEF Whole
    <3> HIDE DEF size, data
    <3> QED BY <1>1, <1>4, <3>1
  <2>2. size \in Nat
    BY <1>4 DEF CardsOf, CardOf
  <2> HIDE DEF size, data
  <2>3. /\ DOMAIN c = {"size", "writable", "data"} /\ c.size = size /\ c.data = data
        /\ c.writable = f.port[name].writable
    BY <1>1, <1>4
  <2> HIDE DEF c
  <2>4. /\ DOMAIN port = Port /\ port[name] = c
        /\ \A p \in Port : p # name => port[p] = f.port[p]
    BY <1>1, <1>4
  <2> HIDE DEF port
  <2>5. DOMAIN g = DOMAIN f /\ g.conf = f.conf /\ g.ram = f.ram /\ g.port = port
    BY <1>1, <2>1
  <2> HIDE DEF g
  <2>6. \A p \in Port : /\ DOMAIN port[p] = {"size", "writable", "data"}
                        /\ port[p].size \in Nat \cup {Absent} /\ port[p].writable = f.port[p].writable
    BY <1>1, <2>2, <2>3, <2>4
  <2>7. AreFiles(g)
    BY <1>1, <2>5, <2>6, <2>4 DEF AreFiles
  <2>8. Apart(f, g, name)
    BY <1>1, <2>0, <2>4, <2>5, <2>6 DEF Apart
  <2>9. Saved(g, n, name)
    BY <2>0, <2>3, <2>4, <2>5 DEF Saved, size, data
  <2> QED BY <2>7, <2>8, <2>9 DEF g
<1> QED BY <1>2, <1>3, <1>4 DEF Writable

(* When all files are written, a start reads what they were written from. *)
LEMMA AllSaved ==
  ASSUME NEW f, NEW n, CardsOf(n.port, f), IsSaturn(n.saturn),
         \A p \in Port : f.port[p].size \in Nat \cup {Absent},
         \A name \in Writable(n.port) : Saved(f, n, name)
  PROVE  IsKept([saturn |-> n.saturn, ram |-> n.ram, port |-> n.port], f)
<1> DEFINE k == [saturn |-> n.saturn, ram |-> n.ram, port |-> n.port]
<1>1. k.saturn = n.saturn /\ k.ram = n.ram /\ k.port = n.port
  OBVIOUS
<1> HIDE DEF k
<1>2. f.conf = Conf(n.saturn) /\ f.ram = [size |-> RamSize, data |-> n.ram]
  <2>1. {"conf", "ram"} \subseteq Writable(n.port)
    BY DEF Writable
  <2> QED BY <2>1 DEF Saved
<1>3. ASSUME NEW p \in Port, n.port[p].is_ram
      PROVE  ReadPort(p, f.port[p]) = n.port[p]
  <2> DEFINE c == n.port[p]
             file == f.port[p]
  <2>1. /\ c = [size |-> c.size, is_ram |-> c.is_ram, data |-> c.data]
        /\ c.size \in Nat /\ file.writable /\ Accepted(p, c.size)
        /\ c.size = 0 => file.size = 0 /\ file.data = c.data
        /\ c.is_ram = TRUE
    <3>1. CardOf(p, c, file)
      BY DEF CardsOf
    <3> HIDE DEF c, file
    <3>2. c.is_ram
      BY <1>3 DEF c
    <3> QED BY <3>1, <3>2 DEF CardOf
  <2>2. c.size > 0 => file.size = c.size /\ file.data = c.data
    <3> SUFFICES ASSUME c.size > 0 PROVE file.size = c.size /\ file.data = c.data
      OBVIOUS
    <3>1. p \in Writable(n.port)
      BY <1>3 DEF Writable
    <3> QED BY <3>1 DEF Saved
  <2>3. f.port[p].writable = TRUE
    <3>1. CardOf(p, c, file)
      BY DEF CardsOf
    <3> QED BY <1>3, <3>1 DEF CardOf
  <2> HIDE DEF c, file
  <2>4. file.size = c.size /\ file.data = c.data /\ file.size # Absent
    BY <2>1, <2>2 DEF Absent
  <2>5. ReadPort(p, file) = [size |-> file.size, is_ram |-> file.writable, data |-> file.data]
    BY <2>1, <2>4 DEF ReadPort
  <2>6. file.writable = TRUE
    BY <2>3 DEF file
  <2> QED BY <2>1, <2>4, <2>5, <2>6 DEF c, file
<1>4. IsKept(k, f)
  BY <1>1, <1>2, <1>3 DEF IsKept
<1> QED BY <1>4 DEF k

(* And it starts with that. *)
LEMMA Restarted ==
  ASSUME NEW f, NEW k, IsKept(k, f), NEW period, NEW time
  PROVE  LET n == PowerOn(f, period, time)
         IN /\ n.saturn = [ConfigInit(k.saturn) EXCEPT !.card_status = CardStatus(n.port)]
            /\ n.ram = set_accesstime(k.ram, time)
            /\ \A p \in Port : k.port[p].is_ram => n.port[p] = k.port[p]
<1> DEFINE n == PowerOn(f, period, time)
           e == init_emulator(f)
           port == [p \in Port |-> ReadPort(p, f.port[p])]
           s == ConfigInit(k.saturn)
           t == [s EXCEPT !.card_status = CardStatus(port)]
<1>1. n.saturn = e.saturn /\ n.ram = set_accesstime(e.ram, time) /\ n.port = e.port
  <2>1. BeginsAs(n, e, period, time)
    BY PowerOnFields
  <2> HIDE DEF n, e
  <2> QED BY <2>1 DEF BeginsAs
<1>2. /\ f.conf \notin {NoFile, <<>>} /\ ReadConf(f.conf) = k.saturn
      /\ f.ram.size = RamSize /\ f.ram.data = k.ram
  BY ReadsBack DEF IsKept
<1>3. e = [saturn |-> t, ram |-> f.ram.data, port |-> port, requests |-> TRUE]
  BY <1>2 DEF init_emulator
<1> HIDE DEF n, e, t
<1>4. n.saturn = t /\ n.ram = set_accesstime(k.ram, time) /\ n.port = port
  BY <1>1, <1>2, <1>3
<1>5. \A p \in Port : k.port[p].is_ram => port[p] = k.port[p]
  BY DEF IsKept
<1> HIDE DEF port, s
<1> QED BY <1>4, <1>5 DEF t, s, n

(***************************************************************************)
(* 9. The inductive invariant and the theorems.                            *)
(***************************************************************************)

(* The inductive invariant. *)
ThreadPart ==
  /\ setup \in Setups /\ power \in {"on", "saving", "off"}
  /\ pc \in {"render", "copy", "clear", "audio", "silence"}
  /\ texture \in [Seen -> 0 .. 15]
  /\ DOMAIN audio = {"frames", "count", "tone"} /\ audio.frames \in 0 .. FRAMES - 1
MemoryPart == Memory(m) /\ (power = "on" => Serves(m))
SpeakerPart ==
  /\ toggles \in 0 .. MaxToggles /\ m.speaker_counter \in 0 .. toggles
  /\ loaded # None => loaded \in 0 .. toggles /\ toggles < MaxToggles
FilePart ==
  /\ AreFiles(files)
  /\ power # "off" => CardsOf(m.port, files)
  /\ kept # <<>> => IsKept(kept[1], files) /\ power # "saving"
  /\ power = "saving" => /\ DOMAIN save = {"file", "open"}
                         /\ save.file \in 1 .. Len(WriteOrder(m.port))
                         /\ \A i \in 1 .. save.file - 1 : Saved(files, m, WriteOrder(m.port)[i])
IInv == ThreadPart /\ MemoryPart /\ SpeakerPart /\ FilePart

LEMMA InSetup ==
  ASSUME ThreadPart
  PROVE  /\ IsPeriod(setup.period) /\ AreFiles(setup.files)
         /\ \A o \in setup.rom : IsOperation(o)
         /\ \A env \in setup.env : IsHost(env)
         /\ setup.times \subseteq [CLOCK -> 0 .. 15]
  BY MachineAssumption DEF ThreadPart, IsPeriod

LEMMA InitInv == ASSUME Init PROVE IInv
<1>0. PICK time \in setup.times : m = PowerOn(setup.files, setup.period, time)
  BY DEF Init
<1>1. /\ setup \in Setups /\ IsPeriod(setup.period) /\ AreFiles(setup.files)
      /\ setup.times \subseteq [CLOCK -> 0 .. 15]
  BY MachineAssumption DEF Init, IsPeriod
<1> DEFINE n == PowerOn(setup.files, setup.period, time)
<1>2. Serves(n) /\ CardsOf(n.port, setup.files) /\ n.speaker_counter = 0
  BY <1>0, <1>1, PowerOnServes
<1> HIDE DEF n
<1>3. /\ files = setup.files /\ power = "on" /\ m = n /\ loaded = None /\ toggles = 0
      /\ pc = "render" /\ texture = [p \in Seen |-> Dark] /\ audio = Quiet /\ kept = <<>>
  BY <1>0 DEF Init, n
<1>4. ThreadPart
  BY <1>1, <1>3, MachineAssumption DEF ThreadPart, Quiet, Dark
<1>5. MemoryPart
  BY <1>2, <1>3 DEF MemoryPart, Serves
<1>6. SpeakerPart
  BY <1>2, <1>3, MachineAssumption DEF SpeakerPart
<1>7. FilePart
  BY <1>1, <1>2, <1>3 DEF FilePart
<1> QED BY <1>4, <1>5, <1>6, <1>7 DEF IInv

(* A step of a thread while the program runs, with the memory it leaves. *)
LEMMA ThreadStep ==
  ASSUME IInv, power = "on", UNCHANGED <<setup, power, fileVars>>,
         Serves(m'), CardsOf(m'.port, files), ThreadPart', SpeakerPart'
  PROVE  IInv'
<1>1. MemoryPart'
  BY DEF MemoryPart, Serves
<1>2. FilePart'
  BY DEF IInv, FilePart, fileVars
<1> QED BY <1>1, <1>2 DEF IInv

LEMMA CardWritten ==
  ASSUME NEW port, NEW f, CardsOf(port, f), NEW p \in Port, port[p].size > 0, NEW val
  PROVE  CardsOf([port EXCEPT ![p].data = val], f)
<1> DEFINE c == [port[p] EXCEPT !.data = val]
           o == [port EXCEPT ![p] = c]
<1>1. /\ port[p] = [size |-> port[p].size, is_ram |-> port[p].is_ram, data |-> port[p].data]
      /\ port[p].size \in Nat /\ port[p].is_ram \in BOOLEAN
      /\ port[p].is_ram => f.port[p].writable /\ Accepted(p, port[p].size)
  BY DEF CardsOf, CardOf
<1>2. c = [size |-> port[p].size, is_ram |-> port[p].is_ram, data |-> val]
  <2> DEFINE size == port[p].size
             is_ram == port[p].is_ram
             data == port[p].data
  <2>1. port[p] = [size |-> size, is_ram |-> is_ram, data |-> data]
    BY <1>1
  <2> HIDE DEF size, is_ram, data
  <2>2. [port[p] EXCEPT !.data = val] = [size |-> size, is_ram |-> is_ram, data |-> val]
    BY <2>1
  <2> QED BY <2>2 DEF size, is_ram
<1> HIDE DEF c
<1>3. /\ c.size = port[p].size /\ c.is_ram = port[p].is_ram /\ c.data = val
      /\ c = [size |-> c.size, is_ram |-> c.is_ram, data |-> c.data]
  BY <1>2
<1>4. CardOf(p, c, f.port[p])
  BY <1>1, <1>3 DEF CardOf
<1>5. DOMAIN port = Port
  BY DEF CardsOf
<1>6. DOMAIN o = Port /\ o[p] = c /\ \A q \in Port : q # p => o[q] = port[q]
  BY <1>5
<1> HIDE DEF o
<1>7. CardsOf(o, f)
  BY <1>4, <1>6 DEF CardsOf
<1> QED BY <1>7 DEF o, c

LEMMA ExecuteInv ==
  ASSUME IInv, NEW o \in setup.rom, NEW env \in setup.env, Execute(o, env)
  PROVE  IInv'
<1> DEFINE q == AfterInstruction(Effect(m, o), setup.period, env)
<1>1. IsPeriod(setup.period) /\ IsOperation(o) /\ IsHost(env)
  BY InSetup DEF IInv
<1>2. power = "on" /\ Possible(m, o) /\ Serves(m) /\ CardsOf(m.port, files)
  BY DEF IInv, Execute, Running, MemoryPart, FilePart
<1>3. /\ Serves(q) /\ q.speaker_counter = m.speaker_counter
      /\ o.op # "card" => q.port = m.port
      /\ o.op = "card" => q.port = [m.port EXCEPT ![o.port].data = o.val]
  BY <1>1, <1>2, ExecuteServes
<1>4. /\ m' = q
      /\ UNCHANGED <<setup, power, loaded, toggles, mainVars, fileVars>>
  BY DEF Execute
<1> HIDE DEF q
<1>5. CardsOf(q.port, files)
  <2>1. CASE o.op # "card"
    BY <1>2, <1>3, <2>1
  <2>2. CASE o.op = "card"
    <3>1. o.port \in Port /\ m.port[o.port].size > 0
      BY <1>1, <1>2, <2>2 DEF IsOperation, Possible
    <3> DEFINE port == m.port
               p == o.port
               val == o.val
    <3>2. CardsOf(port, files) /\ p \in Port /\ port[p].size > 0
      BY <1>2, <3>1
    <3> HIDE DEF port, p, val
    <3>3. CardsOf([port EXCEPT ![p].data = val], files)
      BY <3>2, CardWritten
    <3> QED BY <1>3, <2>2, <3>3 DEF port, p, val
  <2> QED BY <2>1, <2>2
<1>6. ThreadPart'
  BY <1>4 DEF IInv, ThreadPart, mainVars
<1>7. SpeakerPart'
  BY <1>3, <1>4 DEF IInv, SpeakerPart
<1> QED BY <1>2, <1>3, <1>4, <1>5, <1>6, <1>7, ThreadStep

LEMMA LoadCounterInv == ASSUME IInv, LoadCounter PROVE IInv'
<1>1. power = "on" /\ Serves(m) /\ CardsOf(m.port, files) /\ m' = m
      /\ UNCHANGED <<setup, power, toggles, mainVars, fileVars>>
  BY DEF IInv, LoadCounter, Running, MemoryPart, FilePart
<1>2. ThreadPart'
  BY <1>1 DEF IInv, ThreadPart, mainVars
<1>3. SpeakerPart'
  BY DEF IInv, SpeakerPart, LoadCounter
<1> QED BY <1>1, <1>2, <1>3, ThreadStep

LEMMA ServesAttended == ASSUME NEW n, Serves(n) PROVE Memory(n) /\ Attended(n)
  BY DEF Serves, Attended

(* The fields of the port, the drawing and the speaker matter to the speaker only. *)
LEMMA OutsideServes ==
  ASSUME NEW n, Serves(n), NEW o, DOMAIN o = DOMAIN n,
         \A f \in MemoryFields \ {"speaker_counter", "last_state", "flipable"} : o[f] = n[f]
  PROVE  Serves(o) /\ o.port = n.port
<1>1. Memory(n) /\ n.line_counter \in Int
  BY DEF Serves, Memory, Asked
<1>2. \A f \in MemoryFields \ Outside : o[f] = n[f]
  BY DEF Outside
<1>3. o.port = n.port /\ o.line_counter = n.line_counter
  BY DEF MemoryFields
<1> QED BY <1>1, <1>2, <1>3, OutsideField

LEMMA StoreCounterInv ==
  ASSUME IInv, NEW env \in setup.env, StoreCounter(env)
  PROVE  IInv'
<1> DEFINE count == loaded + 1
           state == ~m.last_state
           o == [m EXCEPT !.speaker_counter = count, !.last_state = state]
           q == AfterInstruction(o, setup.period, env)
<1>1. IsPeriod(setup.period) /\ IsHost(env)
  BY InSetup DEF IInv
<1>2. power = "on" /\ loaded # None /\ Serves(m) /\ CardsOf(m.port, files)
  BY DEF IInv, StoreCounter, MemoryPart, FilePart
<1>3. /\ m' = q /\ loaded' = None /\ toggles' = toggles + 1
      /\ UNCHANGED <<setup, power, mainVars, fileVars>>
  BY DEF StoreCounter
<1>4. DOMAIN m = MemoryFields
  BY <1>2 DEF Serves, Memory, Good
<1> HIDE DEF count, state
<1>5. /\ DOMAIN o = DOMAIN m /\ o.speaker_counter = count
      /\ \A f \in MemoryFields \ {"speaker_counter", "last_state", "flipable"} : o[f] = m[f]
  BY <1>4 DEF MemoryFields
<1> HIDE DEF o
<1>6. Serves(o) /\ o.port = m.port
  BY <1>2, <1>5, OutsideServes
<1>7. Serves(q) /\ Rest(o, q)
  BY <1>1, <1>6, ServesAttended, InstructionServes
<1> HIDE DEF q
<1>8. q.port = m.port /\ q.speaker_counter = count
  BY <1>5, <1>6, <1>7 DEF Rest
<1>9. ThreadPart'
  BY <1>3 DEF IInv, ThreadPart, mainVars
<1>10. SpeakerPart'
  <2>1. /\ toggles \in 0 .. MaxToggles /\ loaded \in 0 .. toggles /\ toggles < MaxToggles
        /\ MaxToggles \in Int
    BY <1>2, MachineAssumption DEF IInv, SpeakerPart, None
  <2> QED BY <1>3, <1>8, <2>1 DEF SpeakerPart, count
<1> QED BY <1>2, <1>3, <1>7, <1>8, <1>9, <1>10, ThreadStep

LEMMA ShutdownInv ==
  ASSUME IInv, NEW outZero, Shutdown(outZero)
  PROVE  IInv'
<1> DEFINE o == ShutdownBegin(m, outZero)
<1>1. power = "on" /\ Serves(m) /\ CardsOf(m.port, files)
  BY DEF IInv, Shutdown, Running, MemoryPart, FilePart
<1>2. m' = o /\ UNCHANGED <<setup, power, loaded, toggles, mainVars, fileVars>>
  BY DEF Shutdown
<1>3. Serves(o) /\ Rest(m, o)
  BY <1>1, ShutdownServes
<1> HIDE DEF o
<1>4. ThreadPart' /\ SpeakerPart'
  BY <1>2, <1>3 DEF IInv, ThreadPart, SpeakerPart, Rest, mainVars
<1> QED BY <1>1, <1>2, <1>3, <1>4, ThreadStep DEF Rest

LEMMA SleepInv ==
  ASSUME IInv, NEW env \in setup.env, Sleep(env)
  PROVE  IInv'
<1> DEFINE n == Alarm(m, env)
           q == AfterInstruction(n, setup.period, env)
           o == IF n.awake THEN q ELSE n
<1>1. IsPeriod(setup.period) /\ IsHost(env)
  BY InSetup DEF IInv
<1>2. power = "on" /\ Serves(m) /\ CardsOf(m.port, files)
  BY DEF IInv, Sleep, MemoryPart, FilePart
<1>3. m' = o /\ UNCHANGED <<setup, power, loaded, toggles, mainVars, fileVars>>
  BY DEF Sleep
<1>4. Still(m, n)
  BY <1>1, <1>2, AlarmStill DEF Serves, Memory
<1> HIDE DEF n
<1>5. Serves(n) /\ Rest(m, n)
  BY <1>2, <1>4, CalmServes DEF Still
<1>6. Serves(q) /\ Rest(n, q)
  BY <1>1, <1>5, ServesAttended, InstructionServes
<1> HIDE DEF q
<1>7. Serves(o) /\ Rest(m, o)
  BY <1>5, <1>6, RestOn
<1> HIDE DEF o
<1>8. ThreadPart' /\ SpeakerPart'
  BY <1>3, <1>7 DEF IInv, ThreadPart, SpeakerPart, Rest, mainVars
<1> QED BY <1>2, <1>3, <1>7, <1>8, ThreadStep DEF Rest

(* The main thread. *)
LEMMA FrameInv == ASSUME IInv, Frame PROVE IInv'
<1> USE DEF Main, fileVars
<1>1. /\ power = "on" /\ Serves(m) /\ CardsOf(m.port, files)
      /\ UNCHANGED <<setup, power, loaded, toggles, fileVars>>
  BY DEF Frame, Render, CopyLcd, ClearFlipable, AddToggles, ClearToggles,
         IInv, MemoryPart, FilePart
<1>2. DOMAIN m = MemoryFields /\ m.buffer \in [Seen -> 0 .. 15]
  BY <1>1 DEF Serves, Memory, Good, Pixels
<1>3. pc' \in {"render", "copy", "clear", "audio", "silence"}
  BY DEF Frame, Render, CopyLcd, ClearFlipable, AddToggles, ClearToggles
<1>4. texture' \in [Seen -> 0 .. 15]
  BY <1>2 DEF Frame, Render, CopyLcd, ClearFlipable, AddToggles, ClearToggles, IInv, ThreadPart
<1>5. DOMAIN audio' = {"frames", "count", "tone"} /\ audio'.frames \in 0 .. FRAMES - 1
  <2>1. DOMAIN audio = {"frames", "count", "tone"} /\ audio.frames \in 0 .. FRAMES - 1
        /\ FRAMES \in Nat \ {0}
    BY MachineAssumption DEF IInv, ThreadPart
  <2>2. CASE UNCHANGED audio
    BY <2>1, <2>2
  <2>3. CASE AddToggles
    <3> DEFINE count == audio.count + m.speaker_counter
    <3>1. audio' = [audio EXCEPT !.count = count]
      BY <2>3 DEF AddToggles
    <3> HIDE DEF count
    <3> QED BY <2>1, <3>1
  <2>4. CASE ClearToggles
    <3> DEFINE tone == audio.count >= AUDIBLE
               frames == audio.frames + 1
    <3>1. audio' = IF frames < FRAMES THEN [audio EXCEPT !.frames = frames]
                   ELSE [Quiet EXCEPT !.tone = tone]
      BY <2>4 DEF ClearToggles, NextTone
    <3>2. frames \in Nat
      BY <2>1
    <3> HIDE DEF tone, frames
    <3> QED BY <2>1, <3>1, <3>2 DEF Quiet
  <2> QED BY <2>2, <2>3, <2>4 DEF Frame, Render, CopyLcd, ClearFlipable
<1>6. ThreadPart'
  BY <1>1, <1>3, <1>4, <1>5 DEF IInv, ThreadPart
<1>7. Serves(m') /\ m'.port = m.port /\ m'.speaker_counter \in {0, m.speaker_counter}
  <2>1. CASE UNCHANGED m
    BY <1>1, <2>1
  <2>2. CASE ClearFlipable
    <3> DEFINE o == [m EXCEPT !.flipable = FALSE]
    <3>1. /\ DOMAIN o = DOMAIN m /\ o.speaker_counter = m.speaker_counter
          /\ \A f \in MemoryFields \ {"speaker_counter", "last_state", "flipable"} : o[f] = m[f]
      BY <1>2 DEF MemoryFields
    <3> HIDE DEF o
    <3>2. Serves(o) /\ o.port = m.port
      BY <1>1, <3>1, OutsideServes
    <3> QED BY <2>2, <3>1, <3>2 DEF ClearFlipable, o
  <2>3. CASE ClearToggles
    <3> DEFINE o == [m EXCEPT !.speaker_counter = 0]
    <3>1. /\ DOMAIN o = DOMAIN m /\ o.speaker_counter = 0
          /\ \A f \in MemoryFields \ {"speaker_counter", "last_state", "flipable"} : o[f] = m[f]
      BY <1>2 DEF MemoryFields
    <3> HIDE DEF o
    <3>2. Serves(o) /\ o.port = m.port
      BY <1>1, <3>1, OutsideServes
    <3> QED BY <2>3, <3>1, <3>2 DEF ClearToggles, o
  <2> QED BY <2>1, <2>2, <2>3 DEF Frame, Render, CopyLcd, AddToggles
<1>8. SpeakerPart'
  BY <1>1, <1>7 DEF IInv, SpeakerPart
<1> QED BY <1>1, <1>6, <1>7, <1>8, ThreadStep

LEMMA CrashInv == ASSUME IInv, Crash PROVE IInv'
<1>1. power' = "off" /\ power # "off"
      /\ UNCHANGED <<setup, emuVars, mainVars, fileVars>>
  BY DEF Crash
<1> QED BY <1>1 DEF IInv, ThreadPart, MemoryPart, SpeakerPart, FilePart, emuVars, mainVars, fileVars

LEMMA QuitInv == ASSUME IInv, Quit PROVE IInv'
<1>1. /\ power = "on" /\ power' = "saving" /\ kept' = <<>>
      /\ save' = [file |-> 1, open |-> FALSE]
      /\ UNCHANGED <<setup, emuVars, mainVars, files>>
  BY DEF Quit
<1>2. ThreadPart' /\ MemoryPart' /\ SpeakerPart'
  BY <1>1 DEF IInv, ThreadPart, MemoryPart, SpeakerPart, emuVars, mainVars
<1>3. DOMAIN save' = {"file", "open"} /\ save'.file = 1
  BY <1>1
<1>4. Len(WriteOrder(m.port)) \in Nat /\ 2 <= Len(WriteOrder(m.port))
  BY Ordered DEF Order
<1>5. FilePart'
  <2>1. files' = files /\ m' = m
    BY <1>1 DEF emuVars
  <2>2. AreFiles(files) /\ CardsOf(m.port, files)
    BY <1>1 DEF IInv, FilePart
  <2>3. 1 \in 1 .. Len(WriteOrder(m.port)) /\ 1 .. (1 - 1) = {}
    BY <1>4
  <2> QED BY <1>1, <1>3, <2>1, <2>2, <2>3 DEF FilePart
<1> QED BY <1>2, <1>5 DEF IInv

LEMMA StartInv == ASSUME IInv, Start PROVE IInv'
<1>0. PICK time \in setup.times : m' = PowerOn(files, setup.period, time)
  BY DEF Start
<1>1. IsPeriod(setup.period) /\ AreFiles(files) /\ setup.times \subseteq [CLOCK -> 0 .. 15]
  BY InSetup DEF IInv, FilePart
<1> DEFINE n == PowerOn(files, setup.period, time)
<1>2. Serves(n) /\ CardsOf(n.port, files) /\ n.speaker_counter = 0
  BY <1>0, <1>1, PowerOnServes
<1>3. /\ power' = "on" /\ m' = n /\ loaded' = None
      /\ pc' = "render" /\ texture' = [p \in Seen |-> Dark] /\ audio' = Quiet
      /\ UNCHANGED <<setup, toggles, files, kept>>
  BY <1>0 DEF Start, n
<1> HIDE DEF n
<1>4. ThreadPart'
  BY <1>3, MachineAssumption DEF IInv, ThreadPart, Quiet, Dark
<1>5. MemoryPart'
  BY <1>2, <1>3 DEF MemoryPart, Serves
<1>6. SpeakerPart'
  BY <1>2, <1>3 DEF IInv, SpeakerPart
<1>7. FilePart'
  BY <1>2, <1>3 DEF IInv, FilePart
<1> QED BY <1>4, <1>5, <1>6, <1>7 DEF IInv

(* write_files() writes a file that it has to write, and has saved those before. *)
LEMMA SavingNow ==
  ASSUME IInv, power = "saving"
  PROVE  /\ AreFiles(files) /\ CardsOf(m.port, files) /\ kept = <<>>
         /\ IsSaturn(m.saturn) /\ m.ram \in [RAM -> 0 .. 15]
         /\ File \in Writable(m.port) /\ DOMAIN save = {"file", "open"}
         /\ save.file \in 1 .. Len(WriteOrder(m.port))
<1>1. /\ AreFiles(files) /\ CardsOf(m.port, files) /\ kept = <<>>
      /\ DOMAIN save = {"file", "open"}
      /\ save.file \in 1 .. Len(WriteOrder(m.port))
  BY DEF IInv, FilePart
<1>2. File \in Writable(m.port)
  BY <1>1, Ordered DEF Order, File
<1>3. IsSaturn(m.saturn) /\ m.ram \in [RAM -> 0 .. 15]
  BY DEF IInv, MemoryPart, Memory, Good, Pixels
<1> QED BY <1>1, <1>2, <1>3

LEMMA EarlierKept ==
  ASSUME IInv, power = "saving", NEW g, Apart(files, g, File)
  PROVE  /\ \A i \in 1 .. save.file - 1 : Saved(g, m, WriteOrder(m.port)[i])
         /\ CardsOf(m.port, g)
<1> DEFINE o == WriteOrder(m.port)
<1>1. /\ Len(o) \in Nat /\ \A i \in 1 .. Len(o) : o[i] \in Writable(m.port)
      /\ \A i, j \in 1 .. Len(o) : o[i] = o[j] => i = j
  BY Ordered DEF Order
<1>2. save.file \in 1 .. Len(o) /\ File \in Writable(m.port) /\ CardsOf(m.port, files)
  BY SavingNow
<1>3. \A i \in 1 .. save.file - 1 : Saved(files, m, o[i])
  BY DEF IInv, FilePart
<1>4. File = o[save.file]
  BY DEF File
<1> HIDE DEF o
<1>5. /\ \A other \in {"conf", "ram"} \cup Port : other # File /\ Saved(files, m, other) => Saved(g, m, other)
      /\ CardsOf(m.port, g)
  BY <1>2, ApartKeeps
<1>6. ASSUME NEW i \in 1 .. save.file - 1
      PROVE  Saved(g, m, o[i])
  <2>1. i \in 1 .. Len(o) /\ i # save.file
    BY <1>1, <1>2
  <2>2. o[i] # File /\ o[i] \in {"conf", "ram"} \cup Port
    BY <1>1, <1>2, <1>4, <2>1 DEF Writable
  <2> QED BY <1>3, <1>5, <2>2
<1> QED BY <1>5, <1>6 DEF o

LEMMA TruncateInv == ASSUME IInv, Truncate PROVE IInv'
<1>1. /\ power = "saving" /\ UNCHANGED <<setup, emuVars, mainVars, power, kept>>
      /\ save' = [save EXCEPT !.open = TRUE]
  BY DEF Truncate, Saving
<1>2. PICK size \in CutSizes(m, File) : files' = Cut(files, File, size)
  BY DEF Truncate
<1>3. /\ AreFiles(files) /\ CardsOf(m.port, files) /\ kept = <<>>
      /\ File \in Writable(m.port) /\ DOMAIN save = {"file", "open"}
      /\ save.file \in 1 .. Len(WriteOrder(m.port))
  BY <1>1, SavingNow
<1>4. AreFiles(files') /\ Apart(files, files', File)
  BY <1>2, <1>3, CutApart
<1>5. /\ \A i \in 1 .. save.file - 1 : Saved(files', m, WriteOrder(m.port)[i])
      /\ CardsOf(m.port, files')
  BY <1>1, <1>4, EarlierKept
<1>6. DOMAIN save' = {"file", "open"} /\ save'.file = save.file
  BY <1>1, <1>3
<1>7. FilePart'
  <2>1. m' = m /\ kept' = <<>> /\ power' = "saving"
    BY <1>1, <1>3 DEF emuVars
  <2> QED BY <1>3, <1>4, <1>5, <1>6, <2>1 DEF FilePart
<1>8. ThreadPart' /\ MemoryPart' /\ SpeakerPart'
  BY <1>1 DEF IInv, ThreadPart, MemoryPart, SpeakerPart, emuVars, mainVars
<1> QED BY <1>7, <1>8 DEF IInv

LEMMA FinishFileInv == ASSUME IInv, FinishFile PROVE IInv'
<1> DEFINE n == Len(WriteOrder(m.port))
<1>1. /\ power = "saving" /\ UNCHANGED <<setup, emuVars, mainVars>>
      /\ files' = Whole(files, m, File)
      /\ save' = [file |-> save.file + 1, open |-> FALSE]
      /\ IF save.file = n
         THEN power' = "off" /\ kept' = <<[saturn |-> m.saturn, ram |-> m.ram, port |-> m.port]>>
         ELSE UNCHANGED <<power, kept>>
  BY DEF FinishFile, Saving
<1>2. /\ AreFiles(files) /\ CardsOf(m.port, files) /\ kept = <<>>
      /\ IsSaturn(m.saturn) /\ m.ram \in [RAM -> 0 .. 15]
      /\ File \in Writable(m.port) /\ save.file \in 1 .. n
  BY <1>1, SavingNow
<1>3. AreFiles(files') /\ Apart(files, files', File) /\ Saved(files', m, File)
  BY <1>1, <1>2, WholeApart
<1>4. /\ \A i \in 1 .. save.file - 1 : Saved(files', m, WriteOrder(m.port)[i])
      /\ CardsOf(m.port, files')
  BY <1>1, <1>3, EarlierKept
<1>5. n \in Nat /\ save.file \in Nat
  BY <1>2, Ordered DEF Order
<1>6. \A i \in 1 .. save.file : Saved(files', m, WriteOrder(m.port)[i])
  <2>1. \A i \in 1 .. save.file : i \in 1 .. save.file - 1 \/ i = save.file
    BY <1>5
  <2> QED BY <1>3, <1>4, <2>1 DEF File
<1>7. m' = m
  BY <1>1 DEF emuVars
<1>8. ThreadPart' /\ MemoryPart' /\ SpeakerPart'
  <2>1. power' \in {"saving", "off"}
    BY <1>1
  <2> QED BY <1>1, <2>1 DEF IInv, ThreadPart, MemoryPart, SpeakerPart, emuVars, mainVars
<1>9. CASE save.file = n
  <2> DEFINE k == [saturn |-> m.saturn, ram |-> m.ram, port |-> m.port]
  <2>1. power' = "off" /\ kept' = <<k>>
    BY <1>1, <1>9
  <2>2. \A name \in Writable(m.port) : Saved(files', m, name)
    BY <1>6, <1>9, Ordered DEF Order
  <2>3. IsKept(k, files')
    <3>1. \A p \in Port : files'.port[p].size \in Nat \cup {Absent}
      BY <1>3 DEF AreFiles
    <3> QED BY <1>2, <1>4, <2>2, <3>1, AllSaved
  <2> HIDE DEF k
  <2>4. kept'[1] = k
    BY <2>1
  <2>5. FilePart'
    BY <1>3, <2>1, <2>3, <2>4 DEF FilePart
  <2> QED BY <1>8, <2>5 DEF IInv
<1>10. CASE save.file # n
  <2>1. power' = "saving" /\ kept' = <<>>
    BY <1>1, <1>2, <1>10
  <2>2. DOMAIN save' = {"file", "open"} /\ save'.file = save.file + 1
    BY <1>1
  <2>3. save.file + 1 \in 1 .. n /\ (save.file + 1) - 1 = save.file
    BY <1>2, <1>5, <1>10
  <2>4. FilePart'
    BY <1>3, <1>4, <1>6, <1>7, <2>1, <2>2, <2>3 DEF FilePart
  <2> QED BY <1>8, <2>4 DEF IInv
<1> QED BY <1>9, <1>10

LEMMA Invariant == Spec => []IInv
<1>1. ASSUME IInv, [Next]_vars PROVE IInv'
  <2>1. CASE Emulator
    BY <1>1, <2>1, ExecuteInv, StoreCounterInv, SleepInv DEF Emulator
  <2>2. CASE LoadCounter
    BY <1>1, <2>2, LoadCounterInv
  <2>3. CASE \E outZero \in setup.shutdown : Shutdown(outZero)
    BY <1>1, <2>3, ShutdownInv
  <2>4. CASE Frame
    BY <1>1, <2>4, FrameInv
  <2>5. CASE Quit \/ Crash \/ Start
    BY <1>1, <2>5, QuitInv, CrashInv, StartInv
  <2>6. CASE Truncate \/ FinishFile
    BY <1>1, <2>6, TruncateInv, FinishFileInv
  <2>7. CASE UNCHANGED vars
    <3>1. UNCHANGED <<setup, power, emuVars, mainVars, fileVars>>
      BY <2>7 DEF vars
    <3> QED BY <1>1, <3>1 DEF IInv, ThreadPart, MemoryPart, SpeakerPart, FilePart,
                             emuVars, mainVars, fileVars
  <2> QED BY <1>1, <2>1, <2>2, <2>3, <2>4, <2>5, <2>6, <2>7 DEF Next
<1> QED BY <1>1, InitInv, PTL DEF Spec

(* Whatever the ROM, the host and the files of before, the registers, the caches
   of the LCD, the requests and the counters of the two threads keep their
   ranges (memory.c, actions.c, lcd_mac.c, main_sdl.c). *)
THEOREM MachineTypeOK == Spec => []TypeOK
<1>1. ASSUME IInv PROVE TypeOK
  <2>1. /\ IsSaturn(m.saturn) /\ m.ram \in [RAM -> 0 .. 15]
        /\ m.touched \subseteq Requests /\ m.display_touched \in 0 .. DISP_INSTR_OFF
        /\ m.disp_buf \in [Cell -> 0 .. 15 \cup {None}] /\ m.lcd_buffer \in [Cell -> 0 .. 15 \cup {None}]
        /\ m.buffer \in [Seen -> 0 .. 15]
    BY <1>1 DEF IInv, MemoryPart, Memory, Good, Asked, Pixels
  <2>2. /\ power \in {"on", "saving", "off"}
        /\ pc \in {"render", "copy", "clear", "audio", "silence"}
        /\ texture \in [Seen -> 0 .. 15] /\ audio.frames \in 0 .. FRAMES - 1
    BY <1>1 DEF IInv, ThreadPart
  <2>3. \A name \in RegisterNames \ {"timer1", "timer2"} :
          m.saturn[name] \in 0 .. 16 ^ Width(name) - 1
    <3>1. RegisterNames \subseteq AllNames
      BY DEF RegisterNames, Registers, AllNames, Single, OneByte, TwoBytes, FourBytes
    <3>2. \A name \in RegisterNames : Fits(name, m.saturn[name])
      BY <2>1, <3>1, Known DEF IsSaturn
    <3> QED BY <3>2 DEF Fits
  <2>4. m.saturn.timer1 \in 0 .. 127 /\ m.saturn.timer2 >= -LATEST
    <3>1. m.saturn.timer1 \in 0 .. 127 /\ m.saturn.timer2 \in -LATEST .. MaxWord32
      BY <2>1, SaturnValues
    <3> QED BY <3>1
  <2>5. m.saturn.PC \in {"main", "handler", "service"}
    BY <2>1, SaturnValues
  <2>6. m.speaker_counter \in 0 .. MaxToggles
    BY <1>1, MachineAssumption DEF IInv, SpeakerPart, None
  <2>7. \A p \in Cell : {m.disp_buf[p], m.lcd_buffer[p]} \subseteq 0 .. 15 \cup {None}
    BY <2>1
  <2>8. \A p \in Seen : {m.buffer[p], texture[p]} \subseteq 0 .. 15
    BY <2>1, <2>2
  <2>9. m.touched \subseteq {"contrast", "ann", "baud", "ioc", "rbr", "tbr", "t1", "t2"}
    BY <2>1 DEF Requests
  <2> QED BY <2>1, <2>2, <2>3, <2>4, <2>5, <2>6, <2>7, <2>8, <2>9 DEF TypeOK
<1> QED BY <1>1, Invariant, PTL

(* The layout of the display is always the one that init_display() would derive
   from the registers: also between the writes of their nibbles, after each
   start from files, and whatever else uses the registers. *)
THEOREM LayoutFollowsRegisters == Spec => []DisplayFollowsRegisters
<1>1. ASSUME IInv PROVE DisplayFollowsRegisters
  <2>1. Follows(m.display, m.saturn)
    BY <1>1 DEF IInv, MemoryPart, Memory, Layouted
  <2> QED BY <2>1, FollowsLayout DEF DisplayFollowsRegisters
<1> QED BY <1>1, Invariant, PTL

(* No instruction begins with a request that check_devices() has not seen, and a
   drawing that is due is counted down and not passed over, whatever the
   instructions, the host's clock and the alarms (device.c, emulate.c). *)
THEOREM EveryRequestServed == Spec => []RequestsServed
<1>1. ASSUME IInv PROVE RequestsServed
  <2>1. power = "on" => AtStart(m) \/ Scheduled(m)
    BY <1>1 DEF IInv, MemoryPart, Serves
  <2> QED BY <2>1 DEF RequestsServed, AtStart, Scheduled
<1> QED BY <1>1, Invariant, PTL

(* A display that is on and has been drawn shows the memory in every row, through
   the two caches of lcd_mac.c: no write to memory or to the layout, no drawing
   that starts late and no change of layout leaves an old nibble to be seen. *)
THEOREM WhatIsDrawnIsStored == Spec => []DrawnAsStored
<1>1. ASSUME IInv PROVE DrawnAsStored
  <2> DEFINE d == m.display
  <2>1. Pixels(m) /\ Image(m)
    BY <1>1 DEF IInv, MemoryPart, Memory
  <2> SUFFICES ASSUME power = "on", d.on, m.drawn,
                      NEW p \in Seen, p[1] <= d.lines + MENU_ROWS, OwnPlace(p)
               PROVE  m.buffer[p] = read_nibble(m, AddressOf(p))
    BY DEF DrawnAsStored
  <2>2. p \in Cell
    BY SeenCells
  <2>3. p \in Shown(d)
    <3>1. p[2] \in Nat /\ p[2] < NIBBLES_PER_ROW
      BY LcdAssumption, IoAssumption DEF Seen
    <3>2. RowLength(d, p[1]) \in {NIBBLES_PER_ROW, NIBBLES_PER_ROW + 2}
      BY IoAssumption DEF RowLength
    <3>3. p[2] < RowLength(d, p[1])
      BY <3>1, <3>2, IoAssumption
    <3> QED BY <2>2, <3>3 DEF Shown, OwnPlace
  <2>4. m.disp_buf[p] = read_nibble(m, AddressOf(p))
    BY <2>1, <2>3 DEF Image, AddressOf
  <2>5. read_nibble(m, AddressOf(p)) \in 0 .. 15
    BY <2>1, NibbleRead DEF Pixels, Level
  <2>6. m.disp_buf[p] # None
    BY <2>4, <2>5 DEF None
  <2>7. m.lcd_buffer[p] = m.disp_buf[p] /\ m.lcd_buffer[p] # None
    BY <2>1, <2>2, <2>6 DEF Pixels
  <2>8. m.buffer[p] = m.lcd_buffer[p]
    BY <2>1, <2>7 DEF Pixels
  <2> QED BY <2>4, <2>7, <2>8
<1> QED BY <1>1, Invariant, PTL

(* A start after a saving that was not cut short finds again all that was saved,
   the registers, the RAM but for its clock, and the RAM cards: write_files() and
   read_files() agree on every value that the program can save. *)
THEOREM StartRestores == Spec => RestoresSaved
<1>1. ASSUME IInv, [Next]_vars, power = "off", power' = "on", kept # <<>>
      PROVE  /\ m'.saturn = [ConfigInit(kept[1].saturn) EXCEPT !.card_status = CardStatus(m'.port)]
             /\ \A a \in RAM \ (CLOCK \cup {TIMEOUTCLK}) : m'.ram[a] = kept[1].ram[a]
             /\ \A p \in Port : kept[1].port[p].is_ram => m'.port[p] = kept[1].port[p]
  <2>1. Start
    <3>1. ~Emulator /\ ~LoadCounter /\ ~Frame /\ ~Quit /\ ~Truncate /\ ~FinishFile /\ ~Crash
      BY <1>1 DEF Emulator, Execute, StoreCounter, Sleep, LoadCounter, Running, Frame, Render, CopyLcd,
                  ClearFlipable, AddToggles, ClearToggles, Main, Quit, Truncate, FinishFile, Saving, Crash
    <3>2. \A outZero : ~Shutdown(outZero)
      BY <1>1 DEF Shutdown, Running
    <3>3. ~UNCHANGED vars
      BY <1>1 DEF vars
    <3> QED BY <1>1, <3>1, <3>2, <3>3 DEF Next
  <2>2. IsKept(kept[1], files)
    BY <1>1 DEF IInv, FilePart
  <2>3. PICK time \in setup.times : m' = PowerOn(files, setup.period, time)
    BY <2>1 DEF Start
  <2> DEFINE n == PowerOn(files, setup.period, time)
             k == kept[1]
  <2>4. /\ n.saturn = [ConfigInit(k.saturn) EXCEPT !.card_status = CardStatus(n.port)]
        /\ n.ram = set_accesstime(k.ram, time)
        /\ \A p \in Port : k.port[p].is_ram => n.port[p] = k.port[p]
    BY <2>2, Restarted
  <2> HIDE DEF n, k
  <2>5. \A a \in RAM \ (CLOCK \cup {TIMEOUTCLK}) : n.ram[a] = k.ram[a]
    BY <2>4 DEF set_accesstime
  <2>6. m' = n
    BY <2>3 DEF n
  <2> QED BY <2>4, <2>5, <2>6 DEF k
<1>2. ASSUME IInv, [Next]_vars
      PROVE  [ power = "off" /\ power' = "on" /\ kept # <<>> =>
                 /\ m'.saturn = [ConfigInit(kept[1].saturn) EXCEPT !.card_status = CardStatus(m'.port)]
                 /\ \A a \in RAM \ (CLOCK \cup {TIMEOUTCLK}) : m'.ram[a] = kept[1].ram[a]
                 /\ \A p \in Port : kept[1].port[p].is_ram => m'.port[p] = kept[1].port[p]
             ]_vars
  BY <1>1, <1>2
<1> QED BY <1>2, Invariant, PTL DEF Spec, RestoresSaved
===============================================================================
