------------------------------- MODULE Machine -------------------------------
(***************************************************************************)
(* The calculator and the program around it, from one start to the next:   *)
(* the emulator thread, which executes instructions that use the I/O       *)
(* registers, draws and sleeps; the SDL main thread, which shows the LCD   *)
(* and sounds the speaker from memory that both threads use without a      *)
(* lock; and the state files, which the main thread writes when the        *)
(* program ends and which a crash leaves as they are.                      *)
(*                                                                         *)
(* A setup is a ROM, as the set of the operations it executes in any       *)
(* order, the host it runs on, and the files it starts from.               *)
(***************************************************************************)
EXTENDS Scheduler, StateFiles

CONSTANTS
  Setups,     (* records .rom .env .times .period .files .toggle .shutdown .main .quit *)
  CLOCK,      (* the RAM's nibbles of ACCESSTIME, ACCESSCRC and TIMEOUT *)
  TIMEOUTCLK, (* the nibble that says that TIMEOUT counts *)
  FRAMES,     (* frames the speaker's toggles are counted for: 6 *)
  AUDIBLE,    (* toggles in as many frames from which there is a tone: 5 *)
  MaxToggles  (* bound: how often the ROM toggles the speaker *)

(* The values of a field of struct saturn: a register has as many nibbles as it
   has addresses. *)
Width(name) == (CHOOSE r \in Registers : r[1] = name)[3]
Fits(name, v) ==
  /\ name \in RegisterNames \ {"timer1", "timer2"} => v \in 0 .. 16 ^ Width(name) - 1
  /\ name = "timer1" => v \in 0 .. 127
  /\ name = "timer2" => v \in -LATEST .. MaxWord32
  /\ name \in {"t1_tick", "t2_tick"} => v \in Short
  /\ name = "MP" => v \in {0, 1}
  /\ name \in Flag => v \in BOOLEAN
  /\ name \in Place => v \in {"main", "handler", "service"}
  /\ name \notin Number \cup Flag \cup Place => v \in Seq(Octet) /\ Len(v) = Size(FieldOf(name))
IsSaturn(s) == s = [name \in Names |-> s[name]] /\ \A name \in Names : Fits(name, s[name])

(* The files of a session before, cut or whole, or none. *)
AreFiles(f) ==
  /\ DOMAIN f = {"conf", "ram", "port"} /\ DOMAIN f.port = Port
  /\ f.conf \in {NoFile, <<>>} \/ IsSaturn(ReadConf(f.conf))
  /\ f.ram \in [size : Int, data : [RAM -> 0 .. 15]]
  /\ \A p \in Port : /\ DOMAIN f.port[p] = {"size", "writable", "data"}
                     /\ f.port[p].size \in Nat \cup {Absent} /\ f.port[p].writable \in BOOLEAN

IsOperation(o) ==
  /\ o.op \in {"write", "poll"} => o.addr \in \h100 .. \h13f
  /\ o.op \in {"write", "store"} => o.val \in 0 .. 15
  /\ o.op \in {"poll", "store"} => o.to \in RAM
  /\ o.op = "card" => o.port \in Port

Countdown == {"timer1", "timer2", "adjtime", "receive", "statistics"}
IsHost(env) ==
  /\ env.elapsed \in Nat /\ env.lag \in Nat
  /\ env.ticks \in Short \X Short /\ env.key \in BOOLEAN

ASSUME MachineAssumption ==
  /\ RAM \subseteq Nat /\ CLOCK \subseteq RAM /\ TIMEOUTCLK \in RAM \ CLOCK
  /\ FRAMES \in Nat \ {0} /\ MaxToggles \in 0 .. None
  /\ \A s \in Setups :
       /\ \A o \in s.rom : IsOperation(o)
       /\ \A env \in s.env : IsHost(env)
       /\ s.times \subseteq [CLOCK -> 0 .. 15]
       /\ s.period \in [Countdown -> Int]
       /\ AreFiles(s.files)

VARIABLES
  setup,
  power,   (* "on", "saving" in write_files(), or "off" *)
  m,       (* the memory of the emulator thread *)
  loaded,  (* device.speaker_counter, read to be incremented, or None *)
  toggles, (* how often the speaker has been toggled *)
  pc,      (* where the main loop is *)
  texture, (* lcd_tex *)
  audio,   (* accum_frames, accum_count, and whether audio_delta is not 0 *)
  files,
  save,    (* write_files(): the file, as a place in WriteOrder, and if it is open *)
  kept     (* <<what was last saved>>, if no saving has been cut short since *)

emuVars == <<m, loaded, toggles>>
mainVars == <<pc, texture, audio>>
fileVars == <<files, save, kept>>
vars == <<setup, power, emuVars, mainVars, fileVars>>

-----------------------------------------------------------------------------
(* The host's time, its checksum and the end of the ROM's ten minutes, written
   straight into the RAM: nothing draws them. *)
set_accesstime(ram, time) ==
  [a \in RAM |-> IF a = TIMEOUTCLK THEN 15 ELSE IF a \in CLOCK THEN time[a] ELSE ram[a]]

(* init_emulator(), init_display() and the start of emulate(). *)
PowerOn(f, period, time) ==
  LET e == init_emulator(f)
      s == e.saturn
  IN [ saturn |-> s, ram |-> set_accesstime(e.ram, time), port |-> e.port,
       display |-> LayoutOf(s),
       touched |-> IF e.requests THEN {"contrast", "baud", "ann"} ELSE {},
       display_touched |-> IF e.requests THEN 1 ELSE 0,
       drawn |-> FALSE, device_check |-> FALSE, schedule_event |-> 0, steps |-> 0,
       sched |-> [ timer1 |-> s.t1_tick, timer2 |-> s.t2_tick, adjtime |-> period.adjtime,
                   receive |-> period.receive, statistics |-> period.statistics,
                   display |-> NEVER ],
       set_t1 |-> s.timer1, t1_ticks |-> 0, adj_time_pending |-> FALSE,
       interrupt_called |-> FALSE, awake |-> TRUE, line_counter |-> -1, old_line_offset |-> -1,
       disp_buf |-> [p \in Cell |-> None], lcd_buffer |-> [p \in Cell |-> None],
       old_offset |-> -1, old_lines |-> -1, last_annunc_state |-> -1,
       buffer |-> [p \in Seen |-> Dark], flipable |-> FALSE,
       speaker_counter |-> 0, last_state |-> FALSE ]

Quiet == [frames |-> 0, count |-> 0, tone |-> FALSE]

Init ==
  /\ setup \in Setups
  /\ files = setup.files
  /\ power = "on"
  /\ \E time \in setup.times : m = PowerOn(setup.files, setup.period, time)
  /\ loaded = None /\ toggles = 0
  /\ pc = "render" /\ texture = [p \in Seen |-> Dark] /\ audio = Quiet
  /\ save = [file |-> 1, open |-> FALSE] /\ kept = <<>>

-----------------------------------------------------------------------------
(* The emulator thread.  An operation is a record with .op. *)

(* do_return_interupt(): a pending key first, then back, and then the time. *)
Return(n) ==
  LET late == IF n.adj_time_pending THEN [n EXCEPT !.schedule_event = 0, !.sched.adjtime = 0] ELSE n
  IN IF n.saturn.int_pending
     THEN [n EXCEPT !.saturn.int_pending = FALSE, !.saturn.intenable = FALSE,
                    !.saturn.PC = "handler"]
     ELSE [late EXCEPT !.saturn.PC = n.saturn.rstk, !.saturn.intenable = TRUE]

(* Whether the ROM may execute o: it enters the service routine and returns
   from it as the handler of an interrupt. *)
Possible(n, o) ==
  CASE o.op = "service" -> n.saturn.PC = "handler"
    [] o.op = "rti" -> n.saturn.PC # "main"
    [] o.op = "card" -> n.port[o.port].is_ram /\ n.port[o.port].size > 0
    [] OTHER -> TRUE

Effect(n, o) ==
  CASE o.op = "write" ->
         LET w == write_dev_mem(n, o.addr, o.val) IN [w EXCEPT !.saturn.timer2 = Late(@)]
    [] o.op = "poll" ->
         LET r == read_dev_mem(n, o.addr) IN write_nibble(r.memory, o.to, r.nibble)
    [] o.op = "store" -> write_nibble(n, o.to, o.val)
    [] o.op = "card" -> [n EXCEPT !.port[o.port].data = o.val]
    [] o.op = "service" -> [n EXCEPT !.saturn.PC = "service"]
    [] o.op = "rti" -> Return(n)
    [] OTHER -> n

Running == power = "on" /\ m.awake /\ loaded = None

Execute(o, env) ==
  /\ Running
  /\ Possible(m, o)
  /\ m' = AfterInstruction(Effect(m, o), setup.period, env)
  /\ UNCHANGED <<setup, power, loaded, toggles, mainVars, fileVars>>

(* OUT=C with the other speaker bit: check_out_register() increments the
   counter of toggles, which another thread may clear in between. *)
LoadCounter ==
  /\ Running
  /\ toggles < MaxToggles
  /\ loaded' = m.speaker_counter
  /\ UNCHANGED <<setup, power, m, toggles, mainVars, fileVars>>

StoreCounter(env) ==
  /\ power = "on" /\ loaded # None
  /\ m' = AfterInstruction([m EXCEPT !.speaker_counter = loaded + 1, !.last_state = ~@],
                           setup.period, env)
  /\ loaded' = None
  /\ toggles' = toggles + 1
  /\ UNCHANGED <<setup, power, mainVars, fileVars>>

Shutdown(outZero) ==
  /\ Running
  /\ m.saturn.PC = "main"
  /\ m' = ShutdownBegin(m, outZero)
  /\ UNCHANGED <<setup, power, loaded, toggles, mainVars, fileVars>>

(* do_shutdown() wakes after an alarm, or goes on to sleep. *)
Sleep(env) ==
  /\ power = "on" /\ ~m.awake
  /\ LET n == Alarm(m, env)
     IN m' = IF n.awake THEN AfterInstruction(n, setup.period, env) ELSE n
  /\ UNCHANGED <<setup, power, loaded, toggles, mainVars, fileVars>>

Emulator ==
  \E env \in setup.env :
    \/ \E o \in setup.rom : Execute(o, env)
    \/ StoreCounter(env)
    \/ Sleep(env)

-----------------------------------------------------------------------------
(* The main thread: render() and update_audio(), frame by frame. *)

Main(from, to) ==
  /\ setup.main /\ power = "on" /\ pc = from
  /\ pc' = to
  /\ UNCHANGED <<setup, power, loaded, toggles, fileVars>>

Render == Main("render", IF m.flipable THEN "copy" ELSE "audio") /\ UNCHANGED <<m, texture, audio>>

CopyLcd ==
  /\ Main("copy", "clear")
  /\ texture' = m.buffer
  /\ UNCHANGED <<m, audio>>

ClearFlipable ==
  /\ Main("clear", "audio")
  /\ m' = [m EXCEPT !.flipable = FALSE]
  /\ UNCHANGED <<texture, audio>>

AddToggles ==
  /\ Main("audio", "silence")
  /\ audio' = [audio EXCEPT !.count = @ + m.speaker_counter]
  /\ UNCHANGED <<m, texture>>

(* Mutant: the toggles are counted on and on. *)
NextToneKept(a) ==
  IF a.frames + 1 < FRAMES THEN [a EXCEPT !.frames = @ + 1]
  ELSE [a EXCEPT !.frames = 0, !.tone = a.count >= AUDIBLE]

(* The tone after as many frames; the counts begin again. *)
NextTone(a) ==
  IF a.frames + 1 < FRAMES THEN [a EXCEPT !.frames = @ + 1]
  ELSE [Quiet EXCEPT !.tone = a.count >= AUDIBLE]

ClearToggles ==
  /\ Main("silence", "render")
  /\ m' = [m EXCEPT !.speaker_counter = 0]
  /\ audio' = NextTone(audio)
  /\ UNCHANGED texture

Frame == Render \/ CopyLcd \/ ClearFlipable \/ AddToggles \/ ClearToggles

-----------------------------------------------------------------------------
(* The end of the program and its next start. *)

(* main() has joined the emulator thread. *)
Quit ==
  /\ setup.quit
  /\ power = "on" /\ loaded = None
  /\ power' = "saving"
  /\ save' = [file |-> 1, open |-> FALSE]
  /\ kept' = <<>>
  /\ UNCHANGED <<setup, emuVars, mainVars, files>>

Saving == power = "saving" /\ UNCHANGED <<setup, emuVars, mainVars>>
File == WriteOrder(m.port)[save.file]

Truncate ==
  /\ Saving
  /\ ~save.open
  /\ \E size \in CutSizes(m, File) : files' = Cut(files, File, size)
  /\ save' = [save EXCEPT !.open = TRUE]
  /\ UNCHANGED <<power, kept>>

FinishFile ==
  /\ Saving
  /\ save.open
  /\ files' = Whole(files, m, File)
  /\ save' = [file |-> save.file + 1, open |-> FALSE]
  /\ IF save.file = Len(WriteOrder(m.port))
     THEN power' = "off" /\ kept' = <<[saturn |-> m.saturn, ram |-> m.ram, port |-> m.port]>>
     ELSE UNCHANGED <<power, kept>>

(* A file cannot be written, or the program crashes. *)
Crash ==
  /\ setup.quit
  /\ power # "off"
  /\ power' = "off"
  /\ UNCHANGED <<setup, emuVars, mainVars, fileVars>>

Start ==
  /\ power = "off"
  /\ power' = "on"
  /\ \E time \in setup.times : m' = PowerOn(files, setup.period, time)
  /\ loaded' = None
  /\ save' = [file |-> 1, open |-> FALSE]
  /\ pc' = "render" /\ texture' = [p \in Seen |-> Dark] /\ audio' = Quiet
  /\ UNCHANGED <<setup, toggles, files, kept>>

Next ==
  \/ Emulator
  \/ setup.toggle /\ LoadCounter
  \/ \E outZero \in setup.shutdown : Shutdown(outZero)
  \/ Frame
  \/ Quit \/ Truncate \/ FinishFile \/ Crash \/ Start

Interrupted == Running /\ m.saturn.PC # "main" /\ [op |-> "rti"] \in setup.rom
ReturnFromInterrupt == \E env \in setup.env, o \in setup.rom : o.op = "rti" /\ Execute(o, env)

(* Timer 2 has run out and may interrupt, and that has not been noticed. *)
Expired == /\ power = "on" /\ m.saturn.timer2 <= 0
           /\ Bit(m.saturn.t2_ctrl, 1) /\ ~Bit(m.saturn.t2_ctrl, 3)

(* The main thread goes on, and so does the emulator thread: awake it executes
   instructions, the ROM returns from its handler, and asleep alarms are raised
   every 20 ms.  The last three are weak fairness with what enables the steps
   spelled out, and of the steps asleep only those needed that change anything. *)
Fairness ==
  /\ WF_vars(Frame)
  /\ <>[]Running => []<><<Emulator>>_vars
  /\ <>[]Interrupted => []<><<ReturnFromInterrupt>>_vars
  /\ <>[](~m.awake /\ Expired) => []<><<Emulator>>_vars

Spec == Init /\ [][Next]_vars /\ Fairness

-----------------------------------------------------------------------------
(* The registers keep their widths, and the countdown to a drawing never goes
   below 0, whatever the instructions between two calls of schedule().  Timer 1, a
   char, is not negative, but it has more than its nibble when the host's clock is
   so far ahead that the difference is not (actions.c:647). *)
TypeOK ==
  /\ power \in {"on", "saving", "off"}
  /\ pc \in {"render", "copy", "clear", "audio", "silence"}
  /\ \A name \in RegisterNames \ {"timer1", "timer2"} :
       m.saturn[name] \in 0 .. 16 ^ Width(name) - 1
  /\ m.saturn.timer1 \in 0 .. 127 /\ m.saturn.timer2 >= -LATEST
  /\ m.saturn.PC \in {"main", "handler", "service"}
  /\ m.touched \subseteq {"contrast", "ann", "baud", "ioc", "rbr", "tbr", "t1", "t2"}
  /\ m.display_touched \in 0 .. DISP_INSTR_OFF
  /\ m.ram \in [RAM -> 0 .. 15]
  /\ \A p \in Cell : {m.disp_buf[p], m.lcd_buffer[p]} \subseteq 0 .. 15 \cup {None}
  /\ \A p \in Seen : {m.buffer[p], texture[p]} \subseteq 0 .. 15
  /\ m.speaker_counter \in 0 .. MaxToggles
  /\ audio.frames \in 0 .. FRAMES - 1

(* The layout of the display, which each write to a register changes in part, is
   always the one init_display() would derive from all of the registers, also
   after a start from any files (write_dev_mem() of memory.c against lcd_mac.c). *)
DisplayFollowsRegisters == m.display = LayoutOf(m.saturn)

(* When an instruction begins, check_devices() has done what the instructions
   before asked for, and a drawing that is due is counted down: the scheduler
   comes back to it, and not later than it is due.  Only what a start asks for
   waits for the first use of a register (memory.c:140, device.c, emulate.c). *)
RequestsServed ==
  LET atStart == m.touched = {"contrast", "baud", "ann"} /\ m.display_touched <= 1
  IN power = "on" =>
       /\ m.touched = {} \/ atStart
       /\ m.display_touched > 0 => atStart \/ (m.device_check /\ m.schedule_event < m.display_touched)

(* The address whose nibble is to be seen at row and column p. *)
AddressOf(p) == RowAddress(m.display, p[1]) + p[2]

(* A display that is on and has been drawn since its layout changed shows the
   memory, in the rows of the display and of the menu: every write has been drawn
   in each place it is seen, whatever the order of writes to memory and to the
   layout, and however often it was off in between (lcd_mac.c, the end of
   write_nibble_sx).  schedule() may forget to draw a new layout (emulate.c:2267:
   a second change just when the first is due leaves 0 to count down).  If a
   line offset makes the rows overlap, a nibble is drawn where its row begins
   later, and not at the end of the row before (disp_draw_nibble()). *)
OwnPlace(p) == p[1] <= m.display.lines => p[2] < m.display.nibs_per_line
DrawnAsStored ==
  power = "on" /\ m.display.on /\ m.drawn =>
    \A p \in Seen : p[1] <= m.display.lines + MENU_ROWS /\ OwnPlace(p) =>
      m.buffer[p] = read_nibble(m, AddressOf(p))

(* What is drawn is shown or going to be, but for what the emulator draws
   between the main thread's copy of the LCD and its clearing of flipable: only
   that step hides anything (main_sdl.c:743-753). *)
Hidden == texture # m.buffer /\ ~m.flipable
OnlyAnOverlapHides == [][~Hidden /\ Hidden' => pc = "clear" /\ texture # m.buffer]_vars

(* When the ROM has stopped toggling the speaker the tone ends, also if toggles
   were counted twice or not at all because both threads use the counter
   (update_audio() of main_sdl.c, check_out_register() of device.c). *)
SilenceEnds == <>[](~audio.tone)

(* Unless key presses keep the ROM in its handler for ever, timer 2 that has run
   out and may interrupt is noticed, although the tick of 0 may be passed over
   when it is set by the host's clock, and although it is not looked at in the
   interrupt service routine, nor counted asleep (schedule() of emulate.c,
   do_return_interupt() and do_shutdown() of actions.c). *)
ExpiryNoticed == []<>(m.saturn.PC = "main") => (Expired ~> ~Expired)

(* A start after a saving that was not cut short restores all that was saved,
   whatever crashes and starts came before, but the state of the serial port and,
   in the RAM, the nibbles of the clock, which set_accesstime() has set by the
   host's (write_files() against read_files() of init.c, emulate() and timer.c).
   A calculator that has started afresh has no cards, and may find some when it
   starts again. *)
RestoresSaved ==
  [][ power = "off" /\ power' = "on" /\ kept # <<>> =>
        /\ m'.saturn = [ConfigInit(kept[1].saturn) EXCEPT !.card_status = CardStatus(m'.port)]
        /\ \A a \in RAM \ (CLOCK \cup {TIMEOUTCLK}) : m'.ram[a] = kept[1].ram[a]
        /\ \A p \in Port : kept[1].port[p].is_ram => m'.port[p] = kept[1].port[p]
    ]_vars
==============================================================================
