# TLA+ models of MAC48GX

MAC48GX emulates an HP-48 calculator.  A Saturn CPU core in C
(`app/src/main/jni`) runs the calculator's ROM on a thread of its own; the macOS
front end (`macos/`) draws the calculator, turns mouse and keyboard input into
button events, plays the speaker and looks for updates.  This directory holds
TLA+ specifications of the parts whose correctness depends on the order in which
threads, interrupts and user input happen, and of the CPU, the I/O registers, the
LCD, the timers and the state files behind them; the configurations with which
TLC checks them; and proofs of their main safety properties for TLAPS.

All paths below are relative to `src/`.

## 1. The system

### Threads and what they share

| thread | code | shares |
|---|---|---|
| SDL main thread | `main()` in `macos/main_sdl.c` | pushes button codes on the event queue; sets `got_alarm`; clears `exit_state`; reads `buttons[].pressed`, the LCD buffers, `flipable`, `speaker_counter`; starts and polls update checks |
| emulator thread | `emulator_thread()`, `emulate()`, `schedule()`, `do_shutdown()`, `GetEvent()` | everything in `saturn`, `device`, `display`; drains the event queue; clears `got_alarm` |
| SIGALRM | `sigalrm_handler()`, every 20 ms | sets `got_alarm` |
| audio thread | `audio_callback()` | reads `audio_delta` |
| check and install threads | `macos/update_check.c` | `upd_*` and `inst_*`, under `upd_lock` |
| test thread (`--test`) | `macos/test_cases.h` | pushes button codes, reads the RPL stack |

Only the event queue and the update state have locks.  `got_alarm`,
`exit_state`, `flipable` and `speaker_counter` are plain variables.

### Components

| component | state | operations | what makes it correct | what is hard |
|---|---|---|---|---|
| Button event queue, `macos/x48_sdl.c` | `evq_buf`, `evq_head`, `evq_tail` | `sdl_push_event`, `GetEvent` | FIFO order, each code once, nothing stuck | the consumer releases the lock in its loop; no full test |
| SDL input, `macos/main_sdl.c` | `pressed_btn`, `pending_release`, `release_after_ms`, overlays | one handler per SDL event, deferred release, exit | every press is followed by its release; a release is not early; quitting saves | swallowed key-downs, overlapping clicks, pastes, timeouts |
| Keyboard and interrupts, `key_event` in `macos/x48_sdl.c`, `actions.c` | `keybuf`, `buttons[].pressed`, `intenable`, `int_pending`, `kbd_ien`, `first_press` | `key_event`, IN, INTON, INTOFF, RSI, RTI, SHUTDN, `do_interupt`, `do_kbd_int` | no pending interrupt with interrupts on; no key seen that nobody presses | any order of instructions, interrupts and key events |
| Emulator loops, `emulate.c`, `actions.c` | `got_alarm`, `schedule_event`, `interrupt_called` | `emulate`, `schedule`, `do_shutdown` | a key wakes the CPU; the thread ends on quit | flag and queue are separate; sleep against wake-up |
| Update check and install, `macos/update_check.c`, `update_verify.c` | `upd_*`, `inst_*` | start, poll, the two threads | one thread each, answers, only verified images opened | joins, failures at each stage, two critical sections |
| Return stack, `actions.c` | `rstk`, `rstkp` | push, pop | keeps the newest 8 addresses | overflow, underflow |
| Memory controllers, `actions.c`, `memory.c` | `mem_cntl[6]`, `bank_switch`, the ports' arrays and masks | CONFIG, UNCNFG, C=ID, reset, address decode | daisy chain order; one device answers; accesses within the arrays | reads with side effects; Cmd+C swaps the map from another thread; files of cards that are missing or unusable |
| I/O registers, `memory.c` | `device`, parts of `saturn` | `read_dev_mem`, `write_dev_mem` | side effects of each nibble | several nibbles make one value |
| Timers and scheduler, `timer.c`, `emulate.c` | `timer1`, `timer2`, `sched_*` | ticks, adjustment, `add_64`, `sub_64` | timers expire, interrupts are raised once | 64-bit values in two halves, roll-over |
| Serial port, `serial.c` | `rbr`, `tbr`, `rcs`, `tcs`, a receive buffer | `transmit_char`, `receive_char` | no byte lost or doubled | buffer limits, dropped bytes |
| Devices, speaker, LCD, `device.c`, `macos/lcd_mac.c` | touched flags, `speaker_counter`, `flipable` | `check_devices`, `render`, `update_audio` | what is drawn is shown; toggles are counted | unlocked flags and counters |
| State files, `init.c` | five files in `~/.droid48` | `read_files`, `write_files` | what is saved is restored | crash between files; keys down at exit |
| Registers, `register.c` | A, B, C, D and scratch registers | arithmetic by field | agrees with decimal and hexadecimal arithmetic | carries, field masks |
| Debugger, `debugger.c` | breakpoints, `exec_flags` | `emulate_debug`, commands | leaves with `exit_state` | a second CPU loop |
| Instruction decoder, `emulate.c`, `actions.c` | registers, pointers, status bits, memory | `step_instruction()` and its decode groups | each opcode does what its mnemonic says | thousands of opcodes by nested `switch`es |
| Disassembler, `disasm.c`, and RPL decompiler, `rpl.c` | none | `disassemble()` | agrees with the decoder on lengths and destinations | the opcodes are decoded a second time |
| Not control logic | | drawing, ROM input, Android front end, test harness, monocypher | | |

`PROJECT.json` lists every component with its status, and the hazards this code
is exposed to with the properties that watch them.

## 2. The modules

    KeyFifo          what the event queue promises
      ^ implemented by EventQueue (ring buffer, unlocked windows)
      |
    KeyInput = KeyFifo + SdlInput + SaturnKeys + the emulator thread's loops
    MCKeyInput       values for KeyInput's constants

    MemoryMap        memory controllers, and Cmd+C moving RAM under the CPU
    MCMemoryMap      values for MemoryMap's constants

    Registers, ReturnStack
      ^ used by Cpu (the decoder)
      |
    Processor = Cpu + Disassembler: programs, and what they are to compute
    MCProcessor      machines and instructions for Processor

    IoRegisters
      ^ extended by Lcd, which Scheduler extends
      |
    Machine = Scheduler + StateFiles: both threads, quitting, crashing, starting
    MCMachine        ROMs, hosts and state files for Machine

    Clock            the arithmetic of the calculator's clock
    Updater          update check and install

    EventQueue_proofs, KeyInput_proofs, MemoryMap_proofs, Updater_proofs,
    Registers_proofs (used by Processor_proofs), Machine_proofs,
    RecursiveFunctions (used by Registers_proofs and Machine_proofs)

**EventQueue** is the ring buffer.  A push is one critical section and so one
action.  `GetEvent()` is the actions `Enter`, `Pop`, `Handled`, `Leave`, split
where it releases and takes the mutex.  **KeyFifo** is the queue it stands for,
with the loss of everything at `EVQ_SIZE` waiting codes stated as part of the
promise.  `ImplementsFifo` is the refinement; because it holds, KeyInput uses
the abstract queue.

**SaturnKeys** has one operator per operation of the keyboard and the interrupt
system.  A row of `keybuf` is the set of its columns; of the return stack it
keeps the depth.  `DoIn(out, repeatLoop)` takes the rows OUT selects and whether
PC is in the ROM's key-repeat routine, which `do_in()` patches.

**SdlInput** has one action per SDL event handler.  A handler's pushes and
alarms go into `outbox`, in order, and KeyInput sends them one by one, so that
the emulator thread runs between any two.  A paste is one round of this per
character.  The characters are the digits, `.`, `-` and one that stands for all
others; `PressedFor` and `ReleasedFor` are the two expressions of the paste
loop, which differ.  The 80 ms of a click are `HOLD` ticks.

**KeyInput** composes these with the emulator thread.  Its control state `emu`
is "run" before an instruction, "stepped" after it, "scheduled" before the test
of `got_alarm` in `schedule()`, "getevent" and "event" in `GetEvent()`, "block"
and "expire" in the loop of `do_shutdown()`, "gone" after the thread has
returned.  The ROM is any sequence of the instructions in `Program`; timers and
the serial port are the interrupts they may raise at the places where the code
calls them.  `Init` is the state of a first start (`init_saturn()`).

**MemoryMap** is the daisy chain of the six memory controllers, for both models
of the calculator (`opt_gx`).  CONFIG, UNCNFG and RESET are actions, C=ID is the
operator `Identification`; the ROM may use them in any order, with the values
`Offer` and `Withdrawn` hold.  `ReadFrom` and `WrittenTo` are the decoders: they
give the array and the index an access goes to, or say that it is a register,
ROM, or dropped.  The branches in which the read and the write functions agree
line by line are stated once (`RamAnswers`, `PortAnswers`); those in which they
differ, the bank registers, the cards that are read-only and the answers for
what is not there, are stated for each.  The functions with `_crc` in their name
decode as those without.  Reading a bank register switches the bank
(`BankAfter`).  The SDL thread's `read_stack_level()`, with `check_xlib()` and
`xlib_name()` which it calls for libraries, is the action `ReadStackLevel`, split
at every access to the RAM controller: `copy` says where it is, `round` which of
its two visits to the stack it makes, and `saves` holds `ram_base` and
`ram_mask` of its nested calls.  `inOrder`, `alone` and `disturbed` are history:
no UNCNFG since RESET, the controllers as the CPU alone would have made them,
and how often the CPU used the chain during a copy.  What `read_files()` makes of the
files `port1` and `port2` (`CardFiles`) is `port`: size, mask, whether the card is RAM,
and how many nibbles are allocated.  A port without a file has no memory, the default;
a file of a wrong size leaves its size without memory, one that cannot be read its
memory without a size, and on the GX an empty file passes for a card with the mask -1
(`ReadPort`).

**Registers** holds the loops of `register.c` over the nibbles of a field.  A
register is a function from its 16 nibbles; a loop that carries is the function of
its carries (`Carries`).  **ReturnStack** is the array `rstk` with its index.
**Cpu** is `step_instruction()` and the decode groups below it: an instruction is
its first seven nibbles, an operator stands for each group, and a machine is one
record.  The instructions of keyboard, interrupts and memory controllers, which
SaturnKeys and MemoryMap model, leave their name in `m.call`.  **Disassembler**
gives of each instruction the nibbles `disassemble()` consumes and where its text
says that the CPU goes.  **Processor** executes one instruction after another and
keeps in `calls` the addresses a stack that remembers the newest `NR_RSTK` would
hold.

**IoRegisters** is `write_dev_mem()`, `read_dev_mem()` and `init_display()`,
**Lcd** the drawing with its two caches, **Scheduler** everything `emulate()` does
after an instruction and `do_shutdown()` instead of one.  The memory of the emulator
thread is one record `m`, and an operator per C function maps `m` to `m`; a
`schedule()` is the composition of its parts in the code's order.  `env` is what
the host contributes to an instruction: ticks of the clock (`elapsed`), by how much
timer 2 is behind it (`lag`), the ticks the statistics come to, and whether a key
interrupts.  `m.drawn` is history: the display has been drawn since its layout
changed.  **StateFiles** lists the fields `write_files()` writes and those
`read_files()` reads, in their order and widths, so that a field that is moved in one
of them is read as another.

**Machine** composes these.  An instruction with what follows it is one action of
the emulator thread, but for the increment of `speaker_counter`, which is a load and
a store since the SDL thread clears it; the SDL thread's `render()` and
`update_audio()` are one action per access to what is shared.  `Quit` begins
`write_files()`, which truncates and finishes each file in an action of its own;
`Crash` may come anywhere and `Start` reads what is there.  Every start writes the
host's time into the RAM (`set_accesstime()`): `CLOCK` are the nibbles of ACCESSTIME,
ACCESSCRC and TIMEOUT, which take any value the host's time gives (`.times`), and
`TIMEOUTCLK` is the one that is set to 15.  A behaviour belongs to a setup: a ROM (the
set of operations it executes in any order), a host with its times, and the files it
begins with.

**Clock** is `get_t1_t2()` and `set_accesstime()` with `add_64()` and `sub_64()` on
their two halves, for any width of `unsigned long`.

**Updater** has one action per critical section, download and verification of
the check thread, the install thread and the main thread.  Releases are numbers
compared with `APP_VERSION`; a file is absent, genuine or damaged, and
`minisign_verify()` and the hash comparison accept the genuine ones only.

## 3. The runs

| run | shows | bounds |
|---|---|---|
| event_queue | refinement of KeyFifo, only pushed codes handled, no code stuck | 4 slots, one press, one release: the ring wraps and overflows in every position |
| key_input | types, masked interrupts, bits of pressed buttons, no unannounced code, saving after the join | arrow UP (a repeating key) and ON, all instructions, other interrupts, 3 slots, return stack of 1 |
| key_input_user | all keys come up | clicks on UP and 1, Escape, Cmd, overlays, pastes of `1.`; hold of 1 tick, 3 slots |
| key_input_sleep | a press wakes SHUTDN; quitting saves | one key, all masking instructions |
| memory_gx | types, unset controllers are silent, the chain is in order and C=ID tells the truth, reads against writes, array bounds on the GX | up to 3 addresses and 3 sizes for a controller, 5 addresses withdrawn, 44 addresses accessed; five pairs of files for the cards |
| memory_sx | on the SX, while Cmd+C moves RAM half by half: reads against writes, array bounds, an undisturbed copy restores everything | the chain of 5 controllers, one address withdrawn, one chain instruction during copies (`MaxDisturbed`); three pairs of files for the cards |
| memory_copy | finding: copying the stack undoes the CPU's CONFIG | MMIO and RAM on the GX, one chain instruction during copies |
| updater | one thread each, offers, verified images, answers, reports | the running release and two newer ones |
| key_input_paste | finding: a pasted 5 is neither seen by the ROM nor let go of | the text `5` |
| processor | types, the return stack against the sequence of calls, tests against each other and the order of numbers, the disassembler against the decoder, arithmetic against integers, fields against their surroundings | all 4096 beginnings of an instruction with two tails each, more operands where they matter, on 4 machines in both bases; four calls, returns, pushes and pops in a row, on stacks of 3 that are empty, nearly empty and full |
| machine | the eight properties below | twelve setups, RAM of 16 nibbles, three of them the clock's, 4 rows of 2 columns |
| clock | finding: the clock's offset moves although the clocks agree | words of 6 bits in longs of 12 |

The properties of machine: the layout is the one the registers ask for
(`DisplayFollowsRegisters`); what writes ask of `check_devices()` is done in time
(`RequestsServed`); a drawn display shows the memory (`DrawnAsStored`) and the SDL
thread shows what is drawn, unless its copy overlaps a drawing
(`OnlyAnOverlapHides`); the speaker falls silent (`SilenceEnds`); timer 2 is noticed
when it runs out (`ExpiryNoticed`); a start restores what was saved
(`RestoresSaved`).

The queue has 3 to 8 slots instead of 64.  The passing runs of KeyInput assume
that the emulator drains the queue before it overflows (`KeepsUp`, a guard of
`SendCode`), which holds for a user's hand: it produces a few codes per 20 ms.
It does not hold for long pastes (section 4).
Two buttons are enough for the interrupt system, whose operations distinguish ON
from the others, a set bit from a clear one and a repeating key from the rest;
two clickable buttons are enough for a click to overlap another.  A return stack
of 1 is filled, overflows and runs empty.  KeyInput's runs end in "saved", so they do not
check for deadlock; the other runs do.

The addresses of the memory runs are both ends of every range the decoders compare
with and of the pages, so that between two of them nothing changes.  The values of
`Offer` are constants the decoders compare a controller with, and on the SX some they
know nothing of; controller 0 gets 0x100 only (see section 5).  The files of the cards
are none, cards of 32K and 128K that are RAM or read-only, and on the GX of 3 and of
32 banks, one that cannot be read, one of no card's size, and an empty one.
memory_copy leaves the other controllers unset: the copy touches controller 1 only.

In processor, an instruction behaves by its nibbles: the two tails give every field
and pointer a small and a large operand, and the groups that look at more nibbles
have all their values (`Operand`).  The machines' registers hold digits, letters,
zeros, carries that run through a field and borrows; one of them begins two nibbles
below the end of the memory.  TLC's integers end at 32 bits, so that
`ArithmeticAgrees` is about fields of up to 6 nibbles (`Small`); `ArithmeticIsExact`
(section 5) is about all.  `Misread` names what the disassembler reads differently and
is excepted (section 4).

The setups of machine each use a part of the I/O registers: Layout, Lines, Overlapping
(rows that begin before the one above has ended) and Contrast the display, Shown and
Sound both threads, Timer1 and Timer2 the timers with interrupts and SHUTDN, Serial
the serial port, Kept and New the state files with a card in port 2 or without files,
Clocked starts at two times of the host.  A setup has a handful of operations because
the registers it uses interact only among themselves and through `check_devices()`.  A
nibble of the display is then in the display's area, in the menu's, in both, in
neither, and in a row that moves when the layout changes.  `NEVER` stands for
countdowns that do not end in the run, `LATEST` and `SLOWEST` bound how far timer 2
falls below 0 and how much it is slowed down, `LONGEST` how long the clock counts
(130: the host's clock jumps by 129 in Timer1, so that the difference overflows a
`char`), `MaxToggles` the toggles of the speaker.  `DISP_INSTR_OFF` is 3 instead of
16: the countdown begins, goes on, is begun anew and ends.  The periods of the
scheduler are 2 to 5 instructions, so that all orders in which they end occur.  The
program may be closed or sleep for ever: machine does not check for deadlock, nor does
processor, whose programs end.

Fairness.  The emulator thread and the update threads are loops that never wait
for input, so they are weakly fair.  `schedule()` is due again and again because
`schedule_event` counts down with every instruction: `SF_vars(Schedule)`.  The
SDL thread owes what it has begun (`SendCode`, `SendAlarm`, `PasteLoop`), and
the end of its loop's turn, which it reaches again and again since
`SDL_PollEvent` runs dry: `SF_vars(LoopTurn)`.  The user owes nothing, except
that modal dialogs are closed in Updater (`Decline \/ Install`); curl ends by
its `--max-time`.  Properties that need a user who stops typing say so in their
premise.

In Machine the SDL thread's loop goes on (`WF_vars(Frame)`).  The emulator's fairness
is spelled out as "from some time on enabled implies again and again taken", with what
enables it as a state predicate: awake it executes instructions (`Running`), an
interrupt handler returns (`Interrupted`), and asleep it is woken every 20 ms by
the alarm.  That the ROM's handler ends is what the ROM does, not the emulator; a
ROM that never does keeps interrupts off, and nothing could be promised.
`ExpiryNoticed` has the premise that key presses do not keep the ROM in its handler
for ever: `do_return_interupt()` takes a pending key before anything else.

## 4. The findings

Each is a run with one property that the code violates; `PROJECT.json` quotes
the line it contradicts.

* key_input_paste: a pasted digit lets go of button `BTN_1 + (digit - '1')`, but the
  buttons of the digits are not consecutive: 4 to 9 let go of another key, 5 of ON.
  A pasted `-` presses NEG and lets go of PERIOD.
* key_input_paste: the release of a pasted key is pushed right behind the press, and
  one `GetEvent()` handles both, so that the ROM finds no key down.
* memory_copy: copying the stack (Cmd+C) writes the RAM controller and restores what
  it has saved.  A CONFIG, UNCNFG or RESET the CPU executes in between is overwritten:
  the RAM controller is then unset but answers, or is where the ROM has not put
  it.  `CopyRestores` says what holds without such an instruction.
* clock: `sub_64()` cuts its result to 32 bits only where `unsigned long` has 32.  In a
  64-bit build a difference of a few ticks below 0 keeps bits above the 32nd, is taken
  for more than half a minute, and moves `time_offset`; timer 2 then keeps its own time,
  in SHUTDN too.  With `LONG = 2 * LIMB`, a 32-bit build, the run finds nothing.

key_input_user therefore pastes only `1` and `.`, whose release is right.

Behaviour met while modelling that has no run of its own; where no line is named, it
contradicts none of the repository:

* A paste of 32 characters fills the ring and loses all of it; the loss is part of
  what KeyFifo promises.
* The hold of a click is cut short by a second click (`macos/main_sdl.c:1198`), although
  the comment there says "Guarantee ≥80ms hold" (`macos/main_sdl.c:1212`).
* A second change of the layout in the very instruction in which the drawing of the
  first falls due is not drawn (`emulate.c:2267`): `display_touched` is left at 1,
  the next `schedule()` counts it to 0, and nothing is drawn until something else
  asks for it.  `DrawnAsStored` is therefore about displays drawn since the change.
* With a line offset that makes the rows of the display overlap, a nibble of the memory
  is seen in two rows and a write draws it in one of them, where its row begins
  (`disp_draw_nibble()`), until the next `update_display()`.  Hence the premise
  `OwnPlace` of `DrawnAsStored`.
* `do_shutdown()` stores what the clock's difference leaves in `timer1` without cutting
  it to the nibble it is (`actions.c:647`); it is up to 127 until the next read
  or write.
* The disassembler prints 8D, which the CPU executes as a jump (`emulate.c:1265`), as a
  call, "GOSBVL" or "jsr": the test for the jump is `fn == 0xc` in a case for 0xd and
  0xf (`disasm.c:1400`, `disasm.c:1405`).
* The disassembler takes `D0=D0+n` and its like for 2 nibbles instead of 3, `rSRB.F`
  for 4 instead of 5, knows fewer operands of RSI and `R=r.F` than the CPU, and takes
  NOP5 for 4 nibbles instead of 5.
* A jump cuts PC to 20 bits, what goes on behind the last nibble of the memory does
  not.  520, which the disassembler prints as NOP3, is executed as a jump by 2 if
  CARRY is clear, and so is the one instruction that cuts the address behind it
  (`Cuts`, `emulate.c:2172`).
* After a start without RAM the cards are absent, though their files are there, and
  are back at the next start.
* A ROM that configures a port and reads it goes to the array without asking whether
  there is one (`memory.c:993`, `memory.c:1140`).  Without a card, which is the default,
  that is NULL, and `card_status` is what tells the ROM not to.  For a file of a wrong
  size `card_status` says that there is a card, and the array is NULL too
  (`init.c:1346`); an empty file, which a crash in `write_files()` can leave, is taken
  for port 2 of the GX, with a mask that selects everything (`init.c:1389`).  Hence
  `InBounds` speaks of reads only where a card has memory.  Writes ask `is_ram` first
  and are safe, except for the empty card.
* With three banks in port 2 of the GX, bank 1 is bank 0 (`init.c:1406`): the mask is
  the size minus 1, which selects all of a card only if the size is a power of two.
* An install need not be of the release on the screen: `inst_thread()` takes the
  release's JSON after the dialog has closed (`macos/update_check.c:229`), and a check
  that ends in between replaces it by another newer one.  `OfferIsKept` says no more
  than that it is newer.

## 5. The proofs

All theorems hold for every value of the constants that satisfies the `ASSUME`s:
any ring size, any set of buttons whose codes are unique, any host keyboard,
clipboard, program and set of releases.

* **EventQueue_proofs**: `TypeCorrect`, `PushedCodesOnly` and `Refinement`.
  `OnlyPushedCodes` is inductive together with the types; the refinement rests on
  three lemmas: what waits is a sequence of `Count` codes (`WaitingIsSeq`), a push
  appends to it or empties it (`PushSimulates`), a pop takes its head
  (`PopSimulates`).
* **KeyInput_proofs**: `TypeCorrect`, `PendingMasked`, `ReadsPressed`,
  `Announced`, `SavesAtRest`, from the inductive invariant `IInv`.  Its first part is
  about SaturnKeys: each operation preserves `KeysInv`, the types with
  `PendingIsMasked` and `BitsArePressed`.  That a release clears no more than its
  own bit needs the assumption that no two buttons share a code.  The
  properties are not inductive alone: `NoneUnannounced` needs to know that a
  handler's outbox ends in an alarm (`AlarmLast`), `SavedAtRest` that the thread
  had gone before (`GoneBeforeSave`) and that it holds a code exactly in
  `key_event()` (`InHand`).  There is one lemma per group of actions.
* **MemoryMap_proofs**: `TypeCorrect`, `AccessesInBounds` and
  `UndisturbedCopyRestores` for every ROM, also while the stack is copied;
  `Silent` and `ChainInOrder` without copies (`Copies = FALSE`), since a copy
  writes an unset controller; `WritesReadBack` if the ROM never configures
  controller 0 to 0x90000, where a read of page 9 asks controller 0 for the bank
  switch and a write asks the bank controller (`memory.c:1108`, `memory.c:793`).
  `InBounds` needs what
  `read_files()` leaves for any two files (`ReadPortType`): is_ram only with memory,
  and a mask that is the size minus 1, so that a bank and an offset masked by it are
  below the size whatever the size is; of the files nothing is assumed but that their
  size is a number.  `InOrder` and `UnconfiguredSilent` are inductive together with the
  types, and
  the rest of `DaisyChain` follows from the numbers of the controllers;
  `ReadBack` needs that controller 0 is where the ROM has put it
  (`MmioPlace`), which the copy does not change; `CopyRestores` needs `Moved`,
  that a copy differs from the CPU's chain in RAM's configuration at most and
  that its outermost call holds that configuration, one half at a time.
* **Registers_proofs**: what the loops of `register.c` compute, for fields of every
  length, in both bases.  `ArithmeticIsExact`: sums, differences, increments and
  decrements leave the digits of the integers' results, modulo the size of the field,
  and the carry tells whether they fit; `NegationIsExact` the same for `-X` and
  `-X-1`; `ComparisonsAreExact`: the tests that go through the nibbles from the top
  decide the order of the numbers.  A loop is a recursive function over nibbles, and
  the library's induction rules cannot be instantiated here; RecursiveFunctions
  states induction once for sets of naturals (`Induction`, from the least element that the
  well-foundedness of `<` gives), and with it that recursive functions exist
  (`Recursion`, `Ascent`, `Descent`).  `ChainAdds` is the invariant of all loops that
  carry: digits and carry together are the exact result of what is behind them.
* **Processor_proofs**: all properties of the run processor, for any memory, machines,
  programs and size of the return stack: `TypeCorrect`, `StackCorrect`,
  `TestsCorrect`, `DecodersAgree`, `FieldCorrect`, `ArithmeticCorrect`.  What a push
  and a pop do to `rstk` is what they do to the sequence of the newest addresses
  (`PushKeepsNewest`, `PopTakesNewest`); that is inductive together with the types
  and with the program being one (`IInv`).  `StepIsRight` is the decoder: every
  instruction leaves a machine, does to the stack what its text says (but for 8D), and
  goes on where the disassembler says unless it is misread (`Right`), with one lemma per
  decode group.  `calls` is kept by opcode (`Pushes`, `Pops`), not by text; `ByOpcode`
  is the lemma that the two say the same.
  `ArithmeticCorrect` sets the decoder's table of operations against the table of
  mnemonics (`TablesAgree`, `Exact`) and takes what the operations compute from
  Registers_proofs.  Assumed are that memory, keyboard and bus give nibbles
  (`CpuAssumption`), that the machines to begin with are machines and programs consist
  of instructions (`ProcessorAssumption`), and that the stack has an entry
  (`StackAssumption`).
* **Updater_proofs**: `TypeCorrect`, `OneThread`, `OffersKept`, `VerifiedImagesOnly`.  The
  invariant says what each stage of the two threads has established: a found
  newer release is the kept one, no check drops a kept release, so that an install
  that has taken its snapshot has one, a verified checksum file precedes the image, and
  no check runs while the dialog is open.
* **Machine_proofs**: all safety properties of the run machine, for any ROM, any size
  of RAM and display, and any files to begin with: `MachineTypeOK`,
  `LayoutFollowsRegisters`, `EveryRequestServed`, `WhatIsDrawnIsStored`, `StartRestores`,
  `DrawingsShown`.  The invariant (`IInv`) has four parts.
  - `MemoryPart`: the memory of the emulator thread is one that its operations leave
    (`Memory`).  Its registers are in their ranges (`Good`), the layout is the one the
    registers ask for (`Layouted`), and where a drawn display shows memory, what
    `disp_buf` holds is what is stored (`Image`).  `DrawnAsStored` is not inductive: a
    nibble goes to `disp_buf`, from there to `lcd_buffer` and from there to the
    pixels, and each is skipped if the next already has the value.  `Pixels` says
    that this is right: what a buffer knows, the next one has.  While the power is on,
    nothing asked of `check_devices()` waits longer than to the next `schedule()`
    (`Serves`: it has just started, or what is due is scheduled).  Inside an
    instruction that does not hold; between the effect of an instruction and
    `schedule()` it is `Attended` that does.
  - `FilePart`: the files are a session's, cut or whole (`AreFiles`); the cards are the
    ones of the files (`CardsOf`); while `write_files()` runs, what it has passed is
    written (`Saved`), in the order of the files; and what is kept to be compared with
    the next start is what the files hold (`IsKept`).  The start itself changes the
    nibbles of the clock (`ClockSet`), so `StartRestores` is about the rest of the RAM.
  - `SpeakerPart`: the counter the SDL thread has loaded is at most the number of
    toggles, whatever the threads' order.  `ThreadPart`: the SDL thread.

  `ExecuteServes` and `InstructionServes` are the emulator thread, with a lemma for each
  register a write may be to and each step of `schedule()`; `PowerOnServes` is the
  start; `AllSaved` and `Restarted` are the files.  `DrawingsShown` is an action property:
  no operation of the emulator thread changes a pixel without setting `flipable`, and
  none clears it, so that only `render()` can lose a drawing, between its copy and
  its clearing.
  - `WriteKeepsLayout`: `init_display()` derives the layout of
    the display from the registers, `write_dev_mem()` changes the part of it that the
    register written stands for; both lead to the same layout (`FollowsLayout`), for every
    `DISP_ROWS` above 1, register and value.  The write needs the registers in their
    ranges and `old_line_offset` to be -1 or the line offset (`Layouted`): otherwise a
    write of the offset the memory still holds would leave the length of the rows as
    it was.
  - `ReadsBack`: `read_saturn()` reads from what `write_saturn()` has written the very
    registers, for every `struct saturn` in the ranges of its types.  The place of each
    field is the sum of the sizes before it, by induction along the table of
    fields; a number is its bytes, the most significant first, and has the sign
    the type has.
  Assumed are `IoAssumption`, `LcdAssumption`, `SchedulerAssumption`,
  `StateFilesAssumption` and `MachineAssumption`: addresses and values of the operations
  are ones of the registers and of RAM, as are the clock's nibbles, the host's clocks go
  forward, RAM holds nibbles, and the files to begin with are absent, cut, or read as
  such registers.

Only model-checked:

* the liveness properties (`EveryCodeLeaves`, `KeysComeUp`, `PressWakes`, `QuitSaves`,
  `ManualCheckAnswered`, `InstallReported`, `SilenceEnds`, `ExpiryNoticed`), since the
  prover handles neither fairness nor ENABLED.

Every safety property of every passing run is stated by a theorem.

## 6. Limits

* Races on plain variables are modelled as atomic reads and writes in program
  order; compiler reordering is not.
* The debugger is never entered: `enter_debugger` and `exec_flags` are 0.
* A mouse button that goes down is taken to come up again in the window's
  events; a modal dialog may swallow the up.
* `Init` is a first start.  After a restart `keybuf` may hold the bits of keys
  that were down at exit (see the hazards).
* In MemoryMap what the cells and registers hold, the CRC and the drawing that a write
  triggers are left out, and what an access to an array without memory does: it is an
  access to the place the code computes.  That `malloc()` may fail is left out too.
* The copy's own reads have no effect: it reads RAM and ROM, not the bank
  registers.  The test thread, which calls the same function, does not run at
  the same time as Cmd+C.
* Cmd+C, mouse motion and the hit test push no codes and are left out of KeyInput.
* Strings (JSON, versions, checksum lists) are abstracted to their outcomes.

* An instruction of Machine is one of the operations its properties are about, not
  one that Cpu decodes; interrupts use one level of the return stack.
* The serial port has no line, as in the macOS program: `receive_char()` finds nothing
  and `transmit_char()` drops its byte.  What the statistics make of the ticks is an
  input.  That is also where the wrap of the instruction counter (`instr_rollover`) would
  show: it makes the next difference wrap (see the hazards), and is not counted.
* How the clock's nibbles follow from the host's time is Clock's matter up to the ticks;
  their digits and the checksum are any value in Machine (`.times`).
* The menu has one row instead of 8, and rows have 2 nibbles instead of 34.
* How far `timer2` is below 0 is told apart down to `LATEST`, and the ticks for timer 1 up
  to `LONGEST`.
* `buttons[].pressed` is not kept in the state files and not part of Machine.
* Files of older versions are not read, and a file system that reorders writes is
  not modelled: a crash leaves whole files, one that is cut, and old ones.

## 7. Not modelled

* Debugger (`debugger.c`): `emulate_debug()` is `emulate()` with a breakpoint test and
  a command loop on the console; the commands are console input and output.
* The text of the disassembler and the RPL decompiler (`rpl.c`): formatting that
  changes no state.  Of `disassemble()` lengths and destinations are modelled.
* Drawing of the calculator's face, fonts and overlays; ROM input and conversion:
  pure output and input.
* The Android front end, which `macos/` replaces, and the test harness.
* Monocypher is vendored; SHA-256, minisign and Ed25519 are taken to accept exactly
  what was signed.
