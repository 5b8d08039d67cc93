----------------------------- MODULE IoRegisters -----------------------------
(***************************************************************************)
(* The I/O registers of the Saturn, nibbles 0x100 to 0x13f of its memory:  *)
(* write_dev_mem() and read_dev_mem() of memory.c, and init_display() of   *)
(* lcd_mac.c, which derives from the registers what the writes then keep   *)
(* up to date one by one.                                                  *)
(*                                                                         *)
(* The memory of the emulator thread is one record m, and an operator      *)
(* stands for a C function: it takes m and returns m as the function       *)
(* leaves it.  m.saturn holds the registers, m.display the struct display, *)
(* m.touched the device.*_touched flags that check_devices() looks at (the *)
(* others are set and never read).                                         *)
(***************************************************************************)
EXTENDS Integers, Sequences, FiniteSets

CONSTANTS
  NIBBLES_PER_ROW, (* 34 *)
  DISP_ROWS,       (* 64 *)
  MENU_ROWS,       (* rows of the menu: 0x110 nibbles, 8 rows *)
  DISP_INSTR_OFF   (* instructions from a change of the layout to its drawing: 16 *)

ASSUME IoAssumption ==
  /\ DISP_ROWS \in Nat /\ DISP_ROWS > 1
  /\ NIBBLES_PER_ROW \in Nat \ {0} /\ MENU_ROWS \in Nat /\ DISP_INSTR_OFF \in Nat \ {0}

(* Bit i of register value v. *)
Bit(v, i) == (v \div 2 ^ i) % 2 = 1

(* nibble_masks[]: nibble i of v replaced by n. *)
SetNibble(v, i, n) == v + ((n - ((v \div 16 ^ i) % 16)) * 16 ^ i)
Nibble(v, i) == (v \div 16 ^ i) % 16

(* Every register: its name, its first nibble and how many it has. *)
Registers ==
  { <<"disp_io", \h100, 1>>, <<"contrast_ctrl", \h101, 1>>, <<"disp_test", \h102, 2>>,
    <<"crc", \h104, 4>>, <<"power_status", \h108, 1>>, <<"power_ctrl", \h109, 1>>,
    <<"mode", \h10a, 1>>, <<"annunc", \h10b, 2>>, <<"baud", \h10d, 1>>,
    <<"card_ctrl", \h10e, 1>>, <<"card_status", \h10f, 1>>, <<"io_ctrl", \h110, 1>>,
    <<"rcs", \h111, 1>>, <<"tcs", \h112, 1>>, <<"crer", \h113, 1>>, <<"rbr", \h114, 2>>,
    <<"tbr", \h116, 2>>, <<"sreq", \h118, 2>>, <<"ir_ctrl", \h11a, 1>>,
    <<"base_off", \h11b, 1>>, <<"lcr", \h11c, 1>>, <<"lbr", \h11d, 1>>,
    <<"scratch", \h11e, 1>>, <<"base_nibble", \h11f, 1>>, <<"disp_addr", \h120, 5>>,
    <<"line_offset", \h125, 3>>, <<"line_count", \h128, 2>>, <<"unknown", \h12a, 4>>,
    <<"t1_ctrl", \h12e, 1>>, <<"t2_ctrl", \h12f, 1>>, <<"menu_addr", \h130, 5>>,
    <<"unknown2", \h135, 2>>, <<"timer1", \h137, 1>>, <<"timer2", \h138, 8>> }

Register(addr) == CHOOSE r \in Registers : addr \in r[2] .. r[2] + r[3] - 1
RegisterNames == {r[1] : r \in Registers} \ {"crer"}

-----------------------------------------------------------------------------
(* do_interupt(): PC goes to the handler, and its old value on RSTK, of which
   the interrupts use one level. *)
do_interupt(m) ==
  LET called == [m EXCEPT !.interrupt_called = TRUE]
  IN IF m.saturn.intenable
     THEN [called EXCEPT !.saturn.rstk = m.saturn.PC, !.saturn.PC = "handler",
                         !.saturn.intenable = FALSE]
     ELSE called

NibsPerLine(offset, line_offset) ==
  (NIBBLES_PER_ROW + line_offset + (IF offset > 3 THEN 2 ELSE 0)) % 2 ^ 12
DispStart(disp_addr) == ((disp_addr \div 2) * 2) % 2 ^ 20

(* The end of the displayed memory, set again with every part it depends on. *)
WithEnd(d) == [d EXCEPT !.disp_end = d.disp_start + (d.nibs_per_line * (d.lines + 1))]

(* init_display(): the layout the registers s ask for. *)
LayoutOf(s) ==
  LET offset == s.disp_io % 8
      lines == s.line_count % DISP_ROWS
  IN WithEnd([ on |-> Bit(s.disp_io, 3), offset |-> offset,
               lines |-> IF lines = 0 THEN DISP_ROWS - 1 ELSE lines,
               disp_start |-> DispStart(s.disp_addr),
               nibs_per_line |-> NibsPerLine(offset, s.line_offset),
               disp_end |-> 0, menu_start |-> s.menu_addr,
               menu_end |-> s.menu_addr + (MENU_ROWS * NIBBLES_PER_ROW),
               contrast |-> s.contrast_ctrl + (16 * (s.disp_test % 2)),
               annunc |-> s.annunc ])

(* A change of the layout, drawn later.  m.drawn is not of the program: it tells
   whether the display has been drawn since the last change. *)
DrawLater(m) == [m EXCEPT !.display_touched = DISP_INSTR_OFF, !.drawn = FALSE]
Relayout(m, d) == DrawLater([m EXCEPT !.display = WithEnd(d)])

WriteDispIo(m, val) ==
  IF val = m.saturn.disp_io THEN m
  ELSE Relayout([m EXCEPT !.saturn.disp_io = val],
                [m.display EXCEPT !.on = Bit(val, 3), !.offset = val % 8,
                   !.nibs_per_line = NibsPerLine(val % 8, m.saturn.line_offset)])

DispAddrWritten(m) ==
  LET start == DispStart(m.saturn.disp_addr)
  IN IF m.display.disp_start = start THEN m
     ELSE Relayout(m, [m.display EXCEPT !.disp_start = start])

(* Mutant: the end of the displayed memory stays that of the old line length. *)
LineOffsetWrittenOldEnd(m) ==
  LET offset == m.saturn.line_offset
  IN IF offset = m.old_line_offset THEN m
     ELSE DrawLater([m EXCEPT !.old_line_offset = offset,
                              !.display.nibs_per_line = NibsPerLine(m.display.offset, offset)])

LineOffsetWritten(m) ==
  LET offset == m.saturn.line_offset
  IN IF offset = m.old_line_offset THEN m
     ELSE Relayout([m EXCEPT !.old_line_offset = offset],
                   [m.display EXCEPT !.nibs_per_line = NibsPerLine(m.display.offset, offset)])

LineCountWritten(m) ==
  LET lines == m.saturn.line_count % DISP_ROWS
      reset == [m EXCEPT !.line_counter = -1]
  IN IF m.display.lines = lines THEN reset
     ELSE Relayout(reset, [m.display EXCEPT !.lines = IF lines = 0 THEN DISP_ROWS - 1 ELSE lines])

(* The menu's end is not the display's: disp_end stays. *)
MenuAddrWritten(m) ==
  LET start == m.saturn.menu_addr
  IN IF m.display.menu_start = start THEN m
     ELSE DrawLater([m EXCEPT !.display.menu_start = start,
                              !.display.menu_end = start + (MENU_ROWS * NIBBLES_PER_ROW)])

(* What check_devices() is asked to do after a write to a register. *)
RequestOf(name) ==
  CASE name \in {"contrast_ctrl", "disp_test"} -> {"contrast"}
    [] name = "annunc" -> {"ann"}
    [] name = "baud" -> {"baud"}
    [] name = "io_ctrl" -> {"ioc"}
    [] name = "tbr" -> {"tbr"}
    [] name = "timer1" -> {"t1"}
    [] name = "timer2" -> {"t2"}
    [] OTHER -> {}

(* What else the write does; w is m with nibble i of the register stored. *)
SideEffect(w, name, i, val) ==
  CASE name = "contrast_ctrl" ->
         [w EXCEPT !.display.contrast = ((@ \div 16) * 16) + val]
    [] name = "disp_test" /\ i = 0 ->
         [w EXCEPT !.display.contrast = (@ % 16) + (16 * (val % 2))]
    [] name = "annunc" -> [w EXCEPT !.display.annunc = w.saturn.annunc]
    [] name = "card_ctrl" ->
         LET mp == IF Bit(val, 1) THEN [w EXCEPT !.saturn.MP = 1] ELSE w
         IN IF Bit(val, 0) THEN do_interupt(mp) ELSE mp
    [] name = "tbr" -> [w EXCEPT !.saturn.tcs = IF Bit(@, 0) THEN @ ELSE @ + 1]
    [] name = "disp_addr" -> DispAddrWritten(w)
    [] name = "line_offset" -> LineOffsetWritten(w)
    [] name = "line_count" -> LineCountWritten(w)
    [] name = "menu_addr" -> MenuAddrWritten(w)
    [] OTHER -> w

(* Mutant: check_devices() waits for the next event. *)
CheckDevicesLater(m) == [m EXCEPT !.device_check = TRUE]

(* check_devices() is called as soon as the instruction ends. *)
CheckDevicesSoon(m) == [m EXCEPT !.device_check = TRUE, !.schedule_event = 0]

(* The register v with nibble i written.  timer1 has one nibble and is set as a
   whole.  val << 28 is an int, below 0 for val above 7, and all of its higher bits
   are set in a register that is a long: timer 2 has its sign from there. *)
StoreNibble(name, v, i, val) ==
  IF name = "timer1" THEN val
  ELSE SetNibble(v, i, IF i = 7 /\ val > 7 /\ v >= 0 THEN val - 16 ELSE val)

(* write_dev_mem().  Only nibble 1 of disp_test has no effect on the contrast. *)
write_dev_mem(m, addr, val) ==
  LET r == Register(addr)
      name == r[1]
      i == addr - r[2]
      n == CheckDevicesSoon(m)
      stored == [n EXCEPT !.saturn[name] = StoreNibble(name, @, i, val),
                          !.touched = @ \cup (IF name = "disp_test" /\ i = 1 THEN {}
                                              ELSE RequestOf(name))]
  IN CASE name = "disp_io" -> WriteDispIo(n, val)
       [] name \in {"card_status", "rbr"} -> n
       [] name = "crer" -> [n EXCEPT !.saturn.rcs = (@ % 4) + (8 * (@ \div 8))]
       [] OTHER -> SideEffect(stored, name, i, val)

(* read_dev_mem(): the nibble, and m after it. *)
read_dev_mem(m, addr) ==
  LET r == Register(addr)
      name == r[1]
      i == addr - r[2]
      counter == IF m.line_counter + 1 > DISP_ROWS - 1 THEN -1 ELSE m.line_counter + 1
      lines == ((m.saturn.line_count \div DISP_ROWS) * DISP_ROWS) + (counter % DISP_ROWS)
  IN CASE name \in {"crer", "tbr"} -> [nibble |-> 0, memory |-> m]
       [] name = "rbr" ->
            [ nibble |-> Nibble(m.saturn.rbr, i),
              memory |-> [CheckDevicesSoon(m) EXCEPT !.saturn.rcs = (@ \div 2) * 2,
                                                     !.touched = @ \cup {"rbr"}] ]
       [] name = "line_count" ->
            [nibble |-> Nibble(lines, i), memory |-> [m EXCEPT !.line_counter = counter]]
       [] OTHER -> [nibble |-> Nibble(m.saturn[name], i), memory |-> m]
=============================================================================
