--------------------------------- MODULE Lcd ---------------------------------
(***************************************************************************)
(* The LCD as lcd_mac.c draws it: two caches, disp_buf and lcd_buffer, and *)
(* the pixels disp_buf_short that the SDL thread copies when flipable is   *)
(* set.  A write to memory draws at once where the memory is displayed     *)
(* (the end of write_nibble_sx() and write_nibble_gx()), unless the layout *)
(* is going to be drawn as a whole.                                        *)
(***************************************************************************)
EXTENDS IoRegisters

CONSTANTS
  VISIBLE, (* columns that reach disp_buf_short: 33 *)
  RAM      (* addresses of the RAM, configured and readable *)

ASSUME LcdAssumption == VISIBLE \in 0 .. NIBBLES_PER_ROW

LastRow == DISP_ROWS - 1
Column == 0 .. NIBBLES_PER_ROW + 1
Cell == (0 .. LastRow) \X Column            (* of disp_buf and lcd_buffer: row, column *)
Seen == (0 .. LastRow) \X (0 .. VISIBLE - 1) (* of disp_buf_short *)

None == 240 (* 0xf0: what a cache holds where it must be drawn *)
Dark == 15  (* the zeroed disp_buf_short: black *)

read_nibble(m, addr) == IF addr \in RAM THEN m.ram[addr] ELSE 0

(* Mutant: the SDL thread is not told. *)
draw_nibblesUntold(m, image) ==
  LET drawn == {p \in DOMAIN image : image[p] # m.lcd_buffer[p]}
  IN [m EXCEPT !.lcd_buffer = [p \in Cell |-> IF p \in drawn THEN image[p] ELSE @[p]],
               !.buffer = [p \in Seen |-> IF p \in drawn THEN image[p] ELSE @[p]]]

(* draw_nibble() and fill_disp_buf_short(), for all cells of image. *)
draw_nibbles(m, image) ==
  LET drawn == {p \in DOMAIN image : image[p] # m.lcd_buffer[p]}
  IN [m EXCEPT !.lcd_buffer = [p \in Cell |-> IF p \in drawn THEN image[p] ELSE @[p]],
               !.buffer = [p \in Seen |-> IF p \in drawn THEN image[p] ELSE @[p]],
               !.flipable = @ \/ drawn \cap Seen # {}]

(* What disp_buf does not hold yet is put there and drawn. *)
draw_changed(m, image) ==
  LET new == {p \in DOMAIN image : image[p] # m.disp_buf[p]}
  IN draw_nibbles([m EXCEPT !.disp_buf = [p \in Cell |-> IF p \in new THEN image[p] ELSE @[p]]],
                  [p \in new |-> image[p]])

(* The address of the first nibble of a row, and the nibbles it has. *)
RowAddress(d, row) ==
  IF row <= d.lines THEN d.disp_start + (row * d.nibs_per_line)
  ELSE d.menu_start + ((row - d.lines - 1) * NIBBLES_PER_ROW)
RowLength(d, row) ==
  NIBBLES_PER_ROW + (IF d.offset > 3 /\ row <= d.lines THEN 2 ELSE 0)

Forget(cache, rows) == [p \in Cell |-> IF p[1] \in rows THEN None ELSE cache[p]]

(* update_display(), of a display that is on ... *)
DrawRows(m) ==
  LET d == m.display
      stale == (IF d.offset # m.old_offset THEN 0 .. d.lines ELSE {})
                 \cup (IF d.lines # m.old_lines THEN DISP_ROWS - MENU_ROWS .. LastRow ELSE {})
      image == [p \in {q \in Cell : q[2] < RowLength(d, q[1])} |->
                  read_nibble(m, RowAddress(d, p[1]) + p[2])]
  IN draw_changed([m EXCEPT !.disp_buf = Forget(@, stale), !.lcd_buffer = Forget(@, stale),
                            !.old_offset = d.offset, !.old_lines = d.lines], image)

(* ... and off. *)
Blank(m) ==
  draw_nibbles([m EXCEPT !.disp_buf = Forget(@, 0 .. LastRow)],
               [p \in {q \in Cell : q[2] < NIBBLES_PER_ROW} |-> 0])

update_display(m) ==
  LET n == [m EXCEPT !.drawn = TRUE] IN IF m.display.on THEN DrawRows(n) ELSE Blank(n)

-----------------------------------------------------------------------------
(* disp_draw_nibble().  nibs_per_line is not 0: disp_end would be disp_start,
   and no address in between. *)
disp_draw_nibble(m, addr, val) ==
  LET offset == addr - m.display.disp_start
      x == offset % m.display.nibs_per_line
      y == offset \div m.display.nibs_per_line
  IN IF x \notin Column \/ y > LastRow THEN m ELSE draw_changed(m, [p \in {<<y, x>>} |-> val])

(* menu_draw_nibble() *)
menu_draw_nibble(m, addr, val) ==
  LET offset == addr - m.display.menu_start
      x == offset % NIBBLES_PER_ROW
      y == m.display.lines + (offset \div NIBBLES_PER_ROW) + 1
  IN draw_changed(m, [p \in {<<y, x>>} |-> val])

(* Mutant: a nibble of the menu is drawn only if it is not of the display. *)
write_nibbleOneArea(m, addr, val) ==
  LET d == m.display
      stored == [m EXCEPT !.ram[addr] = val]
  IN IF m.display_touched # 0 THEN stored
     ELSE IF addr >= d.disp_start /\ addr < d.disp_end THEN disp_draw_nibble(stored, addr, val)
     ELSE IF d.lines # LastRow /\ addr >= d.menu_start /\ addr < d.menu_end
          THEN menu_draw_nibble(stored, addr, val) ELSE stored

(* write_nibble() to RAM. *)
write_nibble(m, addr, val) ==
  LET d == m.display
      stored == [m EXCEPT !.ram[addr] = val]
      shown == IF addr >= d.disp_start /\ addr < d.disp_end
               THEN disp_draw_nibble(stored, addr, val) ELSE stored
  IN IF m.display_touched # 0 THEN stored
     ELSE IF d.lines # LastRow /\ addr >= d.menu_start /\ addr < d.menu_end
          THEN menu_draw_nibble(shown, addr, val) ELSE shown

(* draw_annunc() *)
draw_annunc(m) ==
  IF m.display.annunc = m.last_annunc_state THEN m
  ELSE [m EXCEPT !.last_annunc_state = m.display.annunc, !.flipable = TRUE]
=============================================================================
