------------------------------ MODULE MCMachine ------------------------------
(* ROMs, hosts and state files for Machine. *)
EXTENDS Machine

MCRam == 32 .. 47
MCClock == {45, 46}
At(high, low) == (45 :> low) @@ (46 :> high)

(* Bytes that tell the fields and their places apart. *)
Name == [i \in DOMAIN Written |-> Written[i][1]]
Filled ==
  [ name \in {Name[i] : i \in DOMAIN Name} |->
      LET i == CHOOSE j \in DOMAIN Name : Name[j] = name
      IN IF name \in Number \cup Flag \cup Place THEN FreshSaturn[name]
         ELSE [k \in 1 .. Size(Written[i]) |-> ((7 * i) + k) % 256] ]

(* A display of three rows of two nibbles and a menu of one, timers that stand. *)
Saturn ==
  [Filled EXCEPT !.disp_io = 8, !.disp_addr = 32, !.line_count = 2, !.menu_addr = 38,
                 !.t1_tick = NEVER, !.t2_tick = NEVER, !.timer2 = 2, !.kbd_ien = <<1>>]

FilesOf(saturn, port1, port2) ==
  [ conf |-> Conf(saturn), ram |-> [size |-> RamSize, data |-> [a \in RAM |-> 0]],
    port |-> [port1 |-> port1, port2 |-> port2] ]
NoPort == [size |-> Absent, writable |-> FALSE, data |-> NULL]
RamCard(size) == [size |-> size, writable |-> TRUE, data |-> 1]

Write(addr, vals) == {[op |-> "write", addr |-> addr, val |-> v] : v \in vals}
Store(to, vals) == {[op |-> "store", to |-> to, val |-> v] : v \in vals}
Poll(addr, to) == {[op |-> "poll", addr |-> addr, to |-> to]}
Card(port, vals) == {[op |-> "card", port |-> port, val |-> v] : v \in vals}
Plain(names) == {[op |-> name] : name \in names}

Host == [elapsed |-> 0, lag |-> 1, ticks |-> <<NEVER, NEVER>>, key |-> FALSE]
Still == [timer1 |-> NEVER, timer2 |-> NEVER, adjtime |-> NEVER, receive |-> 2,
          statistics |-> NEVER]
Setup == [ rom |-> {}, env |-> {Host}, times |-> {At(1, 2)}, period |-> Still,
           files |-> FilesOf(Saturn, NoPort, NoPort), toggle |-> FALSE, shutdown |-> {}, main |-> FALSE, quit |-> FALSE ]

(* The layout of the display changes, and the memory it shows. *)
Layout ==
  [Setup EXCEPT !.rom = Write(\h100, {0, 12})  \cup Write(\h125, {1})
                          \cup Write(\h128, {0}) \cup Write(\h130, {3}) \cup Plain({"nop"})
                          \cup Store(35, {1}),
                !.shutdown = {FALSE}]

(* Two areas that overlap, few lines, and the counter of lines. *)
Lines ==
  [Setup EXCEPT !.rom = Write(\h128, {1, 3}) \cup Poll(\h128, 36) \cup Write(\h130, {4})
                          \cup Store(38, {0, 1}) \cup Plain({"nop"})]

Contrast ==
  [Setup EXCEPT !.rom = Write(\h101, {0, 9}) \cup Write(\h102, {0, 1, 6}) \cup Write(\h103, {0, 3})
                          \cup Write(\h10b, {0, 1}) \cup Write(\h10c, {0, 8})
                          \cup Write(\h124, {0, 1}) \cup Write(\h134, {0, 1})]

(* Rows that begin before the one above has ended. *)
Overlapping ==
  [Setup EXCEPT !.rom = Store(33, {0, 1}) \cup Store(34, {1}) \cup Write(\h100, {0, 8}),
                !.files = FilesOf([Saturn EXCEPT !.line_offset = 4095], NoPort, NoPort)]

(* The main thread shows what is drawn. *)
Shown ==
  [Setup EXCEPT !.rom = Store(32, {1}) \cup Write(\h100, {0, 8}),
                !.main = TRUE]

Sound == [Setup EXCEPT !.rom = Plain({"nop"}), !.toggle = TRUE, !.main = TRUE]

Timer2 ==
  [Setup EXCEPT !.rom = Write(\h12f, {1, 3, 5}) \cup Write(\h138, {0, 2})
                          \cup Plain({"service", "rti", "nop"}),
                !.env = {[Host EXCEPT !.lag = l, !.key = k] : l \in {0, 2}, k \in BOOLEAN},
                !.period = [Still EXCEPT !.timer2 = 2, !.adjtime = 3],
                !.files = FilesOf([Saturn EXCEPT !.t2_tick = 2], NoPort, NoPort),
                !.shutdown = BOOLEAN]

(* The host stops for seconds, and the difference for timer 1 overflows. *)
Timer1 ==
  [Setup EXCEPT !.rom = Write(\h12e, {0, 2, 4}) \cup Write(\h137, {0, 2}) \cup Plain({"rti", "nop"}),
                !.env = {[Host EXCEPT !.elapsed = 0, !.ticks = <<2, NEVER>>],
                         [Host EXCEPT !.elapsed = 129, !.ticks = <<0, NEVER>>]},
                !.period = [Still EXCEPT !.timer1 = 2, !.adjtime = 3, !.statistics = 5],
                !.files = FilesOf([Saturn EXCEPT !.t1_tick = 2], NoPort, NoPort),
                !.shutdown = {FALSE}]

Serial ==
  [Setup EXCEPT !.rom = Write(\h110, {0, 2, 4}) \cup Write(\h111, {0, 5}) \cup Write(\h113, {0})
                          \cup Write(\h116, {1}) \cup Write(\h10e, {0, 1, 2}) \cup Write(\h10f, {3})
                          \cup Poll(\h114, 32) \cup Poll(\h112, 33) \cup Plain({"rti"})]

(* Savings and crashes. *)
Kept ==
  [Setup EXCEPT !.rom = Store(32, {1}) \cup Card("port2", {2}),
                !.files = FilesOf([Saturn EXCEPT !.timer2 = -2, !.t2_ctrl = 4], NoPort, RamCard(4)),
                !.quit = TRUE]
New == [Kept EXCEPT !.files.conf = NoFile, !.files.port = [p \in Port |-> NoPort]]


(* The clock goes on between the starts. *)
Clocked ==
  [Setup EXCEPT !.rom = Store(47, {0}), !.times = {At(1, 2), At(1, 9)}, !.quit = TRUE]

MCSetups ==
  {Layout, Lines, Overlapping, Contrast, Shown, Sound, Timer2, Timer1, Serial, Kept, New, Clocked}
==============================================================================
