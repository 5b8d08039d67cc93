----------------------------- MODULE StateFiles -----------------------------
(***************************************************************************)
(* The state files (init.c).  write_files() writes the registers to the    *)
(* file hp48 and the RAM and the RAM cards to a file each, over the old    *)
(* ones; read_files() reads them when the program starts.  The order of    *)
(* the fields is kept in two lists by hand, one that writes and one that   *)
(* reads, and a field is as many bytes as its type has.                    *)
(*                                                                         *)
(* files.conf is <<>> when it has been truncated and no more; of the       *)
(* others .size tells whether the file is whole.                           *)
(***************************************************************************)
EXTENDS Integers, Sequences, SequencesExt

CONSTANTS
  RamSize, (* length of a whole RAM file; a card's is its size, in units of 0x10000 nibbles *)
  opt_gx   (* TRUE: HP48GX, FALSE: HP48SX *)

ASSUME StateFilesAssumption == RamSize \in Nat /\ opt_gx \in BOOLEAN

Port == {"port1", "port2"}
NoFile == <<-1>> (* files.conf is not there *)
Absent == -1 (* the size of a file that is not there *)
NULL == 0    (* the contents of no memory *)

Octet == 0 .. 255

(* Fields with their counts, the bytes that are written for each element and
   whether the element is data that the model does not look into. *)
Fields(names, count, width) == [i \in DOMAIN names |-> <<names[i], count, width>>]
Nibbles16(names) == Fields(names, 16, 1)
Byte(names) == Fields(names, 1, 1)
Word16(names) == Fields(names, 1, 2)
Word32(names) == Fields(names, 1, 4)

(* What write_files() writes ... *)
Written ==
  Word32(<<"magic">>) \o Fields(<<"version">>, 4, 1) \o Nibbles16(<<"A", "B", "C", "D">>)
    \o Word32(<<"D0", "D1">>) \o Byte(<<"P">>) \o Word32(<<"PC">>)
    \o Nibbles16(<<"R0", "R1", "R2", "R3", "R4">>) \o Fields(<<"IN">>, 4, 1)
    \o Fields(<<"OUT">>, 3, 1) \o Byte(<<"CARRY">>) \o Fields(<<"PSTAT">>, 16, 1)
    \o Byte(<<"XM", "SB", "SR", "MP", "hexmode">>) \o Fields(<<"rstk">>, 8, 4)
    \o Word16(<<"rstkp">>) \o Fields(<<"keybuf">>, 9, 2)
    \o Byte(<<"intenable", "int_pending", "kbd_ien">>)
    \o Byte(<<"disp_io", "contrast_ctrl", "disp_test">>) \o Word16(<<"crc">>)
    \o Byte(<<"power_status", "power_ctrl", "mode", "annunc", "baud">>)
    \o Byte(<<"card_ctrl", "card_status", "io_ctrl", "rcs", "tcs", "rbr", "tbr", "sreq">>)
    \o Byte(<<"ir_ctrl", "base_off", "lcr", "lbr", "scratch", "base_nibble">>)
    \o Word32(<<"disp_addr">>) \o Word16(<<"line_offset">>) \o Byte(<<"line_count">>)
    \o Word16(<<"unknown">>) \o Byte(<<"t1_ctrl", "t2_ctrl">>) \o Word32(<<"menu_addr">>)
    \o Byte(<<"unknown2">>) \o Byte(<<"timer1">>) \o Word32(<<"timer2", "t1_instr", "t2_instr">>)
    \o Word16(<<"t1_tick", "t2_tick">>) \o Word32(<<"i_per_s">>) \o Word16(<<"bank_switch">>)
    \o Fields(<<"mem_cntl">>, 6, 10)

(* Mutant: the controls of the timers are read in the other order. *)
ReadSwapped ==
  [i \in DOMAIN Written |->
     CASE Written[i][1] = "t1_ctrl" -> <<"t2_ctrl", 1, 1>>
       [] Written[i][1] = "t2_ctrl" -> <<"t1_ctrl", 1, 1>>
       [] OTHER -> Written[i]]

(* ... and what read_files() and read_version_0_4_0_file() read. *)
Read ==
  Word32(<<"magic">>) \o Fields(<<"version">>, 4, 1)
    \o Nibbles16(<<"A", "B", "C", "D">>) \o Word32(<<"D0", "D1">>) \o Byte(<<"P">>)
    \o Word32(<<"PC">>) \o Nibbles16(<<"R0", "R1", "R2", "R3", "R4">>)
    \o Fields(<<"IN">>, 4, 1) \o Fields(<<"OUT">>, 3, 1) \o Byte(<<"CARRY">>)
    \o Fields(<<"PSTAT">>, 16, 1) \o Byte(<<"XM", "SB", "SR", "MP", "hexmode">>)
    \o Fields(<<"rstk">>, 8, 4) \o Word16(<<"rstkp">>) \o Fields(<<"keybuf">>, 9, 2)
    \o Byte(<<"intenable", "int_pending", "kbd_ien">>)
    \o Byte(<<"disp_io", "contrast_ctrl", "disp_test">>) \o Word16(<<"crc">>)
    \o Byte(<<"power_status", "power_ctrl", "mode", "annunc", "baud">>)
    \o Byte(<<"card_ctrl", "card_status", "io_ctrl", "rcs", "tcs", "rbr", "tbr", "sreq">>)
    \o Byte(<<"ir_ctrl", "base_off", "lcr", "lbr", "scratch", "base_nibble">>)
    \o Word32(<<"disp_addr">>) \o Word16(<<"line_offset">>) \o Byte(<<"line_count">>)
    \o Word16(<<"unknown">>) \o Byte(<<"t1_ctrl", "t2_ctrl">>)
    \o Word32(<<"menu_addr">>) \o Byte(<<"unknown2">>) \o Byte(<<"timer1">>)
    \o Word32(<<"timer2", "t1_instr", "t2_instr">>) \o Word16(<<"t1_tick", "t2_tick">>)
    \o Word32(<<"i_per_s">>) \o Word16(<<"bank_switch">>) \o Fields(<<"mem_cntl">>, 6, 10)

(* Fields of several elements and those that no other module looks into are
   their bytes; the rest are numbers, with the highest byte first. *)
Flag == {"intenable", "int_pending"}
Number == {"disp_io", "contrast_ctrl", "disp_test", "crc", "power_status", "power_ctrl", "mode",
  "annunc", "baud", "card_ctrl", "card_status", "io_ctrl", "rcs", "tcs", "rbr", "tbr", "sreq",
  "ir_ctrl", "base_off", "lcr", "lbr", "scratch", "base_nibble", "disp_addr", "line_offset",
  "line_count", "unknown", "t1_ctrl", "t2_ctrl", "menu_addr", "unknown2", "timer1", "timer2",
  "t1_tick", "t2_tick", "MP"}
Place == {"PC", "rstk"} (* symbolic addresses *)

Size(f) == f[2] * f[3]
Names == {Written[i][1] : i \in DOMAIN Written}
FieldOf(name) == Written[CHOOSE i \in DOMAIN Written : Written[i][1] = name]

write_number(v, width) == [i \in 1 .. width |-> (v \div 256 ^ (width - i)) % 256]

(* Of the types only word_32, timer1 and the ticks have a sign. *)
Signed(f) == f[3] = 4 \/ f[1] \in {"timer1", "t1_tick", "t2_tick"}
read_number(bytes, f) ==
  LET high == IF Signed(f) /\ bytes[1] > 127 THEN bytes[1] - 256 ELSE bytes[1]
      value[i \in DOMAIN bytes] == IF i = 1 THEN high ELSE (value[i - 1] * 256) + bytes[i]
  IN value[Len(bytes)]

WriteField(saturn, f) ==
  CASE f[1] \in Number -> write_number(saturn[f[1]], f[3])
    [] f[1] \in Flag -> <<IF saturn[f[1]] THEN 1 ELSE 0>>
    [] f[1] \in Place -> [i \in 1 .. Size(f) |-> saturn[f[1]]]
    [] OTHER -> saturn[f[1]]
ReadField(bytes, f) ==
  CASE f[1] \in Number -> read_number(bytes, f)
    [] f[1] \in Flag -> bytes[1] # 0
    [] f[1] \in Place -> bytes[1]
    [] OTHER -> bytes

Conf(saturn) == FlattenSeq([i \in DOMAIN Written |-> WriteField(saturn, Written[i])])

(* Where each field begins; the fields follow each other. *)
Begin[i \in DOMAIN Read] == IF i = 1 THEN 1 ELSE Begin[i - 1] + Size(Read[i - 1])
ReadConf(bytes) ==
  [ name \in {Read[i][1] : i \in DOMAIN Read} |->
      LET i == CHOOSE j \in DOMAIN Read : Read[j][1] = name
      IN ReadField(SubSeq(bytes, Begin[i], Begin[i] + Size(Read[i]) - 1), Read[i]) ]

-----------------------------------------------------------------------------
(* init_saturn(): all is 0 but these. *)
FreshValue(f) ==
  LET timers == [t1_tick |-> 8192, t2_tick |-> 16, timer2 |-> 8192]
  IN CASE f[1] \in Flag -> f[1] = "intenable"
       [] f[1] \in Place -> "main"
       [] f[1] \in DOMAIN timers -> timers[f[1]]
       [] f[1] \in Number \ DOMAIN timers -> 0
       [] OTHER -> [i \in 1 .. Size(f) |-> IF f[1] = "kbd_ien" THEN 1 ELSE 0]
FreshSaturn == [name \in Names |-> FreshValue(FieldOf(name))]

NoCard == [size |-> 0, is_ram |-> FALSE, data |-> NULL]

(* A card of the size of its file.  A size that no card has leaves port1_size
   or port2_size as it is and the memory NULL. *)
Accepted(p, size) == IF opt_gx /\ p = "port2" THEN size % 4 = 0 ELSE size \in {1, 4}
ReadPort(p, file) ==
  IF file.size = Absent THEN NoCard
  ELSE IF Accepted(p, file.size)
       THEN [size |-> file.size, is_ram |-> file.writable, data |-> file.data]
       ELSE [size |-> file.size, is_ram |-> FALSE, data |-> NULL]

(* card_status: bits 0 and 1 for a card that is there, 2 and 3 for RAM. *)
CardStatus(port) ==
  LET bit(p) == IF opt_gx <=> p = "port2" THEN 0 ELSE 1
      of(p) == (IF port[p].size > 0 THEN 2 ^ bit(p) ELSE 0)
                 + (IF port[p].is_ram THEN 4 * 2 ^ bit(p) ELSE 0)
  IN of("port1") + of("port2")

(* saturn_config_init() *)
ConfigInit(saturn) == [saturn EXCEPT !.rcs = 0, !.tcs = 0, !.lbr = 0]

(* init_emulator(): what of the calculator comes from the files, and whether
   saturn_config_init() has been called.  Without all of its RAM the calculator
   starts afresh. *)
init_emulator(files) ==
  LET saturn == ConfigInit(IF files.conf = <<>> THEN FreshSaturn ELSE ReadConf(files.conf))
      port == [p \in Port |-> ReadPort(p, files.port[p])]
  IN IF files.conf # NoFile /\ files.ram.size = RamSize
     THEN [ saturn |-> [saturn EXCEPT !.card_status = CardStatus(port)],
            ram |-> files.ram.data, port |-> port, requests |-> TRUE ]
     ELSE [ saturn |-> FreshSaturn, ram |-> [a \in DOMAIN files.ram.data |-> 0],
            port |-> [p \in Port |-> NoCard], requests |-> files.conf # NoFile ]

-----------------------------------------------------------------------------
(* write_files(): the files it writes, one after the other. *)
WriteOrder(port) ==
  LET card(p) == IF port[p].size > 0 /\ port[p].is_ram THEN <<p>> ELSE <<>>
  IN <<"conf", "ram">> \o card("port1") \o card("port2")

(* A file as fopen(name, "w") and part of the writing leave it ... *)
CutSizes(m, file) ==
  CASE file = "conf" -> {0} [] file = "ram" -> 0 .. RamSize - 1
    [] OTHER -> 0 .. m.port[file].size - 1
Cut(files, file, size) ==
  CASE file = "conf" -> [files EXCEPT !.conf = <<>>]
    [] file = "ram" -> [files EXCEPT !.ram.size = size]
    [] OTHER -> [files EXCEPT !.port[file].size = size]

(* ... and whole.  The old nibbles are packed in bytes and unpacked again. *)
Whole(files, m, file) ==
  CASE file = "conf" -> [files EXCEPT !.conf = Conf(m.saturn)]
    [] file = "ram" -> [files EXCEPT !.ram = [size |-> RamSize, data |-> m.ram]]
    [] OTHER -> [files EXCEPT !.port[file].size = m.port[file].size,
                              !.port[file].data = m.port[file].data]
=============================================================================
