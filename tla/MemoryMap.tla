------------------------------- MODULE MemoryMap -------------------------------
(***************************************************************************)
(* The memory map of the emulated calculator: the daisy chain of memory    *)
(* controllers that CONFIG, UNCNFG, RESET and C=ID drive (actions.c), the  *)
(* address decoding and the bank switch of read_nibble_*() and             *)
(* write_nibble_*() (memory.c), and Cmd+C, which moves the RAM controller  *)
(* from the SDL thread to look at the stack (macos/test_cases.h, rpl.c).   *)
(* What the cells hold is left out: an access is the place it goes to.     *)
(***************************************************************************)
EXTENDS Integers, Sequences

CONSTANTS
  opt_gx,      (* TRUE: HP 48GX, FALSE: HP 48SX *)
  Offer,       (* Offer[i][h]: what the ROM gives half h of controller i *)
  Withdrawn,   (* the addresses the ROM gives UNCNFG *)
  Address,     (* the addresses that are read and written *)
  CardFiles,   (* pairs: what there is for the files port1 and port2 *)
  Copies,      (* TRUE: the user presses Cmd+C *)
  MaxDisturbed (* a bound: how often the CPU uses the chain during copies *)

Mctl == 0 .. 5
BASE == 0          (* halves of config: the address, and the size as a mask *)
MASK == 1
MMIO == 0
SysRAM == 1
BANK == 2          (* GX only *)
PORT1 == IF opt_gx THEN 3 ELSE 2
PORT2 == IF opt_gx THEN 4 ELSE 3

Word == {n \in Nat : n <= \hfffff} (* 20 bits: addresses, and the halves of config *)

(* Its size in nibbles, two to a byte, or that there is none. *)
Absent == -1
CardFile == [size : Nat \cup {Absent}, readable : BOOLEAN, writable : BOOLEAN]

ASSUME MapAssumption ==
  /\ opt_gx \in BOOLEAN
  /\ Copies \in BOOLEAN
  /\ CardFiles \subseteq CardFile \X CardFile
  /\ MaxDisturbed \in Nat
  /\ Offer \in [Mctl -> [{BASE, MASK} -> SUBSET Word]]
  /\ Withdrawn \subseteq Word
  /\ Address \subseteq Word

VARIABLES
  port,        (* port[1] stands for port1_size, _mask, _is_ram and saturn.port1 *)
  mem_cntl,    (* saturn.mem_cntl *)
  bank_switch, (* saturn.bank_switch *)
  inOrder,     (* no UNCNFG since the last RESET *)
  alone,       (* what mem_cntl were if only the CPU wrote it *)
  disturbed,   (* how often the CPU has used the chain during a copy *)
  copy,        (* where the SDL thread is in read_stack_level() *)
  round,       (* which of its two visits to the stack it makes *)
  saves        (* ram_base, ram_mask of its nested calls, the outermost first *)

copyVars == <<copy, round, saves>>
vars == <<port, mem_cntl, bank_switch, inOrder, alone, disturbed, copyVars>>

-----------------------------------------------------------------------------
(* The cards, as read_files() leaves them: .memory is how many nibbles there are
   at saturn.port1 or saturn.port2, or NULL. *)

NULL == -1
BANK_SIZE == \h40000
NoCard == [size |-> 0, mask |-> 0, is_ram |-> FALSE, memory |-> NULL]

Accepted(p, size) == IF opt_gx /\ p = 2 THEN size % BANK_SIZE = 0 ELSE size \in {\h10000, \h40000}

(* Mutant: a file that is writable is RAM, whether it has been read or not. *)
ReadPortWritable(p, file) ==
  IF file.size = Absent THEN NoCard
  ELSE IF ~Accepted(p, file.size)
  THEN [NoCard EXCEPT !.size = file.size, !.is_ram = file.writable]
  ELSE IF ~file.readable
  THEN [NoCard EXCEPT !.memory = file.size]
  ELSE [size |-> file.size, mask |-> file.size - 1, is_ram |-> file.writable, memory |-> file.size]

(* Mutant: the mask is the size. *)
ReadPortMask(p, file) ==
  IF file.size = Absent THEN NoCard
  ELSE IF ~Accepted(p, file.size)
  THEN [NoCard EXCEPT !.size = file.size]
  ELSE IF ~file.readable
  THEN [NoCard EXCEPT !.memory = file.size]
  ELSE [size |-> file.size, mask |-> file.size, is_ram |-> file.writable, memory |-> file.size]

(* A file of another size leaves its size and no memory, and one that cannot be
   read its memory and no size. *)
ReadPort(p, file) ==
  IF file.size = Absent THEN NoCard
  ELSE IF ~Accepted(p, file.size)
  THEN [NoCard EXCEPT !.size = file.size]
  ELSE IF ~file.readable
  THEN [NoCard EXCEPT !.memory = file.size]
  ELSE [size |-> file.size, mask |-> file.size - 1, is_ram |-> file.writable, memory |-> file.size]

(* & of two numbers, the first of five bits; -1 has all bits set. *)
Common(x, y, bit) == IF (x \div bit) % 2 = 1 /\ (y \div bit) % 2 = 1 THEN bit ELSE 0
And(x, y) == Common(x, y, 1) + Common(x, y, 2) + Common(x, y, 4) + Common(x, y, 8) + Common(x, y, 16)

(* ((bank << 18) + offset) & mask; the lower 18 bits of a mask are ones from the
   lowest on. *)
Masked(bank, offset, mask) ==
  (BANK_SIZE * And(bank, mask \div BANK_SIZE)) + (offset % ((mask % BANK_SIZE) + 1))

-----------------------------------------------------------------------------
(* The daisy chain. *)

conf_tab == [i \in Mctl |-> IF i = MMIO THEN 1 ELSE IF i = 5 THEN 0 ELSE 2]
chip_id == <<0, 0, 0, 0, \h05, \hf6, \h07, \hf8, \h01, \hf2, 0, 0>>

Unset(i) == [unconfigured |-> conf_tab[i], config |-> [h \in {BASE, MASK} |-> 0]]

(* The first controller with an unset half: CONFIG and C=ID talk to it. *)
IsNext(m, i) == /\ m[i].unconfigured > 0
                /\ \A j \in 0 .. i - 1 : m[j].unconfigured = 0

(* Mutant: the address is set before the size. *)
ConfiguredLowFirst(m, conf) ==
  [i \in Mctl |->
     IF IsNext(m, i)
     THEN [unconfigured |-> m[i].unconfigured - 1,
           config |-> [m[i].config EXCEPT ![conf_tab[i] - m[i].unconfigured] = conf]]
     ELSE m[i]]

(* Mutant: every controller of the chain takes the value. *)
ConfiguredAll(m, conf) ==
  [i \in Mctl |->
     IF m[i].unconfigured > 0
     THEN [unconfigured |-> m[i].unconfigured - 1,
           config |-> [m[i].config EXCEPT ![m[i].unconfigured - 1] = conf]]
     ELSE m[i]]

(* CONFIG: the size is set before the address. *)
Configured(m, conf) ==
  [i \in Mctl |->
     IF IsNext(m, i)
     THEN [unconfigured |-> m[i].unconfigured - 1,
           config |-> [m[i].config EXCEPT ![m[i].unconfigured - 1] = conf]]
     ELSE m[i]]

(* UNCNFG: the first controller at that address. *)
Unconfigured(m, conf) ==
  [i \in Mctl |->
     IF m[i].config[BASE] = conf /\ \A j \in 0 .. i - 1 : m[j].config[BASE] # conf
     THEN Unset(i) ELSE m[i]]

(* C=ID *)
Identification(m) ==
  IF \E i \in Mctl : IsNext(m, i)
  THEN LET i == CHOOSE i \in Mctl : IsNext(m, i)
       IN chip_id[2 * i + (2 - m[i].unconfigured) + 1]
  ELSE 0

-----------------------------------------------------------------------------
(* Address decoding. *)

Page(a) == a \div \h10000
At(m, i, base) == m[i].config[BASE] = base
Sized(m, i, mask) == m[i].config[MASK] = mask

(* RAM of 8K or 16K nibbles answers in the first part of its page. *)
InSmallRam(m, a, base) == \/ Sized(m, SysRAM, \hfc000) /\ a < base + \h4000
                          \/ Sized(m, SysRAM, \hfe000) /\ a < base + \h2000

RamAnswersSX(m, a) ==
  \/ /\ Page(a) = 7 /\ At(m, SysRAM, \h70000)
     /\ InSmallRam(m, a, \h70000) \/ Sized(m, SysRAM, \hf0000)
  \/ Page(a) = 15 /\ At(m, SysRAM, \hf0000)

RamAnswersGX(m, a) ==
  \/ Page(a) = 4 /\ At(m, SysRAM, \h40000)
  \/ /\ Page(a) = 8 /\ At(m, SysRAM, \h80000)
     /\ \/ InSmallRam(m, a, \h80000)
        \/ Sized(m, SysRAM, \hf0000)
        \/ Sized(m, SysRAM, \hc0000)
  \/ Page(a) \in 9 .. 11 /\ At(m, SysRAM, \h80000) /\ Sized(m, SysRAM, \hc0000)
  \/ Page(a) = 12 /\ At(m, SysRAM, \hc0000)
  \/ Page(a) \in 13 .. 15 /\ At(m, SysRAM, \hc0000) /\ Sized(m, SysRAM, \hc0000)

RamAnswers(m, a) == IF opt_gx THEN RamAnswersGX(m, a) ELSE RamAnswersSX(m, a)

PortAnswersSX(m, i, a) == \/ Page(a) \in 8 .. 11 /\ At(m, i, \h80000)
                          \/ Page(a) \in 12 .. 15 /\ At(m, i, \hc0000)

PortAnswersGX(m, i, a) ==
  \/ Page(a) = 10 /\ i = PORT1 /\ At(m, i, \ha0000)
  \/ Page(a) = 11 /\ i = PORT2 /\ At(m, i, \hb0000)
  \/ Page(a) = 12 /\ At(m, i, \hc0000)
  \/ Page(a) \in 13 .. 15 /\ At(m, i, \hc0000) /\ Sized(m, i, \hc0000)

PortAnswers(m, i, a) == IF opt_gx THEN PortAnswersGX(m, i, a) ELSE PortAnswersSX(m, i, a)

(* The bank registers of the GX.  On page 9 a read asks controller 0 and a
   write asks the bank controller. *)
BankRead(m, a) ==
  /\ opt_gx
  /\ \/ a \in \h7f000 .. \h7ffff /\ At(m, BANK, \h7f000)
     \/ a \in \h90000 .. \h90fff /\ At(m, MMIO, \h90000)
BankWritten(m, a) ==
  /\ opt_gx
  /\ \/ a \in \h7f000 .. \h7ffff /\ At(m, BANK, \h7f000)
     \/ a \in \h90000 .. \h90fff /\ At(m, BANK, \h90000)
PortRegister(m, a) ==
  /\ opt_gx
  /\ a \in \h7e000 .. \h7efff
  /\ At(m, PORT1, \h7e000) \/ At(m, PORT2, \h7e000)

InIO(a) == a \in \h100 .. \h13f

(* Mutant: the index for RAM's first place, wherever it is. *)
RamAtFirstPlace(m, a) == <<"ram", a - IF opt_gx THEN \h40000 ELSE \h70000>>

Ram(m, a) == <<"ram", a - m[SysRAM].config[BASE]>>
Port1(m, a) == <<"port1", Masked(0, a - m[PORT1].config[BASE], port[1].mask)>>
Port2(m, bank, a) ==
  <<"port2", Masked(IF opt_gx THEN bank ELSE 0, a - m[PORT2].config[BASE], port[2].mask)>>
Rom(a) == IF opt_gx \/ Page(a) < 8 THEN <<"rom", a>> ELSE <<"zero", 0>>
Zero == <<"zero", 0>>
Dropped == <<"dropped", 0>>

(* Where read_nibble() takes the nibble at address a from. *)
ReadFrom(m, bank, a) ==
  IF InIO(a) THEN IF At(m, MMIO, \h100) THEN <<"io", a>> ELSE Zero
  ELSE IF BankRead(m, a) \/ PortRegister(m, a) THEN <<"register", a>>
  ELSE IF RamAnswers(m, a) THEN Ram(m, a)
  ELSE IF PortAnswers(m, PORT1, a) THEN Port1(m, a)
  ELSE IF PortAnswers(m, PORT2, a) THEN Port2(m, bank, a)
  ELSE Rom(a)

(* Mutant: a write asks the ports before the RAM. *)
WrittenToPortsFirst(m, bank, a) ==
  IF InIO(a) THEN IF At(m, MMIO, \h100) THEN <<"io", a>> ELSE Dropped
  ELSE IF BankWritten(m, a) \/ PortRegister(m, a) THEN Dropped
  ELSE IF PortAnswers(m, PORT1, a) THEN IF port[1].is_ram THEN Port1(m, a) ELSE Dropped
  ELSE IF RamAnswers(m, a) THEN Ram(m, a)
  ELSE IF PortAnswers(m, PORT2, a) THEN IF port[2].is_ram THEN Port2(m, bank, a) ELSE Dropped
  ELSE Dropped

(* Where write_nibble() puts the nibble for address a. *)
WrittenTo(m, bank, a) ==
  IF InIO(a) THEN IF At(m, MMIO, \h100) THEN <<"io", a>> ELSE Dropped
  ELSE IF BankWritten(m, a) \/ PortRegister(m, a) THEN Dropped
  ELSE IF RamAnswers(m, a) THEN Ram(m, a)
  ELSE IF PortAnswers(m, PORT1, a) THEN IF port[1].is_ram THEN Port1(m, a) ELSE Dropped
  ELSE IF PortAnswers(m, PORT2, a) THEN IF port[2].is_ram THEN Port2(m, bank, a) ELSE Dropped
  ELSE Dropped

(* Mutant: two addresses per bank are taken for two banks. *)
BankAfterWide(m, bank, a) ==
  LET offset == a % \h1000
  IN IF InIO(a) \/ ~BankRead(m, a) THEN bank
     ELSE IF offset = 0 THEN 0
     ELSE IF offset \in \h40 .. \h7f THEN offset - \h40
     ELSE bank

(* Reading a bank register switches banks: 0 at its start, the others by two
   addresses each from 0x40 on. *)
BankAfter(m, bank, a) ==
  LET offset == a % \h1000
  IN IF InIO(a) \/ ~BankRead(m, a) THEN bank
     ELSE IF offset = 0 THEN 0
     ELSE IF offset \in \h40 .. \h7f THEN (offset - \h40) \div 2
     ELSE bank

-----------------------------------------------------------------------------
(* The CPU. *)

(* read_files() and init_saturn(): as after RESET, with bank 0. *)
Init ==
  /\ \E files \in CardFiles : port = <<ReadPort(1, files[1]), ReadPort(2, files[2])>>
  /\ mem_cntl = [i \in Mctl |-> Unset(i)]
  /\ bank_switch = 0
  /\ inOrder = TRUE
  /\ alone = mem_cntl
  /\ disturbed = 0
  /\ copy = "off"
  /\ round = 1
  /\ saves = <<>>

(* The history of a chain instruction. *)
Disturbs == IF copy = "off" THEN UNCHANGED disturbed
            ELSE disturbed < MaxDisturbed /\ disturbed' = disturbed + 1

DoReset ==
  /\ mem_cntl' = [i \in Mctl |-> Unset(i)]
  /\ alone' = [i \in Mctl |-> Unset(i)]
  /\ inOrder' = TRUE
  /\ Disturbs
  /\ UNCHANGED <<bank_switch, copyVars>>

DoConfigure ==
  \E i \in Mctl :
    /\ IsNext(mem_cntl, i)
    /\ \E conf \in Offer[i][mem_cntl[i].unconfigured - 1] :
         /\ mem_cntl' = Configured(mem_cntl, conf)
         /\ alone' = Configured(alone, conf)
    /\ Disturbs
    /\ UNCHANGED <<bank_switch, inOrder, copyVars>>

DoUnconfigure ==
  \E conf \in Withdrawn :
    /\ mem_cntl' = Unconfigured(mem_cntl, conf)
    /\ alone' = Unconfigured(alone, conf)
    /\ inOrder' = FALSE
    /\ Disturbs
    /\ UNCHANGED <<bank_switch, copyVars>>

ReadNibble ==
  \E a \in Address :
    /\ bank_switch' = BankAfter(mem_cntl, bank_switch, a)
    /\ UNCHANGED <<mem_cntl, inOrder, alone, disturbed, copyVars>>

-----------------------------------------------------------------------------
(* Cmd+C on the SDL thread: read_stack_level() saves the RAM controller's
   configuration, puts RAM where the ROM's pointers expect it, reads, and puts
   the configuration back; then it does so again for the object it found, with
   what it has saved.  check_xlib() and xlib_name(), called on the second
   visit, do the same inside it.  Each half is a store of its own. *)

StackBase == IF opt_gx THEN \h80000 ELSE \h70000
StackMask == IF opt_gx THEN \hc0000 ELSE \hf0000
LibraryBase == \hf0000
Saved == saves[Len(saves)]

SetHalf(h, value) == mem_cntl' = [mem_cntl EXCEPT ![SysRAM].config[h] = value]

(* The calls: ram_base first, then ram_mask. *)
SaveBase ==
  /\ Copies
  /\ \/ copy = "off" /\ round' = 1
     \/ copy = "read" /\ round = 2 /\ Len(saves) < 3 /\ UNCHANGED round
  /\ saves' = Append(saves, [base |-> mem_cntl[SysRAM].config[BASE], mask |-> 0])
  /\ copy' = "saveMask"
  /\ UNCHANGED mem_cntl

SaveMask ==
  /\ copy = "saveMask"
  /\ saves' = [saves EXCEPT ![Len(saves)].mask = mem_cntl[SysRAM].config[MASK]]
  /\ copy' = "setBase"
  /\ UNCHANGED <<mem_cntl, round>>

SetBase ==
  /\ copy = "setBase"
  /\ SetHalf(BASE, StackBase)
  /\ copy' = "setMask"
  /\ UNCHANGED <<round, saves>>

SetMask ==
  /\ copy = "setMask"
  /\ SetHalf(MASK, StackMask)
  /\ copy' = "read"
  /\ UNCHANGED <<round, saves>>

(* check_xlib() and xlib_name() move RAM away for a library in the SX's ROM,
   and check_xlib() brings it back for the next library. *)
MoveForLibrary ==
  /\ copy = "read"
  /\ \/ Len(saves) > 1 /\ ~opt_gx /\ SetHalf(BASE, LibraryBase)
     \/ Len(saves) = 2 /\ SetHalf(BASE, StackBase)
  /\ UNCHANGED copyVars

(* Mutant: a return that forgets the mask. *)
RestoreBaseOnly ==
  /\ copy = "read"
  /\ SetHalf(BASE, Saved.base)
  /\ copy' = "off"
  /\ saves' = <<>>
  /\ round' = 1

RestoreBase ==
  /\ copy = "read"
  /\ SetHalf(BASE, Saved.base)
  /\ copy' = "restoreMask"
  /\ UNCHANGED <<round, saves>>

(* The first visit may find no object at that level; a nested call goes back
   to the one that made it. *)
RestoreMask ==
  /\ copy = "restoreMask"
  /\ SetHalf(MASK, Saved.mask)
  /\ \/ /\ Len(saves) > 1
        /\ copy' = "read"
        /\ saves' = SubSeq(saves, 1, Len(saves) - 1)
        /\ UNCHANGED round
     \/ /\ Len(saves) = 1 /\ round = 1
        /\ copy' = "setBase"
        /\ round' = 2
        /\ UNCHANGED saves
     \/ /\ Len(saves) = 1
        /\ copy' = "off"
        /\ saves' = <<>>
        /\ round' = 1

ReadStackLevel ==
  /\ SaveBase \/ SaveMask \/ SetBase \/ SetMask \/ MoveForLibrary \/ RestoreBase \/ RestoreMask
  /\ UNCHANGED <<bank_switch, inOrder, alone, disturbed>>

Next == /\ DoReset \/ DoConfigure \/ DoUnconfigure \/ ReadNibble \/ ReadStackLevel
        /\ UNCHANGED port

Spec == Init /\ [][Next]_vars

-----------------------------------------------------------------------------
Controllers == [Mctl -> [unconfigured : 0 .. 2, config : [{BASE, MASK} -> Word]]]

Cards == [1 .. 2 -> [size : Nat, mask : Int, is_ram : BOOLEAN, memory : Int]]

TypeOK ==
  /\ port \in Cards
  /\ mem_cntl \in Controllers
  /\ \A i \in Mctl : mem_cntl[i].unconfigured <= conf_tab[i]
  /\ bank_switch \in 0 .. 31
  /\ inOrder \in BOOLEAN
  /\ alone \in Controllers
  /\ \A i \in Mctl : alone[i].unconfigured <= conf_tab[i]
  /\ disturbed \in 0 .. MaxDisturbed
  /\ copy \in {"off", "saveMask", "setBase", "setMask", "read", "restoreMask"}
  /\ round \in 1 .. 2
  /\ saves \in Seq([base : Word, mask : Word])

(* A controller that is not completely configured answers nowhere: the halves
   the ROM has still to set are 0, where no device of memory.c answers,
   whatever the order of CONFIG, UNCNFG and RESET (do_configure,
   do_unconfigure, do_reset in actions.c). *)
UnconfiguredSilent ==
  \A i \in Mctl : \A h \in {BASE, MASK} :
    h < mem_cntl[i].unconfigured => mem_cntl[i].config[h] = 0

(* Unless a controller was withdrawn since RESET, those behind one with an
   unset half are all unset. *)
InOrder ==
  inOrder => \A i, j \in Mctl : i < j /\ mem_cntl[i].unconfigured > 0 => mem_cntl[j] = Unset(j)

(* CONFIG works through the chain from the front, and what C=ID tells the ROM
   is true of it: of the controller that gives its first or second number,
   neither half or only the size is set, and all the controllers before it are
   configured (get_identification and do_configure in actions.c). *)
DaisyChain ==
  /\ InOrder
  /\ \A i \in 2 .. 4, n \in 1 .. 2 :
       Identification(mem_cntl) = chip_id[2 * i + 3 - n] =>
         mem_cntl[i].unconfigured = n /\ \A j \in 0 .. i - 1 : mem_cntl[j].unconfigured = 0

(* What the CPU writes it reads back: where write_nibble() stores a nibble,
   read_nibble() finds it, for every address and every map the chain can get
   to, though the two decode addresses with code of their own (memory.c). *)
ReadBack ==
  \A a \in Address :
    LET place == WrittenTo(mem_cntl, bank_switch, a)
    IN place # Dropped => ReadFrom(mem_cntl, bank_switch, a) = place

(* The nibbles of an array; NULL has none. *)
RAM_SIZE == IF opt_gx THEN \h40000 ELSE \h10000
Memory == [ram |-> RAM_SIZE, port1 |-> port[1].memory, port2 |-> port[2].memory]

(* No access leaves its array, not even while the RAM controller is moved half
   by half under the CPU's accesses: the conditions under which memory.c goes
   to RAM bound the index by what read_files() has allocated, and the mask it
   has derived from a file's size bounds that into a card, in every bank.  And
   whatever the files are, nothing is ever written to a port without memory.
   Nothing is promised to a ROM that reads one (memory.c:993, 1140), nor of a
   card whose file is empty (init.c:1389 takes one, and its mask is -1). *)
InBounds ==
  \A a \in Address :
    LET read == ReadFrom(mem_cntl, bank_switch, a)
        written == WrittenTo(mem_cntl, bank_switch, a)
    IN /\ \A place \in {read, written} :
            place[1] \in DOMAIN Memory /\ Memory[place[1]] > 0 =>
              place[2] \in 0 .. Memory[place[1]] - 1
       /\ written[1] \in DOMAIN Memory => Memory[written[1]] # NULL

(* As long as the CPU leaves the chain alone meanwhile, a copy puts back what
   it has moved, through two visits and up to three calls that each save and
   restore the same controller (read_stack_level in test_cases.h, check_xlib
   and xlib_name in rpl.c). *)
CopyRestores == copy = "off" /\ disturbed = 0 => mem_cntl = alone

(* Copying the stack only reads it: when read_stack_level() has returned, the
   controllers are as the CPU's instructions alone have made them
   (README.md, "Test thread (--test): sends button events, reads RPL stack"). *)
CopyOnlyReads == copy = "off" => mem_cntl = alone
==============================================================================
