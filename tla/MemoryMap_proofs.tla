--------------------------- MODULE MemoryMap_proofs ---------------------------
(***************************************************************************)
(* Proofs about MemoryMap, for any ROM, any cards and any addresses.       *)
(***************************************************************************)
EXTENDS MemoryMap, SequenceTheorems, TLAPS

Controller == [unconfigured : 0 .. 2, config : [{BASE, MASK} -> Word]]

(* A copy holds a saved configuration exactly while it runs. *)
CopyOK == IF copy = "off" THEN saves = <<>> ELSE Len(saves) \in 1 .. 3

(* A card with memory is indexed with the mask of a nibble that it has, and
   without one it is not RAM. *)
CardsOK == \A p \in 1 .. 2 : /\ port[p].memory > 0 => port[p].mask \in 0 .. port[p].memory - 1
                             /\ port[p].is_ram => port[p].memory # NULL

TypeInv == TypeOK /\ CopyOK /\ CardsOK

(* What read_files() makes of any files. *)
LEMMA ReadPortType ==
  ASSUME NEW p \in 1 .. 2, NEW file \in CardFile
  PROVE  LET c == ReadPort(p, file)
         IN /\ c \in [size : Nat, mask : Int, is_ram : BOOLEAN, memory : Int]
            /\ c.memory > 0 => c.mask \in 0 .. c.memory - 1
            /\ c.is_ram => c.memory # NULL
<1>1. file.size \in Nat \cup {Absent} /\ file.writable \in BOOLEAN
  BY DEF CardFile
<1>2. CASE file.size = Absent
  BY <1>2 DEF ReadPort, NoCard, NULL
<1>3. CASE file.size # Absent /\ ~Accepted(p, file.size)
  <2>1. ReadPort(p, file) = [size |-> file.size, mask |-> 0, is_ram |-> FALSE, memory |-> NULL]
    BY <1>3 DEF ReadPort, NoCard
  <2> QED BY <1>1, <1>3, <2>1 DEF NULL
<1>4. CASE file.size # Absent /\ Accepted(p, file.size) /\ ~file.readable
  <2>1. ReadPort(p, file) = [size |-> 0, mask |-> 0, is_ram |-> FALSE, memory |-> file.size]
    BY <1>4 DEF ReadPort, NoCard
  <2>2. file.size \in Nat
    BY <1>1, <1>4
  <2> QED BY <1>1, <2>1, <2>2
<1>5. CASE file.size # Absent /\ Accepted(p, file.size) /\ file.readable
  BY <1>1, <1>5 DEF ReadPort, NULL
<1> QED BY <1>2, <1>3, <1>4, <1>5

LEMMA CardsInit == Init => port \in Cards /\ CardsOK
<1> SUFFICES ASSUME Init PROVE port \in Cards /\ CardsOK
  OBVIOUS
<1>1. PICK files \in CardFile \X CardFile : port = <<ReadPort(1, files[1]), ReadPort(2, files[2])>>
  BY MapAssumption DEF Init
<1>2. files[1] \in CardFile /\ files[2] \in CardFile
  OBVIOUS
<1> DEFINE c1 == ReadPort(1, files[1])
           c2 == ReadPort(2, files[2])
<1>3. /\ c1 \in [size : Nat, mask : Int, is_ram : BOOLEAN, memory : Int]
      /\ c1.memory > 0 => c1.mask \in 0 .. c1.memory - 1
      /\ c1.is_ram => c1.memory # NULL
  BY <1>2, ReadPortType
<1>4. /\ c2 \in [size : Nat, mask : Int, is_ram : BOOLEAN, memory : Int]
      /\ c2.memory > 0 => c2.mask \in 0 .. c2.memory - 1
      /\ c2.is_ram => c2.memory # NULL
  BY <1>2, ReadPortType
<1>5. port = <<c1, c2>>
  BY <1>1
<1> HIDE DEF c1, c2
<1>6. port \in Cards
  BY <1>3, <1>4, <1>5 DEF Cards
<1>7. port[1] = c1 /\ port[2] = c2
  BY <1>5
<1> QED BY <1>3, <1>4, <1>6, <1>7 DEF CardsOK

(* What RESET and UNCNFG make of a controller is a controller. *)
LEMMA UnsetIsController ==
  \A i \in Mctl : Unset(i) \in Controller /\ Unset(i).unconfigured = conf_tab[i]
<1>1. 0 \in Word
  BY SMT DEF Word
<1> QED BY <1>1 DEF Unset, Controller, conf_tab, Mctl, MMIO

(* CONFIG keeps the controllers' types. *)
LEMMA ConfiguredType ==
  ASSUME NEW m \in Controllers, NEW conf \in Word,
         \A i \in Mctl : m[i].unconfigured <= conf_tab[i]
  PROVE  /\ Configured(m, conf) \in Controllers
         /\ \A i \in Mctl : Configured(m, conf)[i].unconfigured <= conf_tab[i]
<1> DEFINE New(i) == IF IsNext(m, i)
                     THEN [unconfigured |-> m[i].unconfigured - 1,
                           config |-> [m[i].config EXCEPT ![m[i].unconfigured - 1] = conf]]
                     ELSE m[i]
<1>1. ASSUME NEW i \in Mctl
      PROVE  New(i) \in Controller /\ New(i).unconfigured <= conf_tab[i]
  <2>1. m[i] \in Controller
    BY DEF Controllers, Controller
  <2>2. m[i].unconfigured <= conf_tab[i] /\ conf_tab[i] \in 0 .. 2
    BY DEF conf_tab, Mctl, MMIO
  <2>3. CASE IsNext(m, i)
    <3>1. m[i].unconfigured \in 1 .. 2
      BY <2>1, <2>3 DEF IsNext, Controller
    <3>2. m[i].config \in [{BASE, MASK} -> Word]
      BY <2>1 DEF Controller
    <3>3. [m[i].config EXCEPT ![m[i].unconfigured - 1] = conf] \in [{BASE, MASK} -> Word]
      BY <3>2
    <3> QED BY <2>2, <2>3, <3>1, <3>3 DEF Controller
  <2>4. CASE ~IsNext(m, i)
    BY <2>1, <2>2, <2>4
  <2> QED BY <2>3, <2>4
<1>2. Configured(m, conf) = [i \in Mctl |-> New(i)]
  BY DEF Configured
<1> QED BY <1>1, <1>2 DEF Controllers, Controller

(* UNCNFG keeps the controllers' types. *)
LEMMA UnconfiguredType ==
  ASSUME NEW m \in Controllers, NEW conf,
         \A i \in Mctl : m[i].unconfigured <= conf_tab[i]
  PROVE  /\ Unconfigured(m, conf) \in Controllers
         /\ \A i \in Mctl : Unconfigured(m, conf)[i].unconfigured <= conf_tab[i]
<1>1. \A i \in Mctl : /\ Unconfigured(m, conf)[i] \in {Unset(i), m[i]}
                      /\ Unset(i) \in Controller /\ m[i] \in Controller
                      /\ Unset(i).unconfigured = conf_tab[i]
                      /\ conf_tab[i] \in 0 .. 2
  <2>1. \A i \in Mctl : Unconfigured(m, conf)[i] \in {Unset(i), m[i]}
    BY DEF Unconfigured
  <2>2. \A i \in Mctl : m[i] \in Controller
    BY DEF Controllers, Controller
  <2>3. \A i \in Mctl : conf_tab[i] \in 0 .. 2
    BY DEF conf_tab, Mctl, MMIO
  <2> QED BY <2>1, <2>2, <2>3, UnsetIsController
<1>2. Unconfigured(m, conf) = [i \in Mctl |-> Unconfigured(m, conf)[i]]
  BY DEF Unconfigured
<1>3. \A i \in Mctl : Unconfigured(m, conf)[i] \in Controller
  BY <1>1
<1>4. Unconfigured(m, conf) \in Controllers
  BY <1>2, <1>3 DEF Controllers, Controller
<1>5. ASSUME NEW i \in Mctl
      PROVE  Unconfigured(m, conf)[i].unconfigured <= conf_tab[i]
  BY <1>1
<1> QED BY <1>4, <1>5

(* The chain after RESET has the controllers' types. *)
LEMMA ResetType ==
  /\ [i \in Mctl |-> Unset(i)] \in Controllers
  /\ \A j \in Mctl : [i \in Mctl |-> Unset(i)][j].unconfigured <= conf_tab[j]
<1>1. [i \in Mctl |-> Unset(i)] \in Controllers
  BY UnsetIsController DEF Controllers, Controller
<1>2. ASSUME NEW j \in Mctl
      PROVE  [i \in Mctl |-> Unset(i)][j].unconfigured <= conf_tab[j]
  <2>1. [i \in Mctl |-> Unset(i)][j].unconfigured = conf_tab[j]
    BY UnsetIsController
  <2>2. conf_tab[j] \in 0 .. 2
    BY DEF conf_tab, Mctl, MMIO
  <2> QED BY <2>1, <2>2
<1> QED BY <1>1, <1>2

(* There are 32 banks. *)
LEMMA BankType ==
  ASSUME NEW m, NEW bank \in 0 .. 31, NEW a \in Word
  PROVE  BankAfter(m, bank, a) \in 0 .. 31
<1>1. a % \h1000 \in Nat
  BY SMT DEF Word
<1> QED BY <1>1, SMT DEF BankAfter

(* Moving the RAM controller keeps the controllers' types. *)
LEMMA HalfType ==
  ASSUME NEW h \in {BASE, MASK}, NEW value \in Word, TypeOK, SetHalf(h, value)
  PROVE  /\ mem_cntl' \in Controllers
         /\ \A i \in Mctl : mem_cntl'[i].unconfigured <= conf_tab[i]
<1>1. SysRAM \in Mctl
  BY DEF Mctl, SysRAM
<1>2. mem_cntl \in Controllers
  BY DEF TypeOK
<1>3. mem_cntl[SysRAM].config \in [{BASE, MASK} -> Word]
  BY <1>1, <1>2 DEF Controllers
<1>4. [mem_cntl[SysRAM].config EXCEPT ![h] = value] \in [{BASE, MASK} -> Word]
  BY <1>3
<1>5. mem_cntl' = [mem_cntl EXCEPT ![SysRAM] =
                     [mem_cntl[SysRAM] EXCEPT !.config = [mem_cntl[SysRAM].config EXCEPT ![h] = value]]]
  BY DEF SetHalf
<1>6. mem_cntl' \in Controllers
  BY <1>1, <1>2, <1>4, <1>5 DEF Controllers
<1>7. \A i \in Mctl : mem_cntl'[i].unconfigured = mem_cntl[i].unconfigured
  BY <1>1, <1>2, <1>5 DEF Controllers
<1> QED BY <1>6, <1>7 DEF TypeOK

(* The configuration a copy gives RAM is one. *)
LEMMA StackPlace ==
  StackBase \in Word /\ StackMask \in Word /\ LibraryBase \in Word /\ 0 \in Word
BY SMT DEF StackBase, StackMask, LibraryBase, Word

Save == [base : Word, mask : Word]

(* The copy's own steps keep the types and what it has saved. *)
LEMMA CopyType ==
  ASSUME TypeInv, ReadStackLevel, UNCHANGED port
  PROVE  TypeInv'
<1> USE DEF TypeInv, TypeOK, CopyOK, Save
<1>0. (port \in Cards /\ CardsOK)'
  BY DEF CardsOK, Cards
<1>1. saves \in Seq(Save)
  BY DEF Save
<1>2. mem_cntl[SysRAM].config \in [{BASE, MASK} -> Word]
  BY DEF Controllers, SysRAM, Mctl
<1>3. /\ UNCHANGED <<bank_switch, inOrder, alone, disturbed>>
      /\ (port \in Cards /\ CardsOK)'
  BY <1>0 DEF ReadStackLevel
<1>5. \A n \in 1 .. Len(saves) : saves[n] \in Save
  BY <1>1, ElementOfSeq
<1>4. copy # "off" => Saved \in Save
  <2>1. copy # "off" => Len(saves) \in 1 .. Len(saves)
    OBVIOUS
  <2> QED BY <1>5, <2>1 DEF Saved
<1>a. CASE SaveBase
  <2>1. [base |-> mem_cntl[SysRAM].config[BASE], mask |-> 0] \in Save
    BY <1>2, StackPlace
  <2>2. saves' \in Seq(Save) /\ Len(saves') = Len(saves) + 1
    BY <1>1, <1>a, <2>1 DEF SaveBase
  <2>3. copy' = "saveMask" /\ round' \in 1 .. 2 /\ UNCHANGED mem_cntl
    BY <1>a DEF SaveBase
  <2>5. Len(saves) \in 0 .. 2
    <3>1. CASE copy = "off"
      BY <3>1
    <3>2. CASE copy = "read" /\ Len(saves) < 3
      <4>1. Len(saves) \in 1 .. 3
        BY <3>2
      <4> HIDE DEF TypeInv
      <4> QED BY <3>2, <4>1
    <3> QED BY <1>a, <3>1, <3>2 DEF SaveBase
  <2>4. CopyOK'
    <3>1. Len(saves') \in 1 .. 3
      <4>1. \A k, n : n \in 0 .. 2 /\ k = n + 1 => k \in 1 .. 3
        OBVIOUS
      <4> HIDE DEF TypeInv
      <4> QED BY <2>2, <2>5, <4>1, Zenon
    <3> QED BY <2>3, <3>1
  <2> QED BY <1>3, <2>2, <2>3, <2>4
<1>b. CASE SaveMask
  <2>1. mem_cntl[SysRAM].config[MASK] \in Word
    BY <1>2
  <2>2. Len(saves) \in 1 .. 3
    BY <1>b DEF SaveMask
  <2>3. [saves[Len(saves)] EXCEPT !.mask = mem_cntl[SysRAM].config[MASK]] \in Save
    BY <1>4, <1>b, <2>1 DEF SaveMask, Saved
  <2>4. saves' \in Seq(Save) /\ Len(saves') = Len(saves)
    BY <1>1, <1>b, <2>2, <2>3 DEF SaveMask
  <2>5. copy' = "setBase" /\ UNCHANGED <<mem_cntl, round>>
    BY <1>b DEF SaveMask
  <2> QED BY <1>3, <2>2, <2>4, <2>5
<1>c. CASE SetBase
  <2>1. mem_cntl' \in Controllers /\ \A i \in Mctl : mem_cntl'[i].unconfigured <= conf_tab[i]
    BY <1>c, HalfType, StackPlace DEF SetBase
  <2> QED BY <1>3, <1>c, <2>1 DEF SetBase
<1>d. CASE SetMask
  <2>1. mem_cntl' \in Controllers /\ \A i \in Mctl : mem_cntl'[i].unconfigured <= conf_tab[i]
    BY <1>d, HalfType, StackPlace DEF SetMask
  <2> QED BY <1>3, <1>d, <2>1 DEF SetMask
<1>e. CASE MoveForLibrary
  <2>1. mem_cntl' \in Controllers /\ \A i \in Mctl : mem_cntl'[i].unconfigured <= conf_tab[i]
    BY <1>e, HalfType, StackPlace DEF MoveForLibrary
  <2> QED BY <1>3, <1>e, <2>1 DEF MoveForLibrary, copyVars
<1>f. CASE RestoreBase
  <2>1. mem_cntl' \in Controllers /\ \A i \in Mctl : mem_cntl'[i].unconfigured <= conf_tab[i]
    BY <1>f, <1>4, HalfType DEF RestoreBase
  <2> QED BY <1>3, <1>f, <2>1 DEF RestoreBase
<1>g. CASE RestoreMask
  <2>1. mem_cntl' \in Controllers /\ \A i \in Mctl : mem_cntl'[i].unconfigured <= conf_tab[i]
    BY <1>g, <1>4, HalfType DEF RestoreMask
  <2>2. CASE Len(saves) > 1 /\ copy' = "read" /\ UNCHANGED round
             /\ saves' = SubSeq(saves, 1, Len(saves) - 1)
    <3>1. Len(saves) \in 1 .. 3
      BY <1>g DEF RestoreMask
    <3>2. \A n \in 1 .. Len(saves) - 1 : saves[n] \in Save
      <4> HIDE DEF TypeInv
      <4> QED BY <1>5, <3>1
    <3>3. saves' \in Seq(Save) /\ Len(saves') = Len(saves) - 1
      BY <2>2, <3>1, <3>2, SubSeqProperties
    <3> QED BY <1>3, <2>1, <2>2, <3>1, <3>3
  <2>3. CASE Len(saves) = 1 /\ round = 1 /\ copy' = "setBase" /\ round' = 2 /\ UNCHANGED saves
    BY <1>3, <2>1, <2>3
  <2>4. CASE Len(saves) = 1 /\ copy' = "off" /\ saves' = <<>> /\ round' = 1
    BY <1>3, <2>1, <2>4
  <2> QED BY <1>g, <2>2, <2>3, <2>4 DEF RestoreMask
<1> QED BY <1>a, <1>b, <1>c, <1>d, <1>e, <1>f, <1>g DEF ReadStackLevel

-----------------------------------------------------------------------------

(* The first state and every step keep the types. *)
LEMMA TypeInit == Init => TypeInv
<1> SUFFICES ASSUME Init PROVE TypeInv
  OBVIOUS
<1>1. mem_cntl \in Controllers /\ \A i \in Mctl : mem_cntl[i].unconfigured <= conf_tab[i]
  BY ResetType DEF Init
<1>2. 0 \in 0 .. MaxDisturbed
  BY MapAssumption
<1>3. port \in Cards /\ CardsOK
  BY CardsInit
<1> QED BY <1>1, <1>2, <1>3 DEF Init, TypeInv, TypeOK, CopyOK

(* The instructions on the chain count towards MaxDisturbed. *)
LEMMA DisturbsType ==
  ASSUME TypeOK, Disturbs
  PROVE  disturbed' \in 0 .. MaxDisturbed
BY MapAssumption DEF TypeOK, Disturbs

(* Every step keeps the types. *)
LEMMA TypeStep ==
  ASSUME TypeInv, [Next]_vars
  PROVE  TypeInv'
<1> USE DEF TypeInv
<1>0. UNCHANGED port
  BY DEF Next, vars
<1>c. (port \in Cards /\ CardsOK)'
  BY <1>0 DEF TypeOK, CardsOK
<1>1. CASE DoReset
  <2>1. /\ mem_cntl' \in Controllers /\ alone' \in Controllers
        /\ \A i \in Mctl : mem_cntl'[i].unconfigured <= conf_tab[i]
        /\ \A i \in Mctl : alone'[i].unconfigured <= conf_tab[i]
    BY <1>1, ResetType DEF DoReset
  <2> QED BY <1>c, <1>1, <2>1, DisturbsType DEF DoReset, TypeOK, CopyOK, copyVars
<1>2. CASE DoConfigure
  <2>1. PICK i \in Mctl : IsNext(mem_cntl, i) /\
          \E conf \in Offer[i][mem_cntl[i].unconfigured - 1] :
            mem_cntl' = Configured(mem_cntl, conf) /\ alone' = Configured(alone, conf)
    BY <1>2 DEF DoConfigure
  <2>2. mem_cntl[i].unconfigured - 1 \in {BASE, MASK}
    BY <2>1 DEF TypeOK, Controllers, IsNext, BASE, MASK
  <2>3. PICK conf \in Word :
          mem_cntl' = Configured(mem_cntl, conf) /\ alone' = Configured(alone, conf)
    BY <2>1, <2>2, MapAssumption
  <2>4. /\ mem_cntl' \in Controllers /\ alone' \in Controllers
        /\ \A j \in Mctl : mem_cntl'[j].unconfigured <= conf_tab[j]
        /\ \A j \in Mctl : alone'[j].unconfigured <= conf_tab[j]
    BY <2>3, ConfiguredType DEF TypeOK
  <2> QED BY <1>c, <1>2, <2>4, DisturbsType DEF DoConfigure, TypeOK, CopyOK, copyVars
<1>3. CASE DoUnconfigure
  <2>1. PICK conf \in Withdrawn :
          mem_cntl' = Unconfigured(mem_cntl, conf) /\ alone' = Unconfigured(alone, conf)
    BY <1>3 DEF DoUnconfigure
  <2>2. /\ mem_cntl' \in Controllers /\ alone' \in Controllers
        /\ \A j \in Mctl : mem_cntl'[j].unconfigured <= conf_tab[j]
        /\ \A j \in Mctl : alone'[j].unconfigured <= conf_tab[j]
    BY <2>1, UnconfiguredType DEF TypeOK
  <2> QED BY <1>c, <1>3, <2>2, DisturbsType DEF DoUnconfigure, TypeOK, CopyOK, copyVars
<1>4. CASE ReadNibble
  <2>1. PICK a \in Address : bank_switch' = BankAfter(mem_cntl, bank_switch, a)
    BY <1>4 DEF ReadNibble
  <2>2. a \in Word /\ bank_switch \in 0 .. 31
    BY MapAssumption DEF TypeOK
  <2>3. bank_switch' \in 0 .. 31
    BY <2>1, <2>2, BankType
  <2> QED BY <1>c, <1>4, <2>3 DEF ReadNibble, TypeOK, CopyOK, copyVars
<1>5. CASE ReadStackLevel
  BY <1>0, <1>5, CopyType
<1>6. CASE UNCHANGED vars
  BY <1>c, <1>6 DEF vars, copyVars, TypeOK, CopyOK
<1> QED BY <1>1, <1>2, <1>3, <1>4, <1>5, <1>6 DEF Next

(* The controllers, the bank and the copy keep their types, for every ROM,
   also while the SDL thread moves the RAM controller (actions.c, memory.c,
   test_cases.h). *)
THEOREM TypeCorrect == Spec => []TypeOK
<1>1. Init => TypeInv
  BY TypeInit
<1>2. TypeInv /\ [Next]_vars => TypeInv'
  BY TypeStep
<1>3. TypeInv => TypeOK
  BY DEF TypeInv
<1> QED BY <1>1, <1>2, <1>3, PTL DEF Spec

-----------------------------------------------------------------------------
(* The chain, when nobody presses Cmd+C. *)

ChainInv == TypeInv /\ copy = "off" /\ UnconfiguredSilent /\ InOrder

(* After RESET the whole chain is unset. *)
LEMMA ChainInit == Init => ChainInv
BY TypeInit DEF Init, ChainInv, UnconfiguredSilent, InOrder, Unset

(* CONFIG sets the highest unset half of the first controller that has one. *)
LEMMA ConfiguredChain ==
  ASSUME ChainInv, NEW conf \in Word, mem_cntl' = Configured(mem_cntl, conf), UNCHANGED inOrder
  PROVE  UnconfiguredSilent' /\ InOrder'
<1>1. \A i \in Mctl : mem_cntl'[i] =
        IF IsNext(mem_cntl, i)
        THEN [unconfigured |-> mem_cntl[i].unconfigured - 1,
              config |-> [mem_cntl[i].config EXCEPT ![mem_cntl[i].unconfigured - 1] = conf]]
        ELSE mem_cntl[i]
  BY DEF Configured
<1>2. \A i \in Mctl : /\ mem_cntl[i].unconfigured \in 0 .. 2
                      /\ mem_cntl[i].config \in [{BASE, MASK} -> Word]
  BY DEF ChainInv, TypeInv, TypeOK, Controllers
<1>3. UnconfiguredSilent'
  <2> SUFFICES ASSUME NEW i \in Mctl, NEW h \in {BASE, MASK}, h < mem_cntl'[i].unconfigured
               PROVE  mem_cntl'[i].config[h] = 0
    BY DEF UnconfiguredSilent
  <2>1. h \in Nat
    BY DEF BASE, MASK
  <2>2. CASE IsNext(mem_cntl, i)
    <3> DEFINE c == [mem_cntl[i].config EXCEPT ![mem_cntl[i].unconfigured - 1] = conf]
    <3>a. mem_cntl'[i] = [unconfigured |-> mem_cntl[i].unconfigured - 1, config |-> c]
      BY <1>1, <2>2
    <3>1. mem_cntl'[i].unconfigured = mem_cntl[i].unconfigured - 1
      <4> HIDE DEF c
      <4> QED BY <3>a
    <3>2. h < mem_cntl[i].unconfigured /\ h # mem_cntl[i].unconfigured - 1
      BY <1>2, <2>1, <3>1
    <3>3. mem_cntl'[i].config = c
      <4> HIDE DEF c
      <4> QED BY <3>a
    <3>4. mem_cntl'[i].config[h] = mem_cntl[i].config[h]
      BY <1>2, <3>2, <3>3
    <3> QED BY <3>2, <3>4 DEF ChainInv, UnconfiguredSilent
  <2>3. CASE ~IsNext(mem_cntl, i)
    BY <1>1, <2>3 DEF ChainInv, UnconfiguredSilent
  <2> QED BY <2>2, <2>3
<1>4. InOrder'
  <2> SUFFICES ASSUME inOrder, NEW i \in Mctl, NEW j \in Mctl, i < j,
                      mem_cntl'[i].unconfigured > 0
               PROVE  mem_cntl'[j] = Unset(j)
    BY DEF InOrder, Unset, conf_tab
  <2>1. mem_cntl[i].unconfigured > 0
    BY <1>1, <1>2 DEF IsNext
  <2>2. mem_cntl[j] = Unset(j)
    BY <2>1 DEF ChainInv, InOrder
  <2>3. ~IsNext(mem_cntl, j)
    BY <2>1 DEF IsNext, Mctl
  <2> QED BY <1>1, <2>2, <2>3
<1> QED BY <1>3, <1>4

(* Without a copy, CONFIG, UNCNFG and RESET keep the chain silent and in order. *)
LEMMA ChainStep ==
  ASSUME Copies = FALSE, ChainInv, [Next]_vars
  PROVE  ChainInv'
<1>1. TypeInv'
  BY TypeStep DEF ChainInv
<1>2. ~ReadStackLevel
  BY SMT DEF ChainInv, ReadStackLevel, SaveBase, SaveMask, SetBase, SetMask, MoveForLibrary,
             RestoreBase, RestoreMask
<1>3. copy' = "off"
  BY <1>2 DEF ChainInv, Next, DoReset, DoConfigure, DoUnconfigure, ReadNibble, vars, copyVars
<1>4. UnconfiguredSilent' /\ InOrder'
  <2>1. CASE DoReset
    <3>1. \A i \in Mctl : mem_cntl'[i] = Unset(i)
      BY <2>1 DEF DoReset
    <3>2. \A i \in Mctl, h \in {BASE, MASK} : mem_cntl'[i].config[h] = 0
      <4> SUFFICES ASSUME NEW i \in Mctl, NEW h \in {BASE, MASK}
                   PROVE  mem_cntl'[i].config[h] = 0
        OBVIOUS
      <4>1. Unset(i).config[h] = 0
        BY DEF Unset
      <4> QED BY <3>1, <4>1
    <3>3. UnconfiguredSilent'
      BY <3>2 DEF UnconfiguredSilent
    <3>4. InOrder'
      BY <3>1 DEF InOrder, Unset
    <3> QED BY <3>3, <3>4
  <2>2. CASE DoConfigure
    <3>1. PICK i \in Mctl : IsNext(mem_cntl, i) /\
            \E conf \in Offer[i][mem_cntl[i].unconfigured - 1] :
              mem_cntl' = Configured(mem_cntl, conf)
      BY <2>2 DEF DoConfigure
    <3>2. mem_cntl[i].unconfigured - 1 \in {BASE, MASK}
      BY <3>1 DEF ChainInv, TypeInv, TypeOK, Controllers, IsNext, BASE, MASK
    <3>3. PICK conf \in Word : mem_cntl' = Configured(mem_cntl, conf)
      BY <3>1, <3>2, MapAssumption
    <3> QED BY <2>2, <3>3, ConfiguredChain DEF DoConfigure
  <2>3. CASE DoUnconfigure
    <3>1. \A i \in Mctl : mem_cntl'[i] \in {Unset(i), mem_cntl[i]}
      BY <2>3 DEF DoUnconfigure, Unconfigured
    <3>2. inOrder' = FALSE
      BY <2>3 DEF DoUnconfigure
    <3> QED BY <3>1, <3>2 DEF ChainInv, UnconfiguredSilent, InOrder, Unset
  <2>4. CASE ReadNibble \/ UNCHANGED vars
    <3>1. UNCHANGED <<mem_cntl, inOrder>>
      BY <2>4 DEF ReadNibble, vars
    <3> QED BY <3>1 DEF ChainInv, UnconfiguredSilent, InOrder, Unset, conf_tab
  <2> QED BY <1>2, <2>1, <2>2, <2>3, <2>4 DEF Next
<1> QED BY <1>1, <1>3, <1>4 DEF ChainInv

(* The numbers of controllers 2 to 4 tell them and their halves apart. *)
LEMMA IdentificationTells ==
  ASSUME TypeOK, NEW i \in 2 .. 4, NEW n \in 1 .. 2,
         Identification(mem_cntl) = chip_id[2 * i + 3 - n]
  PROVE  IsNext(mem_cntl, i) /\ mem_cntl[i].unconfigured = n
<1>1. chip_id[2 * i + 3 - n] # 0
  BY DEF chip_id
<1>2. PICK k \in Mctl : /\ IsNext(mem_cntl, k)
                        /\ Identification(mem_cntl) = chip_id[2 * k + (2 - mem_cntl[k].unconfigured) + 1]
  BY <1>1 DEF Identification
<1>3. mem_cntl[k].unconfigured \in 1 .. conf_tab[k]
  BY <1>2 DEF TypeOK, Controllers, IsNext, conf_tab, Mctl, MMIO
<1>4. k \in 0 .. 4 /\ mem_cntl[k].unconfigured \in 1 .. 2 /\ (k = 0 => mem_cntl[k].unconfigured = 1)
  BY <1>3 DEF conf_tab, Mctl, MMIO
<1>5. k = i /\ mem_cntl[k].unconfigured = n
  <2> DEFINE u == mem_cntl[k].unconfigured
  <2>1. chip_id[2 * k + (2 - u) + 1] = chip_id[2 * i + 3 - n]
    BY <1>2
  <2>2. u \in 1 .. 2
    BY <1>4
  <2> HIDE DEF u
  <2> QED BY <1>4, <2>1, <2>2 DEF chip_id, u
<1> QED BY <1>2, <1>5

(* Without a copy, a controller with an unset half answers nowhere
   (do_configure, do_unconfigure, do_reset in actions.c). *)
THEOREM Silent == ASSUME Copies = FALSE PROVE Spec => []UnconfiguredSilent
<1>1. Init => ChainInv
  BY ChainInit
<1>2. ChainInv /\ [Next]_vars => ChainInv'
  BY ChainStep
<1>3. ChainInv => UnconfiguredSilent
  BY DEF ChainInv
<1> QED BY <1>1, <1>2, <1>3, PTL DEF Spec

(* Without a copy, CONFIG works through the chain from the front and what C=ID
   tells is true of it (do_configure and get_identification in actions.c). *)
THEOREM ChainInOrder == ASSUME Copies = FALSE PROVE Spec => []DaisyChain
<1>1. Init => ChainInv
  BY ChainInit
<1>2. ChainInv /\ [Next]_vars => ChainInv'
  BY ChainStep
<1>3. ChainInv => DaisyChain
  <2> SUFFICES ASSUME ChainInv, NEW i \in 2 .. 4, NEW n \in 1 .. 2,
                      Identification(mem_cntl) = chip_id[2 * i + 3 - n]
               PROVE  /\ mem_cntl[i].unconfigured = n
                      /\ \A j \in 0 .. i - 1 : mem_cntl[j].unconfigured = 0
    BY DEF DaisyChain, ChainInv
  <2>1. IsNext(mem_cntl, i) /\ mem_cntl[i].unconfigured = n
    BY IdentificationTells DEF ChainInv, TypeInv
  <2> QED BY <2>1 DEF IsNext
<1> QED BY <1>1, <1>2, <1>3, PTL DEF Spec

-----------------------------------------------------------------------------
(* Address decoding. *)

(* The ROM alone decides where controller 0 is. *)
MmioPlace == mem_cntl[MMIO].config[BASE] \in Offer[MMIO][BASE] \cup {0}

(* Moving the RAM controller leaves the others. *)
LEMMA HalfLeaves ==
  ASSUME TypeOK, NEW h \in {BASE, MASK}, NEW value, SetHalf(h, value)
  PROVE  \A i \in Mctl : /\ i # SysRAM => mem_cntl'[i] = mem_cntl[i]
                         /\ mem_cntl'[i].unconfigured = mem_cntl[i].unconfigured
BY DEF SetHalf, TypeOK, Controllers, SysRAM, Mctl

(* The copy leaves controller 0 alone. *)
LEMMA CopyLeaves ==
  ASSUME TypeOK, ReadStackLevel
  PROVE  mem_cntl'[MMIO] = mem_cntl[MMIO]
<1>1. MMIO \in Mctl /\ MMIO # SysRAM
  BY DEF MMIO, SysRAM, Mctl
<1>2. ASSUME NEW h \in {BASE, MASK}, NEW value, SetHalf(h, value)
      PROVE  mem_cntl'[MMIO] = mem_cntl[MMIO]
  BY <1>1, <1>2, HalfLeaves
<1>3. CASE SaveBase \/ SaveMask
  BY <1>3 DEF SaveBase, SaveMask
<1>4. CASE SetBase \/ SetMask
  BY <1>2, <1>4 DEF SetBase, SetMask
<1>5. CASE MoveForLibrary
  <2>1. SetHalf(BASE, LibraryBase) \/ SetHalf(BASE, StackBase)
    BY <1>5, SMT DEF MoveForLibrary
  <2>2. \A value : SetHalf(BASE, value) => mem_cntl'[MMIO] = mem_cntl[MMIO]
    BY <1>2
  <2> QED BY <2>1, <2>2, SMT
<1>6. CASE RestoreBase \/ RestoreMask
  BY <1>2, <1>6 DEF RestoreBase, RestoreMask
<1> QED BY <1>3, <1>4, <1>5, <1>6 DEF ReadStackLevel

(* Controller 0 is where the ROM has put it, or unset. *)
LEMMA MmioStep ==
  ASSUME TypeInv, MmioPlace, [Next]_vars
  PROVE  MmioPlace'
<1>1. MMIO \in Mctl /\ conf_tab[MMIO] = 1
  BY DEF MMIO, Mctl, conf_tab
<1>2. Unset(MMIO).config[BASE] = 0
  BY DEF Unset
<1>3. CASE DoReset
  <2>1. mem_cntl'[MMIO] = Unset(MMIO)
    BY <1>1, <1>3 DEF DoReset
  <2> QED BY <1>2, <2>1 DEF MmioPlace
<1>4. CASE DoConfigure
  <2>1. PICK i \in Mctl : IsNext(mem_cntl, i) /\
          \E conf \in Offer[i][mem_cntl[i].unconfigured - 1] : mem_cntl' = Configured(mem_cntl, conf)
    BY <1>4 DEF DoConfigure
  <2>2. PICK conf \in Offer[i][mem_cntl[i].unconfigured - 1] : mem_cntl' = Configured(mem_cntl, conf)
    BY <2>1
  <2>a. mem_cntl[MMIO].unconfigured \in 0 .. 2 /\ mem_cntl[MMIO].config \in [{BASE, MASK} -> Word]
    BY <1>1 DEF TypeInv, TypeOK, Controllers
  <2>b. mem_cntl[MMIO].unconfigured <= 1
    BY <1>1 DEF TypeInv, TypeOK
  <2>3. mem_cntl[MMIO].unconfigured \in 0 .. 1
    BY <2>a, <2>b
  <2>4. CASE IsNext(mem_cntl, MMIO)
    <3>1. i = MMIO
      BY <2>1, <2>4 DEF IsNext, MMIO, Mctl
    <3>2. mem_cntl[MMIO].unconfigured - 1 = BASE
      BY <2>3, <2>4 DEF IsNext, BASE
    <3>3. mem_cntl'[MMIO].config = [mem_cntl[MMIO].config EXCEPT ![BASE] = conf]
      BY <1>1, <2>2, <2>4, <3>2 DEF Configured
    <3>4. mem_cntl'[MMIO].config[BASE] = conf
      BY <2>a, <3>3
    <3> QED BY <2>2, <3>1, <3>2, <3>4 DEF MmioPlace
  <2>5. CASE ~IsNext(mem_cntl, MMIO)
    <3>1. mem_cntl'[MMIO] = mem_cntl[MMIO]
      BY <1>1, <2>2, <2>5 DEF Configured
    <3> QED BY <3>1 DEF MmioPlace
  <2> QED BY <2>4, <2>5
<1>5. CASE DoUnconfigure
  <2>1. mem_cntl'[MMIO] \in {Unset(MMIO), mem_cntl[MMIO]}
    BY <1>1, <1>5 DEF DoUnconfigure, Unconfigured
  <2> QED BY <1>2, <2>1 DEF MmioPlace
<1>6. CASE ReadNibble \/ UNCHANGED vars
  BY <1>6 DEF ReadNibble, vars, MmioPlace
<1>7. CASE ReadStackLevel
  BY <1>7, CopyLeaves DEF TypeInv, MmioPlace
<1> QED BY <1>3, <1>4, <1>5, <1>6, <1>7 DEF Next

(* If the ROM never puts controller 0 at 0x90000, reads and writes agree. *)
LEMMA Agree ==
  ASSUME MmioPlace, \h90000 \notin Offer[MMIO][BASE]
  PROVE  ReadBack
<1> SUFFICES ASSUME NEW a \in Address, WrittenTo(mem_cntl, bank_switch, a) # Dropped
             PROVE  ReadFrom(mem_cntl, bank_switch, a) = WrittenTo(mem_cntl, bank_switch, a)
  BY DEF ReadBack
<1>1. ~At(mem_cntl, MMIO, \h90000)
  BY SMT DEF MmioPlace, At
<1>2. BankRead(mem_cntl, a) => BankWritten(mem_cntl, a)
  BY <1>1, SMT DEF BankRead, BankWritten
<1>3. CASE InIO(a)
  BY <1>3 DEF ReadFrom, WrittenTo
<1>4. CASE ~InIO(a)
  <2>1. ~BankWritten(mem_cntl, a) /\ ~PortRegister(mem_cntl, a)
    BY <1>4 DEF WrittenTo
  <2>2. ~BankRead(mem_cntl, a)
    BY <1>2, <2>1
  <2> QED BY <1>4, <2>1, <2>2 DEF ReadFrom, WrittenTo
<1> QED BY <1>3, <1>4

(* If the ROM never puts controller 0 at 0x90000, every nibble that is stored
   is read back from where it went, for every address and map, though reads
   and writes have decoders of their own (memory.c). *)
THEOREM WritesReadBack == ASSUME \h90000 \notin Offer[MMIO][BASE] PROVE Spec => []ReadBack
<1>1. Init => TypeInv /\ MmioPlace
  <2>1. Init => MmioPlace
    BY DEF Init, MmioPlace, Unset, MMIO, Mctl
  <2> QED BY <2>1, TypeInit
<1>2. TypeInv /\ MmioPlace /\ [Next]_vars => (TypeInv /\ MmioPlace)'
  BY TypeStep, MmioStep
<1>3. TypeInv /\ MmioPlace => ReadBack
  BY Agree
<1> QED BY <1>1, <1>2, <1>3, PTL DEF Spec

(* A page is 64K nibbles. *)
LEMMA PageRange ==
  ASSUME NEW a \in Word
  PROVE  /\ Page(a) \in 0 .. 15
         /\ Page(a) * \h10000 <= a /\ a < Page(a) * \h10000 + \h10000
BY SMT DEF Page, Word

(* Where RAM answers, the index is below RAM_SIZE. *)
LEMMA RamBound ==
  ASSUME NEW a \in Word, RamAnswers(mem_cntl, a)
  PROVE  /\ a - mem_cntl[SysRAM].config[BASE] \in Int
         /\ 0 <= a - mem_cntl[SysRAM].config[BASE]
         /\ a - mem_cntl[SysRAM].config[BASE] < RAM_SIZE
<1> DEFINE base == mem_cntl[SysRAM].config[BASE]
           page == Page(a)
<1>1. page \in 0 .. 15 /\ page * \h10000 <= a /\ a < page * \h10000 + \h10000
  BY PageRange, SMT
<1>2. a \in Nat
  BY SMT DEF Word
<1>3. CASE opt_gx
  <2>1. \/ page = 4 /\ base = \h40000
        \/ page \in 8 .. 11 /\ base = \h80000
        \/ page \in 12 .. 15 /\ base = \hc0000
    BY <1>1, <1>3, SMT DEF RamAnswers, RamAnswersGX, At
  <2> HIDE DEF base, page
  <2>2. a - base \in Int /\ 0 <= a - base /\ a - base < \h40000
    BY <1>1, <1>2, <2>1, SMT
  <2>3. RAM_SIZE = \h40000
    BY <1>3, SMT DEF RAM_SIZE
  <2> QED BY <2>2, <2>3, SMT DEF base
<1>4. CASE ~opt_gx
  <2>1. \/ page = 7 /\ base = \h70000
        \/ page = 15 /\ base = \hf0000
    BY <1>1, <1>4, SMT DEF RamAnswers, RamAnswersSX, At
  <2> HIDE DEF base, page
  <2>2. a - base \in Int /\ 0 <= a - base /\ a - base < \h10000
    BY <1>1, <1>2, <2>1, SMT
  <2>3. RAM_SIZE = \h10000
    BY <1>4, SMT DEF RAM_SIZE
  <2> QED BY <2>2, <2>3, SMT DEF base
<1> QED BY <1>3, <1>4, SMT

(* & with a mask is at most the mask. *)
LEMMA AndBound ==
  ASSUME NEW x \in 0 .. 31, NEW y \in Nat
  PROVE  And(x, y) \in 0 .. y
<1> DEFINE Has(bit) == IF (y \div bit) % 2 = 1 THEN bit ELSE 0
<1>1. \A bit \in {1, 2, 4, 8, 16} : Common(x, y, bit) \in 0 .. Has(bit)
  BY SMT DEF Common
<1>2. Has(1) + Has(2) + Has(4) + Has(8) + Has(16) \in 0 .. y
  BY SMT
<1>3. \A bit \in {1, 2, 4, 8, 16} : Has(bit) \in Int
  OBVIOUS
<1> HIDE DEF Has
<1> QED BY <1>1, <1>2, <1>3, SMT DEF And

LEMMA MaskedBound ==
  ASSUME NEW bank \in 0 .. 31, NEW offset \in Int, NEW mask \in Nat
  PROVE  Masked(bank, offset, mask) \in 0 .. mask
<1> DEFINE banks == mask \div BANK_SIZE
           rest == mask % BANK_SIZE
<1>1. banks \in Nat /\ rest \in Nat /\ mask = (BANK_SIZE * banks) + rest
  BY SMT DEF BANK_SIZE
<1>2. And(bank, banks) \in 0 .. banks
  BY <1>1, AndBound
<1>3. offset % (rest + 1) \in 0 .. rest
  <2>1. \A n \in Nat : offset % (n + 1) \in 0 .. n
    BY SMT
  <2> QED BY <1>1, <2>1
<1>4. Masked(bank, offset, mask) = (BANK_SIZE * And(bank, banks)) + (offset % (rest + 1))
  BY DEF Masked
<1> HIDE DEF banks, rest
<1> QED BY <1>1, <1>2, <1>3, <1>4, SMT DEF BANK_SIZE

(* A card with memory is indexed within it, in any bank. *)
LEMMA PortBound ==
  ASSUME TypeInv, NEW a \in Word
  PROVE  /\ port[1].memory > 0 => Port1(mem_cntl, a)[2] \in 0 .. port[1].memory - 1
         /\ port[2].memory > 0 => Port2(mem_cntl, bank_switch, a)[2] \in 0 .. port[2].memory - 1
<1>1. \A i \in Mctl : mem_cntl[i].config[BASE] \in Int
  BY DEF TypeInv, TypeOK, Controllers, Word
<1>2. PORT1 \in Mctl /\ PORT2 \in Mctl
  BY DEF PORT1, PORT2, Mctl
<1>3. a - mem_cntl[PORT1].config[BASE] \in Int /\ a - mem_cntl[PORT2].config[BASE] \in Int
  BY <1>1, <1>2 DEF Word
<1>4. \A p \in 1 .. 2 : port[p].mask \in Int /\ port[p].memory \in Int
  BY DEF TypeInv, TypeOK, Cards
<1>5. ASSUME NEW p \in 1 .. 2, port[p].memory > 0, NEW bank \in 0 .. 31, NEW offset \in Int
      PROVE  Masked(bank, offset, port[p].mask) \in 0 .. port[p].memory - 1
  <2>1. port[p].mask \in 0 .. port[p].memory - 1
    BY <1>5 DEF TypeInv, CardsOK
  <2>2. Masked(bank, offset, port[p].mask) \in 0 .. port[p].mask
    <3>1. port[p].mask \in Nat
      BY <1>4, <2>1
    <3> QED BY <1>5, <3>1, MaskedBound
  <2> QED BY <1>4, <2>1, <2>2
<1>6. (IF opt_gx THEN bank_switch ELSE 0) \in 0 .. 31
  BY DEF TypeInv, TypeOK
<1>7. Port1(mem_cntl, a)[2] = Masked(0, a - mem_cntl[PORT1].config[BASE], port[1].mask)
  BY DEF Port1
<1>8. Port2(mem_cntl, bank_switch, a)[2] =
        Masked(IF opt_gx THEN bank_switch ELSE 0, a - mem_cntl[PORT2].config[BASE], port[2].mask)
  BY DEF Port2
<1>9. 0 \in 0 .. 31 /\ 1 \in 1 .. 2 /\ 2 \in 1 .. 2
  OBVIOUS
<1>10. port[1].memory > 0 => Port1(mem_cntl, a)[2] \in 0 .. port[1].memory - 1
  BY <1>3, <1>5, <1>7, <1>9
<1>11. port[2].memory > 0 => Port2(mem_cntl, bank_switch, a)[2] \in 0 .. port[2].memory - 1
  <2> DEFINE bank == IF opt_gx THEN bank_switch ELSE 0
  <2>1. bank \in 0 .. 31
    BY <1>6
  <2>2. Port2(mem_cntl, bank_switch, a)[2] =
          Masked(bank, a - mem_cntl[PORT2].config[BASE], port[2].mask)
    BY <1>8
  <2> HIDE DEF bank
  <2> QED BY <1>3, <1>5, <1>9, <2>1, <2>2
<1> QED BY <1>10, <1>11

(* A nibble is in RAM only if RAM answers, or on a card, or in no array. *)
LEMMA Places ==
  ASSUME NEW m, NEW bank, NEW a
  PROVE  \A place \in {ReadFrom(m, bank, a), WrittenTo(m, bank, a)} :
           \/ RamAnswers(m, a) /\ place = Ram(m, a)
           \/ place \in {Port1(m, a), Port2(m, bank, a)}
           \/ place[1] \in {"io", "register", "rom", "zero", "dropped"}
<1>1. \A x : /\ <<"io", x>>[1] = "io" /\ <<"register", x>>[1] = "register"
             /\ <<"rom", x>>[1] = "rom" /\ <<"zero", x>>[1] = "zero"
             /\ <<"dropped", x>>[1] = "dropped"
  OBVIOUS
<1>2. Rom(a)[1] \in {"rom", "zero"} /\ Zero[1] = "zero" /\ Dropped[1] = "dropped"
  BY <1>1 DEF Rom, Zero, Dropped
<1>3. /\ \/ RamAnswers(m, a) /\ ReadFrom(m, bank, a) = Ram(m, a)
         \/ ReadFrom(m, bank, a) \in {Port1(m, a), Port2(m, bank, a)}
         \/ ReadFrom(m, bank, a) \in {<<"io", a>>, <<"register", a>>, Zero, Rom(a)}
      /\ \/ RamAnswers(m, a) /\ WrittenTo(m, bank, a) = Ram(m, a)
         \/ WrittenTo(m, bank, a) \in {Port1(m, a), Port2(m, bank, a)}
         \/ WrittenTo(m, bank, a) \in {<<"io", a>>, Dropped}
  BY DEF ReadFrom, WrittenTo
<1> QED BY <1>1, <1>2, <1>3

(* A nibble is written to a card only if the card is RAM. *)
LEMMA WrittenToRam ==
  ASSUME NEW m, NEW bank, NEW a
  PROVE  /\ WrittenTo(m, bank, a)[1] = "port1" => port[1].is_ram
         /\ WrittenTo(m, bank, a)[1] = "port2" => port[2].is_ram
<1>1. Ram(m, a)[1] = "ram" /\ Port1(m, a)[1] = "port1" /\ Port2(m, bank, a)[1] = "port2"
  BY DEF Ram, Port1, Port2
<1>2. Dropped[1] = "dropped" /\ <<"io", a>>[1] = "io"
  BY DEF Dropped
<1> QED BY <1>1, <1>2 DEF WrittenTo

(* Array by array, the index is below the size. *)
LEMMA EveryAccessInBounds == ASSUME TypeInv PROVE InBounds
<1> USE DEF TypeInv
<1>0. /\ DOMAIN Memory = {"ram", "port1", "port2"}
      /\ Memory["ram"] = RAM_SIZE
      /\ Memory["port1"] = port[1].memory /\ Memory["port2"] = port[2].memory
  BY DEF Memory
<1>1. RAM_SIZE \in Int /\ RAM_SIZE # NULL
  BY SMT DEF RAM_SIZE, NULL
<1>2. ASSUME NEW a \in Address,
             NEW place \in {ReadFrom(mem_cntl, bank_switch, a),
                            WrittenTo(mem_cntl, bank_switch, a)},
             place[1] \in DOMAIN Memory, Memory[place[1]] > 0
      PROVE  place[2] \in 0 .. Memory[place[1]] - 1
  <2>1. a \in Word
    BY MapAssumption
  <2>2. CASE RamAnswers(mem_cntl, a) /\ place = Ram(mem_cntl, a)
    <3> DEFINE index == a - mem_cntl[SysRAM].config[BASE]
    <3>1. index \in Int /\ 0 <= index /\ index < RAM_SIZE
      BY <2>1, <2>2, RamBound
    <3>2. place[1] = "ram" /\ place[2] = index
      BY <2>2 DEF Ram
    <3> HIDE DEF index
    <3> QED BY <1>0, <1>1, <3>1, <3>2
  <2>3. CASE place = Port1(mem_cntl, a)
    <3>1. place[1] = "port1"
      BY <2>3 DEF Port1
    <3> QED BY <1>0, <1>2, <2>1, <2>3, <3>1, PortBound
  <2>4. CASE place = Port2(mem_cntl, bank_switch, a)
    <3>1. place[1] = "port2"
      BY <2>4 DEF Port2
    <3> QED BY <1>0, <1>2, <2>1, <2>4, <3>1, PortBound
  <2>5. CASE place[1] \in {"io", "register", "rom", "zero", "dropped"}
    BY <1>0, <1>2, <2>5
  <2> QED BY <2>2, <2>3, <2>4, <2>5, Places
<1>3. ASSUME NEW a \in Address,
             WrittenTo(mem_cntl, bank_switch, a)[1] \in DOMAIN Memory
      PROVE  Memory[WrittenTo(mem_cntl, bank_switch, a)[1]] # NULL
  BY <1>0, <1>1, <1>3, WrittenToRam DEF CardsOK
<1> QED BY <1>2, <1>3 DEF InBounds

(* No read or write of a nibble leaves its array, whatever the map and the cards
   are and also while the SDL thread moves the RAM controller, and nothing is
   written to a port without memory (memory.c, init.c, test_cases.h). *)
THEOREM AccessesInBounds == Spec => []InBounds
<1>1. Init => TypeInv
  BY TypeInit
<1>2. TypeInv /\ [Next]_vars => TypeInv'
  BY TypeStep
<1>3. TypeInv => InBounds
  BY EveryAccessInBounds
<1> QED BY <1>1, <1>2, <1>3, PTL DEF Spec

-----------------------------------------------------------------------------
(* A copy. *)

(* The outermost call has read the address and has still to read the size. *)
FirstSave == copy = "saveMask" /\ Len(saves) = 1

(* While the CPU leaves the chain alone, the copy has changed the
   configuration of RAM at most, and its outermost call has saved that. *)
Moved ==
  /\ \A i \in Mctl : i # SysRAM => mem_cntl[i] = alone[i]
  /\ mem_cntl[SysRAM].unconfigured = alone[SysRAM].unconfigured
  /\ copy = "off" \/ FirstSave => mem_cntl[SysRAM].config = alone[SysRAM].config
  /\ copy # "off" => saves[1].base = alone[SysRAM].config[BASE]
  /\ copy # "off" /\ ~FirstSave => saves[1].mask = alone[SysRAM].config[MASK]
  /\ copy = "restoreMask" /\ Len(saves) = 1 =>
       mem_cntl[SysRAM].config[BASE] = alone[SysRAM].config[BASE]

CopyInv == TypeInv /\ (disturbed = 0 => Moved)

(* Then it is all put back when the copy is over. *)
LEMMA MovedBack ==
  ASSUME TypeOK, Moved, copy = "off"
  PROVE  mem_cntl = alone
<1>1. mem_cntl \in Controllers /\ alone \in Controllers /\ SysRAM \in Mctl
  BY DEF TypeOK, SysRAM, Mctl
<1>2. mem_cntl[SysRAM] = alone[SysRAM]
  BY <1>1 DEF Moved, Controllers
<1>3. \A i \in Mctl : mem_cntl[i] = alone[i]
  BY <1>2 DEF Moved
<1> QED BY <1>1, <1>3 DEF Controllers

(* Moving the RAM controller changes the half that is written. *)
LEMMA HalfSets ==
  ASSUME TypeOK, NEW h \in {BASE, MASK}, NEW value, SetHalf(h, value)
  PROVE  \A k \in {BASE, MASK} : mem_cntl'[SysRAM].config[k] =
                                   IF k = h THEN value ELSE mem_cntl[SysRAM].config[k]
<1>1. mem_cntl[SysRAM].config \in [{BASE, MASK} -> Word]
  BY DEF TypeOK, Controllers, SysRAM, Mctl
<1>2. mem_cntl'[SysRAM].config = [mem_cntl[SysRAM].config EXCEPT ![h] = value]
  BY DEF SetHalf, TypeOK, Controllers, SysRAM, Mctl
<1> QED BY <1>1, <1>2

(* A step of the copy that writes a half and keeps what is saved. *)
LEMMA MovedHalf ==
  ASSUME CopyInv, disturbed = 0, NEW h \in {BASE, MASK}, NEW value, SetHalf(h, value),
         copy \notin {"off", "saveMask"}, copy' \in {"setBase", "setMask", "read", "restoreMask"},
         saves'[1] = saves[1], UNCHANGED alone,
         copy' = "restoreMask" /\ Len(saves') = 1 => h = BASE /\ value = saves[1].base
  PROVE  Moved'
<1>1. TypeOK /\ Moved /\ ~FirstSave /\ ~FirstSave' /\ copy' # "off"
  BY DEF CopyInv, TypeInv, FirstSave
<1>2. /\ \A i \in Mctl : i # SysRAM => mem_cntl'[i] = alone'[i]
      /\ mem_cntl'[SysRAM].unconfigured = alone'[SysRAM].unconfigured
  BY <1>1, HalfLeaves DEF Moved, SysRAM, Mctl
<1>3. saves'[1].base = alone'[SysRAM].config[BASE] /\ saves'[1].mask = alone'[SysRAM].config[MASK]
  BY <1>1 DEF Moved
<1>4. copy' = "restoreMask" /\ Len(saves') = 1 =>
        mem_cntl'[SysRAM].config[BASE] = alone'[SysRAM].config[BASE]
  BY <1>1, <1>3, HalfSets
<1> QED BY <1>1, <1>2, <1>3, <1>4 DEF Moved

(* Every step of an undisturbed copy moves RAM only. *)
LEMMA MovedCopy ==
  ASSUME CopyInv, disturbed = 0, ReadStackLevel, UNCHANGED port
  PROVE  Moved'
<1>1. TypeOK /\ CopyOK /\ Moved /\ UNCHANGED alone
  BY DEF CopyInv, TypeInv, ReadStackLevel
<1>2. saves \in Seq(Save) /\ Len(saves) \in Nat /\ (copy # "off" => Len(saves) \in 1 .. 3)
  BY <1>1 DEF TypeOK, CopyOK, Save
<1>3. CASE SaveBase
  <2> DEFINE new == [base |-> mem_cntl[SysRAM].config[BASE], mask |-> 0]
  <2>1. saves' = Append(saves, new) /\ UNCHANGED mem_cntl /\ copy' = "saveMask"
    BY <1>3 DEF SaveBase
  <2> HIDE DEF new
  <2>2. Len(saves') = Len(saves) + 1 /\ (Len(saves) > 0 => saves'[1] = saves[1])
    BY <1>2, <2>1
  <2>3. CASE copy = "off"
    <3>1. saves'[1] = new
      BY <1>1, <2>1, <2>3 DEF CopyOK
    <3>2. FirstSave'
      BY <1>1, <2>1, <2>2, <2>3 DEF FirstSave, CopyOK
    <3> QED BY <1>1, <2>1, <2>3, <3>1, <3>2 DEF Moved, new
  <2>4. CASE copy = "read"
    <3>1. saves'[1] = saves[1] /\ ~FirstSave'
      BY <1>2, <2>2, <2>4 DEF FirstSave
    <3> QED BY <1>1, <2>1, <2>4, <3>1 DEF Moved, FirstSave
  <2> QED BY <1>3, <2>3, <2>4 DEF SaveBase
<1>4. CASE SaveMask
  <2>1. copy = "saveMask" /\ copy' = "setBase" /\ UNCHANGED mem_cntl
    BY <1>4 DEF SaveMask
  <2>2. saves' = [saves EXCEPT ![Len(saves)].mask = mem_cntl[SysRAM].config[MASK]]
    BY <1>4 DEF SaveMask
  <2>3. 1 \in DOMAIN saves /\ saves[1] \in Save
    BY <1>2, <2>1
  <2>4. saves'[1].base = saves[1].base
    BY <2>2, <2>3 DEF Save
  <2>5. saves'[1].mask = IF Len(saves) = 1 THEN mem_cntl[SysRAM].config[MASK] ELSE saves[1].mask
    BY <2>2, <2>3 DEF Save
  <2>6. saves'[1].mask = alone[SysRAM].config[MASK]
    BY <1>1, <2>1, <2>5 DEF Moved, FirstSave
  <2> QED BY <1>1, <2>1, <2>4, <2>6 DEF Moved, FirstSave
<1>5. CASE SetBase \/ SetMask
  BY <1>1, <1>5, MovedHalf DEF SetBase, SetMask
<1>6. CASE MoveForLibrary
  <2>1. \E value : SetHalf(BASE, value)
    BY <1>6 DEF MoveForLibrary
  <2> QED BY <1>1, <1>6, <2>1, MovedHalf DEF MoveForLibrary, copyVars
<1>7. CASE RestoreBase
  <2>1. Len(saves') = 1 => Saved = saves[1]
    BY <1>7 DEF RestoreBase, Saved
  <2> QED BY <1>1, <1>7, <2>1, MovedHalf DEF RestoreBase
<1>8. CASE RestoreMask
  <2>1. copy = "restoreMask" /\ SetHalf(MASK, Saved.mask)
    BY <1>8 DEF RestoreMask
  <2>2. CASE Len(saves) > 1 /\ copy' = "read" /\ saves' = SubSeq(saves, 1, Len(saves) - 1)
    <3>1. saves'[1] = saves[1]
      BY <1>2, <2>2
    <3> QED BY <1>1, <2>1, <2>2, <3>1, MovedHalf
  <2>3. CASE copy' = "setBase" /\ UNCHANGED saves
    BY <1>1, <2>1, <2>3, MovedHalf
  <2>4. CASE Len(saves) = 1 /\ copy' = "off"
    <3>1. Saved.mask = alone[SysRAM].config[MASK]
      BY <1>1, <2>1, <2>4 DEF Moved, FirstSave, Saved
    <3>2. \A k \in {BASE, MASK} : mem_cntl'[SysRAM].config[k] = alone[SysRAM].config[k]
      BY <1>1, <2>1, <2>4, <3>1, HalfSets DEF Moved
    <3>3. TypeInv'
      BY CopyType DEF CopyInv
    <3>4. mem_cntl'[SysRAM].config = alone[SysRAM].config
      <4>1. SysRAM \in Mctl
        BY DEF SysRAM, Mctl
      <4>2. mem_cntl'[SysRAM].config \in [{BASE, MASK} -> Word]
        BY <3>3, <4>1 DEF TypeInv, TypeOK, Controllers
      <4>3. alone[SysRAM].config \in [{BASE, MASK} -> Word]
        BY <1>1, <4>1 DEF TypeOK, Controllers
      <4> QED BY <3>2, <4>2, <4>3
    <3>5. /\ \A i \in Mctl : i # SysRAM => mem_cntl'[i] = alone[i]
          /\ mem_cntl'[SysRAM].unconfigured = alone[SysRAM].unconfigured
      BY <1>1, <2>1, HalfLeaves DEF Moved, SysRAM, Mctl
    <3> QED BY <1>1, <2>4, <3>4, <3>5 DEF Moved, FirstSave
  <2> QED BY <1>8, <2>2, <2>3, <2>4 DEF RestoreMask
<1> QED BY <1>3, <1>4, <1>5, <1>6, <1>7, <1>8 DEF ReadStackLevel

(* CONFIG, UNCNFG and RESET act on both chains alike, or count as a disturbance. *)
LEMMA MovedStep ==
  ASSUME CopyInv, [Next]_vars
  PROVE  CopyInv'
<1>1. TypeInv'
  BY TypeStep DEF CopyInv
<1>2. TypeOK /\ disturbed \in Nat
  BY MapAssumption DEF CopyInv, TypeInv, TypeOK
<1>3. CASE DoReset \/ DoConfigure \/ DoUnconfigure
  <2>1. Disturbs /\ UNCHANGED copyVars
    BY <1>3 DEF DoReset, DoConfigure, DoUnconfigure
  <2>2. CASE copy = "off" /\ disturbed = 0
    <3>1. mem_cntl = alone
      BY <1>2, <2>2, MovedBack DEF CopyInv
    <3>2. mem_cntl' = alone'
      <4>1. CASE DoReset
        BY <4>1 DEF DoReset
      <4>2. CASE DoConfigure
        <5>1. \E conf : mem_cntl' = Configured(mem_cntl, conf) /\ alone' = Configured(alone, conf)
          BY <4>2 DEF DoConfigure
        <5> QED BY <3>1, <5>1
      <4>3. CASE DoUnconfigure
        <5>1. \E conf : mem_cntl' = Unconfigured(mem_cntl, conf)
                          /\ alone' = Unconfigured(alone, conf)
          BY <4>3 DEF DoUnconfigure
        <5> QED BY <3>1, <5>1
      <4> QED BY <1>3, <4>1, <4>2, <4>3
    <3>3. copy' = "off"
      BY <2>1, <2>2 DEF copyVars
    <3> QED BY <1>1, <3>2, <3>3 DEF CopyInv, Moved
  <2>3. CASE copy = "off" /\ disturbed # 0
    BY <1>1, <2>1, <2>3 DEF Disturbs, CopyInv
  <2>4. CASE copy # "off"
    <3>1. disturbed' # 0
      BY <1>2, <2>1, <2>4 DEF Disturbs
    <3> QED BY <1>1, <3>1 DEF CopyInv
  <2> QED BY <2>2, <2>3, <2>4
<1>4. CASE ReadNibble \/ UNCHANGED vars
  BY <1>1, <1>4 DEF ReadNibble, vars, copyVars, CopyInv, Moved, FirstSave
<1>5. CASE ReadStackLevel
  <2>1. UNCHANGED disturbed
    BY <1>5 DEF ReadStackLevel
  <2>0. UNCHANGED port
    BY DEF Next, vars
  <2>2. disturbed = 0 => Moved'
    BY <1>5, <2>0, MovedCopy
  <2> QED BY <1>1, <2>1, <2>2 DEF CopyInv
<1> QED BY <1>3, <1>4, <1>5 DEF Next

(* Unless the CPU uses the chain during a copy, the copies put back all they
   have moved, through their nested calls (read_stack_level in test_cases.h,
   check_xlib and xlib_name in rpl.c). *)
THEOREM UndisturbedCopyRestores == Spec => []CopyRestores
<1>1. Init => CopyInv
  <2>1. Init => Moved
    BY DEF Init, Moved, FirstSave
  <2> QED BY <2>1, TypeInit DEF CopyInv
<1>2. CopyInv /\ [Next]_vars => CopyInv'
  BY MovedStep
<1>3. CopyInv => CopyRestores
  BY MovedBack DEF CopyInv, TypeInv, CopyRestores
<1> QED BY <1>1, <1>2, <1>3, PTL DEF Spec
==============================================================================
