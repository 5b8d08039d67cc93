-------------------------------- MODULE Cpu --------------------------------
(* The instructions of the Saturn as emulate.c executes them.

   A machine m is a record: the registers m.reg, the pointers D0 and D1, PC, P,
   CARRY, the hardware status (XM, SB, SR, MP), the program status ST as the set
   of its bits that are 1, hexmode, the return stack stk, and mem, the nibbles
   written so far.  An instruction n gives the nibbles at PC, n[0] the first.
   The instructions of the keyboard, the interrupts and the memory controllers
   are in SaturnKeys and MemoryMap: here they leave their name in m.call.
   m.stop is what step_instruction() returns. *)
EXTENDS Registers, ReturnStack

CONSTANTS Cell(_),   \* the nibble at an address nothing has been written to
          KeysIn,    \* the register IN after do_in()
          ChipId     \* the nibbles get_identification() puts into C

ALU == <<"A", "B", "C", "D">>
Scratch == <<"R0", "R1", "R2", "R3", "R4">>
RegisterName == {"A", "B", "C", "D", "R0", "R1", "R2", "R3", "R4", "OUT", "IN"}
Flags == {"XM", "SB", "SR", "MP"}
Memory == 1048576
Word == 0 .. Memory - 1
HEX == 16
DEC == 10

(* What the memory, the keyboard and the bus give are nibbles. *)
ASSUME CpuAssumption ==
  /\ \A a \in Word : Cell(a) \in Nibble
  /\ KeysIn \in Register
  /\ ChipId \in [0 .. 2 -> Nibble]

Alu(i) == ALU[(i % 4) + 1]
(* The register R0 to R4 a nibble names; 5, 6 and 7 name R1, R2 and R3. *)
R(i) == LET k == i % 8 IN Scratch[(IF k > 4 THEN k - 4 ELSE k) + 1]
AorC(i) == IF i < 8 THEN "A" ELSE "C"

(* The operands of the arithmetic instructions: A,B  B,C  C,A  D,C  and
   B,A  C,B  A,C  C,D. *)
Pair(i) == <<<<"A", "B">>, <<"B", "C">>, <<"C", "A">>, <<"D", "C">>,
             <<"B", "A">>, <<"C", "B">>, <<"A", "C">>, <<"C", "D">>>>[(i % 8) + 1]
(* Those of an addition, a subtraction or a copy are the first four, and from
   the eighth on the second four. *)
Operands(i) == IF i < 8 THEN Pair(i % 4) ELSE Pair(4 + (i % 4))

Nib(n, i) == IF i \in DOMAIN n THEN n[i] ELSE 0
Num(n, i, k) == LET v[j \in 0 .. k] == IF j = k THEN 0 ELSE Nib(n, i + j) + 16 * v[j + 1] IN v[0]
(* Mutant: distances are not negative. *)
SignedNever(v, k) == v
Signed(v, k) == IF v >= 8 * 16 ^ (k - 1) THEN v - 16 ^ k ELSE v

Illegal(m) == [m EXCEPT !.stop = TRUE]
Advance(m, k) == [m EXCEPT !.PC = @ + k]
Goto(m, a) == [m EXCEPT !.PC = a % Memory]
Call(m, name) == [m EXCEPT !.call = name]
Set(m, r, v) == [m EXCEPT !.reg[r] = v]
Carry(m, yes) == [m EXCEPT !.CARRY = IF yes THEN 1 ELSE 0]
(* An operation of Registers that gives CARRY too. *)
SetCarry(m, r, result) == [m EXCEPT !.reg[r] = result.reg, !.CARRY = result.CARRY]
SetSB(m, lost) == [m EXCEPT !.SB = IF lost THEN 1 ELSE @]
F(m, code) == Field(code, m.P)
Exchange(m, r1, r2, f) ==
  LET a == m.reg[r1]
      b == m.reg[r2]
  IN Set(Set(m, r1, On(a, f, b)), r2, On(b, f, a))

Push(m, a) == [m EXCEPT !.stk = push_return_addr(@, a)]
Return(m) == [m EXCEPT !.PC = Popped(m.stk), !.stk = pop_return_addr(@)]

(* GOYES: the two nibbles at i are the distance, counted from i; 0 returns. *)
GoYes(m, n, i, yes) ==
  LET d == Num(n, i, 2)
      c == Carry(m, yes)
  IN IF ~yes THEN Advance(c, i + 2)
     ELSE IF d = 0 THEN Return(Advance(c, i))
     ELSE Goto(c, m.PC + i + Signed(d, 2))

(* Addresses in registers. *)
AddressIn(r) == Value(r, Field(A_FIELD, 0), 16)
Digit(a, i) == (a \div 16 ^ i) % 16
WithAddress(r, a) == [i \in 0 .. 15 |-> IF i < 5 THEN Digit(a, i) ELSE r[i]]
(* The low k nibbles of d replaced by those of v. *)
LowNibbles(d, v, k) == d - (d % 16 ^ k) + (v % 16 ^ k)
(* Mutant: the pointer is not cut to 20 bits. *)
add_addressUncut(m, d, k) ==
  [m EXCEPT ![d] = @ + k, !.CARRY = IF m[d] + k \in Word THEN 0 ELSE 1]
add_address(m, d, k) ==
  [m EXCEPT ![d] = (@ + k) % Memory, !.CARRY = IF m[d] + k \in Word THEN 0 ELSE 1]

(* Memory, with addresses cut to 20 bits. *)
Read(m, a) ==
  LET at == a % Memory IN IF at \in DOMAIN m.mem THEN m.mem[at] ELSE Cell(at)
store(m, d, r, f) ==
  LET place(a) == f.s + ((a - m[d]) % Memory)
      written == {(m[d] + i - f.s) % Memory : i \in In(f)}
  IN [m EXCEPT !.mem = [a \in DOMAIN @ \cup written |->
                          IF a \in written THEN m.reg[r][place(a)] ELSE @[a]]]
recall(m, r, d, f) ==
  Set(m, r, On(m.reg[r], f, [i \in In(f) |-> Read(m, m[d] + i - f.s)]))
Low(k) == [s |-> 0, e |-> k - 1]

load_constant(m, r, k, n, at) ==
  Set(m, r, [i \in 0 .. 15 |-> IF ((i - m.P) % 16) < k THEN Nib(n, at + ((i - m.P) % 16)) ELSE m.reg[r][i]])

(* The status bits of nibbles 0 to 2 of a register. *)
StatusOf(r) == {b \in 0 .. 11 : b % 4 \in Bits(r[b \div 4])}
WithStatus(r, ST) ==
  [i \in 0 .. 15 |-> IF i < 3 THEN OfBits({b \in 0 .. 3 : 4 * i + b \in ST}) ELSE r[i]]
HighStatus(ST) == {b \in ST : b > 11}
BitOf(r, b) == b % 4 \in Bits(r[b \div 4])
WithBit(r, b, on) ==
  [r EXCEPT ![b \div 4] =
     OfBits(IF on THEN Bits(@) \cup {b % 4} ELSE Bits(@) \ {b % 4})]

(* The flags a mask of hardware status bits names. *)
HardwareBits(mask) ==
  {flag \in Flags : \E b \in Bits(mask) : flag = <<"XM", "SB", "SR", "MP">>[b + 1]}
clear_hardware_stat(m, mask) ==
  [x \in DOMAIN m |-> IF x \in HardwareBits(mask) THEN 0 ELSE m[x]]
is_zero_hardware_stat(m, mask) == \A flag \in HardwareBits(mask) : m[flag] = 0
-----------------------------------------------------------------------------
(* 80: input and output, the bus, P and C. *)
decode_group_80(m, n) ==
  LET i == n[2]
      m3 == Advance(m, 3)
      m4 == Advance(m, 4)
      C == m.reg["C"]
      k == Nib(n, 3)
  IN CASE i = 0 -> Set(m3, "OUT", On(m.reg["OUT"], F(m, OUTS_FIELD), C))
       [] i = 1 -> Set(m3, "OUT", On(m.reg["OUT"], F(m, OUT_FIELD), C))
       [] i \in {2, 3} ->
            LET r == IF i = 2 THEN "A" ELSE "C"
            IN Call(Set(Set(m3, "IN", KeysIn), r, On(m.reg[r], F(m, IN_FIELD), KeysIn)), "doIn")
       [] i \in {4, 5, 7, 10} ->
            Call(m3, IF i = 4 THEN "doUnconfigure" ELSE IF i = 5 THEN "doConfigure"
                     ELSE IF i = 7 THEN "doShutdown" ELSE "doReset")
       [] i = 6 -> Call(Set(m3, "C", [j \in 0 .. 15 |-> IF j < 3 THEN ChipId[j] ELSE C[j]]), "identify")
       [] i = 9 -> SetCarry(m3, "C", add_p_plus_one(C, m.P))
       [] i = 11 -> m3
       [] i = 12 -> Set(m4, "C", [C EXCEPT ![k] = m.P])
       [] i = 13 -> [m4 EXCEPT !.P = C[k]]
       [] i = 14 -> [Set(m3, "C", [C EXCEPT ![0] = 0]) EXCEPT !.SR = 0]
       [] i = 15 -> [Set(m4, "C", [C EXCEPT ![k] = m.P]) EXCEPT !.P = C[k]]

(* 808: interrupts, constants for A, single bits of A and C. *)
decode_808(m, n) ==
  LET i == n[3]
      k == Nib(n, 4)
      r == AorC(i)
  IN CASE i \in {0, 15} -> Call(Advance(m, 4), IF i = 0 THEN "doInton" ELSE "doIntoff")
       [] i = 1 -> Call(Advance(m, 5), "doResetInterruptSystem")
       [] i = 2 -> Advance(load_constant(m, "A", k + 1, n, 5), 6 + k)
       [] i \in {3, 13} -> Advance(m, 4)
       [] i \in {4, 5, 8, 9} -> Set(Advance(m, 5), r, WithBit(m.reg[r], k, (i % 2) = 1))
       [] i \in {6, 7, 10, 11} -> GoYes(m, n, 5, BitOf(m.reg[r], k) <=> (i % 2) = 1)
       [] i \in {12, 14} ->
            LET a == AddressIn(m.reg[IF i = 12 THEN "A" ELSE "C"])
            IN [m EXCEPT !.PC = Num([j \in 0 .. 4 |-> Read(m, a + j)], 0, 5)]

(* 10, 11, 12 and 81A: between A or C and the scratch registers. *)
ScratchGroup(m, what, i, f) ==
  CASE what = 0 -> Set(m, R(i), On(m.reg[R(i)], f, m.reg[AorC(i)]))
    [] what = 1 -> Set(m, AorC(i), On(m.reg[AorC(i)], f, m.reg[R(i)]))
    [] what = 2 -> Exchange(m, AorC(i), R(i), f)

(* 13: between A or C and D0 or D1, all five nibbles or the low four. *)
PointerGroup(m, i) ==
  LET r == IF i % 8 < 4 THEN "A" ELSE "C"
      d == IF i % 2 = 0 THEN "D0" ELSE "D1"
      k == IF i < 8 THEN 5 ELSE 4
      moved == [m EXCEPT ![d] = LowNibbles(@, AddressIn(m.reg[r]), k)]
  IN IF i % 4 < 2 THEN moved
     ELSE Set(moved, r, [j \in 0 .. 15 |-> IF j < k THEN Digit(m[d], j) ELSE m.reg[r][j]])

(* 14 and 15: memory at D0 or D1 and A or C. *)
DataGroup(m, i, f) ==
  LET r == IF i % 8 < 4 THEN "A" ELSE "C"
      d == IF i % 2 = 0 THEN "D0" ELSE "D1"
  IN IF i % 4 < 2 THEN store(m, d, r, f) ELSE recall(m, r, d, f)

decode_group_1(m, n) ==
  LET i == n[2]
      k == Nib(n, 3)
      load(d, c) == [Advance(m, c + 2) EXCEPT ![d] = LowNibbles(@, Num(n, 2, c), c)]
      m3 == Advance(m, 3)
  IN CASE n[1] \in {0, 1, 2} -> ScratchGroup(m3, n[1], i, F(m, W_FIELD))
       [] n[1] = 3 -> PointerGroup(m3, i)
       [] n[1] = 4 -> DataGroup(m3, i, F(m, IF i < 8 THEN A_FIELD ELSE 6))
       [] n[1] = 5 -> DataGroup(Advance(m, 4), i, IF i < 8 THEN F(m, k) ELSE Low(k + 1))
       [] n[1] = 6 -> add_address(m3, "D0", i + 1)
       [] n[1] = 7 -> add_address(m3, "D1", i + 1)
       [] n[1] = 8 -> add_address(m3, "D0", -(i + 1))
       [] n[1] = 12 -> add_address(m3, "D1", -(i + 1))
       [] n[1] \in {9, 10, 11} -> load("D0", <<2, 4, 5>>[n[1] - 8])
       [] n[1] \in {13, 14, 15} -> load("D1", <<2, 4, 5>>[n[1] - 12])

(* 818: a constant is added to a field or subtracted from it. *)
ConstantGroup(m, n) ==
  LET r == Alu(Nib(n, 4))
      f == F(m, Nib(n, 3))
      val == Nib(n, 5) + 1
  IN SetCarry(Advance(m, 6), r, IF Nib(n, 4) < 8
                                THEN add_register_constant(m.reg[r], f, val)
                                ELSE sub_register_constant(m.reg[r], f, val))

ShiftBit(m, r, f) ==
  SetSB(Set(m, r, shift_right_bit_register(m.reg[r], f)), m.reg[r][f.s] % 2 = 1)

(* 81B: PC and the address in A or C. *)
ProgramCounterGroup(m, i) ==
  LET r == IF i % 2 = 0 THEN "A" ELSE "C"
      a == AddressIn(m.reg[r])
      m4 == Advance(m, 4)
      saved == Set(m4, r, WithAddress(m.reg[r], m4.PC))
  IN CASE i \in {2, 3} -> [m EXCEPT !.PC = a]
       [] i \in {4, 5} -> saved
       [] i \in {6, 7} -> [saved EXCEPT !.PC = a]
       [] OTHER -> Illegal(m)

decode_81(m, n) ==
  LET i == n[2]
      m3 == Advance(m, 3)
      r == Alu(i)
      w == F(m, W_FIELD)
      v == m.reg[r]
  IN CASE i < 4 -> Set(m3, r, shift_left_circ_register(v, w))
       [] i \in 4 .. 7 -> SetSB(Set(m3, r, shift_right_circ_register(v, w)), v[0] # 0)
       [] i = 8 -> ConstantGroup(m, n)
       [] i = 9 -> ShiftBit(Advance(m, 5), Alu(Nib(n, 4)), F(m, Nib(n, 3)))
       [] i = 10 -> IF Nib(n, 4) > 2 THEN Illegal(m)
                    ELSE ScratchGroup(Advance(m, 6), Nib(n, 4), Nib(n, 5), F(m, Nib(n, 3)))
       [] i = 11 -> ProgramCounterGroup(m, Nib(n, 3))
       [] i > 11 -> ShiftBit(m3, r, w)

(* 8A and 9a: equality; the lower half compares two registers, the upper half
   one with 0.  Odd fours ask for the opposite. *)
Equality(m, i, f) ==
  LET x == m.reg[IF i < 8 THEN Pair(i % 4)[1] ELSE Alu(i)]
      y == m.reg[Pair(i % 4)[2]]
      equal == IF i < 8 THEN is_equal_register(x, y, f) ELSE is_zero_register(x, f)
  IN IF i % 8 < 4 THEN equal ELSE ~equal

(* 8B and 9b: the four orders. *)
Order(m, i, f) ==
  LET x == m.reg[Pair(i % 4)[1]]
      y == m.reg[Pair(i % 4)[2]]
  IN CASE i < 4 -> is_greater_register(x, y, f)
       [] i \in 4 .. 7 -> is_less_register(x, y, f)
       [] i \in 8 .. 11 -> is_greater_or_equal_register(x, y, f)
       [] i > 11 -> is_less_or_equal_register(x, y, f)

(* 8C to 8F: the far jumps and calls. *)
FarGroup(m, n) ==
  LET rel == Signed(Num(n, 2, 4), 4)
      far == Num(n, 2, 5)
  IN CASE n[1] = 12 -> Goto(m, m.PC + rel + 2)
       [] n[1] = 13 -> Goto(m, far)
       [] n[1] = 14 -> Goto(Push(m, m.PC + 6), m.PC + rel + 6)
       [] n[1] = 15 -> Goto(Push(m, m.PC + 7), far)

decode_8(m, n) ==
  LET i == n[2]
      m3 == Advance(m, 3)
  IN CASE n[1] = 0 -> IF i = 8 THEN decode_808(m, n) ELSE decode_group_80(m, n)
       [] n[1] = 1 -> decode_81(m, n)
       [] n[1] = 2 -> clear_hardware_stat(m3, i)
       [] n[1] = 3 -> GoYes(m, n, 3, is_zero_hardware_stat(m, i))
       [] n[1] \in {4, 5} -> [m3 EXCEPT !.ST = IF n[1] = 4 THEN @ \ {i} ELSE @ \cup {i}]
       [] n[1] \in {6, 7} -> GoYes(m, n, 3, i \in m.ST <=> n[1] = 7)
       [] n[1] \in {8, 9} -> GoYes(m, n, 3, m.P = i <=> n[1] = 9)
       [] n[1] = 10 -> GoYes(m, n, 3, Equality(m, i, F(m, A_FIELD)))
       [] n[1] = 11 -> GoYes(m, n, 3, Order(m, i, F(m, A_FIELD)))
       [] n[1] > 11 -> FarGroup(m, n)

(* 9: the tests on a field. *)
decode_9(m, n) ==
  GoYes(m, n, 3, IF n[1] < 8 THEN Equality(m, n[2], F(m, n[1]))
                 ELSE Order(m, n[2], F(m, n[1] % 8)))

-----------------------------------------------------------------------------
(* A, B and C to F: the arithmetic.  m has PC behind the instruction. *)
Sums(m, i, f) ==
  LET x == Operands(i)[1]
      y == IF i \in 4 .. 7 THEN x ELSE Operands(i)[2]
  IN IF i < 12 THEN SetCarry(m, x, add_register(m.reg[x], m.reg[x], m.reg[y], f, m.hexmode))
     ELSE SetCarry(m, Alu(i), dec_register(m.reg[Alu(i)], f, m.hexmode))

Copies(m, i, f) ==
  LET x == Operands(i)[1]
      y == Operands(i)[2]
      pair == <<<<"A", "B">>, <<"B", "C">>, <<"A", "C">>, <<"C", "D">>>>[(i % 4) + 1]
  IN CASE i < 4 -> Set(m, Alu(i), zero_register(m.reg[Alu(i)], f))
       [] i \in 4 .. 11 -> Set(m, x, copy_register(m.reg[x], m.reg[y], f))
       [] i > 11 -> Exchange(m, pair[1], pair[2], f)

Differences(m, i, f) ==
  LET x == Operands(i)[1]
      y == Operands(i)[2]
      z == Pair(i % 4)
      minus(r, r1, r2) ==
        SetCarry(m, r, sub_register(m.reg[r], m.reg[r1], m.reg[r2], f, m.hexmode))
  IN CASE i \in 4 .. 7 -> SetCarry(m, Alu(i), inc_register(m.reg[Alu(i)], f, m.hexmode))
       [] i < 4 \/ i \in 8 .. 11 -> minus(x, x, y)
       [] i > 11 -> minus(z[1], z[2], z[1])

Shifts(m, i, f) ==
  LET r == Alu(i)
      v == m.reg[r]
  IN CASE i < 4 -> Set(m, r, shift_left_register(v, f))
       [] i \in 4 .. 7 -> SetSB(Set(m, r, shift_right_register(v, f)), v[f.s] # 0)
       [] i \in 8 .. 11 -> SetCarry(m, r, complement_2_register(v, f, m.hexmode))
       [] i > 11 -> SetCarry(m, r, complement_1_register(v, f, m.hexmode))

decode_A(m, n) ==
  IF n[1] < 8 THEN Sums(Advance(m, 3), n[2], F(m, n[1]))
  ELSE Copies(Advance(m, 3), n[2], F(m, n[1] % 8))
decode_B(m, n) ==
  IF n[1] < 8 THEN Differences(Advance(m, 3), n[2], F(m, n[1]))
  ELSE Shifts(Advance(m, 3), n[2], F(m, n[1] % 8))
decode_C(m, n) == Sums(Advance(m, 2), n[1], F(m, A_FIELD))
decode_D(m, n) == Copies(Advance(m, 2), n[1], F(m, A_FIELD))
decode_E(m, n) == Differences(Advance(m, 2), n[1], F(m, A_FIELD))
decode_F(m, n) == Shifts(Advance(m, 2), n[1], F(m, A_FIELD))

(* 0E: A=A&B and the others. *)
Logic(m, n) ==
  LET i == Nib(n, 3)
      f == F(m, Nib(n, 2))
      x == Pair(i)[1]
      y == Pair(i)[2]
  IN Set(Advance(m, 4), x, IF i < 8 THEN and_register(m.reg[x], m.reg[y], f)
                           ELSE or_register(m.reg[x], m.reg[y], f))

(* 00 to 0F. *)
decode_0(m, n) ==
  LET i == n[1]
      m2 == Advance(m, 2)
      C == m.reg["C"]
      status == WithStatus(C, m.ST)
  IN CASE i = 0 -> Return([m EXCEPT !.XM = 1])
       [] i = 1 -> Return(m)
       [] i \in {2, 3} -> Return(Carry(m, i = 2))
       [] i \in {4, 5} -> [m2 EXCEPT !.hexmode = IF i = 4 THEN HEX ELSE DEC]
       [] i = 6 -> Push(m2, AddressIn(C))
       [] i = 7 -> [Set(m2, "C", WithAddress(C, Popped(m.stk))) EXCEPT !.stk = pop_return_addr(@)]
       [] i = 8 -> [m2 EXCEPT !.ST = HighStatus(@)]
       [] i = 9 -> Set(m2, "C", status)
       [] i = 10 -> [m2 EXCEPT !.ST = HighStatus(@) \cup StatusOf(C)]
       [] i = 11 -> [Set(m2, "C", status) EXCEPT !.ST = HighStatus(@) \cup StatusOf(C)]
       [] i = 12 -> [Carry(m2, m.P = 15) EXCEPT !.P = (@ + 1) % 16]
       [] i = 13 -> [Carry(m2, m.P = 0) EXCEPT !.P = (@ - 1) % 16]
       [] i = 14 -> Logic(m, n)
       [] i = 15 -> Call(m, "doReturnInterupt")

(* 4 and 5: jump on CARRY; 6 and 7: near jump and call; NOP3 to NOP5. *)
NearGroup(m, n) ==
  LET d == Num(n, 1, IF n[0] < 6 THEN 2 ELSE 3)
      goes == m.CARRY = IF n[0] = 4 THEN 1 ELSE 0
  IN CASE n[0] \in {4, 5} ->
            IF ~goes \/ (n[0] = 4 /\ d = 2) THEN Advance(m, 3)
            ELSE IF d = 0 THEN Return(m)
            ELSE Goto(m, m.PC + Signed(d, 2) + 1)
       [] n[0] = 6 ->
            IF d = 3 THEN Advance(m, 4)
            ELSE IF d = 4 THEN [Advance(m, 5) EXCEPT !.stop = Nib(n, 4) # 0]
            ELSE Goto(m, m.PC + Signed(d, 3) + 1)
       [] n[0] = 7 -> Goto(Push(m, m.PC + 4), m.PC + Signed(d, 3) + 4)

step_instruction(m, n) ==
  LET k == n[1]
  IN CASE n[0] = 0 -> decode_0(m, n)
       [] n[0] = 1 -> decode_group_1(m, n)
       [] n[0] = 2 -> [Advance(m, 2) EXCEPT !.P = k]
       [] n[0] = 3 -> Advance(load_constant(m, "C", k + 1, n, 2), 3 + k)
       [] n[0] \in 4 .. 7 -> NearGroup(m, n)
       [] n[0] = 8 -> decode_8(m, n)
       [] n[0] = 9 -> decode_9(m, n)
       [] n[0] = 10 -> decode_A(m, n)
       [] n[0] = 11 -> decode_B(m, n)
       [] n[0] = 12 -> decode_C(m, n)
       [] n[0] = 13 -> decode_D(m, n)
       [] n[0] = 14 -> decode_E(m, n)
       [] n[0] = 15 -> decode_F(m, n)
==============================================================================
