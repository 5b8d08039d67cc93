------------------------------ MODULE Registers ------------------------------
(* register.c: arithmetic, logic, shifts and comparisons on the fields of the
   Saturn's 64-bit registers.  A register is its 16 nibbles, nibble 0 the least
   significant.  "base" is saturn.hexmode, 16 or 10. *)
EXTENDS Integers, FiniteSets, FiniteSetsExt

Nibble == 0 .. 15
Register == [0 .. 15 -> Nibble]

IN_FIELD == 16
OUT_FIELD == 17
OUTS_FIELD == 18
A_FIELD == 15
W_FIELD == 7

(* start_fields, end_fields; -1 stands for the pointer register P. *)
start_fields == <<-1, 0, 2, 0, 15, 3, 0, 0, -1, 0, 2, 0, 15, 3, 0, 0, 0, 0, 0>>
end_fields == <<-1, -1, 2, 2, 15, 14, 1, 15, -1, -1, 2, 2, 15, 14, 1, 4, 3, 2, 0>>
get_start(code, P) == IF start_fields[code + 1] = -1 THEN P ELSE start_fields[code + 1]
get_end(code, P) == IF end_fields[code + 1] = -1 THEN P ELSE end_fields[code + 1]

(* The nibbles of field code, as the pair of its ends. *)
Field(code, P) == [s |-> get_start(code, P), e |-> get_end(code, P)]
In(f) == f.s .. f.e

(* r with the nibbles of f given by g. *)
On(r, f, g) == [i \in 0 .. 15 |-> IF i \in In(f) THEN g[i] ELSE r[i]]

(* The carries of a loop over f: c before the first nibble, and after nibble i
   whether Over(i, carry before i). *)
Carries(f, c, Over(_, _)) ==
  LET carry[i \in f.s .. f.e + 1] ==
        IF i = f.s THEN c ELSE IF Over(i - 1, carry[i - 1]) THEN 1 ELSE 0
  IN carry

(* What an operation leaves: the register and CARRY. *)
Result(r, c) == [reg |-> r, CARRY |-> c]

(* The sum of the nibbles x and y in f with carry c in front. *)
SumOf(res, x, y, c, f, base) ==
  LET carry == Carries(f, c, LAMBDA i, k : x[i] + y[i] + k >= base)
      digit(i) == LET t == x[i] + y[i] + carry[i]
                  IN (IF t < base THEN t ELSE t - base) % 16
  IN Result(On(res, f, [i \in In(f) |-> digit(i)]), carry[f.e + 1])

add_register(res, r1, r2, f, base) == SumOf(res, r1, r2, 0, f, base)

(* The difference of the nibbles x and y in f, borrow c in front. *)
DifferenceOf(res, x, y, c, f, base) ==
  LET borrow == Carries(f, c, LAMBDA i, k : x[i] - y[i] - k < 0)
      digit(i) == LET t == x[i] - y[i] - borrow[i]
                  IN (IF t >= 0 THEN t ELSE t + base) % 16
  IN Result(On(res, f, [i \in In(f) |-> digit(i)]), borrow[f.e + 1])

(* Mutant: a borrow is worth 16 in decimal mode too. *)
sub_registerHex(res, r1, r2, f, base) == DifferenceOf(res, r1, r2, 0, f, 16)
sub_register(res, r1, r2, f, base) == DifferenceOf(res, r1, r2, 0, f, base)

(* CARRY tells whether the result is not zero. *)
complement_2_register(r, f, base) ==
  LET sum == SumOf(r, [i \in 0 .. 15 |-> base - 1 - r[i]], [i \in 0 .. 15 |-> 0], 1, f, base)
  IN Result(sum.reg, IF \E i \in In(f) : sum.reg[i] # 0 THEN 1 ELSE 0)

complement_1_register(r, f, base) ==
  Result(On(r, f, [i \in In(f) |-> (base - 1 - r[i]) % 16]), 0)

(* The loops that stop when nothing is left to carry: nibbles behind stay as
   they are, decimal or not. *)
Upwards(r, c, f, base) ==
  LET carry == Carries(f, c, LAMBDA i, k : k # 0 /\ r[i] + k >= base)
      digit(i) == LET t == r[i] + carry[i] IN (IF t < base THEN t ELSE t - base) % 16
  IN Result(On(r, f, [i \in In(f) |-> IF carry[i] = 0 THEN r[i] ELSE digit(i)]), carry[f.e + 1])

Downwards(r, c, f, base) == DifferenceOf(r, r, [i \in 0 .. 15 |-> 0], c, f, base)

inc_register(r, f, base) == Upwards(r, 1, f, base)
dec_register(r, f, base) == Downwards(r, 1, f, base)

(* The constants are added and subtracted in hexadecimal, whatever the mode. *)
add_register_constant(r, f, val) == Upwards(r, val, f, 16)
sub_register_constant(r, f, val) == Downwards(r, val, f, 16)
add_p_plus_one(r, P) == Upwards(r, P + 1, Field(A_FIELD, P), 16)

zero_register(r, f) == On(r, f, [i \in In(f) |-> 0])
copy_register(to, from, f) == On(to, f, from)

Bits(n) == {k \in 0 .. 3 : (n \div 2 ^ k) % 2 = 1}
OfBits(b) ==
  LET bit(k) == IF k \in b THEN 2 ^ k ELSE 0 IN bit(0) + bit(1) + bit(2) + bit(3)
or_register(r1, r2, f) == On(r1, f, [i \in In(f) |-> OfBits(Bits(r1[i]) \cup Bits(r2[i]))])
and_register(r1, r2, f) == On(r1, f, [i \in In(f) |-> OfBits(Bits(r1[i]) \cap Bits(r2[i]))])

(* The shifts; a right shift tells in SB whether it lost something. *)
(* Mutant: the nibble shifted out reaches the next field. *)
shift_left_registerBeyond(r, f) ==
  [i \in 0 .. 15 |-> IF i = f.s THEN 0 ELSE IF i - 1 \in In(f) THEN r[i - 1] ELSE r[i]]
shift_left_register(r, f) ==
  On(r, f, [i \in In(f) |-> IF i = f.s THEN 0 ELSE r[i - 1]])
shift_left_circ_register(r, f) ==
  On(r, f, [i \in In(f) |-> IF i = f.s THEN r[f.e] ELSE r[i - 1]])
shift_right_register(r, f) ==
  On(r, f, [i \in In(f) |-> IF i = f.e THEN 0 ELSE r[i + 1]])
shift_right_circ_register(r, f) ==
  On(r, f, [i \in In(f) |-> IF i = f.e THEN r[f.s] ELSE r[i + 1]])
shift_right_bit_register(r, f) ==
  On(r, f, [i \in In(f) |-> r[i] \div 2 + IF i = f.e THEN 0 ELSE 8 * (r[i + 1] % 2)])

is_zero_register(r, f) == \A i \in In(f) : r[i] = 0
is_equal_register(r1, r2, f) == \A i \in In(f) : r1[i] = r2[i]

(* The comparisons go down from the highest nibble to the first difference. *)
Differ(r1, r2, f) == {i \in In(f) : r1[i] # r2[i]}
is_less_register(r1, r2, f) ==
  Differ(r1, r2, f) # {} /\ LET i == Max(Differ(r1, r2, f)) IN r1[i] < r2[i]
is_greater_register(r1, r2, f) ==
  Differ(r1, r2, f) # {} /\ LET i == Max(Differ(r1, r2, f)) IN r1[i] > r2[i]
(* Mutant: equal fields are left to the comparison of their lowest nibble. *)
is_less_or_equal_registerStrict(r1, r2, f) == is_less_register(r1, r2, f)
is_less_or_equal_register(r1, r2, f) ==
  Differ(r1, r2, f) = {} \/ LET i == Max(Differ(r1, r2, f)) IN r1[i] < r2[i]
is_greater_or_equal_register(r1, r2, f) ==
  Differ(r1, r2, f) = {} \/ LET i == Max(Differ(r1, r2, f)) IN r1[i] > r2[i]

(* What the nibbles of f are worth. *)
Value(r, f, base) ==
  LET v[i \in f.s .. f.e + 1] == IF i > f.e THEN 0 ELSE r[i] + base * v[i + 1] IN v[f.s]
==============================================================================
