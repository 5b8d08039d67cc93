---------------------------- MODULE Disassembler ----------------------------
(* disasm.c: how many nibbles disassemble() consumes, and what its text says of
   where the instruction goes.  A line of text is
     len   the nibbles consumed (the address returned is that far from PC),
     goes  "on", "yes" (GOYES), "carry", "noCarry", "jump", "call", "return",
           "indirect", or "nothing" when no text is written,
     to    the destination, counted from PC, or the address itself if far,
     back  whether a distance of 0 is printed as a return.
   Mnemonics and operands are left out; the two mnemonic modes differ in
   nothing else. *)
EXTENDS Integers

read_nibble(n, i) == IF i \in DOMAIN n THEN n[i] ELSE 0

(* read_int() *)
read_int(n, i, k) ==
  LET v[j \in 0 .. k] == IF j = k THEN 0 ELSE read_nibble(n, i + j) + 16 * v[j + 1] IN v[0]
(* append_r_addr() takes a distance of k nibbles with its sign. *)
Distance(d, k) == IF d >= 8 * 16 ^ (k - 1) THEN d - 16 ^ k ELSE d

Text(len) == [len |-> len, goes |-> "on", to |-> 0, far |-> FALSE, back |-> FALSE]
Nothing(len) == [Text(len) EXCEPT !.goes = "nothing"]
Going(len, goes) == [Text(len) EXCEPT !.goes = goes]
(* A distance of k nibbles at nibble i, counted from nibble "from". *)
Near(n, goes, i, k, from) ==
  LET d == read_int(n, i, k)
  IN [len |-> i + k, goes |-> goes, to |-> from + Distance(d, k), far |-> FALSE,
      back |-> d = 0 /\ goes \in {"yes", "carry", "noCarry"}]
Far(n, goes) == [len |-> 7, goes |-> goes, to |-> read_int(n, 2, 5), far |-> TRUE, back |-> FALSE]

(* D0 and D1: the increment in cases 6, 7, 8 and C, *addr++, moves the pointer
   and not the address. *)
PointerText(n) ==
  CASE n[1] \in {6, 7, 8, 12} -> Text(2)
    [] n[1] \in {9, 13} -> Text(4)
    [] n[1] \in {10, 14} -> Text(6)
    [] n[1] \in {11, 15} -> Text(7)
disasm_1(n) ==
  CASE n[1] < 5 -> Text(3)
    [] n[1] = 5 -> Text(4)
    [] n[1] > 5 -> PointerText(n)

disasm_808(n) ==
  LET fn == n[3]
      k == read_nibble(n, 4)
  IN CASE fn \in {0, 3, 13, 15} -> Text(4)
       [] fn \in {12, 14} -> Going(4, "indirect")
       [] fn = 1 -> IF k = 0 THEN Text(5) ELSE Nothing(5)
       [] fn = 2 -> Text(6 + k)
       [] fn \in {4, 5, 8, 9} -> Text(5)
       [] fn \in {6, 7, 10, 11} -> Near(n, "yes", 5, 2, 5)

(* R=r.F and the like, and PC with A or C. *)
ScratchText(n) ==
  IF read_nibble(n, 4) > 2 THEN Nothing(5)
  ELSE IF read_nibble(n, 5) % 8 > 4 THEN Nothing(6) ELSE Text(6)
ProgramCounterText(k) ==
  CASE k \in {4, 5} -> Text(4)
    [] k \in {2, 3, 6, 7} -> Going(4, "indirect")
    [] OTHER -> Nothing(4)

(* Case 9 writes the field from the nibble behind and reads no register. *)
disasm_81(n) ==
  CASE n[2] < 8 \/ n[2] > 11 -> Text(3)
    [] n[2] = 8 -> Text(6)
    [] n[2] = 9 -> Text(4)
    [] n[2] = 10 -> ScratchText(n)
    [] n[2] = 11 -> ProgramCounterText(read_nibble(n, 3))

(* 8D prints as 8F does: the test for the jump in case 0xd, fn == 0xc, is never
   true. *)
FarText(n) ==
  CASE n[1] = 12 -> Near(n, "jump", 2, 4, 2)
    [] n[1] = 14 -> Near(n, "call", 2, 4, 6)
    [] n[1] \in {13, 15} -> Far(n, "call")

disasm_8(n) ==
  CASE n[1] = 0 -> IF n[2] = 8 THEN disasm_808(n)
                   ELSE Text(IF n[2] \in {12, 13, 15} THEN 4 ELSE 3)
    [] n[1] = 1 -> disasm_81(n)
    [] n[1] \in {2, 4, 5} -> Text(3)
    [] n[1] \in {3, 6, 7, 8, 9} -> Near(n, "yes", 3, 2, 3)
    [] n[1] > 11 -> FarText(n)

(* 8A, 8B and 9 are the tests; A to F the arithmetic. *)
TestText(n) == Near(n, "yes", 3, 2, 3)
ArithmeticText(n) == Text(IF n[0] < 12 THEN 3 ELSE 2)

Opcode0(n) ==
  CASE n[1] \in {0, 1, 2, 3} -> Going(2, "return")
    [] n[1] = 15 -> Going(2, "indirect")
    [] n[1] = 14 -> Text(4)
    [] OTHER -> Text(2)

disassemble(n) ==
  CASE n[0] = 0 -> Opcode0(n)
    [] n[0] = 1 -> disasm_1(n)
    [] n[0] = 2 -> Text(2)
    [] n[0] = 3 -> Text(3 + n[1])
    [] n[0] \in {4, 5} ->
         IF read_int(n, 1, 2) = 2 THEN Text(3)
         ELSE Near(n, IF n[0] = 4 THEN "carry" ELSE "noCarry", 1, 2, 1)
    [] n[0] = 6 -> IF read_int(n, 1, 3) \in {3, 4} THEN Text(4) ELSE Near(n, "jump", 1, 3, 1)
    [] n[0] = 7 -> Near(n, "call", 1, 3, 4)
    [] n[0] = 8 /\ n[1] \notin {10, 11} -> disasm_8(n)
    [] n[0] = 9 \/ (n[0] = 8 /\ n[1] \in {10, 11}) -> TestText(n)
    [] n[0] > 9 -> ArithmeticText(n)
==============================================================================
