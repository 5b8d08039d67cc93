----------------------------- MODULE MCProcessor -----------------------------
(* Machines and instructions for Processor. *)
EXTENDS Processor, TLC

MCCell(a) == (7 * a + a \div 16) % 16
MCChipId == [i \in 0 .. 2 |-> 3 + i]
MCKeysIn == [i \in 0 .. 15 |-> IF i < 2 THEN 8 ELSE 0]

Fill(s) == [i \in 0 .. 15 |-> s[(i % Len(s)) + 1]]
Zeros == Fill(<<0>>)

Registers0 == [r \in RegisterName |->
  CASE r = "A" -> Fill(<<9, 9, 9>>) [] r = "B" -> Fill(<<1, 0, 0, 0, 0, 0>>)
    [] r = "C" -> Fill(<<5, 0, 9, 2>>) [] r = "D" -> Fill(<<0, 0, 0, 7>>)
    [] OTHER -> Zeros]
Registers1 == [r \in RegisterName |->
  CASE r = "A" -> Fill(<<15>>) [] r = "B" -> Fill(<<15, 0, 1>>)
    [] r = "C" -> Fill(<<1, 8, 0, 15, 10>>) [] r = "D" -> Fill(<<12, 3>>)
    [] r \in {"R0", "R1", "R2"} -> Fill(<<2, 4, 6>>) [] OTHER -> Fill(<<11>>)]

Full == [rstk |-> [i \in 0 .. 2 |-> 256 + i], rstkp |-> 2]
One == [rstk |-> [i \in 0 .. 2 |-> 64], rstkp |-> 0]

MachineWith(regs, P, carry, base, stk) ==
  [reg |-> regs, D0 |-> 3, D1 |-> Memory - 2, PC |-> 100, P |-> P, CARRY |-> carry,
   XM |-> 1, SB |-> 0, SR |-> 1, MP |-> 0, ST |-> {1, 4, 13}, hexmode |-> base,
   stk |-> stk, mem |-> [a \in {} |-> 0], call |-> "none", stop |-> FALSE]

MCStart ==
  {MachineWith(Registers0, 3, 1, DEC, Full), MachineWith(Registers1, 15, 0, HEX, One),
   [MachineWith(Registers0, 0, 0, HEX, Empty) EXCEPT !.PC = Memory - 2],
   MachineWith(Registers1, 4, 1, DEC, Full)}

(* Nibbles by place; the places not listed take the values of rest. *)
Word7(a, b, c, d, e, f, g) ==
  {(0 :> i0) @@ (1 :> i1) @@ (2 :> i2) @@ (3 :> i3) @@ (4 :> i4) @@ (5 :> i5) @@ (6 :> i6) :
     i0 \in a, i1 \in b, i2 \in c, i3 \in d, i4 \in e, i5 \in f, i6 \in g}
Tails == {<<0, 0, 0, 0>>, <<2, 8, 15, 9>>}
AllFirst ==
  UNION {Word7(Nibble, Nibble, Nibble, {t[1]}, {t[2]}, {t[3]}, {t[4]}) : t \in Tails}
Operand ==
  Word7({0}, {14}, {1, 5, 15}, Nibble, {0}, {0}, {0})
    \cup Word7({1}, {5}, Nibble, Nibble, {0}, {0}, {0})
    \cup Word7({8}, {0}, {8}, Nibble, Nibble, {0, 2}, {9})
    \cup Word7({8}, {1}, {8}, Nibble, {0, 1, 2, 3, 9, 12}, {0, 7, 15}, {0})
    \cup Word7({8}, {1}, {9}, Nibble, {0, 1, 2, 3, 9}, {0}, {0})
    \cup Word7({8}, {1}, {10}, {1, 7, 15}, 0 .. 3, Nibble, {0})
    \cup Word7({8}, {1}, {11}, Nibble, {0}, {0}, {0})
    \cup Word7({6}, {2, 3, 4}, {0}, {0}, {0, 1}, {0}, {0})

(* GOSUB, GOSBVL, 8D, GOSUBL, RTN, RSTK=C, C=RSTK, RTNYES and RTNC. *)
Calls ==
  Word7({7}, {0}, {1}, {0}, {0}, {0}, {0}) \cup Word7({8}, {13, 14, 15}, {4}, {3}, {2}, {1}, {0})
    \cup Word7({0}, {1, 6, 7}, {0}, {0}, {0}, {0}, {0})
    \cup Word7({8}, {6, 7}, {4}, {0}, {0}, {0}, {0}) \cup Word7({4}, {0}, {0}, {0}, {0}, {0}, {0})

MCPrograms == {<<AllFirst \cup Operand>>, <<Calls, Calls, Calls, Calls>>}
==============================================================================
