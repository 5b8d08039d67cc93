------------------------------ MODULE Processor ------------------------------
(* The CPU executing programs: emulate.c's step_instruction() applied to one
   instruction after the other, beside what disasm.c says of each and what the
   instruction is to compute. *)
EXTENDS Cpu, Disassembler, Sequences, FiniteSets

CONSTANTS Start,     \* machines a program may begin with
          Programs   \* sequences of sets: the k-th instruction is one of the k-th set

(* The functions outside emulate.c an instruction may end with. *)
CallName ==
  {"none", "doIn", "doUnconfigure", "doConfigure", "doShutdown", "doReset", "identify",
   "doInton", "doIntoff", "doResetInterruptSystem", "doReturnInterupt"}

(* What emulate.h's registers may hold; nothing has a field beside these. *)
IsMachine(x) ==
  /\ x \in [reg : [RegisterName -> Register], D0 : Word, D1 : Word, PC : Nat, P : Nibble,
            CARRY : {0, 1}, XM : {0, 1}, SB : {0, 1}, SR : {0, 1}, MP : {0, 1},
            ST : SUBSET Nibble, hexmode : {HEX, DEC}, stk : Stack, mem : {x.mem},
            call : CallName, stop : BOOLEAN]
  /\ DOMAIN x.mem \subseteq Word
  /\ x.mem \in [DOMAIN x.mem -> Nibble]

(* The seven nibbles an instruction is decoded from at most. *)
Instruction == [0 .. 6 -> Nibble]

ASSUME ProcessorAssumption ==
  /\ \A x \in Start : IsMachine(x)
  /\ \A p \in Programs : p \in Seq(SUBSET Instruction)

VARIABLES m,        \* the machine
          n,        \* the last instruction
          program,  \* what is left of the program
          calls     \* the addresses a stack of NR_RSTK entries keeps, newest first

vars == <<m, n, program, calls>>

NoInstruction == [i \in 0 .. 6 |-> 0]

Init ==
  /\ m \in Start
  /\ n = NoInstruction
  /\ program \in Programs
  /\ calls = Contents(m.stk)

(* The instructions that call or push, by their opcodes. *)
Pushes(i) ==
  i[0] = 7 \/ (i[0] = 8 /\ i[1] \in {14, 15}) \/ (i[0] = 0 /\ i[1] = 6)
Pushed(i, before) ==
  CASE i[0] = 0 -> AddressIn(before.reg["C"])
    [] i[0] = 7 -> before.PC + 4
    [] i[0] = 8 -> before.PC + IF i[1] = 14 THEN 6 ELSE 7

(* Those that return or pop: a test, GOC and GONC return if their distance,
   from nibble k on, is 0. *)
NoDistance(i, k) == i[k] = 0 /\ i[k + 1] = 0
TestReturns(i) ==
  \/ NoDistance(i, 3) /\ (i[0] = 9 \/ (i[0] = 8 /\ i[1] \in {3, 6, 7, 8, 9, 10, 11}))
  \/ NoDistance(i, 5) /\ i[0] = 8 /\ i[1] = 0 /\ i[2] = 8 /\ i[3] \in {6, 7, 10, 11}
Pops(i, before, after) ==
  \/ i[0] = 0 /\ i[1] \in {0, 1, 2, 3, 7}
  \/ i[0] = 4 /\ NoDistance(i, 1) /\ before.CARRY = 1
  \/ i[0] = 5 /\ NoDistance(i, 1) /\ before.CARRY = 0
  \/ TestReturns(i) /\ after.CARRY = 1

Step ==
  /\ program # <<>>
  /\ ~m.stop
  /\ \E i \in Head(program) :
       /\ n' = i
       /\ m' = step_instruction([m EXCEPT !.call = "none"], i)
       /\ calls' = IF Pushes(i) THEN Newest(<<Pushed(i, m)>> \o calls)
                   ELSE IF Pops(i, m, m') /\ calls # <<>> THEN Tail(calls)
                   ELSE calls
  /\ program' = Tail(program)

Spec == Init /\ [][Step]_vars

-----------------------------------------------------------------------------
(* Registers hold nibbles, pointers 20 bits; what is written are nibbles. *)
TypeOK == IsMachine(m)

(* The return stack holds the newest NR_RSTK addresses called from or pushed,
   in order, whatever calls, returns, tests that return, pushes and pops have
   been executed (actions.c, push_return_addr() and pop_return_addr()). *)
StackKeepsNewest == Contents(m.stk) = calls

(* What disasm.c gets wrong: the length of D0=D0+n and its like and of rSRB.F,
   RSI and R=r.F with operands the CPU ignores, the length of NOP5, and 8D, a
   jump, which it prints as a call. *)
Misread(i) ==
  \/ i[0] = 1 /\ i[1] \in {6, 7, 8, 12}
  \/ i[0] = 8 /\ i[1] = 1 /\ i[2] = 9
  \/ i[0] = 8 /\ i[1] = 1 /\ i[2] = 10 /\ i[5] % 8 > 4
  \/ i[0] = 8 /\ i[1] = 0 /\ i[2] = 8 /\ i[3] = 1 /\ i[4] # 0
  \/ i[0] = 6 /\ i[1] = 4 /\ i[2] = 0 /\ i[3] = 0
  \/ i[0] = 8 /\ i[1] = 13

(* RSTK=C and C=RSTK, which are printed like any other instruction. *)
MovesStack(i) == i[0] = 0 /\ i[1] \in {6, 7}

(* 520, printed as a NOP, is a jump for the CPU if CARRY is 0, and the one
   instruction of those that cuts the address behind it to 20 bits. *)
Cuts(i, before) == i[0] = 5 /\ before.CARRY = 0

(* Where the text sends the CPU. *)
Destination(text, pc) == IF text.far THEN text.to ELSE (pc + text.to) % Memory
Taken(text) ==
  CASE text.goes = "yes" -> m'.CARRY = 1
    [] text.goes = "carry" -> m.CARRY = 1
    [] text.goes = "noCarry" -> m.CARRY = 0
    [] OTHER -> text.goes \in {"jump", "call"}
Returns(text) == text.goes = "return" \/ (text.back /\ Taken(text))

(* Apart from those, the two decoders agree on every instruction: what the
   disassembler does not know is illegal for the CPU and the reverse; the CPU
   goes on behind as many nibbles as the disassembler consumed, to the
   destination it prints, or to where it was called from when it prints a
   return; it remembers where it came from exactly when a call is printed
   (emulate.c and disasm.c decode the same opcodes in two places). *)
DisassemblyAgrees ==
  [][ LET text == disassemble(n')
          behind == m.PC + text.len
      IN ~Misread(n') =>
           /\ m'.stop <=> text.goes = "nothing"
           /\ text.goes = "on" => m'.PC = IF Cuts(n', m) THEN behind % Memory ELSE behind
           /\ text.goes = "return" => m'.PC = Popped(m.stk)
           /\ text.goes \in {"yes", "carry", "noCarry", "jump", "call"} =>
                m'.PC = IF ~Taken(text) THEN behind
                        ELSE IF text.back THEN Popped(m.stk) ELSE Destination(text, m.PC)
           /\ MovesStack(n') \/
                m'.stk = CASE text.goes = "call" -> push_return_addr(m.stk, behind)
                           [] Returns(text) -> pop_return_addr(m.stk)
                           [] OTHER -> m.stk
    ]_vars

-----------------------------------------------------------------------------
(* The integer an arithmetic instruction stands for, written as its mnemonic
   is: destination, field code, base and the exact result. *)
Small(f) == f.e - f.s < 6
NoResult == [r |-> "none", code |-> 0, base |-> 16, exact |-> 0]
Exact(i) ==
  LET short == i[0] > 11
      code == IF short THEN A_FIELD ELSE i[1] % 8
      op == IF short THEN i[1] ELSE i[2]
      upper == IF short THEN i[0] \in {13, 15} ELSE i[1] > 7
      V(r) == IF Small(F(m, code)) THEN Value(m.reg[r], F(m, code), m.hexmode) ELSE 0
      A == V("A")
      B == V("B")
      C == V("C")
      D == V("D")
      sums == <<A + B, B + C, C + A, D + C, A + A, B + B, C + C, D + D,
                B + A, C + B, A + C, C + D, A - 1, B - 1, C - 1, D - 1>>
      differences == <<A - B, B - C, C - A, D - C, A + 1, B + 1, C + 1, D + 1,
                       B - A, C - B, A - C, C - D, B - A, C - B, A - C, C - D>>
      negations == <<-A, -B, -C, -D>>
      to == IF op < 8 \/ op > 11 THEN <<"A", "B", "C", "D">> ELSE <<"B", "C", "A", "C">>
      result(r, x) == [r |-> r, code |-> code, base |-> m.hexmode, exact |-> x]
      k == IF Small(F(m, i[3])) THEN Value(m.reg[Alu(i[4])], F(m, i[3]), 16) ELSE 0
  IN CASE i[0] \in {10, 12} /\ ~upper -> result(to[(op % 4) + 1], sums[op + 1])
       [] i[0] \in {11, 14} /\ ~upper -> result(to[(op % 4) + 1], differences[op + 1])
       [] i[0] \in {11, 15} /\ upper /\ op \in 8 .. 11 ->
            result(<<"A", "B", "C", "D">>[op - 7], negations[op - 7])
       [] i[0] = 8 /\ i[1] = 1 /\ i[2] = 8 ->
            [r |-> Alu(i[4]), code |-> i[3], base |-> 16,
             exact |-> IF i[4] < 8 THEN k + i[5] + 1 ELSE k - (i[5] + 1)]
       [] i[0] = 8 /\ i[1] = 0 /\ i[2] = 9 ->
            [r |-> "C", code |-> A_FIELD, base |-> 16, exact |-> AddressIn(m.reg["C"]) + m.P + 1]
       [] OTHER -> NoResult

Digits(r, f, base) == \A i \in In(f) : m.reg[r][i] < base

(* Sums, differences, increments, decrements, negations and additions of
   constants are those of the integers, modulo the size of the field, in
   hexadecimal and on decimal digits; CARRY tells that the exact result does not
   fit.  Longer fields exceed TLC's integers; see ArithmeticIsExact (register.c). *)
ArithmeticAgrees ==
  [][ LET x == Exact(n')
          f == F(m, x.code)
          size == x.base ^ (f.e - f.s + 1)
      IN /\ x.r # "none"
         /\ Small(f)
         /\ \A r \in {"A", "B", "C", "D"} : Digits(r, f, x.base)
         => /\ Value(m'.reg[x.r], f, x.base) = x.exact % size
            /\ m'.CARRY = IF x.exact \in 0 .. size - 1 THEN 0 ELSE 1
    ]_vars

(* The field an instruction works on, and the registers it may change. *)
Touches(i) ==
  LET short == i[0] > 11
      upper == IF short THEN i[0] \in {13, 15} ELSE i[1] > 7
      exchange == i[0] \in {10, 13} /\ upper
  IN [code |-> IF short THEN A_FIELD ELSE i[1] % 8, two |-> exchange]

(* An arithmetic instruction leaves every nibble outside its field as it was,
   in every register, and changes one register, an exchange two: no carry, no
   shift and no pointer P reaches beyond the field (register.c). *)
OnlyTheField ==
  [][ n'[0] > 9 =>
        LET f == F(m, Touches(n').code)
            changed == {r \in RegisterName : m'.reg[r] # m.reg[r]}
        IN /\ Cardinality(changed) <= IF Touches(n').two THEN 2 ELSE 1
           /\ \A r \in changed, i \in 0 .. 15 : i \notin In(f) => m'.reg[r][i] = m.reg[r][i]
           /\ m'.P = m.P /\ m'.D0 = m.D0 /\ m'.D1 = m.D1 /\ m'.stk = m.stk
    ]_vars

(* A test and its opposite never send the CPU the same way, and the four orders
   are those of the numbers in the field (?A>B against ?A<=B, ?A<B against
   ?A>=B; register.c decides each with a loop of its own). *)
TestsAgree ==
  \A code \in 0 .. 7, i \in 0 .. 3 :
    LET f == F(m, code)
        x == Value(m.reg[Pair(i)[1]], f, 16)
        y == Value(m.reg[Pair(i)[2]], f, 16)
    IN /\ Order(m, i, f) <=> ~Order(m, i + 12, f)
       /\ Order(m, i + 4, f) <=> ~Order(m, i + 8, f)
       /\ Order(m, i, f) /\ Order(m, i + 4, f) <=> FALSE
       /\ Small(f) => /\ Order(m, i, f) <=> x > y
                      /\ Order(m, i + 4, f) <=> x < y
                      /\ Equality(m, i, f) <=> x = y
==============================================================================
