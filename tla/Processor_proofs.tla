--------------------------- MODULE Processor_proofs ---------------------------
(* The CPU's types, its return stack and its decoding, for every program, every
   depth of the return stack and every memory. *)
EXTENDS Processor, Registers_proofs, FiniteSetTheorems, SequenceTheorems, TLAPS

-----------------------------------------------------------------------------
(* The return stack. *)

(* What a stack holds is a sequence of rstkp + 1 addresses, NR_RSTK at most. *)
LEMMA ContentsIsSeq ==
  ASSUME NEW s \in Stack
  PROVE  /\ Contents(s) \in Seq(Nat)
         /\ Len(Contents(s)) = s.rstkp + 1
<1> USE StackAssumption
<1> DEFINE size == s.rstkp + 1
           element(i) == s.rstk[s.rstkp + 1 - i]
<1>1. size \in Nat /\ size \in 0 .. NR_RSTK
  BY DEF Stack
<1>2. \A i \in 1 .. size : element(i) \in Nat
  BY <1>1 DEF Stack
<1>3. Contents(s) = [i \in 1 .. size |-> element(i)]
  BY DEF Contents
<1> HIDE DEF size, element
<1>4. [i \in 1 .. size |-> element(i)] \in [1 .. size -> Nat]
  BY <1>2
<1>5. Contents(s) \in Seq(Nat) /\ Len(Contents(s)) = size
  BY <1>1, <1>3, <1>4, IsASeq
<1> QED BY <1>5 DEF size

(* The element k of what a stack holds. *)
LEMMA ContentsAt ==
  ASSUME NEW s \in Stack, NEW k \in 1 .. s.rstkp + 1
  PROVE  Contents(s)[k] = s.rstk[s.rstkp + 1 - k]
  BY DEF Contents

(* A push on a full stack drops the oldest address. *)
LEMMA FullPush ==
  ASSUME NEW s \in Stack, NEW a, s.rstkp + 1 >= NR_RSTK
  PROVE  /\ push_return_addr(s, a) =
              [rstk |-> [Shifted(s.rstk) EXCEPT ![s.rstkp] = a], rstkp |-> s.rstkp]
         /\ s.rstkp = NR_RSTK - 1
  BY StackAssumption DEF push_return_addr, Stack

(* A push leaves a stack. *)
LEMMA PushType ==
  ASSUME NEW s \in Stack, NEW a \in Nat
  PROVE  push_return_addr(s, a) \in Stack
<1> USE StackAssumption
<1>1. Shifted(s.rstk) \in [0 .. NR_RSTK - 1 -> Nat]
  BY DEF Shifted, Stack
<1>2. CASE s.rstkp + 1 >= NR_RSTK
  <2>1. push_return_addr(s, a) = [rstk |-> [Shifted(s.rstk) EXCEPT ![s.rstkp] = a], rstkp |-> s.rstkp]
    BY <1>2, FullPush
  <2> QED BY <1>1, <1>2, <2>1 DEF Stack
<1>3. CASE ~(s.rstkp + 1 >= NR_RSTK)
  BY <1>3 DEF push_return_addr, Stack
<1> QED BY <1>2, <1>3

(* A pop leaves a stack and gives an address. *)
LEMMA PopType ==
  ASSUME NEW s \in Stack
  PROVE  pop_return_addr(s) \in Stack /\ Popped(s) \in Nat
  BY StackAssumption DEF pop_return_addr, Popped, Stack

(* What a push leaves, place by place. *)
LEMMA PushedPlaces ==
  ASSUME NEW s \in Stack, NEW a \in Nat
  PROVE  LET t == push_return_addr(s, a)
         IN /\ t.rstkp = IF s.rstkp + 1 >= NR_RSTK THEN s.rstkp ELSE s.rstkp + 1
            /\ t.rstk[t.rstkp] = a
            /\ \A i \in 0 .. t.rstkp - 1 :
                 t.rstk[i] = s.rstk[IF s.rstkp + 1 >= NR_RSTK THEN i + 1 ELSE i]
<1> USE StackAssumption
<1> DEFINE t == push_return_addr(s, a)
<1>1. CASE s.rstkp + 1 >= NR_RSTK
  <2>1. s.rstkp = NR_RSTK - 1
    BY <1>1 DEF Stack
  <2>2. t = [rstk |-> [Shifted(s.rstk) EXCEPT ![s.rstkp] = a], rstkp |-> s.rstkp]
    BY <1>1 DEF push_return_addr, Stack
  <2>3. \A i \in 0 .. NR_RSTK - 2 : Shifted(s.rstk)[i] = s.rstk[i + 1]
    BY DEF Shifted
  <2> DEFINE r == Shifted(s.rstk)
  <2>6. r \in [0 .. NR_RSTK - 1 -> Nat]
    BY DEF Shifted, Stack
  <2> HIDE DEF r
  <2>7. t.rstkp = NR_RSTK - 1 /\ t.rstk = [r EXCEPT ![NR_RSTK - 1] = a]
    BY <2>1, <2>2 DEF r
  <2> HIDE DEF t
  <2>4. t.rstk[t.rstkp] = a
    BY <2>6, <2>7
  <2>5. \A i \in 0 .. t.rstkp - 1 : t.rstk[i] = s.rstk[i + 1]
    <3>1. \A i \in 0 .. NR_RSTK - 2 : t.rstk[i] = r[i]
      BY <2>6, <2>7
    <3> QED BY <2>3, <2>7, <3>1 DEF r
  <2> QED BY <1>1, <2>1, <2>7, <2>4, <2>5 DEF t
<1>2. CASE ~(s.rstkp + 1 >= NR_RSTK)
  <2>1. t = [rstk |-> [s.rstk EXCEPT ![s.rstkp + 1] = a], rstkp |-> s.rstkp + 1]
    BY <1>2 DEF push_return_addr
  <2>2. s.rstkp + 1 \in 0 .. NR_RSTK - 1 /\ s.rstk \in [0 .. NR_RSTK - 1 -> Nat]
    BY <1>2 DEF Stack
  <2> QED BY <1>2, <2>1, <2>2
<1> QED BY <1>1, <1>2

(* A push puts an address in front of what the stack holds and drops the oldest
   address if that is one too many (actions.c, push_return_addr()). *)
THEOREM PushKeepsNewest ==
  ASSUME NEW s \in Stack, NEW a \in Nat
  PROVE  Contents(push_return_addr(s, a)) = Newest(<<a>> \o Contents(s))
<1> USE StackAssumption
<1> DEFINE t == push_return_addr(s, a)
           q == <<a>> \o Contents(s)
           size == IF Len(q) < NR_RSTK THEN Len(q) ELSE NR_RSTK
<1>1. t \in Stack
  BY PushType
<1>2. /\ Contents(s) \in Seq(Nat) /\ Len(Contents(s)) = s.rstkp + 1
      /\ Contents(t) \in Seq(Nat) /\ Len(Contents(t)) = t.rstkp + 1
  BY <1>1, ContentsIsSeq
<1>3. s.rstkp \in -1 .. NR_RSTK - 1 /\ t.rstkp \in -1 .. NR_RSTK - 1
  BY <1>1 DEF Stack
<1>4. q \in Seq(Nat) /\ Len(q) = s.rstkp + 2
  <2> HIDE DEF Stack
  <2> QED BY <1>2, <1>3
<1>5. t.rstkp = IF s.rstkp + 1 >= NR_RSTK THEN s.rstkp ELSE s.rstkp + 1
  BY PushedPlaces
<1>6. size = t.rstkp + 1 /\ size \in 1 .. Len(q)
  BY <1>3, <1>4, <1>5
<1>7. Newest(q) \in Seq(Nat) /\ Len(Newest(q)) = size
      /\ \A k \in 1 .. size : Newest(q)[k] = q[k]
  <2>1. Newest(q) = SubSeq(q, 1, size)
    BY DEF Newest
  <2>2. 1 \in Int /\ size \in Int /\ \A k \in 1 .. size : q[k] \in Nat
    <3> HIDE DEF q
    <3> QED BY <1>4, <1>6
  <2> HIDE DEF q, size
  <2>3. /\ SubSeq(q, 1, size) \in Seq(Nat)
        /\ Len(SubSeq(q, 1, size)) = IF 1 <= size THEN size - 1 + 1 ELSE 0
        /\ \A k \in 1 .. size - 1 + 1 : SubSeq(q, 1, size)[k] = q[1 + k - 1]
    BY <2>2, SubSeqProperties
  <2>4. size - 1 + 1 = size /\ 1 <= size /\ \A k \in 1 .. size : 1 + k - 1 = k
    BY <1>6
  <2>5. Len(SubSeq(q, 1, size)) = size
    BY <2>3, <2>4, Zenon
  <2>6. \A k \in 1 .. size : SubSeq(q, 1, size)[k] = q[k]
    BY <2>3, <2>4, Zenon
  <2> QED BY <2>1, <2>3, <2>5, <2>6, Zenon
<1>8. ASSUME NEW k \in 1 .. size PROVE Contents(t)[k] = q[k]
  <2>1. Contents(t)[k] = t.rstk[t.rstkp + 1 - k]
    BY <1>1, <1>6, ContentsAt
  <2>2. CASE k = 1
    <3>1. q[1] = a
      <4> HIDE DEF Stack, Contents, t
      <4> QED BY <1>2, ConcatProperties
    <3>2. t.rstk[t.rstkp] = a
      BY PushedPlaces
    <3> QED BY <1>3, <2>1, <2>2, <3>1, <3>2
  <2>3. CASE k # 1
    <3>1. k - 1 \in 1 .. s.rstkp + 1
      BY <1>3, <1>5, <1>6, <2>3
    <3>2. q[k] = Contents(s)[k - 1]
      <4>1. <<a>> \in Seq(Nat) /\ Len(<<a>>) = 1
        OBVIOUS
      <4>2. k \in 1 .. Len(<<a>>) + Len(Contents(s)) /\ ~(k <= Len(<<a>>))
        BY <1>2, <1>3, <2>3, <3>1, <4>1
      <4> HIDE DEF Stack, Contents, t
      <4> QED BY <1>2, <4>1, <4>2, ConcatProperties
    <3>3. Contents(s)[k - 1] = s.rstk[s.rstkp + 1 - (k - 1)]
      BY <3>1, ContentsAt
    <3>4. t.rstkp + 1 - k \in 0 .. t.rstkp - 1
      BY <1>3, <1>6, <2>3
    <3>5. t.rstk[t.rstkp + 1 - k] =
            s.rstk[IF s.rstkp + 1 >= NR_RSTK THEN t.rstkp + 1 - k + 1 ELSE t.rstkp + 1 - k]
      BY <3>4, PushedPlaces
    <3>6. s.rstkp + 1 - (k - 1) =
            IF s.rstkp + 1 >= NR_RSTK THEN t.rstkp + 1 - k + 1 ELSE t.rstkp + 1 - k
      <4>1. k \in Int
        BY <1>6
      <4> HIDE DEF t, size
      <4> QED BY <1>3, <1>5, <4>1
    <3> QED BY <2>1, <3>2, <3>3, <3>5, <3>6
  <2> QED BY <2>2, <2>3
<1> HIDE DEF t, q, size
<1>9. Contents(t) = Newest(q)
  BY <1>2, <1>6, <1>7, <1>8, SeqEqual
<1> QED BY <1>9 DEF t, q

(* A pop gives the newest address, and 0 if there is none, and leaves the
   others (actions.c, pop_return_addr()). *)
THEOREM PopTakesNewest ==
  ASSUME NEW s \in Stack
  PROVE  /\ Popped(s) = IF Contents(s) = <<>> THEN 0 ELSE Head(Contents(s))
         /\ Contents(pop_return_addr(s)) =
              IF Contents(s) = <<>> THEN <<>> ELSE Tail(Contents(s))
<1> USE StackAssumption
<1> DEFINE t == pop_return_addr(s)
<1>1. t \in Stack
  BY PopType
<1>2. /\ Contents(s) \in Seq(Nat) /\ Len(Contents(s)) = s.rstkp + 1
      /\ Contents(t) \in Seq(Nat) /\ Len(Contents(t)) = t.rstkp + 1
  BY <1>1, ContentsIsSeq
<1>3. s.rstkp \in -1 .. NR_RSTK - 1
  BY DEF Stack
<1>4. CASE s.rstkp < 0
  <2>1. t = s /\ Popped(s) = 0
    BY <1>4 DEF pop_return_addr, Popped
  <2>2. Contents(s) = <<>>
    BY <1>2, <1>3, <1>4
  <2> QED BY <2>1, <2>2
<1>5. CASE ~(s.rstkp < 0)
  <2>1. t.rstk = s.rstk /\ t.rstkp = s.rstkp - 1
    BY <1>5 DEF pop_return_addr, Stack
  <2>2. Contents(s) # <<>>
    BY <1>2, <1>3, <1>5
  <2>3. Head(Contents(s)) = s.rstk[s.rstkp]
    <3>1. 1 \in 1 .. s.rstkp + 1 /\ s.rstkp + 1 - 1 = s.rstkp
      BY <1>3, <1>5
    <3>2. Contents(s)[1] = s.rstk[s.rstkp]
      BY <3>1, ContentsAt
    <3>3. ASSUME NEW q \in Seq(Nat), q # <<>> PROVE Head(q) = q[1]
      BY <3>3
    <3> QED BY <1>2, <2>2, <3>2, <3>3
  <2>4. Popped(s) = s.rstk[s.rstkp]
    BY <1>5 DEF Popped
  <2>5. Tail(Contents(s)) \in Seq(Nat) /\ Len(Tail(Contents(s))) = s.rstkp
    BY <1>2, <1>3, <2>2
  <2>6. ASSUME NEW k \in 1 .. s.rstkp PROVE Contents(t)[k] = Tail(Contents(s))[k]
    <3>1. Tail(Contents(s))[k] = Contents(s)[k + 1]
      BY <1>2, <1>3, <2>2
    <3>2. Contents(s)[k + 1] = s.rstk[s.rstkp + 1 - (k + 1)]
      BY <1>3, ContentsAt
    <3>3. Contents(t)[k] = t.rstk[t.rstkp + 1 - k]
      BY <1>1, <1>3, <2>1, ContentsAt
    <3>4. s.rstkp + 1 - (k + 1) = (s.rstkp - 1) + 1 - k
      BY <1>3
    <3> HIDE DEF t
    <3> QED BY <2>1, <3>1, <3>2, <3>3, <3>4
  <2> HIDE DEF t
  <2>7. Contents(t) = Tail(Contents(s))
    <3> DEFINE rest == Tail(Contents(s))
    <3>1. Len(Contents(t)) = s.rstkp
      BY <1>2, <1>3, <2>1
    <3> HIDE DEF rest
    <3>2. Contents(t) \in Seq(Nat) /\ rest \in Seq(Nat) /\ Len(Contents(t)) = Len(rest)
      BY <1>2, <2>5, <3>1, Zenon DEF rest
    <3>3. \A k \in 1 .. Len(Contents(t)) : Contents(t)[k] = rest[k]
      BY <2>6, <3>1, Zenon DEF rest
    <3>4. Contents(t) = rest
      BY <3>2, <3>3, SeqEqual, Zenon
    <3> QED BY <3>4 DEF rest
  <2> QED BY <2>2, <2>3, <2>4, <2>7 DEF t
<1> QED BY <1>4, <1>5
-----------------------------------------------------------------------------
(* The machine. *)

FieldNames == {"reg", "D0", "D1", "PC", "P", "CARRY", "XM", "SB", "SR", "MP", "ST",
               "hexmode", "stk", "mem", "call", "stop"}
(* t and x agree but for the fields named. *)
Others(t, x, names) == \A g \in FieldNames \ names : t[g] = x[g]

-----------------------------------------------------------------------------
(* The updates the instructions are made of. *)

LEMMA AdvanceType ==
  ASSUME NEW x, NEW k, IsMachine(x), k \in Nat
  PROVE  /\ IsMachine(Advance(x, k)) /\ Others(Advance(x, k), x, {"PC"})
         /\ Advance(x, k).PC = x.PC + k
  BY DEF IsMachine, Others, FieldNames, Advance

LEMMA GotoType ==
  ASSUME NEW x, NEW a, IsMachine(x), a \in Int
  PROVE  /\ IsMachine(Goto(x, a)) /\ Others(Goto(x, a), x, {"PC"})
         /\ Goto(x, a).PC = a % Memory
<1>1. a % Memory \in Nat
  BY DEF Memory
<1> HIDE DEF Memory
<1> QED BY <1>1 DEF IsMachine, Others, FieldNames, Goto

LEMMA CallType ==
  ASSUME NEW x, NEW name, IsMachine(x), name \in CallName
  PROVE  IsMachine(Call(x, name)) /\ Others(Call(x, name), x, {"call"})
  BY DEF IsMachine, Others, FieldNames, Call

LEMMA IllegalType ==
  ASSUME NEW x, IsMachine(x)
  PROVE  IsMachine(Illegal(x)) /\ Others(Illegal(x), x, {"stop"}) /\ Illegal(x).stop = TRUE
  BY DEF IsMachine, Others, FieldNames, Illegal

LEMMA CarryType ==
  ASSUME NEW x, NEW yes, IsMachine(x)
  PROVE  /\ IsMachine(Carry(x, yes)) /\ Others(Carry(x, yes), x, {"CARRY"})
         /\ Carry(x, yes).CARRY = IF yes THEN 1 ELSE 0
  BY DEF IsMachine, Others, FieldNames, Carry

LEMMA SBType ==
  ASSUME NEW x, NEW lost, IsMachine(x)
  PROVE  IsMachine(SetSB(x, lost)) /\ Others(SetSB(x, lost), x, {"SB"})
  BY DEF IsMachine, Others, FieldNames, SetSB

LEMMA SetType ==
  ASSUME NEW x, NEW r, NEW v, IsMachine(x), r \in RegisterName, v \in Register
  PROVE  /\ IsMachine(Set(x, r, v)) /\ Others(Set(x, r, v), x, {"reg"})
         /\ Set(x, r, v).reg[r] = v
         /\ \A q \in RegisterName : q # r => Set(x, r, v).reg[q] = x.reg[q]
  BY DEF IsMachine, Others, FieldNames, Set

(* t is x but for the register r and CARRY, which are those of v. *)
Left(t, x, r, v) ==
  /\ t.reg[r] = v.reg
  /\ t.CARRY = v.CARRY
  /\ \A q \in RegisterName : q # r => t.reg[q] = x.reg[q]

LEMMA SetCarryType ==
  ASSUME NEW x, NEW r, NEW v, NEW f, IsMachine(x), r \in RegisterName, IsResult(v, x.reg[r], f)
  PROVE  /\ IsMachine(SetCarry(x, r, v)) /\ Others(SetCarry(x, r, v), x, {"reg", "CARRY"})
         /\ Left(SetCarry(x, r, v), x, r, v)
<1> DEFINE a == v.reg
           c == v.CARRY
<1>1. a \in Register /\ c \in {0, 1}
  BY DEF IsResult
<1>2. SetCarry(x, r, v) = [x EXCEPT !.reg[r] = a, !.CARRY = c]
  BY DEF SetCarry
<1> HIDE DEF a, c
<1> DEFINE t == [x EXCEPT !.reg[r] = a, !.CARRY = c]
<1>3. IsMachine(t)
  BY <1>1 DEF IsMachine
<1>4. Others(t, x, {"reg", "CARRY"}) /\ t.CARRY = c
  BY <1>1 DEF IsMachine, Others, FieldNames
<1>5. t.reg = [x.reg EXCEPT ![r] = a]
  BY DEF IsMachine
<1>6. t.reg[r] = a /\ \A q \in RegisterName : q # r => t.reg[q] = x.reg[q]
  <2> HIDE DEF t
  <2> QED BY <1>5 DEF IsMachine
<1> HIDE DEF t
<1>7. Left(t, x, r, v)
  BY <1>4, <1>6 DEF Left, a, c
<1> QED BY <1>2, <1>3, <1>4, <1>7 DEF t

(* Two registers of x exchange their fields. *)
LEMMA ExchangeType ==
  ASSUME NEW x, NEW r1, NEW r2, NEW f,
         IsMachine(x), r1 \in RegisterName, r2 \in RegisterName, Spanned(f)
  PROVE  LET t == Exchange(x, r1, r2, f)
         IN /\ IsMachine(t) /\ Others(t, x, {"reg"})
            /\ \A q \in RegisterName : Beside(t.reg[q], x.reg[q], f)
            /\ \A q \in RegisterName \ {r1, r2} : t.reg[q] = x.reg[q]
<1> DEFINE a == x.reg[r1]
           b == x.reg[r2]
           va == On(a, f, b)
           vb == On(b, f, a)
           y == Set(x, r1, va)
           t == Set(y, r2, vb)
<1>1. a \in Register /\ b \in Register
  BY DEF IsMachine
<1>2. \A i \in In(f) : a[i] \in Nibble /\ b[i] \in Nibble
  <2>1. \A i \in In(f) : i \in 0 .. 15
    BY DEF Spanned, Ends, In
  <2> QED BY <1>1, <2>1 DEF Register
<1>3. va \in Register /\ vb \in Register /\ Beside(va, a, f) /\ Beside(vb, b, f)
  <2> HIDE DEF a, b
  <2> QED BY <1>1, <1>2, OnType
<1>4. \A v : Beside(v, v, f)
  BY DEF Beside
<1> HIDE DEF va, vb
<1>5. /\ IsMachine(y) /\ Others(y, x, {"reg"}) /\ y.reg[r1] = va
      /\ \A q \in RegisterName : q # r1 => y.reg[q] = x.reg[q]
  BY <1>3, SetType
<1> HIDE DEF y
<1>6. /\ IsMachine(t) /\ Others(t, y, {"reg"}) /\ t.reg[r2] = vb
      /\ \A q \in RegisterName : q # r2 => t.reg[q] = y.reg[q]
  BY <1>3, <1>5, SetType
<1> HIDE DEF t
<1>7. Others(t, x, {"reg"})
  BY <1>5, <1>6 DEF Others
<1>8. \A q \in RegisterName : Beside(t.reg[q], x.reg[q], f)
  <2> SUFFICES ASSUME NEW q \in RegisterName
               PROVE  Beside(t.reg[q], x.reg[q], f)
    OBVIOUS
  <2>1. CASE q = r2
    BY <1>3, <1>6, <2>1
  <2>2. CASE q = r1 /\ q # r2
    BY <1>3, <1>5, <1>6, <2>2
  <2>3. CASE q # r1 /\ q # r2
    BY <1>4, <1>5, <1>6, <2>3
  <2> QED BY <2>1, <2>2, <2>3
<1>9. \A q \in RegisterName \ {r1, r2} : t.reg[q] = x.reg[q]
  BY <1>5, <1>6
<1> QED BY <1>6, <1>7, <1>8, <1>9 DEF Exchange, t, y, va, vb

LEMMA PushPopType ==
  ASSUME NEW x, IsMachine(x)
  PROVE  /\ \A a \in Nat : /\ IsMachine(Push(x, a)) /\ Others(Push(x, a), x, {"stk"})
                          /\ Push(x, a).stk = push_return_addr(x.stk, a)
         /\ IsMachine(Return(x)) /\ Others(Return(x), x, {"stk", "PC"})
         /\ Return(x).PC = Popped(x.stk) /\ Return(x).stk = pop_return_addr(x.stk)
<1>1. x.stk \in Stack
  BY DEF IsMachine
<1>2. ASSUME NEW a \in Nat
      PROVE  /\ IsMachine(Push(x, a)) /\ Others(Push(x, a), x, {"stk"})
             /\ Push(x, a).stk = push_return_addr(x.stk, a)
  <2> DEFINE s == push_return_addr(x.stk, a)
  <2>1. s \in Stack
    BY <1>1, PushType
  <2>2. Push(x, a) = [x EXCEPT !.stk = s]
    BY DEF Push
  <2> HIDE DEF s
  <2>3. IsMachine([x EXCEPT !.stk = s])
    BY <2>1 DEF IsMachine
  <2>4. Others([x EXCEPT !.stk = s], x, {"stk"}) /\ [x EXCEPT !.stk = s].stk = s
    BY DEF IsMachine, Others, FieldNames
  <2> QED BY <2>2, <2>3, <2>4 DEF s
<1> DEFINE s == pop_return_addr(x.stk)
           a == Popped(x.stk)
           t == [x EXCEPT !.PC = a, !.stk = s]
<1>3. s \in Stack /\ a \in Nat
  BY <1>1, PopType
<1>4. Return(x) = t
  BY DEF Return, IsMachine
<1> HIDE DEF s, a
<1>5. IsMachine(t)
  BY <1>3 DEF IsMachine
<1>6. Others(t, x, {"stk", "PC"}) /\ t.PC = a /\ t.stk = s
  BY DEF IsMachine, Others, FieldNames
<1> QED BY <1>2, <1>4, <1>5, <1>6 DEF a, s

-----------------------------------------------------------------------------
(* A test and its opposite never send the CPU the same way, and the orders are
   those of the numbers in the field, whatever its length: TestsAgree on every
   machine (register.c). *)
THEOREM OrdersAgree ==
  ASSUME IsMachine(m)
  PROVE  TestsAgree
<1> SUFFICES ASSUME NEW code \in 0 .. 7, NEW i \in 0 .. 3
             PROVE  LET f == F(m, code)
                        x == Value(m.reg[Pair(i)[1]], f, 16)
                        y == Value(m.reg[Pair(i)[2]], f, 16)
                    IN /\ Order(m, i, f) <=> ~Order(m, i + 12, f)
                       /\ Order(m, i + 4, f) <=> ~Order(m, i + 8, f)
                       /\ Order(m, i, f) /\ Order(m, i + 4, f) <=> FALSE
                       /\ Small(f) => /\ Order(m, i, f) <=> x > y
                                      /\ Order(m, i + 4, f) <=> x < y
                                      /\ Equality(m, i, f) <=> x = y
  BY DEF TestsAgree
<1> DEFINE s == get_start(code, m.P)
           e == get_end(code, m.P)
           f == Span(s, e)
           a == m.reg[Pair(i)[1]]
           b == m.reg[Pair(i)[2]]
<1>1. Field(code, m.P) = f /\ Ends(s, e)
  <2>1. m.P \in Nibble /\ code \in 0 .. 18
    BY DEF IsMachine
  <2> QED BY <2>1, FieldSpans
<1>2. F(m, code) = f
  BY <1>1 DEF F
<1>3. /\ Pair(i + 12) = Pair(i + 4) /\ Pair(i + 8) = Pair(i)
      /\ Pair((i + 4) % 4) = Pair(i) /\ Pair((i + 8) % 4) = Pair(i) 
      /\ Pair((i + 12) % 4) = Pair(i) /\ Pair(i % 4) = Pair(i)
  BY DEF Pair
<1>4. Pair(i)[1] \in RegisterName /\ Pair(i)[2] \in RegisterName
  BY DEF Pair, RegisterName
<1>5. a \in Register /\ b \in Register
  BY <1>4 DEF IsMachine
<1>6. /\ Order(m, i, f) = is_greater_register(a, b, f)
      /\ Order(m, i + 4, f) = is_less_register(a, b, f)
      /\ Order(m, i + 8, f) = is_greater_or_equal_register(a, b, f)
      /\ Order(m, i + 12, f) = is_less_or_equal_register(a, b, f)
      /\ Equality(m, i, f) = is_equal_register(a, b, f)
  <2> DEFINE q == Pair(i)
             at(k) == Pair(k % 4)
  <2>1. at(i) = q /\ at(i + 4) = q /\ at(i + 8) = q /\ at(i + 12) = q
    BY <1>3
  <2>2. a = m.reg[q[1]] /\ b = m.reg[q[2]]
    OBVIOUS
  <2> HIDE DEF q, a, b, f
  <2>3. Order(m, i, f) = is_greater_register(a, b, f)
    BY <2>1, <2>2 DEF Order
  <2>4. Order(m, i + 4, f) = is_less_register(a, b, f)
    <3>1. ~(i + 4 < 4) /\ i + 4 \in 4 .. 7 /\ ~(i + 4 \in 8 .. 11) /\ ~(i + 4 > 11)
      OBVIOUS
    <3> QED BY <2>1, <2>2, <3>1 DEF Order
  <2>5. Order(m, i + 8, f) = is_greater_or_equal_register(a, b, f)
    <3>1. ~(i + 8 < 4) /\ i + 8 \in 8 .. 11 /\ ~(i + 8 \in 4 .. 7) /\ ~(i + 8 > 11)
      OBVIOUS
    <3> QED BY <2>1, <2>2, <3>1 DEF Order
  <2>6. Order(m, i + 12, f) = is_less_or_equal_register(a, b, f)
    <3>1. ~(i + 12 < 4) /\ ~(i + 12 \in 4 .. 7) /\ ~(i + 12 \in 8 .. 11) /\ i + 12 > 11
      OBVIOUS
    <3> QED BY <2>1, <2>2, <3>1 DEF Order
  <2>7. Equality(m, i, f) = is_equal_register(a, b, f)
    <3>1. i % 8 < 4 /\ i < 8
      OBVIOUS
    <3> QED BY <2>1, <2>2, <3>1 DEF Equality
  <2> QED BY <2>3, <2>4, <2>5, <2>6, <2>7
<1>7. AreDigits(a, s, e, 16) /\ AreDigits(b, s, e, 16)
  <2> HIDE DEF a, b, s, e
  <2> QED BY <1>1, <1>5 DEF AreDigits, Ends, Register, Nibble
<1> DEFINE v == Value(a, f, 16)
           w == Value(b, f, 16)
<1> HIDE DEF a, b, s, e
<1>8. v \in Int /\ w \in Int
  <2>1. Weight(16, e + 1 - s) \in Nat \ {0}
    BY <1>1, <1>7, ValueBounds
  <2>2. v \in 0 .. Weight(16, e + 1 - s) - 1 /\ w \in 0 .. Weight(16, e + 1 - s) - 1
    BY <1>1, <1>7, ValueBounds
  <2> QED BY <2>1, <2>2
<1>9. /\ is_equal_register(a, b, f) <=> v = w
      /\ is_less_register(a, b, f) <=> v < w
      /\ is_greater_register(a, b, f) <=> v > w
      /\ is_less_or_equal_register(a, b, f) <=> v <= w
      /\ is_greater_or_equal_register(a, b, f) <=> v >= w
  <2>1. 16 \in Nat \ {0}
    OBVIOUS
  <2> QED BY <1>1, <1>7, <2>1, ComparisonsAreExact
<1>10. v = Value(m.reg[Pair(i)[1]], f, 16) /\ w = Value(m.reg[Pair(i)[2]], f, 16)
  BY DEF a, b
<1> HIDE DEF v, w, f
<1> QED BY <1>2, <1>6, <1>8, <1>9, <1>10

-----------------------------------------------------------------------------
(* The numbers in the nibbles of an instruction. *)

(* v is what the loop of read_int() gives. *)
Reads(v, n1, i, k) ==
  v = [j \in 0 .. k |-> IF j = k THEN 0 ELSE Nib(n1, i + j) + 16 * v[j + 1]]

(* Only the values matter for which the nibbles are naturals. *)
Naturals(n1) == \A j \in Int : Nib(n1, j) \in Nat

LEMMA ReadsExist ==
  ASSUME NEW n1, NEW i \in Nat, NEW k \in 1 .. 16, Naturals(n1)
  PROVE  \E v : Reads(v, n1, i, k)
<1> DEFINE r == [j \in 0 .. k - 1 |-> Nib(n1, i + j)]
           e == k - 1
<1>1. \A j \in 0 .. e : r[j] = Nib(n1, i + j) /\ r[j] \in Int
  BY DEF Naturals
<1>2. Ends(0, e) /\ 16 \in Int /\ Numbers(r, 0, e)
  <2> HIDE DEF r
  <2> QED BY <1>1 DEF Ends, Numbers
<1>3. PICK u : ValueSums(u, r, 0, e, 16)
  <2> HIDE DEF r, e
  <2> QED BY <1>2, SumsExist
<1> HIDE DEF r
<1>4. u = [j \in 0 .. e + 1 |-> IF j > e THEN 0 ELSE r[j] + 16 * u[j + 1]]
  BY <1>3 DEF ValueSums
<1>5. /\ e + 1 = k
      /\ \A j \in 0 .. k : (j > e <=> j = k) /\ (j # k => r[j] = Nib(n1, i + j))
  BY <1>1
<1>6. u = [j \in 0 .. k |-> IF j = k THEN 0 ELSE Nib(n1, i + j) + 16 * u[j + 1]]
  <2> HIDE DEF e
  <2> QED BY <1>4, <1>5
<1> QED BY <1>6 DEF Reads

LEMMA NumReads ==
  ASSUME NEW n1, NEW i \in Nat, NEW k \in 1 .. 16, Naturals(n1)
  PROVE  \E v : Reads(v, n1, i, k) /\ Num(n1, i, k) = v[0]
<1> DEFINE v == CHOOSE v : v = [j \in 0 .. k |-> IF j = k THEN 0 ELSE Nib(n1, i + j) + 16 * v[j + 1]]
<1>1. Num(n1, i, k) = v[0]
  BY DEF Num
<1>2. \E w : w = [j \in 0 .. k |-> IF j = k THEN 0 ELSE Nib(n1, i + j) + 16 * w[j + 1]]
  <2>1. \E w : Reads(w, n1, i, k)
    BY ReadsExist
  <2> QED BY <2>1 DEF Reads
<1>3. v = [j \in 0 .. k |-> IF j = k THEN 0 ELSE Nib(n1, i + j) + 16 * v[j + 1]]
  BY <1>2, Zenon
<1> HIDE DEF v
<1> QED BY <1>1, <1>3 DEF Reads

(* read_int() of two to five nibbles gives a natural number. *)
LEMMA NumType ==
  ASSUME NEW n1, NEW i \in Nat, NEW k \in 2 .. 5, Naturals(n1)
  PROVE  Num(n1, i, k) \in Nat
<1>1. PICK v : Reads(v, n1, i, k) /\ Num(n1, i, k) = v[0]
  BY NumReads
<1>2. v[k] = 0
  BY <1>1 DEF Reads
<1>3. ASSUME NEW j \in 0 .. k - 1, v[j + 1] \in Nat
      PROVE  v[j] \in Nat
  <2>1. v[j] = Nib(n1, i + j) + 16 * v[j + 1]
    BY <1>1 DEF Reads
  <2>2. Nib(n1, i + j) \in Nat
    BY DEF Naturals
  <2> QED BY <1>3, <2>1, <2>2
<1>4. v[k - 1] \in Nat
  BY <1>2, <1>3
<1>5. v[k - 2] \in Nat
  BY <1>4, <1>3
<1>6. k >= 3 => v[k - 3] \in Nat
  BY <1>5, <1>3
<1>7. k >= 4 => v[k - 4] \in Nat
  BY <1>6, <1>3
<1>8. k >= 5 => v[k - 5] \in Nat
  BY <1>7, <1>3
<1>9. k = 2 \/ k = 3 \/ k = 4 \/ k = 5
  OBVIOUS
<1> QED BY <1>1, <1>4, <1>5, <1>6, <1>7, <1>8, <1>9

(* emulate.c and disasm.c read the same numbers. *)
LEMMA SameNumbers ==
  ASSUME NEW n1, NEW i, NEW k
  PROVE  Num(n1, i, k) = read_int(n1, i, k) /\ Signed(i, k) = Distance(i, k)
  BY DEF Num, read_int, Nib, read_nibble, Signed, Distance

LEMMA NibType ==
  ASSUME NEW n1 \in Instruction
  PROVE  /\ Naturals(n1)
         /\ \A j \in Int : Nib(n1, j) \in Nibble
         /\ \A j \in 0 .. 6 : /\ n1[j] \in Nibble
                              /\ Nib(n1, j) = n1[j]
                              /\ read_nibble(n1, j) = n1[j]
  BY DEF Instruction, Naturals, Nib, read_nibble, Nibble

LEMMA SignedType ==
  ASSUME NEW v \in Int
  PROVE  Signed(v, 2) \in Int /\ Signed(v, 3) \in Int /\ Signed(v, 4) \in Int
  BY DEF Signed

LEMMA WordBounds ==
  /\ Memory \in Nat \ {0}
  /\ \A a : a \in Word <=> a \in Nat /\ a < Memory
  /\ \A a \in Int : a % Memory \in Word
  /\ \A a \in Word : a % Memory = a
<1>1. Memory \in Nat \ {0}
  BY DEF Memory
<1>2. \A a : a \in Word <=> a \in Nat /\ a < Memory
  BY <1>1 DEF Word
<1>3. \A a \in Word : a % Memory = a
  BY <1>2 DEF Memory
<1> QED BY <1>1, <1>2, <1>3

(* The address in a register is one of 20 bits. *)
LEMMA AddressType ==
  ASSUME NEW r \in Register
  PROVE  AddressIn(r) \in Word
<1>1. 0 \in Nibble /\ A_FIELD \in 0 .. 18 /\ get_start(A_FIELD, 0) = 0 /\ get_end(A_FIELD, 0) = 4
  BY DEF Nibble, A_FIELD, get_start, get_end, start_fields, end_fields
<1>2. Field(A_FIELD, 0) = Span(0, 4)
  BY <1>1 DEF Field, Span
<1>3. Ends(0, 4) /\ 16 \in Nat \ {0} /\ AreDigits(r, 0, 4, 16)
  BY DEF Ends, AreDigits, Register, Nibble
<1>4. Value(r, Span(0, 4), 16) \in 0 .. Weight(16, 4 + 1 - 0) - 1
  BY <1>3, ValueBounds
<1>5. 4 + 1 - 0 = 5
  OBVIOUS
<1>6. Value(r, Span(0, 4), 16) \in 0 .. Weight(16, 5) - 1
  BY <1>4, <1>5, Zenon
<1>7. Weight(16, 5) = Memory
  <2>1. 16 \in Int /\ 5 \in Nat
    OBVIOUS
  <2>2. PICK w : Powers(w, 16, 5) /\ Weight(16, 5) = w[5]
    BY <2>1, WeightSteps
  <2>3. w[0] = 1 /\ \A k \in 0 .. 4 : w[k + 1] = 16 * w[k]
    BY <2>2 DEF Powers
  <2>4. w[1] = 16
    BY <2>3
  <2>5. w[2] = 256
    BY <2>3, <2>4
  <2>6. w[3] = 4096
    BY <2>3, <2>5
  <2>7. w[4] = 65536
    BY <2>3, <2>6
  <2>8. w[5] = 1048576
    BY <2>3, <2>7
  <2> QED BY <2>2, <2>8 DEF Memory
<1>8. Value(r, Span(0, 4), 16) \in Word
  BY <1>6, <1>7 DEF Word
<1> QED BY <1>2, <1>8 DEF AddressIn

LEMMA DigitType ==
  ASSUME NEW a \in Nat, NEW i \in 0 .. 4
  PROVE  Digit(a, i) \in Nibble
<1>1. CASE i = 0
  BY <1>1 DEF Digit, Nibble
<1>2. CASE i = 1
  BY <1>2 DEF Digit, Nibble
<1>3. CASE i = 2
  BY <1>3 DEF Digit, Nibble
<1>4. CASE i = 3
  BY <1>4 DEF Digit, Nibble
<1>5. CASE i = 4
  BY <1>5 DEF Digit, Nibble
<1> QED BY <1>1, <1>2, <1>3, <1>4, <1>5

LEMMA LowNibblesType ==
  ASSUME NEW d \in Word, NEW v \in Nat
  PROVE  LowNibbles(d, v, 2) \in Word /\ LowNibbles(d, v, 4) \in Word /\ LowNibbles(d, v, 5) \in Word
<1>1. d \in Nat /\ d < 1048576
  BY WordBounds DEF Memory
<1>2. ASSUME NEW a, a \in Nat /\ a < 1048576 PROVE a \in Word
  BY <1>2, WordBounds DEF Memory
<1>3. LowNibbles(d, v, 2) \in Word
  <2>1. LowNibbles(d, v, 2) \in Nat /\ LowNibbles(d, v, 2) < 1048576
    BY <1>1 DEF LowNibbles
  <2> QED BY <1>2, <2>1
<1>4. LowNibbles(d, v, 4) \in Word
  <2>1. LowNibbles(d, v, 4) \in Nat /\ LowNibbles(d, v, 4) < 1048576
    BY <1>1 DEF LowNibbles
  <2> QED BY <1>2, <2>1
<1>5. LowNibbles(d, v, 5) \in Word
  <2>1. LowNibbles(d, v, 5) \in Nat /\ LowNibbles(d, v, 5) < 1048576
    BY <1>1 DEF LowNibbles
  <2> QED BY <1>2, <2>1
<1> QED BY <1>3, <1>4, <1>5

-----------------------------------------------------------------------------
(* The operations on the registers: what they may change. *)

LEMMA OperandTypes ==
  ASSUME NEW i \in Nibble
  PROVE  /\ Alu(i) \in RegisterName /\ R(i) \in RegisterName /\ AorC(i) \in RegisterName
         /\ Pair(i)[1] \in RegisterName /\ Pair(i)[2] \in RegisterName
         /\ Pair(i % 4)[1] \in RegisterName /\ Pair(i % 4)[2] \in RegisterName
         /\ Operands(i)[1] \in RegisterName /\ Operands(i)[2] \in RegisterName
<1>1. \A k \in Nat : Pair(k)[1] \in RegisterName /\ Pair(k)[2] \in RegisterName
  BY DEF Pair, RegisterName
<1>2. i \in Nat /\ i % 4 \in Nat /\ 4 + (i % 4) \in Nat
  BY DEF Nibble
<1>3. Operands(i)[1] \in RegisterName /\ Operands(i)[2] \in RegisterName
  BY <1>1, <1>2 DEF Operands
<1>4. Alu(i) \in RegisterName /\ AorC(i) \in RegisterName
  BY <1>2 DEF Alu, ALU, AorC, RegisterName
<1>5. R(i) \in RegisterName
  BY <1>2 DEF R, Scratch, RegisterName
<1> QED BY <1>1, <1>2, <1>3, <1>4, <1>5

(* t is x but for the field f of the registers r1 and r2, and for CARRY and SB. *)
WorksOn(t, x, f, r1, r2) ==
  /\ IsMachine(t)
  /\ Others(t, x, {"reg", "CARRY", "SB"})
  /\ \A q \in RegisterName : Beside(t.reg[q], x.reg[q], f)
  /\ \A q \in RegisterName \ {r1, r2} : t.reg[q] = x.reg[q]

LEMMA SetWorks ==
  ASSUME NEW x, NEW r, NEW v, NEW f,
         IsMachine(x), r \in RegisterName, v \in Register, Beside(v, x.reg[r], f)
  PROVE  WorksOn(Set(x, r, v), x, f, r, r)
<1> DEFINE t == Set(x, r, v)
<1>1. /\ IsMachine(t) /\ Others(t, x, {"reg"}) /\ t.reg[r] = v
      /\ \A q \in RegisterName : q # r => t.reg[q] = x.reg[q]
  BY SetType
<1> HIDE DEF t
<1>2. Others(t, x, {"reg", "CARRY", "SB"})
  BY <1>1 DEF Others
<1>3. \A q \in RegisterName : Beside(t.reg[q], x.reg[q], f)
  BY <1>1 DEF Beside
<1> QED BY <1>1, <1>2, <1>3 DEF WorksOn, t

LEMMA SetCarryWorks ==
  ASSUME NEW x, NEW r, NEW v, NEW f,
         IsMachine(x), r \in RegisterName, IsResult(v, x.reg[r], f)
  PROVE  WorksOn(SetCarry(x, r, v), x, f, r, r)
<1> DEFINE t == SetCarry(x, r, v)
<1>1. /\ IsMachine(t) /\ Others(t, x, {"reg", "CARRY"}) /\ t.reg[r] = v.reg
      /\ \A q \in RegisterName : q # r => t.reg[q] = x.reg[q]
  <2>1. IsMachine(t) /\ Others(t, x, {"reg", "CARRY"})
    BY SetCarryType
  <2>2. Left(t, x, r, v)
    BY SetCarryType
  <2> HIDE DEF t
  <2> QED BY <2>1, <2>2 DEF Left
<1> HIDE DEF t
<1>2. Others(t, x, {"reg", "CARRY", "SB"})
  BY <1>1 DEF Others
<1>3. \A q \in RegisterName : Beside(t.reg[q], x.reg[q], f)
  BY <1>1 DEF Beside, IsResult
<1> QED BY <1>1, <1>2, <1>3 DEF WorksOn, t

LEMMA SBWorks ==
  ASSUME NEW t, NEW lost, NEW x, NEW f, NEW r1, NEW r2, WorksOn(t, x, f, r1, r2)
  PROVE  WorksOn(SetSB(t, lost), x, f, r1, r2)
<1> DEFINE u == SetSB(t, lost)
<1>1. IsMachine(u) /\ Others(u, t, {"SB"})
  BY SBType DEF WorksOn
<1> HIDE DEF u
<1>2. u.reg = t.reg
  BY <1>1 DEF Others, FieldNames
<1>3. Others(u, x, {"reg", "CARRY", "SB"})
  BY <1>1 DEF WorksOn, Others
<1> QED BY <1>1, <1>2, <1>3 DEF WorksOn, u

LEMMA SumsWork ==
  ASSUME NEW x, NEW i \in Nibble, NEW f, IsMachine(x), Spanned(f)
  PROVE  \E r \in RegisterName : WorksOn(Sums(x, i, f), x, f, r, r)
<1>1. x.hexmode \in Nat /\ \A q \in RegisterName : x.reg[q] \in Register
  BY DEF IsMachine, HEX, DEC
<1> DEFINE a == Operands(i)[1]
           b == IF i \in 4 .. 7 THEN a ELSE Operands(i)[2]
           c == Alu(i)
<1>2. a \in RegisterName /\ b \in RegisterName /\ c \in RegisterName
  BY OperandTypes
<1>3. i \in Nat
  BY DEF Nibble
<1>4. CASE i < 12
  <2>1. Sums(x, i, f) = SetCarry(x, a, add_register(x.reg[a], x.reg[a], x.reg[b], f, x.hexmode))
    BY <1>4 DEF Sums
  <2> HIDE DEF a, b
  <2>2. IsResult(add_register(x.reg[a], x.reg[a], x.reg[b], f, x.hexmode), x.reg[a], f)
    BY <1>1, <1>2, ResultTypes
  <2> QED BY <1>2, <2>1, <2>2, SetCarryWorks
<1>5. CASE ~(i < 12)
  <2>1. Sums(x, i, f) = SetCarry(x, c, dec_register(x.reg[c], f, x.hexmode))
    BY <1>5 DEF Sums
  <2> HIDE DEF c
  <2>2. IsResult(dec_register(x.reg[c], f, x.hexmode), x.reg[c], f)
    BY <1>1, <1>2, ResultTypes
  <2> QED BY <1>2, <2>1, <2>2, SetCarryWorks
<1> QED BY <1>4, <1>5

LEMMA DifferencesWork ==
  ASSUME NEW x, NEW i \in Nibble, NEW f, IsMachine(x), Spanned(f)
  PROVE  \E r \in RegisterName : WorksOn(Differences(x, i, f), x, f, r, r)
<1>1. x.hexmode \in Nat /\ \A q \in RegisterName : x.reg[q] \in Register
  BY DEF IsMachine, HEX, DEC
<1> DEFINE a == Operands(i)[1]
           b == Operands(i)[2]
           z1 == Pair(i % 4)[1]
           z2 == Pair(i % 4)[2]
           c == Alu(i)
           minus(r, r1, r2) == sub_register(x.reg[r], x.reg[r1], x.reg[r2], f, x.hexmode)
<1>2. /\ a \in RegisterName /\ b \in RegisterName /\ c \in RegisterName
      /\ z1 \in RegisterName /\ z2 \in RegisterName
  BY OperandTypes
<1>3. i \in Nat /\ i <= 15
  BY DEF Nibble
<1>4. ASSUME NEW r \in RegisterName, NEW r1 \in RegisterName, NEW r2 \in RegisterName
      PROVE  IsResult(minus(r, r1, r2), x.reg[r], f)
  BY <1>1, ResultTypes
<1>5. CASE i \in 4 .. 7
  <2>1. Differences(x, i, f) = SetCarry(x, c, inc_register(x.reg[c], f, x.hexmode))
    BY <1>3, <1>5 DEF Differences
  <2> HIDE DEF c
  <2>2. IsResult(inc_register(x.reg[c], f, x.hexmode), x.reg[c], f)
    BY <1>1, <1>2, ResultTypes
  <2> QED BY <1>2, <2>1, <2>2, SetCarryWorks
<1>6. CASE i < 4 \/ i \in 8 .. 11
  <2>1. Differences(x, i, f) = SetCarry(x, a, minus(a, a, b))
    BY <1>3, <1>6 DEF Differences
  <2> HIDE DEF a, b
  <2>2. IsResult(minus(a, a, b), x.reg[a], f)
    BY <1>2, <1>4
  <2> HIDE DEF minus
  <2> QED BY <1>2, <2>1, <2>2, SetCarryWorks
<1>7. CASE i > 11
  <2>1. Differences(x, i, f) = SetCarry(x, z1, minus(z1, z2, z1))
    BY <1>3, <1>7 DEF Differences
  <2> HIDE DEF z1, z2
  <2>2. IsResult(minus(z1, z2, z1), x.reg[z1], f)
    BY <1>2, <1>4
  <2> HIDE DEF minus
  <2> QED BY <1>2, <2>1, <2>2, SetCarryWorks
<1> QED BY <1>3, <1>5, <1>6, <1>7

LEMMA ShiftsWork ==
  ASSUME NEW x, NEW i \in Nibble, NEW s, NEW e, IsMachine(x), Ends(s, e)
  PROVE  \E r \in RegisterName : WorksOn(Shifts(x, i, Span(s, e)), x, Span(s, e), r, r)
<1> DEFINE f == Span(s, e)
           c == Alu(i)
           v == x.reg[c]
<1>1. x.hexmode \in Nat /\ \A q \in RegisterName : x.reg[q] \in Register
  BY DEF IsMachine, HEX, DEC
<1>2. c \in RegisterName
  BY OperandTypes
<1>3. i \in Nat /\ i <= 15
  BY DEF Nibble
<1>4. Spanned(f)
  BY DEF Spanned, Span
<1>5. v \in Register
  BY <1>1, <1>2
<1>6. CASE i < 4
  <2>1. Shifts(x, i, f) = Set(x, c, shift_left_register(v, f))
    BY <1>3, <1>6 DEF Shifts
  <2> HIDE DEF v
  <2>2. IsField(shift_left_register(v, f), v, f)
    BY <1>5, FieldTypes
  <2> HIDE DEF c, f
  <2>3. WorksOn(Shifts(x, i, f), x, f, c, c)
    BY <1>2, <2>1, <2>2, SetWorks DEF IsField, v
  <2> QED BY <1>2, <2>3 DEF f
<1>7. CASE i \in 4 .. 7
  <2> DEFINE y == Set(x, c, shift_right_register(v, f))
  <2>1. Shifts(x, i, f) = SetSB(y, v[f.s] # 0)
    BY <1>3, <1>7 DEF Shifts
  <2>2. IsField(shift_right_register(v, f), v, f)
    <3> HIDE DEF v
    <3> QED BY <1>5, FieldTypes
  <2> HIDE DEF c, f
  <2>3. WorksOn(y, x, f, c, c)
    BY <1>2, <2>2, SetWorks DEF IsField
  <2> HIDE DEF y, v
  <2>4. WorksOn(Shifts(x, i, f), x, f, c, c)
    BY <2>1, <2>3, SBWorks
  <2> QED BY <1>2, <2>4 DEF f
<1>8. CASE i \in 8 .. 11
  <2>1. Shifts(x, i, f) = SetCarry(x, c, complement_2_register(v, f, x.hexmode))
    BY <1>3, <1>8 DEF Shifts
  <2> HIDE DEF f, v
  <2>2. IsResult(complement_2_register(v, f, x.hexmode), v, f)
    BY <1>1, <1>4, <1>5, ResultTypes
  <2> HIDE DEF c
  <2>3. WorksOn(Shifts(x, i, f), x, f, c, c)
    BY <1>2, <2>1, <2>2, SetCarryWorks DEF v
  <2> QED BY <1>2, <2>3 DEF f
<1>9. CASE i > 11
  <2>1. Shifts(x, i, f) = SetCarry(x, c, complement_1_register(v, f, x.hexmode))
    BY <1>3, <1>9 DEF Shifts
  <2> HIDE DEF f, v
  <2>2. IsResult(complement_1_register(v, f, x.hexmode), v, f)
    BY <1>1, <1>4, <1>5, ResultTypes
  <2> HIDE DEF c
  <2>3. WorksOn(Shifts(x, i, f), x, f, c, c)
    BY <1>2, <2>1, <2>2, SetCarryWorks DEF v
  <2> QED BY <1>2, <2>3 DEF f
<1> QED BY <1>3, <1>6, <1>7, <1>8, <1>9

LEMMA CopiesWork ==
  ASSUME NEW x, NEW i \in Nibble, NEW s, NEW e, IsMachine(x), Ends(s, e)
  PROVE  \E r1, r2 \in RegisterName :
           /\ WorksOn(Copies(x, i, Span(s, e)), x, Span(s, e), r1, r2)
           /\ i < 12 => r1 = r2
<1> DEFINE f == Span(s, e)
           a == Operands(i)[1]
           b == Operands(i)[2]
           c == Alu(i)
           pair == <<<<"A", "B">>, <<"B", "C">>, <<"A", "C">>, <<"C", "D">>>>[(i % 4) + 1]
<1>1. \A q \in RegisterName : x.reg[q] \in Register
  BY DEF IsMachine
<1>2. /\ a \in RegisterName /\ b \in RegisterName /\ c \in RegisterName
      /\ pair[1] \in RegisterName /\ pair[2] \in RegisterName
  <2>1. pair[1] \in RegisterName /\ pair[2] \in RegisterName
    BY DEF Nibble, RegisterName
  <2> QED BY <2>1, OperandTypes
<1>3. i \in Nat /\ i <= 15
  BY DEF Nibble
<1>4. Spanned(f)
  BY DEF Spanned, Span
<1>5. CASE i < 4
  <2>1. Copies(x, i, f) = Set(x, c, zero_register(x.reg[c], f))
    BY <1>3, <1>5 DEF Copies
  <2> HIDE DEF c
  <2>2. IsField(zero_register(x.reg[c], f), x.reg[c], f)
    BY <1>1, <1>2, FieldTypes
  <2> HIDE DEF f
  <2>3. WorksOn(Copies(x, i, f), x, f, c, c)
    BY <1>2, <2>1, <2>2, SetWorks DEF IsField
  <2> QED BY <1>2, <2>3 DEF f
<1>6. CASE i \in 4 .. 11
  <2>1. Copies(x, i, f) = Set(x, a, copy_register(x.reg[a], x.reg[b], f))
    BY <1>3, <1>6 DEF Copies
  <2> HIDE DEF a, b
  <2>2. IsField(copy_register(x.reg[a], x.reg[b], f), x.reg[a], f)
    BY <1>1, <1>2, FieldTypes
  <2> HIDE DEF f
  <2>3. WorksOn(Copies(x, i, f), x, f, a, a)
    BY <1>2, <2>1, <2>2, SetWorks DEF IsField
  <2> QED BY <1>2, <2>3 DEF f
<1>7. CASE i > 11
  <2>1. Copies(x, i, f) = Exchange(x, pair[1], pair[2], f)
    BY <1>3, <1>7 DEF Copies
  <2> HIDE DEF pair, f
  <2> DEFINE t == Exchange(x, pair[1], pair[2], f)
  <2>2. /\ IsMachine(t) /\ Others(t, x, {"reg"})
        /\ \A q \in RegisterName : Beside(t.reg[q], x.reg[q], f)
        /\ \A q \in RegisterName \ {pair[1], pair[2]} : t.reg[q] = x.reg[q]
    BY <1>2, <1>4, ExchangeType
  <2> HIDE DEF t
  <2>3. WorksOn(t, x, f, pair[1], pair[2])
    BY <2>2 DEF WorksOn, Others
  <2> QED BY <1>2, <1>3, <1>7, <2>1, <2>3 DEF t, f
<1> QED BY <1>3, <1>5, <1>6, <1>7

-----------------------------------------------------------------------------
(* Where an instruction goes. *)

(* t is x with the stack and stop as they were, *)
Kept(t, x) == IsMachine(t) /\ t.stk = x.stk /\ t.stop = x.stop
(* and goes on k nibbles behind; *)
Behind(t, x, k) == Kept(t, x) /\ t.PC = x.PC + k
(* t has returned from x. *)
Back(t, x) ==
  IsMachine(t) /\ t.stop = x.stop /\ t.stk = pop_return_addr(x.stk) /\ t.PC = Popped(x.stk)
(* What StackKeepsNewest and DisassemblyAgrees need of an instruction i that
   leads from x to t. *)
Way(x, t, text) ==
  CASE text.goes = "yes" -> t.CARRY = 1
    [] text.goes = "carry" -> x.CARRY = 1
    [] text.goes = "noCarry" -> x.CARRY = 0
    [] OTHER -> text.goes \in {"jump", "call"}
Flows(x, i, t) ==
  LET text == disassemble(i)
      behind == x.PC + text.len
  IN /\ t.stop <=> text.goes = "nothing"
     /\ text.goes = "on" => t.PC = IF Cuts(i, x) THEN behind % Memory ELSE behind
     /\ text.goes = "return" => t.PC = Popped(x.stk)
     /\ text.goes \in {"yes", "carry", "noCarry", "jump", "call"} =>
          t.PC = IF ~Way(x, t, text) THEN behind
                 ELSE IF text.back THEN Popped(x.stk) ELSE Destination(text, x.PC)
(* The same by the text: what is printed as a call pushes, but for 8D, and what
   is printed as a return, taken, pops. *)
TextPushes(i) ==
  (disassemble(i).goes = "call" /\ ~(i[0] = 8 /\ i[1] = 13)) \/ (i[0] = 0 /\ i[1] = 6)
TextPushed(i, x) ==
  IF i[0] = 0 THEN AddressIn(x.reg["C"]) ELSE x.PC + disassemble(i).len
TextPops(i, x, t) ==
  LET text == disassemble(i)
  IN \/ text.goes = "return" \/ (i[0] = 0 /\ i[1] = 7)
     \/ text.back /\ Way(x, t, text)
Stacks(x, i, t) ==
  t.stk = IF TextPushes(i) THEN push_return_addr(x.stk, TextPushed(i, x))
          ELSE IF TextPops(i, x, t) THEN pop_return_addr(x.stk) ELSE x.stk
Right(x, i, t) == IsMachine(t) /\ Stacks(x, i, t) /\ (~Misread(i) => Flows(x, i, t))

LEMMA BehindRight ==
  ASSUME NEW x, NEW i, NEW t, NEW text, text = disassemble(i), ~x.stop, ~MovesStack(i),
         text.goes = "on", Kept(t, x),
         \/ Misread(i)
         \/ t.PC = IF Cuts(i, x) THEN (x.PC + text.len) % Memory ELSE x.PC + text.len
  PROVE  Right(x, i, t)
<1>1. ~TextPushes(i) /\ ~TextPops(i, x, t)
  BY DEF TextPushes, TextPops, Way, MovesStack
<1>2. Stacks(x, i, t)
  BY <1>1 DEF Stacks, Kept
<1>3. ~Misread(i) => Flows(x, i, t)
  BY DEF Flows, Kept
<1> QED BY <1>2, <1>3 DEF Right, Kept

LEMMA IndirectRight ==
  ASSUME NEW x, NEW i, NEW t, NEW text, text = disassemble(i), ~x.stop, ~MovesStack(i),
         text.goes = "indirect", Kept(t, x)
  PROVE  Right(x, i, t)
<1>1. ~TextPushes(i) /\ ~TextPops(i, x, t)
  BY DEF TextPushes, TextPops, Way, MovesStack
<1>2. Stacks(x, i, t)
  BY <1>1 DEF Stacks, Kept
<1>3. Flows(x, i, t)
  BY DEF Flows, Kept
<1> QED BY <1>2, <1>3 DEF Right, Kept

LEMMA IllegalRight ==
  ASSUME NEW x, NEW i, NEW t, NEW text, text = disassemble(i), ~MovesStack(i),
         text.goes = "nothing", IsMachine(t), t.stk = x.stk, Misread(i) \/ t.stop
  PROVE  Right(x, i, t)
<1>1. ~TextPushes(i) /\ ~TextPops(i, x, t)
  BY DEF TextPushes, TextPops, Way, MovesStack
<1>2. Stacks(x, i, t)
  BY <1>1 DEF Stacks
<1>3. ~Misread(i) => Flows(x, i, t)
  BY DEF Flows
<1> QED BY <1>2, <1>3 DEF Right

LEMMA ReturnRight ==
  ASSUME NEW x, NEW i, NEW t, NEW text, text = disassemble(i), ~x.stop, ~MovesStack(i),
         text.goes = "return", Back(t, x)
  PROVE  Right(x, i, t)
<1>1. ~TextPushes(i) /\ TextPops(i, x, t)
  BY DEF TextPushes, TextPops, Way, MovesStack
<1>2. Stacks(x, i, t)
  BY <1>1 DEF Stacks, Back
<1>3. Flows(x, i, t)
  BY DEF Flows, Back
<1> QED BY <1>2, <1>3 DEF Right, Back

LEMMA CallRight ==
  ASSUME NEW x, NEW i, NEW t, NEW text, text = disassemble(i), ~x.stop, i[0] # 0,
         ~(i[0] = 8 /\ i[1] = 13),
         text.goes = "call", ~text.back, IsMachine(t), t.stop = x.stop,
         t.stk = push_return_addr(x.stk, x.PC + text.len),
         t.PC = Destination(text, x.PC)
  PROVE  Right(x, i, t)
<1>1. TextPushes(i) /\ TextPushed(i, x) = x.PC + text.len
  BY DEF TextPushes, TextPushed
<1>2. Stacks(x, i, t)
  BY <1>1 DEF Stacks
<1>3. Flows(x, i, t)
  BY DEF Flows, Way
<1> QED BY <1>2, <1>3 DEF Right

LEMMA JumpRight ==
  ASSUME NEW x, NEW i, NEW t, NEW text, text = disassemble(i), ~x.stop, ~MovesStack(i),
         text.goes = "jump", ~text.back, Kept(t, x), t.PC = Destination(text, x.PC)
  PROVE  Right(x, i, t)
<1>1. ~TextPushes(i) /\ ~TextPops(i, x, t)
  BY DEF TextPushes, TextPops, Way, MovesStack
<1>2. Stacks(x, i, t)
  BY <1>1 DEF Stacks, Kept
<1>3. Flows(x, i, t)
  BY DEF Flows, Way, Kept
<1> QED BY <1>2, <1>3 DEF Right, Kept

(* The jumps that depend on CARRY: on what it was, or, after a test, on what it
   is. *)
Conditional(x, t, text, yes) ==
  IF ~yes THEN Behind(t, x, text.len)
  ELSE IF text.back THEN Back(t, x)
  ELSE Kept(t, x) /\ t.PC = Destination(text, x.PC)

LEMMA ConditionalRight ==
  ASSUME NEW x, NEW i, NEW t, NEW text, NEW yes \in BOOLEAN,
         text = disassemble(i), ~x.stop, ~MovesStack(i),
         \/ text.goes = "yes" /\ t.CARRY = IF yes THEN 1 ELSE 0
         \/ text.goes = "carry" /\ (yes <=> x.CARRY = 1)
         \/ text.goes = "noCarry" /\ (yes <=> x.CARRY = 0),
         Conditional(x, t, text, yes)
  PROVE  Right(x, i, t)
<1>1. ~TextPushes(i) /\ (TextPops(i, x, t) <=> text.back /\ yes)
  BY DEF TextPushes, TextPops, Way, MovesStack
<1>2. Way(x, t, text) <=> yes
  BY DEF Way
<1>3. CASE ~yes
  <2>1. Stacks(x, i, t)
    BY <1>1, <1>3 DEF Stacks, Conditional, Behind, Kept
  <2>2. Flows(x, i, t)
    BY <1>2, <1>3 DEF Flows, Conditional, Behind, Kept
  <2> QED BY <1>3, <2>1, <2>2 DEF Right, Conditional, Behind, Kept
<1>4. CASE yes /\ text.back
  <2>1. Stacks(x, i, t)
    BY <1>1, <1>4 DEF Stacks, Conditional, Back
  <2>2. Flows(x, i, t)
    BY <1>2, <1>4 DEF Flows, Conditional, Back
  <2> QED BY <1>4, <2>1, <2>2 DEF Right, Conditional, Back
<1>5. CASE yes /\ ~text.back
  <2>1. Stacks(x, i, t)
    BY <1>1, <1>5 DEF Stacks, Conditional, Kept
  <2>2. Flows(x, i, t)
    BY <1>2, <1>5 DEF Flows, Conditional, Kept
  <2> QED BY <1>5, <2>1, <2>2 DEF Right, Conditional, Kept
<1> QED BY <1>3, <1>4, <1>5

-----------------------------------------------------------------------------
(* The instructions, in the groups emulate.c decodes them in. *)

LEMMA WorksBehind ==
  ASSUME NEW x, NEW k, NEW t, NEW f, NEW r1, NEW r2,
         IsMachine(x), k \in Nat, WorksOn(t, Advance(x, k), f, r1, r2)
  PROVE  Behind(t, x, k)
<1> DEFINE y == Advance(x, k)
<1>1. Others(y, x, {"PC"}) /\ y.PC = x.PC + k
  BY AdvanceType
<1> HIDE DEF y
<1>2. IsMachine(t) /\ Others(t, y, {"reg", "CARRY", "SB"})
  BY DEF WorksOn, y
<1> QED BY <1>1, <1>2 DEF Others, FieldNames, Behind, Kept

LEMMA NearText ==
  ASSUME NEW n1, NEW goes, NEW i, NEW k, NEW from
  PROVE  LET d == Num(n1, i, k)
             text == Near(n1, goes, i, k, from)
         IN /\ text.len = i + k /\ text.goes = goes
            /\ text.back <=> (d = 0 /\ goes \in {"yes", "carry", "noCarry"})
            /\ \A pc : Destination(text, pc) = (pc + (from + Signed(d, k))) % Memory
<1> DEFINE d == Num(n1, i, k)
<1>1. d = read_int(n1, i, k) /\ Signed(d, k) = Distance(d, k)
  BY SameNumbers
<1> HIDE DEF d
<1> QED BY <1>1 DEF Near, Destination, d

LEMMA GoYesRight ==
  ASSUME NEW x, NEW n1 \in Instruction, NEW k \in {3, 5}, NEW yes \in BOOLEAN,
         IsMachine(x), ~x.stop, ~MovesStack(n1),
         disassemble(n1) = Near(n1, "yes", k, 2, k)
  PROVE  Right(x, n1, GoYes(x, n1, k, yes))
<1> DEFINE t == GoYes(x, n1, k, yes)
           text == Near(n1, "yes", k, 2, k)
           d == Num(n1, k, 2)
           c == Carry(x, yes)
<1>1. d \in Nat /\ Signed(d, 2) \in Int
  <2>1. d \in Nat
    BY NibType, NumType
  <2> HIDE DEF d
  <2> QED BY <2>1, SignedType
<1>2. IsMachine(c) /\ Others(c, x, {"CARRY"}) /\ c.CARRY = IF yes THEN 1 ELSE 0
  BY CarryType
<1>3. c.PC = x.PC /\ c.stk = x.stk /\ c.stop = x.stop /\ x.PC \in Nat
  BY <1>2 DEF Others, FieldNames, IsMachine
<1>4. /\ text.len = k + 2 /\ text.goes = "yes" /\ (text.back <=> d = 0)
      /\ \A pc : Destination(text, pc) = (pc + (k + Signed(d, 2))) % Memory
  BY NearText
<1>5. t = IF ~yes THEN Advance(c, k + 2)
          ELSE IF d = 0 THEN Return(Advance(c, k)) ELSE Goto(c, x.PC + k + Signed(d, 2))
  BY DEF GoYes
<1> HIDE DEF t, text, d, c
<1>6. Conditional(x, t, text, yes) /\ t.CARRY = IF yes THEN 1 ELSE 0
  <2>1. CASE ~yes
    <3>1. t = Advance(c, k + 2)
      BY <1>5, <2>1
    <3>2. IsMachine(t) /\ Others(t, c, {"PC"}) /\ t.PC = c.PC + (k + 2)
      BY <1>2, <3>1, AdvanceType
    <3>3. t.stk = x.stk /\ t.stop = x.stop /\ t.CARRY = c.CARRY
      BY <1>3, <3>2 DEF Others, FieldNames
    <3>4. k + 2 \in Nat /\ t.PC = x.PC + text.len
      BY <1>3, <1>4, <3>2
    <3> QED BY <1>2, <2>1, <3>2, <3>3, <3>4 DEF Conditional, Behind, Kept
  <2>2. CASE yes /\ d = 0
    <3> DEFINE y == Advance(c, k)
    <3>1. IsMachine(y) /\ Others(y, c, {"PC"})
      BY <1>2, AdvanceType
    <3>2. t = Return(y)
      BY <1>5, <2>2
    <3> HIDE DEF y
    <3>3. /\ IsMachine(t) /\ Others(t, y, {"stk", "PC"})
          /\ t.PC = Popped(y.stk) /\ t.stk = pop_return_addr(y.stk)
      BY <3>1, <3>2, PushPopType
    <3>4. y.stk = x.stk /\ t.stop = x.stop /\ t.CARRY = c.CARRY
      BY <1>3, <3>1, <3>3 DEF Others, FieldNames
    <3> QED BY <1>2, <1>4, <2>2, <3>3, <3>4 DEF Conditional, Back
  <2>3. CASE yes /\ d # 0
    <3>1. t = Goto(c, x.PC + k + Signed(d, 2))
      BY <1>5, <2>3
    <3> DEFINE a == x.PC + k + Signed(d, 2)
    <3>2. a \in Int /\ a = x.PC + (k + Signed(d, 2))
      BY <1>1, <1>3
    <3> HIDE DEF a
    <3>3. IsMachine(t) /\ Others(t, c, {"PC"}) /\ t.PC = a % Memory
      BY <1>2, <3>1, <3>2, GotoType DEF a
    <3>4. t.PC = Destination(text, x.PC)
      BY <1>4, <3>2, <3>3
    <3>5. t.stk = x.stk /\ t.stop = x.stop /\ t.CARRY = c.CARRY
      BY <1>3, <3>3 DEF Others, FieldNames
    <3> QED BY <1>2, <1>4, <2>3, <3>3, <3>4, <3>5 DEF Conditional, Kept
  <2> QED BY <2>1, <2>2, <2>3
<1>7. text = disassemble(n1)
  BY DEF text
<1>8. Right(x, n1, t)
  BY <1>4, <1>6, <1>7, ConditionalRight
<1> QED BY <1>8 DEF t

LEMMA TestBooleans ==
  ASSUME NEW x, NEW i \in Nibble, NEW f
  PROVE  Equality(x, i, f) \in BOOLEAN /\ Order(x, i, f) \in BOOLEAN
<1>1. Equality(x, i, f) \in BOOLEAN
  BY DEF Equality, is_equal_register, is_zero_register
<1>2. i \in Int /\ i <= 15
  BY DEF Nibble
<1>3. /\ \A a, b : is_less_register(a, b, f) \in BOOLEAN /\ is_greater_register(a, b, f) \in BOOLEAN
      /\ \A a, b : is_less_or_equal_register(a, b, f) \in BOOLEAN
      /\ \A a, b : is_greater_or_equal_register(a, b, f) \in BOOLEAN
  BY DEF is_less_register, is_greater_register, is_less_or_equal_register, is_greater_or_equal_register
<1>4. Order(x, i, f) \in BOOLEAN
  BY <1>2, <1>3 DEF Order
<1> QED BY <1>1, <1>4

LEMMA Group9 ==
  ASSUME NEW x, NEW n1 \in Instruction, IsMachine(x), ~x.stop, n1[0] = 9
  PROVE  Right(x, n1, decode_9(x, n1))
<1>1. n1[1] \in Nibble /\ n1[2] \in Nibble
  BY NibType
<1>2. disassemble(n1) = Near(n1, "yes", 3, 2, 3)
  BY DEF disassemble, TestText
<1>3. ~MovesStack(n1)
  BY DEF MovesStack
<1> DEFINE yes == IF n1[1] < 8 THEN Equality(x, n1[2], F(x, n1[1]))
                  ELSE Order(x, n1[2], F(x, n1[1] % 8))
<1>4. yes \in BOOLEAN
  BY <1>1, TestBooleans
<1>5. decode_9(x, n1) = GoYes(x, n1, 3, yes)
  BY DEF decode_9
<1> HIDE DEF yes
<1> QED BY <1>2, <1>3, <1>4, <1>5, GoYesRight

(* The field of an instruction. *)
LEMMA FieldOf ==
  ASSUME NEW x, NEW code \in 0 .. 18, IsMachine(x)
  PROVE  LET s == get_start(code, x.P)
             e == get_end(code, x.P)
         IN F(x, code) = Span(s, e) /\ Ends(s, e) /\ Spanned(F(x, code))
<1>1. x.P \in Nibble
  BY DEF IsMachine
<1> QED BY <1>1, FieldSpans DEF F

(* An instruction of the arithmetic groups: its number, its field, and which half
   of its group it is in. *)
Operation(i) == IF i[0] > 11 THEN i[1] ELSE i[2]
Code(i) == IF i[0] > 11 THEN A_FIELD ELSE i[1] % 8
Upper(i) == IF i[0] > 11 THEN i[0] \in {13, 15} ELSE i[1] > 7

LEMMA ArithmeticIs ==
  ASSUME NEW x, NEW n1 \in Instruction, IsMachine(x), n1[0] > 9
  PROVE  LET y == Advance(x, IF n1[0] < 12 THEN 3 ELSE 2)
             f == F(x, Code(n1))
             i == Operation(n1)
         IN step_instruction(x, n1) =
              IF n1[0] \in {10, 12} /\ ~Upper(n1) THEN Sums(y, i, f)
              ELSE IF n1[0] \in {10, 13} THEN Copies(y, i, f)
              ELSE IF n1[0] \in {11, 14} /\ ~Upper(n1) THEN Differences(y, i, f)
              ELSE Shifts(y, i, f)
<1>1. n1[0] \in 10 .. 15 /\ n1[1] \in 0 .. 15
  BY NibType DEF Nibble
<1>2. n1[1] < 8 => n1[1] % 8 = n1[1]
  BY <1>1
<1>3. ~(n1[1] < 8) <=> n1[1] > 7
  BY <1>1
<1> USE DEF Operation, Code, Upper
<1>4. CASE n1[0] = 10
  <2>1. step_instruction(x, n1) = decode_A(x, n1)
    BY <1>4 DEF step_instruction
  <2> QED BY <1>2, <1>3, <1>4, <2>1 DEF decode_A
<1>5. CASE n1[0] = 11
  <2>1. step_instruction(x, n1) = decode_B(x, n1)
    BY <1>5 DEF step_instruction
  <2> QED BY <1>2, <1>3, <1>5, <2>1 DEF decode_B
<1>6. CASE n1[0] = 12
  BY <1>6 DEF step_instruction, decode_C
<1>7. CASE n1[0] = 13
  BY <1>7 DEF step_instruction, decode_D
<1>8. CASE n1[0] = 14
  BY <1>8 DEF step_instruction, decode_E
<1>9. CASE n1[0] = 15
  BY <1>9 DEF step_instruction, decode_F
<1> QED BY <1>1, <1>4, <1>5, <1>6, <1>7, <1>8, <1>9

(* An arithmetic instruction works on the field it names, of one register, or
   of two if it exchanges them (emulate.c, decode_A() to decode_F()). *)
LEMMA ArithmeticWorks ==
  ASSUME NEW x, NEW n1 \in Instruction, IsMachine(x), n1[0] > 9
  PROVE  \E r1, r2 \in RegisterName :
           /\ WorksOn(step_instruction(x, n1), Advance(x, IF n1[0] < 12 THEN 3 ELSE 2),
                      F(x, Touches(n1).code), r1, r2)
           /\ ~Touches(n1).two => r1 = r2
<1> DEFINE code == Code(n1)
           i == Operation(n1)
           upper == Upper(n1)
           y == Advance(x, IF n1[0] < 12 THEN 3 ELSE 2)
           f == F(x, code)
           s == get_start(code, x.P)
           e == get_end(code, x.P)
           two == n1[0] \in {10, 13} /\ upper
           t == step_instruction(x, n1)
<1>1. Touches(n1).code = code /\ (Touches(n1).two <=> two)
  BY DEF Touches, Code, Upper
<1>2. code \in 0 .. 18 /\ i \in Nibble
  BY NibType DEF Code, Operation, A_FIELD, Nibble
<1>3. f = Span(s, e) /\ Ends(s, e) /\ Spanned(f)
  <2> HIDE DEF code
  <2> QED BY <1>2, FieldOf
<1>4. IsMachine(y)
  BY AdvanceType
<1>5. t = IF n1[0] \in {10, 12} /\ ~upper THEN Sums(y, i, f)
          ELSE IF n1[0] \in {10, 13} THEN Copies(y, i, f)
          ELSE IF n1[0] \in {11, 14} /\ ~upper THEN Differences(y, i, f)
          ELSE Shifts(y, i, f)
  BY ArithmeticIs
<1> HIDE DEF t, y, f, i, code, s, e, upper
<1>6. \E r1, r2 \in RegisterName : WorksOn(t, y, f, r1, r2) /\ (~two => r1 = r2)
  <2>1. CASE n1[0] \in {10, 12} /\ ~upper
    <3>1. \E r \in RegisterName : WorksOn(t, y, f, r, r)
      BY <1>2, <1>3, <1>4, <1>5, <2>1, SumsWork
    <3> QED BY <3>1
  <2>2. CASE n1[0] \in {10, 13} /\ ~(n1[0] \in {10, 12} /\ ~upper)
    <3>1. two
      <4>1. n1[0] = 13 => upper
        BY DEF upper, Upper
      <4> QED BY <4>1, <2>2
    <3>2. t = Copies(y, i, f)
      BY <1>5, <2>2
    <3>3. \E r1, r2 \in RegisterName : WorksOn(Copies(y, i, f), y, f, r1, r2)
      BY <1>2, <1>3, <1>4, CopiesWork
    <3> QED BY <3>1, <3>2, <3>3
  <2>3. CASE n1[0] \in {11, 14} /\ ~upper
    <3>1. t = Differences(y, i, f)
      BY <1>5, <2>3
    <3>2. \E r \in RegisterName : WorksOn(Differences(y, i, f), y, f, r, r)
      BY <1>2, <1>3, <1>4, DifferencesWork
    <3> QED BY <3>1, <3>2
  <2>4. CASE ~(n1[0] \in {10, 12} /\ ~upper) /\ n1[0] \notin {10, 13}
             /\ ~(n1[0] \in {11, 14} /\ ~upper)
    <3>1. t = Shifts(y, i, f)
      BY <1>5, <2>4
    <3>2. \E r \in RegisterName : WorksOn(Shifts(y, i, f), y, f, r, r)
      BY <1>2, <1>3, <1>4, ShiftsWork
    <3> QED BY <3>1, <3>2
  <2> QED BY <2>1, <2>2, <2>3, <2>4
<1>7. \E r1, r2 \in RegisterName :
         WorksOn(t, y, F(x, Touches(n1).code), r1, r2) /\ (~Touches(n1).two => r1 = r2)
  <2> HIDE DEF two
  <2> QED BY <1>1, <1>6 DEF f
<1> QED BY <1>7 DEF t, y

LEMMA GroupsAToF ==
  ASSUME NEW x, NEW n1 \in Instruction, IsMachine(x), ~x.stop, n1[0] > 9
  PROVE  Right(x, n1, step_instruction(x, n1))
<1> DEFINE t == step_instruction(x, n1)
           k == IF n1[0] < 12 THEN 3 ELSE 2
           f == F(x, Touches(n1).code)
<1>1. PICK r1 \in RegisterName, r2 \in RegisterName : WorksOn(t, Advance(x, k), f, r1, r2)
  BY ArithmeticWorks
<1> HIDE DEF t, f
<1>2. Behind(t, x, k)
  BY <1>1, WorksBehind
<1>3. n1[0] \in Nat /\ n1[0] <= 15
  BY NibType DEF Nibble
<1>4. disassemble(n1).goes = "on" /\ disassemble(n1).len = k /\ ~MovesStack(n1) /\ ~Cuts(n1, x)
  BY <1>3 DEF disassemble, ArithmeticText, Text, MovesStack, Cuts
<1>5. Right(x, n1, t)
  <2> DEFINE text == disassemble(n1)
  <2>1. text.goes = "on" /\ t.PC = x.PC + text.len
    BY <1>2, <1>4 DEF Behind
  <2> HIDE DEF text
  <2>2. text = disassemble(n1)
    BY DEF text
  <2> HIDE DEF k
  <2> QED BY <1>2, <1>4, <2>1, <2>2, BehindRight DEF Behind
<1> QED BY <1>5 DEF t

(* The instructions that go on behind themselves need only this. *)
LEMMA OnRight ==
  ASSUME NEW x, NEW n1, NEW t, NEW k, ~x.stop, ~MovesStack(n1), ~Cuts(n1, x),
         disassemble(n1) = Text(k), Behind(t, x, k)
  PROVE  Right(x, n1, t)
<1>1. Text(k).goes = "on" /\ Text(k).len = k
  BY DEF Text
<1> QED BY <1>1, BehindRight DEF Behind

LEMMA StillBehind ==
  ASSUME NEW y, NEW t, NEW x, NEW k, NEW names,
         Behind(y, x, k), IsMachine(t), Others(t, y, names),
         "PC" \notin names, "stk" \notin names, "stop" \notin names
  PROVE  Behind(t, x, k)
  BY DEF Behind, Kept, Others, FieldNames

LEMMA AdvanceBehind ==
  ASSUME NEW x, NEW k, IsMachine(x), k \in Nat
  PROVE  Behind(Advance(x, k), x, k) /\ IsMachine(Advance(x, k))
         /\ Others(Advance(x, k), x, {"PC"})
<1> DEFINE t == Advance(x, k)
<1>1. IsMachine(t) /\ Others(t, x, {"PC"}) /\ t.PC = x.PC + k
  BY AdvanceType
<1> HIDE DEF t
<1>2. Behind(t, x, k)
  BY <1>1 DEF Behind, Kept, Others, FieldNames
<1> QED BY <1>1, <1>2 DEF t

LEMMA SetBehind ==
  ASSUME NEW y, NEW x, NEW k, NEW r \in RegisterName, NEW v \in Register, Behind(y, x, k)
  PROVE  Behind(Set(y, r, v), x, k)
<1>1. IsMachine(Set(y, r, v)) /\ Others(Set(y, r, v), y, {"reg"})
  BY SetType DEF Behind, Kept
<1> QED BY <1>1, StillBehind

LEMMA CallBehind ==
  ASSUME NEW y, NEW x, NEW k, NEW name \in CallName, Behind(y, x, k)
  PROVE  Behind(Call(y, name), x, k)
<1>1. IsMachine(Call(y, name)) /\ Others(Call(y, name), y, {"call"})
  BY CallType DEF Behind, Kept
<1> QED BY <1>1, StillBehind

LEMMA PointerBehind ==
  ASSUME NEW y, NEW x, NEW k, NEW v \in Nibble, Behind(y, x, k)
  PROVE  Behind([y EXCEPT !.P = v], x, k)
<1> DEFINE t == [y EXCEPT !.P = v]
<1>1. IsMachine(y)
  BY DEF Behind, Kept
<1>2. IsMachine(t) /\ Others(t, y, {"P"})
  BY <1>1 DEF IsMachine, Others, FieldNames
<1> HIDE DEF t
<1>3. Behind(t, x, k)
  BY <1>2, StillBehind
<1> QED BY <1>3 DEF t

LEMMA StatusBehind ==
  ASSUME NEW y, NEW x, NEW k, NEW v \in SUBSET Nibble, Behind(y, x, k)
  PROVE  Behind([y EXCEPT !.ST = v], x, k)
<1> DEFINE t == [y EXCEPT !.ST = v]
<1>1. IsMachine(y)
  BY DEF Behind, Kept
<1>2. IsMachine(t) /\ Others(t, y, {"ST"})
  BY <1>1 DEF IsMachine, Others, FieldNames
<1> HIDE DEF t
<1>3. Behind(t, x, k)
  BY <1>2, StillBehind
<1> QED BY <1>3 DEF t

LEMMA AddressBehind ==
  ASSUME NEW y, NEW x, NEW k, NEW v \in Word, NEW d \in {"D0", "D1"}, Behind(y, x, k)
  PROVE  Behind([y EXCEPT ![d] = v], x, k)
<1> DEFINE t == [y EXCEPT ![d] = v]
<1>1. IsMachine(y)
  BY DEF Behind, Kept
<1>2. IsMachine(t) /\ Others(t, y, {"D0", "D1"})
  <2>1. CASE d = "D0"
    <3>1. t = [y EXCEPT !.D0 = v]
      BY <2>1
    <3>2. IsMachine([y EXCEPT !.D0 = v]) /\ Others([y EXCEPT !.D0 = v], y, {"D0", "D1"})
      BY <1>1 DEF IsMachine, Others, FieldNames
    <3> QED BY <3>1, <3>2
  <2>2. CASE d = "D1"
    <3>1. t = [y EXCEPT !.D1 = v]
      BY <2>2
    <3>2. IsMachine([y EXCEPT !.D1 = v]) /\ Others([y EXCEPT !.D1 = v], y, {"D0", "D1"})
      BY <1>1 DEF IsMachine, Others, FieldNames
    <3> QED BY <3>1, <3>2
  <2> QED BY <2>1, <2>2
<1> HIDE DEF t
<1>3. Behind(t, x, k)
  BY <1>2, StillBehind
<1> QED BY <1>3 DEF t

LEMMA RegisterUpdates ==
  ASSUME NEW r \in Register, NEW k \in Nibble, NEW v \in Nibble
  PROVE  [r EXCEPT ![k] = v] \in Register /\ r[k] \in Nibble
  BY DEF Register, Nibble

LEMMA ClearBehind ==
  ASSUME NEW y, NEW x, NEW k, NEW mask, Behind(y, x, k)
  PROVE  Behind(clear_hardware_stat(y, mask), x, k)
<1> DEFINE t == clear_hardware_stat(y, mask)
           S == HardwareBits(mask)
<1>1. IsMachine(y)
  BY DEF Behind, Kept
<1>2. S \subseteq {"XM", "SB", "SR", "MP"}
  BY DEF HardwareBits, Flags
<1>3. t = [g \in DOMAIN y |-> IF g \in S THEN 0 ELSE y[g]]
  BY DEF clear_hardware_stat
<1> HIDE DEF t, S
<1>4. DOMAIN y = FieldNames
  BY <1>1 DEF IsMachine, FieldNames
<1>5. t = [reg |-> y.reg, D0 |-> y.D0, D1 |-> y.D1, PC |-> y.PC, P |-> y.P,
           CARRY |-> y.CARRY, XM |-> IF "XM" \in S THEN 0 ELSE y.XM,
           SB |-> IF "SB" \in S THEN 0 ELSE y.SB, SR |-> IF "SR" \in S THEN 0 ELSE y.SR,
           MP |-> IF "MP" \in S THEN 0 ELSE y.MP, ST |-> y.ST, hexmode |-> y.hexmode,
           stk |-> y.stk, mem |-> y.mem, call |-> y.call, stop |-> y.stop]
  BY <1>2, <1>3, <1>4 DEF FieldNames
<1>6. IsMachine(t)
  BY <1>1, <1>5 DEF IsMachine
<1>7. Others(t, y, {"XM", "SB", "SR", "MP"})
  BY <1>2, <1>3, <1>4 DEF Others
<1> QED BY <1>6, <1>7, StillBehind DEF t

-----------------------------------------------------------------------------
(* 80: input and output, the bus, P and C. *)
LEMMA Group80 ==
  ASSUME NEW x, NEW n1 \in Instruction, IsMachine(x), n1[2] # 8
  PROVE  Behind(decode_group_80(x, n1), x, IF n1[2] \in {12, 13, 15} THEN 4 ELSE 3)
<1> DEFINE i == n1[2]
           t == decode_group_80(x, n1)
           y3 == Advance(x, 3)
           y4 == Advance(x, 4)
           C == x.reg["C"]
           k == Nib(n1, 3)
<1>1. i \in 0 .. 15 /\ k \in Nibble /\ i # 8
  BY NibType DEF Nibble
<1>2. Behind(y3, x, 3) /\ Behind(y4, x, 4) /\ Others(y3, x, {"PC"}) /\ Others(y4, x, {"PC"})
  BY AdvanceBehind
<1>3. /\ \A q \in RegisterName : x.reg[q] \in Register
      /\ x.P \in Nibble /\ C \in Register
  BY DEF IsMachine, RegisterName
<1>4. {"A", "C", "IN", "OUT"} \subseteq RegisterName
  BY DEF RegisterName
<1>5. KeysIn \in Register
  BY CpuAssumption
<1>6. ASSUME NEW code \in {IN_FIELD, OUT_FIELD, OUTS_FIELD}, NEW r \in Register, NEW d \in Register
      PROVE  On(r, F(x, code), d) \in Register
  <2>1. code \in 0 .. 18
    BY DEF IN_FIELD, OUT_FIELD, OUTS_FIELD
  <2> DEFINE f == F(x, code)
  <2>2. Spanned(f)
    BY <2>1, FieldOf
  <2> HIDE DEF f
  <2>3. \A j \in In(f) : d[j] \in Nibble
    BY <2>2 DEF Spanned, Ends, In, Register
  <2>4. On(r, f, d) \in Register
    BY <2>3, OnType
  <2> QED BY <2>4 DEF f
<1> HIDE DEF y3, y4, C, k
<1>7. CASE i \in {0, 1}
  <2>1. \E v \in Register : t = Set(y3, "OUT", v)
    <3>1. t = Set(y3, "OUT", On(x.reg["OUT"], F(x, OUTS_FIELD), C))
          \/ t = Set(y3, "OUT", On(x.reg["OUT"], F(x, OUT_FIELD), C))
      BY <1>7 DEF decode_group_80, y3, C
    <3> QED BY <1>3, <1>4, <1>6, <3>1
  <2> HIDE DEF t
  <2>2. Behind(t, x, 3)
    BY <1>2, <1>4, <2>1, SetBehind
  <2> QED BY <1>7, <2>2 DEF t
<1>8. CASE i \in {2, 3}
  <2>1. PICK r \in {"A", "C"} :
          t = Call(Set(Set(y3, "IN", KeysIn), r, On(x.reg[r], F(x, IN_FIELD), KeysIn)), "doIn")
    BY <1>8 DEF decode_group_80, y3
  <2> DEFINE v == On(x.reg[r], F(x, IN_FIELD), KeysIn)
             y == Set(y3, "IN", KeysIn)
  <2>2. v \in Register
    BY <1>3, <1>4, <1>5, <1>6
  <2> HIDE DEF v
  <2>3. Behind(y, x, 3)
    BY <1>2, <1>4, <1>5, SetBehind
  <2> HIDE DEF y
  <2>4. Behind(Set(y, r, v), x, 3)
    BY <1>4, <2>2, <2>3, SetBehind
  <2>5. t = Call(Set(y, r, v), "doIn")
    BY <2>1 DEF y, v
  <2> HIDE DEF t
  <2>6. Behind(t, x, 3)
    <3>1. "doIn" \in CallName
      BY DEF CallName
    <3> QED BY <2>4, <2>5, <3>1, CallBehind
  <2> QED BY <1>8, <2>6 DEF t
<1>9. CASE i \in {4, 5, 7, 10}
  <2> DEFINE name == IF i = 4 THEN "doUnconfigure" ELSE IF i = 5 THEN "doConfigure"
                     ELSE IF i = 7 THEN "doShutdown" ELSE "doReset"
  <2>1. t = Call(y3, name)
    BY <1>9 DEF decode_group_80, y3
  <2>3. name \in CallName
    BY DEF CallName
  <2> HIDE DEF t, name
  <2>2. Behind(t, x, 3)
    BY <1>2, <2>1, <2>3, CallBehind
  <2> QED BY <1>9, <2>2 DEF t
<1>10. CASE i = 6
  <2> DEFINE v == [j \in 0 .. 15 |-> IF j < 3 THEN ChipId[j] ELSE C[j]]
  <2>1. t = Call(Set(y3, "C", v), "identify")
    BY <1>10 DEF decode_group_80, y3, C
  <2>2. v \in Register
    <3>1. \A j \in 0 .. 2 : ChipId[j] \in Nibble
      BY CpuAssumption
    <3> QED BY <1>3, <3>1 DEF Register
  <2> HIDE DEF v, t
  <2>3. Behind(Set(y3, "C", v), x, 3)
    BY <1>2, <1>4, <2>2, SetBehind
  <2>4. Behind(t, x, 3)
    <3>1. "identify" \in CallName
      BY DEF CallName
    <3> QED BY <2>1, <2>3, <3>1, CallBehind
  <2> QED BY <1>10, <2>4 DEF t
<1>11. CASE i = 9
  <2> DEFINE v == add_p_plus_one(C, x.P)
             f == Field(A_FIELD, x.P)
  <2>1. t = SetCarry(y3, "C", v)
    BY <1>11 DEF decode_group_80, y3, C
  <2>2. IsResult(v, C, f)
    <3>1. A_FIELD \in 0 .. 18 /\ x.P + 1 \in Nat
      BY <1>3 DEF A_FIELD, Nibble
    <3>2. Spanned(f)
      BY <1>3, <3>1, FieldSpans
    <3>3. v = add_register_constant(C, f, x.P + 1)
      BY DEF add_p_plus_one, add_register_constant
    <3> HIDE DEF v, f
    <3>4. 16 \in Nat
      OBVIOUS
    <3> QED BY <1>3, <3>1, <3>2, <3>3, <3>4, ResultTypes
  <2>3. y3.reg["C"] = C /\ IsMachine(y3)
    BY <1>2 DEF Others, FieldNames, C, Behind, Kept
  <2> HIDE DEF v, f, t
  <2>4. IsMachine(t) /\ Others(t, y3, {"reg", "CARRY"})
    BY <1>4, <2>1, <2>2, <2>3, SetCarryType
  <2>5. Behind(t, x, 3)
    BY <1>2, <2>4, StillBehind
  <2> QED BY <1>11, <2>5 DEF t
<1>12. CASE i = 11
  <2>1. t = y3
    BY <1>12 DEF decode_group_80, y3
  <2> QED BY <1>2, <1>12, <2>1
<1>13. CASE i \in {12, 13, 15}
  <2> DEFINE v == [C EXCEPT ![k] = x.P]
             p == C[k]
  <2>1. v \in Register /\ p \in Nibble
    BY <1>1, <1>3, RegisterUpdates
  <2>2. \/ t = Set(y4, "C", v)
        \/ t = [y4 EXCEPT !.P = p]
        \/ t = [Set(y4, "C", v) EXCEPT !.P = p]
    <3>1. CASE i = 12
      BY <3>1 DEF decode_group_80, y4, C, k
    <3>2. CASE i = 13
      BY <3>2 DEF decode_group_80, y4, C, k
    <3>3. CASE i = 15
      BY <3>3 DEF decode_group_80, y4, C, k
    <3> QED BY <1>13, <3>1, <3>2, <3>3
  <2> HIDE DEF v, p, t
  <2>3. Behind(Set(y4, "C", v), x, 4)
    BY <1>2, <1>4, <2>1, SetBehind
  <2>4. Behind([y4 EXCEPT !.P = p], x, 4)
    BY <1>2, <2>1, PointerBehind
  <2>5. Behind([Set(y4, "C", v) EXCEPT !.P = p], x, 4)
    BY <2>1, <2>3, PointerBehind
  <2>6. Behind(t, x, 4)
    BY <2>2, <2>3, <2>4, <2>5
  <2> QED BY <1>13, <2>6 DEF t
<1>14. CASE i = 14
  <2> DEFINE v == [C EXCEPT ![0] = 0]
             y == Set(y3, "C", v)
  <2>1. t = [y EXCEPT !.SR = 0]
    BY <1>14 DEF decode_group_80, y3, C
  <2>2. v \in Register
    <3>1. 0 \in Nibble
      BY DEF Nibble
    <3> QED BY <1>3, <3>1, RegisterUpdates
  <2> HIDE DEF v, t
  <2>3. Behind(y, x, 3)
    BY <1>2, <1>4, <2>2, SetBehind
  <2> HIDE DEF y
  <2>4. IsMachine([y EXCEPT !.SR = 0]) /\ Others([y EXCEPT !.SR = 0], y, {"SR"})
    BY <2>3 DEF Behind, Kept, IsMachine, Others, FieldNames
  <2>5. Behind(t, x, 3)
    BY <2>1, <2>3, <2>4, StillBehind
  <2> QED BY <1>14, <2>5 DEF t
<1> HIDE DEF t
<1>15. \/ i \in {0, 1} \/ i \in {2, 3} \/ i \in {4, 5, 7, 10} \/ i = 6 \/ i = 9 \/ i = 11
       \/ i \in {12, 13, 15} \/ i = 14
  BY <1>1
<1> QED BY <1>7, <1>8, <1>9, <1>10, <1>11, <1>12, <1>13, <1>14, <1>15

-----------------------------------------------------------------------------
(* More updates the groups share. *)

LEMMA CopyType ==
  ASSUME NEW r \in Register, NEW d \in Register, NEW f, Spanned(f)
  PROVE  On(r, f, d) \in Register
<1>1. \A j \in In(f) : d[j] \in Nibble
  BY DEF Spanned, Ends, In, Register
<1> QED BY <1>1, OnType

LEMMA ExchangeBehind ==
  ASSUME NEW y, NEW x, NEW k, NEW r1 \in RegisterName, NEW r2 \in RegisterName, NEW f,
         Behind(y, x, k), Spanned(f)
  PROVE  Behind(Exchange(y, r1, r2, f), x, k)
<1>1. IsMachine(Exchange(y, r1, r2, f)) /\ Others(Exchange(y, r1, r2, f), y, {"reg"})
  BY ExchangeType DEF Behind, Kept
<1> QED BY <1>1, StillBehind

LEMMA SBBehind ==
  ASSUME NEW y, NEW x, NEW k, NEW lost, Behind(y, x, k)
  PROVE  Behind(SetSB(y, lost), x, k)
<1>1. IsMachine(SetSB(y, lost)) /\ Others(SetSB(y, lost), y, {"SB"})
  BY SBType DEF Behind, Kept
<1> QED BY <1>1, StillBehind

LEMMA SetCarryBehind ==
  ASSUME NEW y, NEW x, NEW k, NEW r \in RegisterName, NEW v, NEW f,
         Behind(y, x, k), IsResult(v, y.reg[r], f)
  PROVE  Behind(SetCarry(y, r, v), x, k)
<1>1. IsMachine(SetCarry(y, r, v)) /\ Others(SetCarry(y, r, v), y, {"reg", "CARRY"})
  BY SetCarryType DEF Behind, Kept
<1> QED BY <1>1, StillBehind

(* The constant is loaded before PC goes on. *)
LEMMA LoadBehind ==
  ASSUME NEW x, NEW n1 \in Instruction, NEW r \in RegisterName, NEW k \in Nibble, NEW at \in Nat,
         NEW j \in Nat, IsMachine(x)
  PROVE  Behind(Advance(load_constant(x, r, k + 1, n1, at), j), x, j)
<1> DEFINE v == [q \in 0 .. 15 |->
                   IF ((q - x.P) % 16) < k + 1 THEN Nib(n1, at + ((q - x.P) % 16)) ELSE x.reg[r][q]]
           y == Set(x, r, v)
           t == Advance(y, j)
<1>1. v \in Register
  <2>1. ASSUME NEW q \in 0 .. 15 PROVE Nib(n1, at + ((q - x.P) % 16)) \in Nibble
    <3>1. at + ((q - x.P) % 16) \in Int
      BY DEF IsMachine, Nibble
    <3> QED BY <3>1, NibType
  <2>2. \A q \in 0 .. 15 : x.reg[r][q] \in Nibble
    BY DEF IsMachine, Register
  <2> QED BY <2>1, <2>2 DEF Register
<1>2. load_constant(x, r, k + 1, n1, at) = y
  BY DEF load_constant
<1> HIDE DEF v
<1>3. IsMachine(y) /\ Others(y, x, {"reg"})
  BY <1>1, SetType
<1> HIDE DEF y
<1>4. IsMachine(t) /\ Others(t, y, {"PC"}) /\ t.PC = y.PC + j
  BY <1>3, AdvanceType
<1> HIDE DEF t
<1>5. Behind(t, x, j)
  BY <1>3, <1>4 DEF Behind, Kept, Others, FieldNames
<1> QED BY <1>2, <1>5 DEF t

LEMMA JumpKept ==
  ASSUME NEW y, NEW x, NEW k, NEW a \in Nat, Behind(y, x, k)
  PROVE  Kept([y EXCEPT !.PC = a], x)
<1> DEFINE t == [y EXCEPT !.PC = a]
<1>1. IsMachine(y)
  BY DEF Behind, Kept
<1>2. IsMachine(t) /\ Others(t, y, {"PC"})
  BY <1>1 DEF IsMachine, Others, FieldNames
<1> HIDE DEF t
<1>3. Kept(t, x)
  BY <1>2 DEF Behind, Kept, Others, FieldNames
<1> QED BY <1>3 DEF t

LEMMA BitType ==
  ASSUME NEW r \in Register, NEW b \in Nibble, NEW on
  PROVE  WithBit(r, b, on) \in Register /\ BitOf(r, b) \in BOOLEAN
<1>1. b \div 4 \in 0 .. 15
  BY DEF Nibble
<1> DEFINE q == b \div 4
           v == OfBits(IF on THEN Bits(r[q]) \cup {b % 4} ELSE Bits(r[q]) \ {b % 4})
<1>2. v \in Nibble
  BY OfBitsType
<1>3. WithBit(r, b, on) = [r EXCEPT ![q] = v]
  BY DEF WithBit, Register
<1> HIDE DEF v, q
<1>4. [r EXCEPT ![q] = v] \in Register
  BY <1>2 DEF Register
<1> QED BY <1>3, <1>4 DEF BitOf

LEMMA WithAddressType ==
  ASSUME NEW r \in Register, NEW a \in Nat
  PROVE  WithAddress(r, a) \in Register
<1>1. \A i \in 0 .. 4 : Digit(a, i) \in Nibble
  BY DigitType
<1> QED BY <1>1 DEF WithAddress, Register

LEMMA ReadType ==
  ASSUME NEW x, NEW a \in Int, IsMachine(x)
  PROVE  Read(x, a) \in Nibble
<1> DEFINE at == a % Memory
<1>1. at \in Word
  BY WordBounds
<1> HIDE DEF at
<1>2. CASE at \in DOMAIN x.mem
  BY <1>2 DEF IsMachine, Read, at
<1>3. CASE at \notin DOMAIN x.mem
  BY <1>1, <1>3, CpuAssumption DEF Read, at
<1> QED BY <1>2, <1>3

-----------------------------------------------------------------------------
(* 808: interrupts, constants for A, single bits of A and C. *)
LEMMA Group808 ==
  ASSUME NEW x, NEW n1 \in Instruction, IsMachine(x), ~x.stop,
         n1[0] = 8, n1[1] = 0, n1[2] = 8
  PROVE  Right(x, n1, decode_808(x, n1))
<1> DEFINE i == n1[3]
           k == Nib(n1, 4)
           r == AorC(i)
           t == decode_808(x, n1)
           y4 == Advance(x, 4)
           y5 == Advance(x, 5)
<1>1. i \in 0 .. 15 /\ i \in Nibble /\ k \in Nibble /\ k = read_nibble(n1, 4) /\ k = n1[4]
  BY NibType DEF Nibble
<1>2. Behind(y4, x, 4) /\ Behind(y5, x, 5)
  BY AdvanceBehind
<1>3. disassemble(n1) = disasm_808(n1) /\ ~MovesStack(n1) /\ ~Cuts(n1, x)
  BY DEF disassemble, disasm_8, MovesStack, Cuts
<1>4. r \in RegisterName /\ \A q \in RegisterName : x.reg[q] \in Register
  BY <1>1, OperandTypes DEF IsMachine
<1>5. {"A", "C"} \subseteq RegisterName
  BY DEF RegisterName
<1> HIDE DEF k, y4, y5, r
<1>6. CASE i \in {0, 3, 13, 15}
  <2>1. disassemble(n1) = Text(4)
    BY <1>3, <1>6 DEF disasm_808
  <2>2. t = y4 \/ t = Call(y4, "doInton") \/ t = Call(y4, "doIntoff")
    BY <1>6 DEF decode_808, y4
  <2>3. "doInton" \in CallName /\ "doIntoff" \in CallName
    BY DEF CallName
  <2> HIDE DEF t
  <2>4. Behind(t, x, 4)
    BY <1>2, <2>2, <2>3, CallBehind
  <2>5. Right(x, n1, t)
    BY <1>3, <2>1, <2>4, OnRight
  <2> QED BY <2>5 DEF t
<1>7. CASE i = 1
  <2>1. disassemble(n1) = IF k = 0 THEN Text(5) ELSE Nothing(5)
    BY <1>1, <1>3, <1>7 DEF disasm_808
  <2>2. t = Call(y5, "doResetInterruptSystem")
    BY <1>7 DEF decode_808, y5
  <2>3. "doResetInterruptSystem" \in CallName
    BY DEF CallName
  <2> HIDE DEF t
  <2>4. Behind(t, x, 5)
    BY <1>2, <2>2, <2>3, CallBehind
  <2>5. CASE k = 0
    <3>1. Right(x, n1, t)
      BY <1>3, <2>1, <2>4, <2>5, OnRight
    <3> QED BY <3>1 DEF t
  <2>6. CASE k # 0
    <3>1. Misread(n1)
      BY <1>1, <1>7, <2>6 DEF Misread
    <3>2. disassemble(n1).goes = "nothing"
      BY <2>1, <2>6 DEF Nothing, Text
    <3>3. Right(x, n1, t)
      BY <1>3, <2>4, <3>1, <3>2, IllegalRight DEF Behind, Kept
    <3> QED BY <3>3 DEF t
  <2> QED BY <2>5, <2>6
<1>8. CASE i = 2
  <2>1. disassemble(n1) = Text(6 + k)
    BY <1>1, <1>3, <1>8 DEF disasm_808
  <2>2. t = Advance(load_constant(x, "A", k + 1, n1, 5), 6 + k)
    BY <1>8 DEF decode_808, k
  <2>3. 6 + k \in Nat
    BY <1>1 DEF Nibble
  <2> HIDE DEF t
  <2>4. Behind(t, x, 6 + k)
    BY <1>1, <1>5, <2>2, <2>3, LoadBehind
  <2>5. Right(x, n1, t)
    BY <1>3, <2>1, <2>4, OnRight
  <2> QED BY <2>5 DEF t
<1>9. CASE i \in {4, 5, 8, 9}
  <2> DEFINE v == WithBit(x.reg[r], k, (i % 2) = 1)
  <2>1. disassemble(n1) = Text(5)
    BY <1>3, <1>9 DEF disasm_808
  <2>2. t = Set(y5, r, v)
    BY <1>9 DEF decode_808, y5, k, r
  <2>3. v \in Register
    BY <1>1, <1>4, BitType
  <2> HIDE DEF t, v
  <2>4. Behind(t, x, 5)
    BY <1>2, <1>4, <2>2, <2>3, SetBehind
  <2>5. Right(x, n1, t)
    BY <1>3, <2>1, <2>4, OnRight
  <2> QED BY <2>5 DEF t
<1>10. CASE i \in {6, 7, 10, 11}
  <2> DEFINE yes == BitOf(x.reg[r], k) <=> (i % 2) = 1
  <2>1. disassemble(n1) = Near(n1, "yes", 5, 2, 5)
    BY <1>3, <1>10 DEF disasm_808
  <2>2. t = GoYes(x, n1, 5, yes)
    BY <1>10 DEF decode_808, k, r
  <2>3. yes \in BOOLEAN
    OBVIOUS
  <2> HIDE DEF t, yes
  <2>4. Right(x, n1, t)
    BY <1>3, <2>1, <2>2, <2>3, GoYesRight
  <2> QED BY <2>4 DEF t
<1>11. CASE i \in {12, 14}
  <2> DEFINE q == IF i = 12 THEN "A" ELSE "C"
             a == AddressIn(x.reg[q])
             w == [j \in 0 .. 4 |-> Read(x, a + j)]
             b == Num(w, 0, 5)
  <2>1. disassemble(n1).goes = "indirect"
    BY <1>3, <1>11 DEF disasm_808, Going, Text
  <2>2. t = [x EXCEPT !.PC = b]
    BY <1>11 DEF decode_808
  <2>3. q \in RegisterName
    BY <1>5
  <2>4. a \in Nat
    <3> HIDE DEF q
    <3> QED BY <1>4, <2>3, AddressType, WordBounds
  <2> HIDE DEF a
  <2>5. DOMAIN w = 0 .. 4 /\ \A j \in 0 .. 4 : w[j] \in Nibble
    BY <2>4, ReadType
  <2> HIDE DEF w
  <2>6. Naturals(w)
    BY <2>5 DEF Naturals, Nib, Nibble
  <2>7. b \in Nat
    BY <2>6, NumType
  <2> HIDE DEF b, t
  <2>9. IsMachine([x EXCEPT !.PC = b]) /\ Others([x EXCEPT !.PC = b], x, {"PC"})
    BY <2>7 DEF IsMachine, Others, FieldNames
  <2>10. Kept(t, x)
    BY <2>2, <2>9 DEF Kept, Others, FieldNames
  <2>11. Right(x, n1, t)
    BY <1>3, <2>1, <2>10, IndirectRight
  <2> QED BY <2>11 DEF t
<1> HIDE DEF t
<1>12. \/ i \in {0, 3, 13, 15} \/ i = 1 \/ i = 2 \/ i \in {4, 5, 8, 9} \/ i \in {6, 7, 10, 11}
       \/ i \in {12, 14}
  BY <1>1
<1> QED BY <1>6, <1>7, <1>8, <1>9, <1>10, <1>11, <1>12

-----------------------------------------------------------------------------
(* 10, 11, 12 and 81A: between A or C and the scratch registers. *)
LEMMA ScratchBehind ==
  ASSUME NEW y, NEW x, NEW k, NEW what \in 0 .. 2, NEW i \in Nibble, NEW f,
         Behind(y, x, k), Spanned(f)
  PROVE  Behind(ScratchGroup(y, what, i, f), x, k)
<1> DEFINE r == R(i)
           a == AorC(i)
           t == ScratchGroup(y, what, i, f)
<1>1. r \in RegisterName /\ a \in RegisterName
  BY OperandTypes
<1>2. \A q \in RegisterName : y.reg[q] \in Register
  BY DEF Behind, Kept, IsMachine
<1> DEFINE v == On(y.reg[r], f, y.reg[a])
           w == On(y.reg[a], f, y.reg[r])
<1>3. v \in Register /\ w \in Register
  <2> HIDE DEF r, a
  <2> QED BY <1>1, <1>2, CopyType
<1>4. t = Set(y, r, v) \/ t = Set(y, a, w) \/ t = Exchange(y, a, r, f)
  <2>1. what = 0 \/ what = 1 \/ what = 2
    OBVIOUS
  <2> QED BY <2>1 DEF ScratchGroup
<1> HIDE DEF r, a, v, w, t
<1>5. Behind(t, x, k)
  BY <1>1, <1>3, <1>4, SetBehind, ExchangeBehind
<1> QED BY <1>5 DEF t

(* The shifts by one bit. *)
LEMMA ShiftBitBehind ==
  ASSUME NEW y, NEW x, NEW k, NEW r \in RegisterName, NEW s, NEW e,
         Behind(y, x, k), Ends(s, e)
  PROVE  Behind(ShiftBit(y, r, Span(s, e)), x, k)
<1> DEFINE f == Span(s, e)
           v == shift_right_bit_register(y.reg[r], f)
           t == ShiftBit(y, r, f)
<1>1. y.reg[r] \in Register
  BY DEF Behind, Kept, IsMachine
<1>2. v \in Register
  BY <1>1, FieldTypes DEF IsField
<1>3. t = SetSB(Set(y, r, v), y.reg[r][f.s] % 2 = 1)
  BY DEF ShiftBit
<1> HIDE DEF v, f, t
<1>4. Behind(t, x, k)
  BY <1>2, <1>3, SetBehind, SBBehind
<1> QED BY <1>4 DEF t, f

(* 818: a constant is added to a field or subtracted from it. *)
LEMMA ConstantBehind ==
  ASSUME NEW x, NEW n1 \in Instruction, IsMachine(x)
  PROVE  Behind(ConstantGroup(x, n1), x, 6)
<1> DEFINE r == Alu(Nib(n1, 4))
           f == F(x, Nib(n1, 3))
           val == Nib(n1, 5) + 1
           y == Advance(x, 6)
           v == IF Nib(n1, 4) < 8 THEN add_register_constant(x.reg[r], f, val)
                ELSE sub_register_constant(x.reg[r], f, val)
           t == ConstantGroup(x, n1)
<1>1. Nib(n1, 3) \in 0 .. 18 /\ Nib(n1, 4) \in Nibble /\ val \in Nat
  BY NibType DEF Nibble
<1>2. r \in RegisterName /\ Spanned(f)
  BY <1>1, OperandTypes, FieldOf
<1>3. Behind(y, x, 6) /\ Others(y, x, {"PC"})
  BY AdvanceBehind
<1>4. t = SetCarry(y, r, v)
  BY DEF ConstantGroup
<1>5. IsResult(v, x.reg[r], f)
  <2> HIDE DEF r, f, val
  <2>1. x.reg[r] \in Register /\ 16 \in Nat
    BY <1>2 DEF IsMachine
  <2> QED BY <1>1, <1>2, <2>1, ResultTypes
<1> HIDE DEF y, v, t, r, f
<1>6. y.reg = x.reg
  BY <1>3 DEF Others, FieldNames
<1>7. Behind(t, x, 6)
  BY <1>2, <1>3, <1>4, <1>5, <1>6, SetCarryBehind
<1> QED BY <1>7 DEF t

(* 81B: PC and the address in A or C. *)
LEMMA GroupProgramCounter ==
  ASSUME NEW x, NEW n1 \in Instruction, IsMachine(x), ~x.stop,
         n1[0] = 8, n1[1] = 1, n1[2] = 11
  PROVE  Right(x, n1, ProgramCounterGroup(x, Nib(n1, 3)))
<1> DEFINE i == Nib(n1, 3)
           r == IF i % 2 = 0 THEN "A" ELSE "C"
           a == AddressIn(x.reg[r])
           y == Advance(x, 4)
           v == WithAddress(x.reg[r], y.PC)
           saved == Set(y, r, v)
           t == ProgramCounterGroup(x, i)
           text == disassemble(n1)
<1>1. i \in 0 .. 15 /\ i = read_nibble(n1, 3)
  BY NibType DEF Nibble
<1>2. text = ProgramCounterText(i) /\ ~MovesStack(n1) /\ ~Cuts(n1, x)
  BY <1>1 DEF disassemble, disasm_8, disasm_81, MovesStack, Cuts
<1>3. r \in RegisterName /\ \A q \in RegisterName : x.reg[q] \in Register
  BY DEF RegisterName, IsMachine
<1>4. Behind(y, x, 4) /\ IsMachine(y)
  BY AdvanceBehind
<1>5. a \in Nat
  <2> HIDE DEF r
  <2> QED BY <1>3, AddressType, WordBounds
<1>6. v \in Register
  <2> HIDE DEF r, y
  <2>1. y.PC \in Nat /\ x.reg[r] \in Register
    BY <1>3, <1>4 DEF IsMachine
  <2> QED BY <2>1, WithAddressType
<1>7. text = disassemble(n1)
  OBVIOUS
<1>8. /\ i \in {2, 3} => t = [x EXCEPT !.PC = a]
      /\ i \in {4, 5} => t = saved
      /\ i \in {6, 7} => t = [saved EXCEPT !.PC = a]
      /\ i \notin 2 .. 7 => t = Illegal(x)
  <2>1. CASE i \in {2, 3}
    BY <2>1 DEF ProgramCounterGroup
  <2>2. CASE i \in {4, 5}
    BY <2>2 DEF ProgramCounterGroup
  <2>3. CASE i \in {6, 7}
    BY <2>3 DEF ProgramCounterGroup
  <2>4. CASE i \notin 2 .. 7
    BY <2>4 DEF ProgramCounterGroup
  <2> HIDE DEF i, t, a, saved
  <2> QED BY <1>1, <2>1, <2>2, <2>3, <2>4
<1>9. /\ i \in {2, 3, 6, 7} => text.goes = "indirect"
      /\ i \in {4, 5} => text = Text(4)
      /\ i \notin 2 .. 7 => text.goes = "nothing"
  <2> HIDE DEF i, text
  <2> QED BY <1>1, <1>2 DEF ProgramCounterText, Going, Text, Nothing
<1> HIDE DEF i, text, t, a, v, r, y
<1>10. Behind(saved, x, 4)
  BY <1>3, <1>4, <1>6, SetBehind
<1> HIDE DEF saved
<1>11. CASE i \in {2, 3}
  <2>1. IsMachine([x EXCEPT !.PC = a]) /\ Others([x EXCEPT !.PC = a], x, {"PC"})
    BY <1>5 DEF IsMachine, Others, FieldNames
  <2>2. Kept(t, x)
    BY <1>8, <1>11, <2>1 DEF Kept, Others, FieldNames
  <2>3. Right(x, n1, t)
    BY <1>2, <1>7, <1>9, <1>11, <2>2, IndirectRight
  <2> QED BY <2>3 DEF t, i
<1>12. CASE i \in {4, 5}
  <2>1. Right(x, n1, t)
    BY <1>2, <1>7, <1>8, <1>9, <1>10, <1>12, OnRight
  <2> QED BY <2>1 DEF t, i
<1>13. CASE i \in {6, 7}
  <2>1. Kept(t, x)
    BY <1>5, <1>8, <1>10, <1>13, JumpKept
  <2>2. Right(x, n1, t)
    BY <1>2, <1>7, <1>9, <1>13, <2>1, IndirectRight
  <2> QED BY <2>2 DEF t, i
<1>14. CASE i \notin 2 .. 7
  <2>1. IsMachine(t) /\ Others(t, x, {"stop"}) /\ t.stop = TRUE
    BY <1>8, <1>14, IllegalType
  <2>2. t.stk = x.stk
    BY <2>1 DEF Others, FieldNames
  <2>3. Right(x, n1, t)
    BY <1>2, <1>7, <1>9, <1>14, <2>1, <2>2, IllegalRight
  <2> QED BY <2>3 DEF t, i
<1> QED BY <1>1, <1>11, <1>12, <1>13, <1>14

(* 81: the shifts, constants, the scratch registers by fields, PC. *)
LEMMA Group81 ==
  ASSUME NEW x, NEW n1 \in Instruction, IsMachine(x), ~x.stop, n1[0] = 8, n1[1] = 1
  PROVE  Right(x, n1, decode_81(x, n1))
<1> DEFINE i == n1[2]
           t == decode_81(x, n1)
           y == Advance(x, 3)
           r == Alu(i)
           s == get_start(W_FIELD, x.P)
           e == get_end(W_FIELD, x.P)
           w == Span(s, e)
           v == x.reg[r]
           text == disassemble(n1)
<1>1. /\ i \in 0 .. 15 /\ i \in Nibble
      /\ \A j \in 3 .. 5 : Nib(n1, j) \in Nibble /\ Nib(n1, j) = n1[j] /\ read_nibble(n1, j) = n1[j]
  BY NibType DEF Nibble
<1>2. text = disasm_81(n1) /\ ~MovesStack(n1) /\ ~Cuts(n1, x) /\ text = disassemble(n1)
  BY DEF disassemble, disasm_8, MovesStack, Cuts
<1>3. Behind(y, x, 3) /\ Behind(Advance(x, 5), x, 5) /\ Behind(Advance(x, 6), x, 6)
      /\ Others(y, x, {"PC"})
  BY AdvanceBehind
<1>4. F(x, W_FIELD) = w /\ Ends(s, e) /\ Spanned(w)
  <2>1. W_FIELD \in 0 .. 18
    BY DEF W_FIELD
  <2> QED BY <2>1, FieldOf
<1>5. r \in RegisterName /\ v \in Register
  <2>1. r \in RegisterName
    BY <1>1, OperandTypes
  <2> QED BY <2>1 DEF IsMachine
<1>6. y.reg = x.reg
  <2> HIDE DEF y
  <2> QED BY <1>3 DEF Others, FieldNames
<1> HIDE DEF y, s, e, text
<1>7. CASE i < 4
  <2>1. t = Set(y, r, shift_left_circ_register(v, w))
    BY <1>1, <1>4, <1>7 DEF decode_81, y
  <2>2. text = Text(3)
    BY <1>1, <1>2, <1>7 DEF disasm_81
  <2> HIDE DEF r, v, t
  <2>3. IsField(shift_left_circ_register(v, w), v, w)
    BY <1>4, <1>5, FieldTypes
  <2> HIDE DEF w
  <2>4. Behind(t, x, 3)
    BY <1>3, <1>5, <2>1, <2>3, SetBehind DEF IsField
  <2>5. Right(x, n1, t)
    BY <1>2, <2>2, <2>4, OnRight
  <2> QED BY <2>5 DEF t
<1>8. CASE i \in 4 .. 7
  <2>1. t = SetSB(Set(y, r, shift_right_circ_register(v, w)), v[0] # 0)
    BY <1>4, <1>8 DEF decode_81, y
  <2>2. text = Text(3)
    BY <1>2, <1>8 DEF disasm_81
  <2> HIDE DEF r, v, t
  <2>3. IsField(shift_right_circ_register(v, w), v, w)
    BY <1>4, <1>5, FieldTypes
  <2> HIDE DEF w
  <2>4. Behind(Set(y, r, shift_right_circ_register(v, w)), x, 3)
    BY <1>3, <1>5, <2>3, SetBehind DEF IsField
  <2>5. Behind(t, x, 3)
    BY <2>1, <2>4, SBBehind
  <2>6. Right(x, n1, t)
    BY <1>2, <2>2, <2>5, OnRight
  <2> QED BY <2>6 DEF t
<1>9. CASE i = 8
  <2>1. t = ConstantGroup(x, n1)
    BY <1>9 DEF decode_81
  <2>2. text = Text(6)
    BY <1>2, <1>9 DEF disasm_81
  <2> HIDE DEF t
  <2>3. Right(x, n1, t)
    BY <1>2, <2>1, <2>2, ConstantBehind, OnRight
  <2> QED BY <2>3 DEF t
<1>10. CASE i = 9
  <2> DEFINE code == Nib(n1, 3)
             c == Alu(Nib(n1, 4))
             z == Advance(x, 5)
             s1 == get_start(code, x.P)
             e1 == get_end(code, x.P)
  <2>1. t = ShiftBit(z, c, F(x, code))
    BY <1>10 DEF decode_81
  <2>2. text.goes = "on"
    BY <1>2, <1>10 DEF disasm_81, Text
  <2>3. Misread(n1)
    BY <1>10 DEF Misread
  <2>4. code \in 0 .. 18 /\ c \in RegisterName
    BY <1>1, OperandTypes DEF Nibble
  <2> HIDE DEF code, c, t
  <2>5. F(x, code) = Span(s1, e1) /\ Ends(s1, e1)
    BY <2>4, FieldOf
  <2> HIDE DEF s1, e1, z
  <2>6. Behind(t, x, 5)
    BY <1>3, <2>1, <2>4, <2>5, ShiftBitBehind DEF z
  <2>7. Right(x, n1, t)
    BY <1>2, <2>2, <2>3, <2>6, BehindRight DEF Behind
  <2> QED BY <2>7 DEF t
<1>11. CASE i = 10
  <2> DEFINE what == Nib(n1, 4)
             q == Nib(n1, 5)
             f == F(x, Nib(n1, 3))
             z == Advance(x, 6)
  <2>1. t = IF what > 2 THEN Illegal(x) ELSE ScratchGroup(z, what, q, f)
    BY <1>11 DEF decode_81
  <2>2. text = ScratchText(n1)
    BY <1>2, <1>11 DEF disasm_81
  <2>3. what = read_nibble(n1, 4) /\ q = read_nibble(n1, 5) /\ q = n1[5] /\ what \in 0 .. 15
        /\ q \in Nibble
    BY <1>1 DEF Nibble
  <2>4. Spanned(f)
    <3>1. Nib(n1, 3) \in 0 .. 18
      BY <1>1 DEF Nibble
    <3> QED BY <3>1, FieldOf
  <2> HIDE DEF t, what, q, f
  <2>5. CASE what > 2
    <3>1. text.goes = "nothing"
      BY <2>2, <2>3, <2>5 DEF ScratchText, Nothing, Text
    <3>2. IsMachine(t) /\ Others(t, x, {"stop"}) /\ t.stop = TRUE
      BY <2>1, <2>5, IllegalType
    <3>3. t.stk = x.stk
      BY <3>2 DEF Others, FieldNames
    <3>4. Right(x, n1, t)
      BY <1>2, <3>1, <3>2, <3>3, IllegalRight
    <3> QED BY <3>4 DEF t
  <2>6. CASE ~(what > 2)
    <3>1. text = IF q % 8 > 4 THEN Nothing(6) ELSE Text(6)
      BY <2>2, <2>3, <2>6 DEF ScratchText
    <3>2. what \in 0 .. 2
      BY <2>3, <2>6
    <3> HIDE DEF z
    <3>3. Behind(t, x, 6)
      BY <1>3, <2>1, <2>3, <2>4, <2>6, <3>2, ScratchBehind DEF z
    <3>4. CASE q % 8 > 4
      <4>1. Misread(n1)
        BY <1>11, <2>3, <3>4 DEF Misread
      <4>2. text.goes = "nothing"
        BY <3>1, <3>4 DEF Nothing, Text
      <4>3. Right(x, n1, t)
        BY <1>2, <3>3, <4>1, <4>2, IllegalRight DEF Behind, Kept
      <4> QED BY <4>3 DEF t
    <3>5. CASE ~(q % 8 > 4)
      <4>1. text = Text(6)
        BY <3>1, <3>5
      <4>2. Right(x, n1, t)
        BY <1>2, <3>3, <4>1, OnRight
      <4> QED BY <4>2 DEF t
    <3> QED BY <3>4, <3>5
  <2> QED BY <2>5, <2>6
<1>12. CASE i = 11
  <2>1. t = ProgramCounterGroup(x, Nib(n1, 3))
    BY <1>12 DEF decode_81
  <2> HIDE DEF t
  <2>2. Right(x, n1, t)
    BY <1>12, <2>1, GroupProgramCounter
  <2> QED BY <2>2 DEF t
<1>13. CASE i > 11
  <2>1. t = ShiftBit(y, r, w)
    BY <1>1, <1>4, <1>13 DEF decode_81, y
  <2>2. text = Text(3)
    BY <1>1, <1>2, <1>13 DEF disasm_81
  <2> HIDE DEF r, t
  <2>3. Behind(t, x, 3)
    BY <1>3, <1>4, <1>5, <2>1, ShiftBitBehind
  <2>4. Right(x, n1, t)
    BY <1>2, <2>2, <2>3, OnRight
  <2> QED BY <2>4 DEF t
<1> HIDE DEF t
<1>14. i < 4 \/ i \in 4 .. 7 \/ i = 8 \/ i = 9 \/ i = 10 \/ i = 11 \/ i > 11
  BY <1>1
<1> QED BY <1>7, <1>8, <1>9, <1>10, <1>11, <1>12, <1>13, <1>14

(* The five nibbles of a far address are one of 20 bits. *)
LEMMA FarType ==
  ASSUME NEW n1 \in Instruction
  PROVE  Num(n1, 2, 5) \in Word
<1>1. Naturals(n1) /\ 2 \in Nat /\ 5 \in 1 .. 16
  BY NibType
<1>2. PICK v : Reads(v, n1, 2, 5) /\ Num(n1, 2, 5) = v[0]
  BY <1>1, NumReads
<1>3. v[5] = 0 /\ \A j \in 0 .. 4 : v[j] = Nib(n1, 2 + j) + 16 * v[j + 1]
  BY <1>2 DEF Reads
<1>4. \A j \in 0 .. 4 : Nib(n1, 2 + j) \in 0 .. 15
  BY NibType DEF Nibble
<1>5. PICK a0 \in 0 .. 15, a1 \in 0 .. 15, a2 \in 0 .. 15, a3 \in 0 .. 15, a4 \in 0 .. 15 :
        /\ v[0] = a0 + 16 * v[1] /\ v[1] = a1 + 16 * v[2] /\ v[2] = a2 + 16 * v[3]
        /\ v[3] = a3 + 16 * v[4] /\ v[4] = a4
  <2>1. v[0] = Nib(n1, 2 + 0) + 16 * v[1] /\ v[1] = Nib(n1, 2 + 1) + 16 * v[2]
    BY <1>3
  <2>2. v[2] = Nib(n1, 2 + 2) + 16 * v[3] /\ v[3] = Nib(n1, 2 + 3) + 16 * v[4]
    BY <1>3
  <2>3. v[4] = Nib(n1, 2 + 4)
    BY <1>3, <1>4
  <2>4. /\ Nib(n1, 2 + 0) \in 0 .. 15 /\ Nib(n1, 2 + 1) \in 0 .. 15 /\ Nib(n1, 2 + 2) \in 0 .. 15
        /\ Nib(n1, 2 + 3) \in 0 .. 15 /\ Nib(n1, 2 + 4) \in 0 .. 15
    BY <1>4
  <2> QED BY <2>1, <2>2, <2>3, <2>4, Zenon
<1>6. v[0] \in Nat /\ v[0] < 1048576
  BY <1>5
<1> QED BY <1>2, <1>6, WordBounds DEF Memory

(* 8C to 8F: the far jumps and calls. *)
LEMMA GroupFar ==
  ASSUME NEW x, NEW n1 \in Instruction, IsMachine(x), ~x.stop, n1[0] = 8, n1[1] \in 12 .. 15
  PROVE  Right(x, n1, FarGroup(x, n1))
<1> DEFINE d == Num(n1, 2, 4)
           rel == Signed(d, 4)
           far == Num(n1, 2, 5)
           t == FarGroup(x, n1)
           text == disassemble(n1)
<1>1. rel \in Int /\ far \in Nat /\ far % Memory = far /\ far = read_int(n1, 2, 5) /\ x.PC \in Nat
  <2>1. d \in Nat
    BY NibType, NumType
  <2>3. far \in Nat /\ far % Memory = far
    <3>1. far \in Word
      BY FarType
    <3> HIDE DEF far
    <3> QED BY <3>1, WordBounds
  <2>2. far = read_int(n1, 2, 5)
    BY SameNumbers
  <2> HIDE DEF d, far
  <2> QED BY <2>1, <2>2, <2>3, SignedType DEF IsMachine
<1>2. text = FarText(n1) /\ ~MovesStack(n1) /\ n1[0] # 0 /\ text = disassemble(n1)
  BY DEF disassemble, disasm_8, MovesStack
<1>3. \A goes, k : Destination(Near(n1, goes, 2, 4, k), x.PC) = (x.PC + (k + rel)) % Memory
  BY NearText
<1>4. \A k : Near(n1, "jump", 2, 4, k).goes = "jump" /\ Near(n1, "call", 2, 4, k).goes = "call"
             /\ ~Near(n1, "jump", 2, 4, k).back /\ ~Near(n1, "call", 2, 4, k).back
             /\ Near(n1, "call", 2, 4, k).len = 6
  BY NearText
<1> HIDE DEF rel, far
<1>5. \A goes : Far(n1, goes) = [len |-> 7, goes |-> goes, to |-> far, far |-> TRUE, back |-> FALSE]
  BY <1>1 DEF Far
<1>6. CASE n1[1] = 12
  <2>1. t = Goto(x, x.PC + rel + 2)
    BY <1>6 DEF FarGroup, rel
  <2>2. text = Near(n1, "jump", 2, 4, 2)
    BY <1>2, <1>6 DEF FarText
  <2> HIDE DEF t, text
  <2>3. x.PC + rel + 2 \in Int /\ x.PC + rel + 2 = x.PC + (2 + rel)
    BY <1>1
  <2>4. IsMachine(t) /\ Others(t, x, {"PC"}) /\ t.PC = (x.PC + rel + 2) % Memory
    BY <2>1, <2>3, GotoType
  <2>5. Kept(t, x)
    BY <2>4 DEF Kept, Others, FieldNames
  <2>6. t.PC = Destination(text, x.PC)
    BY <1>3, <2>2, <2>3, <2>4
  <2>7. Right(x, n1, t)
    BY <1>2, <1>4, <2>2, <2>5, <2>6, JumpRight
  <2> QED BY <2>7 DEF t
<1>7. CASE n1[1] = 13
  <2>1. t = Goto(x, far)
    BY <1>7 DEF FarGroup, far
  <2>2. text = Far(n1, "call")
    BY <1>2, <1>7 DEF FarText
  <2> HIDE DEF t, text
  <2>3. IsMachine(t) /\ Others(t, x, {"PC"})
    BY <1>1, <2>1, GotoType
  <2>4. ~text.back /\ text.goes = "call"
    BY <1>5, <2>2
  <2>5. ~TextPushes(n1) /\ ~TextPops(n1, x, t)
    BY <1>2, <1>7, <2>4 DEF TextPushes, TextPops, MovesStack
  <2>6. t.stk = x.stk /\ Misread(n1)
    BY <1>7, <2>3 DEF Others, FieldNames, Misread
  <2>7. Right(x, n1, t)
    BY <2>3, <2>5, <2>6 DEF Right, Stacks
  <2> QED BY <2>7 DEF t
<1>8. CASE n1[1] \in {14, 15}
  <2> DEFINE k == IF n1[1] = 14 THEN 6 ELSE 7
             a == IF n1[1] = 14 THEN x.PC + rel + 6 ELSE far
             y == Push(x, x.PC + k)
  <2>1. t = Goto(y, a)
    BY <1>8 DEF FarGroup, rel, far
  <2>2. a \in Int /\ x.PC + k \in Nat
    BY <1>1
  <2>3. text.goes = "call" /\ ~text.back /\ text.len = k /\ Destination(text, x.PC) = a % Memory
    <3>1. CASE n1[1] = 14
      <4>1. text = Near(n1, "call", 2, 4, 6)
        BY <1>2, <3>1 DEF FarText
      <4>2. x.PC + rel + 6 = x.PC + (6 + rel)
        BY <1>1
      <4> HIDE DEF text
      <4> QED BY <1>3, <1>4, <3>1, <4>1, <4>2
    <3>2. CASE n1[1] = 15
      <4>1. text = Far(n1, "call")
        BY <1>2, <3>2 DEF FarText
      <4> HIDE DEF text
      <4> QED BY <1>1, <1>5, <3>2, <4>1 DEF Destination
    <3> QED BY <1>8, <3>1, <3>2
  <2> HIDE DEF t, text, a, k
  <2>4. IsMachine(y) /\ Others(y, x, {"stk"}) /\ y.stk = push_return_addr(x.stk, x.PC + k)
    BY <2>2, PushPopType
  <2> HIDE DEF y
  <2>5. IsMachine(t) /\ Others(t, y, {"PC"}) /\ t.PC = a % Memory
    BY <2>1, <2>2, <2>4, GotoType
  <2>6. t.stk = y.stk /\ t.stop = x.stop
    BY <2>4, <2>5 DEF Others, FieldNames
  <2>7. Right(x, n1, t)
    BY <1>2, <1>8, <2>3, <2>4, <2>5, <2>6, CallRight
  <2> QED BY <2>7 DEF t
<1> QED BY <1>6, <1>7, <1>8

(* 8 *)
LEMMA Group8 ==
  ASSUME NEW x, NEW n1 \in Instruction, IsMachine(x), ~x.stop, n1[0] = 8
  PROVE  Right(x, n1, decode_8(x, n1))
<1> DEFINE i == n1[2]
           t == decode_8(x, n1)
           y == Advance(x, 3)
           text == disassemble(n1)
<1>1. n1[1] \in 0 .. 15 /\ i \in 0 .. 15 /\ i \in Nibble
  BY NibType DEF Nibble
<1>2. ~MovesStack(n1) /\ ~Cuts(n1, x) /\ text = disassemble(n1)
  BY DEF MovesStack, Cuts
<1>3. Behind(y, x, 3) /\ Others(y, x, {"PC"})
  BY AdvanceBehind
<1>4. CASE n1[1] = 0
  <2>1. CASE i = 8
    <3>1. t = decode_808(x, n1)
      BY <1>4, <2>1 DEF decode_8
    <3> HIDE DEF t
    <3>2. Right(x, n1, t)
      BY <1>4, <2>1, <3>1, Group808
    <3> QED BY <3>2 DEF t
  <2>2. CASE i # 8
    <3> DEFINE k == IF i \in {12, 13, 15} THEN 4 ELSE 3
    <3>1. t = decode_group_80(x, n1)
      BY <1>4, <2>2 DEF decode_8
    <3>2. text = Text(k)
      BY <1>4, <2>2 DEF disassemble, disasm_8
    <3> HIDE DEF t, text
    <3>3. Behind(t, x, k)
      BY <2>2, <3>1, Group80
    <3> HIDE DEF k
    <3>4. Right(x, n1, t)
      BY <1>2, <3>2, <3>3, OnRight
    <3> QED BY <3>4 DEF t
  <2> QED BY <2>1, <2>2
<1>5. CASE n1[1] = 1
  <2>1. t = decode_81(x, n1)
    BY <1>5 DEF decode_8
  <2> HIDE DEF t
  <2>2. Right(x, n1, t)
    BY <1>5, <2>1, Group81
  <2> QED BY <2>2 DEF t
<1>6. CASE n1[1] = 2
  <2>1. t = clear_hardware_stat(y, i) /\ text = Text(3)
    BY <1>6 DEF decode_8, disassemble, disasm_8
  <2> HIDE DEF t, y, text
  <2>2. Behind(t, x, 3)
    BY <1>3, <2>1, ClearBehind
  <2>3. Right(x, n1, t)
    BY <1>2, <2>1, <2>2, OnRight
  <2> QED BY <2>3 DEF t
<1>7. CASE n1[1] \in {4, 5}
  <2> DEFINE S == IF n1[1] = 4 THEN y.ST \ {i} ELSE y.ST \cup {i}
  <2>1. text = Text(3)
    BY <1>7 DEF disassemble, disasm_8
  <2>2. y.ST \in SUBSET Nibble
    <3> HIDE DEF y
    <3> QED BY <1>3 DEF Behind, Kept, IsMachine
  <2>3. t = [y EXCEPT !.ST = S]
    <3>1. CASE n1[1] = 4
      BY <3>1 DEF decode_8
    <3>2. CASE n1[1] = 5
      BY <3>2 DEF decode_8
    <3> QED BY <1>7, <3>1, <3>2
  <2>4. S \in SUBSET Nibble
    BY <1>1, <2>2
  <2> HIDE DEF t, S, y, text
  <2>5. Behind(t, x, 3)
    BY <1>3, <2>3, <2>4, StatusBehind
  <2>6. Right(x, n1, t)
    BY <1>2, <2>1, <2>5, OnRight
  <2> QED BY <2>6 DEF t
<1>8. CASE n1[1] \in {3, 6, 7, 8, 9, 10, 11}
  <2>1. text = Near(n1, "yes", 3, 2, 3)
    BY <1>8 DEF disassemble, disasm_8, TestText
  <2>2. \E yes \in BOOLEAN : t = GoYes(x, n1, 3, yes)
    <3>1. CASE n1[1] = 3
      <4>1. t = GoYes(x, n1, 3, is_zero_hardware_stat(x, i))
        BY <3>1 DEF decode_8
      <4>2. is_zero_hardware_stat(x, i) \in BOOLEAN
        BY DEF is_zero_hardware_stat
      <4> QED BY <4>1, <4>2
    <3>2. CASE n1[1] \in {6, 7}
      <4>1. t = GoYes(x, n1, 3, i \in x.ST <=> n1[1] = 7)
        BY <3>2 DEF decode_8
      <4> QED BY <4>1
    <3>3. CASE n1[1] \in {8, 9}
      <4>1. t = GoYes(x, n1, 3, x.P = i <=> n1[1] = 9)
        BY <3>3 DEF decode_8
      <4> QED BY <4>1
    <3>4. CASE n1[1] = 10
      <4>1. t = GoYes(x, n1, 3, Equality(x, i, F(x, A_FIELD)))
        BY <3>4 DEF decode_8
      <4> QED BY <1>1, <4>1, TestBooleans
    <3>5. CASE n1[1] = 11
      <4>1. t = GoYes(x, n1, 3, Order(x, i, F(x, A_FIELD)))
        BY <3>5 DEF decode_8
      <4> QED BY <1>1, <4>1, TestBooleans
    <3> QED BY <1>8, <3>1, <3>2, <3>3, <3>4, <3>5
  <2> HIDE DEF t
  <2>3. Right(x, n1, t)
    BY <1>2, <2>1, <2>2, GoYesRight
  <2> QED BY <2>3 DEF t
<1>9. CASE n1[1] > 11
  <2>1. t = FarGroup(x, n1)
    BY <1>1, <1>9 DEF decode_8
  <2> HIDE DEF t
  <2>2. n1[1] \in 12 .. 15
    BY <1>1, <1>9
  <2>3. Right(x, n1, t)
    BY <2>1, <2>2, GroupFar
  <2> QED BY <2>3 DEF t
<1> HIDE DEF t
<1>10. \/ n1[1] = 0 \/ n1[1] = 1 \/ n1[1] = 2 \/ n1[1] \in {4, 5}
       \/ n1[1] \in {3, 6, 7, 8, 9, 10, 11} \/ n1[1] > 11
  BY <1>1
<1> QED BY <1>4, <1>5, <1>6, <1>7, <1>8, <1>9, <1>10

-----------------------------------------------------------------------------
(* Memory at D0 and D1. *)

LEMMA LowSpans ==
  ASSUME NEW k \in Nibble
  PROVE  Low(k + 1) = Span(0, k) /\ Ends(0, k) /\ Spanned(Low(k + 1))
  BY DEF Low, Span, Ends, Spanned, Nibble

LEMMA WrapsBack ==
  ASSUME NEW a \in Word, NEW j \in 0 .. 15
  PROVE  (((a + j) % Memory) - a) % Memory = j
<1>1. a \in Nat /\ a < 1048576
  BY WordBounds DEF Memory
<1>2. (((a + j) % 1048576) - a) % 1048576 = j
  <2>1. CASE a + j < 1048576
    <3>1. (a + j) % 1048576 = a + j
      BY <1>1, <2>1
    <3>2. (a + j) - a = j /\ j % 1048576 = j
      BY <1>1
    <3> QED BY <3>1, <3>2
  <2>2. CASE ~(a + j < 1048576)
    <3>1. (a + j) % 1048576 = a + j - 1048576
      BY <1>1, <2>2
    <3>2. (a + j - 1048576) - a = j - 1048576 /\ (j - 1048576) % 1048576 = j
      BY <1>1
    <3> QED BY <3>1, <3>2
  <2> QED BY <2>1, <2>2
<1> QED BY <1>2 DEF Memory

LEMMA PlaceIs ==
  ASSUME NEW b \in Word, NEW s \in 0 .. 15, NEW e \in 0 .. 15, NEW i \in s .. e
  PROVE  (b + i - s) % Memory \in Word /\ s + ((((b + i - s) % Memory) - b) % Memory) = i
<1> DEFINE j == i - s
<1>1. j \in 0 .. 15 /\ s + j = i
  OBVIOUS
<1>2. b \in Nat
  BY WordBounds
<1>3. b + i - s = b + j
  BY <1>2
<1> HIDE DEF j
<1>4. (((b + j) % Memory) - b) % Memory = j
  BY <1>1, WrapsBack
<1>5. (b + j) % Memory \in Word
  <2>1. b + j \in Int
    BY <1>1, <1>2
  <2> QED BY <2>1, WordBounds
<1> QED BY <1>1, <1>3, <1>4, <1>5

LEMMA StoreBehind ==
  ASSUME NEW y, NEW x, NEW k, NEW d \in {"D0", "D1"}, NEW r \in RegisterName, NEW f,
         Behind(y, x, k), Spanned(f)
  PROVE  Behind(store(y, d, r, f), x, k)
<1> DEFINE b == y[d]
           place(a) == f.s + ((a - b) % Memory)
           written == {(b + i - f.s) % Memory : i \in In(f)}
           A == DOMAIN y.mem \cup written
           v == y.reg[r]
           q == [a \in A |-> IF a \in written THEN v[place(a)] ELSE y.mem[a]]
           t == [y EXCEPT !.mem = q]
<1>1. IsMachine(y) /\ b \in Word /\ v \in Register
  BY DEF Behind, Kept, IsMachine
<1>2. f.s \in 0 .. 15 /\ f.e \in 0 .. 15 /\ f.s <= f.e
  BY DEF Spanned, Ends
<1>3. ASSUME NEW i \in In(f)
      PROVE  (b + i - f.s) % Memory \in Word /\ place((b + i - f.s) % Memory) = i /\ i \in 0 .. 15
  <2> DEFINE s == f.s
             e == f.e
  <2>1. s \in 0 .. 15 /\ e \in 0 .. 15 /\ i \in s .. e
    BY <1>2 DEF In
  <2> HIDE DEF s, e, b
  <2>2. (b + i - s) % Memory \in Word /\ s + ((((b + i - s) % Memory) - b) % Memory) = i
    BY <1>1, <2>1, PlaceIs
  <2> QED BY <2>1, <2>2 DEF s
<1>4. \A a \in written : a \in Word /\ place(a) \in 0 .. 15
  BY <1>3
<1> HIDE DEF b, v, place, written
<1>5. A \subseteq Word /\ q \in [A -> Nibble]
  <2>1. A \subseteq Word /\ \A a \in DOMAIN y.mem : y.mem[a] \in Nibble
    BY <1>1, <1>4 DEF IsMachine
  <2>2. \A a \in written : v[place(a)] \in Nibble
    BY <1>1, <1>4 DEF Register
  <2> QED BY <2>1, <2>2
<1>6. store(y, d, r, f) = t
  BY DEF store, b, v, place, written
<1> HIDE DEF A, q
<1>7. IsMachine(t) /\ Others(t, y, {"mem"})
  <2>1. DOMAIN q = A
    BY <1>5
  <2> QED BY <1>1, <1>5, <2>1 DEF IsMachine, Others, FieldNames
<1> HIDE DEF t
<1>8. Behind(t, x, k)
  BY <1>7, StillBehind
<1> QED BY <1>6, <1>8

LEMMA RecallBehind ==
  ASSUME NEW y, NEW x, NEW k, NEW d \in {"D0", "D1"}, NEW r \in RegisterName, NEW f,
         Behind(y, x, k), Spanned(f)
  PROVE  Behind(recall(y, r, d, f), x, k)
<1> DEFINE w == [i \in In(f) |-> Read(y, y[d] + i - f.s)]
           v == On(y.reg[r], f, w)
<1>1. IsMachine(y) /\ y[d] \in Int /\ y.reg[r] \in Register
  BY WordBounds DEF Behind, Kept, IsMachine
<1>2. f.s \in 0 .. 15 /\ f.e \in 0 .. 15
  BY DEF Spanned, Ends
<1>3. \A i \in In(f) : w[i] \in Nibble
  <2>1. \A i \in In(f) : y[d] + i - f.s \in Int
    BY <1>1, <1>2 DEF In
  <2> QED BY <1>1, <2>1, ReadType
<1> HIDE DEF w
<1>4. v \in Register
  BY <1>1, <1>3, OnType
<1>5. recall(y, r, d, f) = Set(y, r, v)
  BY DEF recall, w
<1> HIDE DEF v
<1> QED BY <1>4, <1>5, SetBehind

(* 14 and 15 *)
LEMMA DataBehind ==
  ASSUME NEW y, NEW x, NEW k, NEW i, NEW f, Behind(y, x, k), Spanned(f)
  PROVE  Behind(DataGroup(y, i, f), x, k)
<1> DEFINE r == IF i % 8 < 4 THEN "A" ELSE "C"
           d == IF i % 2 = 0 THEN "D0" ELSE "D1"
<1>1. r \in RegisterName /\ d \in {"D0", "D1"}
  BY DEF RegisterName
<1>2. DataGroup(y, i, f) = IF i % 4 < 2 THEN store(y, d, r, f) ELSE recall(y, r, d, f)
  BY DEF DataGroup
<1> HIDE DEF r, d
<1> QED BY <1>1, <1>2, StoreBehind, RecallBehind

(* 13 *)
LEMMA PointerGroupBehind ==
  ASSUME NEW y, NEW x, NEW j, NEW i, Behind(y, x, j)
  PROVE  Behind(PointerGroup(y, i), x, j)
<1> DEFINE r == IF i % 8 < 4 THEN "A" ELSE "C"
           d == IF i % 2 = 0 THEN "D0" ELSE "D1"
           k == IF i < 8 THEN 5 ELSE 4
           a == LowNibbles(y[d], AddressIn(y.reg[r]), k)
           moved == [y EXCEPT ![d] = a]
           v == [q \in 0 .. 15 |-> IF q < k THEN Digit(y[d], q) ELSE y.reg[r][q]]
           t == PointerGroup(y, i)
<1>1. r \in RegisterName /\ d \in {"D0", "D1"} /\ (k = 5 \/ k = 4)
  BY DEF RegisterName
<1>2. t = moved \/ t = Set(moved, r, v)
  <2>1. DOMAIN y = FieldNames
    BY DEF Behind, Kept, IsMachine, FieldNames
  <2>2. moved = [y EXCEPT ![d] = LowNibbles(@, AddressIn(y.reg[r]), k)]
    BY <1>1, <2>1 DEF FieldNames
  <2> HIDE DEF moved
  <2> QED BY <2>2 DEF PointerGroup
<1> HIDE DEF r, d, k
<1>3. y[d] \in Word /\ y.reg[r] \in Register
  BY <1>1 DEF Behind, Kept, IsMachine
<1>4. a \in Word
  <2>1. AddressIn(y.reg[r]) \in Nat
    BY <1>3, AddressType, WordBounds
  <2> QED BY <1>1, <1>3, <2>1, LowNibblesType
<1>5. v \in Register
  <2>1. \A q \in 0 .. 4 : Digit(y[d], q) \in Nibble
    BY <1>3, DigitType, WordBounds
  <2> QED BY <1>1, <1>3, <2>1 DEF Register
<1> HIDE DEF a, v, t
<1>6. Behind(moved, x, j)
  BY <1>1, <1>4, AddressBehind
<1> HIDE DEF moved
<1>7. Behind(t, x, j)
  BY <1>1, <1>2, <1>5, <1>6, SetBehind
<1> QED BY <1>7 DEF t

LEMMA AddBehind ==
  ASSUME NEW y, NEW x, NEW k, NEW d \in {"D0", "D1"}, NEW c \in Int, Behind(y, x, k)
  PROVE  Behind(add_address(y, d, c), x, k)
<1> DEFINE a == (y[d] + c) % Memory
           t == add_address(y, d, c)
           z == [y EXCEPT ![d] = a]
           carry == IF y[d] + c \in Word THEN 0 ELSE 1
<1>1. y[d] \in Int /\ DOMAIN y = FieldNames
  <2>1. y[d] \in Word /\ DOMAIN y = FieldNames
    BY DEF Behind, Kept, IsMachine, FieldNames
  <2> QED BY <2>1, WordBounds
<1>2. a \in Word
  BY <1>1, WordBounds
<1>3. t = [z EXCEPT !.CARRY = carry]
  BY <1>1 DEF add_address, FieldNames
<1> HIDE DEF a, t
<1>4. Behind(z, x, k)
  BY <1>2, AddressBehind
<1> HIDE DEF z
<1>5. carry \in {0, 1}
  OBVIOUS
<1> HIDE DEF carry
<1>6. IsMachine([z EXCEPT !.CARRY = carry]) /\ Others([z EXCEPT !.CARRY = carry], z, {"CARRY"})
  BY <1>4, <1>5 DEF Behind, Kept, IsMachine, Others, FieldNames
<1>7. Behind(t, x, k)
  BY <1>3, <1>4, <1>6, StillBehind
<1> QED BY <1>7 DEF t

(* 1 *)
LEMMA Group1 ==
  ASSUME NEW x, NEW n1 \in Instruction, IsMachine(x), ~x.stop, n1[0] = 1
  PROVE  Right(x, n1, decode_group_1(x, n1))
<1> DEFINE o == n1[1]
           i == n1[2]
           k == Nib(n1, 3)
           y == Advance(x, 3)
           t == decode_group_1(x, n1)
           text == disassemble(n1)
<1>1. /\ o \in 0 .. 15 /\ i \in 0 .. 15 /\ i \in Nibble /\ k \in Nibble /\ k \in 0 .. 18
  BY NibType DEF Nibble
<1>2. ~MovesStack(n1) /\ ~Cuts(n1, x) /\ text = disassemble(n1) /\ text = disasm_1(n1)
  BY DEF MovesStack, Cuts, disassemble
<1>3. Behind(y, x, 3) /\ Behind(Advance(x, 4), x, 4)
  BY AdvanceBehind
<1>4. \A code \in 0 .. 18 : Spanned(F(x, code))
  BY FieldOf
<1>5. A_FIELD \in 0 .. 18 /\ W_FIELD \in 0 .. 18 /\ 6 \in 0 .. 18
  BY DEF A_FIELD, W_FIELD
<1> HIDE DEF y, text, k
<1>6. CASE o \in 0 .. 4
  <2>1. text = Text(3)
    BY <1>2, <1>6 DEF disasm_1
  <2>2. Behind(t, x, 3)
    <3>1. CASE o \in {0, 1, 2}
      <4>1. t = ScratchGroup(y, o, i, F(x, W_FIELD))
        BY <3>1 DEF decode_group_1, y
      <4> HIDE DEF t
      <4>2. o \in 0 .. 2
        BY <3>1
      <4> QED BY <1>1, <1>3, <1>4, <1>5, <4>1, <4>2, ScratchBehind
    <3>2. CASE o = 3
      <4>1. t = PointerGroup(y, i)
        BY <3>2 DEF decode_group_1, y
      <4> HIDE DEF t
      <4> QED BY <1>3, <4>1, PointerGroupBehind
    <3>3. CASE o = 4
      <4> DEFINE f == F(x, IF i < 8 THEN A_FIELD ELSE 6)
      <4>1. t = DataGroup(y, i, f)
        BY <3>3 DEF decode_group_1, y
      <4>2. Spanned(f)
        BY <1>4, <1>5
      <4> HIDE DEF t, f
      <4> QED BY <1>3, <4>1, <4>2, DataBehind
    <3> QED BY <1>6, <3>1, <3>2, <3>3
  <2> HIDE DEF t
  <2>3. Right(x, n1, t)
    BY <1>2, <2>1, <2>2, OnRight
  <2> QED BY <2>3 DEF t
<1>7. CASE o = 5
  <2> DEFINE f == IF i < 8 THEN F(x, k) ELSE Low(k + 1)
             z == Advance(x, 4)
  <2>1. text = Text(4)
    BY <1>2, <1>7 DEF disasm_1
  <2>2. t = DataGroup(z, i, f)
    BY <1>7 DEF decode_group_1, k
  <2>3. Spanned(f)
    BY <1>1, <1>4, LowSpans
  <2> HIDE DEF t, f
  <2>4. Behind(t, x, 4)
    BY <1>3, <2>2, <2>3, DataBehind
  <2>5. Right(x, n1, t)
    BY <1>2, <2>1, <2>4, OnRight
  <2> QED BY <2>5 DEF t
<1>8. CASE o \in {6, 7, 8, 12}
  <2>1. text.goes = "on" /\ Misread(n1)
    BY <1>2, <1>8 DEF disasm_1, PointerText, Text, Misread
  <2>2. \E d \in {"D0", "D1"}, c \in Int : t = add_address(y, d, c)
    <3>1. i + 1 \in Int /\ -(i + 1) \in Int
      BY <1>1
    <3>2. CASE o = 6
      <4>1. t = add_address(y, "D0", i + 1)
        BY <3>2 DEF decode_group_1, y
      <4> QED BY <3>1, <4>1
    <3>3. CASE o = 7
      <4>1. t = add_address(y, "D1", i + 1)
        BY <3>3 DEF decode_group_1, y
      <4> QED BY <3>1, <4>1
    <3>4. CASE o = 8
      <4>1. t = add_address(y, "D0", -(i + 1))
        BY <3>4 DEF decode_group_1, y
      <4> QED BY <3>1, <4>1
    <3>5. CASE o = 12
      <4>1. t = add_address(y, "D1", -(i + 1))
        BY <3>5 DEF decode_group_1, y
      <4> QED BY <3>1, <4>1
    <3> QED BY <1>8, <3>2, <3>3, <3>4, <3>5
  <2> HIDE DEF t
  <2>3. Behind(t, x, 3)
    BY <1>3, <2>2, AddBehind
  <2>4. Right(x, n1, t)
    BY <1>2, <2>1, <2>3, BehindRight DEF Behind
  <2> QED BY <2>4 DEF t
<1>9. CASE o \in {9, 10, 11, 13, 14, 15}
  <2> DEFINE d == IF o < 12 THEN "D0" ELSE "D1"
             c == IF o \in {9, 13} THEN 2 ELSE IF o \in {10, 14} THEN 4 ELSE 5
             z == Advance(x, c + 2)
             a == LowNibbles(z[d], Num(n1, 2, c), c)
  <2>1. text = Text(c + 2)
    BY <1>2, <1>9 DEF disasm_1, PointerText
  <2>2. d \in {"D0", "D1"} /\ c + 2 \in Nat /\ c \in 2 .. 5 /\ c \in {2, 4, 5}
    OBVIOUS
  <2>3. Behind(z, x, c + 2)
    <3> HIDE DEF c
    <3> QED BY <2>2, AdvanceBehind
  <2>4. t = [z EXCEPT ![d] = a]
    <3>1. DOMAIN z = FieldNames
      <4> HIDE DEF z
      <4> QED BY <2>3 DEF Behind, Kept, IsMachine, FieldNames
    <3>2. [z EXCEPT ![d] = a] = [z EXCEPT ![d] = LowNibbles(@, Num(n1, 2, c), c)]
      <4> HIDE DEF z, d, c
      <4> QED BY <2>2, <3>1 DEF FieldNames
    <3>3. t = [z EXCEPT ![d] = LowNibbles(@, Num(n1, 2, c), c)]
      <4>1. CASE o \in {9, 10, 11}
        <5>1. <<2, 4, 5>>[o - 8] = c /\ d = "D0"
          BY <4>1
        <5> HIDE DEF c, d
        <5> QED BY <4>1, <5>1 DEF decode_group_1
      <4>2. CASE o \in {13, 14, 15}
        <5>1. <<2, 4, 5>>[o - 12] = c /\ d = "D1"
          BY <4>2
        <5> HIDE DEF c, d
        <5> QED BY <4>2, <5>1 DEF decode_group_1
      <4> QED BY <1>9, <4>1, <4>2
    <3> HIDE DEF t, z, d, a
    <3> QED BY <3>2, <3>3
  <2> HIDE DEF t, z, d, c
  <2>5. a \in Word
    <3>1. z[d] \in Word
      BY <2>2, <2>3 DEF Behind, Kept, IsMachine
    <3>2. Num(n1, 2, c) \in Nat
      BY <2>2, NibType, NumType
    <3> QED BY <2>2, <3>1, <3>2, LowNibblesType
  <2> HIDE DEF a
  <2>6. Behind(t, x, c + 2)
    BY <2>2, <2>3, <2>4, <2>5, AddressBehind
  <2>7. Right(x, n1, t)
    BY <1>2, <2>1, <2>6, OnRight
  <2> QED BY <2>7 DEF t
<1> HIDE DEF t
<1>10. o \in 0 .. 4 \/ o = 5 \/ o \in {6, 7, 8, 12} \/ o \in {9, 10, 11, 13, 14, 15}
  BY <1>1
<1> QED BY <1>6, <1>7, <1>8, <1>9, <1>10


-----------------------------------------------------------------------------
(* 4 to 7: the near jumps and calls. *)

(* What the texts that are not those of jumps say. *)
LEMMA TextIs ==
  ASSUME NEW k
  PROVE  Text(k).goes = "on" /\ Text(k).len = k
  BY DEF Text

(* Three nibbles give 4 if they are 4, 0, 0. *)
LEMMA ThreeNibbles ==
  ASSUME NEW n1 \in Instruction, Num(n1, 1, 3) = 4
  PROVE  n1[1] = 4 /\ n1[2] = 0 /\ n1[3] = 0
<1>1. PICK v : Reads(v, n1, 1, 3) /\ Num(n1, 1, 3) = v[0]
  BY NibType, NumReads
<1>2. v[3] = 0 /\ \A j \in 0 .. 2 : v[j] = Nib(n1, 1 + j) + 16 * v[j + 1]
  BY <1>1 DEF Reads
<1>3. Nib(n1, 1) = n1[1] /\ Nib(n1, 2) = n1[2] /\ Nib(n1, 3) = n1[3]
  BY NibType
<1>4. n1[1] \in 0 .. 15 /\ n1[2] \in 0 .. 15 /\ n1[3] \in 0 .. 15
  BY NibType DEF Nibble
<1>5. v[2] = n1[3]
  <2>1. v[2] = Nib(n1, 1 + 2) + 16 * v[3]
    BY <1>2
  <2> QED BY <1>2, <1>3, <1>4, <2>1
<1>6. v[1] = n1[2] + 16 * v[2]
  <2>1. v[1] = Nib(n1, 1 + 1) + 16 * v[2]
    BY <1>2
  <2> QED BY <1>3, <2>1
<1>7. v[0] = n1[1] + 16 * v[1]
  <2>1. v[0] = Nib(n1, 1 + 0) + 16 * v[1]
    BY <1>2
  <2> QED BY <1>3, <2>1
<1>8. 4 = n1[1] + 16 * (n1[2] + 16 * n1[3])
  BY <1>1, <1>5, <1>6, <1>7
<1>9. \A p, q, r \in 0 .. 15 : 4 = p + 16 * (q + 16 * r) => p = 4 /\ q = 0 /\ r = 0
  OBVIOUS
<1> QED BY <1>4, <1>8, <1>9

(* 4 and 5: the distance is taken if CARRY is as asked for. *)
LEMMA GroupCarry ==
  ASSUME NEW x, NEW n1 \in Instruction, IsMachine(x), ~x.stop, n1[0] \in {4, 5}
  PROVE  Right(x, n1, NearGroup(x, n1))
<1> DEFINE t == NearGroup(x, n1)
           text == disassemble(n1)
           d == Num(n1, 1, 2)
           a == x.PC + Signed(d, 2) + 1
           name == IF n1[0] = 4 THEN "carry" ELSE "noCarry"
           yes == x.CARRY = IF n1[0] = 4 THEN 1 ELSE 0
           near == Near(n1, name, 1, 2, 1)
<1>1. d \in Nat /\ Signed(d, 2) \in Int /\ d = read_int(n1, 1, 2)
  <2>1. d \in Nat
    BY NibType, NumType
  <2>2. d = read_int(n1, 1, 2)
    BY SameNumbers
  <2> HIDE DEF d
  <2> QED BY <2>1, <2>2, SignedType
<1>2. x.PC \in Nat /\ x.CARRY \in {0, 1}
  BY DEF IsMachine
<1>3. ~MovesStack(n1) /\ text = disassemble(n1)
  BY DEF MovesStack
<1>4. text = IF d = 2 THEN Text(3) ELSE near
  BY <1>1 DEF disassemble
<1>5. t = IF ~yes \/ (n1[0] = 4 /\ d = 2) THEN Advance(x, 3)
          ELSE IF d = 0 THEN Return(x) ELSE Goto(x, a)
  BY DEF NearGroup
<1>6. /\ near.len = 3 /\ near.goes = name /\ (near.back <=> d = 0)
      /\ Destination(near, x.PC) = (x.PC + (1 + Signed(d, 2))) % Memory
  BY NearText
<1>7. Behind(Advance(x, 3), x, 3)
  BY AdvanceBehind
<1>8. Kept(Goto(x, a), x) /\ Goto(x, a).PC = a % Memory
  <2>1. a \in Int
    BY <1>1, <1>2
  <2> HIDE DEF a
  <2> DEFINE y == Goto(x, a)
  <2>2. IsMachine(y) /\ Others(y, x, {"PC"}) /\ y.PC = a % Memory
    BY <2>1, GotoType
  <2> HIDE DEF y
  <2>3. Kept(y, x)
    BY <2>2 DEF Kept, Others, FieldNames
  <2> QED BY <2>2, <2>3 DEF y
<1>9. Back(Return(x), x)
  <2> DEFINE y == Return(x)
  <2>1. /\ IsMachine(y) /\ Others(y, x, {"stk", "PC"})
        /\ y.PC = Popped(x.stk) /\ y.stk = pop_return_addr(x.stk)
    BY PushPopType
  <2> HIDE DEF y
  <2>2. Back(y, x)
    BY <2>1 DEF Back, Others, FieldNames
  <2> QED BY <2>2 DEF y
<1>10. a = x.PC + (1 + Signed(d, 2))
  <2> HIDE DEF d
  <2> QED BY <1>1, <1>2
<1>11. Cuts(n1, x) <=> n1[0] = 5 /\ yes
  BY DEF Cuts
<1>12. /\ yes \in BOOLEAN
       /\ \/ name = "carry" /\ (yes <=> x.CARRY = 1)
          \/ name = "noCarry" /\ (yes <=> x.CARRY = 0)
  BY <1>2
<1> DEFINE away == Goto(x, a)
           ahead == Advance(x, 3)
           back == Return(x)
<1> HIDE DEF t, text, d, near, name, away, ahead, back
<1>13. CASE d # 2
  <2>1. Conditional(x, t, text, yes)
    <3>1. CASE ~yes
      BY <1>4, <1>5, <1>6, <1>7, <1>13, <3>1 DEF Conditional, ahead
    <3>2. CASE yes /\ d = 0
      BY <1>4, <1>5, <1>6, <1>9, <1>13, <3>2 DEF Conditional, back
    <3>3. CASE yes /\ d # 0
      <4>1. t = away
        BY <1>5, <1>13, <3>3 DEF away
      <4> HIDE DEF yes, a
      <4> QED BY <1>4, <1>6, <1>8, <1>10, <1>13, <3>3, <4>1 DEF Conditional, away
    <3> QED BY <3>1, <3>2, <3>3
  <2>2. text.goes = name
    BY <1>4, <1>6, <1>13
  <2> HIDE DEF yes
  <2> QED BY <1>3, <1>12, <2>1, <2>2, ConditionalRight DEF t
<1>14. CASE d = 2
  <2>1. text = Text(3) /\ text.goes = "on" /\ text.len = 3
    BY <1>4, <1>14, TextIs
  <2>2. CASE n1[0] = 5 /\ yes
    <3>1. t = away
      BY <1>5, <1>14, <2>2 DEF away
    <3>2. Signed(d, 2) = 2
      BY <1>14 DEF Signed
    <3>3. t.PC = (x.PC + text.len) % Memory
      <4>1. a = x.PC + 3
        BY <1>2, <1>10, <3>2
      <4> HIDE DEF a
      <4> QED BY <1>8, <2>1, <3>1, <4>1 DEF away
    <3>4. Kept(t, x)
      BY <1>8, <3>1 DEF away
    <3> HIDE DEF yes, a
    <3> QED BY <1>3, <1>11, <2>1, <2>2, <3>3, <3>4, BehindRight DEF t
  <2>3. CASE ~(n1[0] = 5 /\ yes)
    <3>1. t = ahead
      BY <1>5, <1>14, <2>3 DEF ahead
    <3>2. Behind(t, x, 3)
      BY <1>7, <3>1 DEF ahead
    <3> HIDE DEF yes, a
    <3> QED BY <1>3, <1>11, <2>1, <2>3, <3>2, BehindRight DEF t, Behind
  <2> QED BY <2>2, <2>3
<1> QED BY <1>13, <1>14

(* 6 and 7, the NOPs among them. *)
LEMMA GroupNear ==
  ASSUME NEW x, NEW n1 \in Instruction, IsMachine(x), ~x.stop, n1[0] \in {6, 7}
  PROVE  Right(x, n1, NearGroup(x, n1))
<1> DEFINE t == NearGroup(x, n1)
           text == disassemble(n1)
           d == Num(n1, 1, 3)
           w == Signed(d, 3)
<1>1. d \in Nat /\ w \in Int /\ d = read_int(n1, 1, 3)
  <2>1. d \in Nat
    BY NibType, NumType
  <2>2. d = read_int(n1, 1, 3)
    BY SameNumbers
  <2> HIDE DEF d
  <2> QED BY <2>1, <2>2, SignedType
<1>2. x.PC \in Nat
  BY DEF IsMachine
<1>3. ~MovesStack(n1) /\ ~Cuts(n1, x) /\ n1[0] # 0 /\ text = disassemble(n1)
  BY DEF MovesStack, Cuts
<1>4. \A goes, k : /\ Near(n1, goes, 1, 3, k).len = 4 /\ Near(n1, goes, 1, 3, k).goes = goes
                   /\ goes \in {"jump", "call"} => ~Near(n1, goes, 1, 3, k).back
                   /\ Destination(Near(n1, goes, 1, 3, k), x.PC) = (x.PC + (k + w)) % Memory
  BY NearText
<1>5. CASE n1[0] = 6 /\ d = 3
  <2>1. t = Advance(x, 4) /\ text = Text(4)
    BY <1>1, <1>5 DEF NearGroup, disassemble
  <2> HIDE DEF t, text
  <2>2. Behind(t, x, 4)
    BY <2>1, AdvanceBehind
  <2>3. Right(x, n1, t)
    BY <1>3, <2>1, <2>2, OnRight
  <2> QED BY <2>3 DEF t
<1>6. CASE n1[0] = 6 /\ d = 4
  <2> DEFINE y == Advance(x, 5)
             v == Nib(n1, 4) # 0
  <2>1. t = [y EXCEPT !.stop = v] /\ text = Text(4)
    BY <1>1, <1>6 DEF NearGroup, disassemble
  <2>2. Misread(n1)
    <3>1. n1[1] = 4 /\ n1[2] = 0 /\ n1[3] = 0
      BY <1>6, ThreeNibbles
    <3> QED BY <1>6, <3>1 DEF Misread
  <2>3. v \in BOOLEAN /\ Behind(y, x, 5)
    BY AdvanceBehind
  <2> HIDE DEF t, text, v, y
  <2>4. IsMachine(t) /\ Others(t, y, {"stop"})
    BY <2>1, <2>3 DEF Behind, Kept, IsMachine, Others, FieldNames
  <2>5. t.stk = x.stk /\ text.goes = "on"
    BY <2>1, <2>3, <2>4, TextIs DEF Behind, Kept, Others, FieldNames
  <2>6. ~TextPushes(n1) /\ ~TextPops(n1, x, t)
    BY <1>3, <2>5 DEF TextPushes, TextPops, Way, MovesStack
  <2>7. Right(x, n1, t)
    BY <2>2, <2>4, <2>5, <2>6 DEF Right, Stacks
  <2> QED BY <2>7 DEF t
<1>7. CASE n1[0] = 6 /\ d # 3 /\ d # 4
  <2> DEFINE a == x.PC + w + 1
  <2>1. t = Goto(x, a) /\ text = Near(n1, "jump", 1, 3, 1)
    BY <1>1, <1>7 DEF NearGroup, disassemble
  <2> HIDE DEF t, text, w
  <2>2. a \in Int /\ a = x.PC + (1 + w)
    BY <1>1, <1>2
  <2> HIDE DEF a
  <2>3. IsMachine(t) /\ Others(t, x, {"PC"}) /\ t.PC = a % Memory
    BY <2>1, <2>2, GotoType
  <2>4. Kept(t, x) /\ t.PC = Destination(text, x.PC)
    BY <1>4, <2>1, <2>2, <2>3 DEF Kept, Others, FieldNames
  <2>5. text.goes = "jump" /\ ~text.back
    BY <1>4, <2>1
  <2>6. Right(x, n1, t)
    BY <1>3, <2>4, <2>5, JumpRight
  <2> QED BY <2>6 DEF t
<1>8. CASE n1[0] = 7
  <2> DEFINE a == x.PC + w + 4
             y == Push(x, x.PC + 4)
  <2>1. t = Goto(y, a) /\ text = Near(n1, "call", 1, 3, 4)
    BY <1>8 DEF NearGroup, disassemble
  <2> HIDE DEF t, text, w
  <2>2. a \in Int /\ a = x.PC + (4 + w) /\ x.PC + 4 \in Nat
    BY <1>1, <1>2
  <2> HIDE DEF a
  <2>3. IsMachine(y) /\ Others(y, x, {"stk"}) /\ y.stk = push_return_addr(x.stk, x.PC + 4)
    BY <2>2, PushPopType
  <2> HIDE DEF y
  <2>4. IsMachine(t) /\ Others(t, y, {"PC"}) /\ t.PC = a % Memory
    BY <2>1, <2>2, <2>3, GotoType
  <2>5. text.goes = "call" /\ ~text.back /\ text.len = 4
    BY <1>4, <2>1
  <2>6. t.stop = x.stop /\ t.stk = push_return_addr(x.stk, x.PC + text.len)
    BY <2>3, <2>4, <2>5 DEF Others, FieldNames
  <2>7. t.PC = Destination(text, x.PC)
    BY <1>4, <2>1, <2>2, <2>4
  <2>8. Right(x, n1, t)
    BY <1>3, <2>4, <2>5, <2>6, <2>7, CallRight
  <2> QED BY <2>8 DEF t
<1> QED BY <1>5, <1>6, <1>7, <1>8

-----------------------------------------------------------------------------
(* 0 *)

LEMMA BackRight ==
  ASSUME NEW y, NEW x, NEW names, IsMachine(y), Others(y, x, names),
         "stk" \notin names, "stop" \notin names
  PROVE  Back(Return(y), x)
<1> DEFINE t == Return(y)
<1>1. /\ IsMachine(t) /\ Others(t, y, {"stk", "PC"})
      /\ t.PC = Popped(y.stk) /\ t.stk = pop_return_addr(y.stk)
  BY PushPopType
<1> HIDE DEF t
<1>2. y.stk = x.stk /\ y.stop = x.stop /\ t.stop = y.stop
  BY <1>1 DEF Others, FieldNames
<1>3. Back(t, x)
  BY <1>1, <1>2 DEF Back
<1> QED BY <1>3 DEF t

LEMMA StatusTypes ==
  ASSUME NEW r \in Register, NEW ST \in SUBSET Nibble
  PROVE  /\ WithStatus(r, ST) \in Register
         /\ HighStatus(ST) \in SUBSET Nibble
         /\ HighStatus(ST) \cup StatusOf(r) \in SUBSET Nibble
<1>1. WithStatus(r, ST) \in Register
  <2>1. \A b : OfBits(b) \in Nibble
    BY OfBitsType
  <2> QED BY <2>1 DEF WithStatus, Register
<1>2. HighStatus(ST) \in SUBSET Nibble
  BY DEF HighStatus
<1>3. StatusOf(r) \in SUBSET Nibble
  BY DEF StatusOf, Nibble
<1> QED BY <1>1, <1>2, <1>3

LEMMA LogicBehind ==
  ASSUME NEW x, NEW n1 \in Instruction, IsMachine(x)
  PROVE  Behind(Logic(x, n1), x, 4)
<1> DEFINE i == Nib(n1, 3)
           f == F(x, Nib(n1, 2))
           r == Pair(i)[1]
           q == Pair(i)[2]
           v == IF i < 8 THEN and_register(x.reg[r], x.reg[q], f)
                ELSE or_register(x.reg[r], x.reg[q], f)
           y == Advance(x, 4)
<1>1. Nib(n1, 2) \in 0 .. 18 /\ i \in Nibble
  BY NibType DEF Nibble
<1>2. Spanned(f)
  BY <1>1, FieldOf
<1>3. r \in RegisterName /\ q \in RegisterName
  <2> HIDE DEF i
  <2> QED BY <1>1 DEF Pair, Nibble, RegisterName
<1>4. Logic(x, n1) = Set(y, r, v)
  BY DEF Logic
<1>5. Behind(y, x, 4)
  BY AdvanceBehind
<1>6. v \in Register
  <2> HIDE DEF f, r, q, i
  <2>1. x.reg[r] \in Register /\ x.reg[q] \in Register
    BY <1>3 DEF IsMachine
  <2>2. \A j \in In(f) : j \in 0 .. 15
    BY <1>2 DEF Spanned, Ends, In
  <2>3. \A b : OfBits(b) \in Nibble
    BY OfBitsType
  <2>4. \A a \in Register : \A b : and_register(a, b, f) \in Register /\ or_register(a, b, f) \in Register
    BY <2>3, OnType DEF and_register, or_register
  <2> QED BY <2>1, <2>4
<1> HIDE DEF y, r, v
<1> QED BY <1>3, <1>4, <1>5, <1>6, SetBehind

(* RSTK=C and C=RSTK: the two that move an address and go on. *)
LEMMA GroupStack ==
  ASSUME NEW x, NEW n1 \in Instruction, IsMachine(x), ~x.stop, MovesStack(n1)
  PROVE  Right(x, n1, decode_0(x, n1))
<1> DEFINE t == decode_0(x, n1)
           y == Advance(x, 2)
           C == x.reg["C"]
           text == disassemble(n1)
<1>1. n1[0] = 0 /\ n1[1] \in {6, 7}
  BY DEF MovesStack
<1>2. text = Text(2)
  BY <1>1 DEF disassemble, Opcode0
<1>3. ~Misread(n1) /\ ~Cuts(n1, x)
  BY <1>1 DEF Misread, Cuts
<1>4. Behind(y, x, 2)
  BY AdvanceBehind
<1>5. C \in Register /\ AddressIn(C) \in Nat /\ x.stk \in Stack
  <2>1. C \in Register /\ x.stk \in Stack
    BY DEF IsMachine, RegisterName
  <2> HIDE DEF C
  <2>2. AddressIn(C) \in Word
    BY <2>1, AddressType
  <2> QED BY <2>1, <2>2, WordBounds
<1>6. text.goes = "on" /\ text.len = 2
  BY <1>2, TextIs
<1> HIDE DEF y, text
<1>7. CASE n1[1] = 6
  <2>1. t = Push(y, AddressIn(C))
    BY <1>7 DEF decode_0, y
  <2>2. TextPushes(n1) /\ TextPushed(n1, x) = AddressIn(C)
    BY <1>1, <1>7 DEF TextPushes, TextPushed
  <2> HIDE DEF t, C
  <2>3. IsMachine(t) /\ Others(t, y, {"stk"}) /\ t.stk = push_return_addr(y.stk, AddressIn(C))
    BY <1>4, <1>5, <2>1, PushPopType DEF Behind, Kept
  <2>4. t.PC = x.PC + 2 /\ t.stop = x.stop /\ t.stk = push_return_addr(x.stk, AddressIn(C))
    BY <1>4, <2>3 DEF Behind, Kept, Others, FieldNames
  <2>5. Stacks(x, n1, t)
    BY <2>2, <2>4 DEF Stacks
  <2>6. Flows(x, n1, t)
    BY <1>3, <1>6, <2>4 DEF Flows, text
  <2> QED BY <2>3, <2>5, <2>6 DEF Right, t
<1>8. CASE n1[1] = 7
  <2> DEFINE v == WithAddress(C, Popped(x.stk))
             z == Set(y, "C", v)
             s == pop_return_addr(z.stk)
  <2>1. t = [z EXCEPT !.stk = pop_return_addr(@)]
    BY <1>8 DEF decode_0, y
  <2>2. ~TextPushes(n1) /\ TextPops(n1, x, t)
    BY <1>1, <1>6, <1>8 DEF TextPushes, TextPops, Way, text
  <2>3. v \in Register
    BY <1>5, PopType, WithAddressType
  <2>4. Behind(z, x, 2)
    <3> HIDE DEF v
    <3>1. "C" \in RegisterName
      BY DEF RegisterName
    <3> QED BY <1>4, <2>3, <3>1, SetBehind
  <2> HIDE DEF t, z
  <2>5. z.stk = x.stk /\ IsMachine(z)
    BY <2>4 DEF Behind, Kept
  <2>6. s \in Stack
    BY <1>5, <2>5, PopType
  <2>7. t = [z EXCEPT !.stk = s]
    BY <2>1, <2>5 DEF IsMachine
  <2> HIDE DEF s
  <2>8. IsMachine(t) /\ Others(t, z, {"stk"}) /\ t.stk = s
    BY <2>5, <2>6, <2>7 DEF IsMachine, Others, FieldNames
  <2>9. t.PC = x.PC + 2 /\ t.stop = x.stop
    BY <2>4, <2>8 DEF Behind, Kept, Others, FieldNames
  <2>10. Stacks(x, n1, t)
    BY <2>2, <2>5, <2>8 DEF Stacks, s
  <2>11. Flows(x, n1, t)
    BY <1>3, <1>6, <2>9 DEF Flows, text
  <2> QED BY <2>8, <2>10, <2>11 DEF Right, t
<1> QED BY <1>1, <1>7, <1>8

LEMMA Group0 ==
  ASSUME NEW x, NEW n1 \in Instruction, IsMachine(x), ~x.stop, n1[0] = 0
  PROVE  Right(x, n1, decode_0(x, n1))
<1> DEFINE i == n1[1]
           t == decode_0(x, n1)
           y == Advance(x, 2)
           C == x.reg["C"]
           status == WithStatus(C, x.ST)
           high == HighStatus(x.ST)
           both == HighStatus(x.ST) \cup StatusOf(C)
           text == disassemble(n1)
<1>1. i \in 0 .. 15
  BY NibType DEF Nibble
<1>2. text = disassemble(n1) /\ text = Opcode0(n1)
  BY DEF disassemble
<1>3. Behind(y, x, 2) /\ IsMachine(y) /\ Others(y, x, {"PC"})
  BY AdvanceBehind
<1>4. /\ status \in Register /\ high \in SUBSET Nibble /\ both \in SUBSET Nibble
      /\ "C" \in RegisterName /\ x.P \in Nibble
  BY StatusTypes DEF IsMachine, RegisterName
<1> HIDE DEF text
<1>5. CASE i \in {0, 1, 2, 3}
  <2>1. text.goes = "return" /\ ~MovesStack(n1)
    BY <1>2, <1>5 DEF Opcode0, Going, Text, MovesStack
  <2>2. Back(t, x)
    <3>1. CASE i = 0
      <4> DEFINE z == [x EXCEPT !.XM = 1]
      <4>1. t = Return(z)
        BY <3>1 DEF decode_0
      <4>2. IsMachine(z) /\ Others(z, x, {"XM"})
        BY DEF IsMachine, Others, FieldNames
      <4> HIDE DEF t, z
      <4> QED BY <4>1, <4>2, BackRight
    <3>2. CASE i = 1
      <4>1. t = Return(x) /\ Others(x, x, {})
        BY <3>2 DEF decode_0, Others
      <4> HIDE DEF t
      <4> QED BY <4>1, BackRight
    <3>3. CASE i \in {2, 3}
      <4> DEFINE z == Carry(x, i = 2)
      <4>1. t = Return(z)
        BY <3>3 DEF decode_0
      <4>2. IsMachine(z) /\ Others(z, x, {"CARRY"})
        BY CarryType
      <4> HIDE DEF t, z
      <4> QED BY <4>1, <4>2, BackRight
    <3> QED BY <1>5, <3>1, <3>2, <3>3
  <2> HIDE DEF t
  <2>3. Right(x, n1, t)
    BY <1>2, <2>1, <2>2, ReturnRight
  <2> QED BY <2>3 DEF t
<1>6. CASE i \in {6, 7}
  BY <1>6, GroupStack DEF MovesStack
<1>7. CASE i = 14
  <2>1. t = Logic(x, n1)
    BY <1>7 DEF decode_0
  <2>2. text = Text(4) /\ ~MovesStack(n1) /\ ~Cuts(n1, x)
    BY <1>2, <1>7 DEF Opcode0, MovesStack, Cuts
  <2> HIDE DEF t
  <2>3. Behind(t, x, 4)
    BY <2>1, LogicBehind
  <2>4. Right(x, n1, t)
    BY <1>2, <2>2, <2>3, OnRight
  <2> QED BY <2>4 DEF t
<1>8. CASE i = 15
  <2>1. t = Call(x, "doReturnInterupt") /\ "doReturnInterupt" \in CallName
    BY <1>8 DEF decode_0, CallName
  <2>2. text.goes = "indirect" /\ ~MovesStack(n1)
    BY <1>2, <1>8 DEF Opcode0, Going, Text, MovesStack
  <2> HIDE DEF t
  <2>3. IsMachine(t) /\ Others(t, x, {"call"})
    BY <2>1, CallType
  <2>4. Kept(t, x)
    BY <2>3 DEF Kept, Others, FieldNames
  <2>5. Right(x, n1, t)
    BY <1>2, <2>2, <2>4, IndirectRight
  <2> QED BY <2>5 DEF t
<1>9. CASE i \in {4, 5} \cup (8 .. 13)
  <2>1. text = Text(2) /\ ~MovesStack(n1) /\ ~Cuts(n1, x)
    BY <1>2, <1>9 DEF Opcode0, MovesStack, Cuts
  <2>2. Behind(t, x, 2)
    <3>1. CASE i \in {4, 5}
      <4> DEFINE h == IF i = 4 THEN HEX ELSE DEC
      <4>1. t = [y EXCEPT !.hexmode = h] /\ h \in {HEX, DEC}
        BY <3>1 DEF decode_0
      <4> HIDE DEF t, y, h
      <4>2. IsMachine(t) /\ Others(t, y, {"hexmode"})
        BY <1>3, <4>1 DEF IsMachine, Others, FieldNames
      <4> QED BY <1>3, <4>2, StillBehind
    <3>2. CASE i = 8
      <4>1. t = [y EXCEPT !.ST = HighStatus(@)]
        BY <3>2 DEF decode_0
      <4>2. t = [y EXCEPT !.ST = high]
        <5> HIDE DEF t, y
        <5> QED BY <1>3, <4>1 DEF IsMachine, Others, FieldNames
      <4> HIDE DEF t, y, high
      <4> QED BY <1>3, <1>4, <4>2, StatusBehind
    <3>3. CASE i = 9
      <4>1. t = Set(y, "C", status)
        BY <3>3 DEF decode_0
      <4> HIDE DEF t, y, status
      <4> QED BY <1>3, <1>4, <4>1, SetBehind
    <3>4. CASE i = 10
      <4>1. t = [y EXCEPT !.ST = HighStatus(@) \cup StatusOf(C)]
        BY <3>4 DEF decode_0
      <4>2. t = [y EXCEPT !.ST = both]
        <5> HIDE DEF t, y, C
        <5> QED BY <1>3, <4>1 DEF IsMachine, Others, FieldNames
      <4> HIDE DEF t, y, both
      <4> QED BY <1>3, <1>4, <4>2, StatusBehind
    <3>5. CASE i = 11
      <4> DEFINE z == Set(y, "C", status)
      <4>1. t = [z EXCEPT !.ST = HighStatus(@) \cup StatusOf(C)]
        BY <3>5 DEF decode_0
      <4>2. Behind(z, x, 2) /\ IsMachine(z) /\ Others(z, y, {"reg"})
        <5> HIDE DEF y, status
        <5> QED BY <1>3, <1>4, SetBehind, SetType
      <4>3. t = [z EXCEPT !.ST = both]
        <5> HIDE DEF t, y, z, C
        <5> QED BY <1>3, <4>1, <4>2 DEF IsMachine, Others, FieldNames
      <4> HIDE DEF t, z, both
      <4> QED BY <1>4, <4>2, <4>3, StatusBehind
    <3>6. CASE i \in {12, 13}
      <4> DEFINE z == Carry(y, x.P = IF i = 12 THEN 15 ELSE 0)
                 p == IF i = 12 THEN (x.P + 1) % 16 ELSE (x.P - 1) % 16
      <4>1. t = [z EXCEPT !.P = IF i = 12 THEN (@ + 1) % 16 ELSE (@ - 1) % 16]
        BY <3>6 DEF decode_0
      <4>2. IsMachine(z) /\ Others(z, y, {"CARRY"})
        <5> HIDE DEF y
        <5> QED BY <1>3, CarryType
      <4> HIDE DEF z
      <4>3. Behind(z, x, 2)
        BY <1>3, <4>2, StillBehind
      <4>4. t = [z EXCEPT !.P = p] /\ p \in Nibble
        <5>1. z.P = x.P
          <6> HIDE DEF y
          <6> QED BY <1>3, <4>2 DEF Others, FieldNames
        <5>2. p \in Nibble
          BY <1>4 DEF Nibble
        <5> HIDE DEF t
        <5> QED BY <4>1, <4>2, <5>1, <5>2 DEF IsMachine
      <4> HIDE DEF t, p
      <4> QED BY <4>3, <4>4, PointerBehind
    <3> QED BY <1>9, <3>1, <3>2, <3>3, <3>4, <3>5, <3>6
  <2> HIDE DEF t
  <2>3. Right(x, n1, t)
    BY <1>2, <2>1, <2>2, OnRight
  <2> QED BY <2>3 DEF t
<1> QED BY <1>1, <1>5, <1>6, <1>7, <1>8, <1>9

-----------------------------------------------------------------------------
(* 2 and 3 *)
LEMMA Groups2And3 ==
  ASSUME NEW x, NEW n1 \in Instruction, IsMachine(x), ~x.stop, n1[0] \in {2, 3}
  PROVE  Right(x, n1, step_instruction(x, n1))
<1> DEFINE k == n1[1]
           t == step_instruction(x, n1)
           y == Advance(x, 2)
<1>1. k \in Nibble /\ k \in Nat /\ 3 + k \in Nat
  BY NibType DEF Nibble
<1>2. ~MovesStack(n1) /\ ~Cuts(n1, x)
  BY DEF MovesStack, Cuts
<1>3. CASE n1[0] = 2
  <2>1. t = [y EXCEPT !.P = k] /\ disassemble(n1) = Text(2)
    BY <1>3 DEF step_instruction, disassemble
  <2>2. Behind(y, x, 2)
    BY AdvanceBehind
  <2> HIDE DEF t, y, k
  <2>3. Behind(t, x, 2)
    BY <1>1, <2>1, <2>2, PointerBehind
  <2>4. Right(x, n1, t)
    BY <1>2, <2>1, <2>3, OnRight
  <2> QED BY <2>4 DEF t
<1>4. CASE n1[0] = 3
  <2> DEFINE j == 3 + k
  <2>1. t = Advance(load_constant(x, "C", k + 1, n1, 2), j) /\ disassemble(n1) = Text(j)
    BY <1>4 DEF step_instruction, disassemble
  <2>2. "C" \in RegisterName /\ 2 \in Nat
    BY DEF RegisterName
  <2> HIDE DEF t, k, j
  <2>3. j \in Nat
    BY <1>1 DEF j
  <2>4. Behind(t, x, j)
    BY <1>1, <2>1, <2>2, <2>3, LoadBehind
  <2>5. Right(x, n1, t)
    BY <1>2, <2>1, <2>4, OnRight
  <2> QED BY <2>5 DEF t
<1> QED BY <1>3, <1>4

(* Every instruction leaves a machine, calls and returns as its text says, but
   for 8D, and goes where its text says unless that is misread, from every
   machine: emulate.c's decoder beside disasm.c's. *)
THEOREM StepIsRight ==
  ASSUME NEW x, NEW n1 \in Instruction, IsMachine(x), ~x.stop
  PROVE  Right(x, n1, step_instruction(x, n1))
<1>1. n1[0] \in 0 .. 15
  BY NibType DEF Nibble
<1>2. CASE n1[0] = 0
  <2>1. step_instruction(x, n1) = decode_0(x, n1)
    BY <1>2 DEF step_instruction
  <2> QED BY <1>2, <2>1, Group0
<1>3. CASE n1[0] = 1
  <2>1. step_instruction(x, n1) = decode_group_1(x, n1)
    BY <1>3 DEF step_instruction
  <2> QED BY <1>3, <2>1, Group1
<1>4. CASE n1[0] \in {2, 3}
  BY <1>4, Groups2And3
<1>5. CASE n1[0] \in 4 .. 7
  <2>1. step_instruction(x, n1) = NearGroup(x, n1)
    BY <1>5 DEF step_instruction
  <2> QED BY <1>5, <2>1, GroupCarry, GroupNear
<1>6. CASE n1[0] = 8
  <2>1. step_instruction(x, n1) = decode_8(x, n1)
    BY <1>6 DEF step_instruction
  <2> QED BY <1>6, <2>1, Group8
<1>7. CASE n1[0] = 9
  <2>1. step_instruction(x, n1) = decode_9(x, n1)
    BY <1>7 DEF step_instruction
  <2> QED BY <1>7, <2>1, Group9
<1>8. CASE n1[0] > 9
  BY <1>8, GroupsAToF
<1> QED BY <1>1, <1>2, <1>3, <1>4, <1>5, <1>6, <1>7, <1>8

-----------------------------------------------------------------------------
(* Programs. *)

(* A distance of two nibbles. *)
LEMMA TwoNibbles ==
  ASSUME NEW i \in Instruction, NEW k \in {1, 3, 5}
  PROVE  read_int(i, k, 2) = 0 <=> NoDistance(i, k)
<1>1. PICK v : Reads(v, i, k, 2) /\ Num(i, k, 2) = v[0]
  BY NibType, NumReads
<1>2. v[2] = 0 /\ \A j \in 0 .. 1 : v[j] = Nib(i, k + j) + 16 * v[j + 1]
  BY <1>1 DEF Reads
<1>3. Nib(i, k) = i[k] /\ Nib(i, k + 1) = i[k + 1]
  BY NibType
<1>4. i[k] \in 0 .. 15 /\ i[k + 1] \in 0 .. 15
  BY NibType DEF Nibble
<1>5. v[1] = i[k + 1]
  <2>1. v[1] = Nib(i, k + 1) + 16 * v[2]
    BY <1>2
  <2> QED BY <1>2, <1>3, <1>4, <2>1
<1>6. v[0] = i[k] + 16 * v[1]
  <2>1. v[0] = Nib(i, k + 0) + 16 * v[1]
    BY <1>2
  <2> QED BY <1>3, <2>1
<1>7. read_int(i, k, 2) = i[k] + 16 * i[k + 1]
  BY <1>1, <1>5, <1>6, SameNumbers
<1> QED BY <1>4, <1>7 DEF NoDistance

LEMMA NearIs ==
  ASSUME NEW i, NEW goes, NEW j, NEW k, NEW from
  PROVE  /\ Near(i, goes, j, k, from).goes = goes /\ Near(i, goes, j, k, from).len = j + k
         /\ Near(i, goes, j, k, from).back <=>
              (read_int(i, j, k) = 0 /\ goes \in {"yes", "carry", "noCarry"})
  BY DEF Near

(* The texts of the instructions that call and return, opcode by opcode. *)
CallText(i) ==
  i[0] = 7 \/ (i[0] = 8 /\ i[1] \in {13, 14, 15})
LEMMA TextsByOpcode ==
  ASSUME NEW i \in Instruction
  PROVE  LET text == disassemble(i)
         IN /\ text.goes = "call" <=> CallText(i)
            /\ text.goes = "return" <=> i[0] = 0 /\ i[1] \in {0, 1, 2, 3}
            /\ CallText(i) => text.len = IF i[0] = 7 THEN 4 ELSE IF i[1] = 14 THEN 6 ELSE 7
            /\ text.goes = "yes" /\ text.back <=> TestReturns(i)
            /\ text.goes = "carry" /\ text.back <=> i[0] = 4 /\ NoDistance(i, 1)
            /\ text.goes = "noCarry" /\ text.back <=> i[0] = 5 /\ NoDistance(i, 1)
            /\ text.back => text.goes \in {"yes", "carry", "noCarry"}
<1> DEFINE text == disassemble(i)
<1>1. \A j \in 0 .. 6 : i[j] \in 0 .. 15 /\ read_nibble(i, j) = i[j]
  BY NibType DEF Nibble
<1>2. \A k \in {1, 3, 5} : read_int(i, k, 2) = 0 <=> NoDistance(i, k)
  BY TwoNibbles
<1>3. \A k : Text(k).goes = "on" /\ ~Text(k).back
  BY DEF Text
<1>4. \A k, goes : Going(k, goes).goes = goes /\ ~Going(k, goes).back
  BY DEF Going, Text
<1>5. \A k : Nothing(k).goes = "nothing" /\ ~Nothing(k).back
  BY DEF Nothing, Text
<1>6. \A goes : Far(i, goes).goes = goes /\ ~Far(i, goes).back /\ Far(i, goes).len = 7
  BY DEF Far
<1> USE DEF CallText, TestReturns
<1>7. CASE i[0] = 0
  <2>1. text = Opcode0(i) /\ i[1] \in 0 .. 15
    BY <1>1, <1>7 DEF disassemble
  <2>2. \/ i[1] \in {0, 1, 2, 3} /\ text = Going(2, "return")
        \/ i[1] = 15 /\ text = Going(2, "indirect")
        \/ i[1] = 14 /\ text = Text(4)
        \/ i[1] \notin {0, 1, 2, 3} /\ text = Text(2)
    BY <2>1 DEF Opcode0
  <2> HIDE DEF text
  <2> QED BY <1>3, <1>4, <1>7, <2>2 DEF text
<1>8. CASE i[0] \in {1, 2, 3} \/ i[0] > 9
  <2>1. \E k : text = Text(k)
    BY <1>1, <1>8 DEF disassemble, disasm_1, PointerText, ArithmeticText
  <2> HIDE DEF text
  <2> QED BY <1>3, <1>8, <2>1 DEF text
<1>9. CASE i[0] \in {4, 5}
  <2> DEFINE goes == IF i[0] = 4 THEN "carry" ELSE "noCarry"
  <2>1. text = IF read_int(i, 1, 2) = 2 THEN Text(3) ELSE Near(i, goes, 1, 2, 1)
    BY <1>9 DEF disassemble
  <2> HIDE DEF text
  <2>2. /\ text.back <=> read_int(i, 1, 2) = 0
        /\ text.back => text.goes = goes
        /\ text.goes \in {"on", goes}
    BY <1>3, <2>1, NearIs
  <2>3. text.back <=> NoDistance(i, 1)
    BY <1>2, <2>2
  <2> QED BY <1>9, <2>2, <2>3 DEF text
<1>10. CASE i[0] \in {6, 7}
  <2>1. \/ i[0] = 7 /\ text = Near(i, "call", 1, 3, 4)
        \/ i[0] = 6 /\ text = Text(4)
        \/ i[0] = 6 /\ text = Near(i, "jump", 1, 3, 1)
    BY <1>10 DEF disassemble
  <2> HIDE DEF text
  <2> QED BY <1>3, <1>10, <2>1, NearIs DEF text
<1>11. CASE i[0] = 9 \/ (i[0] = 8 /\ i[1] \in {3, 6, 7, 8, 9, 10, 11})
  <2>1. text = Near(i, "yes", 3, 2, 3)
    BY <1>11 DEF disassemble, disasm_8, TestText
  <2> HIDE DEF text
  <2>2. text.goes = "yes" /\ (text.back <=> NoDistance(i, 3))
    BY <1>2, <2>1, NearIs
  <2> QED BY <1>11, <2>2 DEF text
<1>12. CASE i[0] = 8 /\ i[1] = 0
  <2>1. CASE i[2] # 8
    <3>1. \E k : text = Text(k)
      BY <1>12, <2>1 DEF disassemble, disasm_8
    <3> HIDE DEF text
    <3> QED BY <1>3, <1>12, <2>1, <3>1 DEF text
  <2>2. CASE i[2] = 8 /\ i[3] \in {6, 7, 10, 11}
    <3>1. text = Near(i, "yes", 5, 2, 5)
      BY <1>12, <2>2 DEF disassemble, disasm_8, disasm_808
    <3> HIDE DEF text
    <3>2. text.goes = "yes" /\ (text.back <=> NoDistance(i, 5))
      BY <1>2, <3>1, NearIs
    <3> QED BY <1>12, <2>2, <3>2 DEF text
  <2>3. CASE i[2] = 8 /\ i[3] \notin {6, 7, 10, 11}
    <3>1. (\E k : text = Text(k)) \/ text = Going(4, "indirect") \/ text = Nothing(5)
      BY <1>1, <1>12, <2>3 DEF disassemble, disasm_8, disasm_808
    <3> HIDE DEF text
    <3> QED BY <1>3, <1>4, <1>5, <1>12, <2>3, <3>1 DEF text
  <2> QED BY <2>1, <2>2, <2>3
<1>13. CASE i[0] = 8 /\ i[1] \in {1, 2, 4, 5}
  <2>1. (\E k : text = Text(k) \/ text = Nothing(k)) \/ text = Going(4, "indirect")
    <3>1. CASE i[1] # 1
      BY <1>13, <3>1 DEF disassemble, disasm_8
    <3>2. CASE i[1] = 1
      <4>1. text = disasm_81(i) /\ i[2] \in 0 .. 15
        BY <1>1, <1>13, <3>2 DEF disassemble, disasm_8
      <4> HIDE DEF text
      <4> QED BY <4>1 DEF disasm_81, ScratchText, ProgramCounterText
    <3> QED BY <3>1, <3>2
  <2> HIDE DEF text
  <2> QED BY <1>3, <1>4, <1>5, <1>13, <2>1 DEF text
<1>14. CASE i[0] = 8 /\ i[1] \in {12, 13, 14, 15}
  <2>1. text = FarText(i)
    BY <1>14 DEF disassemble, disasm_8
  <2>2. \/ i[1] = 12 /\ text = Near(i, "jump", 2, 4, 2)
        \/ i[1] = 14 /\ text = Near(i, "call", 2, 4, 6)
        \/ i[1] \in {13, 15} /\ text = Far(i, "call")
    BY <1>14, <2>1 DEF FarText
  <2> HIDE DEF text
  <2> QED BY <1>6, <1>14, <2>2, NearIs DEF text
<1>15. i[0] \in 0 .. 15 /\ i[1] \in 0 .. 15
  BY <1>1
<1> QED BY <1>7, <1>8, <1>9, <1>10, <1>11, <1>12, <1>13, <1>14, <1>15

(* What is called and returned from by the opcode is so by the text. *)
LEMMA ByOpcode ==
  ASSUME NEW i \in Instruction, NEW x, NEW t
  PROVE  /\ Pushes(i) <=> TextPushes(i)
         /\ Pushes(i) => Pushed(i, x) = TextPushed(i, x)
         /\ Pops(i, x, t) <=> TextPops(i, x, t)
<1> DEFINE text == disassemble(i)
<1>1. /\ text.goes = "call" <=> CallText(i)
      /\ text.goes = "return" <=> i[0] = 0 /\ i[1] \in {0, 1, 2, 3}
      /\ CallText(i) => text.len = IF i[0] = 7 THEN 4 ELSE IF i[1] = 14 THEN 6 ELSE 7
      /\ text.goes = "yes" /\ text.back <=> TestReturns(i)
      /\ text.goes = "carry" /\ text.back <=> i[0] = 4 /\ NoDistance(i, 1)
      /\ text.goes = "noCarry" /\ text.back <=> i[0] = 5 /\ NoDistance(i, 1)
      /\ text.back => text.goes \in {"yes", "carry", "noCarry"}
  BY TextsByOpcode
<1> HIDE DEF text
<1>2. Pushes(i) <=> TextPushes(i)
  BY <1>1 DEF Pushes, TextPushes, CallText, text
<1>3. ASSUME Pushes(i) PROVE Pushed(i, x) = TextPushed(i, x)
  BY <1>1, <1>3 DEF Pushes, Pushed, TextPushed, CallText, text
<1>4. text.back /\ Way(x, t, text) <=>
        \/ text.goes = "yes" /\ text.back /\ t.CARRY = 1
        \/ text.goes = "carry" /\ text.back /\ x.CARRY = 1
        \/ text.goes = "noCarry" /\ text.back /\ x.CARRY = 0
  BY <1>1 DEF Way
<1>5. Pops(i, x, t) <=> TextPops(i, x, t)
  BY <1>1, <1>4 DEF Pops, TextPops, text
<1> QED BY <1>2, <1>3, <1>5

(* A call or a push leaves a stack only if what it pushed is an address. *)
LEMMA PushedIsNat ==
  ASSUME NEW s \in Stack, NEW a, push_return_addr(s, a) \in Stack
  PROVE  a \in Nat
<1> USE StackAssumption
<1> DEFINE t == push_return_addr(s, a)
<1>1. t.rstk[t.rstkp] = a /\ t.rstkp \in 0 .. NR_RSTK - 1
  <2>1. CASE s.rstkp + 1 >= NR_RSTK
    <3>1. /\ t = [rstk |-> [Shifted(s.rstk) EXCEPT ![s.rstkp] = a], rstkp |-> s.rstkp]
          /\ s.rstkp = NR_RSTK - 1
      BY <2>1, FullPush
    <3>2. s.rstkp \in 0 .. NR_RSTK - 1
      BY <3>1
    <3> QED BY <3>1, <3>2 DEF Shifted
  <2>2. CASE ~(s.rstkp + 1 >= NR_RSTK)
    BY <2>2 DEF push_return_addr, Stack
  <2> QED BY <2>1, <2>2
<1>2. t.rstk \in [0 .. NR_RSTK - 1 -> Nat]
  BY DEF Stack
<1> HIDE DEF t
<1> QED BY <1>1, <1>2

(* The machine an instruction starts from. *)
Ready(before) == [before EXCEPT !.call = "none"]

LEMMA ReadyType ==
  ASSUME NEW x, IsMachine(x)
  PROVE  IsMachine(Ready(x)) /\ Others(Ready(x), x, {"call"})
  BY DEF IsMachine, Others, FieldNames, Ready, CallName

(* What is pushed and popped does not depend on the call that is forgotten. *)
LEMMA ReadyStacks ==
  ASSUME NEW x, NEW i, NEW t, IsMachine(x)
  PROVE  /\ Pushed(i, Ready(x)) = Pushed(i, x)
         /\ Pops(i, Ready(x), t) <=> Pops(i, x, t)
         /\ Cuts(i, Ready(x)) <=> Cuts(i, x)
         /\ Ready(x).stk = x.stk /\ Ready(x).PC = x.PC /\ Ready(x).CARRY = x.CARRY
         /\ Ready(x).stop = x.stop
<1> DEFINE y == Ready(x)
<1>1. Others(y, x, {"call"})
  BY ReadyType
<1> HIDE DEF y
<1>2. /\ y.reg = x.reg /\ y.PC = x.PC /\ y.CARRY = x.CARRY /\ y.stk = x.stk
      /\ y.stop = x.stop
  BY <1>1 DEF Others, FieldNames
<1>3. Pushed(i, y) = Pushed(i, x)
  BY <1>2 DEF Pushed
<1>4. Pops(i, y, t) <=> Pops(i, x, t)
  BY <1>2 DEF Pops
<1>5. Cuts(i, y) <=> Cuts(i, x)
  BY <1>2 DEF Cuts
<1> QED BY <1>2, <1>3, <1>4, <1>5 DEF y

(* The stack's two operations as calls records them. *)
Recorded(i, x, t, q) ==
  IF Pushes(i) THEN Newest(<<Pushed(i, x)>> \o q)
  ELSE IF Pops(i, x, t) /\ q # <<>> THEN Tail(q)
  ELSE q

LEMMA StacksRecorded ==
  ASSUME NEW x, NEW i \in Instruction, NEW t, IsMachine(x), IsMachine(t), Stacks(x, i, t)
  PROVE  Contents(t.stk) = Recorded(i, x, t, Contents(x.stk))
<1> DEFINE s == x.stk
           u == t.stk
           q == Contents(s)
<1>1. s \in Stack /\ u \in Stack
  BY DEF IsMachine
<1>2. CASE Pushes(i)
  <2>1. u = push_return_addr(s, Pushed(i, x))
    BY <1>2, ByOpcode DEF Stacks
  <2> HIDE DEF s, u
  <2>2. Pushed(i, x) \in Nat
    BY <1>1, <2>1, PushedIsNat
  <2>3. Contents(u) = Newest(<<Pushed(i, x)>> \o Contents(s))
    BY <1>1, <2>1, <2>2, PushKeepsNewest
  <2> QED BY <1>2, <2>3 DEF Recorded, s, u
<1>3. CASE ~Pushes(i) /\ Pops(i, x, t)
  <2>1. u = pop_return_addr(s)
    BY <1>3, ByOpcode DEF Stacks
  <2> HIDE DEF s, u
  <2>2. Contents(u) = IF Contents(s) = <<>> THEN <<>> ELSE Tail(Contents(s))
    BY <1>1, <2>1, PopTakesNewest
  <2> QED BY <1>3, <2>2 DEF Recorded, s, u
<1>4. CASE ~Pushes(i) /\ ~Pops(i, x, t)
  <2>1. u = s
    BY <1>4, ByOpcode DEF Stacks
  <2> QED BY <1>4, <2>1 DEF Recorded
<1> QED BY <1>2, <1>3, <1>4

(* What every step needs of the programs. *)
IInv == TypeOK /\ StackKeepsNewest /\ program \in Seq(SUBSET Instruction)

LEMMA InitInv == Init => IInv
<1> SUFFICES ASSUME Init PROVE IInv
  OBVIOUS
<1>1. IsMachine(m) /\ program \in Seq(SUBSET Instruction) /\ calls = Contents(m.stk)
  BY ProcessorAssumption DEF Init
<1> QED BY <1>1 DEF IInv, TypeOK, StackKeepsNewest

(* The instruction a step executes. *)
LEMMA StepExecutes ==
  ASSUME IInv, Step
  PROVE  /\ n' \in Instruction
         /\ m' = step_instruction(Ready(m), n')
         /\ calls' = Recorded(n', m, m', calls)
         /\ program' \in Seq(SUBSET Instruction)
         /\ ~m.stop
<1>1. program \in Seq(SUBSET Instruction) /\ program # <<>> /\ ~m.stop
  BY DEF IInv, Step
<1>2. PICK i \in Head(program) :
        /\ n' = i
        /\ m' = step_instruction(Ready(m), i)
        /\ calls' = Recorded(i, m, m', calls)
  BY DEF Step, Ready, Recorded
<1>3. Head(program) \in SUBSET Instruction /\ Tail(program) \in Seq(SUBSET Instruction)
  <2> DEFINE S == SUBSET Instruction
  <2>1. program \in Seq(S) /\ program # <<>>
    BY <1>1
  <2> HIDE DEF S
  <2>2. Head(program) \in S /\ Tail(program) \in Seq(S)
    BY <2>1
  <2> QED BY <2>2 DEF S
<1>4. program' = Tail(program)
  BY DEF Step
<1> QED BY <1>1, <1>2, <1>3, <1>4

LEMMA StepFollows ==
  ASSUME IInv, Step
  PROVE  /\ IsMachine(m) /\ IsMachine(Ready(m)) /\ ~Ready(m).stop
         /\ Right(Ready(m), n', m')
<1>1. IsMachine(m) /\ n' \in Instruction /\ m' = step_instruction(Ready(m), n') /\ ~m.stop
  BY StepExecutes DEF IInv, TypeOK
<1>2. IsMachine(Ready(m)) /\ ~Ready(m).stop
  BY <1>1, ReadyType, ReadyStacks
<1>3. Right(Ready(m), n', step_instruction(Ready(m), n'))
  BY <1>1, <1>2, StepIsRight
<1> QED BY <1>1, <1>2, <1>3

LEMMA NextInv == IInv /\ [Step]_vars => IInv'
<1> SUFFICES ASSUME IInv, [Step]_vars PROVE IInv'
  OBVIOUS
<1>1. CASE Step
  <2>1. Right(Ready(m), n', m') /\ IsMachine(m) /\ IsMachine(Ready(m))
    BY <1>1, StepFollows
  <2>2. IsMachine(m') /\ Stacks(Ready(m), n', m')
    BY <2>1 DEF Right
  <2>3. Contents(m'.stk) = Recorded(n', Ready(m), m', Contents(Ready(m).stk))
    BY <1>1, <2>1, <2>2, StepExecutes, StacksRecorded
  <2>4. Recorded(n', Ready(m), m', Contents(Ready(m).stk)) = Recorded(n', m, m', Contents(m.stk))
    BY <2>1, ReadyStacks DEF Recorded
  <2>5. calls = Contents(m.stk)
    BY DEF IInv, StackKeepsNewest
  <2>6. calls' = Recorded(n', m, m', calls) /\ program' \in Seq(SUBSET Instruction)
    BY <1>1, StepExecutes
  <2>7. Contents(m'.stk) = calls'
    BY <2>3, <2>4, <2>5, <2>6
  <2> QED BY <2>2, <2>6, <2>7 DEF IInv, TypeOK, StackKeepsNewest
<1>2. CASE UNCHANGED vars
  BY <1>2 DEF IInv, TypeOK, StackKeepsNewest, vars
<1> QED BY <1>1, <1>2

LEMMA SpecInv == Spec => []IInv
  BY InitInv, NextInv, PTL DEF Spec

(* Registers hold nibbles and pointers 20 bits after every program, from every
   machine, with every memory behind it (emulate.c, emulate.h). *)
THEOREM TypeCorrect == Spec => []TypeOK
<1>1. IInv => TypeOK
  BY DEF IInv
<1> QED BY <1>1, SpecInv, PTL

(* The return stack holds the newest NR_RSTK addresses called from or pushed
   and not returned to, for every depth, whatever the program (actions.c,
   push_return_addr() and pop_return_addr(), called from emulate.c). *)
THEOREM StackCorrect == Spec => []StackKeepsNewest
<1>1. IInv => StackKeepsNewest
  BY DEF IInv
<1> QED BY <1>1, SpecInv, PTL

(* Of a test and its opposite one holds, and the orders are those of the
   numbers, on every machine a program reaches (register.c). *)
THEOREM TestsCorrect == Spec => []TestsAgree
<1>1. IInv => TestsAgree
  BY OrdersAgree DEF IInv, TypeOK
<1> QED BY <1>1, SpecInv, PTL

(* The CPU goes on, jumps, calls and returns as the disassembler prints,
   whatever the instruction but those in Misread, the machine and the distance,
   keeps the return stack accordingly, and stops exactly at what has no text; 520
   wraps (emulate.c and disasm.c). *)
THEOREM DecodersAgree == Spec => DisassemblyAgrees
<1> DEFINE Agree ==
      LET text == disassemble(n')
          behind == m.PC + text.len
      IN ~Misread(n') =>
           /\ m'.stop <=> text.goes = "nothing"
           /\ text.goes = "on" => m'.PC = IF Cuts(n', m) THEN behind % Memory ELSE behind
           /\ text.goes = "return" => m'.PC = Popped(m.stk)
           /\ text.goes \in {"yes", "carry", "noCarry", "jump", "call"} =>
                m'.PC = IF ~Taken(text) THEN behind
                        ELSE IF text.back THEN Popped(m.stk) ELSE Destination(text, m.PC)
           /\ MovesStack(n') \/
                m'.stk = CASE text.goes = "call" -> push_return_addr(m.stk, behind)
                           [] Returns(text) -> pop_return_addr(m.stk)
                           [] OTHER -> m.stk
<1>1. IInv /\ [Step]_vars => [Agree]_vars
  <2> SUFFICES ASSUME IInv, Step, ~Misread(n')
               PROVE  Agree
    OBVIOUS
  <2> DEFINE x == Ready(m)
  <2>1. Right(x, n', m') /\ IsMachine(m)
    BY StepFollows
  <2>2. Flows(x, n', m') /\ Stacks(x, n', m')
    BY <2>1 DEF Right
  <2>3. x.stk = m.stk /\ x.PC = m.PC /\ x.CARRY = m.CARRY /\ (Cuts(n', x) <=> Cuts(n', m))
    BY <2>1, ReadyStacks
  <2> HIDE DEF x
  <2>4. \A text : Way(x, m', text) <=> Taken(text)
    BY <2>3 DEF Way, Taken
  <2> DEFINE text == disassemble(n')
             behind == m.PC + text.len
  <2>5. text.goes = "call" => n'[0] # 0 /\ ~Returns(text)
    BY StepExecutes, TextsByOpcode DEF CallText, Returns
  <2>6. MovesStack(n') \/
          m'.stk = CASE text.goes = "call" -> push_return_addr(m.stk, behind)
                     [] Returns(text) -> pop_return_addr(m.stk)
                     [] OTHER -> m.stk
    <3> SUFFICES ASSUME ~MovesStack(n')
                 PROVE  m'.stk = CASE text.goes = "call" -> push_return_addr(m.stk, behind)
                                   [] Returns(text) -> pop_return_addr(m.stk)
                                   [] OTHER -> m.stk
      OBVIOUS
    <3>1. /\ TextPushes(n') <=> text.goes = "call"
          /\ TextPushes(n') => TextPushed(n', x) = behind
          /\ TextPops(n', x, m') <=> Returns(text)
      BY <2>3, <2>4, <2>5 DEF TextPushes, TextPushed, TextPops, Returns, MovesStack, Misread
    <3> HIDE DEF text, behind
    <3>2. m'.stk = IF TextPushes(n') THEN push_return_addr(m.stk, TextPushed(n', x))
                   ELSE IF TextPops(n', x, m') THEN pop_return_addr(m.stk) ELSE m.stk
      BY <2>2, <2>3 DEF Stacks
    <3>3. CASE text.goes = "call"
      BY <2>5, <3>1, <3>2, <3>3
    <3>4. CASE text.goes # "call" /\ Returns(text)
      BY <3>1, <3>2, <3>4
    <3>5. CASE text.goes # "call" /\ ~Returns(text)
      BY <3>1, <3>2, <3>5
    <3> QED BY <3>3, <3>4, <3>5
  <2> QED BY <2>2, <2>3, <2>4, <2>6 DEF Flows
<1>2. Spec => [][Agree]_vars
  BY <1>1, SpecInv, PTL DEF Spec
<1> QED BY <1>2 DEF DisassemblyAgrees

-----------------------------------------------------------------------------
(* What the arithmetic leaves alone. *)

LEMMA FewChanged ==
  ASSUME NEW r1, NEW r2, NEW S \in SUBSET {r1, r2}
  PROVE  /\ Cardinality(S) <= 2
         /\ r1 = r2 => Cardinality(S) <= 1
<1>1. Cardinality({}) = 0 /\ IsFiniteSet({})
  BY FS_EmptySet
<1>2. Cardinality({r1}) = 1 /\ IsFiniteSet({r1})
  BY FS_Singleton
<1>3. Cardinality({r2}) = 1 /\ IsFiniteSet({r2})
  BY FS_Singleton
<1>4. r1 # r2 => Cardinality({r1, r2}) = 2
  <2>1. Cardinality({r1} \cup {r2}) = IF r2 \in {r1} THEN Cardinality({r1}) ELSE Cardinality({r1}) + 1
    BY <1>2, FS_AddElement
  <2>2. {r1} \cup {r2} = {r1, r2}
    OBVIOUS
  <2> QED BY <1>2, <2>1, <2>2
<1>5. S = {} \/ S = {r1} \/ S = {r2} \/ S = {r1, r2}
  OBVIOUS
<1>6. r1 = r2 => {r1, r2} = {r1}
  OBVIOUS
<1> QED BY <1>1, <1>2, <1>3, <1>4, <1>5, <1>6

(* An arithmetic instruction changes one register, an exchange two, nothing of
   them outside its field, and no pointer, for every field, every value of P
   and every program (register.c, called from emulate.c). *)
THEOREM FieldCorrect == Spec => OnlyTheField
<1> DEFINE Only ==
      n'[0] > 9 =>
        LET f == F(m, Touches(n').code)
            changed == {r \in RegisterName : m'.reg[r] # m.reg[r]}
        IN /\ Cardinality(changed) <= IF Touches(n').two THEN 2 ELSE 1
           /\ \A r \in changed, i \in 0 .. 15 : i \notin In(f) => m'.reg[r][i] = m.reg[r][i]
           /\ m'.P = m.P /\ m'.D0 = m.D0 /\ m'.D1 = m.D1 /\ m'.stk = m.stk
<1>1. IInv /\ [Step]_vars => [Only]_vars
  <2> SUFFICES ASSUME IInv, Step, n'[0] > 9
               PROVE  Only
    OBVIOUS
  <2> DEFINE i == n'
             x == Ready(m)
             t == m'
             k == IF i[0] < 12 THEN 3 ELSE 2
             y == Advance(x, k)
             code == Touches(i).code
             f == F(m, code)
             two == Touches(i).two
             changed == {r \in RegisterName : m'.reg[r] # m.reg[r]}
  <2>1. i \in Instruction /\ IsMachine(m) /\ IsMachine(x) /\ t = step_instruction(x, i)
    BY StepExecutes, StepFollows
  <2>2. IsMachine(y) /\ Others(y, x, {"PC"}) /\ Others(x, m, {"call"})
    BY <2>1, AdvanceBehind, ReadyType
  <2>3. x.P = m.P
    <3> HIDE DEF x
    <3> QED BY <2>2 DEF Others, FieldNames
  <2>4. F(x, code) = f
    <3> HIDE DEF x, code
    <3> QED BY <2>3 DEF F
  <2>5. PICK r1 \in RegisterName, r2 \in RegisterName :
          WorksOn(t, y, f, r1, r2) /\ (~two => r1 = r2)
    <3>1. \E r1, r2 \in RegisterName :
            WorksOn(step_instruction(x, i), y, F(x, code), r1, r2) /\ (~two => r1 = r2)
      <4> HIDE DEF x, i
      <4> QED BY <2>1, ArithmeticWorks DEF i
    <3> HIDE DEF x, y, f, code, i, t, two
    <3> QED BY <2>1, <2>4, <3>1
  <2> HIDE DEF x, y, f, code, two, t
  <2>6. y.reg = m.reg
    BY <2>2 DEF Others, FieldNames
  <2>7. m'.P = m.P /\ m'.D0 = m.D0 /\ m'.D1 = m.D1 /\ m'.stk = m.stk
    BY <2>2, <2>5 DEF WorksOn, Others, FieldNames, t
  <2>8. changed \subseteq {r1, r2}
    BY <2>5, <2>6 DEF WorksOn, t
  <2>9. \A r \in RegisterName, j \in 0 .. 15 : j \notin In(f) => m'.reg[r][j] = m.reg[r][j]
    BY <2>5, <2>6 DEF WorksOn, Beside, t
  <2>10. Cardinality(changed) <= IF two THEN 2 ELSE 1
    <3> HIDE DEF changed
    <3> QED BY <2>5, <2>8, FewChanged
  <2> QED BY <2>7, <2>9, <2>10 DEF f, code, two
<1>2. Spec => [][Only]_vars
  BY <1>1, SpecInv, PTL DEF Spec
<1> QED BY <1>2, PTL DEF OnlyTheField

-----------------------------------------------------------------------------
(* What the arithmetic computes. *)

ArithmeticName == {"A", "B", "C", "D"}
(* The numbers in a field of the four registers, *)
Numbers4(y, s, e) == [r \in ArithmeticName |-> Value(y.reg[r], Span(s, e), y.hexmode)]
(* which are digits of the base. *)
AllDigits(y, s, e, base) == \A r \in ArithmeticName : AreDigits(y.reg[r], s, e, base)
(* The field of the register r is left with a number, and CARRY tells whether it
   fits. *)
Computes(t, r, s, e, base, exact) ==
  LET W == Weight(base, e + 1 - s)
  IN /\ Value(t.reg[r], Span(s, e), base) = exact % W
     /\ t.CARRY = IF exact \in 0 .. W - 1 THEN 0 ELSE 1

LEMMA SetCarryComputes ==
  ASSUME NEW y, NEW r \in RegisterName, NEW v, NEW s, NEW e, NEW base, NEW exact,
         IsMachine(y), IsResult(v, y.reg[r], Span(s, e)),
         Agrees(v, exact, Span(s, e), base, Weight(base, e + 1 - s))
  PROVE  Computes(SetCarry(y, r, v), r, s, e, base, exact)
<1> DEFINE t == SetCarry(y, r, v)
<1>1. Left(t, y, r, v)
  BY SetCarryType
<1> HIDE DEF t
<1> QED BY <1>1 DEF Computes, Agrees, Left, t

(* The destination and the number of a sum, a difference and a negation. *)
SumTo(i) == IF i < 12 THEN Operands(i)[1] ELSE Alu(i)
SumIs(i, V) ==
  IF i < 12 THEN V[Operands(i)[1]] + V[IF i \in 4 .. 7 THEN Operands(i)[1] ELSE Operands(i)[2]]
  ELSE V[Alu(i)] - 1
DifferenceTo(i) == IF i \in 4 .. 7 THEN Alu(i) ELSE IF i < 12 THEN Operands(i)[1] ELSE Pair(i % 4)[1]
DifferenceIs(i, V) ==
  IF i \in 4 .. 7 THEN V[Alu(i)] + 1
  ELSE IF i < 12 THEN V[Operands(i)[1]] - V[Operands(i)[2]]
  ELSE V[Pair(i % 4)[2]] - V[Pair(i % 4)[1]]

LEMMA OperandNames ==
  ASSUME NEW i \in Nibble
  PROVE  /\ ArithmeticName \subseteq RegisterName
         /\ Alu(i) \in ArithmeticName
         /\ Operands(i)[1] \in ArithmeticName /\ Operands(i)[2] \in ArithmeticName
         /\ Pair(i % 4)[1] \in ArithmeticName /\ Pair(i % 4)[2] \in ArithmeticName
<1>1. \A k \in Nat : Pair(k)[1] \in ArithmeticName /\ Pair(k)[2] \in ArithmeticName
  BY DEF Pair, ArithmeticName
<1>2. i \in Nat /\ i % 4 \in Nat /\ 4 + (i % 4) \in Nat
  BY DEF Nibble
<1>3. Operands(i)[1] \in ArithmeticName /\ Operands(i)[2] \in ArithmeticName
  BY <1>1, <1>2 DEF Operands
<1>4. Alu(i) \in ArithmeticName
  BY <1>2 DEF Alu, ALU, ArithmeticName
<1> QED BY <1>1, <1>2, <1>3, <1>4 DEF ArithmeticName, RegisterName

(* What the loops need of a machine with digits in the field. *)
LEMMA Computable ==
  ASSUME NEW y, NEW s, NEW e, IsMachine(y), Ends(s, e), AllDigits(y, s, e, y.hexmode),
         NEW r1 \in ArithmeticName, NEW r2 \in ArithmeticName, NEW res \in ArithmeticName
  PROVE  LET V == Numbers4(y, s, e)
             f == Span(s, e)
             W == Weight(y.hexmode, e + 1 - s)
             b == y.hexmode
         IN /\ Agrees(add_register(y.reg[res], y.reg[r1], y.reg[r2], f, b), V[r1] + V[r2], f, b, W)
            /\ Agrees(sub_register(y.reg[res], y.reg[r1], y.reg[r2], f, b), V[r1] - V[r2], f, b, W)
            /\ Agrees(inc_register(y.reg[r1], f, b), V[r1] + 1, f, b, W)
            /\ Agrees(dec_register(y.reg[r1], f, b), V[r1] - 1, f, b, W)
            /\ Agrees(complement_2_register(y.reg[r1], f, b), -V[r1], f, b, W)
            /\ IsResult(add_register(y.reg[res], y.reg[r1], y.reg[r2], f, b), y.reg[res], f)
            /\ IsResult(sub_register(y.reg[res], y.reg[r1], y.reg[r2], f, b), y.reg[res], f)
            /\ IsResult(inc_register(y.reg[r1], f, b), y.reg[r1], f)
            /\ IsResult(dec_register(y.reg[r1], f, b), y.reg[r1], f)
            /\ IsResult(complement_2_register(y.reg[r1], f, b), y.reg[r1], f)
<1> DEFINE V == Numbers4(y, s, e)
           f == Span(s, e)
           W == Weight(y.hexmode, e + 1 - s)
           b == y.hexmode
           x1 == y.reg[r1]
           x2 == y.reg[r2]
           x3 == y.reg[res]
<1>1. b \in 2 .. 16 /\ b \in Nat /\ 1 \in 0 .. b /\ 1 \in Nat
  BY DEF IsMachine, HEX, DEC
<1>2. x1 \in Register /\ x2 \in Register /\ x3 \in Register
  BY DEF IsMachine, ArithmeticName, RegisterName
<1>3. AreDigits(x1, s, e, b) /\ AreDigits(x2, s, e, b)
  BY DEF AllDigits
<1>4. V[r1] = Value(x1, f, b) /\ V[r2] = Value(x2, f, b)
  BY DEF Numbers4
<1>5. Spanned(f)
  BY DEF Spanned, Span
<1> HIDE DEF V, f, b, x1, x2, x3, W
<1>6. /\ Agrees(add_register(x3, x1, x2, f, b), Value(x1, f, b) + Value(x2, f, b), f, b, W)
      /\ Agrees(sub_register(x3, x1, x2, f, b), Value(x1, f, b) - Value(x2, f, b), f, b, W)
      /\ Agrees(Upwards(x1, 1, f, b), Value(x1, f, b) + 1, f, b, W)
      /\ Agrees(Downwards(x1, 1, f, b), Value(x1, f, b) - 1, f, b, W)
  BY <1>1, <1>3, ArithmeticIsExact DEF f, W, b
<1>7. Agrees(complement_2_register(x1, f, b), -Value(x1, f, b), f, b, W)
  BY <1>1, <1>3, NegationIsExact DEF f, W, b
<1>8. /\ IsResult(add_register(x3, x1, x2, f, b), x3, f)
      /\ IsResult(sub_register(x3, x1, x2, f, b), x3, f)
      /\ IsResult(inc_register(x1, f, b), x1, f)
      /\ IsResult(dec_register(x1, f, b), x1, f)
      /\ IsResult(complement_2_register(x1, f, b), x1, f)
  BY <1>1, <1>2, <1>5, ResultTypes
<1>9. inc_register(x1, f, b) = Upwards(x1, 1, f, b) /\ dec_register(x1, f, b) = Downwards(x1, 1, f, b)
  BY DEF inc_register, dec_register
<1> QED BY <1>4, <1>6, <1>7, <1>8, <1>9 DEF V, f, W, b, x1, x2, x3

LEMMA SumsCompute ==
  ASSUME NEW y, NEW i \in Nibble, NEW s, NEW e, IsMachine(y), Ends(s, e),
         AllDigits(y, s, e, y.hexmode)
  PROVE  Computes(Sums(y, i, Span(s, e)), SumTo(i), s, e, y.hexmode, SumIs(i, Numbers4(y, s, e)))
<1> DEFINE f == Span(s, e)
           b == y.hexmode
           W == Weight(b, e + 1 - s)
           V == Numbers4(y, s, e)
           r1 == Operands(i)[1]
           r2 == IF i \in 4 .. 7 THEN r1 ELSE Operands(i)[2]
           r3 == Alu(i)
           sum == add_register(y.reg[r1], y.reg[r1], y.reg[r2], f, b)
           less == dec_register(y.reg[r3], f, b)
<1>1. r1 \in ArithmeticName /\ r2 \in ArithmeticName /\ r3 \in ArithmeticName
  BY OperandNames
<1>2. r1 \in RegisterName /\ r3 \in RegisterName
  BY <1>1, OperandNames
<1>3. Sums(y, i, f) = IF i < 12 THEN SetCarry(y, r1, sum) ELSE SetCarry(y, r3, less)
  BY DEF Sums
<1>4. SumTo(i) = IF i < 12 THEN r1 ELSE r3
  BY DEF SumTo
<1>5. SumIs(i, V) = IF i < 12 THEN V[r1] + V[r2] ELSE V[r3] - 1
  BY DEF SumIs
<1> HIDE DEF r1, r2, r3
<1>6. Agrees(sum, V[r1] + V[r2], f, b, W) /\ IsResult(sum, y.reg[r1], f)
  BY <1>1, Computable
<1>7. Agrees(less, V[r3] - 1, f, b, W) /\ IsResult(less, y.reg[r3], f)
  BY <1>1, Computable
<1> HIDE DEF sum, less, V
<1>8. Computes(SetCarry(y, r1, sum), r1, s, e, b, V[r1] + V[r2])
  BY <1>2, <1>6, SetCarryComputes
<1>9. Computes(SetCarry(y, r3, less), r3, s, e, b, V[r3] - 1)
  BY <1>2, <1>7, SetCarryComputes
<1> QED BY <1>3, <1>4, <1>5, <1>8, <1>9 DEF V

LEMMA DifferencesCompute ==
  ASSUME NEW y, NEW i \in Nibble, NEW s, NEW e, IsMachine(y), Ends(s, e),
         AllDigits(y, s, e, y.hexmode)
  PROVE  Computes(Differences(y, i, Span(s, e)), DifferenceTo(i), s, e, y.hexmode,
                  DifferenceIs(i, Numbers4(y, s, e)))
<1> DEFINE f == Span(s, e)
           b == y.hexmode
           W == Weight(b, e + 1 - s)
           V == Numbers4(y, s, e)
           r1 == Operands(i)[1]
           r2 == Operands(i)[2]
           r3 == Alu(i)
           z1 == Pair(i % 4)[1]
           z2 == Pair(i % 4)[2]
           more == inc_register(y.reg[r3], f, b)
           less == sub_register(y.reg[r1], y.reg[r1], y.reg[r2], f, b)
           back == sub_register(y.reg[z1], y.reg[z2], y.reg[z1], f, b)
<1>1. /\ r1 \in ArithmeticName /\ r2 \in ArithmeticName /\ r3 \in ArithmeticName
      /\ z1 \in ArithmeticName /\ z2 \in ArithmeticName
  BY OperandNames
<1>2. r1 \in RegisterName /\ r3 \in RegisterName /\ z1 \in RegisterName
  BY <1>1, OperandNames
<1>10. i \in 0 .. 15
  BY DEF Nibble
<1>3. Differences(y, i, f) =
        IF i \in 4 .. 7 THEN SetCarry(y, r3, more)
        ELSE IF i < 12 THEN SetCarry(y, r1, less) ELSE SetCarry(y, z1, back)
  <2>1. CASE i \in 4 .. 7
    BY <2>1 DEF Differences
  <2>2. CASE i < 4 \/ i \in 8 .. 11
    BY <1>10, <2>2 DEF Differences
  <2>3. CASE i > 11
    BY <1>10, <2>3 DEF Differences
  <2> QED BY <1>10, <2>1, <2>2, <2>3
<1>4. DifferenceTo(i) = IF i \in 4 .. 7 THEN r3 ELSE IF i < 12 THEN r1 ELSE z1
  BY DEF DifferenceTo
<1>5. DifferenceIs(i, V) =
        IF i \in 4 .. 7 THEN V[r3] + 1 ELSE IF i < 12 THEN V[r1] - V[r2] ELSE V[z2] - V[z1]
  BY DEF DifferenceIs
<1> HIDE DEF r1, r2, r3, z1, z2
<1>6. Agrees(more, V[r3] + 1, f, b, W) /\ IsResult(more, y.reg[r3], f)
  BY <1>1, Computable
<1>7. Agrees(less, V[r1] - V[r2], f, b, W) /\ IsResult(less, y.reg[r1], f)
  BY <1>1, Computable
<1>8. Agrees(back, V[z2] - V[z1], f, b, W) /\ IsResult(back, y.reg[z1], f)
  BY <1>1, Computable
<1> HIDE DEF more, less, back, V
<1>9. /\ Computes(SetCarry(y, r3, more), r3, s, e, b, V[r3] + 1)
      /\ Computes(SetCarry(y, r1, less), r1, s, e, b, V[r1] - V[r2])
      /\ Computes(SetCarry(y, z1, back), z1, s, e, b, V[z2] - V[z1])
  BY <1>2, <1>6, <1>7, <1>8, SetCarryComputes
<1> QED BY <1>3, <1>4, <1>5, <1>9 DEF V

LEMMA NegationsCompute ==
  ASSUME NEW y, NEW i \in 8 .. 11, NEW s, NEW e, IsMachine(y), Ends(s, e),
         AllDigits(y, s, e, y.hexmode)
  PROVE  Computes(Shifts(y, i, Span(s, e)), Alu(i), s, e, y.hexmode, -(Numbers4(y, s, e)[Alu(i)]))
<1> DEFINE f == Span(s, e)
           b == y.hexmode
           W == Weight(b, e + 1 - s)
           V == Numbers4(y, s, e)
           r == Alu(i)
           minus == complement_2_register(y.reg[r], f, b)
<1>1. r \in ArithmeticName /\ r \in RegisterName
  BY OperandNames DEF Nibble
<1>2. Shifts(y, i, f) = SetCarry(y, r, minus)
  BY DEF Shifts
<1> HIDE DEF r
<1>3. Agrees(minus, -V[r], f, b, W) /\ IsResult(minus, y.reg[r], f)
  BY <1>1, Computable
<1> HIDE DEF minus, V
<1>4. Computes(SetCarry(y, r, minus), r, s, e, b, -V[r])
  BY <1>1, <1>3, SetCarryComputes
<1> QED BY <1>2, <1>4 DEF V, r

(* The additions of constants, in hexadecimal. *)
LEMMA ConstantsCompute ==
  ASSUME NEW y, NEW r \in ArithmeticName, NEW k \in 1 .. 16, NEW s, NEW e,
         IsMachine(y), Ends(s, e)
  PROVE  LET v == Value(y.reg[r], Span(s, e), 16)
             f == Span(s, e)
         IN /\ Computes(SetCarry(y, r, add_register_constant(y.reg[r], f, k)), r, s, e, 16, v + k)
            /\ Computes(SetCarry(y, r, sub_register_constant(y.reg[r], f, k)), r, s, e, 16, v - k)
<1> DEFINE f == Span(s, e)
           x == y.reg[r]
           v == Value(x, f, 16)
           W == Weight(16, e + 1 - s)
           more == add_register_constant(x, f, k)
           less == sub_register_constant(x, f, k)
<1>1. r \in RegisterName /\ x \in Register
  BY DEF IsMachine, ArithmeticName, RegisterName
<1>2. AreDigits(x, s, e, 16)
  <2> HIDE DEF x
  <2>1. \A j \in s .. e : j \in 0 .. 15
    BY DEF Ends
  <2> QED BY <1>1, <2>1 DEF AreDigits, Register, Nibble
<1>3. Spanned(f)
  BY DEF Spanned, Span
<1>4. 16 \in 2 .. 16 /\ 16 \in Nat /\ k \in 0 .. 16 /\ k \in Nat
  OBVIOUS
<1> HIDE DEF f, x, W
<1>5. Agrees(more, v + k, f, 16, W) /\ Agrees(less, v - k, f, 16, W)
  <2>1. Agrees(Upwards(x, k, f, 16), v + k, f, 16, W) /\ Agrees(Downwards(x, k, f, 16), v - k, f, 16, W)
    BY <1>2, <1>4, ArithmeticIsExact DEF f, W
  <2> QED BY <2>1 DEF add_register_constant, sub_register_constant
<1>6. IsResult(more, x, f) /\ IsResult(less, x, f)
  BY <1>1, <1>3, <1>4, ResultTypes
<1> HIDE DEF more, less, v
<1>7. /\ Computes(SetCarry(y, r, more), r, s, e, 16, v + k)
      /\ Computes(SetCarry(y, r, less), r, s, e, 16, v - k)
  BY <1>1, <1>5, <1>6, SetCarryComputes DEF f, x, W
<1> QED BY <1>7 DEF more, less, v, f, x

(* In a field of at most 6 nibbles a power is what its numeral says. *)
LEMMA SmallPowers ==
  ASSUME NEW base \in {DEC, HEX}, NEW k \in 1 .. 6
  PROVE  Weight(base, k) = base ^ k
<1>1. base \in {10, 16}
  BY DEF DEC, HEX
<1>2. PICK w : Powers(w, base, k) /\ Weight(base, k) = w[k]
  BY <1>1, WeightSteps
<1>3. w[0] = 1 /\ \A j \in 0 .. k - 1 : w[j + 1] = base * w[j]
  BY <1>2 DEF Powers
<1>4. CASE base = 10
  <2>1. w[1] = base
    BY <1>3, <1>4
  <2>2. k >= 2 => w[2] = 100
    BY <1>3, <1>4, <2>1
  <2>3. k >= 3 => w[3] = 1000
    BY <1>3, <1>4, <2>2
  <2>4. k >= 4 => w[4] = 10000
    BY <1>3, <1>4, <2>3
  <2>5. k >= 5 => w[5] = 100000
    BY <1>3, <1>4, <2>4
  <2>6. k >= 6 => w[6] = 1000000
    BY <1>3, <1>4, <2>5
  <2>7. CASE k = 1
    BY <1>2, <1>4, <2>1, <2>7
  <2>8. CASE k = 2
    BY <1>2, <1>4, <2>2, <2>8
  <2>9. CASE k = 3
    BY <1>2, <1>4, <2>3, <2>9
  <2>10. CASE k = 4
    BY <1>2, <1>4, <2>4, <2>10
  <2>11. CASE k = 5
    BY <1>2, <1>4, <2>5, <2>11
  <2>12. CASE k = 6
    BY <1>2, <1>4, <2>6, <2>12
  <2> QED BY <2>7, <2>8, <2>9, <2>10, <2>11, <2>12
<1>5. CASE base = 16
  <2>1. w[1] = base
    BY <1>3, <1>5
  <2>2. k >= 2 => w[2] = 256
    BY <1>3, <1>5, <2>1
  <2>3. k >= 3 => w[3] = 4096
    BY <1>3, <1>5, <2>2
  <2>4. k >= 4 => w[4] = 65536
    BY <1>3, <1>5, <2>3
  <2>5. k >= 5 => w[5] = 1048576
    BY <1>3, <1>5, <2>4
  <2>6. k >= 6 => w[6] = 16777216
    BY <1>3, <1>5, <2>5
  <2>7. CASE k = 1
    BY <1>2, <1>5, <2>1, <2>7
  <2>8. CASE k = 2
    BY <1>2, <1>5, <2>2, <2>8
  <2>9. CASE k = 3
    BY <1>2, <1>5, <2>3, <2>9
  <2>10. CASE k = 4
    BY <1>2, <1>5, <2>4, <2>10
  <2>11. CASE k = 5
    BY <1>2, <1>5, <2>5, <2>11
  <2>12. CASE k = 6
    BY <1>2, <1>5, <2>6, <2>12
  <2> QED BY <2>7, <2>8, <2>9, <2>10, <2>11, <2>12
<1> QED BY <1>1, <1>4, <1>5

(* How a nibble names the two operands. *)
LEMMA OperandTable ==
  /\ Operands(0) = <<"A", "B">> /\ Operands(1) = <<"B", "C">>
  /\ Operands(2) = <<"C", "A">> /\ Operands(3) = <<"D", "C">>
  /\ Operands(4) = <<"A", "B">> /\ Operands(5) = <<"B", "C">>
  /\ Operands(6) = <<"C", "A">> /\ Operands(7) = <<"D", "C">>
  /\ Operands(8) = <<"B", "A">> /\ Operands(9) = <<"C", "B">>
  /\ Operands(10) = <<"A", "C">> /\ Operands(11) = <<"C", "D">>
BY DEF Operands, Pair

LEMMA AluTable ==
  /\ Alu(0) = "A" /\ Alu(1) = "B" /\ Alu(2) = "C" /\ Alu(3) = "D"
  /\ Alu(4) = "A" /\ Alu(5) = "B" /\ Alu(6) = "C" /\ Alu(7) = "D"
  /\ Alu(8) = "A" /\ Alu(9) = "B" /\ Alu(10) = "C" /\ Alu(11) = "D"
  /\ Alu(12) = "A" /\ Alu(13) = "B" /\ Alu(14) = "C" /\ Alu(15) = "D"
BY DEF Alu, ALU

LEMMA PairTable ==
  /\ Pair(12 % 4) = <<"A", "B">> /\ Pair(13 % 4) = <<"B", "C">>
  /\ Pair(14 % 4) = <<"C", "A">> /\ Pair(15 % 4) = <<"D", "C">>
BY DEF Pair

(* The table of the mnemonics. *)
SumTable(V) ==
  LET A == V["A"]
      B == V["B"]
      C == V["C"]
      D == V["D"]
  IN <<A + B, B + C, C + A, D + C, A + A, B + B, C + C, D + D,
       B + A, C + B, A + C, C + D, A - 1, B - 1, C - 1, D - 1>>
DifferenceTable(V) ==
  LET A == V["A"]
      B == V["B"]
      C == V["C"]
      D == V["D"]
  IN <<A - B, B - C, C - A, D - C, A + 1, B + 1, C + 1, D + 1,
       B - A, C - B, A - C, C - D, B - A, C - B, A - C, C - D>>
NegationTable(V) == <<-(V["A"]), -(V["B"]), -(V["C"]), -(V["D"])>>
ToTable(op) == IF op < 8 \/ op > 11 THEN <<"A", "B", "C", "D">> ELSE <<"B", "C", "A", "C">>

LEMMA TablesAgree ==
  ASSUME NEW V, NEW op \in Nibble
  PROVE  /\ SumTable(V)[op + 1] = SumIs(op, V)
         /\ DifferenceTable(V)[op + 1] = DifferenceIs(op, V)
         /\ ToTable(op)[(op % 4) + 1] = SumTo(op)
         /\ ToTable(op)[(op % 4) + 1] = DifferenceTo(op)
<1> USE OperandTable, AluTable, PairTable
        DEF SumTable, DifferenceTable, ToTable, SumIs, SumTo, DifferenceIs, DifferenceTo
<1>1. CASE op = 0
  BY <1>1
<1>2. CASE op = 1
  BY <1>2
<1>3. CASE op = 2
  BY <1>3
<1>4. CASE op = 3
  BY <1>4
<1>5. CASE op = 4
  BY <1>5
<1>6. CASE op = 5
  BY <1>6
<1>7. CASE op = 6
  BY <1>7
<1>8. CASE op = 7
  BY <1>8
<1>9. CASE op = 8
  BY <1>9
<1>10. CASE op = 9
  BY <1>10
<1>11. CASE op = 10
  BY <1>11
<1>12. CASE op = 11
  BY <1>12
<1>13. CASE op = 12
  BY <1>13
<1>14. CASE op = 13
  BY <1>14
<1>15. CASE op = 14
  BY <1>15
<1>16. CASE op = 15
  BY <1>16
<1>17. op \in 0 .. 15
  BY DEF Nibble
<1> QED BY <1>1, <1>2, <1>3, <1>4, <1>5, <1>6, <1>7, <1>8, <1>9, <1>10, <1>11, <1>12,
           <1>13, <1>14, <1>15, <1>16, <1>17

LEMMA NegationsAgree ==
  ASSUME NEW V, NEW op \in 8 .. 11
  PROVE  /\ NegationTable(V)[op - 7] = -(V[Alu(op)])
         /\ <<"A", "B", "C", "D">>[op - 7] = Alu(op)
<1>1. CASE op = 8
  BY <1>1, AluTable DEF NegationTable
<1>2. CASE op = 9
  BY <1>2, AluTable DEF NegationTable
<1>3. CASE op = 10
  BY <1>3, AluTable DEF NegationTable
<1>4. CASE op = 11
  BY <1>4, AluTable DEF NegationTable
<1> QED BY <1>1, <1>2, <1>3, <1>4

(* What the mnemonics say, field by field. *)
Says(x, r, code, base, exact) == x.r = r /\ x.code = code /\ x.base = base /\ x.exact = exact
Reading(i) == [r \in ArithmeticName |->
                 IF Small(F(m, Code(i))) THEN Value(m.reg[r], F(m, Code(i)), m.hexmode) ELSE 0]

LEMMA ExactSums ==
  ASSUME NEW i \in Instruction, i[0] \in {10, 12}, ~Upper(i)
  PROVE  Says(Exact(i), SumTo(Operation(i)), Code(i), m.hexmode, SumIs(Operation(i), Reading(i)))
<1>1. Operation(i) \in Nibble
  BY NibType DEF Operation
<1>2. Says(Exact(i), ToTable(Operation(i))[(Operation(i) % 4) + 1], Code(i), m.hexmode,
           SumTable(Reading(i))[Operation(i) + 1])
  BY DEF Exact, Says, ToTable, SumTable, Reading, Operation, Code, Upper, ArithmeticName
<1> QED BY <1>1, <1>2, TablesAgree

LEMMA ExactDifferences ==
  ASSUME NEW i \in Instruction, i[0] \in {11, 14}, ~Upper(i)
  PROVE  Says(Exact(i), DifferenceTo(Operation(i)), Code(i), m.hexmode,
              DifferenceIs(Operation(i), Reading(i)))
<1>1. Operation(i) \in Nibble
  BY NibType DEF Operation
<1>2. Says(Exact(i), ToTable(Operation(i))[(Operation(i) % 4) + 1], Code(i), m.hexmode,
           DifferenceTable(Reading(i))[Operation(i) + 1])
  BY DEF Exact, Says, ToTable, DifferenceTable, Reading, Operation, Code, Upper, ArithmeticName
<1> QED BY <1>1, <1>2, TablesAgree

LEMMA ExactNegations ==
  ASSUME NEW i \in Instruction, i[0] \in {11, 15}, Upper(i), Operation(i) \in 8 .. 11
  PROVE  Says(Exact(i), Alu(Operation(i)), Code(i), m.hexmode, -(Reading(i)[Alu(Operation(i))]))
<1>1. Says(Exact(i), <<"A", "B", "C", "D">>[Operation(i) - 7], Code(i), m.hexmode,
           NegationTable(Reading(i))[Operation(i) - 7])
  BY DEF Exact, Says, NegationTable, Reading, Operation, Code, Upper, ArithmeticName
<1> QED BY <1>1, NegationsAgree

LEMMA ExactConstants ==
  ASSUME NEW i \in Instruction, i[0] = 8, i[1] = 1, i[2] = 8, Small(F(m, i[3]))
  PROVE  LET v == Value(m.reg[Alu(i[4])], F(m, i[3]), 16)
         IN Says(Exact(i), Alu(i[4]), i[3], 16,
                 IF i[4] < 8 THEN v + i[5] + 1 ELSE v - (i[5] + 1))
BY DEF Exact, Says

LEMMA ExactPointer ==
  ASSUME NEW i \in Instruction, i[0] = 8, i[1] = 0, i[2] = 9
  PROVE  Says(Exact(i), "C", A_FIELD, 16, AddressIn(m.reg["C"]) + m.P + 1)
BY DEF Exact, Says

LEMMA ExactOthers ==
  ASSUME NEW i \in Instruction,
         ~(i[0] \in {10, 12} /\ ~Upper(i)), ~(i[0] \in {11, 14} /\ ~Upper(i)),
         ~(i[0] \in {11, 15} /\ Upper(i) /\ Operation(i) \in 8 .. 11),
         ~(i[0] = 8 /\ i[1] = 1 /\ i[2] = 8), ~(i[0] = 8 /\ i[1] = 0 /\ i[2] = 9)
  PROVE  Exact(i).r = "none"
<1>1. Exact(i) = NoResult
  BY DEF Exact, Operation, Upper
<1> QED BY <1>1 DEF NoResult

(* What the machine m has before the instruction and behind it but for PC. *)
Same(y, x) == IsMachine(y) /\ y.reg = x.reg /\ y.hexmode = x.hexmode /\ y.P = x.P

LEMMA AdvancedSame ==
  ASSUME NEW x, NEW k \in Nat, IsMachine(x)
  PROVE  Same(Advance(Ready(x), k), x) /\ Same(Ready(x), x)
<1> DEFINE z == Ready(x)
           y == Advance(z, k)
<1>1. IsMachine(z) /\ Others(z, x, {"call"})
  BY ReadyType
<1> HIDE DEF z
<1>2. IsMachine(y) /\ Others(y, z, {"PC"})
  BY <1>1, AdvanceType
<1> HIDE DEF y
<1>3. y.reg = x.reg /\ y.hexmode = x.hexmode /\ y.P = x.P
  BY <1>1, <1>2 DEF Others, FieldNames
<1>4. z.reg = x.reg /\ z.hexmode = x.hexmode /\ z.P = x.P
  BY <1>1 DEF Others, FieldNames
<1> QED BY <1>1, <1>2, <1>3, <1>4 DEF Same, y, z

(* What the arithmetic instruction i is to leave of the machine m in t. *)
Leaves(i, t) ==
  LET x == Exact(i)
      f == F(m, x.code)
  IN Computes(t, x.r, f.s, f.e, x.base, x.exact)
(* An instruction that computes, in a field TLC can count, on digits. *)
Countable(i) ==
  LET x == Exact(i)
      f == F(m, x.code)
  IN x.r # "none" /\ Small(f) /\ \A r \in {"A", "B", "C", "D"} : Digits(r, f, x.base)

LEMMA CountableDigits ==
  ASSUME NEW i, NEW y, NEW s, NEW e, IsMachine(m), Same(y, m), Ends(s, e), Countable(i),
         Exact(i).base = m.hexmode, F(m, Exact(i).code) = Span(s, e)
  PROVE  AllDigits(y, s, e, y.hexmode) /\ e - s < 6
<1>1. \A r \in ArithmeticName, j \in s .. e : m.reg[r][j] < m.hexmode
  BY DEF Countable, Digits, Span, In, ArithmeticName
<1>2. m.hexmode \in Nat /\ \A r \in ArithmeticName : m.reg[r] \in Register
  BY DEF IsMachine, HEX, DEC, ArithmeticName, RegisterName
<1>3. \A r \in ArithmeticName, j \in s .. e : m.reg[r][j] \in Nat
  BY <1>2 DEF Register, Nibble, Ends
<1>4. e - s < 6
  BY DEF Countable, Small, Span
<1> QED BY <1>1, <1>2, <1>3, <1>4 DEF AllDigits, AreDigits, Same

LEMMA FieldsCompute ==
  ASSUME NEW i \in Instruction, IsMachine(m), i[0] > 9, Countable(i)
  PROVE  Leaves(i, step_instruction(Ready(m), i))
<1> DEFINE op == Operation(i)
           code == Code(i)
           x == Ready(m)
           k == IF i[0] < 12 THEN 3 ELSE 2
           y == Advance(x, k)
           s == get_start(code, m.P)
           e == get_end(code, m.P)
           f == F(m, code)
           t == step_instruction(x, i)
           b == m.hexmode
           V == Numbers4(y, s, e)
<1>1. op \in Nibble /\ code \in 0 .. 18 /\ i[0] \in 10 .. 15
  BY NibType DEF Operation, Code, A_FIELD, Nibble
<1>2. f = Span(s, e) /\ Ends(s, e)
  <2> HIDE DEF code
  <2> QED BY <1>1, FieldOf
<1>3. IsMachine(x) /\ Same(x, m) /\ Same(y, m)
  <2>1. k \in Nat
    OBVIOUS
  <2> QED BY <2>1, AdvancedSame DEF Same
<1>4. F(x, code) = f
  BY <1>3 DEF Same, F
<1>5. t = IF i[0] \in {10, 12} /\ ~Upper(i) THEN Sums(y, op, f)
          ELSE IF i[0] \in {10, 13} THEN Copies(y, op, f)
          ELSE IF i[0] \in {11, 14} /\ ~Upper(i) THEN Differences(y, op, f)
          ELSE Shifts(y, op, f)
  <2>1. t = IF i[0] \in {10, 12} /\ ~Upper(i) THEN Sums(y, op, F(x, code))
            ELSE IF i[0] \in {10, 13} THEN Copies(y, op, F(x, code))
            ELSE IF i[0] \in {11, 14} /\ ~Upper(i) THEN Differences(y, op, F(x, code))
            ELSE Shifts(y, op, F(x, code))
    <3> HIDE DEF x
    <3> QED BY <1>3, ArithmeticIs
  <2> HIDE DEF t, x, y, f, op, code
  <2> QED BY <1>4, <2>1
<1>6. y.hexmode = b /\ y.reg = m.reg /\ IsMachine(y)
  BY <1>3 DEF Same
<1> HIDE DEF t, x, y, f, op, code, s, e, V
(* When the numbers of the mnemonic's table are those of the field. *)
<1>7. ASSUME NEW r, NEW exact, Says(Exact(i), r, code, b, exact)
      PROVE  /\ AllDigits(y, s, e, b) /\ Small(f) /\ Reading(i) = V
             /\ Computes(t, r, s, e, b, exact) => Leaves(i, t)
  <2>1. Exact(i).r = r /\ Exact(i).code = code /\ Exact(i).base = b /\ Exact(i).exact = exact
    BY <1>7 DEF Says
  <2>2. AllDigits(y, s, e, b) /\ e - s < 6
    BY <1>2, <1>3, <1>6, <2>1, CountableDigits DEF f
  <2>3. Small(f) /\ f.s = s /\ f.e = e
    BY <1>2, <2>2 DEF Small, Span
  <2>4. Reading(i) = V
    BY <1>2, <1>6, <2>3 DEF Reading, Numbers4, V, f, code
  <2>5. Computes(t, r, s, e, b, exact) => Leaves(i, t)
    BY <2>1, <2>3 DEF Leaves, f
  <2> QED BY <2>2, <2>3, <2>4, <2>5
<1>8. CASE i[0] \in {10, 12} /\ ~Upper(i)
  <2>1. Says(Exact(i), SumTo(op), code, b, SumIs(op, Reading(i)))
    BY <1>8, ExactSums DEF op, code
  <2>2. AllDigits(y, s, e, b) /\ Reading(i) = V
        /\ (Computes(t, SumTo(op), s, e, b, SumIs(op, Reading(i))) => Leaves(i, t))
    BY <1>7, <2>1
  <2>3. t = Sums(y, op, Span(s, e))
    BY <1>2, <1>5, <1>8
  <2>4. Computes(Sums(y, op, Span(s, e)), SumTo(op), s, e, b, SumIs(op, V))
    BY <1>1, <1>2, <1>6, <2>2, SumsCompute DEF V
  <2> QED BY <2>2, <2>3, <2>4 DEF t, x
<1>9. CASE i[0] \in {11, 14} /\ ~Upper(i)
  <2>1. Says(Exact(i), DifferenceTo(op), code, b, DifferenceIs(op, Reading(i)))
    BY <1>9, ExactDifferences DEF op, code
  <2>2. AllDigits(y, s, e, b) /\ Reading(i) = V
        /\ (Computes(t, DifferenceTo(op), s, e, b, DifferenceIs(op, Reading(i))) => Leaves(i, t))
    BY <1>7, <2>1
  <2>3. t = Differences(y, op, Span(s, e))
    BY <1>2, <1>5, <1>9
  <2>4. Computes(Differences(y, op, Span(s, e)), DifferenceTo(op), s, e, b, DifferenceIs(op, V))
    BY <1>1, <1>2, <1>6, <2>2, DifferencesCompute DEF V
  <2> QED BY <2>2, <2>3, <2>4 DEF t, x
<1>10. CASE i[0] \in {11, 15} /\ Upper(i) /\ op \in 8 .. 11
  <2>1. Says(Exact(i), Alu(op), code, b, -(Reading(i)[Alu(op)]))
    BY <1>10, ExactNegations DEF op, code
  <2>2. AllDigits(y, s, e, b) /\ Reading(i) = V
        /\ (Computes(t, Alu(op), s, e, b, -(Reading(i)[Alu(op)])) => Leaves(i, t))
    BY <1>7, <2>1
  <2>3. t = Shifts(y, op, Span(s, e))
    BY <1>2, <1>5, <1>10
  <2>4. Computes(Shifts(y, op, Span(s, e)), Alu(op), s, e, b, -(V[Alu(op)]))
    BY <1>2, <1>6, <1>10, <2>2, NegationsCompute DEF V
  <2> QED BY <2>2, <2>3, <2>4 DEF t, x
<1>11. CASE /\ ~(i[0] \in {10, 12} /\ ~Upper(i)) /\ ~(i[0] \in {11, 14} /\ ~Upper(i))
            /\ ~(i[0] \in {11, 15} /\ Upper(i) /\ op \in 8 .. 11)
  <2>1. Exact(i).r = "none"
    BY <1>1, <1>11, ExactOthers DEF op
  <2> QED BY <2>1 DEF Countable
<1> QED BY <1>8, <1>9, <1>10, <1>11

LEMMA ConstantComputes ==
  ASSUME NEW i \in Instruction, IsMachine(m), i[0] = 8, i[1] = 1, i[2] = 8, Countable(i)
  PROVE  Leaves(i, step_instruction(Ready(m), i))
<1> DEFINE r == Alu(i[4])
           s == get_start(i[3], m.P)
           e == get_end(i[3], m.P)
           f == F(m, i[3])
           x == Ready(m)
           y == Advance(x, 6)
           v == Value(m.reg[r], f, 16)
           k == i[5] + 1
           exact == IF i[4] < 8 THEN v + i[5] + 1 ELSE v - (i[5] + 1)
           more == SetCarry(y, r, add_register_constant(m.reg[r], f, k))
           less == SetCarry(y, r, sub_register_constant(m.reg[r], f, k))
           t == step_instruction(x, i)
<1>1. i[3] \in 0 .. 18 /\ i[4] \in Nibble /\ i[5] \in 0 .. 15 /\ k \in 1 .. 16
      /\ Nib(i, 3) = i[3] /\ Nib(i, 4) = i[4] /\ Nib(i, 5) = i[5]
  BY NibType DEF Nibble
<1>2. f = Span(s, e) /\ Ends(s, e)
  BY <1>1, FieldOf
<1>3. Exact(i).code = i[3]
  BY DEF Exact
<1>4. Small(f)
  BY <1>3 DEF Countable
<1>5. Says(Exact(i), r, i[3], 16, exact)
  BY <1>4, ExactConstants
<1>6. IsMachine(y) /\ y.reg = m.reg /\ x.reg = m.reg /\ x.P = m.P
  BY AdvancedSame DEF Same
<1>7. r \in ArithmeticName
  BY <1>1, OperandNames
<1>8. t = IF i[4] < 8 THEN more ELSE less
  <2>1. t = decode_8(x, i)
    BY DEF step_instruction
  <2> HIDE DEF x, t
  <2>2. decode_8(x, i) = ConstantGroup(x, i)
    BY DEF decode_8, decode_81
  <2>3. F(x, i[3]) = f
    BY <1>6 DEF F
  <2> HIDE DEF f
  <2>4. ConstantGroup(x, i) = IF i[4] < 8 THEN more ELSE less
    BY <1>1, <1>6, <2>3 DEF ConstantGroup
  <2> QED BY <2>1, <2>2, <2>4
<1> HIDE DEF x, y, r, f, t, s, e, k, exact, v
<1>9. v \in Int
  <2>1. m.reg[r] \in Register
    BY <1>7 DEF IsMachine, ArithmeticName, RegisterName
  <2>2. AreDigits(m.reg[r], s, e, 16)
    <3>1. \A j \in s .. e : j \in 0 .. 15
      BY <1>2 DEF Ends
    <3> QED BY <2>1, <3>1 DEF AreDigits, Register, Nibble
  <2>3. v \in 0 .. Weight(16, e + 1 - s) - 1 /\ Weight(16, e + 1 - s) \in Nat
    BY <1>2, <2>2, ValueBounds DEF v
  <2> QED BY <2>3
<1>10. Computes(more, r, s, e, 16, v + k) /\ Computes(less, r, s, e, 16, v - k)
  BY <1>1, <1>2, <1>6, <1>7, ConstantsCompute DEF v
<1>11. exact = IF i[4] < 8 THEN v + k ELSE v - k
  BY <1>1, <1>9 DEF exact, k
<1> HIDE DEF more, less
<1>12. Computes(t, r, s, e, 16, exact)
  BY <1>8, <1>10, <1>11
<1>13. f.s = s /\ f.e = e
  BY <1>2 DEF Span
<1>14. Leaves(i, t)
  BY <1>5, <1>12, <1>13 DEF Leaves, Says, f
<1> QED BY <1>14 DEF t, x

LEMMA PointerComputes ==
  ASSUME NEW i \in Instruction, IsMachine(m), i[0] = 8, i[1] = 0, i[2] = 9
  PROVE  Leaves(i, step_instruction(Ready(m), i))
<1> DEFINE x == Ready(m)
           y == Advance(x, 3)
           f == Span(0, 4)
           C == m.reg["C"]
           k == m.P + 1
           t == step_instruction(x, i)
<1>1. m.P \in 0 .. 15 /\ k \in 1 .. 16 /\ C \in Register
  BY DEF IsMachine, Nibble, RegisterName
<1>2. IsMachine(y) /\ y.reg = m.reg /\ x.reg = m.reg /\ x.P = m.P
  BY AdvancedSame DEF Same
<1>3. get_start(A_FIELD, m.P) = 0 /\ get_end(A_FIELD, m.P) = 4
      /\ get_start(A_FIELD, 0) = 0 /\ get_end(A_FIELD, 0) = 4
  BY DEF A_FIELD, get_start, get_end, start_fields, end_fields
<1>4. Field(A_FIELD, m.P) = f /\ Field(A_FIELD, 0) = f
  BY <1>3 DEF Field, Span
<1>5. t = SetCarry(y, "C", add_register_constant(C, f, k))
  <2>1. t = decode_8(x, i)
    BY DEF step_instruction
  <2> HIDE DEF x, t
  <2>2. decode_8(x, i) = decode_group_80(x, i)
    BY DEF decode_8
  <2>3. decode_group_80(x, i) = SetCarry(y, "C", add_p_plus_one(C, m.P))
    BY <1>2 DEF decode_group_80
  <2>4. add_p_plus_one(C, m.P) = add_register_constant(C, f, k)
    BY <1>4 DEF add_p_plus_one, add_register_constant
  <2> QED BY <2>1, <2>2, <2>3, <2>4
<1>6. Says(Exact(i), "C", A_FIELD, 16, AddressIn(C) + m.P + 1)
  BY ExactPointer
<1>7. AddressIn(C) = Value(C, f, 16)
  BY <1>4 DEF AddressIn
<1>8. AddressIn(C) \in Int
  BY <1>1, AddressType, WordBounds
<1>9. F(m, A_FIELD) = f /\ f.s = 0 /\ f.e = 4
  BY <1>4 DEF F, Span
<1>10. Ends(0, 4) /\ "C" \in ArithmeticName
  BY DEF Ends, ArithmeticName
<1> HIDE DEF x, y, t, k
<1>11. Computes(SetCarry(y, "C", add_register_constant(C, f, k)), "C", 0, 4, 16, Value(C, f, 16) + k)
  BY <1>1, <1>2, <1>10, ConstantsCompute
<1> HIDE DEF f, C
<1>12. Value(C, f, 16) + k = AddressIn(C) + m.P + 1
  BY <1>1, <1>7, <1>8 DEF k
<1>13. Computes(t, "C", 0, 4, 16, AddressIn(C) + m.P + 1)
  BY <1>5, <1>11, <1>12
<1>14. Leaves(i, t)
  BY <1>6, <1>9, <1>13 DEF Leaves, Says
<1> QED BY <1>14 DEF t, x

LEMMA ExactRange ==
  ASSUME NEW i \in Instruction, IsMachine(m), Exact(i).r # "none"
  PROVE  Exact(i).base \in {DEC, HEX} /\ Exact(i).code \in 0 .. 18
<1>1. Code(i) \in 0 .. 18 /\ i[3] \in 0 .. 18 /\ A_FIELD \in 0 .. 18
  BY NibType DEF Code, A_FIELD, Nibble
<1>2. m.hexmode \in {DEC, HEX} /\ 16 \in {DEC, HEX}
  BY DEF IsMachine, HEX
<1>3. CASE i[0] \in {10, 12} /\ ~Upper(i)
  BY <1>1, <1>2, <1>3, ExactSums DEF Says
<1>4. CASE i[0] \in {11, 14} /\ ~Upper(i)
  BY <1>1, <1>2, <1>4, ExactDifferences DEF Says
<1>5. CASE i[0] \in {11, 15} /\ Upper(i) /\ Operation(i) \in 8 .. 11
  BY <1>1, <1>2, <1>5, ExactNegations DEF Says
<1>6. CASE i[0] = 8 /\ i[1] = 1 /\ i[2] = 8
  <2>1. Exact(i).base = 16 /\ Exact(i).code = i[3]
    BY <1>6 DEF Exact
  <2> QED BY <1>1, <1>2, <2>1
<1>7. CASE i[0] = 8 /\ i[1] = 0 /\ i[2] = 9
  BY <1>1, <1>2, <1>7, ExactPointer DEF Says
<1> QED BY <1>3, <1>4, <1>5, <1>6, <1>7, ExactOthers

LEMMA ArithmeticComputes ==
  ASSUME NEW i \in Instruction, IsMachine(m), Countable(i)
  PROVE  Leaves(i, step_instruction(Ready(m), i))
<1>1. CASE i[0] > 9
  BY <1>1, FieldsCompute
<1>2. CASE i[0] = 8 /\ i[1] = 1 /\ i[2] = 8
  BY <1>2, ConstantComputes
<1>3. CASE i[0] = 8 /\ i[1] = 0 /\ i[2] = 9
  BY <1>3, PointerComputes
<1>4. CASE ~(i[0] > 9) /\ ~(i[0] = 8 /\ i[1] = 1 /\ i[2] = 8) /\ ~(i[0] = 8 /\ i[1] = 0 /\ i[2] = 9)
  <2>1. Exact(i).r = "none"
    BY <1>4, ExactOthers
  <2> QED BY <2>1 DEF Countable
<1> QED BY <1>1, <1>2, <1>3, <1>4

(* Sums, differences, negations, increments and additions of constants are those
   of the integers, in every field up to 6 nibbles that holds digits of the base,
   and CARRY tells whether the result fits (emulate.c, decode_A() to decode_F(),
   decode_81(), decode_group_80(); register.c). *)
THEOREM ArithmeticCorrect == Spec => ArithmeticAgrees
<1> DEFINE Agree ==
      LET x == Exact(n')
          f == F(m, x.code)
          size == x.base ^ (f.e - f.s + 1)
      IN /\ x.r # "none"
         /\ Small(f)
         /\ \A r \in {"A", "B", "C", "D"} : Digits(r, f, x.base)
         => /\ Value(m'.reg[x.r], f, x.base) = x.exact % size
            /\ m'.CARRY = IF x.exact \in 0 .. size - 1 THEN 0 ELSE 1
<1>1. IInv /\ [Step]_vars => [Agree]_vars
  <2> SUFFICES ASSUME IInv, Step, Countable(n')
               PROVE  Agree
    BY DEF Countable
  <2> DEFINE x == Exact(n')
             f == F(m, x.code)
             size == x.base ^ (f.e - f.s + 1)
  <2>1. n' \in Instruction /\ IsMachine(m) /\ m' = step_instruction(Ready(m), n')
    BY StepExecutes, StepFollows
  <2>2. Leaves(n', m')
    BY <2>1, ArithmeticComputes
  <2>3. x.base \in {DEC, HEX} /\ x.code \in 0 .. 18
    BY <2>1, ExactRange DEF Countable
  <2>4. f = Span(f.s, f.e) /\ Ends(f.s, f.e) /\ Small(f)
    BY <2>1, <2>3, FieldOf DEF Countable, Spanned, Span
  <2> HIDE DEF x, f
  <2>5. Weight(x.base, f.e + 1 - f.s) = size
    <3>1. f.e + 1 - f.s = f.e - f.s + 1 /\ f.e + 1 - f.s \in 1 .. 6
      BY <2>4 DEF Small, Ends
    <3>2. Weight(x.base, f.e + 1 - f.s) = x.base ^ (f.e + 1 - f.s)
      BY <2>3, <3>1, SmallPowers
    <3> QED BY <3>1, <3>2
  <2>6. Computes(m', x.r, f.s, f.e, x.base, x.exact)
    BY <2>2 DEF Leaves, x, f
  <2> HIDE DEF size
  <2>7. Value(m'.reg[x.r], f, x.base) = x.exact % size
        /\ m'.CARRY = IF x.exact \in 0 .. size - 1 THEN 0 ELSE 1
    BY <2>4, <2>5, <2>6 DEF Computes
  <2> QED BY <2>7 DEF x, f, size
<1>2. Spec => [][Agree]_vars
  BY <1>1, SpecInv, PTL DEF Spec
<1> QED BY <1>2, PTL DEF ArithmeticAgrees
==============================================================================
