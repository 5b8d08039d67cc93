-------------------------- MODULE RecursiveFunctions --------------------------
(* Recursive functions and induction, for the modules that prove what a loop of
   the program computes.  Four facts that hold for every set (Induction, Descent,
   Ascent, and Recursion: the function exists) rest on the library's
   well-foundedness of < on the naturals. *)
EXTENDS Integers, WellFoundedInduction, TLAPS

(* A set of naturals that is not empty has a least element. *)
LEMMA Least ==
  ASSUME NEW T, T \subseteq Nat, T # {}
  PROVE  \E x \in T : \A y \in T : x <= y
<1> DEFINE R == {ss \in Nat \X Nat : ss[1] < ss[2]}
<1>1. IsWellFoundedOn(R, Nat)
  BY NatLessThanWellFounded DEF OpToRel
<1>2. \A x, y \in Nat : <<y, x>> \notin R => x <= y
  OBVIOUS
<1> HIDE DEF R
<1>3. PICK x \in T : \A y \in T : <<y, x>> \notin R
  BY <1>1, WFMin
<1> QED BY <1>2, <1>3

(* What holds for 0 and for k + 1 when it holds for k holds for every natural. *)
LEMMA Induction ==
  ASSUME NEW S, 0 \in S, \A k \in Nat : k \in S => k + 1 \in S
  PROVE  Nat \subseteq S
<1> SUFFICES ASSUME NEW k \in Nat, k \notin S
             PROVE  FALSE
  OBVIOUS
<1>1. PICK x \in Nat \ S : \A y \in Nat \ S : x <= y
  BY Least
<1>2. x # 0 /\ x - 1 \in Nat
  OBVIOUS
<1>3. x - 1 \in S
  BY <1>1, <1>2
<1> QED BY <1>1, <1>2, <1>3

(* g is what c and the steps give, up to n. *)
Steps(g, V, c, step, n) ==
  /\ g \in [0 .. n -> V]
  /\ g[0] = c
  /\ \A k \in 0 .. n - 1 : g[k + 1] = step[<<k, g[k]>>]

(* A function may be defined by recursion on the naturals below n. *)
LEMMA Recursion ==
  ASSUME NEW V, NEW c, NEW step, NEW n,
         c \in V /\ step \in [Nat \X V -> V] /\ n \in Nat
  PROVE  \E g : Steps(g, V, c, step, n)
<1> DEFINE S == {k \in Nat : \E g : Steps(g, V, c, step, k)}
<1>1. 0 \in S
  <2>1. Steps([j \in 0 .. 0 |-> c], V, c, step, 0)
    BY DEF Steps
  <2> QED BY <2>1
<1>2. ASSUME NEW k \in Nat, k \in S
      PROVE  k + 1 \in S
  <2>1. PICK g : Steps(g, V, c, step, k)
    BY <1>2
  <2> DEFINE next == step[<<k, g[k]>>]
             h == [j \in 0 .. k + 1 |-> IF j = k + 1 THEN next ELSE g[j]]
  <2>2. next \in V /\ \A j \in 0 .. k : g[j] \in V
    BY <2>1 DEF Steps
  <2>3. /\ h \in [0 .. k + 1 -> V]
        /\ h[k + 1] = next
        /\ \A j \in 0 .. k : h[j] = g[j]
    <3> HIDE DEF next
    <3> QED BY <2>2
  <2> HIDE DEF h
  <2>4. h[0] = c
    BY <2>1, <2>3 DEF Steps
  <2>5. ASSUME NEW j \in 0 .. k
        PROVE  h[j + 1] = step[<<j, h[j]>>]
    <3>1. CASE j = k
      BY <3>1, <2>3
    <3>2. CASE j # k
      <4>1. j \in 0 .. k - 1 /\ j + 1 \in 0 .. k
        BY <3>2
      <4>2. g[j + 1] = step[<<j, g[j]>>]
        BY <4>1, <2>1 DEF Steps
      <4> QED BY <4>1, <4>2, <2>3
    <3> QED BY <3>1, <3>2
  <2>6. Steps(h, V, c, step, k + 1)
    BY <2>3, <2>4, <2>5 DEF Steps
  <2> QED BY <2>6
<1>3. n \in S
  <2> HIDE DEF S
  <2>1. Nat \subseteq S
    BY <1>1, <1>2, Induction
  <2> QED BY <2>1
<1> QED BY <1>3

(* What holds behind a field and is handed down from nibble to nibble holds for
   all of them. *)
LEMMA Descent ==
  ASSUME NEW s \in Int, NEW e \in Int, s <= e + 1, NEW S,
         e + 1 \in S, \A i \in s .. e : i + 1 \in S => i \in S
  PROVE  s .. e + 1 \subseteq S
<1> DEFINE T == {k \in Nat : e + 1 - k \in S \/ e + 1 - k < s}
<1>1. 0 \in T
  OBVIOUS
<1>2. ASSUME NEW k \in Nat, k \in T
      PROVE  k + 1 \in T
  <2> DEFINE i == e + 1 - (k + 1)
  <2>1. i \in Int /\ i + 1 = e + 1 - k
    OBVIOUS
  <2> HIDE DEF i
  <2>2. CASE i < s
    BY <2>2 DEF i
  <2>3. CASE i >= s
    <3>1. i \in s .. e
      BY <2>1, <2>3 DEF i
    <3>2. i + 1 \in S
      BY <2>1, <2>3, <1>2
    <3> QED BY <3>1, <3>2 DEF i
  <2> QED BY <2>1, <2>2, <2>3
<1>3. Nat \subseteq T
  <2> HIDE DEF T
  <2> QED BY <1>1, <1>2, Induction
<1>4. ASSUME NEW i \in s .. e + 1
      PROVE  i \in S
  <2>1. e + 1 - i \in Nat /\ e + 1 - (e + 1 - i) = i /\ ~(i < s)
    OBVIOUS
  <2> QED BY <1>3, <2>1
<1> QED BY <1>4

(* The same upwards. *)
LEMMA Ascent ==
  ASSUME NEW s \in Int, NEW e \in Int, s <= e + 1, NEW S,
         s \in S, \A i \in s .. e : i \in S => i + 1 \in S
  PROVE  s .. e + 1 \subseteq S
<1> DEFINE T == {k \in Nat : s + k \in S \/ s + k > e + 1}
<1>1. 0 \in T
  OBVIOUS
<1>2. ASSUME NEW k \in Nat, k \in T
      PROVE  k + 1 \in T
  <2>1. CASE s + k \in s .. e
    <3>1. s + k + 1 \in S
      BY <1>2, <2>1
    <3> QED BY <3>1
  <2>2. CASE s + k \notin s .. e
    BY <2>2
  <2> QED BY <2>1, <2>2
<1>3. Nat \subseteq T
  <2> HIDE DEF T
  <2> QED BY <1>1, <1>2, Induction
<1>4. ASSUME NEW i \in s .. e + 1
      PROVE  i \in S
  <2>1. i - s \in Nat /\ s + (i - s) = i /\ ~(i > e + 1)
    OBVIOUS
  <2> QED BY <1>3, <2>1
<1> QED BY <1>4

==============================================================================
