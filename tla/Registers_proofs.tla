--------------------------- MODULE Registers_proofs ---------------------------
(* What the loops of register.c compute, for fields of any length: the digits
   they leave are those of the integers.  The loops are recursive functions over
   the nibbles of a field. *)
EXTENDS Registers, RecursiveFunctions, TLAPS

(* A field from nibble s to nibble e, the form Field() gives. *)
Span(s, e) == [s |-> s, e |-> e]
Ends(s, e) == s \in 0 .. 15 /\ e \in 0 .. 15 /\ s <= e
Spanned(f) == Ends(f.s, f.e)

LEMMA SpanIn ==
  ASSUME NEW s, NEW e
  PROVE  Span(s, e).s = s /\ Span(s, e).e = e /\ In(Span(s, e)) = s .. e
  BY DEF Span, In

-----------------------------------------------------------------------------
(* The recursive functions of Registers exist. *)

(* x gives a number for every nibble of the field. *)
Numbers(x, s, e) == \A i \in s .. e : x[i] \in Int

(* u is the recursive function of Value. *)
ValueSums(u, r, s, e, base) ==
  u = [i \in s .. e + 1 |-> IF i > e THEN 0 ELSE r[i] + base * u[i + 1]]

LEMMA SumsExist ==
  ASSUME NEW r, NEW s, NEW e, NEW base, Ends(s, e), base \in Int, Numbers(r, s, e)
  PROVE  \E u : ValueSums(u, r, s, e, base)
<1> DEFINE n == e + 1 - s
           digit(k) == IF e - k \in s .. e THEN r[e - k] ELSE 0
           step == [p \in Nat \X Int |-> digit(p[1]) + base * p[2]]
<1> USE DEF Ends, Numbers
<1>1. /\ n \in Nat
      /\ \A k \in Nat : digit(k) \in Int
      /\ \A i \in s .. e : digit(e - i) = r[i]
  OBVIOUS
<1> HIDE DEF digit
<1>2. step \in [Nat \X Int -> Int]
  BY <1>1
<1>3. PICK g : Steps(g, Int, 0, step, n)
  <2> HIDE DEF step, n
  <2>1. 0 \in Int
    OBVIOUS
  <2> QED BY <1>1, <1>2, <2>1, Recursion, Zenon
<1>4. ASSUME NEW k \in 0 .. n - 1
      PROVE  g[k] \in Int /\ g[k + 1] = digit(k) + base * g[k]
  <2>1. k \in Nat /\ g[k] \in Int
    BY <1>1, <1>3 DEF Steps
  <2>2. step[<<k, g[k]>>] = digit(k) + base * g[k]
    BY <2>1
  <2> HIDE DEF step
  <2> QED BY <1>3, <2>1, <2>2 DEF Steps
<1> DEFINE u == [i \in s .. e + 1 |-> g[e + 1 - i]]
<1>5. u[e + 1] = 0
  <2>1. e + 1 \in s .. e + 1 /\ e + 1 - (e + 1) = 0
    OBVIOUS
  <2> HIDE DEF step
  <2> QED BY <2>1, <1>3 DEF Steps
<1>6. ASSUME NEW i \in s .. e
      PROVE  u[i] = r[i] + base * u[i + 1]
  <2> DEFINE k == e - i
  <2>1. /\ k \in 0 .. n - 1 /\ e - k = i
        /\ e + 1 - i = k + 1 /\ e + 1 - (i + 1) = k
        /\ i \in s .. e + 1 /\ i + 1 \in s .. e + 1
    OBVIOUS
  <2>2. u[i] = g[k + 1] /\ u[i + 1] = g[k]
    BY <2>1
  <2>3. digit(k) = r[i]
    BY <1>1
  <2> HIDE DEF k, n, u
  <2> QED BY <1>4, <2>1, <2>2, <2>3
<1>7. u = [i \in s .. e + 1 |-> IF i > e THEN 0 ELSE r[i] + base * u[i + 1]]
  <2>1. u = [i \in s .. e + 1 |-> u[i]]
    OBVIOUS
  <2> HIDE DEF u
  <2>2. \A i \in s .. e + 1 : u[i] = IF i > e THEN 0 ELSE r[i] + base * u[i + 1]
    BY <1>5, <1>6
  <2> QED BY <2>1, <2>2
<1> QED BY <1>7 DEF ValueSums

(* The values v[i] of the nibbles from i on, the nibble i counting ones. *)
Worth(v, r, s, e, base) ==
  /\ Value(r, Span(s, e), base) = v[s]
  /\ v \in [s .. e + 1 -> Int]
  /\ v[e + 1] = 0
  /\ \A i \in s .. e : v[i] = r[i] + base * v[i + 1]

LEMMA ValueSteps ==
  ASSUME NEW r, NEW s, NEW e, NEW base, Ends(s, e), base \in Int, Numbers(r, s, e)
  PROVE  \E v : Worth(v, r, s, e, base)
<1> DEFINE v == CHOOSE u : u = [i \in s .. e + 1 |-> IF i > e THEN 0 ELSE r[i] + base * u[i + 1]]
<1>1. Value(r, Span(s, e), base) = v[s]
  BY DEF Value, Span
<1>2. \E u : u = [i \in s .. e + 1 |-> IF i > e THEN 0 ELSE r[i] + base * u[i + 1]]
  <2>1. \E u : ValueSums(u, r, s, e, base)
    BY SumsExist, Zenon
  <2> QED BY <2>1, Zenon DEF ValueSums
<1> USE DEF Ends, Numbers
<1>3. v = [i \in s .. e + 1 |-> IF i > e THEN 0 ELSE r[i] + base * v[i + 1]]
  BY <1>2, Zenon
<1> HIDE DEF v
<1>4. v[e + 1] = 0 /\ \A i \in s .. e : v[i] = r[i] + base * v[i + 1]
  BY <1>3
<1> DEFINE S == {i \in Int : v[i] \in Int}
<1>5. e + 1 \in S /\ \A i \in s .. e : i + 1 \in S => i \in S
  BY <1>4
<1>6. s .. e + 1 \subseteq S
  <2>1. s \in Int /\ e \in Int /\ s <= e + 1
    OBVIOUS
  <2> HIDE DEF S
  <2> QED BY <1>5, <2>1, Descent
<1>7. v \in [s .. e + 1 -> Int]
  <2>1. v = [i \in s .. e + 1 |-> v[i]]
    <3>1. DOMAIN v = s .. e + 1
      BY <1>3
    <3> QED BY <1>3, <3>1
  <2>2. \A i \in s .. e + 1 : v[i] \in Int
    BY <1>6
  <2> QED BY <2>1, <2>2
<1> QED BY <1>1, <1>4, <1>7 DEF Worth

(* The carries of a loop: c, then 1 behind the nibbles where "over" has the
   pair of the nibble and the carry before it. *)
CarriesOver(u, s, e, c, over) ==
  /\ u \in [s .. e + 1 -> Nat]
  /\ u[s] = c
  /\ \A i \in s .. e : u[i + 1] = IF <<i, u[i]>> \in over THEN 1 ELSE 0

LEMMA CarriesExist ==
  ASSUME NEW s, NEW e, NEW c, NEW over, Ends(s, e), c \in Nat
  PROVE  \E u : CarriesOver(u, s, e, c, over)
<1> USE DEF Ends
<1> DEFINE n == e + 1 - s
           step == [p \in Nat \X Nat |-> IF <<s + p[1], p[2]>> \in over THEN 1 ELSE 0]
<1>1. n \in Nat
  OBVIOUS
<1>2. step \in [Nat \X Nat -> Nat]
  OBVIOUS
<1>3. PICK g : Steps(g, Nat, c, step, n)
  <2> HIDE DEF step, n
  <2> QED BY <1>1, <1>2, Recursion, Zenon
<1>4. ASSUME NEW k \in 0 .. n - 1
      PROVE  g[k + 1] = IF <<s + k, g[k]>> \in over THEN 1 ELSE 0
  <2>1. k \in Nat /\ g[k] \in Nat
    BY <1>1, <1>3 DEF Steps
  <2>2. step[<<k, g[k]>>] = IF <<s + k, g[k]>> \in over THEN 1 ELSE 0
    BY <2>1
  <2> HIDE DEF step
  <2> QED BY <1>3, <2>1, <2>2 DEF Steps
<1> HIDE DEF step
<1> DEFINE u == [i \in s .. e + 1 |-> g[i - s]]
<1>5. u \in [s .. e + 1 -> Nat] /\ u[s] = c
  BY <1>3 DEF Steps
<1>6. ASSUME NEW i \in s .. e
      PROVE  u[i + 1] = IF <<i, u[i]>> \in over THEN 1 ELSE 0
  <2> DEFINE k == i - s
  <2>1. /\ k \in 0 .. n - 1 /\ s + k = i /\ i + 1 - s = k + 1
        /\ i \in s .. e + 1 /\ i + 1 \in s .. e + 1
    OBVIOUS
  <2>2. u[i] = g[k] /\ u[i + 1] = g[k + 1]
    BY <2>1
  <2> HIDE DEF k, n, u
  <2> QED BY <1>4, <2>1, <2>2
<1> QED BY <1>5, <1>6 DEF CarriesOver

(* base to the n. *)
Weight(base, n) == LET w[k \in 0 .. n] == IF k = 0 THEN 1 ELSE base * w[k - 1] IN w[n]
Powers(w, base, n) ==
  /\ w \in [0 .. n -> Int]
  /\ w[0] = 1
  /\ \A k \in 0 .. n - 1 : w[k + 1] = base * w[k]
IsWeight(u, base, n) == u = [k \in 0 .. n |-> IF k = 0 THEN 1 ELSE base * u[k - 1]]

LEMMA WeightsExist ==
  ASSUME NEW base, NEW n, base \in Int, n \in Nat
  PROVE  \E w : IsWeight(w, base, n) /\ Powers(w, base, n)
<1> DEFINE step == [p \in Nat \X Int |-> base * p[2]]
<1>1. step \in [Nat \X Int -> Int]
  OBVIOUS
<1>2. PICK g : Steps(g, Int, 1, step, n)
  <2> HIDE DEF step
  <2>1. 1 \in Int
    OBVIOUS
  <2> QED BY <1>1, <2>1, Recursion, Zenon
<1>3. ASSUME NEW k \in 0 .. n - 1
      PROVE  g[k] \in Int /\ g[k + 1] = base * g[k]
  <2>1. k \in Nat /\ g[k] \in Int
    BY <1>2 DEF Steps
  <2>2. step[<<k, g[k]>>] = base * g[k]
    BY <2>1
  <2> HIDE DEF step
  <2> QED BY <1>2, <2>1, <2>2 DEF Steps
<1> HIDE DEF step
<1>4. g \in [0 .. n -> Int] /\ g[0] = 1
  BY <1>2 DEF Steps
<1>5. ASSUME NEW k \in 0 .. n
      PROVE  g[k] = IF k = 0 THEN 1 ELSE base * g[k - 1]
  <2>1. CASE k # 0
    <3>1. k - 1 \in 0 .. n - 1 /\ k - 1 + 1 = k
      BY <2>1
    <3> QED BY <1>3, <2>1, <3>1
  <2> QED BY <1>4, <2>1
<1>6. IsWeight(g, base, n)
  BY <1>4, <1>5 DEF IsWeight
<1>7. Powers(g, base, n)
  BY <1>3, <1>4 DEF Powers
<1> QED BY <1>6, <1>7

LEMMA WeightSteps ==
  ASSUME NEW base, NEW n, base \in Int, n \in Nat
  PROVE  \E w : Powers(w, base, n) /\ Weight(base, n) = w[n]
<1> DEFINE w == CHOOSE u : u = [k \in 0 .. n |-> IF k = 0 THEN 1 ELSE base * u[k - 1]]
<1>1. Weight(base, n) = w[n]
  BY DEF Weight
<1>2. PICK u : IsWeight(u, base, n) /\ Powers(u, base, n)
  BY WeightsExist, Zenon
<1>3. w = [k \in 0 .. n |-> IF k = 0 THEN 1 ELSE base * w[k - 1]]
  BY <1>2, Zenon DEF IsWeight
<1> HIDE DEF w
<1> DEFINE S == {k \in Int : w[k] = u[k]}
<1>4. 0 \in S
  BY <1>2, <1>3 DEF Powers
<1>5. ASSUME NEW k \in 0 .. n - 1, k \in S
      PROVE  k + 1 \in S
  <2>1. w[k + 1] = base * w[k]
    BY <1>3
  <2> QED BY <1>2, <1>5, <2>1 DEF Powers
<1>6. 0 .. n - 1 + 1 \subseteq S
  <2>1. 0 \in Int /\ n - 1 \in Int /\ 0 <= n - 1 + 1
    OBVIOUS
  <2> HIDE DEF S
  <2> QED BY <1>4, <1>5, <2>1, Ascent
<1>7. w[n] = u[n]
  BY <1>6
<1> QED BY <1>1, <1>2, <1>7

-----------------------------------------------------------------------------
(* The digits d and the carries k of a sum of x and y. *)
Chain(x, y, k, d, s, e, base) ==
  /\ Numbers(x, s, e) /\ Numbers(y, s, e) /\ Numbers(d, s, e)
  /\ k \in [s .. e + 1 -> Int]
  /\ \A i \in s .. e : x[i] + y[i] + k[i] = d[i] + base * k[i + 1]

(* The numbers add up as their digits do, the last carry being worth base to
   the length of the field. *)
LEMMA ChainAdds ==
  ASSUME NEW x, NEW y, NEW k, NEW d, NEW s, NEW e, NEW base,
         Ends(s, e), base \in Nat, Chain(x, y, k, d, s, e, base)
  PROVE  Value(x, Span(s, e), base) + Value(y, Span(s, e), base) + k[s]
           = Value(d, Span(s, e), base) + k[e + 1] * Weight(base, e + 1 - s)
<1>1. base \in Int /\ Numbers(x, s, e) /\ Numbers(y, s, e) /\ Numbers(d, s, e)
  BY DEF Chain
<1>2. PICK vx : Worth(vx, x, s, e, base)
  BY <1>1, ValueSteps, Zenon
<1>3. PICK vy : Worth(vy, y, s, e, base)
  BY <1>1, ValueSteps, Zenon
<1>4. PICK vd : Worth(vd, d, s, e, base)
  BY <1>1, ValueSteps, Zenon
<1> DEFINE n == e + 1 - s
<1>5. n \in Nat
  BY DEF Ends
<1>6. PICK w : Powers(w, base, n) /\ Weight(base, n) = w[n]
  <2> HIDE DEF n
  <2> QED BY <1>1, <1>5, WeightSteps, Zenon
<1> DEFINE c == k[e + 1]
           S == {i \in Int : i >= s /\ vx[i] + vy[i] + k[i] = vd[i] + c * w[e + 1 - i]}
<1>7. c \in Int /\ \A i \in s .. e + 1 : /\ vx[i] \in Int /\ vy[i] \in Int /\ vd[i] \in Int
                                        /\ k[i] \in Int /\ w[e + 1 - i] \in Int
  <2>1. c \in Int
    BY DEF Chain, Ends
  <2>2. ASSUME NEW i \in s .. e + 1
        PROVE  /\ vx[i] \in Int /\ vy[i] \in Int /\ vd[i] \in Int
               /\ k[i] \in Int /\ w[e + 1 - i] \in Int
    <3>1. e + 1 - i \in 0 .. n
      BY DEF Ends
    <3>2. vx[i] \in Int /\ vy[i] \in Int /\ vd[i] \in Int
      BY <1>2, <1>3, <1>4 DEF Worth
    <3>3. k[i] \in Int
      BY DEF Chain
    <3> HIDE DEF n
    <3>4. w[e + 1 - i] \in Int
      BY <1>6, <3>1 DEF Powers
    <3> QED BY <3>2, <3>3, <3>4
  <2> QED BY <2>1, <2>2
<1>8. e + 1 \in S
  <2>1. vx[e + 1] = 0 /\ vy[e + 1] = 0 /\ vd[e + 1] = 0 /\ w[e + 1 - (e + 1)] = 1
    <3>1. e + 1 - (e + 1) = 0
      BY DEF Ends
    <3> QED BY <1>2, <1>3, <1>4, <1>6, <3>1 DEF Worth, Powers
  <2> QED BY <1>7, <2>1 DEF Ends
<1>9. ASSUME NEW i \in s .. e, i + 1 \in S
      PROVE  i \in S
  <2>1. i \in s .. e + 1 /\ i + 1 \in s .. e + 1 /\ i \in Int /\ i >= s
    BY DEF Ends
  <2>2. /\ vx[i] = x[i] + base * vx[i + 1]
        /\ vy[i] = y[i] + base * vy[i + 1]
        /\ vd[i] = d[i] + base * vd[i + 1]
        /\ x[i] + y[i] + k[i] = d[i] + base * k[i + 1]
        /\ x[i] \in Int /\ y[i] \in Int /\ d[i] \in Int
    BY <1>2, <1>3, <1>4 DEF Worth, Chain, Numbers
  <2>3. w[e + 1 - i] = base * w[e - i] /\ w[e + 1 - (i + 1)] = w[e - i] /\ w[e - i] \in Int
    <3>1. /\ e - i \in 0 .. n - 1 /\ e - i \in 0 .. n
          /\ e - i + 1 = e + 1 - i /\ e + 1 - (i + 1) = e - i
      BY DEF Ends
    <3> HIDE DEF n
    <3> QED BY <1>6, <3>1 DEF Powers
  <2>4. vx[i + 1] + vy[i + 1] + k[i + 1] = vd[i + 1] + c * w[e - i]
    BY <1>9, <2>3
  <2> DEFINE x0 == x[i]
             y0 == y[i]
             d0 == d[i]
             k0 == k[i]
             k1 == k[i + 1]
             x1 == vx[i + 1]
             y1 == vy[i + 1]
             d1 == vd[i + 1]
             w1 == w[e - i]
  <2>5. /\ x0 \in Int /\ y0 \in Int /\ d0 \in Int /\ k0 \in Int /\ k1 \in Int
        /\ x1 \in Int /\ y1 \in Int /\ d1 \in Int /\ w1 \in Int
        /\ x0 + y0 + k0 = d0 + base * k1
        /\ x1 + y1 + k1 = d1 + c * w1
    <3> HIDE DEF c
    <3> QED BY <1>7, <2>1, <2>2, <2>3, <2>4
  <2>6. vx[i] = x0 + base * x1 /\ vy[i] = y0 + base * y1 /\ vd[i] = d0 + base * d1 /\ k[i] = k0
    BY <2>2
  <2> HIDE DEF c, x0, y0, d0, k0, k1, x1, y1, d1, w1
  <2>7. (x0 + base * x1) + (y0 + base * y1) + k0 = (d0 + base * d1) + c * (base * w1)
    BY <1>7, <2>5
  <2>8. vx[i] + vy[i] + k[i] = vd[i] + c * w[e + 1 - i]
    BY <2>3, <2>6, <2>7 DEF w1
  <2> QED BY <2>1, <2>8 DEF c
<1>10. s .. e + 1 \subseteq S
  <2>1. s \in Int /\ e \in Int /\ s <= e + 1
    BY DEF Ends
  <2> HIDE DEF S
  <2> QED BY <1>8, <1>9, <2>1, Descent
<1>11. s \in S
  BY <1>10 DEF Ends
<1> QED BY <1>2, <1>3, <1>4, <1>6, <1>11 DEF Worth

(* The nibbles of the field are digits. *)
AreDigits(x, s, e, base) == \A i \in s .. e : x[i] \in 0 .. base - 1

LEMMA ValueIsNatural ==
  ASSUME NEW x, NEW s, NEW e, NEW base, Ends(s, e), base \in Nat, AreDigits(x, s, e, base)
  PROVE  /\ Numbers(x, s, e)
         /\ Value(x, Span(s, e), base) \in Nat
         /\ Value(x, Span(s, e), base) = 0 => \A i \in s .. e : base # 0 => x[i] = 0
<1>1. base \in Int /\ Numbers(x, s, e)
  BY DEF AreDigits, Numbers
<1>2. PICK v : Worth(v, x, s, e, base)
  BY <1>1, ValueSteps, Zenon
<1> DEFINE S == {i \in Int : v[i] \in Nat}
<1>3. e + 1 \in S
  BY <1>2 DEF Worth, Ends
<1>4. ASSUME NEW i \in s .. e, i + 1 \in S
      PROVE  i \in S
  <2>1. v[i] = x[i] + base * v[i + 1] /\ x[i] \in Nat /\ v[i + 1] \in Nat /\ i \in Int
    BY <1>2, <1>4 DEF Worth, AreDigits, Ends
  <2>2. \A a, b \in Nat : a + base * b \in Nat
    OBVIOUS
  <2> QED BY <2>1, <2>2
<1>5. s .. e + 1 \subseteq S
  <2>1. s \in Int /\ e \in Int /\ s <= e + 1
    BY DEF Ends
  <2> HIDE DEF S
  <2> QED BY <1>3, <1>4, <2>1, Descent
<1>6. \A i \in s .. e + 1 : v[i] \in Nat
  BY <1>5
<1>7. v[s] \in Nat
  BY <1>6 DEF Ends
<1>8. ASSUME v[s] = 0, base # 0
      PROVE  \A i \in s .. e : x[i] = 0
  <2> DEFINE Z == {i \in Int : i <= e + 1 => v[i] = 0}
  <2>1. s \in Z
    BY <1>8 DEF Ends
  <2>2. ASSUME NEW i \in s .. e, i \in Z
        PROVE  x[i] = 0 /\ i + 1 \in Z
    <3>1. v[i] = 0 /\ v[i] = x[i] + base * v[i + 1] /\ x[i] \in Nat /\ v[i + 1] \in Nat
      BY <1>2, <1>6, <2>2 DEF Worth, AreDigits, Ends
    <3>2. \A a, b \in Nat : 0 = a + base * b => a = 0 /\ b = 0
      <4> SUFFICES ASSUME NEW a \in Nat, NEW b \in Nat, 0 = a + base * b
                   PROVE  a = 0 /\ b = 0
        OBVIOUS
      <4>1. base * b >= 0 /\ a = 0 /\ base * b = 0
        OBVIOUS
      <4> QED BY <1>8, <4>1
    <3>3. x[i] = 0 /\ v[i + 1] = 0
      BY <3>1, <3>2, Zenon
    <3>4. i + 1 \in Int
      BY DEF Ends
    <3> QED BY <3>3, <3>4
  <2>3. s .. e + 1 \subseteq Z
    <3>1. s \in Int /\ e \in Int /\ s <= e + 1
      BY DEF Ends
    <3> HIDE DEF Z
    <3> QED BY <2>1, <2>2, <3>1, Ascent
  <2> QED BY <2>2, <2>3 DEF Ends
<1> QED BY <1>1, <1>2, <1>7, <1>8 DEF Worth

LEMMA ValueOfZeros ==
  ASSUME NEW x, NEW s, NEW e, NEW base, Ends(s, e), base \in Nat, \A i \in s .. e : x[i] = 0
  PROVE  Value(x, Span(s, e), base) = 0
<1>1. base \in Int /\ Numbers(x, s, e)
  BY DEF Numbers
<1>2. PICK v : Worth(v, x, s, e, base)
  BY <1>1, ValueSteps, Zenon
<1> DEFINE S == {i \in Int : v[i] = 0}
<1>3. e + 1 \in S
  BY <1>2 DEF Worth, Ends
<1>4. ASSUME NEW i \in s .. e, i + 1 \in S
      PROVE  i \in S
  <2>1. v[i] = x[i] + base * v[i + 1] /\ x[i] = 0 /\ v[i + 1] = 0 /\ i \in Int
    BY <1>2, <1>4 DEF Worth, Ends
  <2>2. 0 + base * 0 = 0
    OBVIOUS
  <2> QED BY <2>1, <2>2
<1>5. s .. e + 1 \subseteq S
  <2>1. s \in Int /\ e \in Int /\ s <= e + 1
    BY DEF Ends
  <2> HIDE DEF S
  <2> QED BY <1>3, <1>4, <2>1, Descent
<1> QED BY <1>2, <1>5 DEF Worth, Ends

(* A number and its complement are all the digits base - 1. *)
LEMMA ValueOfComplement ==
  ASSUME NEW x, NEW y, NEW s, NEW e, NEW base,
         Ends(s, e), base \in Nat, Numbers(x, s, e), \A i \in s .. e : y[i] = base - 1 - x[i]
  PROVE  /\ Numbers(y, s, e)
         /\ Value(x, Span(s, e), base) \in Int /\ Value(y, Span(s, e), base) \in Int
         /\ Weight(base, e + 1 - s) \in Int
         /\ Value(x, Span(s, e), base) + Value(y, Span(s, e), base) + 1 = Weight(base, e + 1 - s)
<1> DEFINE k == [i \in s .. e + 1 |-> 1]
           d == [i \in s .. e |-> 0]
<1>1. Numbers(y, s, e) /\ Numbers(d, s, e) /\ k \in [s .. e + 1 -> Int] /\ base \in Int
  BY DEF Numbers
<1>2. \A i \in s .. e : x[i] + y[i] + k[i] = d[i] + base * k[i + 1]
  BY DEF Ends, Numbers
<1>3. k[s] = 1 /\ k[e + 1] = 1
  BY DEF Ends
<1>4. \A i \in s .. e : d[i] = 0
  OBVIOUS
<1> HIDE DEF k, d
<1>5. Chain(x, y, k, d, s, e, base)
  BY <1>1, <1>2 DEF Chain
<1>6. Value(x, Span(s, e), base) + Value(y, Span(s, e), base) + 1
        = Value(d, Span(s, e), base) + 1 * Weight(base, e + 1 - s)
  BY <1>3, <1>5, ChainAdds
<1>7. Value(d, Span(s, e), base) = 0
  BY <1>4, ValueOfZeros
<1>8. PICK vx : Worth(vx, x, s, e, base)
  BY <1>1, ValueSteps, Zenon
<1>9. PICK vy : Worth(vy, y, s, e, base)
  BY <1>1, ValueSteps, Zenon
<1> DEFINE n == e + 1 - s
<1>10. n \in Nat
  BY DEF Ends
<1>11. Weight(base, n) \in Int
  <2> HIDE DEF n
  <2>1. PICK w : Powers(w, base, n) /\ Weight(base, n) = w[n]
    BY <1>1, <1>10, WeightSteps, Zenon
  <2> QED BY <1>10, <2>1 DEF Powers
<1>12. Value(x, Span(s, e), base) \in Int /\ Value(y, Span(s, e), base) \in Int
  BY <1>8, <1>9 DEF Worth, Ends
<1> QED BY <1>1, <1>6, <1>7, <1>11, <1>12

(* What the digits of a field are worth is a number below the field's weight,
   and 0 only if all of them are. *)
LEMMA ValueBounds ==
  ASSUME NEW x, NEW s, NEW e, NEW base,
         Ends(s, e), base \in Nat \ {0}, AreDigits(x, s, e, base)
  PROVE  /\ Weight(base, e + 1 - s) \in Nat \ {0}
         /\ Value(x, Span(s, e), base) \in 0 .. Weight(base, e + 1 - s) - 1
         /\ Value(x, Span(s, e), base) = 0 <=> \A i \in s .. e : x[i] = 0
<1> DEFINE y == [i \in s .. e |-> base - 1 - x[i]]
<1>1. AreDigits(y, s, e, base) /\ \A i \in s .. e : y[i] = base - 1 - x[i]
  BY DEF AreDigits
<1> HIDE DEF y
<1>2. /\ Value(x, Span(s, e), base) \in Nat /\ Value(y, Span(s, e), base) \in Nat
      /\ Numbers(x, s, e)
      /\ Value(x, Span(s, e), base) = 0 => \A i \in s .. e : x[i] = 0
  BY <1>1, ValueIsNatural
<1>3. Value(x, Span(s, e), base) + Value(y, Span(s, e), base) + 1 = Weight(base, e + 1 - s)
      /\ Weight(base, e + 1 - s) \in Int
  BY <1>1, <1>2, ValueOfComplement
<1>4. (\A i \in s .. e : x[i] = 0) => Value(x, Span(s, e), base) = 0
  BY ValueOfZeros
<1> QED BY <1>2, <1>3, <1>4

-----------------------------------------------------------------------------
(* The sums. *)

(* k are the carries of x + y + c. *)
SumCarries(k, x, y, c, s, e, base) ==
  /\ k \in [s .. e + 1 -> Nat]
  /\ k[s] = c
  /\ \A i \in s .. e : k[i + 1] = IF x[i] + y[i] + k[i] >= base THEN 1 ELSE 0
SumNibbles(x, y, k, s, e, base) ==
  LET digit(i) == LET t == x[i] + y[i] + k[i]
                  IN (IF t < base THEN t ELSE t - base) % 16
  IN [i \in s .. e |-> digit(i)]
(* What SumOf gives with these carries. *)
SumWith(k, res, x, y, c, f, base) ==
  /\ SumCarries(k, x, y, c, f.s, f.e, base)
  /\ SumOf(res, x, y, c, f, base)
       = Result(On(res, f, SumNibbles(x, y, k, f.s, f.e, base)), k[f.e + 1])

LEMMA SumLoop ==
  ASSUME NEW res, NEW x, NEW y, NEW c, NEW f, NEW base, Spanned(f), c \in Nat
  PROVE  \E k : SumWith(k, res, x, y, c, f, base)
<1> DEFINE s == f.s
           e == f.e
           k == CHOOSE carry : carry = [i \in s .. e + 1 |->
                   IF i = s THEN c
                   ELSE IF x[i - 1] + y[i - 1] + carry[i - 1] >= base THEN 1 ELSE 0]
           over == {p \in Int \X Nat : x[p[1]] + y[p[1]] + p[2] >= base}
<1>1. SumOf(res, x, y, c, f, base) = Result(On(res, f, SumNibbles(x, y, k, s, e, base)), k[e + 1])
  BY DEF SumOf, SumNibbles, Carries, In
<1>2. Ends(s, e)
  BY DEF Spanned
<1> HIDE DEF s, e
<1> USE <1>2
<1>3. PICK u : CarriesOver(u, s, e, c, over)
  <2> HIDE DEF over
  <2> QED BY CarriesExist, Zenon
<1> USE DEF CarriesOver
<1>4. \A i \in s .. e : u[i + 1] = IF x[i] + y[i] + u[i] >= base THEN 1 ELSE 0
  <2> SUFFICES ASSUME NEW i \in s .. e
               PROVE  u[i + 1] = IF x[i] + y[i] + u[i] >= base THEN 1 ELSE 0
    OBVIOUS
  <2>1. <<i, u[i]>> \in over <=> x[i] + y[i] + u[i] >= base
    BY <1>3 DEF Ends
  <2> HIDE DEF over
  <2> QED BY <1>3, <2>1
<1> HIDE DEF over
<1>5. u = [i \in s .. e + 1 |->
             IF i = s THEN c ELSE IF x[i - 1] + y[i - 1] + u[i - 1] >= base THEN 1 ELSE 0]
  <2>1. ASSUME NEW i \in s .. e + 1, i # s
        PROVE  u[i] = IF x[i - 1] + y[i - 1] + u[i - 1] >= base THEN 1 ELSE 0
    <3>1. i - 1 \in s .. e /\ i - 1 + 1 = i
      BY <2>1 DEF Ends
    <3> QED BY <1>4, <3>1
  <2> QED BY <1>3, <2>1
<1>6. k = [i \in s .. e + 1 |->
             IF i = s THEN c ELSE IF x[i - 1] + y[i - 1] + k[i - 1] >= base THEN 1 ELSE 0]
  BY <1>5, Zenon
<1> HIDE DEF k
<1> DEFINE S == {i \in Int : k[i] = u[i]}
<1>7. s \in S
  BY <1>3, <1>6 DEF Ends
<1>8. ASSUME NEW i \in s .. e, i \in S
      PROVE  i + 1 \in S
  <2>1. k[i + 1] = IF x[i] + y[i] + k[i] >= base THEN 1 ELSE 0
    BY <1>6 DEF Ends
  <2> QED BY <1>4, <1>8, <2>1
<1>9. s .. e + 1 \subseteq S
  <2>1. s \in Int /\ e \in Int /\ s <= e + 1
    BY DEF Ends
  <2> HIDE DEF S
  <2> QED BY <1>7, <1>8, <2>1, Ascent
<1>10. \A i \in s .. e + 1 : k[i] = u[i]
  BY <1>9
<1>11. \A i \in s .. e : i \in s .. e + 1 /\ i + 1 \in s .. e + 1
  BY DEF Ends
<1>12. SumCarries(k, x, y, c, s, e, base)
  <2>1. k = u
    BY <1>3, <1>6, <1>10
  <2> QED BY <1>3, <1>4, <2>1 DEF SumCarries
<1> QED BY <1>1, <1>12 DEF s, e, SumWith

(* v is r with the nibbles s to e of d. *)
Replaces(v, r, d, s, e) ==
  /\ v = [i \in 0 .. 15 |-> v[i]]
  /\ \A i \in s .. e : v[i] = d[i]
  /\ \A i \in (0 .. 15) \ (s .. e) : v[i] = r[i]

LEMMA OnReplaces ==
  ASSUME NEW r, NEW d, NEW s, NEW e, Ends(s, e)
  PROVE  Replaces(On(r, Span(s, e), d), r, d, s, e)
<1> DEFINE v == On(r, Span(s, e), d)
<1>1. v = [i \in 0 .. 15 |-> IF i \in s .. e THEN d[i] ELSE r[i]]
  BY DEF On, Span, In
<1>2. s .. e \subseteq 0 .. 15
  BY DEF Ends
<1> HIDE DEF v
<1>3. v = [i \in 0 .. 15 |-> v[i]]
  BY <1>1
<1>4. Replaces(v, r, d, s, e)
  BY <1>1, <1>2, <1>3 DEF Replaces
<1> QED BY <1>4 DEF v

(* A sum leaves the digits of the sum of the integers, CARRY being what does
   not fit in the field (register.c, add_register()). *)
THEOREM SumIsExact ==
  ASSUME NEW res, NEW x, NEW y, NEW c, NEW s, NEW e, NEW base,
         Ends(s, e), base \in 2 .. 16, c \in {0, 1},
         AreDigits(x, s, e, base), AreDigits(y, s, e, base)
  PROVE  LET f == Span(s, e)
             sum == SumOf(res, x, y, c, f, base)
         IN /\ AreDigits(sum.reg, s, e, base)
            /\ sum.CARRY \in {0, 1}
            /\ Value(x, f, base) + Value(y, f, base) + c
                 = Value(sum.reg, f, base) + sum.CARRY * Weight(base, e + 1 - s)
<1> DEFINE f == Span(s, e)
           sum == SumOf(res, x, y, c, f, base)
<1>1. f.s = s /\ f.e = e /\ Spanned(f) /\ c \in Nat
  BY SpanIn DEF Spanned
<1>2. PICK k : /\ SumCarries(k, x, y, c, s, e, base)
               /\ sum = Result(On(res, f, SumNibbles(x, y, k, s, e, base)), k[e + 1])
  <2> HIDE DEF f
  <2>1. PICK k : SumWith(k, res, x, y, c, f, base)
    BY <1>1, SumLoop, Zenon
  <2> QED BY <1>1, <2>1, Zenon DEF SumWith
<1> DEFINE D == SumNibbles(x, y, k, s, e, base)
<1>3. sum.reg = On(res, f, D) /\ sum.CARRY = k[e + 1]
  BY <1>2 DEF Result
<1>4. \A i \in s .. e : sum.reg[i] = D[i]
  <2>1. Replaces(On(res, f, D), res, D, s, e)
    BY OnReplaces, Zenon
  <2> HIDE DEF D, sum, f
  <2> QED BY <1>3, <2>1, Zenon DEF Replaces
<1>5. ASSUME NEW i \in s .. e, k[i] \in {0, 1}
      PROVE  /\ k[i + 1] \in {0, 1}
             /\ D[i] \in 0 .. base - 1
             /\ x[i] + y[i] + k[i] = D[i] + base * k[i + 1]
  <2> DEFINE t == x[i] + y[i] + k[i]
  <2>1. x[i] \in 0 .. base - 1 /\ y[i] \in 0 .. base - 1
    BY DEF AreDigits
  <2>2. k[i + 1] = IF t >= base THEN 1 ELSE 0
    BY <1>2 DEF SumCarries
  <2>3. D[i] = (IF t < base THEN t ELSE t - base) % 16
    BY DEF SumNibbles
  <2>4. t \in 0 .. 2 * base - 1
    BY <1>5, <2>1
  <2> HIDE DEF t, D
  <2>5. CASE t >= base
    <3>1. t - base \in 0 .. base - 1 /\ t - base \in 0 .. 15
      BY <2>4, <2>5
    <3>2. D[i] = t - base
      <4>1. ~(t < base) /\ (t - base) % 16 = t - base
        BY <2>4, <2>5, <3>1
      <4> QED BY <2>3, <4>1
    <3> QED BY <2>2, <2>4, <2>5, <3>1, <3>2 DEF t
  <2>6. CASE ~(t >= base)
    <3>1. t \in 0 .. base - 1 /\ t \in 0 .. 15
      BY <2>4, <2>6
    <3>2. D[i] = t
      BY <2>3, <2>4, <2>6, <3>1
    <3> QED BY <2>2, <2>4, <2>6, <3>1, <3>2 DEF t
  <2> QED BY <2>5, <2>6
<1> HIDE DEF D, sum
<1> DEFINE S == {i \in Int : k[i] \in {0, 1}}
<1>6. s .. e + 1 \subseteq S
  <2>1. s \in Int /\ e \in Int /\ s <= e + 1
    BY DEF Ends
  <2>2. s \in S
    BY <1>2, <2>1 DEF SumCarries
  <2>3. ASSUME NEW i \in s .. e, i \in S
        PROVE  i + 1 \in S
    BY <1>5, <2>1, <2>3
  <2> HIDE DEF S
  <2> QED BY <2>1, <2>2, <2>3, Ascent
<1>7. \A i \in s .. e + 1 : k[i] \in {0, 1}
  BY <1>6
<1>8. \A i \in s .. e : /\ sum.reg[i] \in 0 .. base - 1
                        /\ x[i] + y[i] + k[i] = sum.reg[i] + base * k[i + 1]
  BY <1>4, <1>5, <1>7 DEF Ends
<1>9. Chain(x, y, k, sum.reg, s, e, base)
  <2>1. Numbers(x, s, e) /\ Numbers(y, s, e) /\ Numbers(sum.reg, s, e)
    BY <1>8 DEF Numbers, AreDigits
  <2>2. k \in [s .. e + 1 -> Int]
    BY <1>2 DEF SumCarries
  <2> QED BY <1>8, <2>1, <2>2 DEF Chain
<1>10. Value(x, f, base) + Value(y, f, base) + c
         = Value(sum.reg, f, base) + sum.CARRY * Weight(base, e + 1 - s)
  <2>1. base \in Nat /\ k[s] = c
    BY <1>2 DEF SumCarries
  <2> QED BY <1>3, <1>9, <2>1, ChainAdds
<1>11. sum.CARRY \in {0, 1}
  BY <1>3, <1>7 DEF Ends
<1> QED BY <1>8, <1>10, <1>11 DEF AreDigits, sum

-----------------------------------------------------------------------------
(* The differences. *)

(* k are the borrows of x - y - c. *)
Borrows(k, x, y, c, s, e, base) ==
  /\ k \in [s .. e + 1 -> Nat]
  /\ k[s] = c
  /\ \A i \in s .. e : k[i + 1] = IF x[i] - y[i] - k[i] < 0 THEN 1 ELSE 0
DifferenceNibbles(x, y, k, s, e, base) ==
  LET digit(i) == LET t == x[i] - y[i] - k[i]
                  IN (IF t >= 0 THEN t ELSE t + base) % 16
  IN [i \in s .. e |-> digit(i)]
(* What DifferenceOf gives with these carries. *)
DifferenceWith(k, res, x, y, c, f, base) ==
  /\ Borrows(k, x, y, c, f.s, f.e, base)
  /\ DifferenceOf(res, x, y, c, f, base)
       = Result(On(res, f, DifferenceNibbles(x, y, k, f.s, f.e, base)), k[f.e + 1])

LEMMA DifferenceLoop ==
  ASSUME NEW res, NEW x, NEW y, NEW c, NEW f, NEW base, Spanned(f), c \in Nat
  PROVE  \E k : DifferenceWith(k, res, x, y, c, f, base)
<1> DEFINE s == f.s
           e == f.e
           k == CHOOSE carry : carry = [i \in s .. e + 1 |->
                   IF i = s THEN c
                   ELSE IF x[i - 1] - y[i - 1] - carry[i - 1] < 0 THEN 1 ELSE 0]
           over == {p \in Int \X Nat : x[p[1]] - y[p[1]] - p[2] < 0}
<1>1. DifferenceOf(res, x, y, c, f, base) = Result(On(res, f, DifferenceNibbles(x, y, k, s, e, base)), k[e + 1])
  BY DEF DifferenceOf, DifferenceNibbles, Carries, In
<1>2. Ends(s, e)
  BY DEF Spanned
<1> HIDE DEF s, e
<1> USE <1>2
<1>3. PICK u : CarriesOver(u, s, e, c, over)
  <2> HIDE DEF over
  <2> QED BY CarriesExist, Zenon
<1> USE DEF CarriesOver
<1>4. \A i \in s .. e : u[i + 1] = IF x[i] - y[i] - u[i] < 0 THEN 1 ELSE 0
  <2> SUFFICES ASSUME NEW i \in s .. e
               PROVE  u[i + 1] = IF x[i] - y[i] - u[i] < 0 THEN 1 ELSE 0
    OBVIOUS
  <2>1. <<i, u[i]>> \in over <=> x[i] - y[i] - u[i] < 0
    BY <1>3 DEF Ends
  <2> HIDE DEF over
  <2> QED BY <1>3, <2>1
<1> HIDE DEF over
<1>5. u = [i \in s .. e + 1 |->
             IF i = s THEN c ELSE IF x[i - 1] - y[i - 1] - u[i - 1] < 0 THEN 1 ELSE 0]
  <2>1. ASSUME NEW i \in s .. e + 1, i # s
        PROVE  u[i] = IF x[i - 1] - y[i - 1] - u[i - 1] < 0 THEN 1 ELSE 0
    <3>1. i - 1 \in s .. e /\ i - 1 + 1 = i
      BY <2>1 DEF Ends
    <3> QED BY <1>4, <3>1
  <2> QED BY <1>3, <2>1
<1>6. k = [i \in s .. e + 1 |->
             IF i = s THEN c ELSE IF x[i - 1] - y[i - 1] - k[i - 1] < 0 THEN 1 ELSE 0]
  BY <1>5, Zenon
<1> HIDE DEF k
<1> DEFINE S == {i \in Int : k[i] = u[i]}
<1>7. s \in S
  BY <1>3, <1>6 DEF Ends
<1>8. ASSUME NEW i \in s .. e, i \in S
      PROVE  i + 1 \in S
  <2>1. k[i + 1] = IF x[i] - y[i] - k[i] < 0 THEN 1 ELSE 0
    BY <1>6 DEF Ends
  <2> QED BY <1>4, <1>8, <2>1
<1>9. s .. e + 1 \subseteq S
  <2>1. s \in Int /\ e \in Int /\ s <= e + 1
    BY DEF Ends
  <2> HIDE DEF S
  <2> QED BY <1>7, <1>8, <2>1, Ascent
<1>10. \A i \in s .. e + 1 : k[i] = u[i]
  BY <1>9
<1>11. \A i \in s .. e : i \in s .. e + 1 /\ i + 1 \in s .. e + 1
  BY DEF Ends
<1>12. Borrows(k, x, y, c, s, e, base)
  <2>1. k = u
    BY <1>3, <1>6, <1>10
  <2> QED BY <1>3, <1>4, <2>1 DEF Borrows
<1> QED BY <1>1, <1>12 DEF s, e, DifferenceWith

-----------------------------------------------------------------------------
(* The loops that stop when nothing is left to carry. *)

(* k are the carries of x + c. *)
UpCarries(k, x, c, s, e, base) ==
  /\ k \in [s .. e + 1 -> Nat]
  /\ k[s] = c
  /\ \A i \in s .. e : k[i + 1] = IF k[i] # 0 /\ x[i] + k[i] >= base THEN 1 ELSE 0
UpNibbles(x, k, s, e, base) ==
  LET digit(i) == LET t == x[i] + k[i]
                  IN (IF t < base THEN t ELSE t - base) % 16
  IN [i \in s .. e |-> IF k[i] = 0 THEN x[i] ELSE digit(i)]
(* What Upwards gives with these carries. *)
UpWith(k, x, c, f, base) ==
  /\ UpCarries(k, x, c, f.s, f.e, base)
  /\ Upwards(x, c, f, base)
       = Result(On(x, f, UpNibbles(x, k, f.s, f.e, base)), k[f.e + 1])

LEMMA UpLoop ==
  ASSUME NEW x, NEW c, NEW f, NEW base, Spanned(f), c \in Nat
  PROVE  \E k : UpWith(k, x, c, f, base)
<1> DEFINE s == f.s
           e == f.e
           k == CHOOSE carry : carry = [i \in s .. e + 1 |->
                   IF i = s THEN c
                   ELSE IF carry[i - 1] # 0 /\ x[i - 1] + carry[i - 1] >= base THEN 1 ELSE 0]
           over == {p \in Int \X Nat : p[2] # 0 /\ x[p[1]] + p[2] >= base}
<1>1. Upwards(x, c, f, base) = Result(On(x, f, UpNibbles(x, k, s, e, base)), k[e + 1])
  BY DEF Upwards, UpNibbles, Carries, In
<1>2. Ends(s, e)
  BY DEF Spanned
<1> HIDE DEF s, e
<1> USE <1>2
<1>3. PICK u : CarriesOver(u, s, e, c, over)
  <2> HIDE DEF over
  <2> QED BY CarriesExist, Zenon
<1> USE DEF CarriesOver
<1>4. \A i \in s .. e : u[i + 1] = IF u[i] # 0 /\ x[i] + u[i] >= base THEN 1 ELSE 0
  <2> SUFFICES ASSUME NEW i \in s .. e
               PROVE  u[i + 1] = IF u[i] # 0 /\ x[i] + u[i] >= base THEN 1 ELSE 0
    OBVIOUS
  <2>1. <<i, u[i]>> \in over <=> u[i] # 0 /\ x[i] + u[i] >= base
    BY <1>3 DEF Ends
  <2> HIDE DEF over
  <2> QED BY <1>3, <2>1
<1> HIDE DEF over
<1>5. u = [i \in s .. e + 1 |->
             IF i = s THEN c ELSE IF u[i - 1] # 0 /\ x[i - 1] + u[i - 1] >= base THEN 1 ELSE 0]
  <2>1. ASSUME NEW i \in s .. e + 1, i # s
        PROVE  u[i] = IF u[i - 1] # 0 /\ x[i - 1] + u[i - 1] >= base THEN 1 ELSE 0
    <3>1. i - 1 \in s .. e /\ i - 1 + 1 = i
      BY <2>1 DEF Ends
    <3> QED BY <1>4, <3>1
  <2> QED BY <1>3, <2>1
<1>6. k = [i \in s .. e + 1 |->
             IF i = s THEN c ELSE IF k[i - 1] # 0 /\ x[i - 1] + k[i - 1] >= base THEN 1 ELSE 0]
  BY <1>5, Zenon
<1> HIDE DEF k
<1> DEFINE S == {i \in Int : k[i] = u[i]}
<1>7. s \in S
  BY <1>3, <1>6 DEF Ends
<1>8. ASSUME NEW i \in s .. e, i \in S
      PROVE  i + 1 \in S
  <2>1. k[i + 1] = IF k[i] # 0 /\ x[i] + k[i] >= base THEN 1 ELSE 0
    BY <1>6 DEF Ends
  <2> QED BY <1>4, <1>8, <2>1
<1>9. s .. e + 1 \subseteq S
  <2>1. s \in Int /\ e \in Int /\ s <= e + 1
    BY DEF Ends
  <2> HIDE DEF S
  <2> QED BY <1>7, <1>8, <2>1, Ascent
<1>10. \A i \in s .. e + 1 : k[i] = u[i]
  BY <1>9
<1>11. \A i \in s .. e : i \in s .. e + 1 /\ i + 1 \in s .. e + 1
  BY DEF Ends
<1>12. UpCarries(k, x, c, s, e, base)
  <2>1. k = u
    BY <1>3, <1>6, <1>10
  <2> QED BY <1>3, <1>4, <2>1 DEF UpCarries
<1> QED BY <1>1, <1>12 DEF s, e, UpWith

(* A difference leaves the digits of the difference of the integers, CARRY
   being what was borrowed from beyond the field (register.c, sub_register() and
   dec_register()).  A borrow in front may be more than 1, as for the constants. *)
THEOREM DifferenceIsExact ==
  ASSUME NEW res, NEW x, NEW y, NEW c, NEW s, NEW e, NEW base,
         Ends(s, e), base \in 2 .. 16, c \in 0 .. base, y[s] + c <= base,
         AreDigits(x, s, e, base), AreDigits(y, s, e, base)
  PROVE  LET f == Span(s, e)
             difference == DifferenceOf(res, x, y, c, f, base)
         IN /\ AreDigits(difference.reg, s, e, base)
            /\ difference.CARRY \in {0, 1}
            /\ Value(difference.reg, f, base) + Value(y, f, base) + c
                 = Value(x, f, base) + difference.CARRY * Weight(base, e + 1 - s)
<1> DEFINE f == Span(s, e)
           difference == DifferenceOf(res, x, y, c, f, base)
<1>1. f.s = s /\ f.e = e /\ Spanned(f) /\ c \in Nat
  BY SpanIn DEF Spanned
<1>2. PICK k : /\ Borrows(k, x, y, c, s, e, base)
               /\ difference = Result(On(res, f, DifferenceNibbles(x, y, k, s, e, base)), k[e + 1])
  <2> HIDE DEF f
  <2>1. PICK k : DifferenceWith(k, res, x, y, c, f, base)
    BY <1>1, DifferenceLoop, Zenon
  <2> QED BY <1>1, <2>1, Zenon DEF DifferenceWith
<1> DEFINE D == DifferenceNibbles(x, y, k, s, e, base)
<1>3. difference.reg = On(res, f, D) /\ difference.CARRY = k[e + 1]
  BY <1>2 DEF Result
<1>4. \A i \in s .. e : difference.reg[i] = D[i]
  <2>1. Replaces(On(res, f, D), res, D, s, e)
    BY OnReplaces, Zenon
  <2> HIDE DEF D, difference, f
  <2> QED BY <1>3, <2>1, Zenon DEF Replaces
<1>5. ASSUME NEW i \in s .. e, k[i] \in 0 .. base, y[i] + k[i] <= base
      PROVE  /\ k[i + 1] \in {0, 1}
             /\ D[i] \in 0 .. base - 1
             /\ D[i] + y[i] + k[i] = x[i] + base * k[i + 1]
  <2> DEFINE t == x[i] - y[i] - k[i]
  <2>1. x[i] \in 0 .. base - 1 /\ y[i] \in 0 .. base - 1
    BY DEF AreDigits
  <2>2. k[i + 1] = IF t < 0 THEN 1 ELSE 0
    BY <1>2 DEF Borrows
  <2>3. D[i] = (IF t >= 0 THEN t ELSE t + base) % 16
    BY DEF DifferenceNibbles
  <2>4. t \in -base .. base - 1
    BY <1>5, <2>1
  <2> HIDE DEF t, D
  <2>5. CASE t >= 0
    <3>1. t \in 0 .. base - 1 /\ t % 16 = t
      BY <2>4, <2>5
    <3>2. D[i] = t
      BY <2>3, <2>5, <3>1
    <3>3. k[i + 1] = 0
      BY <2>2, <2>4, <2>5
    <3> QED BY <1>5, <2>1, <3>1, <3>2, <3>3 DEF t
  <2>6. CASE ~(t >= 0)
    <3>1. t + base \in 0 .. base - 1 /\ (t + base) % 16 = t + base
      BY <2>4, <2>6
    <3>2. D[i] = t + base
      BY <2>3, <2>6, <3>1
    <3>3. k[i + 1] = 1
      BY <2>2, <2>4, <2>6
    <3> QED BY <1>5, <2>1, <3>1, <3>2, <3>3 DEF t
  <2> QED BY <2>5, <2>6
<1> HIDE DEF D, difference
<1> DEFINE S == {i \in Int : k[i] \in 0 .. base /\ (i > s => k[i] \in {0, 1})}
<1>6. s .. e + 1 \subseteq S
  <2>1. s \in Int /\ e \in Int /\ s <= e + 1
    BY DEF Ends
  <2>2. s \in S
    BY <1>2, <2>1 DEF Borrows
  <2>3. ASSUME NEW i \in s .. e, i \in S
        PROVE  i + 1 \in S
    <3>1. k[i] \in 0 .. base /\ y[i] + k[i] <= base
      <4>1. CASE i = s
        BY <1>2, <4>1 DEF Borrows
      <4>2. CASE i # s
        <5>1. k[i] \in {0, 1} /\ y[i] \in 0 .. base - 1
          BY <2>1, <2>3, <4>2 DEF AreDigits
        <5> QED BY <5>1
      <4> QED BY <4>1, <4>2
    <3>2. k[i + 1] \in {0, 1}
      BY <1>5, <3>1
    <3> QED BY <2>1, <3>2
  <2> HIDE DEF S
  <2> QED BY <2>1, <2>2, <2>3, Ascent
<1>7. /\ \A i \in s .. e + 1 : k[i] \in 0 .. base /\ (i > s => k[i] \in {0, 1})
      /\ \A i \in s .. e : y[i] + k[i] <= base
  <2>1. \A i \in s .. e + 1 : k[i] \in 0 .. base /\ (i > s => k[i] \in {0, 1})
    BY <1>6
  <2>2. ASSUME NEW i \in s .. e
        PROVE  y[i] + k[i] <= base
    <3>1. CASE i = s
      BY <1>2, <3>1 DEF Borrows
    <3>2. CASE i # s
      <4>1. k[i] \in {0, 1} /\ y[i] \in 0 .. base - 1
        BY <2>1, <3>2 DEF AreDigits, Ends
      <4> QED BY <4>1
    <3> QED BY <3>1, <3>2
  <2> QED BY <2>1, <2>2
<1>8. \A i \in s .. e : /\ difference.reg[i] \in 0 .. base - 1
                        /\ difference.reg[i] + y[i] + k[i] = x[i] + base * k[i + 1]
  BY <1>4, <1>5, <1>7 DEF Ends
<1>9. Chain(difference.reg, y, k, x, s, e, base)
  <2>1. Numbers(x, s, e) /\ Numbers(y, s, e) /\ Numbers(difference.reg, s, e)
    BY <1>8 DEF Numbers, AreDigits
  <2>2. k \in [s .. e + 1 -> Int]
    BY <1>2 DEF Borrows
  <2> QED BY <1>8, <2>1, <2>2 DEF Chain
<1>10. Value(difference.reg, f, base) + Value(y, f, base) + c
         = Value(x, f, base) + difference.CARRY * Weight(base, e + 1 - s)
  <2>1. base \in Nat /\ k[s] = c
    BY <1>2 DEF Borrows
  <2> QED BY <1>3, <1>9, <2>1, ChainAdds
<1>11. difference.CARRY \in {0, 1}
  BY <1>3, <1>7 DEF Ends
<1> QED BY <1>8, <1>10, <1>11 DEF AreDigits, difference

(* An increment leaves the digits of the sum with c, at most one digit too
   large (register.c, inc_register() and add_register_constant()). *)
THEOREM IncrementIsExact ==
  ASSUME NEW x, NEW c, NEW s, NEW e, NEW base,
         Ends(s, e), base \in 2 .. 16, c \in 0 .. base,
         AreDigits(x, s, e, base)
  PROVE  LET f == Span(s, e)
             sum == Upwards(x, c, f, base)
         IN /\ AreDigits(sum.reg, s, e, base)
            /\ sum.CARRY \in {0, 1}
            /\ Value(x, f, base) + c
                 = Value(sum.reg, f, base) + sum.CARRY * Weight(base, e + 1 - s)
<1> DEFINE f == Span(s, e)
           sum == Upwards(x, c, f, base)
<1>1. f.s = s /\ f.e = e /\ Spanned(f) /\ c \in Nat
  BY SpanIn DEF Spanned
<1>2. PICK k : /\ UpCarries(k, x, c, s, e, base)
               /\ sum = Result(On(x, f, UpNibbles(x, k, s, e, base)), k[e + 1])
  <2> HIDE DEF f
  <2>1. PICK k : UpWith(k, x, c, f, base)
    BY <1>1, UpLoop, Zenon
  <2> QED BY <1>1, <2>1, Zenon DEF UpWith
<1> DEFINE D == UpNibbles(x, k, s, e, base)
<1>3. sum.reg = On(x, f, D) /\ sum.CARRY = k[e + 1]
  BY <1>2 DEF Result
<1>4. \A i \in s .. e : sum.reg[i] = D[i]
  <2>1. Replaces(On(x, f, D), x, D, s, e)
    BY OnReplaces, Zenon
  <2> HIDE DEF D, sum, f
  <2> QED BY <1>3, <2>1, Zenon DEF Replaces
<1>5. ASSUME NEW i \in s .. e, k[i] \in 0 .. base
      PROVE  /\ k[i + 1] \in {0, 1}
             /\ D[i] \in 0 .. base - 1
             /\ x[i] + k[i] = D[i] + base * k[i + 1]
  <2> DEFINE t == x[i] + k[i]
  <2>1. x[i] \in 0 .. base - 1
    BY DEF AreDigits
  <2>2. k[i + 1] = IF k[i] # 0 /\ t >= base THEN 1 ELSE 0
    BY <1>2 DEF UpCarries
  <2>3. D[i] = IF k[i] = 0 THEN x[i] ELSE (IF t < base THEN t ELSE t - base) % 16
    BY DEF UpNibbles
  <2>4. t \in 0 .. 2 * base - 1
    BY <1>5, <2>1
  <2> HIDE DEF D
  <2>5. CASE t >= base
    <3>1. t - base \in 0 .. base - 1 /\ (t - base) % 16 = t - base /\ ~(t < base) /\ k[i] # 0
      BY <1>5, <2>1, <2>4, <2>5
    <3>2. D[i] = t - base /\ k[i + 1] = 1
      BY <2>2, <2>3, <2>5, <3>1
    <3> QED BY <1>5, <2>1, <3>1, <3>2
  <2>6. CASE ~(t >= base)
    <3>1. t \in 0 .. base - 1 /\ t % 16 = t /\ t < base /\ (k[i] = 0 => t = x[i])
      BY <1>5, <2>1, <2>4, <2>6
    <3>2. D[i] = t /\ k[i + 1] = 0
      BY <2>2, <2>3, <2>6, <3>1
    <3> QED BY <1>5, <2>1, <3>1, <3>2
  <2> QED BY <2>5, <2>6
<1> HIDE DEF D, sum
<1> DEFINE S == {i \in Int : k[i] \in 0 .. base /\ (i > s => k[i] \in {0, 1})}
<1>6. s .. e + 1 \subseteq S
  <2>1. s \in Int /\ e \in Int /\ s <= e + 1
    BY DEF Ends
  <2>2. s \in S
    BY <1>2, <2>1 DEF UpCarries
  <2>3. ASSUME NEW i \in s .. e, i \in S
        PROVE  i + 1 \in S
    <3>1. k[i] \in 0 .. base
      BY <2>3
    <3>2. k[i + 1] \in {0, 1}
      BY <1>5, <3>1
    <3> QED BY <2>1, <3>2
  <2> HIDE DEF S
  <2> QED BY <2>1, <2>2, <2>3, Ascent
<1>7. \A i \in s .. e + 1 : k[i] \in 0 .. base /\ (i > s => k[i] \in {0, 1})
  BY <1>6
<1>8. \A i \in s .. e : /\ sum.reg[i] \in 0 .. base - 1
                        /\ x[i] + k[i] = sum.reg[i] + base * k[i + 1]
  BY <1>4, <1>5, <1>7 DEF Ends
<1> DEFINE y == [i \in s .. e |-> 0]
<1>9. Chain(x, y, k, sum.reg, s, e, base) /\ Value(y, f, base) = 0
  <2>1. \A i \in s .. e : y[i] = 0
    OBVIOUS
  <2> HIDE DEF y
  <2>2. Numbers(x, s, e) /\ Numbers(y, s, e) /\ Numbers(sum.reg, s, e)
    BY <1>8, <2>1 DEF Numbers, AreDigits
  <2>3. k \in [s .. e + 1 -> Int] /\ base \in Nat
    BY <1>2 DEF UpCarries
  <2>4. \A i \in s .. e : x[i] + y[i] + k[i] = sum.reg[i] + base * k[i + 1]
    <3> SUFFICES ASSUME NEW i \in s .. e
                 PROVE  x[i] + y[i] + k[i] = sum.reg[i] + base * k[i + 1]
      OBVIOUS
    <3>1. x[i] + k[i] = sum.reg[i] + base * k[i + 1]
      BY <1>8
    <3>2. x[i] + y[i] = x[i]
      BY <2>1, <2>2 DEF Numbers
    <3> QED BY <3>1, <3>2
  <2>5. Value(y, f, base) = 0
    BY <2>1, <2>3, ValueOfZeros
  <2> QED BY <2>2, <2>3, <2>4, <2>5 DEF Chain
<1>10. Value(x, f, base) + c = Value(sum.reg, f, base) + sum.CARRY * Weight(base, e + 1 - s)
  <2>1. base \in Nat /\ k[s] = c
    BY <1>2 DEF UpCarries
  <2> HIDE DEF y, f
  <2>2. Value(x, f, base) + Value(y, f, base) + c
          = Value(sum.reg, f, base) + sum.CARRY * Weight(base, e + 1 - s)
    BY <1>3, <1>9, <2>1, ChainAdds DEF f
  <2>3. Value(x, f, base) \in Int
    <3>1. Value(x, Span(s, e), base) \in Nat
      BY <2>1, ValueIsNatural
    <3> QED BY <3>1 DEF f
  <2> QED BY <1>9, <2>2, <2>3
<1>11. sum.CARRY \in {0, 1}
  BY <1>3, <1>7 DEF Ends
<1> QED BY <1>8, <1>10, <1>11 DEF AreDigits, sum

-----------------------------------------------------------------------------
(* What is left of a field of the register r is r beside it, and nibbles. *)
Beside(v, r, f) == \A i \in (0 .. 15) \ In(f) : v[i] = r[i]

LEMMA OnType ==
  ASSUME NEW r, NEW d, NEW f, r \in Register, \A i \in In(f) : d[i] \in Nibble
  PROVE  On(r, f, d) \in Register /\ Beside(On(r, f, d), r, f)
<1>1. On(r, f, d) = [i \in 0 .. 15 |-> IF i \in In(f) THEN d[i] ELSE r[i]]
  BY DEF On
<1>2. \A i \in 0 .. 15 : r[i] \in Nibble
  BY DEF Register
<1> QED BY <1>1, <1>2 DEF Register, Beside

(* The loops leave registers and a CARRY, whatever the nibbles and the mode. *)
IsResult(result, r, f) ==
  /\ result.reg \in Register
  /\ result.CARRY \in {0, 1}
  /\ Beside(result.reg, r, f)

LEMMA LoopType ==
  ASSUME NEW result, NEW r, NEW d, NEW c, NEW f,
         r \in Register, \A i \in In(f) : d[i] \in Nibble, c \in {0, 1},
         result = Result(On(r, f, d), c)
  PROVE  IsResult(result, r, f)
<1>1. result.reg = On(r, f, d) /\ result.CARRY = c
  BY DEF Result
<1> QED BY <1>1, OnType DEF IsResult

LEMMA SumType ==
  ASSUME NEW res, NEW x, NEW y, NEW c, NEW f, NEW base,
         Spanned(f), res \in Register, Numbers(x, f.s, f.e), Numbers(y, f.s, f.e),
         c \in Nat, base \in Nat
  PROVE  IsResult(SumOf(res, x, y, c, f, base), res, f)
<1> DEFINE s == f.s
           e == f.e
<1>1. PICK k : SumWith(k, res, x, y, c, f, base)
  BY SumLoop, Zenon
<1> DEFINE D == SumNibbles(x, y, k, s, e, base)
<1>2. SumCarries(k, x, y, c, s, e, base) /\ SumOf(res, x, y, c, f, base) = Result(On(res, f, D), k[e + 1])
  BY <1>1, Zenon DEF SumWith
<1>3. Ends(s, e) /\ Numbers(x, s, e) /\ Numbers(y, s, e) /\ In(f) = s .. e
  BY Zenon DEF Spanned, In
<1> HIDE DEF s, e
<1>4. k[e + 1] \in {0, 1}
  BY <1>2, <1>3 DEF SumCarries, Ends
<1>5. \A i \in s .. e : D[i] \in Nibble
  <2> SUFFICES ASSUME NEW i \in s .. e
               PROVE  D[i] \in Nibble
    OBVIOUS
  <2> DEFINE t == x[i] + y[i] + k[i]
  <2>1. t \in Int
    BY <1>2, <1>3 DEF SumCarries, Numbers, Ends
  <2>2. D[i] = (IF t < base THEN t ELSE t - base) % 16
    BY DEF SumNibbles
  <2> HIDE DEF t, D
  <2>3. (IF t < base THEN t ELSE t - base) \in Int
    BY <2>1
  <2> DEFINE u == IF t < base THEN t ELSE t - base
  <2> HIDE DEF u
  <2>4. u % 16 \in 0 .. 15
    BY <2>3 DEF u
  <2> QED BY <2>2, <2>4 DEF Nibble, u
<1> HIDE DEF D
<1> QED BY <1>2, <1>3, <1>4, <1>5, LoopType, Zenon

LEMMA DifferenceType ==
  ASSUME NEW res, NEW x, NEW y, NEW c, NEW f, NEW base,
         Spanned(f), res \in Register, Numbers(x, f.s, f.e), Numbers(y, f.s, f.e),
         c \in Nat, base \in Nat
  PROVE  IsResult(DifferenceOf(res, x, y, c, f, base), res, f)
<1> DEFINE s == f.s
           e == f.e
<1>1. PICK k : DifferenceWith(k, res, x, y, c, f, base)
  BY DifferenceLoop, Zenon
<1> DEFINE D == DifferenceNibbles(x, y, k, s, e, base)
<1>2. Borrows(k, x, y, c, s, e, base) /\ DifferenceOf(res, x, y, c, f, base) = Result(On(res, f, D), k[e + 1])
  BY <1>1, Zenon DEF DifferenceWith
<1>3. Ends(s, e) /\ Numbers(x, s, e) /\ Numbers(y, s, e) /\ In(f) = s .. e
  BY Zenon DEF Spanned, In
<1> HIDE DEF s, e
<1>4. k[e + 1] \in {0, 1}
  BY <1>2, <1>3 DEF Borrows, Ends
<1>5. \A i \in s .. e : D[i] \in Nibble
  <2> SUFFICES ASSUME NEW i \in s .. e
               PROVE  D[i] \in Nibble
    OBVIOUS
  <2> DEFINE t == x[i] - y[i] - k[i]
  <2>1. t \in Int
    BY <1>2, <1>3 DEF Borrows, Numbers, Ends
  <2>2. D[i] = (IF t >= 0 THEN t ELSE t + base) % 16
    BY DEF DifferenceNibbles
  <2> HIDE DEF t, D
  <2>3. (IF t >= 0 THEN t ELSE t + base) \in Int
    BY <2>1
  <2> DEFINE u == IF t >= 0 THEN t ELSE t + base
  <2> HIDE DEF u
  <2>4. u % 16 \in 0 .. 15
    BY <2>3 DEF u
  <2> QED BY <2>2, <2>4 DEF Nibble, u
<1> HIDE DEF D
<1> QED BY <1>2, <1>3, <1>4, <1>5, LoopType, Zenon

LEMMA UpType ==
  ASSUME NEW x, NEW c, NEW f, NEW base,
         Spanned(f), x \in Register,
         c \in Nat, base \in Nat
  PROVE  IsResult(Upwards(x, c, f, base), x, f)
<1> DEFINE s == f.s
           e == f.e
<1>1. PICK k : UpWith(k, x, c, f, base)
  BY UpLoop, Zenon
<1> DEFINE D == UpNibbles(x, k, s, e, base)
<1>2. UpCarries(k, x, c, s, e, base) /\ Upwards(x, c, f, base) = Result(On(x, f, D), k[e + 1])
  BY <1>1, Zenon DEF UpWith
<1>3. Ends(s, e) /\ In(f) = s .. e
  BY Zenon DEF Spanned, In
<1> HIDE DEF s, e
<1>4. k[e + 1] \in {0, 1}
  BY <1>2, <1>3 DEF UpCarries, Ends
<1>5. \A i \in s .. e : D[i] \in Nibble
  <2> SUFFICES ASSUME NEW i \in s .. e
               PROVE  D[i] \in Nibble
    OBVIOUS
  <2> DEFINE t == x[i] + k[i]
  <2>1. t \in Int /\ x[i] \in Nibble
    <3>1. i \in 0 .. 15 /\ i \in s .. e + 1
      BY <1>3 DEF Ends
    <3>2. x[i] \in Nibble /\ k[i] \in Nat
      BY <1>2, <3>1 DEF UpCarries, Register
    <3> QED BY <3>2 DEF Nibble
  <2>2. D[i] = IF k[i] = 0 THEN x[i] ELSE (IF t < base THEN t ELSE t - base) % 16
    BY DEF UpNibbles
  <2> HIDE DEF t, D
  <2>3. (IF t < base THEN t ELSE t - base) \in Int
    BY <2>1
  <2> DEFINE u == IF t < base THEN t ELSE t - base
  <2> HIDE DEF u
  <2>4. u % 16 \in 0 .. 15
    BY <2>3 DEF u
  <2> QED BY <2>1, <2>2, <2>4 DEF Nibble, u
<1> HIDE DEF D
<1> QED BY <1>2, <1>3, <1>4, <1>5, LoopType, Zenon

(* The digits a complement begins with. *)
LEMMA ComplementType ==
  ASSUME NEW r, NEW f, NEW base, Spanned(f), r \in Register, base \in Nat
  PROVE  /\ IsResult(complement_2_register(r, f, base), r, f)
         /\ IsResult(complement_1_register(r, f, base), r, f)
<1> DEFINE x == [i \in 0 .. 15 |-> base - 1 - r[i]]
           y == [i \in 0 .. 15 |-> 0]
           sum == SumOf(r, x, y, 1, f, base)
<1>1. \A i \in In(f) : i \in 0 .. 15
  BY DEF Spanned, Ends, In
<1>2. \A i \in 0 .. 15 : r[i] \in Int /\ x[i] \in Int /\ y[i] \in Int /\ x[i] = base - 1 - r[i]
  BY DEF Register, Nibble
<1> HIDE DEF x, y
<1>3. Numbers(x, f.s, f.e) /\ Numbers(y, f.s, f.e)
  BY <1>1, <1>2 DEF Numbers, In
<1>4. IsResult(sum, r, f)
  <2>1. 1 \in Nat
    OBVIOUS
  <2> QED BY <1>3, <2>1, SumType, Zenon
<1> HIDE DEF sum
<1>5. complement_2_register(r, f, base)
        = Result(sum.reg, IF \E i \in In(f) : sum.reg[i] # 0 THEN 1 ELSE 0)
  BY DEF complement_2_register, sum, x, y
<1>6. IsResult(complement_2_register(r, f, base), r, f)
  <2> DEFINE c == IF \E i \in In(f) : sum.reg[i] # 0 THEN 1 ELSE 0
  <2>1. c \in {0, 1}
    OBVIOUS
  <2> HIDE DEF c
  <2>2. complement_2_register(r, f, base) = Result(sum.reg, c)
    BY <1>5 DEF c
  <2> QED BY <1>4, <2>1, <2>2 DEF IsResult, Result
<1>7. IsResult(complement_1_register(r, f, base), r, f)
  <2> DEFINE d == [i \in In(f) |-> (base - 1 - r[i]) % 16]
  <2>1. \A i \in In(f) : d[i] \in Nibble
    BY <1>1, <1>2 DEF Nibble
  <2>2. complement_1_register(r, f, base) = Result(On(r, f, d), 0)
    BY DEF complement_1_register
  <2> HIDE DEF d
  <2>3. 0 \in {0, 1}
    OBVIOUS
  <2> QED BY <2>1, <2>2, <2>3, LoopType, Zenon
<1> QED BY <1>6, <1>7

(* All the operations with CARRY leave nibbles in the field, the register
   beside it alone, and a CARRY (register.c). *)
THEOREM ResultTypes ==
  ASSUME NEW r, NEW r1, NEW r2, NEW f, NEW base, NEW val,
         Spanned(f), r \in Register, r1 \in Register, r2 \in Register,
         base \in Nat, val \in Nat
  PROVE  /\ IsResult(add_register(r, r1, r2, f, base), r, f)
         /\ IsResult(sub_register(r, r1, r2, f, base), r, f)
         /\ IsResult(inc_register(r, f, base), r, f)
         /\ IsResult(dec_register(r, f, base), r, f)
         /\ IsResult(add_register_constant(r, f, val), r, f)
         /\ IsResult(sub_register_constant(r, f, val), r, f)
         /\ IsResult(complement_2_register(r, f, base), r, f)
         /\ IsResult(complement_1_register(r, f, base), r, f)
<1> DEFINE y == [i \in 0 .. 15 |-> 0]
<1>1. \A x \in Register : Numbers(x, f.s, f.e)
  <2>1. \A i \in f.s .. f.e : i \in 0 .. 15
    BY DEF Spanned, Ends
  <2>2. \A x \in Register : \A i \in 0 .. 15 : x[i] \in Int
    BY DEF Register, Nibble
  <2> QED BY <2>1, <2>2 DEF Numbers
<1>2. y \in Register /\ 0 \in Nat /\ 1 \in Nat /\ 16 \in Nat
  BY DEF Register, Nibble
<1> HIDE DEF y
<1>3. IsResult(add_register(r, r1, r2, f, base), r, f)
  BY <1>1, <1>2, SumType, Zenon DEF add_register
<1>4. IsResult(sub_register(r, r1, r2, f, base), r, f)
  BY <1>1, <1>2, DifferenceType, Zenon DEF sub_register
<1>5. \A c, b \in Nat : IsResult(Upwards(r, c, f, b), r, f)
  BY UpType, Zenon
<1>6. \A c, b \in Nat : IsResult(Downwards(r, c, f, b), r, f)
  <2>1. \A c, b \in Nat : IsResult(DifferenceOf(r, r, y, c, f, b), r, f)
    BY <1>1, <1>2, DifferenceType, Zenon
  <2> QED BY <2>1 DEF Downwards, y
<1> QED BY <1>2, <1>3, <1>4, <1>5, <1>6, ComplementType, Zenon
        DEF inc_register, dec_register, add_register_constant, sub_register_constant

(* The field codes give fields of the register. *)
LEMMA FieldSpans ==
  ASSUME NEW code \in 0 .. 18, NEW P \in Nibble
  PROVE  /\ Spanned(Field(code, P))
         /\ Field(code, P) = Span(get_start(code, P), get_end(code, P))
         /\ Ends(get_start(code, P), get_end(code, P))
<1>1. Field(code, P) = Span(get_start(code, P), get_end(code, P))
  BY DEF Field, Span
<1>2. Ends(get_start(code, P), get_end(code, P))
  BY DEF Ends, get_start, get_end, start_fields, end_fields, Nibble
<1>3. Field(code, P).s = get_start(code, P) /\ Field(code, P).e = get_end(code, P)
  BY <1>1, SpanIn
<1> QED BY <1>1, <1>2, <1>3 DEF Spanned

-----------------------------------------------------------------------------
(* The arithmetic. *)

(* In the field f of weight W the result is exact, modulo W, and CARRY tells
   whether exact is no number of the field. *)
Agrees(result, exact, f, base, W) ==
  /\ Value(result.reg, f, base) = exact % W
  /\ result.CARRY = IF exact \in 0 .. W - 1 THEN 0 ELSE 1

LEMMA ModuloWeight ==
  ASSUME NEW W \in Nat \ {0}, NEW v \in 0 .. W - 1, NEW c \in {0, 1}, NEW exact \in Int,
         exact = v + c * W \/ exact = v - c * W
  PROVE  v = exact % W /\ c = IF exact \in 0 .. W - 1 THEN 0 ELSE 1
<1>1. v % W = v /\ (v + W) % W = v /\ (v - W) % W = v
  OBVIOUS
<1>2. CASE c = 0
  <2>1. exact = v
    BY <1>2
  <2> QED BY <1>1, <1>2, <2>1
<1>3. CASE c = 1
  <2>1. exact = v + W \/ exact = v - W
    BY <1>3
  <2>2. exact \notin 0 .. W - 1
    BY <2>1
  <2> QED BY <1>1, <1>3, <2>1, <2>2
<1> QED BY <1>2, <1>3

(* What the sums and differences have in common. *)
LEMMA ResultAgrees ==
  ASSUME NEW result, NEW exact, NEW s, NEW e, NEW base,
         Ends(s, e), base \in 2 .. 16, exact \in Int,
         AreDigits(result.reg, s, e, base), result.CARRY \in {0, 1},
         \/ exact = Value(result.reg, Span(s, e), base) + result.CARRY * Weight(base, e + 1 - s)
         \/ exact = Value(result.reg, Span(s, e), base) - result.CARRY * Weight(base, e + 1 - s)
  PROVE  Agrees(result, exact, Span(s, e), base, Weight(base, e + 1 - s))
<1> DEFINE v == Value(result.reg, Span(s, e), base)
           W == Weight(base, e + 1 - s)
           c == result.CARRY
<1>1. W \in Nat \ {0} /\ v \in 0 .. W - 1
  <2>1. base \in Nat \ {0}
    OBVIOUS
  <2> QED BY <2>1, ValueBounds
<1>2. c \in {0, 1} /\ (exact = v + c * W \/ exact = v - c * W)
  OBVIOUS
<1> HIDE DEF v, W, c
<1>3. v = exact % W /\ c = IF exact \in 0 .. W - 1 THEN 0 ELSE 1
  BY <1>1, <1>2, ModuloWeight
<1> QED BY <1>3 DEF Agrees, v, W, c

(* Additions, subtractions, increments and decrements by at most a digit agree
   with the integers, modulo the size of the field and with CARRY for what does
   not fit, in every field and every base up to 16 (register.c, add_register(),
   sub_register(), inc_register(), dec_register(), add_register_constant() and
   sub_register_constant()). *)
THEOREM ArithmeticIsExact ==
  ASSUME NEW res, NEW x, NEW y, NEW c, NEW s, NEW e, NEW base,
         Ends(s, e), base \in 2 .. 16, c \in 0 .. base,
         AreDigits(x, s, e, base), AreDigits(y, s, e, base)
  PROVE  LET f == Span(s, e)
             W == Weight(base, e + 1 - s)
             V(r) == Value(r, f, base)
         IN /\ Agrees(add_register(res, x, y, f, base), V(x) + V(y), f, base, W)
            /\ Agrees(sub_register(res, x, y, f, base), V(x) - V(y), f, base, W)
            /\ Agrees(Upwards(x, c, f, base), V(x) + c, f, base, W)
            /\ Agrees(Downwards(x, c, f, base), V(x) - c, f, base, W)
<1> DEFINE f == Span(s, e)
           W == Weight(base, e + 1 - s)
           V(r) == Value(r, f, base)
           zeros == [i \in 0 .. 15 |-> 0]
<1>1. V(x) \in Nat /\ V(y) \in Nat /\ V(zeros) = 0 /\ W \in Nat /\ AreDigits(zeros, s, e, base)
  <2>1. base \in Nat /\ base \in Nat \ {0}
    OBVIOUS
  <2>2. \A i \in s .. e : i \in 0 .. 15
    BY DEF Ends
  <2>3. \A i \in s .. e : zeros[i] = 0
    BY <2>2
  <2> HIDE DEF zeros
  <2>4. V(zeros) = 0
    BY <2>1, <2>3, ValueOfZeros
  <2>5. AreDigits(zeros, s, e, base)
    BY <2>3 DEF AreDigits
  <2>6. V(x) \in Nat /\ V(y) \in Nat
    BY <2>1, ValueIsNatural
  <2>7. W \in Nat
    BY <2>1, ValueBounds
  <2> QED BY <2>4, <2>5, <2>6, <2>7
<1> DEFINE add == SumOf(res, x, y, 0, f, base)
           sub == DifferenceOf(res, x, y, 0, f, base)
           up == Upwards(x, c, f, base)
           down == DifferenceOf(x, x, zeros, c, f, base)
<1>2. AreDigits(add.reg, s, e, base) /\ add.CARRY \in {0, 1} /\ V(x) + V(y) + 0 = V(add.reg) + add.CARRY * W
  <2>1. 0 \in {0, 1}
    OBVIOUS
  <2> QED BY <2>1, SumIsExact
<1>3. AreDigits(sub.reg, s, e, base) /\ sub.CARRY \in {0, 1} /\ V(sub.reg) + V(y) + 0 = V(x) + sub.CARRY * W
  <2>1. 0 \in 0 .. base /\ y[s] + 0 <= base
    BY DEF AreDigits, Ends
  <2> QED BY <2>1, DifferenceIsExact
<1>4. AreDigits(up.reg, s, e, base) /\ up.CARRY \in {0, 1} /\ V(x) + c = V(up.reg) + up.CARRY * W
  BY IncrementIsExact
<1>5. AreDigits(down.reg, s, e, base) /\ down.CARRY \in {0, 1} /\ V(down.reg) + V(zeros) + c = V(x) + down.CARRY * W
  <2>1. zeros[s] + c <= base
    BY DEF Ends
  <2> HIDE DEF zeros
  <2> QED BY <1>1, <2>1, DifferenceIsExact
<1> HIDE DEF zeros, add, sub, up, down, f
<1>6. Agrees(add, V(x) + V(y), f, base, W)
  <2> DEFINE exact == V(x) + V(y)
             v == V(add.reg)
  <2>1. v \in Int /\ exact \in Int
    <3>1. base \in Nat
      OBVIOUS
    <3>2. v \in Nat
      BY <1>2, <3>1, ValueIsNatural DEF f
    <3> QED BY <1>1, <3>2
  <2>2. exact = v + add.CARRY * W
    BY <1>1, <1>2, <2>1
  <2> QED BY <1>2, <2>1, <2>2, ResultAgrees DEF f
<1>7. Agrees(sub, V(x) - V(y), f, base, W)
  <2> DEFINE exact == V(x) - V(y)
             v == V(sub.reg)
  <2>1. v \in Int /\ exact \in Int
    <3>1. base \in Nat
      OBVIOUS
    <3>2. v \in Nat
      BY <1>3, <3>1, ValueIsNatural DEF f
    <3> QED BY <1>1, <3>2
  <2>2. exact = v - sub.CARRY * W
    BY <1>1, <1>3, <2>1
  <2> QED BY <1>3, <2>1, <2>2, ResultAgrees DEF f
<1>8. Agrees(up, V(x) + c, f, base, W)
  <2>1. V(x) + c \in Int
    BY <1>1
  <2> QED BY <1>4, <2>1, ResultAgrees DEF f
<1>9. Agrees(down, V(x) - c, f, base, W)
  <2> DEFINE exact == V(x) - c
             v == V(down.reg)
  <2>1. v \in Int /\ exact \in Int
    <3>1. base \in Nat
      OBVIOUS
    <3>2. v \in Nat
      BY <1>5, <3>1, ValueIsNatural DEF f
    <3> QED BY <1>1, <3>2
  <2>2. exact = v - down.CARRY * W
    BY <1>1, <1>5, <2>1
  <2> QED BY <1>5, <2>1, <2>2, ResultAgrees DEF f
<1> QED BY <1>6, <1>7, <1>8, <1>9
        DEF add_register, sub_register, Downwards, add, sub, up, down, f, zeros

(* A negation agrees with the integers; CARRY tells that there was something to
   negate (register.c, complement_2_register()). *)
THEOREM NegationIsExact ==
  ASSUME NEW r, NEW s, NEW e, NEW base,
         Ends(s, e), base \in 2 .. 16, AreDigits(r, s, e, base)
  PROVE  LET f == Span(s, e)
         IN Agrees(complement_2_register(r, f, base), -Value(r, f, base), f, base,
                   Weight(base, e + 1 - s))
<1> DEFINE f == Span(s, e)
           W == Weight(base, e + 1 - s)
           x == [i \in 0 .. 15 |-> base - 1 - r[i]]
           y == [i \in 0 .. 15 |-> 0]
           sum == SumOf(r, x, y, 1, f, base)
           v == Value(sum.reg, f, base)
           w == Value(r, f, base)
           c == IF \E i \in s .. e : sum.reg[i] # 0 THEN 1 ELSE 0
<1>1. base \in Nat /\ base \in Nat \ {0} /\ Numbers(r, s, e)
  BY DEF AreDigits, Numbers
<1>2. \A i \in s .. e : x[i] = base - 1 - r[i] /\ y[i] = 0
  BY DEF Ends
<1>3. complement_2_register(r, f, base) = Result(sum.reg, c)
  <2>1. In(f) = s .. e
    BY SpanIn
  <2>2. complement_2_register(r, f, base)
          = Result(sum.reg, IF \E i \in In(f) : sum.reg[i] # 0 THEN 1 ELSE 0)
    BY DEF complement_2_register
  <2> HIDE DEF sum, f
  <2> QED BY <2>1, <2>2
<1> HIDE DEF x, y
<1>4. AreDigits(x, s, e, base) /\ AreDigits(y, s, e, base)
  BY <1>2 DEF AreDigits
<1>5. /\ AreDigits(sum.reg, s, e, base) /\ sum.CARRY \in {0, 1}
      /\ Value(x, f, base) + Value(y, f, base) + 1 = v + sum.CARRY * W
  <2>1. 1 \in {0, 1}
    OBVIOUS
  <2> QED BY <1>4, <2>1, SumIsExact
<1>6. Value(y, f, base) = 0
  BY <1>1, <1>2, ValueOfZeros
<1>7. Value(x, f, base) \in Int /\ w + Value(x, f, base) + 1 = W
  BY <1>1, <1>2, ValueOfComplement
<1> HIDE DEF sum
<1>8. /\ W \in Nat \ {0} /\ v \in 0 .. W - 1 /\ w \in 0 .. W - 1
      /\ v = 0 <=> \A i \in s .. e : sum.reg[i] = 0
  BY <1>1, <1>5, ValueBounds
<1>9. c \in {0, 1} /\ (c = 0 <=> v = 0)
  BY <1>8
<1> DEFINE k == sum.CARRY
<1> HIDE DEF v, w, W, c, f, k
<1>10. W - w = v + k * W /\ k \in {0, 1}
  <2>1. Value(x, f, base) + 0 + 1 = v + k * W /\ k \in {0, 1}
    BY <1>5, <1>6 DEF k
  <2> QED BY <1>7, <1>8, <2>1 DEF w
<1>11. -w = v - c * W
  <2>1. CASE k = 0
    <3>1. W - w = v
      BY <1>8, <1>10, <2>1
    <3>2. v # 0 /\ c = 1
      BY <1>8, <1>9, <3>1
    <3> QED BY <1>8, <3>1, <3>2
  <2>2. CASE k = 1
    <3>1. -w = v
      BY <1>8, <1>10, <2>2
    <3>2. v = 0 /\ w = 0 /\ c = 0
      BY <1>8, <1>9, <3>1
    <3> QED BY <1>8, <3>2
  <2> QED BY <1>10, <2>1, <2>2
<1>12. v = (-w) % W /\ c = IF -w \in 0 .. W - 1 THEN 0 ELSE 1
  <2>1. -w \in Int
    BY <1>8
  <2> QED BY <1>8, <1>9, <1>11, <2>1, ModuloWeight
<1>13. Result(sum.reg, c).reg = sum.reg /\ Result(sum.reg, c).CARRY = c
  BY DEF Result
<1>14. Agrees(Result(sum.reg, c), -w, f, base, W)
  BY <1>12, <1>13 DEF Agrees, v
<1> QED BY <1>3, <1>14 DEF w, W, f

-----------------------------------------------------------------------------
(* The comparisons. *)

(* The highest nibble that differs decides. *)
LEMMA TopDecides ==
  ASSUME NEW x, NEW y, NEW s, NEW e, NEW base, NEW i \in s .. e,
         Ends(s, e), base \in Nat, AreDigits(x, s, e, base), AreDigits(y, s, e, base),
         x[i] > y[i], \A j \in s .. e : j > i => x[j] = y[j]
  PROVE  Value(x, Span(s, e), base) > Value(y, Span(s, e), base)
<1>1. base \in Int /\ Numbers(x, s, e) /\ Numbers(y, s, e)
  BY ValueIsNatural
<1>2. PICK v : Worth(v, x, s, e, base)
  BY <1>1, ValueSteps, Zenon
<1>3. PICK w : Worth(w, y, s, e, base)
  BY <1>1, ValueSteps, Zenon
<1> DEFINE S == {j \in Int : (j > i => v[j] = w[j]) /\ (j <= i => v[j] > w[j])}
<1>4. e + 1 \in S
  BY <1>2, <1>3 DEF Worth, Ends
<1>5. ASSUME NEW j \in s .. e, j + 1 \in S
      PROVE  j \in S
  <2> DEFINE a == v[j + 1]
             b == w[j + 1]
             x0 == x[j]
             y0 == y[j]
  <2>1. v[j] = x0 + base * a /\ w[j] = y0 + base * b
    BY <1>2, <1>3 DEF Worth
  <2>2. a \in Int /\ b \in Int /\ j \in Int /\ i \in Int /\ j + 1 \in Int
    <3>1. j + 1 \in s .. e + 1 /\ j \in Int /\ i \in Int
      BY DEF Ends
    <3> QED BY <1>2, <1>3, <3>1 DEF Worth
  <2>3. x0 \in 0 .. base - 1 /\ y0 \in 0 .. base - 1
    BY DEF AreDigits
  <2>4. /\ j > i => a = b /\ x0 = y0
        /\ j = i => a = b /\ x0 > y0
        /\ j < i => a > b
    <3> HIDE DEF Ends
    <3> QED BY <1>5, <2>2
  <2> HIDE DEF a, b, x0, y0
  <2>5. CASE j > i
    BY <2>1, <2>2, <2>4, <2>5
  <2>6. CASE j = i
    <3>1. x0 + base * b > y0 + base * b
      BY <2>2, <2>3, <2>4, <2>6
    <3> QED BY <2>1, <2>2, <2>4, <2>6, <3>1
  <2>7. CASE j < i
    <3>1. base * a >= base * b + base
      <4>1. base * (a - b - 1) >= 0
        BY <2>2, <2>4, <2>7
      <4>2. base * (a - b - 1) = base * a - base * b - base
        BY <2>2
      <4>3. base * a \in Int /\ base * b \in Int
        BY <2>2
      <4> QED BY <4>1, <4>2, <4>3
    <3>2. base * a \in Int /\ base * b \in Int
      BY <2>2
    <3>3. x0 + base * a > y0 + base * b
      BY <2>3, <3>1, <3>2
    <3> QED BY <2>1, <2>2, <2>7, <3>3
  <2> QED BY <2>2, <2>5, <2>6, <2>7
<1>6. s .. e + 1 \subseteq S
  <2>1. s \in Int /\ e \in Int /\ s <= e + 1
    BY DEF Ends
  <2> HIDE DEF S
  <2> QED BY <1>4, <1>5, <2>1, Descent
<1>7. s \in S /\ s <= i
  BY <1>6 DEF Ends
<1> QED BY <1>2, <1>3, <1>7 DEF Worth

LEMMA EqualValues ==
  ASSUME NEW x, NEW y, NEW s, NEW e, NEW base,
         Ends(s, e), base \in Nat, Numbers(x, s, e), \A j \in s .. e : x[j] = y[j]
  PROVE  Value(x, Span(s, e), base) = Value(y, Span(s, e), base)
<1>1. base \in Int /\ Numbers(y, s, e)
  BY DEF Numbers
<1>2. PICK v : Worth(v, x, s, e, base)
  BY <1>1, ValueSteps, Zenon
<1>3. PICK w : Worth(w, y, s, e, base)
  BY <1>1, ValueSteps, Zenon
<1> DEFINE S == {j \in Int : v[j] = w[j]}
<1>4. e + 1 \in S
  BY <1>2, <1>3 DEF Worth, Ends
<1>5. ASSUME NEW j \in s .. e, j + 1 \in S
      PROVE  j \in S
  <2>1. v[j] = x[j] + base * v[j + 1] /\ w[j] = y[j] + base * w[j + 1] /\ j \in Int
    <3>1. j \in Int
      BY DEF Ends
    <3> QED BY <1>2, <1>3, <3>1 DEF Worth
  <2>2. x[j] = y[j] /\ v[j + 1] = w[j + 1]
    BY <1>5
  <2> QED BY <2>1, <2>2
<1>6. s .. e + 1 \subseteq S
  <2>1. s \in Int /\ e \in Int /\ s <= e + 1
    BY DEF Ends
  <2> HIDE DEF S
  <2> QED BY <1>4, <1>5, <2>1, Descent
<1> QED BY <1>2, <1>3, <1>6 DEF Worth, Ends

(* The greatest element of a set of nibbles. *)
LEMMA MaxExists ==
  ASSUME NEW T, T \subseteq 0 .. 15, T # {}
  PROVE  Max(T) \in T /\ \A j \in T : Max(T) >= j
<1> DEFINE U == {k \in Nat : 15 - k \in T}
<1>1. PICK t : t \in T /\ t \in 0 .. 15
  OBVIOUS
<1>2. 15 - t \in U
  <2>1. 15 - (15 - t) = t
    BY <1>1
  <2> QED BY <1>1, <2>1
<1>3. U \subseteq Nat /\ U # {}
  BY <1>2
<1>4. \A k \in Nat : k \in U <=> 15 - k \in T
  OBVIOUS
<1> HIDE DEF U
<1>5. PICK k \in U : \A l \in U : k <= l
  BY <1>3, Least
<1>6. k \in Nat /\ 15 - k \in T
  BY <1>3, <1>4, <1>5
<1>7. ASSUME NEW j \in T
      PROVE  15 - k >= j
  <2>1. 15 - j \in Nat /\ 15 - (15 - j) = j
    OBVIOUS
  <2>2. 15 - j \in U
    BY <1>4, <2>1
  <2> QED BY <1>5, <1>6, <2>2
<1>8. \E m \in T : \A j \in T : m >= j
  BY <1>6, <1>7
<1> QED BY <1>8, Zenon DEF Max

(* The six comparisons are those of the numbers in the field (register.c, from
   is_zero_register() to is_greater_or_equal_register(), each with a loop of its
   own that goes down to the first difference). *)
THEOREM ComparisonsAreExact ==
  ASSUME NEW x, NEW y, NEW s, NEW e, NEW base,
         Ends(s, e), base \in Nat \ {0}, AreDigits(x, s, e, base), AreDigits(y, s, e, base)
  PROVE  LET f == Span(s, e)
             v == Value(x, f, base)
             w == Value(y, f, base)
         IN /\ is_zero_register(x, f) <=> v = 0
            /\ is_equal_register(x, y, f) <=> v = w
            /\ is_less_register(x, y, f) <=> v < w
            /\ is_greater_register(x, y, f) <=> v > w
            /\ is_less_or_equal_register(x, y, f) <=> v <= w
            /\ is_greater_or_equal_register(x, y, f) <=> v >= w
<1> DEFINE f == Span(s, e)
           v == Value(x, f, base)
           w == Value(y, f, base)
           T == {i \in s .. e : x[i] # y[i]}
           top == Max(T)
<1>1. In(f) = s .. e
  BY SpanIn
<1>2. v \in Nat /\ w \in Nat /\ Numbers(x, s, e) /\ (v = 0 <=> \A i \in s .. e : x[i] = 0)
  <2>1. base \in Nat
    OBVIOUS
  <2>2. v = 0 <=> \A i \in s .. e : x[i] = 0
    BY ValueBounds
  <2> QED BY <2>1, <2>2, ValueIsNatural
<1>3. Differ(x, y, f) = T
  BY <1>1 DEF Differ
<1> HIDE DEF f, v, w, top
<1>4. CASE T = {}
  <2>1. \A i \in s .. e : x[i] = y[i]
    BY <1>4
  <2>2. v = w
    <3>1. base \in Nat
      OBVIOUS
    <3> QED BY <1>2, <2>1, <3>1, EqualValues DEF v, w, f
  <2> HIDE DEF T
  <2> QED BY <1>1, <1>2, <1>3, <1>4, <2>1, <2>2
          DEF is_zero_register, is_equal_register, is_less_register, is_greater_register,
              is_less_or_equal_register, is_greater_or_equal_register, v, w, f
<1>5. CASE T # {}
  <2>1. top \in T /\ \A j \in T : top >= j
    <3>1. T \subseteq 0 .. 15
      BY DEF Ends
    <3> HIDE DEF T
    <3> QED BY <1>5, <3>1, MaxExists DEF top
  <2>2. top \in s .. e /\ x[top] # y[top] /\ \A j \in s .. e : j > top => x[j] = y[j]
    BY <2>1 DEF Ends
  <2>3. x[top] \in Nat /\ y[top] \in Nat
    BY <2>2 DEF AreDigits
  <2>4. base \in Nat
    OBVIOUS
  <2>5. x[top] > y[top] => v > w
    BY <2>2, <2>4, TopDecides DEF v, w, f
  <2>6. x[top] < y[top] => w > v
    <3>1. \A j \in s .. e : j > top => y[j] = x[j]
      BY <2>2
    <3>2. x[top] < y[top] <=> y[top] > x[top]
      BY <2>3
    <3> QED BY <2>2, <2>4, <3>1, <3>2, TopDecides DEF v, w, f
  <2>7. ~is_equal_register(x, y, f)
    BY <1>1, <2>2 DEF is_equal_register
  <2>8. is_zero_register(x, f) <=> v = 0
    BY <1>1, <1>2 DEF is_zero_register
  <2> HIDE DEF T
  <2>9. /\ is_less_register(x, y, f) <=> x[top] < y[top]
        /\ is_greater_register(x, y, f) <=> x[top] > y[top]
        /\ is_less_or_equal_register(x, y, f) <=> x[top] < y[top]
        /\ is_greater_or_equal_register(x, y, f) <=> x[top] > y[top]
    BY <1>3, <1>5 DEF is_less_register, is_greater_register,
              is_less_or_equal_register, is_greater_or_equal_register, top
  <2>10. x[top] < y[top] \/ x[top] > y[top]
    BY <2>2, <2>3
  <2> QED BY <1>2, <2>5, <2>6, <2>7, <2>8, <2>9, <2>10 DEF v, w, f
<1> QED BY <1>4, <1>5

-----------------------------------------------------------------------------
(* v is a register that differs from r in the field only. *)
IsField(v, r, f) == v \in Register /\ Beside(v, r, f)

LEMMA OfBitsType ==
  ASSUME NEW b
  PROVE  OfBits(b) \in Nibble
<1> DEFINE bit0 == IF 0 \in b THEN 1 ELSE 0
           bit1 == IF 1 \in b THEN 2 ELSE 0
           bit2 == IF 2 \in b THEN 4 ELSE 0
           bit3 == IF 3 \in b THEN 8 ELSE 0
<1>1. OfBits(b) = bit0 + bit1 + bit2 + bit3
  <2>1. 2 ^ 0 = 1 /\ 2 ^ 1 = 2 /\ 2 ^ 2 = 4 /\ 2 ^ 3 = 8
    OBVIOUS
  <2> QED BY <2>1 DEF OfBits
<1>2. bit0 \in {0, 1} /\ bit1 \in {0, 2} /\ bit2 \in {0, 4} /\ bit3 \in {0, 8}
  OBVIOUS
<1> HIDE DEF bit0, bit1, bit2, bit3
<1> QED BY <1>1, <1>2 DEF Nibble

(* The operations without CARRY leave nibbles in the field and the register
   beside it alone: no shift reaches beyond the field (register.c). *)
THEOREM FieldTypes ==
  ASSUME NEW r, NEW r1, NEW s, NEW e, Ends(s, e), r \in Register, r1 \in Register
  PROVE  LET f == Span(s, e)
         IN /\ IsField(zero_register(r, f), r, f)
            /\ IsField(copy_register(r, r1, f), r, f)
            /\ IsField(or_register(r, r1, f), r, f)
            /\ IsField(and_register(r, r1, f), r, f)
            /\ IsField(shift_left_register(r, f), r, f)
            /\ IsField(shift_left_circ_register(r, f), r, f)
            /\ IsField(shift_right_register(r, f), r, f)
            /\ IsField(shift_right_circ_register(r, f), r, f)
            /\ IsField(shift_right_bit_register(r, f), r, f)
<1> DEFINE f == Span(s, e)
<1>1. f.s = s /\ f.e = e /\ In(f) = s .. e
  BY SpanIn
<1>2. /\ \A i \in 0 .. 15 : r[i] \in Nibble /\ r1[i] \in Nibble
      /\ s \in 0 .. 15 /\ e \in 0 .. 15
      /\ \A i \in s .. e : i \in 0 .. 15 /\ (i # s => i - 1 \in 0 .. 15) /\ (i # e => i + 1 \in 0 .. 15)
  BY DEF Register, Ends
<1>3. ASSUME NEW d, \A i \in s .. e : d[i] \in Nibble
      PROVE  IsField(On(r, f, d), r, f)
  <2> HIDE DEF f
  <2>1. \A i \in In(f) : d[i] \in Nibble
    BY <1>1, <1>3
  <2> QED BY <2>1, OnType, Zenon DEF IsField
<1>4. 0 \in Nibble
  BY DEF Nibble
<1> HIDE DEF f
<1>5. IsField(zero_register(r, f), r, f)
  BY <1>1, <1>3, <1>4 DEF zero_register
<1>6. IsField(copy_register(r, r1, f), r, f)
  BY <1>1, <1>2, <1>3 DEF copy_register
<1>7. IsField(or_register(r, r1, f), r, f) /\ IsField(and_register(r, r1, f), r, f)
  BY <1>1, <1>3, OfBitsType DEF or_register, and_register
<1>8. IsField(shift_left_register(r, f), r, f) /\ IsField(shift_left_circ_register(r, f), r, f)
  <2> DEFINE d1 == [i \in In(f) |-> IF i = f.s THEN 0 ELSE r[i - 1]]
             d2 == [i \in In(f) |-> IF i = f.s THEN r[f.e] ELSE r[i - 1]]
  <2>1. \A i \in s .. e : d1[i] \in Nibble /\ d2[i] \in Nibble
    BY <1>1, <1>2, <1>4
  <2>2. shift_left_register(r, f) = On(r, f, d1) /\ shift_left_circ_register(r, f) = On(r, f, d2)
    BY DEF shift_left_register, shift_left_circ_register
  <2> HIDE DEF d1, d2
  <2> QED BY <1>3, <2>1, <2>2
<1>9. IsField(shift_right_register(r, f), r, f) /\ IsField(shift_right_circ_register(r, f), r, f)
  <2> DEFINE d1 == [i \in In(f) |-> IF i = f.e THEN 0 ELSE r[i + 1]]
             d2 == [i \in In(f) |-> IF i = f.e THEN r[f.s] ELSE r[i + 1]]
  <2>1. \A i \in s .. e : d1[i] \in Nibble /\ d2[i] \in Nibble
    BY <1>1, <1>2, <1>4
  <2>2. shift_right_register(r, f) = On(r, f, d1) /\ shift_right_circ_register(r, f) = On(r, f, d2)
    BY DEF shift_right_register, shift_right_circ_register
  <2> HIDE DEF d1, d2
  <2> QED BY <1>3, <2>1, <2>2
<1>10. IsField(shift_right_bit_register(r, f), r, f)
  <2> DEFINE d == [i \in In(f) |-> r[i] \div 2 + IF i = f.e THEN 0 ELSE 8 * (r[i + 1] % 2)]
  <2>1. ASSUME NEW i \in s .. e
        PROVE  d[i] \in Nibble
    <3>1. d[i] = r[i] \div 2 + IF i = e THEN 0 ELSE 8 * (r[i + 1] % 2)
      BY <1>1
    <3>2. \A a \in Nibble : a \div 2 \in 0 .. 7 /\ 8 * (a % 2) \in 0 .. 8
      BY DEF Nibble
    <3>3. r[i] \div 2 \in 0 .. 7 /\ (i # e => 8 * (r[i + 1] % 2) \in 0 .. 8)
      BY <1>2, <3>2
    <3> QED BY <3>1, <3>3 DEF Nibble
  <2>2. shift_right_bit_register(r, f) = On(r, f, d)
    BY DEF shift_right_bit_register
  <2> HIDE DEF d
  <2> QED BY <1>3, <2>1, <2>2
<1> QED BY <1>5, <1>6, <1>7, <1>8, <1>9, <1>10 DEF f
==============================================================================
