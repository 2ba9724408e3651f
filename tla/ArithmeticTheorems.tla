-------------------------- MODULE ArithmeticTheorems --------------------------
(***************************************************************************)
(* The number theory that signatures rest on (signature.rs), for numbers   *)
(* of any size: remainders, powers, the extended Euclidean algorithm,      *)
(* powers modulo a prime, and how many numbers have powers modulo a        *)
(* composite number like those modulo a prime.                             *)
(*                                                                         *)
(* Induction is by least counterexample: a set of natural numbers has a    *)
(* least element.                                                          *)
(***************************************************************************)
EXTENDS Arithmetic, FiniteSetTheorems, WellFoundedInduction, TLAPS

-----------------------------------------------------------------------------
(* Induction and recursion. *)

\* Natural numbers have a least one among them.
LEMMA Least ==
  ASSUME NEW S \in SUBSET Nat, S # {}
  PROVE  \E m \in S : \A k \in S : m <= k
<1> DEFINE R == OpToRel(<, Nat)
<1>1. IsWellFoundedOn(R, Nat)
  BY NatLessThanWellFounded
<1>2. \A k, m \in Nat : k < m => <<k, m>> \in R
  BY DEF OpToRel
<1> HIDE DEF R
<1>3. PICK m \in S : \A k \in S : <<k, m>> \notin R
  BY <1>1, WFMin
<1>4. ASSUME NEW k \in S PROVE m <= k
  <2>1. m \in Nat /\ k \in Nat
    OBVIOUS
  <2>2. ~(k < m)
    BY <1>2, <1>3, <2>1
  <2> QED BY <2>1, <2>2
<1> QED BY <1>4

\* What holds of 0 and of a successor with its number holds of all.
LEMMA Induct ==
  ASSUME NEW S, 0 \in S, \A n \in Nat : n \in S => n + 1 \in S
  PROVE  \A n \in Nat : n \in S
<1> SUFFICES ASSUME Nat \ S # {} PROVE FALSE
  OBVIOUS
<1>1. PICK m \in Nat \ S : \A k \in Nat \ S : m <= k
  BY Least
<1>2. m - 1 \in Nat /\ m - 1 \notin S
  BY <1>1
<1> QED BY <1>1, <1>2

\* A step can be taken any number of times.
LEMMA Iterated ==
  ASSUME NEW S, NEW s \in S, NEW step \in [S -> S]
  PROVE  \E f \in [Nat -> S] : f[0] = s /\ \A n \in Nat : f[n + 1] = step[f[n]]
<1> DEFINE Run(n) == {g \in [0 .. n -> S] : g[0] = s /\ \A i \in 0 .. n - 1 : g[i + 1] = step[g[i]]}
           Good == {n \in Nat : Run(n) # {} /\ \A g, h \in Run(n) : g[n] = h[n]}
<1>1. 0 \in Good
  <2>1. [i \in 0 .. 0 |-> s] \in Run(0)
    OBVIOUS
  <2> QED BY <2>1
<1>2. ASSUME NEW n \in Nat, NEW g \in Run(n + 1)
      PROVE  [i \in 0 .. n |-> g[i]] \in Run(n) /\ g[n + 1] = step[g[n]]
  <2> DEFINE r == [i \in 0 .. n |-> g[i]]
  <2>1. \A i \in 0 .. n : i \in 0 .. n + 1 /\ g[i] \in S
    OBVIOUS
  <2>2. r \in [0 .. n -> S] /\ r[0] = s
    BY <2>1
  <2>3. ASSUME NEW i \in 0 .. n - 1 PROVE r[i + 1] = step[r[i]]
    <3>1. i \in 0 .. n /\ i + 1 \in 0 .. n /\ i \in 0 .. (n + 1) - 1
      OBVIOUS
    <3> QED BY <3>1
  <2>4. n \in 0 .. (n + 1) - 1
    OBVIOUS
  <2> QED BY <2>2, <2>3, <2>4
<1>3. ASSUME NEW n \in Good PROVE n + 1 \in Good
  <2>1. PICK g \in Run(n) : TRUE
    OBVIOUS
  <2> DEFINE h == [i \in 0 .. n + 1 |-> IF i = n + 1 THEN step[g[n]] ELSE g[i]]
  <2>2. h \in Run(n + 1)
    <3>1. g[n] \in S /\ step[g[n]] \in S
      OBVIOUS
    <3>2. h \in [0 .. n + 1 -> S] /\ h[0] = s
      BY <3>1
    <3>3. ASSUME NEW i \in 0 .. (n + 1) - 1 PROVE h[i + 1] = step[h[i]]
      <4>1. CASE i = n
        BY <4>1
      <4>2. CASE i # n
        <5>1. i \in 0 .. n - 1 /\ i + 1 \in 0 .. n /\ i + 1 # n + 1 /\ i # n + 1
          BY <4>2
        <5> QED BY <5>1
      <4> QED BY <4>1, <4>2
    <3> QED BY <3>2, <3>3
  <2>3. ASSUME NEW a \in Run(n + 1), NEW b \in Run(n + 1) PROVE a[n + 1] = b[n + 1]
    <3> DEFINE ra == [i \in 0 .. n |-> a[i]]
               rb == [i \in 0 .. n |-> b[i]]
    <3>1. ra \in Run(n) /\ rb \in Run(n) /\ a[n + 1] = step[a[n]] /\ b[n + 1] = step[b[n]]
      BY <1>2
    <3>2. ra[n] = rb[n]
      <4> HIDE DEF Run, ra, rb
      <4> QED BY <3>1
    <3>3. a[n] = b[n]
      BY <3>2
    <3> QED BY <3>1, <3>3
  <2> HIDE DEF Run, h
  <2>4. Run(n + 1) # {} /\ n + 1 \in Nat
    BY <2>2
  <2> QED BY <2>3, <2>4
<1>4. \A n \in Nat : n \in Good
  <2> HIDE DEF Good
  <2> QED BY <1>1, <1>3, Induct
<1> DEFINE f == [n \in Nat |-> (CHOOSE g \in Run(n) : TRUE)[n]]
<1>5. ASSUME NEW n \in Nat, NEW g \in Run(n) PROVE f[n] = g[n]
  <2>1. (CHOOSE r \in Run(n) : TRUE) \in Run(n)
    OBVIOUS
  <2> HIDE DEF Run
  <2> QED BY <1>4, <2>1
<1>6. ASSUME NEW n \in Nat PROVE f[n] \in S
  <2>1. PICK g \in Run(n) : TRUE
    BY <1>4
  <2>2. f[n] = g[n]
    <3> HIDE DEF f, Run
    <3> QED BY <1>5
  <2>3. g[n] \in S
    OBVIOUS
  <2> QED BY <2>2, <2>3
<1>7. f[0] = s
  <2>1. [i \in 0 .. 0 |-> s] \in Run(0)
    OBVIOUS
  <2>2. f[0] = [i \in 0 .. 0 |-> s][0]
    <3> HIDE DEF f, Run
    <3> QED BY <1>5, <2>1
  <2> QED BY <2>2
<1>8. ASSUME NEW n \in Nat PROVE f[n + 1] = step[f[n]]
  <2>1. PICK g \in Run(n + 1) : TRUE
    <3>1. n + 1 \in Good
      <4> HIDE DEF Good
      <4> QED BY <1>4
    <3> QED BY <3>1
  <2> DEFINE r == [i \in 0 .. n |-> g[i]]
  <2>2. r \in Run(n) /\ g[n + 1] = step[g[n]]
    BY <1>2
  <2>3. f[n + 1] = g[n + 1] /\ f[n] = r[n]
    <3> HIDE DEF f, Run, r
    <3> QED BY <1>5, <2>2
  <2>4. r[n] = g[n]
    OBVIOUS
  <2> QED BY <2>2, <2>3, <2>4
<1> HIDE DEF f
<1>9. f \in [Nat -> S]
  BY <1>6 DEF f
<1> QED BY <1>7, <1>8, <1>9

-----------------------------------------------------------------------------
(* Remainders. *)

\* Division with remainder.
LEMMA DivMod ==
  ASSUME NEW a \in Int, NEW n \in Nat \ {0}
  PROVE  /\ a = (a \div n) * n + (a % n)
         /\ a \div n \in Int /\ a % n \in 0 .. n - 1
         /\ a \in Nat => a \div n \in Nat
OBVIOUS

\* A multiple of n and a remainder determine one another.
LEMMA ModIs ==
  ASSUME NEW n \in Nat \ {0}, NEW q \in Int, NEW r \in 0 .. n - 1
  PROVE  (q * n + r) % n = r
<1> DEFINE a == q * n + r
           k == a \div n
           s == a % n
<1>1. a \in Int
  OBVIOUS
<1>2. a = k * n + s /\ k \in Int /\ s \in 0 .. n - 1
  BY <1>1, DivMod
<1> HIDE DEF k, s
<1>3. (q - k) * n = s - r
  BY <1>2
<1>4. q = k
  <2>1. CASE q > k
    <3>1. (q - k) * n >= n
      BY <1>2, <2>1
    <3> QED BY <1>2, <1>3, <3>1
  <2>2. CASE q < k
    <3>1. (k - q) * n >= n
      BY <1>2, <2>2
    <3>2. (q - k) * n = -((k - q) * n)
      BY <1>2
    <3> QED BY <1>2, <1>3, <3>1, <3>2
  <2> QED BY <1>2, <2>1, <2>2
<1>5. s = r
  BY <1>2, <1>3, <1>4
<1> QED BY <1>5 DEF s

\* The same remainder, a congruence modulo n.
Same(a, b, n) == a % n = b % n

\* Numbers are congruent when they differ by a multiple.
LEMMA SameBy ==
  ASSUME NEW a \in Int, NEW b \in Int, NEW n \in Nat \ {0}
  PROVE  Same(a, b, n) <=> \E k \in Int : a = b + k * n
<1> DEFINE qa == a \div n
           qb == b \div n
           ra == a % n
           rb == b % n
<1>1. /\ a = qa * n + ra /\ qa \in Int /\ ra \in 0 .. n - 1
      /\ b = qb * n + rb /\ qb \in Int /\ rb \in 0 .. n - 1
  BY DivMod
<1> HIDE DEF qa, qb, ra, rb
<1>2. ASSUME ra = rb PROVE \E k \in Int : a = b + k * n
  <2>1. qa - qb \in Int /\ a = b + (qa - qb) * n
    BY <1>1, <1>2
  <2> QED BY <2>1
<1>3. ASSUME NEW k \in Int, a = b + k * n PROVE ra = rb
  <2>1. a = (qb + k) * n + rb /\ qb + k \in Int
    BY <1>1, <1>3
  <2>2. ((qb + k) * n + rb) % n = rb
    BY <1>1, <2>1, ModIs
  <2> QED BY <2>1, <2>2 DEF ra
<1> QED BY <1>2, <1>3 DEF Same, ra, rb

\* A number is congruent to its remainder, and no other remainder is.
LEMMA SameMod ==
  ASSUME NEW a \in Int, NEW n \in Nat \ {0}
  PROVE  /\ a % n \in 0 .. n - 1 /\ Same(a % n, a, n)
         /\ \A r \in 0 .. n - 1 : Same(r, a, n) => r = a % n
BY DEF Same

\* Congruence is an equivalence.
LEMMA SameEquivalence ==
  ASSUME NEW n \in Nat \ {0}
  PROVE  /\ \A a : Same(a, a, n)
         /\ \A a, b : Same(a, b, n) => Same(b, a, n)
         /\ \A a, b, c : Same(a, b, n) /\ Same(b, c, n) => Same(a, c, n)
BY DEF Same

\* Products of congruent factors are congruent.
LEMMA SameTimes ==
  ASSUME NEW n \in Nat \ {0}, NEW a \in Int, NEW b \in Int, Same(a, b, n),
         NEW c \in Int, NEW d \in Int, Same(c, d, n)
  PROVE  Same(a * c, b * d, n)
<1>1. PICK k \in Int : a = b + k * n
  BY SameBy
<1>2. PICK l \in Int : c = d + l * n
  BY SameBy
<1> DEFINE x == a * c
           y == b * d
           m == b * l + k * d + k * l * n
<1>3. x = y + m * n
  BY <1>1, <1>2
<1>4. x \in Int /\ y \in Int /\ m \in Int
  OBVIOUS
<1> HIDE DEF x, y, m
<1>5. Same(x, y, n)
  BY <1>3, <1>4, SameBy
<1> QED BY <1>5 DEF x, y

\* Numbers are congruent when their difference is a multiple.
LEMMA SameDifference ==
  ASSUME NEW a \in Int, NEW b \in Int, NEW n \in Nat \ {0}
  PROVE  Same(a, b, n) <=> Same(a - b, 0, n)
<1> DEFINE c == a - b
<1>1. c \in Int /\ 0 \in Int
  OBVIOUS
<1>2. \A k \in Int : a = b + k * n <=> c = 0 + k * n
  OBVIOUS
<1> HIDE DEF c
<1>3. Same(c, 0, n) <=> \E k \in Int : c = 0 + k * n
  BY <1>1, SameBy
<1>4. Same(a, b, n) <=> \E k \in Int : a = b + k * n
  BY SameBy
<1>5. Same(a, b, n) <=> Same(c, 0, n)
  BY <1>2, <1>3, <1>4
<1> QED BY <1>5 DEF c

-----------------------------------------------------------------------------
(* Powers. *)

\* The powers of x.
IsPowers(f, x) ==
  /\ f \in [Nat -> Int]
  /\ f[0] = 1
  /\ \A k \in Nat : f[k + 1] = f[k] * x

Power(x, k) == (CHOOSE f : IsPowers(f, x))[k]

\* There are such.
LEMMA PowerStep ==
  ASSUME NEW x \in Int
  PROVE  /\ Power(x, 0) = 1
         /\ \A k \in Nat : Power(x, k) \in Int /\ Power(x, k + 1) = Power(x, k) * x
<1> DEFINE Z == Int
           one == 1
           step == [y \in Z |-> y * x]
<1>1. one \in Z /\ step \in [Z -> Z]
  OBVIOUS
<1>2. \E f \in [Nat -> Z] : f[0] = one /\ \A k \in Nat : f[k + 1] = step[f[k]]
  <2> HIDE DEF Z, one, step
  <2> QED BY <1>1, Iterated
<1>3. PICK f \in [Nat -> Int] : f[0] = 1 /\ \A k \in Nat : f[k + 1] = step[f[k]]
  BY <1>2
<1>4. IsPowers(f, x)
  BY <1>3 DEF IsPowers
<1>5. IsPowers(CHOOSE g : IsPowers(g, x), x)
  BY <1>4
<1> QED BY <1>5 DEF Power, IsPowers

\* A power is a natural number if its base is.
LEMMA PowerNat ==
  ASSUME NEW x \in Nat, NEW k \in Nat
  PROVE  Power(x, k) \in Nat
<1> DEFINE S == {i \in Nat : Power(x, i) \in Nat}
<1>1. 0 \in S
  BY PowerStep
<1>2. ASSUME NEW i \in Nat, i \in S PROVE i + 1 \in S
  BY <1>2, PowerStep
<1> HIDE DEF S
<1>3. k \in S
  BY <1>1, <1>2, Induct
<1> QED BY <1>3 DEF S

\* Exponents add up.
LEMMA PowerPlus ==
  ASSUME NEW x \in Int, NEW j \in Nat, NEW k \in Nat
  PROVE  Power(x, j + k) = Power(x, j) * Power(x, k)
<1> DEFINE S == {i \in Nat : Power(x, j + i) = Power(x, j) * Power(x, i)}
<1>1. 0 \in S
  BY PowerStep
<1>2. ASSUME NEW i \in Nat, i \in S PROVE i + 1 \in S
  <2>1. Power(x, j + (i + 1)) = Power(x, j + i) * x
    <3>1. j + i \in Nat /\ j + (i + 1) = (j + i) + 1
      OBVIOUS
    <3> QED BY <3>1, PowerStep
  <2>2. Power(x, i + 1) = Power(x, i) * x /\ Power(x, i) \in Int /\ Power(x, j) \in Int
    BY PowerStep
  <2>3. Power(x, j + i) = Power(x, j) * Power(x, i)
    BY <1>2
  <2> DEFINE a == Power(x, j)
             b == Power(x, i)
  <2>4. (a * b) * x = a * (b * x)
    <3>1. a \in Int /\ b \in Int
      BY <2>2
    <3> HIDE DEF a, b
    <3> QED BY <3>1
  <2> QED BY <2>1, <2>2, <2>3, <2>4
<1> HIDE DEF S
<1>3. k \in S
  BY <1>1, <1>2, Induct
<1> QED BY <1>3 DEF S

\* Exponents multiply.
LEMMA PowerTimes ==
  ASSUME NEW x \in Int, NEW j \in Nat, NEW k \in Nat
  PROVE  Power(x, j * k) = Power(Power(x, j), k)
<1> DEFINE S == {i \in Nat : Power(x, j * i) = Power(Power(x, j), i)}
<1>1. Power(x, j) \in Int
  BY PowerStep
<1>2. 0 \in S
  BY <1>1, PowerStep
<1>3. ASSUME NEW i \in Nat, i \in S PROVE i + 1 \in S
  <2>1. j * (i + 1) = j * i + j /\ j * i \in Nat
    OBVIOUS
  <2>2. Power(x, j * i + j) = Power(x, j * i) * Power(x, j)
    BY <2>1, PowerPlus
  <2>3. Power(Power(x, j), i + 1) = Power(Power(x, j), i) * Power(x, j)
    BY <1>1, PowerStep
  <2> QED BY <1>3, <2>1, <2>2, <2>3
<1> HIDE DEF S
<1>4. k \in S
  BY <1>2, <1>3, Induct
<1> QED BY <1>4 DEF S

\* Powers of congruent numbers are congruent.
LEMMA PowerSame ==
  ASSUME NEW n \in Nat \ {0}, NEW a \in Int, NEW b \in Int, Same(a, b, n), NEW k \in Nat
  PROVE  Same(Power(a, k), Power(b, k), n)
<1> DEFINE S == {i \in Nat : Same(Power(a, i), Power(b, i), n)}
<1>1. 0 \in S
  BY PowerStep, SameEquivalence
<1>2. ASSUME NEW i \in Nat, i \in S PROVE i + 1 \in S
  <2>1. /\ Power(a, i + 1) = Power(a, i) * a /\ Power(a, i) \in Int
        /\ Power(b, i + 1) = Power(b, i) * b /\ Power(b, i) \in Int
    BY PowerStep
  <2>2. Same(Power(a, i) * a, Power(b, i) * b, n)
    BY <1>2, <2>1, SameTimes
  <2> QED BY <2>1, <2>2
<1> HIDE DEF S
<1>3. k \in S
  BY <1>1, <1>2, Induct
<1> QED BY <1>3 DEF S

\* One to any power is one.
LEMMA PowerOne ==
  ASSUME NEW k \in Nat
  PROVE  Power(1, k) = 1
<1> DEFINE S == {i \in Nat : Power(1, i) = 1}
<1>1. 0 \in S
  BY PowerStep
<1>2. ASSUME NEW i \in Nat, i \in S PROVE i + 1 \in S
  BY <1>2, PowerStep
<1> HIDE DEF S
<1>3. k \in S
  BY <1>1, <1>2, Induct
<1> QED BY <1>3 DEF S

-----------------------------------------------------------------------------
(* Modular powers. *)

\* Squaring and multiplying computes the power.
LEMMA ModPowIs ==
  ASSUME NEW base \in Int, NEW exponent \in Nat, NEW n \in Nat \ {0}
  PROVE  ModPow(base, exponent, n) = Power(base, exponent) % n
<1> DEFINE square(h, e) == (h[e \div 2] * h[e \div 2]) % n
           step(h, e) == IF e = 0 THEN 1 % n
                         ELSE IF e % 2 = 0 THEN square(h, e)
                         ELSE (square(h, e) * (base % n)) % n
           Solves(h) == h = [e \in Nat |-> step(h, e)]
           iter == CHOOSE h : Solves(h)
           g == [e \in Nat |-> Power(base, e) % n]
<1>1. ModPow(base, exponent, n) = iter[exponent]
  BY DEF ModPow
<1>2. ASSUME NEW e \in Nat, NEW h,
             e # 0 => h[e \div 2] = Power(base, e \div 2) % n
      PROVE  step(h, e) = Power(base, e) % n
  <2>1. CASE e = 0
    BY <2>1, PowerStep
  <2>2. CASE e # 0
    <3> DEFINE k == e \div 2
               P == Power(base, k)
               half == h[k]
               s == (half * half) % n
               b == base % n
    <3>1. k \in Nat /\ e % 2 \in {0, 1} /\ e = k + k + (e % 2)
      OBVIOUS
    <3>2. P \in Int /\ Power(base, k + k) = P * P /\ Power(base, k + k + 1) = (P * P) * base
      <4>1. P \in Int /\ Power(base, k + k + 1) = Power(base, k + k) * base
        BY <3>1, PowerStep
      <4> QED BY <3>1, <4>1, PowerPlus
    <3>3. half \in Int /\ Same(half, P, n)
      <4>1. half = P % n
        BY <1>2, <2>2
      <4>2. P % n \in 0 .. n - 1 /\ Same(P % n, P, n)
        BY <3>2, SameMod
      <4> QED BY <4>1, <4>2
    <3> HIDE DEF half, P, k
    <3>4. half * half \in Int /\ Same(half * half, P * P, n)
      BY <3>2, <3>3, SameTimes
    <3>5. s \in 0 .. n - 1 /\ Same(s, half * half, n)
      BY <3>4, SameMod
    <3>6. b \in Int /\ Same(b, base, n)
      <4>1. b \in 0 .. n - 1 /\ Same(b, base, n)
        BY SameMod
      <4> QED BY <4>1
    <3> HIDE DEF s, b
    <3>7. Same(s, P * P, n) /\ P * P \in Int /\ s \in Int
      BY <3>2, <3>4, <3>5, SameEquivalence
    <3>8. Same(s * b, (P * P) * base, n) /\ s * b \in Int /\ (P * P) * base \in Int
      BY <3>6, <3>7, SameTimes
    <3>9. (s * b) % n \in 0 .. n - 1 /\ Same((s * b) % n, s * b, n)
      BY <3>8, SameMod
    <3>10. s = (P * P) % n
      BY <3>5, <3>7, SameMod
    <3>11. (s * b) % n = ((P * P) * base) % n
      <4> DEFINE t == (s * b) % n
                 u == (P * P) * base
      <4>1. t \in 0 .. n - 1 /\ Same(t, u, n) /\ u \in Int
        BY <3>8, <3>9, SameEquivalence
      <4> HIDE DEF t, u
      <4>2. t = u % n
        BY <4>1, SameMod
      <4> QED BY <4>2 DEF t, u
    <3>12. step(h, e) = IF e % 2 = 0 THEN s ELSE (s * b) % n
      BY <2>2 DEF s, b, half, k
    <3>13. CASE e % 2 = 0
      <4>1. e = k + k
        BY <3>1, <3>13
      <4> QED BY <3>2, <3>10, <3>12, <3>13, <4>1
    <3>14. CASE e % 2 = 1
      <4>1. e = k + k + 1
        BY <3>1, <3>14
      <4> QED BY <3>2, <3>11, <3>12, <3>14, <4>1
    <3> QED BY <3>1, <3>13, <3>14
  <2> QED BY <2>1, <2>2
<1>3. Solves(g)
  <2>1. ASSUME NEW e \in Nat PROVE g[e] = step(g, e)
    <3>1. e # 0 => e \div 2 \in Nat
      OBVIOUS
    <3>2. e # 0 => g[e \div 2] = Power(base, e \div 2) % n
      BY <3>1
    <3>3. step(g, e) = Power(base, e) % n
      <4> HIDE DEF step, g
      <4> QED BY <1>2, <3>2
    <3> QED BY <3>3
  <2> QED BY <2>1
<1>4. iter = [e \in Nat |-> step(iter, e)]
  <2>1. Solves(iter)
    <3> HIDE DEF Solves, g
    <3> QED BY <1>3
  <2> HIDE DEF iter
  <2> QED BY <2>1
<1> HIDE DEF iter
<1>5. ASSUME NEW m \in Nat, \A k \in 0 .. m - 1 : iter[k] = Power(base, k) % n
      PROVE  iter[m] = Power(base, m) % n
  <2>1. m # 0 => m \div 2 \in 0 .. m - 1
    OBVIOUS
  <2>2. m # 0 => iter[m \div 2] = Power(base, m \div 2) % n
    BY <1>5, <2>1
  <2>3. iter[m] = step(iter, m)
    BY <1>4
  <2>4. step(iter, m) = Power(base, m) % n
    <3> HIDE DEF step
    <3> QED BY <1>2, <2>2
  <2> QED BY <2>3, <2>4
<1> DEFINE Bad == {k \in Nat : iter[k] # Power(base, k) % n}
<1>6. Bad = {}
  <2> SUFFICES ASSUME Bad # {} PROVE FALSE
    OBVIOUS
  <2>1. PICK m \in Bad : \A k \in Bad : m <= k
    <3>1. Bad \in SUBSET Nat
      OBVIOUS
    <3> HIDE DEF Bad
    <3> QED BY <3>1, Least
  <2>2. \A k \in 0 .. m - 1 : iter[k] = Power(base, k) % n
    <3>1. \A k \in 0 .. m - 1 : k \in Nat /\ ~(m <= k)
      OBVIOUS
    <3> QED BY <2>1, <3>1
  <2> QED BY <1>5, <2>2
<1>7. iter[exponent] = Power(base, exponent) % n
  BY <1>6
<1> QED BY <1>1, <1>7

-----------------------------------------------------------------------------
(* Primes. *)

\* A prime has no factors but itself and one.
LEMMA PrimeFactors ==
  ASSUME NEW p \in Nat, Prime(p), NEW m \in Nat, NEW c \in Nat, p = m * c
  PROVE  m = 1 \/ m = p
<1> SUFFICES ASSUME m # 1, m # p PROVE FALSE
  OBVIOUS
<1>1. p > 1 /\ \A d \in 2 .. p - 1 : d * d > p \/ p % d # 0
  BY DEF Prime
<1>2. m # 0 /\ c # 0
  BY <1>1
<1>3. c # 1
  OBVIOUS
<1>4. m < p /\ c < p
  <2>1. m * c >= m + m
    BY <1>2, <1>3
  <2>2. m * c >= c + c
    BY <1>2
  <2> QED BY <1>2, <2>1, <2>2
<1>5. m \in 2 .. p - 1 /\ c \in 2 .. p - 1
  BY <1>2, <1>3, <1>4
<1>6. p % m = 0 /\ p % c = 0
  <2>1. (c * m + 0) % m = 0
    BY <1>2, ModIs
  <2>2. (m * c + 0) % c = 0
    BY <1>2, ModIs
  <2>3. c * m + 0 = p /\ m * c + 0 = p
    OBVIOUS
  <2> QED BY <2>1, <2>2, <2>3
<1>7. m * m > p /\ c * c > p
  BY <1>1, <1>5, <1>6
<1>8. CASE m <= c
  <2>1. m * m <= m * c
    BY <1>8
  <2> QED BY <1>7, <2>1
<1>9. CASE c <= m
  <2>1. c * c <= m * c
    BY <1>9
  <2> QED BY <1>7, <2>1
<1> QED BY <1>8, <1>9

\* A multiple of a prime has a factor that is one.
LEMMA PrimeDivides ==
  ASSUME NEW p \in Nat, Prime(p), NEW a \in Int, NEW b \in Int, Same(a * b, 0, p)
  PROVE  Same(a, 0, p) \/ Same(b, 0, p)
<1> DEFINE S == {k \in Nat \ {0} : Same(k * b, 0, p)}
<1>0. p \in Nat \ {0} /\ p > 1
  BY DEF Prime
<1>1. p \in S
  <2> DEFINE x == p * b
  <2>1. x \in Int /\ x = 0 + b * p
    BY <1>0
  <2> HIDE DEF x
  <2>2. Same(x, 0, p)
    BY <1>0, <2>1, SameBy
  <2> QED BY <1>0, <2>2 DEF x
<1>2. PICK m \in S : \A k \in S : m <= k
  <2>1. S \in SUBSET Nat /\ S # {}
    BY <1>1
  <2> HIDE DEF S
  <2> QED BY <2>1, Least
<1>3. m \in Nat \ {0} /\ Same(m * b, 0, p)
  OBVIOUS
<1> HIDE DEF S
<1>4. ASSUME NEW k \in Nat, Same(k * b, 0, p)
      PROVE  k % m = 0 /\ k = m * (k \div m) /\ k \div m \in Nat
  <2> DEFINE q == k \div m
             r == k % m
  <2>1. q \in Nat /\ r \in 0 .. m - 1 /\ k = q * m + r
    <3>1. m \in Nat \ {0}
      BY <1>3
    <3>2. k = (k \div m) * m + (k % m) /\ k % m \in 0 .. m - 1
      BY <3>1
    <3>3. k \div m \in Nat
      BY <3>1
    <3> QED BY <3>2, <3>3
  <2> HIDE DEF q, r
  <2> DEFINE kb == k * b
             mb == m * b
  <2>2. kb \in Int /\ Same(kb, 0, p) /\ mb \in Int /\ Same(mb, 0, p)
    BY <1>3, <1>4
  <2> HIDE DEF kb, mb
  <2>3. PICK i \in Int : kb = 0 + i * p
    BY <1>0, <2>2, SameBy
  <2>4. PICK j \in Int : mb = 0 + j * p
    BY <1>0, <2>2, SameBy
  <2>5. r * b = 0 + (i - q * j) * p
    <3>1. r * b = kb - q * mb
      BY <1>3, <2>1 DEF kb, mb
    <3>2. q * mb = (q * j) * p
      BY <2>1, <2>4
    <3> QED BY <2>1, <2>3, <3>1, <3>2
  <2>6. Same(r * b, 0, p)
    <3> DEFINE x == r * b
               l == i - q * j
    <3>1. x \in Int /\ l \in Int /\ x = 0 + l * p
      BY <2>1, <2>5
    <3> HIDE DEF x, l
    <3>2. Same(x, 0, p)
      BY <1>0, <3>1, SameBy
    <3> QED BY <3>2 DEF x
  <2>7. r = 0
    <3>1. r # 0 => r \in S
      BY <1>3, <2>1, <2>6 DEF S
    <3> QED BY <1>2, <1>3, <2>1, <3>1
  <2> QED BY <1>3, <2>1, <2>7 DEF q, r
<1>5. m = 1 \/ m = p
  <2>1. p = m * (p \div m) /\ p \div m \in Nat
    BY <1>1, <1>4 DEF S
  <2> QED BY <1>3, <2>1, PrimeFactors
<1>6. CASE m = 1
  BY <1>3, <1>6
<1>7. CASE m = p
  <2> DEFINE c == a % p
  <2>1. c \in 0 .. p - 1 /\ Same(c, a, p)
    BY <1>0, SameMod
  <2> HIDE DEF c
  <2>2. Same(c * b, a * b, p)
    <3>1. c \in Int /\ Same(b, b, p)
      BY <1>0, <2>1, SameEquivalence
    <3> QED BY <1>0, <2>1, <3>1, SameTimes
  <2>3. Same(c * b, 0, p)
    BY <1>0, <2>2, SameEquivalence
  <2>4. c % p = 0
    BY <1>4, <1>7, <2>1, <2>3
  <2>5. c = 0
    BY <1>0, <2>1, <2>4
  <2> QED BY <1>0, <2>1, <2>5, SameEquivalence
<1> QED BY <1>5, <1>6, <1>7

\* Modulo a prime, a factor that is no multiple of it cancels.
LEMMA PrimeCancels ==
  ASSUME NEW p \in Nat, Prime(p), NEW a \in Int, NEW b \in Int, NEW c \in Int,
         ~Same(c, 0, p), Same(a * c, b * c, p)
  PROVE  Same(a, b, p)
<1>0. p \in Nat \ {0}
  BY DEF Prime
<1> DEFINE x == a * c
           y == b * c
           d == a - b
<1>1. x \in Int /\ y \in Int /\ d \in Int /\ x - y = d * c
  OBVIOUS
<1> HIDE DEF x, y, d
<1>2. Same(x - y, 0, p)
  BY <1>0, <1>1, SameDifference DEF x, y
<1>3. Same(d * c, 0, p)
  BY <1>1, <1>2
<1>4. Same(d, 0, p)
  BY <1>1, <1>3, PrimeDivides
<1> QED BY <1>0, <1>4, SameDifference DEF d

\* A power of a number that is no multiple of a prime is none.
LEMMA PowerNoMultiple ==
  ASSUME NEW p \in Nat, Prime(p), NEW a \in Int, ~Same(a, 0, p), NEW k \in Nat
  PROVE  ~Same(Power(a, k), 0, p)
<1>0. p \in Nat \ {0} /\ p > 1
  BY DEF Prime
<1> DEFINE S == {i \in Nat : ~Same(Power(a, i), 0, p)}
<1>1. 0 \in S
  <2>1. ~Same(1, 0, p)
    BY <1>0 DEF Same
  <2> QED BY <2>1, PowerStep
<1>2. ASSUME NEW i \in Nat, i \in S PROVE i + 1 \in S
  <2>1. Power(a, i) \in Int /\ Power(a, i + 1) = Power(a, i) * a
    BY PowerStep
  <2> QED BY <1>2, <2>1, PrimeDivides
<1> HIDE DEF S
<1>3. k \in S
  BY <1>1, <1>2, Induct
<1> QED BY <1>3 DEF S

-----------------------------------------------------------------------------
(* Powers modulo a prime: Fermat's little theorem. *)

\* The first power of a after the zeroth that is one modulo p.
IsOrder(t, a, p) ==
  /\ t \in Nat \ {0}
  /\ Same(Power(a, t), 1, p)
  /\ \A k \in Nat \ {0} : Same(Power(a, k), 1, p) => t <= k

\* If two powers agree, the one between them is one.
LEMMA PowersApart ==
  ASSUME NEW p \in Nat, Prime(p), NEW a \in Int, ~Same(a, 0, p),
         NEW i \in Nat, NEW j \in Nat, i < j, Same(Power(a, i), Power(a, j), p)
  PROVE  j - i \in Nat \ {0} /\ Same(Power(a, j - i), 1, p)
<1>0. p \in Nat \ {0}
  BY DEF Prime
<1> DEFINE k == j - i
<1>1. k \in Nat \ {0} /\ j = i + k
  OBVIOUS
<1> HIDE DEF k
<1> DEFINE x == Power(a, i)
           y == Power(a, k)
<1>2. x \in Int /\ y \in Int /\ Power(a, j) = x * y
  BY <1>1, PowerStep, PowerPlus
<1>3. ~Same(x, 0, p)
  BY PowerNoMultiple
<1>4. Same(x, x * y, p)
  BY <1>2
<1> HIDE DEF x, y
<1>5. Same(y * x, 1 * x, p)
  <2>1. y * x = x * y /\ 1 * x = x
    BY <1>2
  <2> QED BY <1>0, <1>4, <2>1, SameEquivalence
<1>6. Same(y, 1, p)
  BY <1>2, <1>3, <1>5, PrimeCancels
<1> QED BY <1>1, <1>6 DEF y, k

\* Some power is one again, since there are fewer remainders than powers.
LEMMA OrderExists ==
  ASSUME NEW p \in Nat, Prime(p), NEW a \in Int, ~Same(a, 0, p)
  PROVE  \E t : IsOrder(t, a, p)
<1>0. p \in Nat \ {0} /\ p > 1
  BY DEF Prime
<1> DEFINE f == [k \in 0 .. p - 1 |-> Power(a, k) % p]
           S == 0 .. p - 1
           U == 1 .. p - 1
           T == {k \in Nat \ {0} : Same(Power(a, k), 1, p)}
<1>1. ASSUME NEW k \in S PROVE f[k] \in U /\ Same(f[k], Power(a, k), p)
  <2> DEFINE r == Power(a, k) % p
  <2>1. Power(a, k) \in Int /\ k \in Nat
    BY PowerStep
  <2>2. r \in 0 .. p - 1 /\ Same(r, Power(a, k), p)
    BY <1>0, <2>1, SameMod
  <2> HIDE DEF r
  <2>3. r # 0
    BY <1>0, <2>1, <2>2, PowerNoMultiple, SameEquivalence
  <2>4. r \in U
    BY <2>2, <2>3
  <2> QED BY <2>2, <2>4 DEF r
<1>2. f \in [S -> U]
  BY <1>1
<1>3. IsFiniteSet(S) /\ IsFiniteSet(U) /\ Cardinality(U) < Cardinality(S)
  <2>1. Cardinality(S) = p /\ IsFiniteSet(S)
    BY <1>0, FS_Interval
  <2>2. Cardinality(U) = p - 1 /\ IsFiniteSet(U)
    BY <1>0, FS_Interval
  <2> QED BY <1>0, <2>1, <2>2
<1> HIDE DEF f, U
<1>4. PICK x, y \in S : x # y /\ f[x] = f[y]
  <2> HIDE DEF S
  <2> QED BY <1>2, <1>3, FS_PigeonHole
<1>5. Same(Power(a, x), Power(a, y), p) /\ Same(Power(a, y), Power(a, x), p)
  BY <1>0, <1>1, <1>4, SameEquivalence
<1>6. x \in Nat /\ y \in Nat
  OBVIOUS
<1>7. T # {}
  <2>1. CASE x < y
    <3>1. y - x \in T
      BY <1>5, <1>6, <2>1, PowersApart
    <3> QED BY <3>1
  <2>2. CASE y < x
    <3>1. x - y \in T
      BY <1>5, <1>6, <2>2, PowersApart
    <3> QED BY <3>1
  <2> QED BY <1>4, <1>6, <2>1, <2>2
<1>8. PICK t \in T : \A k \in T : t <= k
  <2>1. T \in SUBSET Nat
    OBVIOUS
  <2> HIDE DEF T
  <2> QED BY <1>7, <2>1, Least
<1>9. IsOrder(t, a, p)
  BY <1>8 DEF IsOrder
<1> QED BY <1>9

\* The multiples of s by powers of a.
Orbit(s, a, t, p) == {(s * Power(a, k)) % p : k \in 0 .. t - 1}

\* As many as the order of a.
LEMMA OrbitSize ==
  ASSUME NEW p \in Nat, Prime(p), NEW a \in Int, ~Same(a, 0, p),
         NEW t, IsOrder(t, a, p), NEW s \in 1 .. p - 1
  PROVE  IsFiniteSet(Orbit(s, a, t, p)) /\ Cardinality(Orbit(s, a, t, p)) = t
<1>0. p \in Nat \ {0} /\ s \in Int /\ ~Same(s, 0, p) /\ t \in Nat \ {0}
  BY DEF Prime, Same, IsOrder
<1> DEFINE S == 0 .. t - 1
           O == Orbit(s, a, t, p)
           f == [k \in S |-> (s * Power(a, k)) % p]
<1>1. ASSUME NEW k \in S
      PROVE  k \in Nat /\ Power(a, k) \in Int /\ f[k] \in O
             /\ s * Power(a, k) \in Int /\ Same(f[k], s * Power(a, k), p)
  <2>1. k \in Nat
    BY <1>0
  <2>2. Power(a, k) \in Int /\ s * Power(a, k) \in Int
    <3> DEFINE w == Power(a, k)
    <3>1. w \in Int
      BY <2>1, PowerStep
    <3> HIDE DEF w
    <3>2. s * w \in Int
      BY <1>0, <3>1
    <3> QED BY <3>1, <3>2 DEF w
  <2>3. Same((s * Power(a, k)) % p, s * Power(a, k), p)
    BY <1>0, <2>2, SameMod
  <2> QED BY <2>1, <2>2, <2>3 DEF Orbit
<1>2. ASSUME NEW i \in S, NEW j \in S, i < j, f[i] = f[j] PROVE FALSE
  <2> DEFINE x == Power(a, i)
             y == Power(a, j)
  <2>1. x \in Int /\ y \in Int /\ Same(f[i], s * x, p) /\ Same(f[i], s * y, p)
    BY <1>1, <1>2
  <2> HIDE DEF x, y, f
  <2>2. Same(s * x, s * y, p)
    BY <1>0, <2>1, SameEquivalence
  <2>3. Same(x * s, y * s, p)
    <3>1. x * s = s * x /\ y * s = s * y
      BY <1>0, <2>1
    <3> QED BY <2>2, <3>1
  <2>4. Same(x, y, p)
    BY <1>0, <2>1, <2>3, PrimeCancels
  <2>5. j - i \in Nat \ {0} /\ Same(Power(a, j - i), 1, p)
    BY <1>1, <1>2, <2>4, PowersApart DEF x, y
  <2>6. t <= j - i
    BY <2>5 DEF IsOrder
  <2> QED BY <1>0, <2>6
<1>3. f \in Bijection(S, O)
  <2>1. f \in [S -> O]
    BY <1>1
  <2>2. \A i, j \in S : f[i] = f[j] => i = j
    <3> SUFFICES ASSUME NEW i \in S, NEW j \in S, f[i] = f[j] PROVE i = j
      OBVIOUS
    <3>1. i \in Nat /\ j \in Nat /\ ~(i < j) /\ ~(j < i)
      <4> HIDE DEF S, f
      <4> QED BY <1>1, <1>2
    <3> QED BY <3>1
  <2>3. \A y \in O : \E k \in S : f[k] = y
    BY DEF Orbit
  <2> HIDE DEF S, O, f
  <2> QED BY <2>1, <2>2, <2>3 DEF Bijection, Injection, Surjection, IsInjective
<1>4. IsFiniteSet(S) /\ Cardinality(S) = t
  <2> DEFINE u == t - 1
  <2>1. u \in Int /\ ~(0 > u) /\ u - 0 + 1 = t /\ 0 \in Int
    BY <1>0
  <2> HIDE DEF u
  <2>2. IsFiniteSet(0 .. u) /\ Cardinality(0 .. u) = u - 0 + 1
    BY <2>1, FS_Interval
  <2> QED BY <2>1, <2>2 DEF u
<1> HIDE DEF S, O, f
<1>5. IsFiniteSet(O) /\ Cardinality(O) = Cardinality(S)
  BY <1>3, <1>4, FS_Bijection DEF ExistsBijection
<1> QED BY <1>4, <1>5 DEF O

\* Closed under multiplication by a.
IsClosed(S, a, p) == S \subseteq 1 .. p - 1 /\ \A x \in S : (x * a) % p \in S

\* A closed set holds the orbits of its elements.
LEMMA OrbitInside ==
  ASSUME NEW p \in Nat, Prime(p), NEW a \in Int, NEW t, IsOrder(t, a, p),
         NEW S, IsClosed(S, a, p), NEW s \in S
  PROVE  Orbit(s, a, t, p) \subseteq S
<1>0. p \in Nat \ {0} /\ s \in 1 .. p - 1 /\ s \in Int /\ t \in Nat
  BY DEF Prime, IsOrder, IsClosed
<1> DEFINE K == {k \in Nat : (s * Power(a, k)) % p \in S}
<1>1. 0 \in K
  <2>1. s * Power(a, 0) = s
    BY <1>0, PowerStep
  <2>2. s % p = s
    BY <1>0
  <2> QED BY <2>1, <2>2
<1>2. ASSUME NEW k \in Nat, k \in K PROVE k + 1 \in K
  <2> DEFINE y == s * Power(a, k)
             x == y % p
             z == s * Power(a, k + 1)
  <2>1. Power(a, k) \in Int /\ Power(a, k + 1) = Power(a, k) * a
    BY PowerStep
  <2>2. y \in Int /\ z = y * a /\ z \in Int
    <3> DEFINE w == Power(a, k)
    <3>1. w \in Int /\ z = s * (w * a)
      BY <2>1
    <3> HIDE DEF w
    <3>2. s * w \in Int /\ s * (w * a) = (s * w) * a /\ (s * w) * a \in Int
      BY <1>0, <3>1
    <3> QED BY <3>1, <3>2 DEF w
  <2>3. x \in S /\ (x * a) % p \in S /\ x \in Int
    <3>1. x \in S
      BY <1>2
    <3> HIDE DEF x
    <3>2. x \in 1 .. p - 1 /\ (x * a) % p \in S
      BY <3>1 DEF IsClosed
    <3>3. x \in Int
      BY <1>0, <3>2
    <3> QED BY <3>1, <3>2, <3>3
  <2> HIDE DEF y, z
  <2>4. Same(x, y, p)
    BY <1>0, <2>2, SameMod
  <2> HIDE DEF x
  <2>5. Same(x * a, y * a, p)
    <3>1. Same(a, a, p)
      BY <1>0, SameEquivalence
    <3> QED BY <1>0, <2>2, <2>3, <2>4, <3>1, SameTimes
  <2>6. (x * a) % p = z % p
    BY <2>2, <2>5 DEF Same
  <2> QED BY <2>3, <2>6 DEF z
<1> HIDE DEF K
<1>3. \A k \in Nat : k \in K
  BY <1>1, <1>2, Induct
<1>4. ASSUME NEW k \in 0 .. t - 1 PROVE (s * Power(a, k)) % p \in S
  <2>1. k \in Nat
    BY <1>0
  <2> QED BY <1>3, <2>1 DEF K
<1> QED BY <1>4 DEF Orbit

\* What is left of a closed set without an orbit is closed.
LEMMA RestClosed ==
  ASSUME NEW p \in Nat, Prime(p), NEW a \in Int, ~Same(a, 0, p), NEW t, IsOrder(t, a, p),
         NEW S, IsClosed(S, a, p), NEW s \in S
  PROVE  IsClosed(S \ Orbit(s, a, t, p), a, p)
<1>0. p \in Nat \ {0} /\ s \in Int /\ t \in Nat \ {0}
  BY DEF Prime, IsOrder, IsClosed
<1> SUFFICES ASSUME NEW x \in S, (x * a) % p \in Orbit(s, a, t, p)
             PROVE  x \in Orbit(s, a, t, p)
  BY DEF IsClosed
<1>1. x \in 1 .. p - 1 /\ x \in Int
  BY <1>0 DEF IsClosed
<1>2. PICK k \in 0 .. t - 1 : (x * a) % p = (s * Power(a, k)) % p
  BY DEF Orbit
<1>3. k \in Nat
  BY <1>0
<1>4. Same(x * a, s * Power(a, k), p)
  BY <1>2 DEF Same
\* The position before k, round the orbit.
<1> DEFINE j == IF k = 0 THEN t - 1 ELSE k - 1
           y == s * Power(a, j)
<1>5. j \in 0 .. t - 1 /\ j \in Nat
  BY <1>0, <1>3
<1>6. Power(a, j) \in Int /\ y \in Int
  <2> HIDE DEF j
  <2>1. Power(a, j) \in Int
    BY <1>5, PowerStep
  <2> DEFINE w == Power(a, j)
  <2> HIDE DEF w
  <2>2. w \in Int /\ s * w \in Int
    BY <1>0, <2>1 DEF w
  <2> QED BY <2>1, <2>2 DEF w
<1>7. Same(s * Power(a, k), y * a, p)
  <2> DEFINE w == Power(a, j)
  <2>1. y * a = s * (w * a) /\ w * a \in Int
    <3>1. w \in Int
      BY <1>6
    <3> HIDE DEF w, j
    <3>2. (s * w) * a = s * (w * a) /\ w * a \in Int
      BY <1>0, <3>1
    <3> QED BY <3>2 DEF w
  <2>2. w * a = Power(a, j + 1)
    BY <1>5, PowerStep
  <2>3. Power(a, k) \in Int
    BY <1>3, PowerStep
  <2>4. CASE k = 0
    <3>1. Power(a, j + 1) = Power(a, t)
      BY <1>0, <2>4
    <3>2. Power(a, k) = 1
      BY <2>4, PowerStep
    <3>3. Same(Power(a, k), w * a, p)
      BY <1>0, <2>2, <3>1, <3>2, SameEquivalence DEF IsOrder
    <3> HIDE DEF w, y, j
    <3>4. Same(s * Power(a, k), s * (w * a), p)
      <4>1. Same(s, s, p)
        BY <1>0, SameEquivalence
      <4> QED BY <1>0, <2>1, <2>3, <3>3, <4>1, SameTimes
    <3> QED BY <2>1, <3>4
  <2>5. CASE k # 0
    <3>1. j + 1 = k
      BY <1>3, <2>5
    <3>2. s * Power(a, k) = y * a
      BY <2>1, <2>2, <3>1
    <3> QED BY <1>0, <3>2, SameEquivalence
  <2> QED BY <2>4, <2>5
<1> HIDE DEF j
<1>8. Same(x * a, y * a, p)
  BY <1>0, <1>4, <1>7, SameEquivalence
<1> HIDE DEF y
<1>9. Same(x, y, p)
  BY <1>1, <1>6, <1>8, PrimeCancels
<1>10. x = y % p
  <2>1. x \in 0 .. p - 1
    BY <1>1
  <2> QED BY <1>0, <1>6, <1>9, <2>1, SameMod
<1> QED BY <1>5, <1>10 DEF Orbit, y

\* So a closed set falls into orbits, all of the same size.
LEMMA ClosedSize ==
  ASSUME NEW p \in Nat, Prime(p), NEW a \in Int, ~Same(a, 0, p), NEW t, IsOrder(t, a, p),
         NEW S, IsClosed(S, a, p)
  PROVE  \E c \in Nat : Cardinality(S) = t * c
<1>0. p \in Nat \ {0} /\ t \in Nat \ {0}
  BY DEF Prime, IsOrder
<1>1. ASSUME NEW T, IsClosed(T, a, p) PROVE IsFiniteSet(T) /\ Cardinality(T) \in Nat
  <2>1. T \in SUBSET (1 .. p - 1)
    BY <1>1 DEF IsClosed
  <2>2. IsFiniteSet(1 .. p - 1)
    BY <1>0, FS_Interval
  <2> QED BY <2>1, <2>2, FS_Subset, FS_CardinalityType
<1> DEFINE Fits(n) == \E c \in Nat : n = t * c
           Bad == {n \in Nat : \E T \in SUBSET (1 .. p - 1) :
                                  IsClosed(T, a, p) /\ Cardinality(T) = n /\ ~Fits(n)}
<1>2. Bad = {}
  <2> SUFFICES ASSUME Bad # {} PROVE FALSE
    OBVIOUS
  <2>1. PICK n \in Bad : \A m \in Bad : n <= m
    <3>1. Bad \in SUBSET Nat
      OBVIOUS
    <3> HIDE DEF Bad
    <3> QED BY <3>1, Least
  <2>2. PICK T \in SUBSET (1 .. p - 1) : IsClosed(T, a, p) /\ Cardinality(T) = n /\ ~Fits(n)
    OBVIOUS
  <2>3. IsFiniteSet(T) /\ n \in Nat
    BY <1>1, <2>2
  <2>4. T # {}
    <3>1. CASE T = {}
      <4>1. n = 0
        BY <2>2, <3>1, FS_EmptySet
      <4>2. n = t * 0 /\ 0 \in Nat
        BY <1>0, <4>1
      <4> QED BY <2>2, <4>2
    <3> QED BY <3>1
  <2>5. PICK s \in T : TRUE
    BY <2>4
  <2> DEFINE O == Orbit(s, a, t, p)
             R == T \ O
  <2>6. IsFiniteSet(O) /\ Cardinality(O) = t
    BY OrbitSize
  <2>7. O \subseteq T /\ IsClosed(R, a, p) /\ R \in SUBSET (1 .. p - 1)
    BY <2>2, OrbitInside, RestClosed
  <2> HIDE DEF O, Bad, Fits
  <2>8. Cardinality(R) = n - t /\ Cardinality(R) \in Nat
    <3>1. T \cap O = O
      BY <2>7
    <3>2. Cardinality(R) = Cardinality(T) - Cardinality(T \cap O)
      BY <2>3, FS_Difference
    <3>3. Cardinality(R) \in Nat
      BY <1>1, <2>7
    <3> QED BY <2>2, <2>6, <3>1, <3>2, <3>3
  <2>9. n - t \notin Bad
    BY <1>0, <2>1, <2>3
  <2>10. Fits(n - t)
    BY <2>7, <2>8, <2>9 DEF Bad
  <2>11. PICK c \in Nat : n - t = t * c
    BY <2>10 DEF Fits
  <2>12. n = t * (c + 1) /\ c + 1 \in Nat
    BY <1>0, <2>3, <2>11
  <2> QED BY <2>2, <2>12 DEF Fits
<1>3. S \in SUBSET (1 .. p - 1) /\ Cardinality(S) \in Nat
  BY <1>1 DEF IsClosed
<1> QED BY <1>2, <1>3

\* Fermat's little theorem: modulo a prime p, the (p - 1)st power is one.
THEOREM Fermat ==
  ASSUME NEW p \in Nat, Prime(p), NEW a \in Int, ~Same(a, 0, p)
  PROVE  Same(Power(a, p - 1), 1, p)
<1>0. p \in Nat \ {0} /\ p > 1 /\ p - 1 \in Nat
  BY DEF Prime
<1>1. PICK t : IsOrder(t, a, p)
  BY OrderExists
<1>2. t \in Nat /\ Same(Power(a, t), 1, p)
  BY <1>1 DEF IsOrder
<1>3. IsClosed(1 .. p - 1, a, p)
  <2> SUFFICES ASSUME NEW x \in 1 .. p - 1 PROVE (x * a) % p \in 1 .. p - 1
    BY DEF IsClosed
  <2> DEFINE y == x * a
             r == y % p
  <2>1. y \in Int /\ x \in Int
    OBVIOUS
  <2>2. ~Same(x, 0, p)
    BY <1>0 DEF Same
  <2>3. ~Same(y, 0, p)
    BY <2>1, <2>2, PrimeDivides
  <2> HIDE DEF y
  <2>4. r \in 0 .. p - 1 /\ Same(r, y, p)
    BY <1>0, <2>1, SameMod
  <2> HIDE DEF r
  <2>5. r # 0
    BY <1>0, <2>3, <2>4, SameEquivalence
  <2>6. r \in 1 .. p - 1
    BY <2>4, <2>5
  <2> QED BY <2>6 DEF r, y
<1>4. PICK c \in Nat : Cardinality(1 .. p - 1) = t * c
  BY <1>1, <1>3, ClosedSize
<1>5. p - 1 = t * c
  <2>1. Cardinality(1 .. p - 1) = p - 1
    BY <1>0, FS_Interval
  <2> QED BY <1>4, <2>1
<1>6. Power(a, p - 1) = Power(Power(a, t), c)
  BY <1>2, <1>5, PowerTimes
<1>7. Same(Power(Power(a, t), c), Power(1, c), p)
  <2>1. Power(a, t) \in Int /\ 1 \in Int
    BY <1>2, PowerStep
  <2> QED BY <1>0, <1>2, <2>1, PowerSame
<1> QED BY <1>6, <1>7, PowerOne

-----------------------------------------------------------------------------
(* The extended Euclidean algorithm. *)

\* What it does with a solution for the smaller pair.
Euclid(f, r) ==
  IF r[2] = 0 THEN [gcd |-> r[1], x |-> 1, y |-> 0]
  ELSE [gcd |-> f[<<r[2], r[1] % r[2]>>].gcd,
        x   |-> f[<<r[2], r[1] % r[2]>>].y,
        y   |-> f[<<r[2], r[1] % r[2]>>].x - (r[1] \div r[2]) * f[<<r[2], r[1] % r[2]>>].y]

Pairs == Nat \X Nat

Factors == [gcd : Nat, x : Int, y : Int]

\* It looks at one smaller pair only.
LEMMA EuclidLooks ==
  ASSUME NEW f, NEW g, NEW r \in Pairs,
         r[2] # 0 => f[<<r[2], r[1] % r[2]>>] = g[<<r[2], r[1] % r[2]>>]
  PROVE  Euclid(f, r) = Euclid(g, r)
BY DEF Euclid

\* That pair is one, and smaller.
LEMMA EuclidSmaller ==
  ASSUME NEW r \in Pairs, r[2] # 0
  PROVE  <<r[2], r[1] % r[2]>> \in Pairs /\ r[1] % r[2] \in 0 .. r[2] - 1
<1>1. r[1] \in Nat /\ r[2] \in Nat \ {0}
  BY DEF Pairs
<1>2. r[1] % r[2] \in 0 .. r[2] - 1
  BY <1>1
<1>3. r[1] % r[2] \in Nat
  BY <1>1, <1>2
<1> QED BY <1>1, <1>2, <1>3 DEF Pairs

\* A step leads from factors to factors.
LEMMA EuclidTyped ==
  ASSUME NEW f \in [Pairs -> Factors], NEW r \in Pairs
  PROVE  Euclid(f, r) \in Factors
<1>1. r[1] \in Nat /\ r[2] \in Nat
  BY DEF Pairs
<1>2. CASE r[2] = 0
  BY <1>1, <1>2 DEF Euclid, Factors
<1>3. CASE r[2] # 0
  <2> DEFINE s == f[<<r[2], r[1] % r[2]>>]
             k == r[1] \div r[2]
  <2>1. s \in Factors
    BY <1>3, EuclidSmaller
  <2>2. k \in Int
    <3>1. r[2] \in Nat \ {0}
      BY <1>1, <1>3
    <3> QED BY <1>1, <3>1
  <2>3. Euclid(f, r) = [gcd |-> s.gcd, x |-> s.y, y |-> s.x - k * s.y]
    BY <1>3 DEF Euclid
  <2> HIDE DEF s, k
  <2>4. s.gcd \in Nat /\ s.x \in Int /\ s.y \in Int
    BY <2>1 DEF Factors
  <2>5. s.x - k * s.y \in Int
    BY <2>2, <2>4
  <2> QED BY <2>3, <2>4, <2>5 DEF Factors
<1> QED BY <1>2, <1>3

\* A function that solves the recursion exists: iterating the step from any function
\* settles at each pair once there have been more steps than its second number.
LEMMA EuclidExists ==
  \E g : g = [r \in Pairs |-> Euclid(g, r)]
<1> DEFINE F == [Pairs -> Factors]
           s == [r \in Pairs |-> [gcd |-> 0, x |-> 0, y |-> 0]]
           step == [f \in F |-> [r \in Pairs |-> Euclid(f, r)]]
<1>1. s \in F
  BY DEF Factors
<1>2. step \in [F -> F]
  <2> SUFFICES ASSUME NEW f \in F PROVE [r \in Pairs |-> Euclid(f, r)] \in F
    OBVIOUS
  <2> QED BY EuclidTyped
<1>3. PICK it \in [Nat -> F] : it[0] = s /\ \A n \in Nat : it[n + 1] = step[it[n]]
  <2> HIDE DEF F, s, step
  <2> QED BY <1>1, <1>2, Iterated
<1>4. ASSUME NEW n \in Nat, NEW r \in Pairs PROVE it[n + 1][r] = Euclid(it[n], r)
  <2>1. it[n] \in F /\ it[n + 1] = step[it[n]]
    BY <1>3
  <2> QED BY <2>1
<1> HIDE DEF F, s, step
<1> DEFINE Settled == {n \in Nat : \A r \in Pairs : r[2] < n => it[n + 1][r] = it[n][r]}
<1>5. \A n \in Nat : n \in Settled
  <2>1. 0 \in Settled
    BY DEF Pairs
  <2>2. ASSUME NEW n \in Nat, n \in Settled PROVE n + 1 \in Settled
    <3> SUFFICES ASSUME NEW r \in Pairs, r[2] < n + 1 PROVE it[(n + 1) + 1][r] = it[n + 1][r]
      OBVIOUS
    <3>1. it[(n + 1) + 1][r] = Euclid(it[n + 1], r) /\ it[n + 1][r] = Euclid(it[n], r)
      BY <1>4
    <3> DEFINE t == <<r[2], r[1] % r[2]>>
    <3>2. ASSUME r[2] # 0 PROVE it[n + 1][t] = it[n][t]
      <4>1. t \in Pairs /\ t[2] \in 0 .. r[2] - 1
        BY <3>2, EuclidSmaller
      <4>2. r[2] \in Nat
        BY DEF Pairs
      <4> HIDE DEF t
      <4>3. t[2] < n
        BY <4>1, <4>2
      <4> QED BY <2>2, <4>1, <4>3
    <3>3. Euclid(it[n + 1], r) = Euclid(it[n], r)
      BY <3>2, EuclidLooks
    <3> QED BY <3>1, <3>3
  <2> HIDE DEF Settled
  <2> QED BY <2>1, <2>2, Induct
<1>6. ASSUME NEW r \in Pairs, NEW j \in Nat, r[2] < j PROVE it[j][r] = it[r[2] + 1][r]
  <2> DEFINE m == r[2] + 1
             S == {k \in Nat : it[m + k][r] = it[m][r]}
  <2>1. m \in Nat /\ r[2] \in Nat
    BY DEF Pairs
  <2>2. 0 \in S
    BY <2>1
  <2>3. ASSUME NEW k \in Nat, k \in S PROVE k + 1 \in S
    <3>1. m + k \in Nat /\ r[2] < m + k /\ m + (k + 1) = (m + k) + 1
      BY <2>1
    <3>2. it[(m + k) + 1][r] = it[m + k][r]
      <4> HIDE DEF m
      <4> QED BY <1>5, <3>1
    <3> QED BY <2>3, <3>1, <3>2
  <2> HIDE DEF S
  <2>4. \A k \in Nat : k \in S
    BY <2>2, <2>3, Induct
  <2> DEFINE k == j - m
  <2>5. k \in Nat /\ j = m + k
    BY <1>6, <2>1
  <2> HIDE DEF k, m
  <2>6. it[m + k][r] = it[m][r]
    BY <2>4, <2>5 DEF S
  <2> QED BY <2>5, <2>6 DEF m
<1> DEFINE g == [r \in Pairs |-> it[r[2] + 1][r]]
<1>7. ASSUME NEW r \in Pairs PROVE g[r] = Euclid(g, r)
  <2> DEFINE n == r[2]
             t == <<r[2], r[1] % r[2]>>
  <2>1. n \in Nat
    BY DEF Pairs
  <2>2. g[r] = Euclid(it[n], r)
    <3>1. it[n + 1][r] = Euclid(it[n], r)
      <4> HIDE DEF n
      <4> QED BY <1>4, <2>1
    <3> QED BY <3>1
  <2>3. ASSUME r[2] # 0 PROVE it[n][t] = g[t]
    <3>1. t \in Pairs /\ t[2] \in 0 .. r[2] - 1
      BY <2>3, EuclidSmaller
    <3>2. t[2] < n
      <4> HIDE DEF t
      <4> QED BY <2>1, <3>1
    <3>3. g[t] = it[t[2] + 1][t]
      <4> HIDE DEF t
      <4> QED BY <3>1
    <3> HIDE DEF t, n, g
    <3>4. it[n][t] = it[t[2] + 1][t]
      BY <1>6, <2>1, <3>1, <3>2
    <3> QED BY <3>3, <3>4
  <2>4. Euclid(it[n], r) = Euclid(g, r)
    <3> HIDE DEF g, n
    <3> QED BY <2>3, EuclidLooks
  <2> QED BY <2>2, <2>4
<1>8. g = [r \in Pairs |-> Euclid(g, r)]
  <2> DEFINE h == [r \in Pairs |-> Euclid(g, r)]
  <2>1. \A r \in Pairs : g[r] = h[r]
    <3> HIDE DEF g
    <3> QED BY <1>7
  <2>2. g = [r \in Pairs |-> g[r]] /\ h = [r \in Pairs |-> h[r]]
    OBVIOUS
  <2> HIDE DEF g, h
  <2>3. g = h
    BY <2>1, <2>2
  <2> QED BY <2>3 DEF h
<1> QED BY <1>8

\* The algorithm is that recursion.
LEMMA EuclidStep ==
  ASSUME NEW a \in Nat, NEW b \in Nat
  PROVE  /\ b = 0 => ExtendedGcd(a, b) = [gcd |-> a, x |-> 1, y |-> 0]
         /\ b # 0 =>
              LET rest == ExtendedGcd(b, a % b)
              IN  ExtendedGcd(a, b)
                    = [gcd |-> rest.gcd, x |-> rest.y, y |-> rest.x - (a \div b) * rest.y]
<1> DEFINE Solves(h) == h = [r \in Pairs |-> Euclid(h, r)]
           euclid == CHOOSE h : Solves(h)
<1>1. ASSUME NEW c, NEW d PROVE ExtendedGcd(c, d) = euclid[<<c, d>>]
  BY DEF ExtendedGcd, Euclid, Pairs
<1>2. Solves(euclid)
  BY EuclidExists
<1>3. <<a, b>> \in Pairs
  BY DEF Pairs
<1> HIDE DEF euclid
<1>4. euclid[<<a, b>>] = Euclid(euclid, <<a, b>>)
  BY <1>2, <1>3
<1> QED BY <1>1, <1>4 DEF Euclid

\* The greatest common divisor is the sum of the numbers times their factors.
LEMMA Bezout ==
  ASSUME NEW a \in Nat, NEW b \in Nat
  PROVE  LET g == ExtendedGcd(a, b)
         IN  g.gcd \in Nat /\ g.x \in Int /\ g.y \in Int /\ g.gcd = a * g.x + b * g.y
<1> DEFINE Holds(c, d) == LET g == ExtendedGcd(c, d)
                          IN  g.gcd \in Nat /\ g.x \in Int /\ g.y \in Int
                              /\ g.gcd = c * g.x + d * g.y
           Bad == {n \in Nat : \E c \in Nat : ~Holds(c, n)}
<1>1. ASSUME NEW c \in Nat, NEW n \in Nat, \A m \in 0 .. n - 1 : Holds(n, m)
      PROVE  Holds(c, n)
  <2>1. CASE n = 0
    <3>1. ExtendedGcd(c, n) = [gcd |-> c, x |-> 1, y |-> 0]
      BY <2>1, EuclidStep
    <3> QED BY <2>1, <3>1
  <2>2. CASE n # 0
    <3> DEFINE rest == ExtendedGcd(n, c % n)
               k == c \div n
               m == c % n
               g == ExtendedGcd(c, n)
    <3>1. g = [gcd |-> rest.gcd, x |-> rest.y, y |-> rest.x - k * rest.y]
      BY <2>2, EuclidStep
    <3>2. c = k * n + m /\ k \in Int /\ m \in 0 .. n - 1
      <4>1. n \in Nat \ {0} /\ c \in Int
        BY <2>2
      <4> QED BY <4>1, DivMod
    <3>3. /\ rest.gcd \in Nat /\ rest.x \in Int /\ rest.y \in Int
          /\ rest.gcd = n * rest.x + m * rest.y
      <4>1. Holds(n, m)
        BY <1>1, <3>2
      <4> QED BY <4>1
    <3> HIDE DEF rest, k, m
    <3> DEFINE u == rest.x
               v == rest.y
               w == u - k * v
    <3>4. g.gcd = rest.gcd /\ g.x = v /\ g.y = w
      BY <3>1
    <3>5. u \in Int /\ v \in Int /\ rest.gcd = n * u + m * v
      BY <3>3
    <3> HIDE DEF u, v, g
    <3>6. w \in Int /\ n * u + m * v = c * v + n * w
      <4>1. w \in Int /\ n * w = n * u - n * (k * v)
        BY <3>2, <3>5
      <4>2. c * v = (k * n) * v + m * v
        BY <3>2, <3>5
      <4>3. n * (k * v) = (k * n) * v
        BY <3>2, <3>5
      <4> QED BY <3>2, <3>5, <4>1, <4>2, <4>3
    <3> HIDE DEF w
    <3>7. g.gcd \in Nat /\ g.x \in Int /\ g.y \in Int /\ g.gcd = c * g.x + n * g.y
      BY <3>3, <3>4, <3>5, <3>6
    <3> QED BY <3>7 DEF g
  <2> QED BY <2>1, <2>2
<1>2. Bad = {}
  <2> SUFFICES ASSUME Bad # {} PROVE FALSE
    OBVIOUS
  <2>1. PICK n \in Bad : \A m \in Bad : n <= m
    <3>1. Bad \in SUBSET Nat
      OBVIOUS
    <3> HIDE DEF Bad
    <3> QED BY <3>1, Least
  <2>2. PICK c \in Nat : ~Holds(c, n)
    OBVIOUS
  <2>3. \A m \in 0 .. n - 1 : Holds(n, m)
    <3> SUFFICES ASSUME NEW m \in 0 .. n - 1 PROVE Holds(n, m)
      OBVIOUS
    <3>1. n \in Nat /\ m \in Nat /\ ~(n <= m)
      OBVIOUS
    <3>2. m \notin Bad
      BY <2>1, <3>1
    <3> HIDE DEF Holds
    <3> QED BY <3>1, <3>2
  <2> HIDE DEF Holds
  <2> QED BY <1>1, <2>2, <2>3
<1>3. Holds(a, b)
  <2> HIDE DEF Holds
  <2> QED BY <1>2
<1> QED BY <1>3

\* The order of the two numbers does not matter.
LEMMA GcdSymmetric ==
  ASSUME NEW a \in Nat \ {0}, NEW b \in Nat \ {0}
  PROVE  ExtendedGcd(a, b).gcd = ExtendedGcd(b, a).gcd
<1>1. ASSUME NEW c \in Nat \ {0}, NEW d \in Nat \ {0}, c < d
      PROVE  ExtendedGcd(c, d).gcd = ExtendedGcd(d, c).gcd
  <2>1. c % d = c
    BY <1>1
  <2>2. ExtendedGcd(c, d).gcd = ExtendedGcd(d, c % d).gcd
    BY EuclidStep
  <2> QED BY <2>1, <2>2
<1>2. CASE a < b
  BY <1>1, <1>2
<1>3. CASE b < a
  BY <1>1, <1>3
<1>4. CASE a = b
  BY <1>4
<1> QED BY <1>2, <1>3, <1>4

-----------------------------------------------------------------------------
(* Powers of two. *)

\* Twice as many sets with one element more.
LEMMA TwoNext ==
  ASSUME NEW n \in Nat
  PROVE  2 ^ (n + 1) = 2 * 2 ^ n /\ 2 ^ n \in Nat
<1> DEFINE S == 1 .. n
           T == 1 .. n + 1
           old == SUBSET S
           new == {A \cup {n + 1} : A \in old}
           f == [A \in old |-> A \cup {n + 1}]
<1>1. IsFiniteSet(S) /\ Cardinality(S) = n /\ IsFiniteSet(T) /\ Cardinality(T) = n + 1
  <2>1. \A k \in Nat : IsFiniteSet(1 .. k) /\ Cardinality(1 .. k) = k
    BY FS_Interval
  <2> QED BY <2>1
<1>2. IsFiniteSet(old) /\ Cardinality(old) = 2 ^ n /\ Cardinality(SUBSET T) = 2 ^ (n + 1)
  <2> HIDE DEF S, T
  <2> QED BY <1>1, FS_SUBSET
<1>3. SUBSET T = old \cup new
  <2>1. T = S \cup {n + 1}
    OBVIOUS
  <2>2. ASSUME NEW A \in SUBSET T PROVE A \in old \cup new
    <3>1. CASE n + 1 \in A
      <4> DEFINE B == A \ {n + 1}
      <4>1. B \in old /\ A = B \cup {n + 1}
        BY <2>1, <3>1
      <4> HIDE DEF old, B
      <4> QED BY <4>1
    <3>2. CASE n + 1 \notin A
      BY <2>1, <3>2
    <3> QED BY <3>1, <3>2
  <2>3. ASSUME NEW A \in old PROVE A \in SUBSET T /\ A \cup {n + 1} \in SUBSET T
    BY <2>1
  <2>4. old \cup new \subseteq SUBSET T
    <3> HIDE DEF T, old
    <3> QED BY <2>3
  <2>5. SUBSET T \subseteq old \cup new
    <3> HIDE DEF old, new
    <3> QED BY <2>2
  <2> HIDE DEF T, old, new
  <2> QED BY <2>4, <2>5
<1>4. n + 1 \notin S
  OBVIOUS
<1>5. old \cap new = {}
  BY <1>4
<1>6. f \in Bijection(old, new)
  <2> HIDE DEF S
  <2>1. f \in [old -> new] /\ \A y \in new : \E A \in old : f[A] = y
    OBVIOUS
  <2>2. \A A, B \in old : f[A] = f[B] => A = B
    <3> SUFFICES ASSUME NEW A \in old, NEW B \in old, A \cup {n + 1} = B \cup {n + 1}
                 PROVE  A = B
      OBVIOUS
    <3> QED BY <1>4
  <2> HIDE DEF old, new, f
  <2> QED BY <2>1, <2>2 DEF Bijection, Injection, Surjection, IsInjective
<1> HIDE DEF S, T, old, new, f
<1>7. IsFiniteSet(new) /\ Cardinality(new) = Cardinality(old)
  BY <1>2, <1>6, FS_Bijection DEF ExistsBijection
<1>8. Cardinality(old) \in Nat
  BY <1>2, FS_CardinalityType
<1>9. Cardinality(old \cup new) = Cardinality(old) + Cardinality(new)
  <2>1. Cardinality(old \cup new) = Cardinality(old) + Cardinality(new) - Cardinality(old \cap new)
    BY <1>2, <1>7, FS_Union
  <2>2. Cardinality(old \cap new) = 0
    BY <1>5, FS_EmptySet
  <2> QED BY <1>7, <1>8, <2>1, <2>2
<1> DEFINE c == Cardinality(old)
<1>10. c = 2 ^ n /\ c \in Nat /\ 2 ^ (n + 1) = c + c
  BY <1>2, <1>3, <1>7, <1>8, <1>9
<1> HIDE DEF c
<1>11. c + c = 2 * c
  BY <1>10
<1> QED BY <1>10, <1>11

\* Two to the power of zero.
LEMMA TwoZero ==
  2 ^ 0 = 1
<1>1. IsFiniteSet({}) /\ Cardinality({}) = 0
  BY FS_EmptySet
<1>2. Cardinality(SUBSET {}) = 2 ^ 0
  BY <1>1, FS_SUBSET
<1>3. SUBSET {} = {{}}
  OBVIOUS
<1>4. Cardinality({{}}) = 1
  BY FS_Singleton
<1> QED BY <1>2, <1>3, <1>4

\* So 2 ^ n is the nth power of two.
LEMMA TwoPower ==
  ASSUME NEW n \in Nat
  PROVE  2 ^ n = Power(2, n)
<1> DEFINE S == {k \in Nat : 2 ^ k = Power(2, k)}
<1>1. 0 \in S
  BY TwoZero, PowerStep
<1>2. ASSUME NEW k \in Nat, k \in S PROVE k + 1 \in S
  <2>1. Power(2, k + 1) = Power(2, k) * 2 /\ Power(2, k) \in Int
    BY PowerStep
  <2> QED BY <1>2, <2>1, TwoNext
<1> HIDE DEF S
<1>3. n \in S
  BY <1>1, <1>2, Induct
<1> QED BY <1>3 DEF S

\* Powers of two multiply, and are above their exponents.
LEMMA TwoPlus ==
  ASSUME NEW m \in Nat, NEW n \in Nat
  PROVE  /\ 2 ^ (m + n) = 2 ^ m * 2 ^ n
         /\ 2 ^ n \in Nat \ {0} /\ n < 2 ^ n
<1>1. 2 ^ (m + n) = 2 ^ m * 2 ^ n
  <2>1. 2 ^ (m + n) = Power(2, m + n)
    <3> DEFINE k == m + n
    <3>1. k \in Nat
      OBVIOUS
    <3> HIDE DEF k
    <3>2. 2 ^ k = Power(2, k)
      BY <3>1, TwoPower
    <3> QED BY <3>2 DEF k
  <2>2. Power(2, m + n) = Power(2, m) * Power(2, n)
    BY PowerPlus
  <2>3. 2 ^ m = Power(2, m) /\ 2 ^ n = Power(2, n)
    BY TwoPower
  <2> QED BY <2>1, <2>2, <2>3
<1> DEFINE S == {k \in Nat : k < 2 ^ k}
<1>2. 0 \in S
  BY TwoZero
<1>3. ASSUME NEW k \in Nat, k \in S PROVE k + 1 \in S
  BY <1>3, TwoNext
<1> HIDE DEF S
<1>4. n \in S
  BY <1>2, <1>3, Induct
<1>5. 2 ^ n \in Nat
  BY TwoNext
<1> QED BY <1>1, <1>4, <1>5 DEF S

\* They grow with their exponents.
LEMMA TwoMonotone ==
  ASSUME NEW m \in Nat, NEW n \in Nat, m <= n
  PROVE  2 ^ m <= 2 ^ n
<1> DEFINE k == n - m
<1>1. k \in Nat /\ n = m + k
  OBVIOUS
<1> HIDE DEF k
<1> DEFINE x == 2 ^ m
           y == 2 ^ k
<1>2. 2 ^ n = x * y /\ x \in Nat \ {0} /\ y \in Nat \ {0}
  BY <1>1, TwoPlus
<1> HIDE DEF x, y
<1>3. x * y >= x
  BY <1>2
<1> QED BY <1>2, <1>3 DEF x

\* The width of a number is the one between whose powers of two it lies.
LEMMA BitsIs ==
  ASSUME NEW n \in Nat, NEW b \in Nat, n < 2 ^ b, b > 0 => n >= 2 ^ (b - 1)
  PROVE  Bits(n) = b
<1> DEFINE Width(c) == n < 2 ^ c /\ (c > 0 => n >= 2 ^ (c - 1))
<1>1. b \in 0 .. n
  <2>1. CASE b = 0
    BY <2>1
  <2>2. CASE b # 0
    <3>1. b - 1 \in Nat /\ n >= 2 ^ (b - 1)
      BY <2>2
    <3>2. b - 1 < 2 ^ (b - 1) /\ 2 ^ (b - 1) \in Nat
      BY <3>1, TwoPlus
    <3> QED BY <3>1, <3>2
  <2> QED BY <2>1, <2>2
<1>2. ASSUME NEW c \in Nat, NEW d \in Nat, c < d, Width(c), Width(d) PROVE FALSE
  <2>1. d - 1 \in Nat /\ c <= d - 1 /\ n >= 2 ^ (d - 1) /\ n < 2 ^ c
    BY <1>2
  <2>2. 2 ^ c <= 2 ^ (d - 1) /\ 2 ^ c \in Nat /\ 2 ^ (d - 1) \in Nat
    BY <2>1, TwoMonotone, TwoPlus
  <2> QED BY <2>1, <2>2
<1>3. Width(b)
  OBVIOUS
<1>4. \A c \in 0 .. n : Width(c) => c = b
  <2> SUFFICES ASSUME NEW c \in 0 .. n, Width(c), c # b PROVE FALSE
    OBVIOUS
  <2>1. c \in Nat /\ (c < b \/ b < c)
    OBVIOUS
  <2> HIDE DEF Width
  <2> QED BY <1>2, <1>3, <2>1
<1>5. Bits(n) = CHOOSE c \in 0 .. n : Width(c)
  BY DEF Bits
<1> HIDE DEF Width
<1> QED BY <1>1, <1>3, <1>4, <1>5

\* Every number has a width.
LEMMA BitsExist ==
  ASSUME NEW n \in Nat
  PROVE  /\ Bits(n) \in Nat
         /\ n < 2 ^ Bits(n)
         /\ n > 0 => Bits(n) > 0
         /\ Bits(n) > 0 => n >= 2 ^ (Bits(n) - 1)
<1> DEFINE S == {b \in Nat : n < 2 ^ b}
<1>1. PICK b \in S : \A c \in S : b <= c
  <2>1. n \in S /\ S \in SUBSET Nat
    BY TwoPlus
  <2> HIDE DEF S
  <2> QED BY <2>1, Least
<1>2. b \in Nat /\ n < 2 ^ b
  OBVIOUS
<1>3. b > 0 => n >= 2 ^ (b - 1)
  <2> SUFFICES ASSUME b > 0, ~(n >= 2 ^ (b - 1)) PROVE FALSE
    OBVIOUS
  <2>1. b - 1 \in Nat
    BY <1>2
  <2>2. 2 ^ (b - 1) \in Nat
    BY <2>1, TwoPlus
  <2>3. b - 1 \in S
    BY <2>1, <2>2
  <2> QED BY <1>1, <1>2, <2>3
<1>4. Bits(n) = b
  BY <1>2, <1>3, BitsIs
<1>5. n > 0 => b > 0
  <2>1. CASE b = 0
    <3>1. n < 1
      BY <1>2, <2>1, TwoZero
    <3> QED BY <3>1
  <2>2. CASE b # 0
    BY <1>2, <2>2
  <2> QED BY <2>1, <2>2
<1> QED BY <1>2, <1>3, <1>4, <1>5

\* Every number above zero is a power of two times an odd number.
LEMMA OddTimesPower ==
  ASSUME NEW n \in Nat \ {0}
  PROVE  LET z == TrailingZeros(n)
             c == n \div 2 ^ z
         IN  z \in Nat /\ c \in Nat /\ c % 2 = 1 /\ n = c * 2 ^ z
<1> DEFINE S == {z \in Nat : n % 2 ^ (z + 1) # 0}
           Fits(z) == n % 2 ^ z = 0 /\ (n \div 2 ^ z) % 2 = 1
<1>1. n \in S
  <2>1. n + 1 \in Nat /\ n + 1 < 2 ^ (n + 1) /\ 2 ^ (n + 1) \in Nat
    BY TwoPlus
  <2> DEFINE w == 2 ^ (n + 1)
  <2>2. w \in Nat /\ n < w
    BY <2>1
  <2> HIDE DEF w
  <2>3. n % w = n
    BY <2>2
  <2> QED BY <2>3 DEF w
<1>2. PICK z \in S : \A c \in S : z <= c
  <2>1. S \in SUBSET Nat
    OBVIOUS
  <2> HIDE DEF S
  <2> QED BY <1>1, <2>1, Least
<1>3. z \in Nat /\ z <= n /\ n % 2 ^ (z + 1) # 0
  BY <1>1, <1>2
<1>4. n % 2 ^ z = 0
  <2>1. CASE z = 0
    <3>1. 2 ^ z = 1
      BY <2>1, TwoZero
    <3>2. n % 1 = 0
      OBVIOUS
    <3> QED BY <3>1, <3>2
  <2>2. CASE z # 0
    <3>1. z - 1 \in Nat /\ (z - 1) + 1 = z /\ ~(z <= z - 1)
      BY <1>3, <2>2
    <3>2. z - 1 \notin S
      <4> HIDE DEF S
      <4> QED BY <1>2, <3>1
    <3> QED BY <3>1, <3>2
  <2> QED BY <2>1, <2>2
<1> HIDE DEF S
<1>5. ASSUME NEW y \in Nat, n % 2 ^ y = 0
      PROVE  n \div 2 ^ y \in Nat /\ n = (n \div 2 ^ y) * 2 ^ y
  <2> DEFINE w == 2 ^ y
  <2>1. w \in Nat \ {0} /\ n \in Int /\ n % w = 0
    BY <1>5, TwoPlus
  <2> HIDE DEF w
  <2>2. n = (n \div w) * w + (n % w) /\ n \div w \in Nat
    BY <2>1, DivMod
  <2>3. n = (n \div w) * w
    BY <2>1, <2>2
  <2> QED BY <2>2, <2>3 DEF w
<1>6. Fits(z)
  <2> DEFINE w == 2 ^ z
             c == n \div w
  <2>1. w \in Nat \ {0} /\ c \in Nat /\ n = c * w /\ 2 ^ (z + 1) = 2 * w
    BY <1>3, <1>4, <1>5, TwoPlus, TwoNext
  <2> HIDE DEF w, c
  <2>2. c % 2 = 1
    <3> SUFFICES ASSUME c % 2 # 1 PROVE FALSE
      OBVIOUS
    <3> DEFINE k == c \div 2
               v == 2 * w
    <3>1. c = k * 2 /\ k \in Nat
      BY <2>1
    <3> HIDE DEF k
    <3>2. n = k * v + 0 /\ v \in Nat \ {0}
      BY <2>1, <3>1
    <3> HIDE DEF v
    <3>3. 0 \in 0 .. v - 1
      BY <3>2
    <3>4. n % v = 0
      BY <3>1, <3>2, <3>3, ModIs
    <3> QED BY <1>3, <2>1, <3>4 DEF v
  <2> QED BY <1>4, <2>2 DEF w, c
<1> DEFINE t == TrailingZeros(n)
<1>7. t \in 0 .. n /\ Fits(t)
  <2>1. z \in 0 .. n
    BY <1>3
  <2>2. t = CHOOSE y \in 0 .. n : Fits(y)
    BY DEF TrailingZeros
  <2> HIDE DEF Fits, t
  <2> QED BY <1>6, <2>1, <2>2
<1> HIDE DEF t
<1>8. t \in Nat /\ n % 2 ^ t = 0
  BY <1>7
<1> QED BY <1>5, <1>7, <1>8 DEF t

-----------------------------------------------------------------------------
(* Powers modulo a product of two primes. *)

\* The multiples of n are those congruent to zero.
LEMMA Multiple ==
  ASSUME NEW a \in Int, NEW n \in Nat \ {0}
  PROVE  Same(a, 0, n) <=> \E k \in Int : a = k * n
<1> DEFINE zero == 0
<1>1. zero \in Int /\ \A k \in Int : zero + k * n = k * n
  OBVIOUS
<1> HIDE DEF zero
<1>2. Same(a, zero, n) <=> \E k \in Int : a = zero + k * n
  BY <1>1, SameBy
<1>3. Same(a, zero, n) <=> \E k \in Int : a = k * n
  BY <1>1, <1>2
<1> QED BY <1>3 DEF zero

\* What is congruent modulo a prime and a number it does not divide is congruent
\* modulo their product.
LEMMA SameCombine ==
  ASSUME NEW p \in Nat, Prime(p), NEW c \in Nat \ {0}, ~Same(c, 0, p),
         NEW a \in Int, NEW b \in Int, Same(a, b, p), Same(a, b, c)
  PROVE  Same(a, b, p * c)
<1>0. p \in Nat \ {0}
  BY DEF Prime
<1>1. PICK i \in Int : a = b + i * c
  BY SameBy
<1>2. Same(i * c, 0, p)
  <2> DEFINE d == a - b
  <2>1. Same(d, 0, p)
    BY <1>0, SameDifference
  <2>2. d = i * c
    BY <1>1
  <2> HIDE DEF d
  <2> QED BY <2>1, <2>2
<1>3. Same(i, 0, p)
  BY <1>2, PrimeDivides
<1>4. PICK j \in Int : i = j * p
  BY <1>0, <1>3, Multiple
<1> DEFINE n == p * c
<1>5. n \in Nat \ {0} /\ i * c = j * n
  BY <1>0, <1>4
<1> HIDE DEF n
<1>6. a = b + j * n
  BY <1>1, <1>5
<1>7. Same(a, b, n)
  BY <1>5, <1>6, SameBy
<1> QED BY <1>7 DEF n

\* A prime is a multiple of no other.
LEMMA OtherPrime ==
  ASSUME NEW p \in Nat, Prime(p), NEW q \in Nat, Prime(q), p # q
  PROVE  ~Same(q, 0, p)
<1> SUFFICES ASSUME Same(q, 0, p) PROVE FALSE
  OBVIOUS
<1>0. p \in Nat \ {0} /\ p > 1 /\ q > 1
  BY DEF Prime
<1>1. PICK k \in Int : q = k * p
  BY <1>0, Multiple
<1>2. k \in Nat
  <2> SUFFICES ASSUME k < 0 PROVE FALSE
    OBVIOUS
  <2>1. (-k) * p > 0 /\ k * p = -((-k) * p)
    BY <1>0
  <2>2. (-k) * p \in Int
    BY <1>0
  <2> QED BY <1>0, <1>1, <2>1, <2>2
<1>3. q = p * k
  BY <1>0, <1>1
<1> QED BY <1>0, <1>2, <1>3, PrimeFactors

\* Modulo a prime p, a multiple of p - 1 in an exponent does not count beside one.
LEMMA FermatPower ==
  ASSUME NEW p \in Nat, Prime(p), NEW x \in Int, NEW k \in Nat
  PROVE  Same(Power(x, (p - 1) * k + 1), x, p)
<1> DEFINE f == p - 1
           m == f * k
           y == Power(x, m)
<1>0. p \in Nat \ {0} /\ f \in Nat
  BY DEF Prime
<1>1. m \in Nat
  <2> HIDE DEF f
  <2> QED BY <1>0
<1>2. y \in Int /\ Power(x, m + 1) = y * x
  <2> HIDE DEF m
  <2> QED BY <1>1, PowerStep
<1>3. CASE Same(x, 0, p)
  <2>1. Same(y, y, p)
    BY <1>0, SameEquivalence
  <2>2. Same(y * x, y * 0, p)
    <3> HIDE DEF y
    <3> QED BY <1>0, <1>2, <1>3, <2>1, SameTimes
  <2>3. y * 0 = 0
    <3> HIDE DEF y
    <3> QED BY <1>2
  <2>4. Same(y * x, x, p)
    <3> HIDE DEF y
    <3> QED BY <1>0, <1>3, <2>2, <2>3, SameEquivalence
  <2> QED BY <1>2, <2>4
<1>4. CASE ~Same(x, 0, p)
  <2> DEFINE z == Power(x, f)
  <2>1. z \in Int /\ Same(z, 1, p)
    BY <1>0, <1>4, Fermat, PowerStep
  <2>2. y = Power(z, k)
    <3> HIDE DEF f
    <3> QED BY <1>0, PowerTimes
  <2> HIDE DEF z, y
  <2>3. Same(y, 1, p)
    <3>1. Same(Power(z, k), Power(1, k), p)
      <4> DEFINE one == 1
      <4>1. one \in Int /\ Same(z, one, p)
        BY <2>1
      <4> HIDE DEF one
      <4>2. Same(Power(z, k), Power(one, k), p)
        BY <1>0, <2>1, <4>1, PowerSame
      <4> QED BY <4>2 DEF one
    <3> QED BY <2>2, <3>1, PowerOne
  <2>4. Same(y * x, 1 * x, p)
    <3>1. Same(x, x, p) /\ 1 \in Int
      BY <1>0, SameEquivalence
    <3> QED BY <1>0, <1>2, <2>3, <3>1, SameTimes
  <2>5. 1 * x = x
    OBVIOUS
  <2> QED BY <1>2, <2>4, <2>5 DEF y
<1> QED BY <1>3, <1>4

\* The theorem of Rivest, Shamir and Adleman.
THEOREM RSA ==
  ASSUME NEW p \in Nat, Prime(p), NEW q \in Nat, Prime(q), p # q,
         NEW x \in Int, NEW k \in Nat
  PROVE  Same(Power(x, k * ((p - 1) * (q - 1)) + 1), x, p * q)
<1> DEFINE f == p - 1
           g == q - 1
           m == k * (f * g)
<1>0. f \in Nat /\ g \in Nat
  BY DEF Prime
<1>1. m \in Nat /\ m = f * (g * k) /\ m = g * (f * k) /\ g * k \in Nat /\ f * k \in Nat
  <2> HIDE DEF f, g
  <2> QED BY <1>0
<1>2. Power(x, m + 1) \in Int
  <2> HIDE DEF m
  <2>1. m + 1 \in Nat
    BY <1>1
  <2> QED BY <2>1, PowerStep
<1>3. Same(Power(x, m + 1), x, p)
  <2> DEFINE j == g * k
  <2>1. j \in Nat /\ m = f * j
    BY <1>1
  <2> HIDE DEF j, m
  <2> QED BY <2>1, FermatPower
<1>4. Same(Power(x, m + 1), x, q)
  <2> DEFINE j == f * k
  <2>1. j \in Nat /\ m = g * j
    BY <1>1
  <2> HIDE DEF j, m
  <2> QED BY <2>1, FermatPower
<1> HIDE DEF m
<1>5. Same(Power(x, m + 1), x, p * q)
  <2>1. q \in Nat \ {0}
    BY DEF Prime
  <2>2. ~Same(q, 0, p)
    BY OtherPrime
  <2> QED BY <1>2, <1>3, <1>4, <2>1, <2>2, SameCombine
<1> QED BY <1>5 DEF m

\* The exponents undo one another modulo n.
Undo(e, d, n) == \A x \in Int : Same(Power(x, e * d), x, n)

\* Then the dth power is the only eth root.
LEMMA OnlyRoot ==
  ASSUME NEW n \in Nat \ {0}, NEW e \in Nat, NEW d \in Nat, Undo(e, d, n),
         NEW h \in 0 .. n - 1, NEW s \in Nat
  PROVE  s < n /\ ModPow(s, e, n) = h <=> s = ModPow(h, d, n)
<1> DEFINE m == e * d
<1>0. n \in Nat \ {0} /\ m \in Nat /\ h \in Int /\ s \in Int
  OBVIOUS
<1>1. \A x \in Int : Same(Power(x, m), x, n)
  BY DEF Undo
<1>2. h \in 0 .. n - 1
  OBVIOUS
<1>3. m = e * d /\ m = d * e
  OBVIOUS
<1> HIDE DEF m
<1>4. \A x \in Int : Power(x, m) = Power(Power(x, e), d) /\ Power(x, m) = Power(Power(x, d), e)
  <2> SUFFICES ASSUME NEW x \in Int
               PROVE  Power(x, m) = Power(Power(x, e), d) /\ Power(x, m) = Power(Power(x, d), e)
    OBVIOUS
  <2>1. Power(x, e * d) = Power(Power(x, e), d)
    BY PowerTimes
  <2>2. Power(x, d * e) = Power(Power(x, d), e)
    BY PowerTimes
  <2> QED BY <1>3, <2>1, <2>2
<1>5. \A x \in Int, j \in Nat : /\ Power(x, j) \in Int /\ ModPow(x, j, n) = Power(x, j) % n
                                /\ Power(x, j) % n \in 0 .. n - 1
                                /\ Same(Power(x, j) % n, Power(x, j), n)
  <2> SUFFICES ASSUME NEW x \in Int, NEW j \in Nat
               PROVE  /\ Power(x, j) \in Int /\ ModPow(x, j, n) = Power(x, j) % n
                      /\ Power(x, j) % n \in 0 .. n - 1
                      /\ Same(Power(x, j) % n, Power(x, j), n)
    OBVIOUS
  <2> DEFINE y == Power(x, j)
  <2>1. y \in Int
    BY PowerStep
  <2> HIDE DEF y
  <2>2. y % n \in 0 .. n - 1 /\ Same(y % n, y, n)
    BY <1>0, <2>1, SameMod
  <2>3. ModPow(x, j, n) = y % n
    BY <1>0, ModPowIs DEF y
  <2> QED BY <2>1, <2>2, <2>3 DEF y
<1>6. ASSUME s < n, ModPow(s, e, n) = h PROVE s = ModPow(h, d, n)
  <2> DEFINE y == Power(s, e)
  <2>1. y \in Int /\ h = y % n /\ Same(h, y, n)
    BY <1>0, <1>5, <1>6
  <2>2. Same(Power(y, d), s, n)
    BY <1>0, <1>1, <1>4
  <2> HIDE DEF y
  <2>3. Same(Power(h, d), Power(y, d), n)
    BY <1>0, <2>1, PowerSame
  <2>4. Same(s, Power(h, d), n)
    BY <1>0, <2>2, <2>3, SameEquivalence
  <2> DEFINE z == Power(h, d)
  <2>5. z \in Int /\ Same(s, z, n) /\ ModPow(h, d, n) = z % n
    BY <1>0, <1>5, <2>4
  <2> HIDE DEF z
  <2>6. s \in 0 .. n - 1
    BY <1>0, <1>6
  <2> QED BY <1>0, <2>5, <2>6, SameMod
<1>7. ASSUME s = ModPow(h, d, n) PROVE s < n /\ ModPow(s, e, n) = h
  <2> DEFINE z == Power(h, d)
  <2>1. z \in Int /\ s \in 0 .. n - 1 /\ Same(s, z, n)
    BY <1>0, <1>5, <1>7
  <2>2. Same(Power(z, e), h, n)
    BY <1>0, <1>1, <1>4
  <2> HIDE DEF z
  <2>3. Same(Power(s, e), Power(z, e), n)
    BY <1>0, <2>1, PowerSame
  <2> DEFINE y == Power(s, e)
  <2>4. y \in Int /\ ModPow(s, e, n) = y % n
    BY <1>0, <1>5
  <2>5. Same(h, y, n)
    BY <1>0, <2>2, <2>3, SameEquivalence
  <2> HIDE DEF y
  <2>6. h = y % n
    BY <1>0, <1>2, <2>4, <2>5, SameMod
  <2> QED BY <1>0, <2>1, <2>4, <2>6
<1>8. s < n /\ ModPow(s, e, n) = h <=> s = ModPow(h, d, n)
  BY <1>6, <1>7
<1> QED BY <1>8

-----------------------------------------------------------------------------
(* Units, and how many numbers there are for each in a set they move apart. *)

\* The powers of a product.
LEMMA PowerProduct ==
  ASSUME NEW a \in Int, NEW b \in Int, NEW k \in Nat
  PROVE  Power(a * b, k) = Power(a, k) * Power(b, k)
<1> DEFINE c == a * b
           S == {i \in Nat : Power(c, i) = Power(a, i) * Power(b, i)}
<1>0. c \in Int
  OBVIOUS
<1>1. 0 \in S
  <2> HIDE DEF c
  <2> QED BY <1>0, PowerStep
<1>2. ASSUME NEW i \in Nat, i \in S PROVE i + 1 \in S
  <2> DEFINE x == Power(a, i)
             y == Power(b, i)
  <2>1. x \in Int /\ y \in Int /\ Power(a, i + 1) = x * a /\ Power(b, i + 1) = y * b
    BY PowerStep
  <2>2. Power(c, i + 1) = (x * y) * c
    <3> HIDE DEF c
    <3>1. Power(c, i + 1) = Power(c, i) * c
      BY <1>0, PowerStep
    <3> QED BY <1>2, <3>1
  <2> HIDE DEF x, y
  <2>3. (x * y) * (a * b) = (x * a) * (y * b)
    BY <2>1
  <2> QED BY <2>1, <2>2, <2>3
<1> HIDE DEF S
<1>3. k \in S
  BY <1>1, <1>2, Induct
<1> QED BY <1>3 DEF S

\* A number with a power that is one modulo n.
IsUnit(g, n) == g \in Int /\ \E k \in Nat \ {0} : Same(Power(g, k), 1, n)

\* Units cancel.
LEMMA UnitCancels ==
  ASSUME NEW n \in Nat \ {0}, NEW g, IsUnit(g, n), NEW x \in Int, NEW y \in Int,
         Same(g * x, g * y, n)
  PROVE  Same(x, y, n)
<1>1. PICK k \in Nat \ {0} : Same(Power(g, k), 1, n)
  BY DEF IsUnit
<1> DEFINE j == k - 1
           v == Power(g, j)
           gx == g * x
           gy == g * y
<1>2. g \in Int /\ j \in Nat /\ k = j + 1
  BY DEF IsUnit
<1> HIDE DEF j
<1>3. v \in Int /\ Power(g, k) = v * g
  BY <1>2, PowerStep
<1> HIDE DEF v
<1>4. gx \in Int /\ gy \in Int
  BY <1>2
<1>5. v * gx = (v * g) * x /\ v * gy = (v * g) * y
  BY <1>2, <1>3
<1> HIDE DEF gx, gy
<1>6. Same(v * gx, v * gy, n)
  <2>1. Same(v, v, n) /\ Same(gx, gy, n)
    BY SameEquivalence DEF gx, gy
  <2> QED BY <1>3, <1>4, <2>1, SameTimes
<1> DEFINE u == v * g
<1>7. u \in Int /\ Same(u, 1, n) /\ Same(u * x, u * y, n)
  BY <1>1, <1>2, <1>3, <1>5, <1>6
<1> HIDE DEF u
<1>8. ASSUME NEW z \in Int PROVE Same(u * z, z, n)
  <2> DEFINE one == 1
  <2>1. one \in Int /\ Same(u, one, n) /\ Same(z, z, n) /\ one * z = z
    BY <1>7, SameEquivalence
  <2> HIDE DEF one
  <2>2. Same(u * z, one * z, n)
    BY <1>7, <2>1, SameTimes
  <2> QED BY <2>1, <2>2
<1> QED BY <1>7, <1>8, SameEquivalence

\* The product of units is one.
LEMMA UnitTimes ==
  ASSUME NEW n \in Nat \ {0}, NEW g, IsUnit(g, n), NEW h, IsUnit(h, n)
  PROVE  IsUnit(g * h, n)
<1>1. PICK j \in Nat \ {0} : Same(Power(g, j), 1, n)
  BY DEF IsUnit
<1>2. PICK k \in Nat \ {0} : Same(Power(h, k), 1, n)
  BY DEF IsUnit
<1>3. g \in Int /\ h \in Int /\ g * h \in Int
  BY DEF IsUnit
<1> DEFINE m == j * k
<1>4. m \in Nat \ {0} /\ m = k * j
  OBVIOUS
<1>5. ASSUME NEW x \in Int, NEW i \in Nat, NEW l \in Nat, Same(Power(x, i), 1, n)
      PROVE  Same(Power(x, i * l), 1, n)
  <2> DEFINE y == Power(x, i)
             one == 1
  <2>1. y \in Int /\ Power(x, i * l) = Power(y, l)
    BY PowerStep, PowerTimes
  <2>2. one \in Int /\ Same(y, one, n) /\ Power(one, l) = 1
    BY <1>5, PowerOne
  <2> HIDE DEF y, one
  <2>3. Same(Power(y, l), Power(one, l), n)
    BY <2>1, <2>2, PowerSame
  <2> QED BY <2>1, <2>2, <2>3
<1>6. Same(Power(g, j * k), 1, n)
  BY <1>1, <1>3, <1>5
<1>7. Same(Power(h, k * j), 1, n)
  BY <1>2, <1>3, <1>5
<1> HIDE DEF m
<1> DEFINE x == Power(g, m)
           y == Power(h, m)
           one == 1
<1>8. x \in Int /\ y \in Int /\ one \in Int /\ Same(x, one, n) /\ Same(y, one, n)
      /\ one * one = 1 /\ Power(g * h, m) = x * y
  BY <1>3, <1>4, <1>6, <1>7, PowerStep, PowerProduct DEF m
<1> HIDE DEF x, y, one
<1>9. Same(x * y, one * one, n)
  BY <1>8, SameTimes
<1> QED BY <1>3, <1>4, <1>8, <1>9 DEF IsUnit

\* The numbers of S times g.
Moved(S, g, n) == {(g * x) % n : x \in S}

\* A set that a unit moves apart from itself takes twice its room.
LEMMA Twice ==
  ASSUME NEW n \in Nat \ {0}, NEW S \in SUBSET (1 .. n - 1), NEW g, IsUnit(g, n),
         \A x, y \in S : ~Same(x, g * y, n)
  PROVE  /\ S \cup Moved(S, g, n) \in SUBSET (1 .. n - 1)
         /\ IsFiniteSet(S) /\ IsFiniteSet(S \cup Moved(S, g, n))
         /\ Cardinality(S \cup Moved(S, g, n)) = 2 * Cardinality(S)
<1> DEFINE M == Moved(S, g, n)
           f == [x \in S |-> (g * x) % n]
           N == 1 .. n - 1
<1>0. g \in Int /\ \A x \in S : x \in N /\ x \in Int
  BY DEF IsUnit
<1>1. ASSUME NEW x \in S
      PROVE  g * x \in Int /\ f[x] \in N /\ Same(f[x], g * x, n)
  <2> DEFINE y == g * x
  <2>1. y \in Int /\ x \in Int /\ x \in N
    BY <1>0
  <2>2. ~Same(y, 0, n)
    <3> SUFFICES ASSUME Same(y, 0, n) PROVE FALSE
      OBVIOUS
    <3> DEFINE zero == 0
    <3>1. zero \in Int /\ g * zero = 0
      BY <1>0
    <3>2. Same(g * x, g * zero, n)
      BY <3>1
    <3> HIDE DEF zero
    <3>3. Same(x, zero, n)
      BY <2>1, <3>1, <3>2, UnitCancels
    <3>4. x % n = x /\ 0 % n = 0
      BY <2>1
    <3> QED BY <2>1, <3>3, <3>4 DEF Same, zero
  <2> HIDE DEF y
  <2>3. y % n \in 0 .. n - 1 /\ Same(y % n, y, n)
    BY <2>1, SameMod
  <2>4. y % n # 0
    <3> DEFINE r == y % n
    <3> HIDE DEF r
    <3>1. r = 0 => Same(y, 0, n)
      BY <2>3, SameEquivalence DEF r
    <3> QED BY <2>2, <3>1 DEF r
  <2>5. y % n \in N
    BY <2>3, <2>4
  <2> QED BY <2>1, <2>3, <2>5 DEF y
<1>2. M \in SUBSET N
  BY <1>1 DEF Moved
<1>3. IsFiniteSet(N)
  <2> DEFINE k == n - 1
             one == 1
  <2>1. k \in Int /\ one \in Int
    OBVIOUS
  <2> HIDE DEF k, one
  <2>2. IsFiniteSet(one .. k)
    BY <2>1, FS_Interval
  <2> QED BY <2>2 DEF one, k
<1>4. IsFiniteSet(S) /\ IsFiniteSet(M) /\ IsFiniteSet(S \cup M)
  <2>1. S \cup M \in SUBSET N
    BY <1>2
  <2> HIDE DEF N, M
  <2> QED BY <1>2, <1>3, <2>1, FS_Subset
<1>5. f \in Bijection(S, M)
  <2>1. f \in [S -> M]
    BY DEF Moved
  <2>2. \A x, y \in S : f[x] = f[y] => x = y
    <3> SUFFICES ASSUME NEW x \in S, NEW y \in S, f[x] = f[y] PROVE x = y
      OBVIOUS
    <3>1. Same(f[x], g * x, n) /\ Same(f[y], g * y, n)
      <4> HIDE DEF f
      <4> QED BY <1>1
    <3> HIDE DEF f
    <3>2. Same(g * x, g * y, n)
      BY <3>1, SameEquivalence
    <3>3. Same(x, y, n) /\ x \in N /\ y \in N
      BY <1>0, <3>2, UnitCancels
    <3>4. x % n = x /\ y % n = y
      BY <3>3
    <3> QED BY <3>3, <3>4 DEF Same
  <2>3. \A y \in M : \E x \in S : f[x] = y
    BY DEF Moved
  <2> HIDE DEF M, f
  <2> QED BY <2>1, <2>2, <2>3 DEF Bijection, Injection, Surjection, IsInjective
<1>6. Cardinality(M) = Cardinality(S)
  <2> HIDE DEF M, f
  <2> QED BY <1>4, <1>5, FS_Bijection DEF ExistsBijection
<1>7. S \cap M = {}
  <2> SUFFICES ASSUME NEW x \in S, x \in M PROVE FALSE
    OBVIOUS
  <2>1. PICK y \in S : x = f[y]
    BY DEF Moved
  <2>2. Same(x, g * y, n)
    <3> HIDE DEF f
    <3> QED BY <1>1, <2>1
  <2> QED BY <2>2
<1> HIDE DEF M
<1>8. Cardinality(S \cup M) = Cardinality(S) + Cardinality(M) - Cardinality(S \cap M)
  BY <1>4, FS_Union
<1>9. Cardinality(S \cap M) = 0 /\ Cardinality(S) \in Nat
  BY <1>4, <1>7, FS_EmptySet, FS_CardinalityType
<1>10. Cardinality(S \cup M) = 2 * Cardinality(S)
  <2> DEFINE c == Cardinality(S)
  <2>1. c \in Nat /\ Cardinality(S \cup M) = c + c - 0
    BY <1>6, <1>8, <1>9
  <2> HIDE DEF c
  <2>2. c + c - 0 = 2 * c
    BY <2>1
  <2> QED BY <2>1, <2>2 DEF c
<1>11. S \cup M \in SUBSET N
  BY <1>2
<1> QED BY <1>4, <1>10, <1>11 DEF M

\* A set that two units move apart, in all ways, takes four times its room.
LEMMA FourTimes ==
  ASSUME NEW n \in Nat \ {0}, NEW L \in SUBSET (1 .. n - 1),
         NEW g, IsUnit(g, n), NEW h, IsUnit(h, n),
         \A x, y \in L : /\ ~Same(x, g * y, n) /\ ~Same(x, h * y, n)
                         /\ ~Same(x, h * (g * y), n) /\ ~Same(g * x, h * y, n)
  PROVE  4 * Cardinality(L) <= n - 1
<1> DEFINE N == 1 .. n - 1
           T == L \cup Moved(L, g, n)
           U == T \cup Moved(T, h, n)
<1>0. g \in Int /\ h \in Int /\ \A x \in L : x \in Int
  BY DEF IsUnit
<1>1. T \in SUBSET N /\ IsFiniteSet(L) /\ Cardinality(T) = 2 * Cardinality(L)
  BY Twice
<1>2. ASSUME NEW s \in T
      PROVE  s \in Int /\ \E x \in L : s = x \/ Same(s, g * x, n)
  <2>1. CASE s \in L
    BY <1>0, <2>1
  <2>2. CASE s \in Moved(L, g, n)
    <3>1. PICK x \in L : s = (g * x) % n
      BY <2>2 DEF Moved
    <3> DEFINE y == g * x
    <3>2. y \in Int /\ s = y % n
      BY <1>0, <3>1
    <3> HIDE DEF y
    <3>3. s \in 0 .. n - 1 /\ Same(s, y, n)
      BY <3>2, SameMod
    <3> QED BY <3>3 DEF y
  <2> QED BY <2>1, <2>2
<1>3. ASSUME NEW s \in T, NEW t \in T, Same(s, h * t, n) PROVE FALSE
  <2>1. PICK x \in L : s = x \/ Same(s, g * x, n)
    BY <1>2
  <2>2. PICK y \in L : t = y \/ Same(t, g * y, n)
    BY <1>2
  <2> DEFINE gx == g * x
             gy == g * y
  <2>3. x \in Int /\ y \in Int /\ gx \in Int /\ gy \in Int /\ s \in Int /\ t \in Int
    BY <1>0, <1>2
  <2>4. /\ ~Same(x, h * y, n) /\ ~Same(x, h * gy, n) /\ ~Same(gx, h * y, n)
    OBVIOUS
  <2>5. Same(h * t, h * y, n) \/ Same(h * t, h * gy, n)
    <3> HIDE DEF gy
    <3>1. Same(t, y, n) \/ Same(t, gy, n)
      BY <2>2, SameEquivalence DEF gy
    <3>2. Same(h, h, n)
      BY SameEquivalence
    <3> QED BY <1>0, <2>3, <3>1, <3>2, SameTimes
  <2>6. ~Same(gx, h * gy, n)
    <3> SUFFICES ASSUME Same(gx, h * gy, n) PROVE FALSE
      OBVIOUS
    <3> DEFINE hy == h * y
    <3>1. h * gy = g * hy /\ hy \in Int
      BY <1>0, <2>3
    <3>2. Same(g * x, g * hy, n)
      BY <3>1
    <3> HIDE DEF hy
    <3>3. Same(x, hy, n)
      BY <2>3, <3>1, <3>2, UnitCancels
    <3> QED BY <3>3 DEF hy
  <2> DEFINE ht == h * t
             a == h * y
             b == h * gy
  <2>7. Same(s, x, n) \/ Same(s, gx, n)
    BY <2>1, SameEquivalence
  <2>8. /\ Same(s, ht, n)
        /\ ~Same(x, a, n) /\ ~Same(x, b, n) /\ ~Same(gx, a, n) /\ ~Same(gx, b, n)
    BY <1>3, <2>4, <2>5, <2>6
  <2>9. Same(ht, a, n) \/ Same(ht, b, n)
    BY <2>5
  <2> HIDE DEF ht, a, b, gx
  <2> QED BY <2>7, <2>8, <2>9, SameEquivalence
<1>4. U \in SUBSET N /\ Cardinality(U) = 2 * Cardinality(T)
  <2> HIDE DEF T
  <2> QED BY <1>1, <1>3, Twice
<1>5. IsFiniteSet(N) /\ Cardinality(N) = n - 1
  <2> DEFINE k == n - 1
             one == 1
  <2>1. k \in Int /\ one \in Int /\ (IF one > k THEN 0 ELSE k - one + 1) = k
    OBVIOUS
  <2> HIDE DEF k, one
  <2>2. IsFiniteSet(one .. k) /\ Cardinality(one .. k) = k
    BY <2>1, FS_Interval
  <2> QED BY <2>2 DEF one, k
<1>6. Cardinality(U) <= n - 1
  <2> HIDE DEF U, N
  <2> QED BY <1>4, <1>5, FS_Subset
<1>7. Cardinality(L) \in Nat
  BY <1>1, FS_CardinalityType
<1> QED BY <1>1, <1>4, <1>6, <1>7

\* What is congruent modulo n is congruent modulo a factor of n.
LEMMA SameFactor ==
  ASSUME NEW m \in Nat \ {0}, NEW c \in Nat \ {0}, NEW n, n = m * c,
         NEW a \in Int, NEW b \in Int, Same(a, b, n)
  PROVE  Same(a, b, m)
<1>1. n \in Nat \ {0}
  OBVIOUS
<1>2. PICK k \in Int : a = b + k * n
  BY <1>1, SameBy
<1> DEFINE l == k * c
<1>3. l \in Int /\ a = b + l * m
  BY <1>2
<1> HIDE DEF l
<1> QED BY <1>3, SameBy

\* One and minus one differ modulo any number above two.
LEMMA SignsApart ==
  ASSUME NEW r \in Nat, r > 2, NEW s \in {1, -1}, NEW t \in {1, -1}, Same(s, t, r)
  PROVE  s = t
<1>1. s \in Int /\ t \in Int /\ r \in Nat \ {0}
  OBVIOUS
<1>2. PICK k \in Int : s = t + k * r
  BY <1>1, SameBy
<1>3. CASE k = 0
  BY <1>1, <1>2, <1>3
<1>4. CASE k >= 1
  <2>1. k * r >= r
    BY <1>4
  <2> QED BY <1>1, <1>2, <2>1
<1>5. CASE k <= -1
  <2>1. (-k) * r >= r /\ k * r = -((-k) * r)
    BY <1>5
  <2> QED BY <1>1, <1>2, <2>1
<1> QED BY <1>3, <1>4, <1>5

\* Every number above one has a prime factor.
LEMMA PrimeFactor ==
  ASSUME NEW n \in Nat, n > 1
  PROVE  \E p \in Nat, c \in Nat \ {0} : Prime(p) /\ n = p * c
<1> DEFINE S == {d \in Nat : d > 1 /\ \E c \in Nat \ {0} : n = d * c}
<1>1. n \in S
  <2>1. n = n * 1
    OBVIOUS
  <2> QED BY <2>1
<1>2. PICK p \in S : \A d \in S : p <= d
  <2>1. S \in SUBSET Nat
    OBVIOUS
  <2> HIDE DEF S
  <2> QED BY <1>1, <2>1, Least
<1>3. PICK c \in Nat \ {0} : n = p * c
  OBVIOUS
<1>4. p \in Nat /\ p > 1
  OBVIOUS
<1>5. ASSUME NEW d \in 2 .. p - 1, p % d = 0 PROVE FALSE
  <2>1. d \in Nat \ {0} /\ d > 1 /\ ~(p <= d)
    BY <1>4
  <2> DEFINE k == p \div d
  <2>2. p = k * d + (p % d) /\ k \in Nat
    <3>1. p \in Int
      BY <1>4
    <3> QED BY <1>4, <2>1, <3>1, DivMod
  <2> HIDE DEF k
  <2>3. p = k * d
    BY <1>4, <1>5, <2>1, <2>2
  <2>4. k # 0
    BY <1>4, <2>1, <2>3
  <2> DEFINE e == k * c
  <2>5. e \in Nat \ {0} /\ n = d * e
    BY <1>3, <2>1, <2>2, <2>3, <2>4
  <2> HIDE DEF e
  <2>6. d \in S
    BY <2>1, <2>5
  <2> HIDE DEF S
  <2> QED BY <1>2, <2>1, <2>6
<1>6. Prime(p)
  BY <1>4, <1>5 DEF Prime
<1> QED BY <1>3, <1>4, <1>6

\* There are numbers with a given remainder by a prime that are one modulo a number the
\* prime does not divide.
LEMMA Mixed ==
  ASSUME NEW p \in Nat, Prime(p), NEW c \in Nat \ {0}, ~Same(c, 0, p), NEW b \in Int
  PROVE  \E g \in Int : Same(g, b, p) /\ Same(g, 1, c)
<1>0. p \in Nat \ {0} /\ p - 2 \in Nat /\ (p - 2) + 1 = p - 1
  BY DEF Prime
<1> DEFINE v == Power(c, p - 2)
           u == Power(c, p - 1)
           one == 1
<1>1. v \in Int /\ u = v * c
  <2> DEFINE j == p - 2
  <2>1. j \in Nat /\ p - 1 = j + 1 /\ c \in Int
    BY <1>0
  <2> HIDE DEF j
  <2>2. Power(c, j) \in Int /\ Power(c, j + 1) = Power(c, j) * c
    BY <2>1, PowerStep
  <2> QED BY <2>1, <2>2 DEF j
<1>2. Same(u, one, p)
  BY Fermat
<1>3. one \in Int /\ u \in Int
  BY <1>1
<1> HIDE DEF u, v, one
<1>4. PICK k \in Int : u = one + k * p
  BY <1>0, <1>2, <1>3, SameBy, ZenonT(60)
<1>5. u = 1 + k * p
  BY <1>4 DEF one
<1> DEFINE g == 1 + (b - 1) * u
           i == (b - 1) * k
           j == (b - 1) * v
<1>6. g \in Int /\ i \in Int /\ j \in Int
  BY <1>1, <1>3
<1>7. g = b + i * p
  BY <1>0, <1>5
<1>8. g = one + j * c
  BY <1>1 DEF one
<1> HIDE DEF g, i, j
<1>9. Same(g, b, p)
  BY <1>0, <1>6, <1>7, SameBy
<1>10. Same(g, one, c)
  BY <1>3, <1>6, <1>8, SameBy
<1> QED BY <1>6, <1>9, <1>10 DEF one

-----------------------------------------------------------------------------
(* The differences of a power, and the numbers whose power is one. *)

\* d[k] is the kth difference of f.
Differences(d, f) ==
  /\ d \in [Nat -> [Int -> Int]]
  /\ d[0] = f
  /\ \A k \in Nat, x \in Int : d[k + 1][x] = d[k][x + 1] - d[k][x]

\* Every function has differences.
LEMMA DifferencesExist ==
  \A f \in [Int -> Int] : \E d : Differences(d, f)
<1> DEFINE F == [Int -> Int]
           step == [g \in F |-> [x \in Int |-> g[x + 1] - g[x]]]
<1>1. step \in [F -> F]
  OBVIOUS
<1>2. \A f \in F : \E d \in [Nat -> F] : d[0] = f /\ \A k \in Nat : d[k + 1] = step[d[k]]
  <2> HIDE DEF F, step
  <2> QED BY <1>1, Iterated
<1>3. ASSUME NEW f \in F, NEW d \in [Nat -> F],
             d[0] = f, \A k \in Nat : d[k + 1] = step[d[k]]
      PROVE  Differences(d, f)
  <2> SUFFICES ASSUME NEW k \in Nat, NEW x \in Int PROVE d[k + 1][x] = d[k][x + 1] - d[k][x]
    BY <1>3 DEF Differences
  <2>1. d[k] \in F /\ d[k + 1] = step[d[k]]
    BY <1>3
  <2> QED BY <2>1
<1> QED BY <1>2, <1>3

\* The differences of a function times its argument.
LEMMA DifferencesOfProduct ==
  ASSUME NEW f \in [Int -> Int], NEW d, Differences(d, f),
         NEW g \in [Int -> Int], \A x \in Int : g[x] = f[x] * x,
         NEW e, Differences(e, g), NEW k \in Nat
  PROVE  \A x \in Int : e[k + 1][x] = x * d[k + 1][x] + (k + 1) * d[k][x + 1]
<1> DEFINE Holds(i) == \A x \in Int : e[i + 1][x] = x * d[i + 1][x] + (i + 1) * d[i][x + 1]
           S == {i \in Nat : Holds(i)}
<1>0. \A i \in Nat, x \in Int : /\ d[i][x] \in Int /\ d[i + 1][x] = d[i][x + 1] - d[i][x]
                                /\ e[i + 1][x] = e[i][x + 1] - e[i][x]
  BY DEF Differences
<1>1. Holds(0)
  <2> SUFFICES ASSUME NEW x \in Int
               PROVE  e[0 + 1][x] = x * d[0 + 1][x] + (0 + 1) * d[0][x + 1]
    OBVIOUS
  <2> DEFINE a == f[x]
             b == f[x + 1]
  <2>1. x + 1 \in Int /\ a \in Int /\ b \in Int /\ g[x] = a * x /\ g[x + 1] = b * (x + 1)
    OBVIOUS
  <2>2. d[0] = f /\ e[0] = g
    BY DEF Differences
  <2>3. /\ d[0 + 1][x] = d[0][x + 1] - d[0][x]
        /\ e[0 + 1][x] = e[0][x + 1] - e[0][x]
    BY <1>0
  <2>4. d[0 + 1][x] = b - a /\ e[0 + 1][x] = b * (x + 1) - a * x /\ d[0][x + 1] = b
    BY <2>1, <2>2, <2>3
  <2> HIDE DEF a, b
  <2>5. b * (x + 1) - a * x = x * (b - a) + (0 + 1) * b
    BY <2>1
  <2> QED BY <2>4, <2>5
<1>2. ASSUME NEW i \in Nat, Holds(i) PROVE Holds(i + 1)
  <2> SUFFICES ASSUME NEW x \in Int
               PROVE  e[(i + 1) + 1][x]
                        = x * d[(i + 1) + 1][x] + ((i + 1) + 1) * d[i + 1][x + 1]
    OBVIOUS
  <2> DEFINE a == d[i + 1][x]
             b == d[i + 1][x + 1]
             s == d[i][x + 1]
             t == d[i][(x + 1) + 1]
  <2>1. i + 1 \in Nat /\ x + 1 \in Int /\ (x + 1) + 1 \in Int
    OBVIOUS
  <2>2. a \in Int /\ b \in Int /\ s \in Int /\ t \in Int /\ b = t - s
    BY <1>0, <2>1
  <2>3. e[i + 1][x] = x * a + (i + 1) * s /\ e[i + 1][x + 1] = (x + 1) * b + (i + 1) * t
    BY <1>2, <2>1
  <2>4. e[(i + 1) + 1][x] = e[i + 1][x + 1] - e[i + 1][x] /\ d[(i + 1) + 1][x] = b - a
    BY <1>0, <2>1
  <2> HIDE DEF a, b, s, t
  <2>5. ((x + 1) * b + (i + 1) * t) - (x * a + (i + 1) * s)
          = x * (b - a) + b + (i + 1) * (t - s)
    BY <2>2
  <2>6. x * (b - a) + b + (i + 1) * b = x * (b - a) + ((i + 1) + 1) * b
    BY <2>2
  <2>7. e[(i + 1) + 1][x] = x * (b - a) + ((i + 1) + 1) * b
    BY <2>2, <2>3, <2>4, <2>5, <2>6
  <2> QED BY <2>4, <2>7 DEF b
<1> HIDE DEF Holds
<1>3. k \in S
  <2>1. 0 \in S
    BY <1>1
  <2>2. \A i \in Nat : i \in S => i + 1 \in S
    BY <1>2
  <2> HIDE DEF S
  <2> QED BY <2>1, <2>2, Induct
<1> QED BY <1>3 DEF Holds

\* The kth difference of the kth power is the factorial of k, which a greater prime
\* does not divide.
LEMMA DifferencesOfPower ==
  ASSUME NEW q \in Nat, Prime(q), NEW k \in Nat, k < q
  PROVE  \E c \in Int : \E d : /\ Differences(d, [x \in Int |-> Power(x, k)])
                              /\ ~Same(c, 0, q) /\ \A x \in Int : d[k][x] = c
<1> DEFINE f(i) == [x \in Int |-> Power(x, i)]
           Constant(i, d, c) == Differences(d, f(i)) /\ ~Same(c, 0, q)
                                /\ \A x \in Int : d[i][x] = c
           S == {i \in Nat : i < q => \E c \in Int : \E d : Constant(i, d, c)}
<1> HIDE DEF Constant
<1>0. q \in Nat \ {0} /\ q > 1
  BY DEF Prime
<1>1. \A i \in Nat : f(i) \in [Int -> Int]
  BY PowerStep
<1>2. ASSUME NEW i \in Nat, i # 0, i < q PROVE ~Same(i, 0, q)
  <2>1. i % q = i /\ 0 % q = 0
    BY <1>0, <1>2
  <2> QED BY <1>2, <2>1 DEF Same
<1>3. 0 \in S
  <2>1. PICK d : Differences(d, f(0))
    <3> HIDE DEF f
    <3> QED BY <1>1, DifferencesExist
  <2>2. \A x \in Int : d[0][x] = 1
    BY <2>1, PowerStep DEF Differences
  <2>3. ~Same(1, 0, q)
    BY <1>0, <1>2
  <2>4. 1 \in Int /\ Constant(0, d, 1)
    BY <2>1, <2>2, <2>3 DEF Constant
  <2> QED BY <2>4
<1>4. ASSUME NEW i \in Nat, i \in S PROVE i + 1 \in S
  <2> SUFFICES ASSUME i + 1 < q PROVE \E c \in Int : \E d : Constant(i + 1, d, c)
    BY DEF S
  <2>0. PICK c \in Int : \E d : Constant(i, d, c)
    <3>1. i < q
      BY <1>0
    <3> QED BY <1>4, <3>1
  <2>1. PICK d : Constant(i, d, c)
    BY <2>0
  <2> DEFINE j == i + 1
  <2>2. j \in Nat /\ j # 0 /\ j < q
    OBVIOUS
  <2>3. PICK e : Differences(e, f(j))
    <3> HIDE DEF f, j
    <3> QED BY <1>1, <2>2, DifferencesExist
  <2>4. \A x \in Int : f(j)[x] = f(i)[x] * x
    BY PowerStep
  <2>5. ASSUME NEW x \in Int PROVE e[j][x] = j * c
    <3>1. e[i + 1][x] = x * d[i + 1][x] + (i + 1) * d[i][x + 1]
      <4> HIDE DEF f, j
      <4>1. Differences(d, f(i))
        BY <2>1 DEF Constant
      <4>2. f(i) \in [Int -> Int] /\ f(j) \in [Int -> Int] /\ \A y \in Int : f(j)[y] = f(i)[y] * y
        BY <1>1, <2>2, <2>4
      <4> DEFINE g == f(i)
                 h == f(j)
      <4> HIDE DEF g, h
      <4>3. \A y \in Int : e[i + 1][y] = y * d[i + 1][y] + (i + 1) * d[i][y + 1]
        BY <2>3, <4>1, <4>2, DifferencesOfProduct DEF g, h
      <4> QED BY <4>3
    <3>2. d[i][x + 1] = c /\ d[i][x] = c /\ d[i + 1][x] = d[i][x + 1] - d[i][x]
      <4>1. x + 1 \in Int
        OBVIOUS
      <4> QED BY <2>1, <4>1 DEF Constant, Differences
    <3>3. d[i + 1][x] = 0
      BY <3>2
    <3> QED BY <3>1, <3>2, <3>3
  <2>6. ~Same(j * c, 0, q) /\ j * c \in Int
    <3>1. ~Same(j, 0, q)
      <4> HIDE DEF j
      <4> QED BY <1>2, <2>2
    <3>2. ~Same(c, 0, q)
      BY <2>1 DEF Constant
    <3>3. j \in Int
      OBVIOUS
    <3> HIDE DEF j
    <3> QED BY <2>2, <3>1, <3>2, <3>3, PrimeDivides
  <2>7. Constant(j, e, j * c)
    <3> HIDE DEF f, j
    <3> QED BY <2>3, <2>5, <2>6 DEF Constant
  <2> QED BY <2>6, <2>7
<1>5. k \in S
  <2> HIDE DEF S
  <2> QED BY <1>3, <1>4, Induct
<1>6. \E c \in Int : \E d : Constant(k, d, c)
  BY <1>5
<1> QED BY <1>6 DEF Constant

\* Where a function is the same everywhere, its differences vanish.
LEMMA DifferencesVanish ==
  ASSUME NEW q \in Nat \ {0}, NEW f \in [Int -> Int], NEW d, Differences(d, f),
         NEW m \in Nat, NEW r, \A x \in 1 .. m : Same(f[x], r, q),
         NEW k \in Nat \ {0}
  PROVE  \A x \in 1 .. m - k : Same(d[k][x], 0, q)
<1> DEFINE Holds(i) == \A x \in 1 .. m - (i + 1) : Same(d[i + 1][x], 0, q)
           S == {i \in Nat : Holds(i)}
<1>0. \A i \in Nat, x \in Int : /\ d[i][x] \in Int /\ d[i + 1][x] = d[i][x + 1] - d[i][x]
  <2>1. \A i \in Nat : d[i] \in [Int -> Int]
    BY DEF Differences
  <2>2. \A i \in Nat, x \in Int : d[i + 1][x] = d[i][x + 1] - d[i][x]
    BY DEF Differences
  <2> QED BY <2>1, <2>2
<1>1. ASSUME NEW i \in Nat, NEW x \in Int, Same(d[i][x + 1], d[i][x], q)
      PROVE  Same(d[i + 1][x], 0, q)
  <2> DEFINE a == d[i][x + 1]
             b == d[i][x]
  <2>1. a \in Int /\ b \in Int /\ d[i + 1][x] = a - b /\ Same(a, b, q)
    <3>1. x + 1 \in Int
      OBVIOUS
    <3> QED BY <1>0, <1>1, <3>1
  <2> HIDE DEF a, b
  <2> QED BY <2>1, SameDifference
<1>2. Holds(0)
  <2> SUFFICES ASSUME NEW x \in 1 .. m - (0 + 1) PROVE Same(d[0 + 1][x], 0, q)
    OBVIOUS
  <2>1. x \in 1 .. m /\ x + 1 \in 1 .. m /\ x \in Int /\ 0 \in Nat
    OBVIOUS
  <2>2. Same(f[x + 1], f[x], q)
    <3>1. Same(f[x], r, q) /\ Same(f[x + 1], r, q)
      BY <2>1
    <3> QED BY <3>1, SameEquivalence
  <2>3. d[0] = f
    BY DEF Differences
  <2> QED BY <1>1, <2>1, <2>2, <2>3
<1>3. ASSUME NEW i \in Nat, Holds(i) PROVE Holds(i + 1)
  <2> SUFFICES ASSUME NEW x \in 1 .. m - ((i + 1) + 1) PROVE Same(d[(i + 1) + 1][x], 0, q)
    OBVIOUS
  <2>1. x \in 1 .. m - (i + 1) /\ x + 1 \in 1 .. m - (i + 1) /\ x \in Int /\ i + 1 \in Nat
    OBVIOUS
  <2>2. Same(d[i + 1][x], 0, q) /\ Same(d[i + 1][x + 1], 0, q)
    BY <1>3, <2>1
  <2>3. Same(d[i + 1][x + 1], d[i + 1][x], q)
    BY <2>2, SameEquivalence
  <2> QED BY <1>1, <2>1, <2>3
<1> HIDE DEF Holds
<1>4. k - 1 \in S
  <2>1. 0 \in S
    BY <1>2
  <2>2. \A i \in Nat : i \in S => i + 1 \in S
    BY <1>3
  <2>3. k - 1 \in Nat
    OBVIOUS
  <2> HIDE DEF S
  <2> QED BY <2>1, <2>2, <2>3, Induct
<1> DEFINE i == k - 1
<1>5. i \in Nat /\ Holds(i) /\ k = i + 1
  BY <1>4
<1> HIDE DEF i
<1> QED BY <1>5 DEF Holds

\* Modulo a prime q, no exponent below q - 1 but zero makes all powers one.
LEMMA PowerNotOne ==
  ASSUME NEW q \in Nat, Prime(q), NEW k \in 1 .. q - 2
  PROVE  \E a \in 1 .. q - 1 : ~Same(Power(a, k), 1, q)
<1> SUFFICES ASSUME \A a \in 1 .. q - 1 : Same(Power(a, k), 1, q) PROVE FALSE
  OBVIOUS
<1> DEFINE f == [x \in Int |-> Power(x, k)]
           m == q - 1
<1>0. q \in Nat \ {0} /\ m \in Nat /\ k \in Nat \ {0} /\ k < q
  BY DEF Prime
<1>1. PICK c \in Int : \E d : /\ Differences(d, f) /\ ~Same(c, 0, q)
                              /\ \A x \in Int : d[k][x] = c
  BY <1>0, DifferencesOfPower
<1>2. PICK d : Differences(d, f) /\ \A x \in Int : d[k][x] = c
  BY <1>1
<1>3. f \in [Int -> Int]
  BY <1>0, PowerStep
<1>4. \A x \in 1 .. m : Same(f[x], 1, q)
  OBVIOUS
<1>5. 1 \in 1 .. m - k
  BY <1>0
<1> HIDE DEF f, m
<1>6. \A x \in 1 .. m - k : Same(d[k][x], 0, q)
  BY <1>0, <1>3, <1>4, <1>2, DifferencesVanish
<1> QED BY <1>1, <1>5, <1>6, <1>2

\* There are units with a given remainder by a prime, if not zero, that are one modulo
\* a number the prime does not divide.
LEMMA MixedUnit ==
  ASSUME NEW p \in Nat, Prime(p), NEW c \in Nat \ {0}, ~Same(c, 0, p),
         NEW n, n = p * c, NEW b \in Int, ~Same(b, 0, p)
  PROVE  \E g : IsUnit(g, n) /\ Same(g, b, p) /\ Same(g, 1, c)
<1>0. p \in Nat \ {0} /\ p - 1 \in Nat \ {0}
  BY DEF Prime
<1>1. PICK g \in Int : Same(g, b, p) /\ Same(g, 1, c)
  BY Mixed
<1>2. ~Same(g, 0, p)
  BY <1>0, <1>1, SameEquivalence
<1> DEFINE u == Power(g, p - 1)
           one == 1
<1>3. u \in Int /\ Same(u, one, p)
  BY <1>0, <1>2, Fermat, PowerStep
<1>4. Same(u, one, c)
  <2>1. one \in Int /\ Same(g, one, c) /\ p - 1 \in Nat /\ c \in Nat \ {0}
    BY <1>0, <1>1
  <2>2. Power(one, p - 1) = 1
    BY <1>0, PowerOne
  <2>3. Same(Power(g, p - 1), Power(one, p - 1), c)
    <3> HIDE DEF one
    <3> QED BY <2>1, PowerSame
  <2> QED BY <2>2, <2>3
<1>5. one \in Int
  OBVIOUS
<1> HIDE DEF u, one
<1>6. Same(u, one, n)
  BY <1>3, <1>4, <1>5, SameCombine
<1>7. IsUnit(g, n)
  BY <1>0, <1>6 DEF IsUnit, u, one
<1> QED BY <1>1, <1>7

\* u has sign i modulo r, a factor of n.
Signed(u, i, r, n) ==
  /\ u \in Int /\ i \in {1, -1} /\ Same(u, i, r)
  /\ r \in Nat /\ r > 2
  /\ \E f \in Nat \ {0} : n = r * f

\* What is congruent, up to a sign, has the same sign, up to it, modulo every factor.
LEMMA SignsAgree ==
  ASSUME NEW n, NEW r, NEW u, NEW i, Signed(u, i, r, n), NEW v, NEW j, Signed(v, j, r, n)
  PROVE  /\ Same(u, v, n) => i = j
         /\ Same(u, -v, n) => i = -j
<1>1. /\ u \in Int /\ i \in {1, -1} /\ Same(u, i, r)
      /\ v \in Int /\ j \in {1, -1} /\ Same(v, j, r)
      /\ r \in Nat /\ r > 2
  BY DEF Signed
<1>2. PICK f \in Nat \ {0} : n = r * f
  BY DEF Signed
<1>3. r \in Nat \ {0} /\ -v \in Int /\ i \in Int /\ j \in Int
  BY <1>1
<1>4. ASSUME Same(u, v, n) PROVE i = j
  <2>1. Same(u, v, r)
    BY <1>1, <1>2, <1>3, <1>4, SameFactor
  <2>2. Same(i, j, r)
    BY <1>1, <1>3, <2>1, SameEquivalence
  <2> QED BY <1>1, <2>2, SignsApart
<1>5. ASSUME Same(u, -v, n) PROVE i = -j
  <2> DEFINE w == -v
             k == -j
             minus == -1
  <2>1. w \in Int /\ k \in {1, -1} /\ k \in Int /\ Same(u, w, n)
    BY <1>1, <1>5
  <2>2. minus \in Int /\ minus * v = w /\ minus * j = k
    BY <1>1
  <2> HIDE DEF w, k, minus
  <2>3. Same(w, k, r)
    <3>1. Same(minus, minus, r)
      BY <1>3, <2>2, SameEquivalence
    <3>2. Same(minus * v, minus * j, r)
      BY <1>1, <1>3, <2>2, <3>1, SameTimes
    <3> QED BY <2>2, <3>2
  <2>4. Same(u, w, r)
    BY <1>1, <1>2, <1>3, <2>1, SameFactor
  <2>5. Same(i, k, r)
    BY <1>1, <1>3, <2>1, <2>3, <2>4, SameEquivalence
  <2>6. i = k
    BY <1>1, <2>1, <2>5, SignsApart
  <2> QED BY <2>6 DEF k
<1> QED BY <1>4, <1>5

\* The factors g of x and h of y make them congruent.
Meet(g, x, h, y, n) == Same(g * x, h * y, n)

\* Factors that make numbers with the same power, up to a sign, congruent have the same
\* power up to a sign.
LEMMA SameMoved ==
  ASSUME NEW n \in Nat \ {0}, NEW k \in Nat, NEW x \in Int, NEW y \in Int,
         NEW s \in {1, -1}, Same(Power(x, k), s, n),
         NEW t \in {1, -1}, Same(Power(y, k), t, n),
         NEW g \in Int, NEW h \in Int, Meet(g, x, h, y, n)
  PROVE  /\ s = t => Same(Power(g, k), Power(h, k), n)
         /\ s # t => Same(Power(g, k), -Power(h, k), n)
<1> DEFINE gk == Power(g, k)
           hk == Power(h, k)
           xk == Power(x, k)
           yk == Power(y, k)
           gx == g * x
           hy == h * y
           st == s * t
<1>1. gk \in Int /\ hk \in Int /\ xk \in Int /\ yk \in Int /\ gx \in Int /\ hy \in Int
  <2>1. gk \in Int /\ hk \in Int /\ xk \in Int /\ yk \in Int
    BY PowerStep
  <2>2. gx \in Int /\ hy \in Int
    OBVIOUS
  <2> QED BY <2>1, <2>2
<1>2. Power(gx, k) = gk * xk /\ Power(hy, k) = hk * yk
  BY PowerProduct
<1>3. s \in Int /\ t \in Int /\ st \in Int
  OBVIOUS
<1>4. Same(Power(gx, k), Power(hy, k), n)
  <2> HIDE DEF gx, hy
  <2>1. Same(gx, hy, n)
    BY DEF gx, hy, Meet
  <2> QED BY <1>1, <2>1, PowerSame
<1>5. Same(gk, gk, n) /\ Same(hk, hk, n) /\ Same(s, s, n)
  BY SameEquivalence
<1> HIDE DEF gk, hk, xk, yk, gx, hy
<1>6. Same(gk * xk, gk * s, n) /\ Same(hk * yk, hk * t, n)
  BY <1>1, <1>3, <1>5, SameTimes DEF xk, yk
<1> DEFINE a == gk * s
           b == hk * t
<1>7. a \in Int /\ b \in Int /\ Same(a, b, n)
  BY <1>1, <1>2, <1>3, <1>4, <1>6, SameEquivalence
<1>8. a * s = gk /\ b * s = hk * st
  BY <1>1
<1> HIDE DEF a, b
<1>9. Same(a * s, b * s, n)
  BY <1>3, <1>5, <1>7, SameTimes
<1>10. Same(gk, hk * st, n)
  BY <1>8, <1>9
<1>11. /\ s = t => hk * st = hk
       /\ s # t => hk * st = -hk
  BY <1>1
<1> QED BY <1>10, <1>11 DEF gk, hk

-----------------------------------------------------------------------------
(* How many numbers below n have powers like those of a prime. *)

\* The mth power is one or minus one, and the power of n - 1 is one.
Lying(L, m, n) ==
  /\ L \in SUBSET (1 .. n - 1)
  /\ \A x \in L : /\ Same(Power(x, m), 1, n) \/ Same(Power(x, m), -1, n)
                  /\ Same(Power(x, n - 1), 1, n)

\* No multiple by u of a member is congruent to a multiple by v.
Apart(u, v, L, n) == \A x, y \in L : ~Same(u * x, v * y, n)

\* FourTimes, of factors apart.
LEMMA FourApart ==
  ASSUME NEW n \in Nat \ {0}, NEW L \in SUBSET (1 .. n - 1),
         NEW g, IsUnit(g, n), NEW h, IsUnit(h, n),
         Apart(1, g, L, n), Apart(1, h, L, n), Apart(1, h * g, L, n), Apart(g, h, L, n)
  PROVE  4 * Cardinality(L) <= n - 1
<1>0. g \in Int /\ h \in Int /\ \A x \in L : x \in Int
  BY DEF IsUnit
<1>1. ASSUME NEW x \in L, NEW y \in L
      PROVE  /\ ~Same(x, g * y, n) /\ ~Same(x, h * y, n)
             /\ ~Same(x, h * (g * y), n) /\ ~Same(g * x, h * y, n)
  <2>1. 1 * x = x /\ (h * g) * y = h * (g * y)
    BY <1>0
  <2>2. /\ ~Same(1 * x, g * y, n) /\ ~Same(1 * x, h * y, n)
        /\ ~Same(1 * x, (h * g) * y, n) /\ ~Same(g * x, h * y, n)
    BY DEF Apart
  <2> QED BY <2>1, <2>2
<1> QED BY <1>1, FourTimes

\* Factors are apart whose mth powers agree in sign modulo one factor of n and not
\* modulo another.
LEMMA ApartBySigns ==
  ASSUME NEW p \in Nat, p > 2, NEW c \in Nat \ {0}, NEW q \in Nat, q > 2, NEW d \in Nat \ {0},
         NEW n, n = p * c, n = q * d,
         NEW m \in Nat, NEW L, Lying(L, m, n), NEW u \in Int, NEW v \in Int,
         NEW s \in {1, -1}, Same(Power(u, m), s, p), NEW t \in {1, -1}, Same(Power(v, m), t, p),
         NEW y \in {1, -1}, Same(Power(u, m), y, q), NEW z \in {1, -1}, Same(Power(v, m), z, q),
         ~(s = t <=> y = z)
  PROVE  Apart(u, v, L, n)
<1> SUFFICES ASSUME NEW x \in L, NEW w \in L, Meet(u, x, v, w, n) PROVE FALSE
  BY DEF Apart, Meet
<1>1. n \in Nat \ {0}
  OBVIOUS
<1>2. x \in Int /\ w \in Int
  BY DEF Lying
<1>3. PICK i \in {1, -1} : Same(Power(x, m), i, n)
  BY DEF Lying
<1>4. PICK j \in {1, -1} : Same(Power(w, m), j, n)
  BY DEF Lying
<1> DEFINE um == Power(u, m)
           vm == Power(v, m)
<1>5. um \in Int /\ vm \in Int
  BY PowerStep
<1> HIDE DEF um, vm
<1>6. Same(um, vm, n) \/ Same(um, -vm, n)
  <2>1. /\ i = j => Same(um, vm, n)
        /\ i # j => Same(um, -vm, n)
    BY <1>1, <1>2, <1>3, <1>4, SameMoved DEF um, vm
  <2> QED BY <2>1
<1>7. Signed(um, s, p, n) /\ Signed(vm, t, p, n) /\ Signed(um, y, q, n) /\ Signed(vm, z, q, n)
  <2>1. Same(um, s, p) /\ Same(vm, t, p) /\ Same(um, y, q) /\ Same(vm, z, q)
    BY DEF um, vm
  <2>2. (\E f \in Nat \ {0} : n = p * f) /\ (\E f \in Nat \ {0} : n = q * f)
    OBVIOUS
  <2> QED BY <1>5, <2>1, <2>2 DEF Signed
<1>8. /\ Same(um, vm, n) => s = t /\ y = z
      /\ Same(um, -vm, n) => s = -t /\ y = -z
  BY <1>7, SignsAgree
<1> QED BY <1>6, <1>8

\* Factors are apart whose powers of n - 1 are not congruent.
LEMMA ApartByPowers ==
  ASSUME NEW n \in Nat \ {0}, NEW m \in Nat, NEW L, Lying(L, m, n), NEW u \in Int, NEW v \in Int,
         ~Same(Power(u, n - 1), Power(v, n - 1), n)
  PROVE  Apart(u, v, L, n)
<1> SUFFICES ASSUME NEW x \in L, NEW w \in L, Meet(u, x, v, w, n) PROVE FALSE
  BY DEF Apart, Meet
<1> DEFINE e == n - 1
           one == 1
<1>1. x \in Int /\ w \in Int /\ e \in Nat
  BY DEF Lying
<1>2. one \in {1, -1} /\ Same(Power(x, e), one, n) /\ Same(Power(w, e), one, n)
  BY DEF Lying
<1>3. ~Same(Power(u, e), Power(v, e), n)
  OBVIOUS
<1> HIDE DEF e, one
<1> QED BY <1>1, <1>2, <1>3, SameMoved

\* The powers of what is congruent to one, and those of what has the powers of b.
LEMMA PowerOf ==
  ASSUME NEW r \in Nat \ {0}, NEW g \in Int, NEW k \in Nat
  PROVE  /\ Same(g, 1, r) => Same(Power(g, k), 1, r)
         /\ \A b \in Int, c \in Nat \ {0} :
              Same(g, b, r) /\ Same(Power(b, k), -1, r * c) => Same(Power(g, k), -1, r)
<1>1. ASSUME Same(g, 1, r) PROVE Same(Power(g, k), 1, r)
  <2> DEFINE one == 1
  <2>1. one \in Int /\ Same(g, one, r) /\ Power(one, k) = 1
    BY <1>1, PowerOne
  <2> HIDE DEF one
  <2>2. Same(Power(g, k), Power(one, k), r)
    BY <2>1, PowerSame
  <2> QED BY <2>1, <2>2
<1>2. ASSUME NEW b \in Int, NEW c \in Nat \ {0}, Same(g, b, r), Same(Power(b, k), -1, r * c)
      PROVE  Same(Power(g, k), -1, r)
  <2> DEFINE n == r * c
             bk == Power(b, k)
             minus == -1
  <2>1. minus \in Int /\ bk \in Int /\ n = r * c /\ Same(bk, minus, n)
    BY <1>2, PowerStep
  <2> HIDE DEF n, bk, minus
  <2>2. Same(bk, minus, r)
    BY <2>1, SameFactor
  <2>3. Same(Power(g, k), bk, r)
    BY <1>2, PowerSame DEF bk
  <2>4. Same(Power(g, k), minus, r)
    BY <2>2, <2>3, SameEquivalence
  <2> QED BY <2>4 DEF minus
<1> QED BY <1>1, <1>2

\* What has a power of minus one is not zero.
LEMMA NotZero ==
  ASSUME NEW p \in Nat, p > 1, NEW b \in Int, NEW m \in Nat \ {0}, Same(Power(b, m), -1, p)
  PROVE  ~Same(b, 0, p)
<1> SUFFICES ASSUME Same(b, 0, p) PROVE FALSE
  OBVIOUS
<1> DEFINE j == m - 1
           v == Power(b, j)
           zero == 0
           minus == -1
<1>1. p \in Nat \ {0} /\ j \in Nat /\ m = j + 1 /\ zero \in Int
  OBVIOUS
<1> HIDE DEF j
<1>2. v \in Int /\ Power(b, m) = v * b
  BY <1>1, PowerStep
<1> HIDE DEF v
<1>3. v * zero = 0
  BY <1>2
<1>4. Same(b, zero, p)
  OBVIOUS
<1> HIDE DEF zero
<1>5. Same(v * b, v * zero, p)
  <2>1. Same(v, v, p)
    BY <1>1, SameEquivalence
  <2> QED BY <1>1, <1>2, <1>4, <2>1, SameTimes
<1>6. Same(0, minus, p)
  <2>1. Same(Power(b, m), minus, p)
    OBVIOUS
  <2> HIDE DEF minus
  <2> QED BY <1>1, <1>2, <1>3, <1>5, <2>1, SameEquivalence
<1>7. (-1) % p = p - 1
  <2> DEFINE r == p - 1
             k == -1
  <2>1. r \in 0 .. p - 1 /\ k \in Int /\ -1 = k * p + r
    BY <1>1
  <2> HIDE DEF r, k
  <2>2. (-1) % p = r
    BY <1>1, <2>1, ModIs
  <2> QED BY <2>2 DEF r
<1>8. 0 % p = 0
  BY <1>1
<1> QED BY <1>1, <1>6, <1>7, <1>8 DEF Same

\* A number with three factors prime to one another.
LEMMA ThreeFactors ==
  ASSUME NEW p \in Nat, Prime(p), p > 2, NEW q \in Nat, Prime(q), q > 2,
         NEW d \in Nat, d > 2, NEW n, n = p * (q * d),
         ~Same(q * d, 0, p), ~Same(p * d, 0, q),
         NEW m \in Nat \ {0}, NEW b \in Int, Same(Power(b, m), -1, n),
         NEW L, Lying(L, m, n)
  PROVE  4 * Cardinality(L) <= n - 1
<1> DEFINE cp == q * d
           cq == p * d
           cd == p * q
           minus == -1
           one == 1
<1>0. /\ cp \in Nat \ {0} /\ cq \in Nat \ {0} /\ cd \in Nat \ {0} /\ d \in Nat \ {0}
      /\ p \in Nat \ {0} /\ q \in Nat \ {0} /\ m \in Nat
  OBVIOUS
<1>1. n = p * cp /\ n = q * cq /\ n = d * cd /\ cp = q * d /\ cp = d * q /\ cq = p * d
      /\ cq = d * p /\ n \in Nat \ {0}
  OBVIOUS
<1>2. one \in {1, -1} /\ minus \in {1, -1} /\ minus \in Int /\ one \in Int /\ one # minus
  OBVIOUS
<1>3. ~Same(cp, 0, p) /\ ~Same(cq, 0, q) /\ Same(Power(b, m), minus, n)
  OBVIOUS
<1> HIDE DEF cp, cq, cd
<1>4. ~Same(b, 0, p) /\ ~Same(b, 0, q)
  <2>1. Same(Power(b, m), minus, p) /\ Same(Power(b, m), minus, q)
    <3>1. Power(b, m) \in Int
      BY <1>0, PowerStep
    <3> HIDE DEF minus
    <3> QED BY <1>0, <1>1, <1>2, <1>3, <3>1, SameFactor
  <2> QED BY <2>1, NotZero
<1>5. PICK g : IsUnit(g, n) /\ Same(g, b, p) /\ Same(g, 1, cp)
  BY <1>0, <1>1, <1>3, <1>4, MixedUnit
<1>6. PICK h : IsUnit(h, n) /\ Same(h, b, q) /\ Same(h, 1, cq)
  BY <1>0, <1>1, <1>3, <1>4, MixedUnit
<1>7. g \in Int /\ h \in Int /\ h * g \in Int
  BY <1>5, <1>6 DEF IsUnit
<1>8. Same(g, one, q) /\ Same(g, one, d) /\ Same(h, one, p) /\ Same(h, one, d)
  <2>1. Same(g, one, cp) /\ Same(h, one, cq)
    BY <1>5, <1>6
  <2> HIDE DEF one
  <2> QED BY <1>0, <1>1, <1>2, <1>7, <2>1, SameFactor
<1> DEFINE gm == Power(g, m)
           hm == Power(h, m)
           um == Power(one, m)
           hg == Power(h * g, m)
<1>9. gm \in Int /\ hm \in Int /\ hg = hm * gm /\ um = 1
  <2>1. gm \in Int /\ hm \in Int
    BY <1>0, <1>7, PowerStep
  <2>2. hg = hm * gm
    BY <1>0, <1>7, PowerProduct
  <2>3. um = 1
    BY <1>0, PowerOne
  <2> QED BY <2>1, <2>2, <2>3
<1>10. Same(gm, minus, p) /\ Same(gm, one, q) /\ Same(gm, one, d)
  BY <1>0, <1>1, <1>5, <1>7, <1>8, PowerOf
<1>11. Same(hm, one, p) /\ Same(hm, minus, q) /\ Same(hm, one, d)
  BY <1>0, <1>1, <1>6, <1>7, <1>8, PowerOf
<1>12. ASSUME NEW r \in Nat \ {0}, NEW i \in {1, -1}, NEW j \in {1, -1}, NEW k \in {1, -1},
              Same(hm, i, r), Same(gm, j, r), i * j = k
       PROVE  Same(hg, k, r)
  <2>1. i \in Int /\ j \in Int
    OBVIOUS
  <2>2. Same(hm * gm, i * j, r)
    <3> HIDE DEF gm, hm
    <3> QED BY <1>9, <1>12, <2>1, SameTimes
  <2> QED BY <1>9, <1>12, <2>2
<1>13. Same(hg, minus, p) /\ Same(hg, one, d)
  <2>1. one * minus = minus /\ one * one = one
    OBVIOUS
  <2> HIDE DEF hg, hm, gm, one, minus
  <2> QED BY <1>0, <1>2, <1>10, <1>11, <1>12, <2>1
<1>14. Same(um, one, p) /\ Same(um, one, q) /\ Same(um, one, d)
  BY <1>9, SameEquivalence
<1>15. Apart(one, g, L, n) /\ Apart(one, h * g, L, n) /\ Apart(g, h, L, n)
  <2> DEFINE w == h * g
  <2>1. w \in Int /\ hg = Power(w, m)
    BY <1>7
  <2> HIDE DEF w, one, minus
  <2>2. Apart(one, g, L, n)
    BY <1>0, <1>1, <1>2, <1>7, <1>10, <1>14, ApartBySigns
  <2>3. Apart(one, w, L, n)
    BY <1>0, <1>1, <1>2, <1>13, <1>14, <2>1, ApartBySigns
  <2>4. Apart(g, h, L, n)
    <3>1. /\ Same(Power(g, m), minus, p) /\ Same(Power(h, m), one, p)
          /\ Same(Power(g, m), one, d) /\ Same(Power(h, m), one, d)
      BY <1>10, <1>11
    <3>2. n = p * cp /\ n = d * cd /\ m \in Nat /\ ~(minus = one <=> one = one)
      BY <1>0, <1>1, <1>2
    <3> HIDE DEF gm, hm
    <3> QED BY <1>0, <1>2, <1>7, <3>1, <3>2, ApartBySigns
  <2> QED BY <2>2, <2>3, <2>4 DEF w
<1>16. Apart(one, h, L, n)
  <2> HIDE DEF one, minus
  <2> QED BY <1>0, <1>1, <1>2, <1>7, <1>11, <1>14, ApartBySigns
<1>17. L \in SUBSET (1 .. n - 1)
  BY DEF Lying
<1> QED BY <1>1, <1>5, <1>6, <1>15, <1>16, <1>17, FourApart

\* A number with two different prime factors.
LEMMA TwoFactors ==
  ASSUME NEW p \in Nat, Prime(p), p > 2, NEW q \in Nat, Prime(q), p < q, NEW n, n = p * q,
         NEW m \in Nat \ {0}, NEW b \in Int, Same(Power(b, m), -1, n),
         NEW L, Lying(L, m, n)
  PROVE  4 * Cardinality(L) <= n - 1
<1> DEFINE e == n - 1
           k == p - 1
           f == q - 1
           minus == -1
           one == 1
<1>0. /\ p \in Nat \ {0} /\ q \in Nat \ {0} /\ n \in Nat \ {0} /\ m \in Nat /\ q > 2
      /\ e \in Nat /\ k \in 1 .. q - 2 /\ k \in Nat /\ f \in Nat /\ n = p * q /\ n = q * p
  OBVIOUS
<1>1. one \in {1, -1} /\ minus \in {1, -1} /\ minus \in Int /\ one \in Int /\ one # minus
      /\ Same(Power(b, m), minus, n)
  OBVIOUS
<1>2. e = f * p + k
  OBVIOUS
<1> HIDE DEF e, k, f
<1>3. ~Same(q, 0, p) /\ ~Same(p, 0, q)
  BY OtherPrime
<1>4. ~Same(b, 0, p)
  <2>1. Same(Power(b, m), minus, p)
    <3>1. Power(b, m) \in Int
      BY <1>0, PowerStep
    <3> HIDE DEF minus
    <3> QED BY <1>0, <1>1, <3>1, SameFactor
  <2> QED BY <2>1, NotZero
<1>5. PICK g : IsUnit(g, n) /\ Same(g, b, p) /\ Same(g, 1, q)
  BY <1>0, <1>3, <1>4, MixedUnit
<1>6. PICK a \in 1 .. q - 1 : ~Same(Power(a, k), 1, q)
  BY <1>0, PowerNotOne
<1>7. a \in Int /\ ~Same(a, 0, q)
  <2>1. a % q = a /\ 0 % q = 0 /\ a # 0
    BY <1>0, <1>6
  <2> QED BY <2>1 DEF Same
<1>8. PICK h : IsUnit(h, n) /\ Same(h, a, q) /\ Same(h, 1, p)
  BY <1>0, <1>3, <1>7, MixedUnit
<1>9. g \in Int /\ h \in Int /\ h * g \in Int
  BY <1>5, <1>8 DEF IsUnit
<1> DEFINE ge == Power(g, e)
           he == Power(h, e)
           ae == Power(a, e)
           ak == Power(a, k)
           hg == Power(h * g, e)
           oe == Power(one, e)
<1>10. ge \in Int /\ he \in Int /\ ae \in Int /\ ak \in Int /\ hg \in Int
  BY <1>0, <1>7, <1>9, PowerStep
<1>11. hg = he * ge
  BY <1>0, <1>9, PowerProduct
<1>12. oe = one
  BY <1>0, PowerOne
<1>13. Same(ae, ak, q)
  <2> DEFINE u == Power(a, f)
             v == Power(u, p)
             fp == f * p
  <2>1. u \in Int /\ Same(u, 1, q)
    BY <1>0, <1>7, Fermat, PowerStep DEF f
  <2>2. v \in Int /\ Same(v, 1, q)
    <3> HIDE DEF u
    <3> QED BY <1>0, <2>1, PowerStep, PowerOf
  <2>3. fp \in Nat
    BY <1>0
  <2>4. Power(a, fp) = v
    BY <1>0, <1>7, PowerTimes
  <2> HIDE DEF fp, v, u
  <2>5. ae = v * ak
    <3>1. e = fp + k
      BY <1>2 DEF fp
    <3> QED BY <1>0, <1>7, <2>3, <2>4, <3>1, PowerPlus
  <2>6. Same(v * ak, one * ak, q)
    <3>1. Same(v, one, q) /\ Same(ak, ak, q)
      BY <1>0, <2>2, SameEquivalence
    <3> HIDE DEF ak, one
    <3> QED BY <1>0, <1>1, <1>10, <2>2, <3>1, SameTimes
  <2>7. one * ak = ak
    <3> HIDE DEF ak
    <3> QED BY <1>10
  <2> QED BY <2>5, <2>6, <2>7
<1>14. ~Same(he, one, q)
  <2>1. Same(he, ae, q)
    BY <1>0, <1>7, <1>8, <1>9, PowerSame
  <2> QED BY <1>0, <1>6, <1>13, <2>1, SameEquivalence
<1>15. Same(ge, one, q)
  BY <1>0, <1>5, <1>9, PowerOf
<1>16. Same(hg, he, q)
  <2> HIDE DEF hg, he, ge, one
  <2>1. Same(he * ge, he * one, q)
    BY <1>0, <1>1, <1>10, <1>15, SameEquivalence, SameTimes
  <2>2. he * one = he
    BY <1>10 DEF one
  <2> QED BY <1>11, <2>1, <2>2
<1>17. ASSUME NEW u \in Int, NEW v \in Int, ~Same(Power(u, e), Power(v, e), q)
       PROVE  Apart(u, v, L, n)
  <2> DEFINE ue == Power(u, e)
             ve == Power(v, e)
  <2>1. ue \in Int /\ ve \in Int
    BY <1>0, PowerStep
  <2>2. ~Same(ue, ve, n)
    <3>1. ~Same(ue, ve, q)
      BY <1>17
    <3> HIDE DEF ue, ve
    <3> QED BY <1>0, <2>1, <3>1, SameFactor
  <2> QED BY <1>0, <2>2, ApartByPowers DEF e
<1>18. Apart(one, h, L, n) /\ Apart(one, h * g, L, n) /\ Apart(g, h, L, n)
  <2>1. ~Same(oe, he, q) /\ ~Same(oe, hg, q) /\ ~Same(ge, he, q)
    BY <1>0, <1>12, <1>14, <1>15, <1>16, SameEquivalence
  <2> DEFINE w == h * g
  <2>2. w \in Int /\ ~Same(oe, Power(w, e), q)
    BY <1>9, <2>1
  <2> HIDE DEF w, one
  <2> QED BY <1>1, <1>9, <1>17, <2>1, <2>2 DEF w
<1>19. Apart(one, g, L, n)
  <2>1. Same(Power(one, m), one, p) /\ Same(Power(one, m), one, q)
    BY <1>0, PowerOne, SameEquivalence
  <2>2. Same(Power(g, m), minus, p) /\ Same(Power(g, m), one, q)
    BY <1>0, <1>1, <1>5, <1>9, PowerOf
  <2>3. ~(one = minus <=> one = one)
    BY <1>1
  <2> HIDE DEF one, minus
  <2> QED BY <1>0, <1>1, <1>9, <2>1, <2>2, <2>3, ApartBySigns
<1>20. L \in SUBSET (1 .. n - 1)
  BY DEF Lying
<1> QED BY <1>0, <1>5, <1>8, <1>18, <1>19, <1>20, FourApart

\* The powers of one plus c, if n divides the square of c.
LEMMA PowerNear ==
  ASSUME NEW n \in Nat \ {0}, NEW c \in Int, Same(c * c, 0, n), NEW k \in Nat
  PROVE  Same(Power(1 + c, k), 1 + k * c, n)
<1> DEFINE g == 1 + c
           S == {i \in Nat : Same(Power(g, i), 1 + i * c, n)}
<1>0. g \in Int
  OBVIOUS
<1>1. 0 \in S
  <2>1. 1 + 0 * c = 1 /\ Power(g, 0) = 1
    <3> HIDE DEF g
    <3> QED BY <1>0, PowerStep
  <2> QED BY <2>1, SameEquivalence
<1>2. ASSUME NEW i \in Nat, i \in S PROVE i + 1 \in S
  <2> DEFINE x == Power(g, i)
             y == 1 + i * c
             z == 1 + (i + 1) * c
  <2>1. x \in Int /\ Power(g, i + 1) = x * g
    <3> HIDE DEF g
    <3> QED BY <1>0, PowerStep
  <2>2. y \in Int /\ z \in Int /\ y * g - z = i * (c * c) /\ y * g \in Int
    OBVIOUS
  <2>3. Same(x * g, y * g, n)
    <3>1. Same(x, y, n) /\ Same(g, g, n)
      BY <1>2, SameEquivalence
    <3> HIDE DEF x, y, g
    <3> QED BY <1>0, <2>1, <2>2, <3>1, SameTimes
  <2>4. Same(i * (c * c), 0, n)
    <3> DEFINE cc == c * c
               zero == 0
    <3>1. cc \in Int /\ zero \in Int /\ i \in Int /\ i * zero = 0 /\ Same(cc, zero, n)
      OBVIOUS
    <3> HIDE DEF cc, zero
    <3>2. Same(i * cc, i * zero, n)
      BY <3>1, SameEquivalence, SameTimes
    <3> QED BY <3>1, <3>2 DEF cc
  <2>5. Same(y * g, z, n)
    <3> DEFINE yg == y * g
    <3>1. yg \in Int /\ Same(yg - z, 0, n)
      BY <2>2, <2>4
    <3> HIDE DEF yg, z
    <3> QED BY <2>2, <3>1, SameDifference DEF yg
  <2>6. Same(Power(g, i + 1), z, n)
    <3> HIDE DEF x, y, z, g
    <3> QED BY <2>1, <2>3, <2>5, SameEquivalence
  <2> QED BY <2>6
<1> HIDE DEF S
<1>3. k \in S
  BY <1>1, <1>2, Induct
<1> QED BY <1>3 DEF S

\* A number that a prime divides twice.
LEMMA SquareFactor ==
  ASSUME NEW p \in Nat, Prime(p), p > 3, NEW c \in Nat \ {0}, NEW n, n = p * c, Same(c, 0, p),
         NEW m \in Nat, NEW L, Lying(L, m, n)
  PROVE  4 * Cardinality(L) <= n - 1
<1> DEFINE e == n - 1
           g == 1 + c
           h == g * g
           cc == c * c
<1>0. p \in Nat \ {0} /\ n \in Nat \ {0} /\ e \in Nat /\ g \in Int /\ h \in Int /\ h * g \in Int
      /\ c \in Int /\ cc \in Int
  OBVIOUS
<1>1. Same(cc, 0, n)
  <2>1. PICK j \in Int : c = j * p
    BY <1>0, Multiple
  <2>2. cc = j * n
    BY <1>0, <2>1
  <2> HIDE DEF cc
  <2> QED BY <1>0, <2>2, Multiple
<1>2. \A k \in Nat : Same(Power(g, k), 1 + k * c, n)
  BY <1>0, <1>1, PowerNear
<1>3. \A i \in Nat : Same(Power(g, i * e), 1 - i * c, n)
  <2> SUFFICES ASSUME NEW i \in Nat PROVE Same(Power(g, i * e), 1 - i * c, n)
    OBVIOUS
  <2> DEFINE k == i * e
             x == 1 + k * c
             y == 1 - i * c
             l == i * c
  <2>1. k \in Nat /\ l \in Int /\ x \in Int /\ y \in Int /\ x = y + l * n
    <3>1. k \in Nat
      <4> HIDE DEF e
      <4> QED BY <1>0
    <3>2. l \in Int /\ x \in Int /\ y \in Int
      BY <3>1
    <3>3. k * c = l * n - l
      BY <1>0
    <3> HIDE DEF k, l
    <3> QED BY <3>1, <3>2, <3>3 DEF l
  <2>2. Same(Power(g, k), x, n)
    <3> HIDE DEF k, g
    <3> QED BY <1>2, <2>1
  <2> HIDE DEF k, x, y, l
  <2>3. Same(x, y, n)
    BY <1>0, <2>1, SameBy
  <2>4. Same(Power(g, k), y, n)
    BY <1>0, <2>2, <2>3, SameEquivalence
  <2> QED BY <2>4 DEF k, y
<1> HIDE DEF g, h, e
<1>4. IsUnit(g, n)
  <2> DEFINE one == 1
             x == 1 + p * c
             k == 1
  <2>1. Same(Power(g, p), x, n)
    BY <1>2
  <2>2. one \in Int /\ x \in Int /\ x = one + k * n /\ k \in Int
    BY <1>0
  <2> HIDE DEF x, one, k
  <2>3. Same(x, one, n)
    BY <1>0, <2>2, SameBy
  <2>4. Same(Power(g, p), one, n)
    BY <1>0, <2>1, <2>3, SameEquivalence
  <2> QED BY <1>0, <2>4 DEF IsUnit, one
<1>5. IsUnit(h, n)
  BY <1>0, <1>4, UnitTimes DEF h
<1>6. /\ Power(1, e) = Power(g, 0 * e) /\ Power(g, e) = Power(g, 1 * e)
      /\ Power(h, e) = Power(g, 2 * e) /\ Power(h * g, e) = Power(g, 3 * e)
  <2> DEFINE ge == Power(g, e)
  <2>1. ge \in Int
    BY <1>0, PowerStep
  <2>2. Power(g, e + e) = ge * ge /\ Power(h, e) = ge * ge
    <3>1. Power(g, e + e) = ge * ge
      BY <1>0, PowerPlus
    <3>2. Power(g * g, e) = ge * ge
      BY <1>0, PowerProduct
    <3> QED BY <3>1, <3>2 DEF h
  <2>3. Power(g, (e + e) + e) = Power(g, e + e) * ge /\ Power(h * g, e) = Power(h, e) * ge
    <3>1. e + e \in Nat
      BY <1>0
    <3> DEFINE k == e + e
    <3>2. k \in Nat
      BY <3>1
    <3> HIDE DEF k
    <3>3. Power(g, k + e) = Power(g, k) * ge
      BY <1>0, <3>2, PowerPlus
    <3>4. Power(h * g, e) = Power(h, e) * ge
      BY <1>0, PowerProduct
    <3> QED BY <3>3, <3>4 DEF k
  <2>4. Power(g, 0) = 1 /\ Power(1, e) = 1
    BY <1>0, PowerStep, PowerOne
  <2>5. 0 * e = 0 /\ 1 * e = e /\ 2 * e = e + e /\ 3 * e = (e + e) + e
    BY <1>0
  <2> QED BY <2>2, <2>3, <2>4, <2>5
<1>7. ASSUME NEW i \in 0 .. 3, NEW j \in 0 .. 3, i < j
      PROVE  ~Same(Power(g, i * e), Power(g, j * e), n)
  <2> DEFINE x == 1 - i * c
             y == 1 - j * c
             r == (j - i) * c
  <2>1. i \in Nat /\ j \in Nat /\ j - i \in {1, 2, 3}
    BY <1>7
  <2>2. x \in Int /\ y \in Int /\ x - y = r
    BY <2>1
  <2>3. r \in 1 .. n - 1
    <3>1. r \in Nat /\ r >= 1 /\ r <= 3 * c
      BY <2>1
    <3>2. 4 * c <= p * c /\ n = p * c
      OBVIOUS
    <3> HIDE DEF r
    <3> QED BY <1>0, <3>1, <3>2
  <2>4. ~Same(r, 0, n)
    <3> HIDE DEF r
    <3>1. r % n = r /\ 0 % n = 0 /\ r # 0
      BY <1>0, <2>3
    <3> QED BY <3>1 DEF Same
  <2>5. ~Same(x, y, n)
    <3> HIDE DEF x, y, r
    <3> QED BY <1>0, <2>2, <2>4, SameDifference
  <2>6. Same(Power(g, i * e), x, n) /\ Same(Power(g, j * e), y, n)
    BY <1>3, <2>1
  <2> HIDE DEF x, y
  <2> QED BY <1>0, <2>5, <2>6, SameEquivalence
<1>8. /\ ~Same(Power(1, e), Power(g, e), n) /\ ~Same(Power(1, e), Power(h, e), n)
      /\ ~Same(Power(1, e), Power(h * g, e), n) /\ ~Same(Power(g, e), Power(h, e), n)
  BY <1>6, <1>7
<1>9. Apart(1, g, L, n) /\ Apart(1, h, L, n) /\ Apart(1, h * g, L, n) /\ Apart(g, h, L, n)
  <2> DEFINE one == 1
             w == h * g
  <2>1. one \in Int /\ w \in Int
    BY <1>0
  <2>2. /\ ~Same(Power(one, e), Power(g, e), n) /\ ~Same(Power(one, e), Power(h, e), n)
        /\ ~Same(Power(one, e), Power(w, e), n) /\ ~Same(Power(g, e), Power(h, e), n)
    BY <1>8
  <2> HIDE DEF one, w
  <2> QED BY <1>0, <2>1, <2>2, ApartByPowers DEF one, w, e
<1>10. L \in SUBSET (1 .. n - 1)
  BY DEF Lying
<1> QED BY <1>0, <1>4, <1>5, <1>9, <1>10, FourApart

\* The theorem of Rabin: of the numbers below n at most a quarter lie about it, if n is
\* odd, not prime, and no multiple of three.
THEOREM Rabin ==
  ASSUME NEW n \in Nat, n > 1, ~Prime(n), n % 2 # 0, n % 3 # 0,
         NEW m \in Nat \ {0}, NEW b \in Int, Same(Power(b, m), -1, n),
         NEW L, Lying(L, m, n)
  PROVE  4 * Cardinality(L) <= n - 1
<1>1. PICK p \in Nat, c \in Nat \ {0} : Prime(p) /\ n = p * c
  BY PrimeFactor
<1>2. ASSUME NEW r \in Nat, Prime(r), NEW f \in Nat, n = r * f
      PROVE  r > 3 /\ r \in Nat \ {0}
  <2>1. r > 1
    BY <1>2 DEF Prime
  <2>2. r # 2 /\ r # 3
    BY <1>2
  <2> QED BY <2>1, <2>2
<1>3. p > 3 /\ p \in Nat \ {0}
  BY <1>1, <1>2
<1>4. CASE Same(c, 0, p)
  BY <1>1, <1>3, <1>4, SquareFactor
<1>5. CASE ~Same(c, 0, p)
  <2>1. c > 1
    <3> SUFFICES ASSUME c = 1 PROVE FALSE
      OBVIOUS
    <3>1. n = p
      BY <1>1
    <3> QED BY <1>1, <3>1
  <2>2. PICK q \in Nat, d \in Nat \ {0} : Prime(q) /\ c = q * d
    BY <2>1, PrimeFactor
  <2> DEFINE pd == p * d
  <2>3. pd \in Nat \ {0} /\ n = q * pd
    BY <1>1, <1>3, <2>2
  <2>4. q > 3 /\ q \in Nat \ {0}
    <3> HIDE DEF pd
    <3> QED BY <1>2, <2>2, <2>3
  <2>5. CASE Same(pd, 0, q)
    <3> HIDE DEF pd
    <3> QED BY <2>2, <2>3, <2>4, <2>5, SquareFactor
  <2>6. CASE ~Same(pd, 0, q) /\ d = 1
    <3>1. n = p * q /\ n = q * p
      BY <1>1, <1>3, <2>2, <2>4, <2>6
    <3>2. p # q
      <4> SUFFICES ASSUME p = q PROVE FALSE
        OBVIOUS
      <4>1. c = p /\ p % p = 0 /\ 0 % p = 0
        BY <1>3, <2>2, <2>6
      <4> QED BY <1>5, <4>1 DEF Same
    <3>3. CASE p < q
      BY <1>1, <1>3, <2>2, <3>1, <3>3, TwoFactors
    <3>4. CASE q < p
      BY <1>1, <2>2, <2>4, <3>1, <3>4, TwoFactors
    <3> QED BY <1>3, <2>4, <3>2, <3>3, <3>4
  <2>7. CASE ~Same(pd, 0, q) /\ d # 1
    <3>1. d # 2
      <4> SUFFICES ASSUME d = 2 PROVE FALSE
        OBVIOUS
      <4>1. n = 2 * (p * q) /\ p * q \in Int
        BY <1>1, <1>3, <2>2, <2>4
      <4> DEFINE pq == p * q
      <4> HIDE DEF pq
      <4>2. n = 2 * pq /\ pq \in Int
        BY <4>1 DEF pq
      <4> QED BY <4>2
    <3>2. d > 2 /\ d \in Nat /\ n = p * (q * d) /\ ~Same(q * d, 0, p) /\ ~Same(p * d, 0, q)
      BY <1>1, <1>5, <2>2, <2>7, <3>1
    <3> QED BY <1>1, <1>3, <2>2, <2>4, <3>2, ThreeFactors
  <2> QED BY <2>5, <2>6, <2>7
<1> QED BY <1>4, <1>5

=============================================================================
