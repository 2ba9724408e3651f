---------------------------- MODULE SignatureProofs ----------------------------
(***************************************************************************)
(* Signatures for keys of every size (Signature), and the primality test   *)
(* for every number (Primality).                                           *)
(*                                                                         *)
(* What a key is made of is what the loop of generate let through: two     *)
(* different primes, a product of the width asked for, and an exponent     *)
(* with an inverse.  SignatureInv keeps that beside the key; the rest is   *)
(* number theory.  So it is for the primality test, where all that counts  *)
(* of trial division is that it leaves no multiple of two or three.        *)
(***************************************************************************)
EXTENDS Signature, Primality, ArithmeticTheorems

SignatureInv ==
  /\ bits \in KeySizes
  /\ p \in GeneratedPrimes \cup {Nothing}
  /\ q \in GeneratedPrimes \cup {Nothing}
  /\ q # Nothing => p # Nothing
  /\ key # NoKey =>
       /\ p # Nothing /\ q # Nothing /\ ~Unusable
       /\ key = [n |-> p * q, d |-> ModInverse(E, Phi)]
  /\ digest # Nothing =>
       /\ key # NoKey /\ digest \in Nat /\ presented \in Nat
       /\ verified = IF Verify(key.n, digest, presented) THEN "yes" ELSE "no"

\* The primes stay, and with them what they determine, once there is a key.
LEMMA SignatureInductive ==
  Spec => []SignatureInv
<1>1. Init => SignatureInv
  BY DEF Init, SignatureInv
<1>2. ASSUME SignatureInv, [Next]_vars PROVE SignatureInv'
  <2>1. bits' = bits /\ GeneratedPrimes' = GeneratedPrimes
    BY <1>2 DEF Next, vars, DrawP, DrawQ, Retry, Generated, PresentSignature, GeneratedPrimes
  <2>2. bits' \in KeySizes
    BY <1>2, <2>1 DEF SignatureInv
  <2>3. CASE UNCHANGED vars
    <3>1. p' = p /\ q' = q /\ key' = key /\ digest' = digest
          /\ presented' = presented /\ verified' = verified
      BY <2>3 DEF vars
    <3>2. Unusable' = Unusable /\ Phi' = Phi
      BY <2>1, <3>1 DEF Unusable, Phi
    <3> QED BY <1>2, <2>1, <3>1, <3>2 DEF SignatureInv
  <2>4. CASE DrawP
    <3>1. p' \in GeneratedPrimes /\ q' = q /\ key' = key /\ digest' = digest /\ p = Nothing
      BY <2>4 DEF DrawP
    <3>2. key = NoKey /\ digest = Nothing
      BY <1>2, <3>1 DEF SignatureInv
    <3> QED BY <1>2, <2>1, <3>1, <3>2 DEF SignatureInv
  <2>5. CASE DrawQ
    <3>1. q' \in GeneratedPrimes /\ p' = p /\ key' = key /\ digest' = digest /\ q = Nothing
          /\ p # Nothing
      BY <2>5 DEF DrawQ
    <3>2. key = NoKey /\ digest = Nothing
      BY <1>2, <3>1 DEF SignatureInv
    <3> QED BY <1>2, <2>1, <3>1, <3>2 DEF SignatureInv
  <2>6. CASE Retry
    <3>1. p' = Nothing /\ q' = Nothing /\ key' = key /\ digest' = digest /\ key = NoKey
      BY <2>6 DEF Retry
    <3>2. digest = Nothing
      BY <1>2, <3>1 DEF SignatureInv
    <3> QED BY <2>2, <3>1, <3>2 DEF SignatureInv
  <2>7. CASE Generated
    <3>1. /\ q # Nothing /\ key = NoKey /\ ~Unusable /\ digest' = digest
          /\ key' = [n |-> p * q, d |-> ModInverse(E, Phi)] /\ p' = p /\ q' = q
      BY <2>7 DEF Generated
    <3>2. digest = Nothing
      BY <1>2, <3>1 DEF SignatureInv
    <3>3. p # Nothing
      BY <1>2, <3>1 DEF SignatureInv
    <3>4. Unusable' = Unusable /\ Phi' = Phi
      BY <2>1, <3>1 DEF Unusable, Phi
    <3> QED BY <1>2, <2>1, <3>1, <3>2, <3>3, <3>4 DEF SignatureInv
  <2>8. CASE PresentSignature
    <3>1. /\ p' = p /\ q' = q /\ key' = key /\ key # NoKey
          /\ digest' \in Expansions /\ presented' \in 0 .. Presented
          /\ verified' = IF Verify(key.n, digest', presented') THEN "yes" ELSE "no"
      BY <2>8 DEF PresentSignature
    <3>2. digest' \in Nat /\ presented' \in Nat
      BY <3>1, SignatureAssumption
    <3>3. Unusable' = Unusable /\ Phi' = Phi
      BY <2>1, <3>1 DEF Unusable, Phi
    <3> QED BY <1>2, <2>1, <3>1, <3>2, <3>3 DEF SignatureInv
  <2> QED BY <1>2, <2>3, <2>4, <2>5, <2>6, <2>7, <2>8 DEF Next
<1> QED BY <1>1, <1>2, PTL DEF Spec

-----------------------------------------------------------------------------
(* The width of the modulus. *)

\* The primes drawn are at least three quarters of a power of two.
LEMMA DrawnPrimes ==
  ASSUME bits \in KeySizes, NEW r \in GeneratedPrimes
  PROVE  LET h == bits \div 2
             w == 2 ^ (h - 2)
         IN  /\ bits = 2 * h /\ h \in Nat /\ h >= 2 /\ w \in Nat \ {0}
             /\ r \in Nat /\ Prime(r) /\ r >= 3 * w /\ r < 4 * w /\ r >= 3
<1> DEFINE h == bits \div 2
           k == h - 2
           w == 2 ^ k
<1>1. bits \in Nat /\ bits % 2 = 0 /\ bits >= 4
  BY SignatureAssumption
<1>2. bits = 2 * h /\ h \in Nat /\ h >= 2
  BY <1>1
<1> HIDE DEF h
<1>3. k \in Nat /\ (k + 1) + 1 = h
  BY <1>2
<1> HIDE DEF k
<1>4. w \in Nat \ {0} /\ 2 ^ h = 4 * w
  <2>1. 2 ^ (k + 1) = 2 * 2 ^ k /\ 2 ^ ((k + 1) + 1) = 2 * 2 ^ (k + 1)
    <3>1. k + 1 \in Nat
      BY <1>3
    <3> QED BY <1>3, <3>1, TwoNext
  <2>2. w \in Nat \ {0}
    BY <1>3, TwoPlus
  <2>3. 2 ^ (k + 1) = 2 * w /\ 2 ^ h = 2 * 2 ^ (k + 1)
    BY <1>3, <2>1
  <2> HIDE DEF w
  <2> QED BY <2>2, <2>3
<1>5. r \in 3 * w .. 2 ^ h - 1 /\ Prime(r)
  BY DEF GeneratedPrimes, h, k
<1> HIDE DEF w
<1>6. r \in Nat /\ r >= 3 * w /\ r < 4 * w /\ r >= 3
  BY <1>4, <1>5
<1> QED BY <1>2, <1>4, <1>5, <1>6 DEF w, k, h

\* The product of two such primes has the width asked for.
LEMMA WidthOfProduct ==
  ASSUME bits \in KeySizes, NEW r \in GeneratedPrimes, NEW s \in GeneratedPrimes
  PROVE  Bits(r * s) = bits
<1> DEFINE h == bits \div 2
           k == h - 2
           w == 2 ^ k
           v == w * w
           n == r * s
<1>1. /\ bits = 2 * h /\ h \in Nat /\ h >= 2 /\ w \in Nat \ {0}
      /\ r \in Nat /\ r >= 3 * w /\ r < 4 * w
      /\ s \in Nat /\ s >= 3 * w /\ s < 4 * w
  BY DrawnPrimes
<1> HIDE DEF h
<1>2. k \in Nat /\ bits - 1 = (k + k) + 3 /\ bits = ((k + k) + 3) + 1
  BY <1>1
<1> HIDE DEF k
<1>3. 2 ^ (k + k) = v
  BY <1>2, TwoPlus
<1>4. 2 ^ ((k + k) + 3) = 8 * v /\ 2 ^ (((k + k) + 3) + 1) = 16 * v
  <2> DEFINE j == k + k
  <2>1. j \in Nat /\ j + 1 \in Nat /\ (j + 1) + 1 \in Nat /\ ((j + 1) + 1) + 1 \in Nat
        /\ ((j + 1) + 1) + 1 = j + 3
    BY <1>2
  <2> HIDE DEF j
  <2>2. /\ 2 ^ (j + 1) = 2 * 2 ^ j /\ 2 ^ ((j + 1) + 1) = 2 * 2 ^ (j + 1)
        /\ 2 ^ (((j + 1) + 1) + 1) = 2 * 2 ^ ((j + 1) + 1)
        /\ 2 ^ ((((j + 1) + 1) + 1) + 1) = 2 * 2 ^ (((j + 1) + 1) + 1)
    BY <2>1, TwoNext
  <2>3. 2 ^ j = v
    BY <1>3 DEF j
  <2>4. v \in Int
    BY <1>1
  <2> HIDE DEF v
  <2>5. 2 ^ (j + 3) = 8 * v /\ 2 ^ ((j + 3) + 1) = 16 * v
    BY <2>1, <2>2, <2>3, <2>4
  <2> QED BY <2>5 DEF j
<1> HIDE DEF w
<1>5. n \in Nat /\ n >= 9 * v /\ n < 16 * v /\ v \in Nat
  <2>1. v \in Nat /\ n \in Nat
    BY <1>1
  <2>2. r * s >= (3 * w) * s /\ (3 * w) * s >= (3 * w) * (3 * w)
    BY <1>1
  <2>3. r * s <= (4 * w) * s /\ (4 * w) * s < (4 * w) * (4 * w)
    BY <1>1
  <2>4. (3 * w) * (3 * w) = 9 * v /\ (4 * w) * (4 * w) = 16 * v
    BY <1>1
  <2>5. (3 * w) * s \in Int /\ (4 * w) * s \in Int
    BY <1>1
  <2> QED BY <2>1, <2>2, <2>3, <2>4, <2>5
<1>6. bits \in Nat /\ bits > 0
  BY <1>1
<1> HIDE DEF v, n
<1>7. n < 2 ^ bits /\ n >= 2 ^ (bits - 1)
  BY <1>2, <1>4, <1>5
<1>8. Bits(n) = bits
  BY <1>5, <1>6, <1>7, BitsIs
<1> QED BY <1>8 DEF n

-----------------------------------------------------------------------------
(* The exponents. *)

\* The inverse is one.
LEMMA InverseExponent ==
  ASSUME NEW a \in Nat \ {0}, NEW m \in Nat, m > 1, ExtendedGcd(m, a).gcd = 1
  PROVE  LET d == ModInverse(a, m)
         IN  /\ d \in 1 .. m - 1
             /\ ((a % m) * d) % m = 1
             /\ \E k \in Nat : a * d = k * m + 1
<1> DEFINE g == ExtendedGcd(a, m)
           x == g.x
           y == g.y
           d == x % m
           b == a % m
           ad == a * d
           bd == b * d
           ax == a * x
<1>0. m \in Nat \ {0} /\ a \in Int
  OBVIOUS
<1>1. x \in Int /\ y \in Int /\ 1 = a * x + m * y
  <2>1. g.gcd = 1
    BY <1>0, GcdSymmetric
  <2>2. g.gcd = a * g.x + m * g.y /\ g.x \in Int /\ g.y \in Int
    <3>1. a \in Nat
      OBVIOUS
    <3> QED BY <3>1, Bezout
  <2> QED BY <2>1, <2>2
<1>2. g.gcd = 1
  BY <1>0, GcdSymmetric
<1> HIDE DEF g, x, y
<1>3. ax \in Int /\ Same(ax, 1, m)
  <2>1. ax \in Int /\ -y \in Int /\ ax = 1 + (-y) * m
    BY <1>0, <1>1
  <2> HIDE DEF ax
  <2> DEFINE one == 1
             k == -y
  <2>2. one \in Int /\ k \in Int /\ ax = one + k * m
    BY <2>1
  <2> HIDE DEF one, k
  <2>3. Same(ax, one, m)
    BY <1>0, <2>1, <2>2, SameBy
  <2> QED BY <2>1, <2>3 DEF one
<1>4. d \in 0 .. m - 1 /\ Same(d, x, m) /\ b \in 0 .. m - 1 /\ Same(b, a, m)
  BY <1>0, <1>1, SameMod
<1> HIDE DEF d, b
<1>5. d \in Int /\ b \in Int
  BY <1>0, <1>4
<1>6. Same(ad, ax, m)
  <2>1. Same(a, a, m)
    BY <1>0, SameEquivalence
  <2> QED BY <1>0, <1>1, <1>4, <1>5, <2>1, SameTimes
<1>7. Same(bd, ad, m)
  <2>1. Same(d, d, m)
    BY <1>0, SameEquivalence
  <2> QED BY <1>0, <1>4, <1>5, <2>1, SameTimes
<1>8. ad \in Nat /\ bd \in Int
  BY <1>0, <1>4, <1>5
<1>9. d # 0
  <2> SUFFICES ASSUME d = 0 PROVE FALSE
    OBVIOUS
  <2>1. ad = 0
    BY <1>0
  <2>2. Same(0, 1, m)
    BY <1>0, <1>3, <1>6, <2>1, SameEquivalence
  <2>3. 0 % m = 0 /\ 1 % m = 1
    BY <1>0
  <2> QED BY <2>2, <2>3 DEF Same
<1> HIDE DEF ad, bd, ax
<1>10. Same(ad, 1, m) /\ Same(bd, 1, m)
  BY <1>0, <1>3, <1>6, <1>7, SameEquivalence
<1>11. bd % m = 1
  <2>1. 1 % m = 1
    BY <1>0
  <2> QED BY <1>10, <2>1 DEF Same
<1>12. \E k \in Nat : ad = k * m + 1
  <2> DEFINE one == 1
  <2>1. one \in Int /\ Same(ad, one, m) /\ ad \in Int
    BY <1>8, <1>10
  <2> HIDE DEF one
  <2>2. PICK k \in Int : ad = one + k * m
    BY <1>0, <2>1, SameBy
  <2>3. ad = 1 + k * m
    BY <2>2 DEF one
  <2>4. k >= 0
    <3> SUFFICES ASSUME k < 0 PROVE FALSE
      OBVIOUS
    <3>1. (-k) * m >= m /\ k * m = -((-k) * m)
      BY <1>0
    <3>2. (-k) * m \in Int
      BY <1>0
    <3> QED BY <1>0, <1>8, <2>3, <3>1, <3>2
  <2>5. k \in Nat /\ ad = k * m + 1
    BY <1>0, <2>3, <2>4
  <2> QED BY <2>5
<1>13. d \in 1 .. m - 1
  BY <1>4, <1>9
<1>14. d = ModInverse(a, m)
  BY <1>2 DEF ModInverse, d, x, g
<1> QED BY <1>11, <1>12, <1>13, <1>14 DEF ad, bd, b

\* What a key is made of.
LEMMA KeyFacts ==
  ASSUME SignatureInv, key # NoKey
  PROVE  /\ p \in Nat /\ Prime(p) /\ q \in Nat /\ Prime(q) /\ p # q
         /\ p \in GeneratedPrimes /\ q \in GeneratedPrimes /\ bits \in KeySizes
         /\ key.n = p * q /\ Bits(p * q) = bits /\ p * q \in Nat \ {0}
         /\ Phi \in Nat /\ Phi > 1
         /\ key.d \in 1 .. Phi - 1 /\ ((E % Phi) * key.d) % Phi = 1
         /\ \E k \in Nat : E * key.d = k * Phi + 1
<1>1. /\ p \in GeneratedPrimes /\ q \in GeneratedPrimes /\ bits \in KeySizes
      /\ p # q /\ Bits(p * q) = bits /\ ExtendedGcd(Phi, E).gcd = 1
      /\ key.n = p * q /\ key.d = ModInverse(E, Phi)
  BY DEF SignatureInv, Unusable
<1>2. p \in Nat /\ Prime(p) /\ p >= 3 /\ q \in Nat /\ Prime(q) /\ q >= 3
  BY <1>1, DrawnPrimes
<1>3. p * q \in Nat \ {0}
  BY <1>2
<1>4. Phi \in Nat /\ Phi > 1
  <2> DEFINE a == p - 1
             b == q - 1
  <2>1. a \in Nat /\ b \in Nat /\ a >= 2 /\ b >= 2
    BY <1>2
  <2> HIDE DEF a, b
  <2>2. a * b \in Nat /\ a * b >= b + b
    BY <2>1
  <2>3. a * b > 1
    BY <2>1, <2>2
  <2> QED BY <2>2, <2>3 DEF Phi, a, b
<1>5. /\ key.d \in 1 .. Phi - 1 /\ ((E % Phi) * key.d) % Phi = 1
      /\ \E k \in Nat : E * key.d = k * Phi + 1
  <2> DEFINE m == Phi
             e == E
  <2>1. e \in Nat \ {0} /\ m \in Nat /\ m > 1 /\ ExtendedGcd(m, e).gcd = 1
    BY <1>1, <1>4 DEF E
  <2> HIDE DEF m, e
  <2>2. /\ ModInverse(e, m) \in 1 .. m - 1 /\ ((e % m) * ModInverse(e, m)) % m = 1
        /\ \E k \in Nat : e * ModInverse(e, m) = k * m + 1
    BY <2>1, InverseExponent
  <2> QED BY <1>1, <2>2 DEF m, e
<1> QED BY <1>1, <1>2, <1>3, <1>4, <1>5

-----------------------------------------------------------------------------
(* What is promised of keys and signatures. *)

\* No pair of primes is drawn again because of its width (signature.rs,
\* generate_prime), for any key size.
THEOREM WidthIsFull == Spec => []FullWidth
<1>1. SignatureInv => FullWidth
  <2> SUFFICES ASSUME SignatureInv, p # Nothing, q # Nothing PROVE Bits(p * q) = bits
    BY DEF FullWidth
  <2>1. bits \in KeySizes /\ p \in GeneratedPrimes /\ q \in GeneratedPrimes
    BY DEF SignatureInv
  <2> QED BY <2>1, WidthOfProduct
<1> QED BY <1>1, SignatureInductive, PTL

\* The exponents of every key are each other's inverses (signature.rs, mod_inverse).
THEOREM ExponentsAreInverse == Spec => []ExponentsInvert
<1>1. SignatureInv => ExponentsInvert
  BY KeyFacts DEF ExponentsInvert
<1> QED BY <1>1, SignatureInductive, PTL

\* The masked hash is below the modulus, for every key of whole bytes
\* (signature.rs, full_domain_hash).
THEOREM MaskedIsBelow == Spec => []MaskKeepsBelow
<1>1. SignatureInv => MaskKeepsBelow
  <2> SUFFICES ASSUME SignatureInv, key # NoKey, bits % 8 = 0,
                      NEW rest, rest = 2 ^ (8 * (ModulusBytes(key.n) - 1)),
                      NEW first \in 0 .. 255
               PROVE  Masked(key.n, first * rest + (rest - 1)) < key.n
    BY DEF MaskKeepsBelow
  <2> DEFINE n == key.n
             m == ModulusBytes(n)
  <2>1. n \in Nat /\ n > 0 /\ Bits(n) = bits /\ bits \in Nat /\ bits >= 4
    BY KeyFacts, SignatureAssumption
  <2>2. m \in Nat /\ m >= 1 /\ 8 * m = bits
    <3>1. m = (bits + 7) \div 8
      BY <2>1 DEF ModulusBytes
    <3> HIDE DEF m
    <3> QED BY <2>1, <3>1
  <2> HIDE DEF m, n
  <2>3. 8 * (m - 1) \in Nat /\ 8 * m - 2 \in Nat /\ bits - 1 \in Nat /\ 8 * m - 2 <= bits - 1
    BY <2>2
  <2>4. rest \in Nat
    BY <2>3, TwoPlus DEF m, n
  <2>5. first * rest + (rest - 1) \in Int
    BY <2>4
  <2> DEFINE x == first * rest + (rest - 1)
             w == 2 ^ (8 * m - 2)
             v == 2 ^ (bits - 1)
  <2>6. x \in Int /\ w \in Nat \ {0} /\ v \in Nat /\ w <= v
    BY <2>3, <2>5, TwoPlus, TwoMonotone
  <2>7. v <= n
    BY <2>1, BitsExist
  <2>8. Masked(n, x) = x % w
    BY DEF Masked, m
  <2> HIDE DEF x, w, v
  <2>9. x % w < w /\ x % w \in Int
    BY <2>6
  <2>10. Masked(n, x) < n
    BY <2>1, <2>6, <2>7, <2>8, <2>9
  <2> QED BY <2>10 DEF x, n
<1> QED BY <1>1, SignatureInductive, PTL

\* Of all values presented for a digest exactly the one its key signs it with
\* verifies (signature.rs, sign and verify), for keys of every size.
THEOREM OnlySignatureVerifies == Spec => []OnlyTheSignature
<1>1. SignatureInv => OnlyTheSignature
  <2> SUFFICES ASSUME SignatureInv, digest # Nothing
               PROVE  verified = "yes" <=> presented = SignDigest(key, digest)
    BY DEF OnlyTheSignature
  <2> DEFINE n == p * q
             h == FullDomainHash(key.n, digest)
             d == key.d
             e == E
  <2>1. /\ key # NoKey /\ digest \in Nat /\ presented \in Nat
        /\ verified = "yes" <=> Verify(key.n, digest, presented)
    BY DEF SignatureInv
  <2>2. /\ p \in Nat /\ Prime(p) /\ q \in Nat /\ Prime(q) /\ p # q
        /\ key.n = n /\ n \in Nat \ {0} /\ Phi \in Nat /\ d \in 1 .. Phi - 1
    BY <2>1, KeyFacts
  <2>3. PICK k \in Nat : e * d = k * ((p - 1) * (q - 1)) + 1
    BY <2>1, KeyFacts DEF Phi
  <2>4. d \in Nat /\ e \in Nat
    BY <2>2 DEF E
  <2>5. h \in 0 .. n - 1
    <3> DEFINE w == 2 ^ (8 * ModulusBytes(n) - 2)
               y == digest % w
    <3>1. ModulusBytes(n) \in Nat /\ 8 * ModulusBytes(n) - 2 \in Nat
      <4>1. Bits(n) \in Nat /\ Bits(n) > 0
        <5> HIDE DEF n
        <5> QED BY <2>2, BitsExist
      <4> DEFINE b == Bits(n)
                 m == (b + 7) \div 8
      <4>2. b \in Nat /\ b > 0
        BY <4>1
      <4> HIDE DEF b
      <4>3. m \in Nat /\ m >= 1
        BY <4>2
      <4> HIDE DEF m
      <4>4. m \in Nat /\ 8 * m - 2 \in Nat
        BY <4>3
      <4> QED BY <4>4 DEF m, b, ModulusBytes
    <3>2. w \in Nat \ {0}
      BY <3>1, TwoPlus
    <3>3. h = y % n
      BY <2>2 DEF FullDomainHash, Masked
    <3> HIDE DEF w, n, h
    <3>4. y \in Int
      BY <2>1, <3>2
    <3> HIDE DEF y
    <3> QED BY <2>2, <3>3, <3>4
  <2>6. Verify(key.n, digest, presented) <=> presented < n /\ ModPow(presented, e, n) = h
    BY <2>2 DEF Verify
  <2>7. SignDigest(key, digest) = ModPow(h, d, n)
    BY <2>2 DEF SignDigest
  <2> HIDE DEF h, d, e
  <2>8. Undo(e, d, n)
    <3>1. \A x \in Int : Same(Power(x, e * d), x, n)
      BY <2>2, <2>3, RSA
    <3> QED BY <3>1 DEF Undo
  <2> HIDE DEF n
  <2>9. presented < n /\ ModPow(presented, e, n) = h <=> presented = ModPow(h, d, n)
    <3> DEFINE s == presented
    <3>1. n \in Nat \ {0} /\ s \in Nat
      BY <2>1, <2>2
    <3> HIDE DEF s
    <3>2. s < n /\ ModPow(s, e, n) = h <=> s = ModPow(h, d, n)
      BY <2>4, <2>5, <2>8, <3>1, OnlyRoot
    <3> QED BY <3>2 DEF s
  <2> QED BY <2>1, <2>6, <2>7, <2>9
<1> QED BY <1>1, SignatureInductive, PTL

-----------------------------------------------------------------------------
(* The primality test. *)

\* Modulo a prime, one has only the two square roots.
LEMMA RootsOfOne ==
  ASSUME NEW n \in Nat, Prime(n), NEW y \in Int, Same(y * y, 1, n)
  PROVE  Same(y, 1, n) \/ Same(y, n - 1, n)
<1>0. n \in Nat \ {0}
  BY DEF Prime
<1> DEFINE u == y - 1
           v == y + 1
           t == y * y
           w == n - 1
<1>1. t \in Int /\ t - 1 = u * v /\ u \in Int /\ v \in Int /\ w \in Int
  OBVIOUS
<1>2. Same(t - 1, 0, n)
  <2> HIDE DEF t
  <2> QED BY <1>0, <1>1, SameDifference DEF t
<1> HIDE DEF t
<1>3. Same(u, 0, n) \/ Same(v, 0, n)
  <2> HIDE DEF u, v
  <2> QED BY <1>1, <1>2, PrimeDivides
<1>4. CASE Same(u, 0, n)
  <2> DEFINE one == 1
  <2>1. one \in Int /\ Same(y - one, 0, n)
    BY <1>4
  <2> HIDE DEF one
  <2>2. Same(y, one, n)
    BY <1>0, <2>1, SameDifference, ZenonT(60)
  <2> QED BY <2>2 DEF one
<1>5. CASE Same(v, 0, n)
  <2>1. \E k \in Int : v = 0 + k * n
    <3> DEFINE zero == 0
    <3>1. zero \in Int /\ Same(v, zero, n)
      BY <1>5
    <3> HIDE DEF zero, v
    <3>2. \E k \in Int : v = zero + k * n
      BY <1>0, <1>1, <3>1, SameBy
    <3> QED BY <3>2 DEF zero
  <2>2. PICK k \in Int : v = 0 + k * n
    BY <2>1
  <2> DEFINE j == k - 1
  <2>3. j \in Int /\ y = w + j * n
    BY <1>0, <2>2
  <2> HIDE DEF j, w
  <2>4. Same(y, w, n)
    BY <1>0, <1>1, <2>3, SameBy
  <2> QED BY <2>4 DEF w
<1> QED BY <1>3, <1>4, <1>5

\* A prime passes with every base: the last of the squares is one, so the first
\* square that is one has n - 1 before it, or is no square.
LEMMA PrimePasses ==
  ASSUME NEW n \in Nat, Prime(n), n > 2, n % 2 = 1, NEW base \in Bases(n)
  PROVE  RoundPasses(n, base)
<1> DEFINE m == n - 1
           z == TrailingZeros(m)
           c == OddPart(m)
           e(i) == c * 2 ^ i
           x(i) == ModPow(base, e(i), n)
           One == {i \in Nat : x(i) = 1}
<1>0. n \in Nat \ {0} /\ n > 2 /\ base \in 2 .. n - 2 /\ base \in Int /\ m \in Nat \ {0}
  BY DEF Bases
<1>1. z \in Nat /\ c \in Nat /\ c % 2 = 1 /\ m = c * 2 ^ z
  <2> HIDE DEF m
  <2> QED BY <1>0, OddTimesPower DEF OddPart
<1>2. m % 2 = 0
  BY <1>0
<1>3. z # 0
  <2> SUFFICES ASSUME z = 0 PROVE FALSE
    OBVIOUS
  <2>1. 2 ^ z = 1
    BY TwoZero
  <2> HIDE DEF m, z, c
  <2>2. m = c
    BY <1>1, <2>1
  <2> QED BY <1>1, <1>2, <2>2
<1> HIDE DEF z, c
<1>4. ASSUME NEW i \in Nat
      PROVE  /\ e(i) \in Nat /\ e(i + 1) = e(i) + e(i)
             /\ Power(base, e(i)) \in Int /\ x(i) = Power(base, e(i)) % n
             /\ x(i) \in 0 .. n - 1 /\ Same(x(i), Power(base, e(i)), n)
  <2> DEFINE w == 2 ^ i
             f == e(i)
  <2>1. w \in Nat /\ 2 ^ (i + 1) = 2 * w
    BY TwoNext
  <2>2. f \in Nat /\ e(i + 1) = f + f
    <3> HIDE DEF w
    <3>1. f = c * w /\ e(i + 1) = c * (2 * w)
      BY <2>1 DEF w
    <3> HIDE DEF f, e
    <3> QED BY <1>1, <2>1, <3>1
  <2> HIDE DEF f, e
  <2> DEFINE y == Power(base, f)
  <2>3. y \in Int /\ ModPow(base, f, n) = y % n
    BY <1>0, <2>2, PowerStep, ModPowIs
  <2> HIDE DEF y
  <2>4. y % n \in 0 .. n - 1 /\ Same(y % n, y, n)
    BY <1>0, <2>3, SameMod
  <2> QED BY <2>2, <2>3, <2>4 DEF y, f
<1>5. e(z) = m
  BY <1>1
<1> HIDE DEF e, x
<1>6. z \in One
  <2>1. ~Same(base, 0, n)
    BY <1>0 DEF Same
  <2>2. Same(Power(base, m), 1, n)
    BY <1>0, <2>1, Fermat
  <2>3. x(z) \in 0 .. n - 1 /\ Same(x(z), Power(base, m), n)
    BY <1>1, <1>4, <1>5
  <2>4. Same(x(z), 1, n)
    BY <1>0, <2>2, <2>3, SameEquivalence
  <2>5. x(z) = 1
    <3> DEFINE a == x(z)
    <3>1. a % n = 1 % n /\ a \in 0 .. n - 1
      BY <2>3, <2>4 DEF Same
    <3> HIDE DEF a
    <3>2. a % n = a /\ 1 % n = 1
      BY <1>0, <3>1
    <3> QED BY <3>1, <3>2 DEF a
  <2> QED BY <1>1, <2>5
<1>7. PICK i \in One : \A j \in One : i <= j
  <2>1. One \in SUBSET Nat
    OBVIOUS
  <2> HIDE DEF One
  <2> QED BY <1>6, <2>1, Least
<1>8. i \in Nat /\ x(i) = 1 /\ i <= z /\ \A j \in Nat : x(j) = 1 => i <= j
  BY <1>6, <1>7
<1> HIDE DEF One
<1>9. RoundPasses(n, base) <=> x(0) \in {1, m} \/ \E j \in 1 .. z - 1 : x(j) = m
  BY DEF RoundPasses, x, e, z, c
<1>10. CASE i = 0
  BY <1>8, <1>9, <1>10
<1>11. CASE i # 0
  <2> DEFINE j == i - 1
             y == x(j)
             P == Power(base, e(j))
  <2>1. j \in Nat /\ i = j + 1 /\ j <= z - 1 /\ ~(i <= j)
    BY <1>1, <1>8, <1>11
  <2> HIDE DEF j
  <2>2. y # 1 /\ y \in 0 .. n - 1 /\ Same(y, P, n) /\ P \in Int /\ e(j) \in Nat
    BY <1>4, <1>8, <2>1
  <2>3. Power(base, e(i)) = P * P
    <3>1. e(i) = e(j) + e(j)
      BY <1>4, <2>1
    <3> QED BY <1>0, <2>2, <3>1, PowerPlus
  <2>4. Same(1, P * P, n)
    BY <1>4, <1>8, <2>3
  <2> HIDE DEF P, y
  <2>5. Same(y * y, P * P, n) /\ y \in Int
    <3>1. y \in Int
      BY <1>0, <2>2
    <3> QED BY <1>0, <2>2, <3>1, SameTimes
  <2>6. Same(y * y, 1, n)
    BY <1>0, <2>4, <2>5, SameEquivalence
  <2>7. Same(y, 1, n) \/ Same(y, m, n)
    BY <2>5, <2>6, RootsOfOne
  <2>8. y % n = y /\ 1 % n = 1 /\ m % n = m
    BY <1>0, <2>2
  <2>9. y = m
    BY <2>2, <2>7, <2>8 DEF Same
  <2>10. CASE j = 0
    BY <1>9, <2>9, <2>10 DEF y
  <2>11. CASE j # 0
    <3>1. j \in 1 .. z - 1
      BY <1>1, <2>1, <2>11
    <3> QED BY <1>9, <2>9, <3>1 DEF y
  <2> QED BY <2>10, <2>11
<1> QED BY <1>10, <1>11

\* What trial division turns away is not prime.
LEMMA TrialDivisionRight ==
  ASSUME NEW n \in Nat
  PROVE  /\ TrialDivision(n) = "composite" => ~Prime(n)
         /\ TrialDivision(n) = "undecided" => n > 2 /\ n % 2 = 1 /\ n % 3 # 0
<1>0. n < 2 \/ n = 2 \/ (n > 2 /\ n % 2 = 0) \/ (n > 2 /\ n % 2 = 1)
  OBVIOUS
<1>1. CASE n < 2
  <2>1. TrialDivision(n) = "composite"
    BY <1>1 DEF TrialDivision
  <2> QED BY <1>1, <2>1 DEF Prime
<1>2. CASE n = 2
  <2>1. TrialDivision(n) = "prime"
    BY <1>2 DEF TrialDivision
  <2> QED BY <2>1
<1>3. CASE n > 2 /\ n % 2 = 0
  <2>1. TrialDivision(n) = "composite"
    BY <1>3 DEF TrialDivision
  <2>2. 2 \in 2 .. n - 1 /\ ~(2 * 2 > n)
    BY <1>3
  <2> QED BY <1>3, <2>1, <2>2 DEF Prime
<1>4. CASE n > 2 /\ n % 2 = 1
  <2>1. TrialDivision(n)
          = IF n \in SMALL_PRIMES THEN "prime"
            ELSE IF \E small \in SMALL_PRIMES : n % small = 0 THEN "composite" ELSE "undecided"
    BY <1>4 DEF TrialDivision
  <2>2. ASSUME NEW small \in SMALL_PRIMES, n % small = 0, n \notin SMALL_PRIMES, Prime(n)
        PROVE  FALSE
    <3>1. small \in Nat \ {0} /\ small # 1
      BY DEF SMALL_PRIMES
    <3> DEFINE k == n \div small
    <3>2. n = k * small + (n % small) /\ k \in Nat
      <4>1. n \in Int
        OBVIOUS
      <4>2. n = (n \div small) * small + (n % small) /\ n \div small \in Nat
        BY <3>1, <4>1, DivMod
      <4> QED BY <4>2
    <3> HIDE DEF k
    <3>3. n = small * k
      BY <2>2, <3>1, <3>2
    <3>4. small = n
      BY <2>2, <3>1, <3>2, <3>3, PrimeFactors
    <3> QED BY <2>2, <3>4
  <2>3. 3 \in SMALL_PRIMES
    BY DEF SMALL_PRIMES
  <2>4. TrialDivision(n) = "undecided" => n % 3 # 0
    BY <2>1, <2>3
  <2> QED BY <1>4, <2>1, <2>2, <2>4
<1> QED BY <1>0, <1>1, <1>2, <1>3, <1>4

\* The numbers below n that pass.
Passing(n) == {x \in 1 .. n - 1 : RoundPasses(n, x)}

\* The numbers that pass for n have powers like those of a prime: the exponent is the
\* last of the squarings at which any number reaches minus one.
LEMMA PassingLie ==
  ASSUME NEW n \in Nat, n > 2, n % 2 = 1
  PROVE  /\ \E m \in Nat \ {0}, b \in Int : Same(Power(b, m), -1, n) /\ Lying(Passing(n), m, n)
         /\ RoundPasses(n, 1) /\ RoundPasses(n, n - 1)
<1> DEFINE r == n - 1
           z == TrailingZeros(r)
           c == OddPart(r)
           e(i) == c * 2 ^ i
           minus == -1
           Reaches(x, i) == Same(Power(x, e(i)), minus, n)
           One(x, i) == Same(Power(x, e(i)), 1, n)
<1>0. n \in Nat \ {0} /\ r \in Nat \ {0} /\ minus \in Int
  OBVIOUS
<1>1. z \in Nat /\ c \in Nat /\ c % 2 = 1 /\ r = c * 2 ^ z
  <2> HIDE DEF r
  <2> QED BY <1>0, OddTimesPower DEF OddPart
<1>2. r % 2 = 0
  BY <1>0
<1>3. z # 0
  <2> SUFFICES ASSUME z = 0 PROVE FALSE
    OBVIOUS
  <2>1. 2 ^ z = 1
    BY TwoZero
  <2> HIDE DEF r, z, c
  <2>2. r = c
    BY <1>1, <2>1
  <2> QED BY <1>1, <1>2, <2>2
<1> HIDE DEF z, c
<1>4. ASSUME NEW i \in Nat
      PROVE  e(i) \in Nat \ {0} /\ e(i + 1) = e(i) + e(i)
  <2> DEFINE w == 2 ^ i
  <2>1. w \in Nat \ {0} /\ 2 ^ (i + 1) = 2 * w
    BY TwoNext, TwoPlus
  <2>2. e(i) = c * w /\ e(i + 1) = c * (2 * w)
    BY <2>1
  <2>3. c # 0
    BY <1>1
  <2> HIDE DEF w, e
  <2>4. c * w \in Nat \ {0} /\ c * (2 * w) = c * w + c * w
    BY <1>1, <2>1, <2>3
  <2> QED BY <2>2, <2>4
<1>5. ASSUME NEW i \in Nat, NEW l \in Nat, i <= l
      PROVE  \E k \in Nat : e(l) = e(i) * k
  <2> DEFINE j == l - i
             w == 2 ^ i
             k == 2 ^ j
  <2>1. j \in Nat /\ i + j = l
    BY <1>5
  <2> HIDE DEF j
  <2>2. w \in Nat /\ k \in Nat /\ 2 ^ (i + j) = w * k
    BY <2>1, TwoPlus
  <2>3. e(l) = c * (w * k) /\ e(i) = c * w
    BY <2>1, <2>2
  <2> HIDE DEF w, k, e
  <2>4. c * (w * k) = (c * w) * k
    BY <1>1, <2>2
  <2> QED BY <2>2, <2>3, <2>4
<1>6. e(z) = r /\ e(0) = c
  BY <1>1, TwoZero
<1> HIDE DEF e
<1>7. ASSUME NEW x \in Int, NEW i \in Nat, NEW l \in Nat, i <= l, One(x, i)
      PROVE  One(x, l)
  <2>1. PICK k \in Nat : e(l) = e(i) * k
    BY <1>5, <1>7
  <2> DEFINE y == Power(x, e(i))
  <2>2. y \in Int /\ Same(y, 1, n)
    BY <1>4, <1>7, PowerStep
  <2>3. Power(x, e(l)) = Power(y, k)
    <3> DEFINE f == e(i)
    <3>1. f \in Nat /\ e(l) = f * k /\ y = Power(x, f)
      BY <1>4, <2>1
    <3> HIDE DEF f, y
    <3> QED BY <2>1, <3>1, PowerTimes
  <2> HIDE DEF y
  <2>4. Same(Power(y, k), 1, n)
    BY <1>0, <2>1, <2>2, PowerOf
  <2> QED BY <2>3, <2>4
<1>8. ASSUME NEW x \in Int, NEW i \in Nat, Reaches(x, i)
      PROVE  One(x, i + 1)
  <2> DEFINE y == Power(x, e(i))
  <2>1. y \in Int /\ Same(y, minus, n)
    BY <1>4, <1>8, PowerStep
  <2>2. Power(x, e(i + 1)) = y * y
    BY <1>4, PowerPlus
  <2> HIDE DEF y
  <2>3. minus * minus = 1
    OBVIOUS
  <2> HIDE DEF minus
  <2>4. Same(y * y, minus * minus, n)
    BY <1>0, <2>1, SameTimes
  <2> QED BY <2>2, <2>3, <2>4
<1> DEFINE T == {i \in Nat : i < z /\ \E b \in Int : Reaches(b, i)}
<1>9. Power(minus, c) = minus
  <2> DEFINE k == c \div 2
             y == Power(minus, k + k)
  <2>1. k \in Nat /\ k + k \in Nat /\ c = (k + k) + 1
    BY <1>1
  <2> HIDE DEF k
  <2>2. y = 1
    <3> DEFINE v == Power(minus, k)
    <3>1. v \in Int /\ y = Power(minus * minus, k)
      <4> HIDE DEF minus
      <4>1. v \in Int /\ y = v * v
        BY <1>0, <2>1, PowerStep, PowerPlus
      <4>2. Power(minus * minus, k) = v * v
        BY <1>0, <2>1, PowerProduct
      <4> QED BY <4>1, <4>2
    <3>2. minus * minus = 1
      OBVIOUS
    <3> QED BY <2>1, <3>1, <3>2, PowerOne
  <2>3. Power(minus, (k + k) + 1) = y * minus
    <3> HIDE DEF minus
    <3> QED BY <1>0, <2>1, PowerStep
  <2> QED BY <2>1, <2>2, <2>3
<1>10. 0 \in T
  <2> HIDE DEF minus
  <2>1. Reaches(minus, 0)
    BY <1>0, <1>6, <1>9, SameEquivalence
  <2> QED BY <1>0, <1>1, <1>3, <2>1
<1>11. PICK i \in T : \A j \in T : j <= i
  <2> DEFINE U == {k \in Nat : z - k \in T}
  <2>1. z \in U /\ U \in SUBSET Nat
    <3>1. z - z = 0
      BY <1>1
    <3> HIDE DEF T
    <3> QED BY <1>1, <1>10, <3>1
  <2>2. PICK k \in U : \A l \in U : k <= l
    <3> HIDE DEF U
    <3> QED BY <2>1, Least
  <2>3. \A j \in T : z - j \in U /\ j \in Nat
    <3> SUFFICES ASSUME NEW j \in T PROVE z - j \in U /\ j \in Nat
      OBVIOUS
    <3>1. j \in Nat /\ j < z
      OBVIOUS
    <3>2. z - j \in Nat /\ z - (z - j) = j
      BY <1>1, <3>1
    <3> HIDE DEF T
    <3> QED BY <3>1, <3>2
  <2>4. k \in Nat /\ z - k \in T
    OBVIOUS
  <2> HIDE DEF T, U
  <2>5. ASSUME NEW j \in T PROVE j <= z - k
    <3>1. k <= z - j /\ j \in Nat
      BY <2>2, <2>3
    <3> QED BY <1>1, <2>4, <3>1
  <2> QED BY <2>4, <2>5
<1>12. i \in Nat /\ i < z /\ \E b \in Int : Reaches(b, i)
  OBVIOUS
<1> DEFINE m == e(i)
<1>13. m \in Nat \ {0}
  BY <1>4, <1>12
<1>14. PICK b \in Int : Same(Power(b, m), -1, n)
  BY <1>12
<1>15. Same(r, minus, n)
  <3> DEFINE k == 1
  <3>1. k \in Int /\ r \in Int /\ r = minus + k * n
    BY <1>0
  <3> HIDE DEF k, r, minus
  <3> QED BY <1>0, <3>1, SameBy
<1>16. ASSUME NEW x \in Passing(n)
       PROVE  /\ x \in 1 .. n - 1
              /\ Same(Power(x, m), 1, n) \/ Same(Power(x, m), -1, n)
              /\ Same(Power(x, n - 1), 1, n)
  <2>1. x \in 1 .. n - 1 /\ x \in Int /\ RoundPasses(n, x)
    BY DEF Passing
  <2>2. ASSUME NEW j \in Nat, NEW v \in Int, ModPow(x, e(j), n) = v
        PROVE  Same(Power(x, e(j)), v, n)
    <3> DEFINE f == e(j)
               y == Power(x, f)
    <3>0. f \in Nat /\ ModPow(x, f, n) = v
      BY <1>4, <2>2
    <3> HIDE DEF f
    <3>1. y \in Int /\ v = y % n
      BY <1>0, <2>1, <3>0, PowerStep, ModPowIs
    <3> HIDE DEF y
    <3>2. Same(v, y, n)
      BY <1>0, <3>1, SameMod
    <3> QED BY <1>0, <3>2, SameEquivalence DEF y, f
  <2>3. One(x, 0) \/ \E j \in 0 .. z - 1 : Reaches(x, j)
    <3>1. \/ ModPow(x, e(0), n) = 1
          \/ \E j \in 0 .. z - 1 : ModPow(x, e(j), n) = r
      <4>1. \/ ModPow(x, e(0), n) \in {1, r}
            \/ \E j \in 1 .. z - 1 : ModPow(x, e(j), n) = r
        BY <2>1 DEF RoundPasses, e, z, c
      <4>2. 0 \in 0 .. z - 1 /\ 1 .. z - 1 \subseteq 0 .. z - 1
        BY <1>1, <1>3
      <4> QED BY <4>1, <4>2
    <3>2. CASE ModPow(x, e(0), n) = 1
      BY <2>2, <3>2
    <3>3. CASE \E j \in 0 .. z - 1 : ModPow(x, e(j), n) = r
      <4>1. PICK j \in 0 .. z - 1 : ModPow(x, e(j), n) = r
        BY <3>3
      <4>2. Same(Power(x, e(j)), r, n)
        <5>1. j \in Nat /\ r \in Int
          BY <1>0
        <5> HIDE DEF r
        <5> QED BY <2>2, <4>1, <5>1
      <4>3. Reaches(x, j)
        BY <1>0, <1>15, <4>2, SameEquivalence
      <4> QED BY <4>3
    <3> QED BY <3>1, <3>2, <3>3
  <2>4. CASE One(x, 0)
    <3>1. 0 \in Nat /\ 0 <= i /\ 0 <= z
      BY <1>1, <1>12
    <3>2. One(x, i) /\ One(x, z)
      BY <1>1, <1>7, <1>12, <2>1, <2>4, <3>1
    <3> QED BY <1>6, <2>1, <3>2
  <2>5. CASE \E j \in 0 .. z - 1 : Reaches(x, j)
    <3>1. PICK j \in 0 .. z - 1 : Reaches(x, j)
      BY <2>5
    <3>2. j \in Nat /\ j < z
      BY <1>1
    <3>3. j \in T
      BY <2>1, <3>1, <3>2
    <3>4. j <= i
      <4> HIDE DEF T
      <4> QED BY <1>11, <3>3
    <3>5. One(x, j + 1) /\ j + 1 \in Nat /\ j + 1 <= z
      BY <1>1, <1>8, <2>1, <3>1, <3>2
    <3>6. One(x, z)
      BY <1>1, <1>7, <2>1, <3>5
    <3>7. CASE j = i
      BY <1>6, <2>1, <3>1, <3>6, <3>7
    <3>8. CASE j # i
      <4>1. j + 1 <= i
        BY <1>12, <3>2, <3>4, <3>8
      <4>2. One(x, i)
        BY <1>7, <1>12, <2>1, <3>5, <4>1
      <4> QED BY <1>6, <2>1, <3>6, <4>2
    <3> QED BY <3>7, <3>8
  <2> QED BY <2>3, <2>4, <2>5
<1>17. Lying(Passing(n), m, n)
  BY <1>16 DEF Lying
<1>18. RoundPasses(n, 1)
  <2>1. ModPow(1, c, n) = 1
    <3> DEFINE one == 1
    <3>1. one \in Int /\ Power(one, c) = 1 /\ 1 % n = 1
      BY <1>0, <1>1, PowerOne
    <3> HIDE DEF one
    <3>2. ModPow(one, c, n) = 1
      BY <1>0, <1>1, <3>1, ModPowIs
    <3> QED BY <3>2 DEF one
  <2>2. ModPow(1, e(0), n) = 1
    BY <1>6, <2>1
  <2> QED BY <2>2 DEF RoundPasses, e, c
<1>19. RoundPasses(n, r)
  <2> DEFINE y == Power(r, c)
  <2>1. y \in Int /\ ModPow(r, c, n) = y % n
    <3>1. r \in Int
      BY <1>0
    <3> HIDE DEF r
    <3> QED BY <1>0, <1>1, <3>1, PowerStep, ModPowIs
  <2>2. Same(y, r, n)
    <3>1. r \in Int
      BY <1>0
    <3> HIDE DEF r, minus
    <3>2. Same(Power(r, c), Power(minus, c), n)
      BY <1>0, <1>1, <1>15, <3>1, PowerSame
    <3> QED BY <1>0, <1>9, <1>15, <3>2, SameEquivalence
  <2>3. r % n = r
    BY <1>0
  <2>4. ModPow(r, e(0), n) = r
    BY <1>6, <2>1, <2>2, <2>3 DEF Same
  <2> QED BY <2>4 DEF RoundPasses, e, c
<1> QED BY <1>13, <1>14, <1>17, <1>18, <1>19

\* Of the bases drawn for a number that is not prime at most a quarter pass.
LEMMA QuarterOfBases ==
  ASSUME NEW n \in Nat, n > 2, n % 2 = 1, n % 3 # 0, ~Prime(n)
  PROVE  4 * Cardinality(Liars(n)) <= Cardinality(Bases(n))
<1> DEFINE L == Liars(n)
           P == Passing(n)
           B == Bases(n)
           r == n - 1
<1>1. 4 * Cardinality(P) <= n - 1
  <2>1. PICK m \in Nat \ {0}, b \in Int : Same(Power(b, m), -1, n) /\ Lying(P, m, n)
    BY PassingLie
  <2>2. n > 1 /\ n % 2 # 0
    OBVIOUS
  <2> HIDE DEF P
  <2> QED BY <2>1, <2>2, Rabin
<1>2. L \cup {1} \cup {r} = P /\ 1 \notin L /\ r \notin L \cup {1} /\ L \in SUBSET B
  <2>1. RoundPasses(n, 1) /\ RoundPasses(n, r)
    BY PassingLie
  <2>2. \A x : x \in 1 .. n - 1 <=> x \in 2 .. n - 2 \/ x = 1 \/ x = r
    OBVIOUS
  <2> QED BY <2>1, <2>2 DEF Liars, Passing, Bases
<1>3. IsFiniteSet(B) /\ Cardinality(B) = n - 3
  <2> DEFINE two == 2
             t == n - 2
  <2>1. two \in Int /\ t \in Int /\ (IF two > t THEN 0 ELSE t - two + 1) = n - 3
    OBVIOUS
  <2> HIDE DEF two, t
  <2>2. IsFiniteSet(two .. t) /\ Cardinality(two .. t) = n - 3
    BY <2>1, FS_Interval
  <2> QED BY <2>2 DEF two, t, Bases
<1> HIDE DEF L, P, B
<1>4. IsFiniteSet(L) /\ Cardinality(L) \in Nat
  BY <1>2, <1>3, FS_Subset, FS_CardinalityType
<1>5. IsFiniteSet(L \cup {1}) /\ Cardinality(L \cup {1}) = Cardinality(L) + 1
  BY <1>2, <1>4, FS_AddElement
<1>6. Cardinality(P) = (Cardinality(L) + 1) + 1
  BY <1>2, <1>5, FS_AddElement
<1>7. 4 * Cardinality(L) <= n - 3
  BY <1>1, <1>4, <1>6
<1> QED BY <1>3, <1>7 DEF L, B

PrimalityInv ==
  /\ number \in Nat
  /\ verdict = "undecided" => number > 2 /\ number % 2 = 1 /\ number % 3 # 0
  /\ PrimesPass

\* The number stays, and no base turns a prime away.
LEMMA PrimalityInductive == PrimalitySpec => []PrimalityInv
<1>1. PrimalityInit => PrimalityInv
  BY PrimalityAssumption, TrialDivisionRight DEF PrimalityInit, PrimalityInv, PrimesPass
<1>2. ASSUME PrimalityInv, [PrimalityNext]_primality_vars PROVE PrimalityInv'
  <2>1. CASE UNCHANGED primality_vars
    BY <1>2, <2>1 DEF primality_vars, PrimalityInv, PrimesPass
  <2>2. CASE Accept
    BY <1>2, <2>2 DEF Accept, PrimalityInv, PrimesPass
  <2>3. CASE Round
    <3>1. PICK base \in Bases(number) :
            IF RoundPasses(number, base) THEN round' = round + 1 /\ UNCHANGED verdict
                                         ELSE verdict' = "composite" /\ UNCHANGED round
      BY <2>3 DEF Round
    <3>2. verdict = "undecided" /\ number' = number
      BY <2>3 DEF Round
    <3>3. number \in Nat /\ number > 2 /\ number % 2 = 1 /\ number % 3 # 0
      BY <1>2, <3>2 DEF PrimalityInv
    <3>4. CASE RoundPasses(number, base)
      <4>1. verdict' = verdict
        BY <3>1, <3>4
      <4> QED BY <3>2, <3>3, <4>1 DEF PrimalityInv, PrimesPass
    <3>5. CASE ~RoundPasses(number, base)
      <4>1. verdict' = "composite" /\ ~Prime(number)
        BY <3>1, <3>3, <3>5, PrimePasses
      <4> QED BY <3>2, <3>3, <4>1 DEF PrimalityInv, PrimesPass
    <3> QED BY <3>4, <3>5
  <2> QED BY <1>2, <2>1, <2>2, <2>3 DEF PrimalityNext
<1> QED BY <1>1, <1>2, PTL DEF PrimalitySpec

\* No prime is turned away, with any bases drawn and however many (signature.rs,
\* is_probable_prime).
THEOREM PrimesAlwaysPass == PrimalitySpec => []PrimesPass
<1>1. PrimalityInv => PrimesPass
  BY DEF PrimalityInv
<1> QED BY <1>1, PrimalityInductive, PTL

\* Of the bases that can be drawn for a number that is not prime, at most a quarter let
\* it through, for every number that trial division leaves undecided (signature.rs,
\* is_probable_prime).
THEOREM FewLiarsAlways == PrimalitySpec => []FewLiars
<1>1. PrimalityInv => FewLiars
  BY QuarterOfBases DEF PrimalityInv, FewLiars
<1> QED BY <1>1, PrimalityInductive, PTL

=============================================================================
