------------------------------ MODULE Arithmetic ------------------------------
(***************************************************************************)
(* What signature.rs computes with big numbers through num_bigint and      *)
(* num_integer.  They compute on small numbers as on large ones.           *)
(***************************************************************************)
EXTENDS Integers

Prime(n) == n > 1 /\ \A d \in 2 .. n - 1 : d * d > n \/ n % d # 0

\* BigUint::bits, the width of n.
Bits(n) == CHOOSE b \in 0 .. n : n < 2 ^ b /\ (b > 0 => n >= 2 ^ (b - 1))

\* BigUint::trailing_zeros, for n above zero.
TrailingZeros(n) == CHOOSE z \in 0 .. n : n % 2 ^ z = 0 /\ (n \div 2 ^ z) % 2 = 1

\* BigUint::modpow
ModPow(base, exponent, n) ==
  LET power[e \in Nat] ==
        IF e = 0 THEN 1 % n
        ELSE LET half   == power[e \div 2]
                 square == (half * half) % n
             IN  IF e % 2 = 0 THEN square ELSE (square * (base % n)) % n
  IN  power[exponent]

\* Integer::extended_gcd: the greatest common divisor of a and b, and their factors in it.
ExtendedGcd(a, b) ==
  LET euclid[r \in Nat \X Nat] ==
        IF r[2] = 0 THEN [gcd |-> r[1], x |-> 1, y |-> 0]
        ELSE LET rest == euclid[<<r[2], r[1] % r[2]>>]
             IN  [gcd |-> rest.gcd, x |-> rest.y, y |-> rest.x - (r[1] \div r[2]) * rest.y]
  IN  euclid[<<a, b>>]

=============================================================================
