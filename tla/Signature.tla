------------------------------- MODULE Signature -------------------------------
(***************************************************************************)
(* RSA signatures with a full-domain hash (signature.rs): generating a     *)
(* key, signing a digest, and verifying what is presented as a signature.  *)
(*                                                                         *)
(* A digest is given by what it expands to: as many random bytes as the    *)
(* modulus has, read as one number.  The code's keys have 512 bits or      *)
(* more; here they are small, and everything is computed the same way.     *)
(***************************************************************************)
EXTENDS Arithmetic

CONSTANTS KeySizes,     \* bound: sizes of the modulus
          Expansions,   \* bound: expanded digests that are signed
          Presented     \* bound: values presented as signatures; keys above it sign nothing

ASSUME SignatureAssumption ==
  /\ \A size \in KeySizes : size \in Nat /\ size % 2 = 0 /\ size >= 4
  /\ Expansions \subseteq Nat
  /\ Presented \in Nat

VARIABLES bits,         \* size asked for
          p, q,         \* the primes drawn
          key,          \* the pair generated
          digest,       \* expanded, being signed
          presented,    \* as its signature
          verified      \* what verify returned

vars == <<bits, p, q, key, digest, presented, verified>>

Nothing == -1

NoKey == [n |-> Nothing, d |-> Nothing]

Init ==
  /\ bits \in KeySizes
  /\ p = Nothing /\ q = Nothing
  /\ key = NoKey
  /\ digest = Nothing /\ presented = Nothing /\ verified = "no"

-----------------------------------------------------------------------------
\* Mutant: the factor is taken without its sign.
ModInverseUnsigned(a, modulus) ==
  LET gcd == ExtendedGcd(a, modulus)
  IN  IF gcd.gcd # 1 THEN Nothing ELSE (IF gcd.x < 0 THEN -gcd.x ELSE gcd.x) % modulus

\* Nothing stands for None, which generate does not expect.
ModInverse(a, modulus) ==
  LET gcd == ExtendedGcd(a, modulus)
  IN  IF gcd.gcd # 1 THEN Nothing ELSE gcd.x % modulus

-----------------------------------------------------------------------------
(* Generating a key. *)

E == 65537

\* Mutant: of the two top bits only the first is set.
PrimesOfHalf == {n \in 2 ^ (bits \div 2 - 1) .. 2 ^ (bits \div 2) - 1 : n % 2 = 1 /\ Prime(n)}

\* What generate_prime returns: the two top bits and the lowest are set.
GeneratedPrimes ==
  {n \in 3 * 2 ^ (bits \div 2 - 2) .. 2 ^ (bits \div 2) - 1 : n % 2 = 1 /\ Prime(n)}

DrawP ==
  /\ p = Nothing
  /\ p' \in GeneratedPrimes
  /\ UNCHANGED <<bits, q, key, digest, presented, verified>>

DrawQ ==
  /\ p # Nothing /\ q = Nothing
  /\ q' \in GeneratedPrimes
  /\ UNCHANGED <<bits, p, key, digest, presented, verified>>

Phi == (p - 1) * (q - 1)

\* The three reasons to draw again.
Unusable == p = q \/ Bits(p * q) # bits \/ ExtendedGcd(Phi, E).gcd # 1

Retry ==
  /\ q # Nothing /\ key = NoKey /\ Unusable
  /\ p' = Nothing /\ q' = Nothing
  /\ UNCHANGED <<bits, key, digest, presented, verified>>

Generated ==
  /\ q # Nothing /\ key = NoKey /\ ~Unusable
  /\ key' = [n |-> p * q, d |-> ModInverse(E, Phi)]
  /\ UNCHANGED <<bits, p, q, digest, presented, verified>>

-----------------------------------------------------------------------------
(* Signing and verifying. *)

ModulusBytes(n) == (Bits(n) + 7) \div 8

\* Mutant: the expansion is left as it is.
Unmasked(n, expanded) == expanded

\* What is left of the expansion after `expanded[0] &= 0x3f`.
Masked(n, expanded) == expanded % 2 ^ (8 * ModulusBytes(n) - 2)

FullDomainHash(n, expanded) == Masked(n, expanded) % n

SignDigest(k, expanded) == ModPow(FullDomainHash(k.n, expanded), k.d, k.n)

\* Mutant: values beyond the modulus are reduced instead of refused.
VerifyUnranged(n, expanded, signature) ==
  ModPow(signature, E, n) = FullDomainHash(n, expanded)

Verify(n, expanded, signature) ==
  /\ signature < n
  /\ ModPow(signature, E, n) = FullDomainHash(n, expanded)

PresentSignature ==
  /\ key # NoKey /\ digest = Nothing /\ key.n < Presented
  /\ digest' \in Expansions
  /\ presented' \in 0 .. Presented
  /\ verified' = IF Verify(key.n, digest', presented') THEN "yes" ELSE "no"
  /\ UNCHANGED <<bits, p, q, key>>

Next == DrawP \/ DrawQ \/ Retry \/ Generated \/ PresentSignature

Spec == Init /\ [][Next]_vars

-----------------------------------------------------------------------------

\* For each digest exactly one value verifies, the one the key signs it with:
\* what Messages assumes of signatures, short of hardness (signature.rs, sign and
\* verify).
OnlyTheSignature ==
  digest # Nothing =>
    (verified = "yes" <=> presented = SignDigest(key, digest))

\* "keeps p*q at the target width" (signature.rs, generate_prime): no pair of
\* primes is ever drawn again because their product came out too short.
FullWidth == p # Nothing /\ q # Nothing => Bits(p * q) = bits

\* The exponents of a key are each other's inverses.
ExponentsInvert == key # NoKey => ((E % Phi) * key.d) % Phi = 1 /\ key.d \in 1 .. Phi - 1

\* The masked hash is "comfortably below n before reduction" (signature.rs:44) when
\* the modulus fills its leading byte, as it does for the default key size.  For
\* sizes that are not whole bytes, which are accepted as well, it need not be.
MaskKeepsBelow ==
  key # NoKey /\ bits % 8 = 0 =>
    LET rest == 2 ^ (8 * (ModulusBytes(key.n) - 1))   \* what the bytes after the first count
    IN  \A first \in 0 .. 255 : Masked(key.n, first * rest + (rest - 1)) < key.n

=============================================================================
