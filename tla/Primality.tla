------------------------------- MODULE Primality -------------------------------
(***************************************************************************)
(* The primality test that key generation relies on (signature.rs,         *)
(* is_probable_prime): trial division, then Miller-Rabin with a number of  *)
(* random bases.  The random draws are free choices.                       *)
(***************************************************************************)
EXTENDS Arithmetic, FiniteSets

CONSTANTS Numbers,    \* bound: the numbers tested
          Rounds      \* random bases tried

ASSUME PrimalityAssumption == Numbers \subseteq Nat /\ Rounds \in Nat

VARIABLES number,     \* under test
          round,      \* bases tried so far
          verdict     \* "undecided", "prime" or "composite"

primality_vars == <<number, round, verdict>>

-----------------------------------------------------------------------------

SMALL_PRIMES == {3, 5, 7, 11, 13, 17, 19, 23, 29, 31, 37, 41, 43, 47, 53, 59, 61, 67, 71, 73}

\* What is decided without drawing a base.
TrialDivision(n) ==
  CASE n < 2     -> "composite"
    [] n = 2     -> "prime"
    [] n > 2 /\ n % 2 = 0 -> "composite"
    [] OTHER     -> IF n \in SMALL_PRIMES THEN "prime"
                    ELSE IF \E small \in SMALL_PRIMES : n % small = 0 THEN "composite"
                    ELSE "undecided"

\* gen_biguint_range excludes its upper end, n - 1.
Bases(n) == 2 .. n - 2

OddPart(n) == n \div 2 ^ TrailingZeros(n)

\* Mutant: squares once too few.
RoundPassesShort(n, base) ==
  LET x(i) == ModPow(base, OddPart(n - 1) * 2 ^ i, n)
  IN  \/ x(0) \in {1, n - 1}
      \/ \E i \in 1 .. TrailingZeros(n - 1) - 2 : x(i) = n - 1

\* Mutant: takes 1 for a sign of a prime after squaring as well.
RoundPassesOne(n, base) ==
  LET x(i) == ModPow(base, OddPart(n - 1) * 2 ^ i, n)
  IN  \E i \in 0 .. TrailingZeros(n - 1) : x(i) \in {1, n - 1}

\* One base: its odd power is 1 or n - 1, or reaches n - 1 by squaring.
RoundPasses(n, base) ==
  LET x(i) == ModPow(base, OddPart(n - 1) * 2 ^ i, n)
  IN  \/ x(0) \in {1, n - 1}
      \/ \E i \in 1 .. TrailingZeros(n - 1) - 1 : x(i) = n - 1

-----------------------------------------------------------------------------

PrimalityInit ==
  /\ number \in Numbers
  /\ round = 0
  /\ verdict = TrialDivision(number)

Round ==
  /\ verdict = "undecided" /\ round < Rounds
  /\ \E base \in Bases(number) :
       IF RoundPasses(number, base) THEN round' = round + 1 /\ UNCHANGED verdict
                                    ELSE verdict' = "composite" /\ UNCHANGED round
  /\ UNCHANGED number

Accept ==
  /\ verdict = "undecided" /\ round = Rounds
  /\ verdict' = "prime"
  /\ UNCHANGED <<number, round>>

PrimalityNext == Round \/ Accept

PrimalitySpec == PrimalityInit /\ [][PrimalityNext]_primality_vars

-----------------------------------------------------------------------------

\* A prime is never turned away, whatever bases are drawn (signature.rs,
\* is_probable_prime): key generation misses no prime, and for a prime the test
\* does not depend on the draws.
PrimesPass == verdict = "composite" => ~Prime(number)

Liars(n) == {base \in Bases(n) : RoundPasses(n, base)}

\* A composite number is let through by at most a quarter of the bases, so that
\* each round makes a wrong "prime" four times less likely.
FewLiars ==
  verdict = "undecided" /\ round = 0 /\ ~Prime(number)
    => 4 * Cardinality(Liars(number)) <= Cardinality(Bases(number))

=============================================================================
