# The offline digital euro, specified

TLA+ modules, TLC configurations and TLAPS proofs for the wallet, the issuer and
the harness of this repository (`src/src/*.rs`). Every definition is translated
from the source; `PROJECT.json` names the lines each one stands for. Paths below
are relative to the repository's crate, `src/`.

## 1. The system

| Component | State | Operations | Module |
|---|---|---|---|
| Secure element, `wallet.rs` | certificate, balance, open payment requests (`incoming`), open funding requests (`pending_funding`), nonces credited, debit counter, `state` (Sealed/Cracked), generator | `new`, `crack_secure_element`, `request_payment`, `cancel_request`, `receive`, `pay`, `request_funding`, `cancel_funding`, `apply_funding`, `defund` | `Wallet` |
| Issuer, `issuer.rs` | accounts, device register (account, key, last defunding counter), funding nonces granted, `offline_float` | `open_account`, `certify_device`, `fund`, `defund` | `Issuer` |
| Messages, `message.rs`, `certificate.rs`, `signature.rs`, `hash.rs` | none | what each message carries and what its signature covers | `Messages` |
| Amounts and maps | none | u64 cents, wrapping and saturating arithmetic, `HashMap` | `Amounts` |
| Transport between the parties | messages sent | delivery late, again, out of order, altered, or never | `OfflineEuro` |
| Library calls, `lib.rs` | the locals of the call in progress | `enrol`, `fund`, `defund`, `pay` | `Calls` |
| Fuzz command, `main.rs` | operations done, snapshot taken, outcome | `world`, `run_fuzz`, `snapshot`, `check_invariants` | `Fuzz` |
| Check command, `main.rs` | scripts to run and failed, position in a script, the message it holds | eight scripted scenarios, `run_check` | `Scenarios`, `Harness` |
| Signatures, `signature.rs` | key pair | `generate`, `generate_prime`, `mod_inverse`, `full_domain_hash`, `sign`, `verify` | `Signature` |
| Primality test, `signature.rs` | number under test, rounds done | `is_probable_prime` | `Primality` |
| Command line, `main.rs` | arguments, command, exit code | `main`: reading arguments, refusing values, running the commands, the exit code | `CommandLine`, `Harness` |
| Walk-through, `examples/offline_payment.rs` | as the check command | one script of calls and operations | `Scenarios`, `Harness` |
| Errors and formatting, `error.rs` | none | texts | not modelled: the variants are the verdicts |

The repository has no transport: elements and issuer return messages as values and
take references to them, so whoever calls decides when, how often and whether a
message is delivered, and the tests do deliver some twice, late and altered. That
freedom is what `OfflineEuro` models. The library's own calls (`lib.rs`) are the
special case in which one thread delivers every message at once; `Calls` and
`Fuzz` model those.

How value moves:

- **Payment.** The payee reserves room and sends a request; the payer debits itself
  and signs a transfer; the payee credits it. No online party takes part.
- **Funding.** The element reserves room and signs a request; the issuer debits the
  account, raises the float and signs a funding; the element credits it.
- **Defunding.** The element debits itself and signs an order; the issuer credits
  the account and lowers the float.

What is hard: between the debit on one side and the credit on the other the value
is only in a message. The limit is checked when room is reserved and relied on much
later; a request can be cancelled, repeated, answered twice, or paid by two payers
in between; orders can overtake one another; an element can be lost or cracked at
any step; additions are not checked for overflow. `PROJECT.json`, "hazards", lists
each at its line.

What makes the parts correct:

- *element*: holdings and promises stay within the limit together, so that an open
  request can always be credited; no nonce is credited twice or after a cancellation;
- *issuer*: each request and each order moves money once; accounts and float
  account for all of it;
- *circuit*: money is conserved and stays among certified elements; value is
  stranded only in the ways the code intends or this project names;
- *calls*: a call that is refused leaves no trace, and none is refused after value
  has moved;
- *program*: its arguments mean what its usage text says, in any mixture, and its exit
  code tells whether all that was asked for was run and passed.

## 2. Modules

    Amounts --- Messages -+- Wallet -+- OfflineEuro ---- MCOfflineEuro
                          |          |     \...refines Notes
                          |          +- Calls -+- Fuzz --- MCFuzz
                          +- Issuer -+         |     \...refines Ledger
                                               +- Scenarios -+- Harness
                                                 CommandLine -+
    Arithmetic -+- Signature
                +- Primality
    Wallet, Issuer, AmountsTheorems --- PartyProofs
    OfflineEuro, PartyProofs --- OfflineEuroProofs --- LandingProofs
    Fuzz, PartyProofs --- FuzzProofs
    Harness --- HarnessProofs
    Arithmetic --- ArithmeticTheorems
    Signature, Primality, ArithmeticTheorems --- SignatureProofs

- **Amounts.** `MaxU64` is a constant, so that a small instance reaches the edge.
  `Wrap` is an unchecked addition in a release build, which is what the repository's
  README runs; a debug build panics at the same place. A `HashMap` is a function
  whose domain is its keys.
- **Messages.** A message is a record; its signature is the pair of the signing key
  and the digest, the tagged tuple of the signed fields. `Verifies` recomputes the
  digest from the message as delivered, so an altered field fails exactly as in the code.
- **Wallet.** One variable per field of `struct Wallet`, indexed by element. An
  operation has a *verdict*, the code's checks in the code's order ending in `"Ok"`,
  and an *action* enabled when the verdict is `"Ok"`. A refusal returns early and
  changes nothing, so it is the absence of a step, except in `Calls`, where the
  caller acts on it. `Install` is `Wallet::new`.
- **Issuer.** One variable per field of `struct Issuer`, plus two that record
  history: `money`, what accounts were opened with, and `overflowed`, what wrapping
  additions lost.
- **OfflineEuro.** Composes both through sets of messages sent. Nothing is ever
  removed from a set: a message stays deliverable, again and in any order, and need
  never be delivered. `RequestCopies`, `TransferCopies` and `WithAlteredAmounts` are
  the altered copies that `main.rs` and the tests make: another amount, another
  payee, a payee or payer whom another issuer certified. History variables record what
  was credited, abandoned and minted; `credits` counts every credit of a request, those
  of one message delivered again too, which the sets of messages credited cannot show.
  `Lose` drops an element.
- **Calls.** `lib.rs` as a machine whose steps are the operations a call makes;
  `call` holds the position and the locals. The steps are separate because each may
  refuse, and the refusal has to be undone.
- **Fuzz.** `world`, then `Ops` random calls, each followed by the checks of
  `run_fuzz`; the random choices are free choices. `Check` goes wrong exactly when
  the program would print a failure.
- **Scenarios.** The scripts of the check command and of the example as data, one per
  function, and the machine that runs them: a call of the library goes through `Calls`,
  an operation used directly is one step. A step carries the result the script
  expects; the first unexpected one fails the script. Amounts are in cents. `report`
  lists the scripts that ended with their verdicts, as `run_check` prints them.
- **CommandLine.** The arguments, what reading a command or an option changes
  (`WithCommand`, `WithValue`), and the values `main` refuses. Beside it stands what the
  usage text declares of all arguments at once, with no order of reading (`IsValue`,
  `Wrong`, `DeclaredCommand`, `DeclaredValue`).
- **Harness.** The program: it reads its arguments, one turn of `main`'s loop at a time
  (`ReadArgument`), runs the scripts, the fuzz command or both, and exits. The fuzz
  command's verdict is a free choice here; `Fuzz` models how it comes about. One initial
  state is the example program instead.
- **Arithmetic.** What `signature.rs` takes from `num_bigint` and `num_integer`:
  modular powers by squaring, the extended Euclidean algorithm, the width of a number.
- **Signature** and **Primality.** The arithmetic the code writes itself: the inverse
  exponent, the mask of the full-domain hash, the range check of `verify`, the retries
  of key generation, trial division and Miller-Rabin. TLC runs them on small numbers,
  the proofs cover all. They stand apart from the protocol modules, which assume what
  `OnlyTheSignature` says. `generate_prime` returns what the test lets through;
  `GeneratedPrimes` takes it to be prime, and `FewLiars` bounds how often it is not.
- **Ledger.** What the holder of a wallet is promised: an amount moves from an
  account or an element that has it to one that has room, at once and entirely.
  There are no messages, reservations, nonces or counters in it.
- **Notes.** The same promise for the circuit, where anything may happen to messages and
  elements. Value travels as notes: one is written on value its writer gives up, unless
  the writer is a forger, and lands once, for exactly its worth, on a claim its receiver
  made and has not given up; an order lands on the writer's own account. No certificates,
  signatures, counters, reservations or verdicts. `OfflineEuro!Promise` maps the circuit
  to it: what is credited is what the records say was credited, a claim is a request
  made, and it is open as long as its nonce is.
- **MCWallet, MCIssuer, MCOfflineEuro, MCFuzz** give the inputs and the symmetry.

## 3. What the runs check

| Run | Instance | Shows |
|---|---|---|
| `wallet` | one element; peers' and a stranger's messages, genuine and altered; 4 nonces, 2 debits, amounts 0..3, limit 4 | `WithinHoldingLimit`: balance and promises never exceed the limit, and no sum wraps. `NonceUsedOnce`: a nonce is reserved, or credited, or gone, never two of these. |
| `issuer` | two devices, two accounts, every request and order either could sign, also with the wrong key; u64 ends at 3 | `BooksBalance`: accounts, float and what wrapping lost are the money there was |
| `honest` | two elements and a stranger's; 2 nonces and 2 debits each; amounts 0..2; limit and money 3 | `FloatIsBacked`, `MoneyConserved`, `CreditedOnce`, `CancelledForGood`, `CircuitIsClosed`, the three *lands* properties: what is debited can be credited, and `RoomIsForOpenRequests`: room is held for the requests still open and for nothing else. `ImplementsNotes`: the messages are notes |
| `three` | three elements, one debit each | two payers answering one request; money received and paid on |
| `compromised` | two elements, one crackable, one losable | `FloatIsBacked` with minted value; `NegativeFloatIsProof`; `ImplementsNotes`, where the forgers are the cracked elements and the lost ones do nothing any more |
| `paid_twice` | two elements | violation: finding 1 |
| `overtaken` | two elements | violation: finding 2 |
| `fuzz` | two devices, limit 4, six calls | `FindsNothing`, `Finishes`, `NoRefusalAfterDebit`, `ImplementsLedger` |
| `check` | every list of up to four arguments out of 14 (commands, help, options, another word, the numbers 1, 513 and 2048), and 13 limits from 2000 to 50000 cents, around every amount a script funds and not whole euros only; the scripts' own worlds | `ReadsArguments`: arguments mean what the usage text says. `ExitCodeTells`: at the exit all that was asked for has been run, and nothing else, and success is reported exactly when help was asked for or all of it passed. `CheckPasses`: the program ends, and exactly the scenarios that fund more than the limit are reported as failed |
| `lowest_limit` | limits of 2000, 3000 and 4000 cents | violation: finding 3 |
| `primality` | 39 numbers: the edges of the trial division, primes with large powers of two below them, squares and products of primes above 73, every base, two rounds | `PrimesPass`, `FewLiars` |
| `signature` | all keys of 10, 12 and 16 bits; 13 digests at the edges of mask and modulus; every value up to twice a ten-bit modulus | `OnlyTheSignature`, `FullWidth`, `ExponentsInvert`, `MaskKeepsBelow` |

*Why the bounds are enough.* Every hazard needs few parts. A second answer to a
request takes two debits; overtaking takes two orders; a reservation that promises
the same room twice takes two nonces; a wrapping sum takes a `MaxU64` near the
limit; a payment by a second payer takes three elements. Two nonces per element
allow a payment and a funding open together, or one request cancelled or credited and
another open. Zero amounts are included wherever the code tests for zero. Four
arguments are an option and its value on either side of another pair, a row of options
each of which swallows the next, or help and an error in either order; of the numbers,
1 is refused by every option that has a lowest value, 513 by `--key-bits` for being
odd, and 2048 by none. The theorems of section 5 hold without any of these bounds.

`CHECK_DEADLOCK FALSE` is set in every configuration: the circuit stops when the
draws and debits that bound the model are spent, and the programs end.

The bounds in guards are `MaxDraws` (nonces an element draws), `MaxDebits` (debits an
element makes) and `MaxMoney` (opening balances). `Crackable` and `Losable` bound
which elements may be compromised. `Numbers`, `MaxArguments` and `CheckLimits` bound
the arguments of the harness. Nothing else is cut off.

## 4. Fairness

`OfflineEuro` assumes none: nothing in the code makes anybody deliver a message, and
all that is stated about it is safety. That value *can* land is stated as an
invariant instead (`PaymentLands`, `FundingLands`, `DefundingLands`: the receiver's
verdict is `"Ok"`), which needs no fairness and says more than that it eventually does.

`Fuzz` and `Harness` assume weak fairness of the whole next-state relation: the
program is one thread that never blocks, so while there is a next step it is taken.
Under it, `Finishes` says that every call returns, refused ones too, and the command
comes to an end; `CheckPasses` that the program comes to its exit code, whatever its
arguments.

`Signature` assumes none: key generation may draw unlucky numbers for ever.

## 5. What is proved

All for every value of the constants, under the modules' named assumptions.

- **AmountsTheorems.** Facts about sums over finite sets and functions: a sum of
  natural amounts is natural, splits over disjoint sets, and changes by the right
  amount when an entry is inserted, removed or updated. They rest on `SumIsCents`:
  the sum is the cardinality of the set of pairs (entry, cent), which turns the
  recursion in the community modules' folds into statements about cardinality.
- **PartyProofs.** For any element in any environment: `WalletTypeCorrect`,
  `HoldingLimitKept`, `NoncesUsedOnce`. None is inductive alone. That `Reserved`, a
  sum of u64 additions that may wrap, is the true sum needs the limit; that a credit
  keeps the balance within u64 needs the limit; that inserting a reservation adds to
  the sum, and does not overwrite another, needs the fresh nonce. `WalletInv` is the
  conjunction, proved action by action. The environment is arbitrary: certificates,
  requests, transfers and fundings are any sets whose fields are in range, so the
  theorems cover altered and repeated messages and cracked elements.

  For any requests and orders: `IssuerTypeCorrect` and `BooksAlwaysBalance`. The
  inductive step of a credit is `WrapLoss`: what a wrapping addition drops is what
  `overflowed` records.
- **OfflineEuroProofs.** For the whole circuit, any number of elements, accounts and
  messages: `CircuitTypeCorrect`, `FloatAlwaysBacked`, `MoneyAlwaysConserved`,
  `NegativeFloatProves`, `RequestsCreditedOnce`, `CancelledStaysCancelled`,
  `CircuitStaysClosed`. The parties' own invariants come from the module above,
  operation by operation; `EuroInv` adds what ties the parties together, because each
  movement of value is seen by one of them only:
  - a copy that passes the checks is a message that was sent (`GenuineTransfer`,
    `GenuineFunding`, `GenuineDefunding`), so what is credited is worth what was debited;
  - a message that is sent is new, its counter being above every counter its element
    used and its nonce one the issuer never granted (`Numbered`), so sending it adds
    its whole worth to what is in transit;
  - a message that is credited was not credited before, since crediting leaves its
    nonce, or its counter, with whoever credited it (`Marked`), so crediting it takes
    its whole worth out of transit;
  - a request is counted once at most, and not before its nonce is recorded (`Counted`),
    and a credit needs a nonce that is not recorded yet (`CountKept`);
  - a nonce that was cancelled was drawn, and is neither open nor credited (`Closed`);
  - an account that is credited has room, because what it holds and what is in transit
    is part of all the money there is (`AccountHasRoom`, `Sourced`).

  With `BooksBalance`, `FloatIsBacked` accounts for all the money (`AllAccounted`), and
  a negative float for minted value.

- **LandingProofs.** `RoomHeldForOpenRequests`, `PaymentsLand`, `FundingsLand`,
  `DefundingsLand`. `EuroInv` says what a nonce that was credited or cancelled is no
  longer. `LandingInv` adds the converse: a request made is open at its amount,
  cancelled, or credited (`PaymentsKept`, `FundingsKept`); whatever is open was asked
  for (`Asked`); a funding answers one request and no other funding does (`Granted`);
  the counter the issuer saw last is that of an order it credited (`LastSeen`). With
  it every refusal of a genuine message leaves only the case its property excludes.
  `CircuitImplementsNotes`: the refinement, in the same module because it takes both
  invariants. `EuroInv` says that a message credited is a note written (`GenuineTransfer`
  and its like) that has not landed (`Marked`), `AccountAndOrder` that an account has room
  for it, and `Asked` that a nonce still open is a claim made; with these, each operation
  is one action of `Notes`, or changes nothing a holder sees. Elements may be
  cracked and lost, messages altered and repeated: no assumption beyond the modules' own.
- **FuzzProofs.** `CreditsFollowDebits`: no call is refused after value has moved. A
  call is alone while it runs, so `CallInv` can say more than the circuit's: when a
  funding, an order or a transfer is made, the verdict of the side that gets it is
  `"Ok"` already, and nothing comes between.

  `CallsImplementLedger`: the refinement. What is in a message counts
  for the account or element it is meant for, so a debit is the ledger's move and the
  credit a stutter. That the credit is exact, though neither addition is checked, takes
  the limit for an element, and for an account that no more than all the money can
  ever arrive there; hence the total is part of `LedgerInv`, and the theorem assumes
  that all the money fits in a u64 (`Money <= MaxU64`).
  `FuzzFindsNothing`: every check of `run_fuzz` passes, for any number of devices and
  calls, under the same assumption. The checks look at the world between
  calls; `AuditInv` says what each becomes while one runs: the only reservation is that
  of the request in hand (`OneReservation`); the float is ahead of the elements by the
  order in hand (`Float`); until value moves, all but that reservation is as the
  snapshot says (`Undone`).

- **HarnessProofs.** `ArgumentsReadAsDeclared` and `ExitCodeIsTold`, for any number of
  arguments. The loop goes from left to right and remembers nothing, the usage text
  speaks of all arguments at once: which of them are values depends on how many options
  stand in a row before each (`IsValue`), and `ValueFollows` turns that parity into the
  step the loop takes. `ReadInv` says that nothing before the loop's position is wrong,
  that the position is never that of a value, and that what is set so far is what the
  arguments so far declare. `RunInv` follows the commands: one runs only with usable
  values, and the exit code is computed once its scripts and its fuzz run are over.
  `Reported` ties the report to the scripts: those that ended, followed by those still to
  run, are at every step the scripts of the command (`NextScriptReported`), so that at the
  exit all of them have ended; and the program's count of failures is zero exactly when
  every verdict is a pass. The verdicts themselves are arbitrary here: `CheckPasses`, a
  liveness property, says which they are.

- **ArithmeticTheorems.** The number theory of signatures, from the axioms of arithmetic
  up. `Induct` and `Iterated`, induction and recursion over the naturals, come from the
  least element of a set; with them powers, congruences (`Same`), what `ModPow` and
  `ExtendedGcd` compute (`ModPowIs`, `Bezout`; `EuclidExists` shows that the recursion
  has a solution), the width of a number (`BitsIs`) and the powers of two, which are
  counted as sets of subsets. `PrimeDivides` is Euclid's lemma. `Fermat`: the multiples
  of a number by powers of `a` fall into orbits of one size, the order of `a`, so the
  order divides `p - 1`. `RSA` follows for each of the two primes, and for their product.
  `Rabin`: of the numbers below an odd composite, no multiple of three, at most a quarter
  have powers like those modulo a prime (`Lying`). Two units are found that move such
  numbers to three more places each (`FourApart`); how depends on whether a prime divides
  the number twice (`SquareFactor`), it has three coprime factors (`ThreeFactors`), or it
  is a product of two primes (`TwoFactors`). The last takes a number whose power of
  `p - 1` is not one modulo the greater prime (`PowerNotOne`); there is one because the
  `k`th difference of the `k`th power is `k!`, and not zero.
- **SignatureProofs.** For keys of every size, `OnlySignatureVerifies`, `WidthIsFull`,
  `ExponentsAreInverse`, `MaskedIsBelow`; for every number, `PrimesAlwaysPass`
  and `FewLiarsAlways`.
  `SignatureInv` keeps beside a key what the loop of `generate` let through. That a
  value verifies only if it is the signature is `OnlyRoot`: the exponents undo one
  another in either order. That a prime passes each round: the last of the squares is
  one by `Fermat`, and the first that is one comes after `n - 1`, for modulo a prime one
  has no other roots (`RootsOfOne`). `FewLiarsAlways`: the bases that let a composite
  through are `Lying` at the last squaring where any number reaches minus one
  (`PassingLie`); one and minus one are among them and are never drawn, so a quarter is
  of the bases drawn from (`QuarterOfBases`).

The assumptions are those the modules name: amounts, balances and limits are u64,
devices and accounts are finitely many, the two issuers' keys differ, the fuzz command
has an account for each device and makes no more calls than the draws and debits
allowed by the bounds; key sizes are even and at least 4 (`generate` asserts 512); and
`Money <= MaxU64` where a theorem says so. The fuzz command's money is one and a half
limits per device, so a run whose money does not fit would take limits near 2^64
cents.

Only model-checked: liveness (`Finishes`, `CheckPasses`), which is beyond the prover.
Every invariant and every action property of a passing run is proved. `FewLiars` counts
bases; what that means for the chance of a wrong answer, with bases drawn uniformly and
independently, is not expressed.

## 6. Assumptions

- *Signatures.* What verifies was signed, by that key, over exactly that content.
  Different tags or fields have different digests (`hash.rs` prefixes lengths). The part
  that is arithmetic is proved: one value verifies, the one signed (`OnlySignatureVerifies`).
- *Nonces* do not repeat on one element, *device ids* do not repeat: 16 random bytes.
  Two elements may draw the same nonce in the model; the code relies on nonces only
  per element, and the checks confirm that this is enough.
- *Debit counter.* It is a u64 that grows by one per debit and cannot wrap in practice.
- *Cracking* is what `wallet.rs` makes of it: debits that take nothing off. The
  key of a cracked element is not used outside it.
- *The float* is an i128, which no run of the program can overflow: an integer.
- *Release build*, where `+=` wraps, on a 64-bit target, where the casts of `--devices`
  and `--ops` from u64 to usize change nothing.

## 7. Findings

1. **A payer can debit itself and the credit still fail** (`paid_twice`).
   `wallet.rs:13-14` says that by the time the payer has debited, the credit cannot
   fail. `pay` (`wallet.rs:208`) does not remember what it has paid, so one request
   can be paid twice, by one payer or by two; the second transfer is refused as
   `AlreadyCredited` and its value is stranded, with no cancellation involved.
   `PaymentLands` states what does hold.
2. **An order that was never processed is refused as a replay** (`overtaken`).
   `Error::Replay` is "a defunding counter or funding nonce the issuer has already
   seen" (`error.rs:40`); the check (`issuer.rs:162`) refuses every counter not above
   the last one, so an order overtaken by a later one is lost. `DefundingLands`
   states what does hold.

3. **The lowest `--limit` fails the check command** (`lowest_limit`). `main.rs:612-613`
   turns limits below 20 € away because "the scenarios pay up to 20 €", but two scenarios
   fund an element with 30 € and 40 € (`main.rs:284`, `main.rs:305`) and fail under
   accepted limits below those. `CheckPasses` states what each needs.

The repository's README already names the third way of stranding value, a payee that
gives up on a request that is being paid; the model shows it too (`FloatIsBacked`
keeps counting the value) and it is not reported as a divergence. Likewise
`MaskKeepsBelow` holds for key sizes of whole bytes only; for others, which the code
accepts, the masked hash can exceed the modulus, contrary to the comment at
`signature.rs:44`, and is reduced, which `OnlyTheSignature` shows to be harmless.

## 8. Not modelled

- Printing, formatting and `Display` texts (`error.rs`, the `println!`s of `main.rs` and
  of the example): they carry no state.
- The hash functions and big-number arithmetic of the crates used, which are external,
  and how hard forging a signature is.
- The tests (`tests/protocol.rs`, the test module of `signature.rs`) are single runs of
  operations that are modelled; they were read for what those are meant to do.
- Accessors that nothing depends on, such as `account_of`.
