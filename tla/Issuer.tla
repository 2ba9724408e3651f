-------------------------------- MODULE Issuer --------------------------------
(***************************************************************************)
(* The online side (issuer.rs): accounts, the register of certified        *)
(* devices, funding and defunding.  Every variable but the two that record *)
(* history is a field of the struct Issuer.                                *)
(***************************************************************************)
EXTENDS Messages

CONSTANTS Accounts       \* AccountId

ASSUME AccountsAssumption == IsFiniteSet(Accounts)

VARIABLES accounts,        \* balance, by account opened
          devices,         \* DeviceRecord, by device certified
          funding_nonces,  \* <<device, nonce>> of the funding requests granted
          offline_float,   \* funded minus defunded; i128, so signed
          money,           \* history: what the accounts were opened with
          overflowed       \* history: what accounts lost when their u64 wrapped

issuerVars == <<accounts, devices, funding_nonces, offline_float, money, overflowed>>

IssuerInit ==
  /\ accounts = NoEntries
  /\ devices = NoEntries
  /\ funding_nonces = {}
  /\ offline_float = 0
  /\ money = 0
  /\ overflowed = 0

\* issuer.balance_of(account).unwrap_or(0)
BalanceOf(account) == IF account \in DOMAIN accounts THEN accounts[account] ELSE 0

\* Opening an account again overwrites its balance, as the tests do to top one up.
OpenAccount(account, balance) ==
  /\ accounts' = Insert(accounts, account, balance)
  /\ money' = money - BalanceOf(account) + balance
  /\ UNCHANGED <<devices, funding_nonces, offline_float, overflowed>>

CertifyVerdict(account) ==
  IF account \notin DOMAIN accounts THEN "UnknownAccount" ELSE "Ok"

\* The device id is 16 random bytes, assumed not to repeat.
CertifyDevice(device, account, public_key) ==
  /\ CertifyVerdict(account) = "Ok"
  /\ device \notin DOMAIN devices
  /\ devices' = Insert(devices, device,
                       [account |-> account, public_key |-> public_key,
                        last_defunding_counter |-> 0])
  /\ UNCHANGED <<accounts, funding_nonces, offline_float, money, overflowed>>

-----------------------------------------------------------------------------

\* Mutant: the account is not looked at.
FundVerdictUncovered(r) ==
  IF r.device \notin DOMAIN devices THEN "UnknownDevice"
  ELSE IF <<r.device, r.nonce>> \in funding_nonces THEN "Replay"
  ELSE "Ok"

\* Mutant: a request is granted as often as it arrives.
FundVerdictReplayable(r) ==
  IF r.device \notin DOMAIN devices THEN "UnknownDevice"
  ELSE IF ~Verifies(devices[r.device].public_key, FundingRequestDigest(r), r.signature)
    THEN "InvalidSignature"
  ELSE IF accounts[devices[r.device].account] < r.amount_cents THEN "InsufficientFunds"
  ELSE "Ok"

FundVerdict(r) ==
  IF r.device \notin DOMAIN devices THEN "UnknownDevice"
  ELSE IF ~Verifies(devices[r.device].public_key, FundingRequestDigest(r), r.signature)
    THEN "InvalidSignature"
  ELSE IF r.amount_cents = 0 THEN "ZeroAmount"
  ELSE IF <<r.device, r.nonce>> \in funding_nonces THEN "Replay"
  ELSE IF devices[r.device].account \notin DOMAIN accounts THEN "UnknownAccount"
  ELSE IF accounts[devices[r.device].account] < r.amount_cents THEN "InsufficientFunds"
  ELSE "Ok"

\* The funding that fund(r) signs.
FundingOf(r) == SignedFunding(r.device, r.amount_cents, r.nonce)

IssuerFund(r) ==
  /\ FundVerdict(r) = "Ok"
  /\ accounts' = [accounts EXCEPT ![devices[r.device].account] = @ - r.amount_cents]
  /\ offline_float' = offline_float + r.amount_cents
  /\ funding_nonces' = funding_nonces \cup {<<r.device, r.nonce>>}
  /\ UNCHANGED <<devices, money, overflowed>>

\* Mutant: the counter last seen is taken once more.
DefundVerdictReplayable(o) ==
  IF o.device \notin DOMAIN devices THEN "UnknownDevice"
  ELSE IF ~Verifies(devices[o.device].public_key, DefundingDigest(o), o.signature)
    THEN "InvalidSignature"
  ELSE IF o.counter < devices[o.device].last_defunding_counter THEN "Replay"
  ELSE "Ok"

\* Mutant: counters are taken only without gaps, as if payments did not use them.
DefundVerdictNoGaps(o) ==
  IF o.device \notin DOMAIN devices THEN "UnknownDevice"
  ELSE IF ~Verifies(devices[o.device].public_key, DefundingDigest(o), o.signature)
    THEN "InvalidSignature"
  ELSE IF o.counter # devices[o.device].last_defunding_counter + 1 THEN "Replay"
  ELSE "Ok"

DefundVerdict(o) ==
  IF o.device \notin DOMAIN devices THEN "UnknownDevice"
  ELSE IF ~Verifies(devices[o.device].public_key, DefundingDigest(o), o.signature)
    THEN "InvalidSignature"
  ELSE IF o.counter <= devices[o.device].last_defunding_counter THEN "Replay"
  ELSE IF devices[o.device].account \notin DOMAIN accounts THEN "UnknownAccount"
  ELSE "Ok"

\* Mutant: an account that is full swallows the rest.
IssuerDefundSaturating(o) ==
  /\ DefundVerdict(o) = "Ok"
  /\ LET account == devices[o.device].account
         sum == accounts[account] + o.amount_cents
     IN  accounts' = [accounts EXCEPT ![account] = IF sum > MaxU64 THEN MaxU64 ELSE sum]
  /\ offline_float' = offline_float - o.amount_cents
  /\ devices' = [devices EXCEPT ![o.device].last_defunding_counter = o.counter]
  /\ UNCHANGED <<funding_nonces, money, overflowed>>

\* Credits the account; the addition is not checked for overflow.
IssuerDefund(o) ==
  /\ DefundVerdict(o) = "Ok"
  /\ LET account == devices[o.device].account
         sum == accounts[account] + o.amount_cents
     IN  /\ accounts' = [accounts EXCEPT ![account] = Wrap(sum)]
         /\ overflowed' = overflowed + (sum - Wrap(sum))
  /\ offline_float' = offline_float - o.amount_cents
  /\ devices' = [devices EXCEPT ![o.device].last_defunding_counter = o.counter]
  /\ UNCHANGED <<funding_nonces, money>>

-----------------------------------------------------------------------------
(* The issuer on its own, handed whatever requests and orders there are. *)

IssuerNext(balances, requests, orders) ==
  \/ \E account \in Accounts, balance \in balances : OpenAccount(account, balance)
  \/ \E d \in Devices, account \in Accounts : CertifyDevice(d, account, d)
  \/ \E r \in requests : IssuerFund(r)
  \/ \E o \in orders : IssuerDefund(o)

IssuerSpec(balances, requests, orders) ==
  IssuerInit /\ [][IssuerNext(balances, requests, orders)]_issuerVars

-----------------------------------------------------------------------------

DeviceRecord == [account : Accounts, public_key : Keys,
                 last_defunding_counter : 0 .. MaxDebits]

IssuerTypeOK ==
  /\ DOMAIN accounts \subseteq Accounts
  /\ accounts \in [DOMAIN accounts -> U64]
  /\ DOMAIN devices \subseteq Devices
  /\ devices \in [DOMAIN devices -> DeviceRecord]
  /\ \A d \in DOMAIN devices : devices[d].account \in DOMAIN accounts
  /\ funding_nonces \subseteq Devices \X Nonces
  /\ offline_float \in Int
  /\ money \in Int
  /\ overflowed \in Nat

\* What the accounts hold and what is in circulation offline add up to what the
\* accounts were opened with (main.rs, check_invariants: "online balances plus
\* the float equal the money that existed at the start"), whatever requests and
\* orders arrive, in whatever order, except for what a wrapping account loses.
BooksBalance == SumFunction(accounts) + offline_float + overflowed = money

=============================================================================
