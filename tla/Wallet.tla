-------------------------------- MODULE Wallet --------------------------------
(***************************************************************************)
(* The applet on the secure elements (wallet.rs).  Every variable is a     *)
(* field of the struct Wallet, for all elements at once.  An operation     *)
(* that can refuse has a verdict, which runs the checks in the order of    *)
(* the code; its action is enabled when the verdict is "Ok".  A refusal    *)
(* returns early and changes nothing.                                      *)
(***************************************************************************)
EXTENDS Messages

VARIABLES certificate,      \* of the installed elements, by device
          balance_cents,
          incoming,         \* room reserved for payment requests, by nonce
          pending_funding,  \* room reserved for funding requests, by nonce
          credited,         \* nonces already credited
          counter,
          state,            \* ElementState
          rng               \* nonces drawn so far

walletVars == <<certificate, balance_cents, incoming, pending_funding,
                credited, counter, state, rng>>

Installed == DOMAIN certificate

\* The key of the issuer the element trusts.  Wallet::new keeps the key the
\* certificate verifies under.
IssuerOf(d) == certificate[d].signature.key

\* The key pair of the element.  Wallet::new checks that it is the certified one.
KeyOf(d) == certificate[d].public_key

HoldingLimit(d) == certificate[d].holding_limit_cents

WalletInit ==
  /\ certificate = NoEntries
  /\ balance_cents = [d \in Devices |-> 0]
  /\ incoming = [d \in Devices |-> NoEntries]
  /\ pending_funding = [d \in Devices |-> NoEntries]
  /\ credited = [d \in Devices |-> {}]
  /\ counter = [d \in Devices |-> 0]
  /\ state = [d \in Devices |-> "Sealed"]
  /\ rng = [d \in Devices |-> 0]

-----------------------------------------------------------------------------
(* Room under the holding limit. *)

\* Value promised to the element but not yet credited.
Reserved(d) ==
  Wrap(Wrap(SumFunction(incoming[d])) + Wrap(SumFunction(pending_funding[d])))

\* Mutant: promises made are left out of the room.
HeadroomUnreserved(d) == SaturatingSub(HoldingLimit(d), balance_cents[d])

\* How much more the element could accept right now.
Headroom(d) ==
  SaturatingSub(SaturatingSub(HoldingLimit(d), balance_cents[d]), Reserved(d))

ReserveVerdict(d, amount) ==
  IF amount = 0 THEN "ZeroAmount"
  ELSE IF amount > Headroom(d) THEN "HoldingLimitExceeded"
  ELSE "Ok"

\* The nonce the element draws next.
NextNonce(d) == rng[d] + 1

\* Checks the room and draws the nonce it will be reserved under.
Reserve(d, amount) ==
  /\ ReserveVerdict(d, amount) = "Ok"
  /\ rng[d] < MaxDraws
  /\ rng' = [rng EXCEPT ![d] = NextNonce(d)]

-----------------------------------------------------------------------------
(* Debits. *)

\* Mutant: the balance is not looked at.
DebitVerdictUncovered(d, amount) == IF amount = 0 THEN "ZeroAmount" ELSE "Ok"

DebitVerdict(d, amount) ==
  IF amount = 0 THEN "ZeroAmount"
  ELSE IF amount > balance_cents[d] THEN "InsufficientFunds"
  ELSE "Ok"

\* The counter the next debit is signed with.
NextCounter(d) == counter[d] + 1

\* A cracked element signs as if it had debited itself, and keeps the value.
Debit(d, amount) ==
  /\ DebitVerdict(d, amount) = "Ok"
  /\ counter[d] < MaxDebits
  /\ balance_cents' = IF state[d] = "Sealed"
                      THEN [balance_cents EXCEPT ![d] = @ - amount]
                      ELSE balance_cents
  /\ counter' = [counter EXCEPT ![d] = NextCounter(d)]

-----------------------------------------------------------------------------
(* Installation, and the attack that defeats an element. *)

InstallVerdict(c, key, issuer) ==
  IF ~CertificateVerifies(c, issuer) \/ c.public_key # key
  THEN "InvalidCertificate"
  ELSE "Ok"

\* Wallet::new, once per certificate: a fresh element with nothing on it.
Install(c, key, issuer) ==
  /\ InstallVerdict(c, key, issuer) = "Ok"
  /\ c.device \notin Installed
  /\ certificate' = Insert(certificate, c.device, c)
  /\ balance_cents' = [balance_cents EXCEPT ![c.device] = 0]
  /\ incoming' = [incoming EXCEPT ![c.device] = NoEntries]
  /\ pending_funding' = [pending_funding EXCEPT ![c.device] = NoEntries]
  /\ credited' = [credited EXCEPT ![c.device] = {}]
  /\ counter' = [counter EXCEPT ![c.device] = 0]
  /\ state' = [state EXCEPT ![c.device] = "Sealed"]
  /\ UNCHANGED rng

CrackSecureElement(d) ==
  /\ state' = [state EXCEPT ![d] = "Cracked"]
  /\ UNCHANGED <<certificate, balance_cents, incoming, pending_funding,
                 credited, counter, rng>>

-----------------------------------------------------------------------------
(* As payee. *)

\* The request that the next request_payment(amount) returns.
PaymentRequestOf(d, amount) ==
  [payee |-> certificate[d], amount_cents |-> amount, nonce |-> NextNonce(d)]

RequestPayment(d, amount) ==
  /\ Reserve(d, amount)
  /\ incoming' = [incoming EXCEPT ![d] = Insert(@, NextNonce(d), amount)]
  /\ UNCHANGED <<certificate, balance_cents, pending_funding, credited, counter, state>>

\* Mutant: says the request is gone and leaves it open.
CancelRequestLeftOpen(d, nonce) == nonce \in DOMAIN incoming[d] /\ UNCHANGED walletVars

\* Returns false, and does nothing, for a nonce that holds no reservation.
CancelRequest(d, nonce) ==
  /\ nonce \in DOMAIN incoming[d]
  /\ incoming' = [incoming EXCEPT ![d] = Remove(@, nonce)]
  /\ UNCHANGED <<certificate, balance_cents, pending_funding, credited, counter,
                 state, rng>>

\* Mutant: the limit is checked when the transfer arrives.
ReceiveVerdictOnArrival(d, t) ==
  IF t.nonce \notin DOMAIN incoming[d] THEN "UnknownRequest"
  ELSE IF t.amount_cents > Headroom(d) THEN "HoldingLimitExceeded"
  ELSE "Ok"

ReceiveVerdict(d, t) ==
  IF t.payee # certificate[d].device THEN "NotForThisDevice"
  ELSE IF ~CertificateVerifies(t.payer, IssuerOf(d)) THEN "InvalidCertificate"
  ELSE IF ~Verifies(t.payer.public_key, TransferDigest(t), t.signature)
    THEN "InvalidSignature"
  ELSE IF t.nonce \in credited[d] THEN "AlreadyCredited"
  ELSE IF t.nonce \notin DOMAIN incoming[d] THEN "UnknownRequest"
  ELSE IF t.amount_cents # incoming[d][t.nonce] THEN "AmountMismatch"
  ELSE "Ok"

\* Mutant: the reservation outlives the credit.
ReceiveReserved(d, t) ==
  /\ ReceiveVerdict(d, t) = "Ok"
  /\ credited' = [credited EXCEPT ![d] = @ \cup {t.nonce}]
  /\ balance_cents' = [balance_cents EXCEPT ![d] = Wrap(@ + incoming[d][t.nonce])]
  /\ UNCHANGED <<certificate, incoming, pending_funding, counter, state, rng>>

\* Mutant: the credit leaves no record.
ReceiveUnrecorded(d, t) ==
  /\ ReceiveVerdict(d, t) = "Ok"
  /\ balance_cents' = [balance_cents EXCEPT ![d] = Wrap(@ + incoming[d][t.nonce])]
  /\ UNCHANGED <<certificate, incoming, credited, pending_funding, counter, state, rng>>

Receive(d, t) ==
  /\ ReceiveVerdict(d, t) = "Ok"
  /\ incoming' = [incoming EXCEPT ![d] = Remove(@, t.nonce)]
  /\ credited' = [credited EXCEPT ![d] = @ \cup {t.nonce}]
  /\ balance_cents' = [balance_cents EXCEPT ![d] = Wrap(@ + incoming[d][t.nonce])]
  /\ UNCHANGED <<certificate, pending_funding, counter, state, rng>>

-----------------------------------------------------------------------------
(* As payer. *)

\* Mutant: pays whoever asks.
PayVerdictUncertified(d, r) ==
  IF r.payee.device = certificate[d].device THEN "SelfPayment"
  ELSE DebitVerdict(d, r.amount_cents)

PayVerdict(d, r) ==
  IF ~CertificateVerifies(r.payee, IssuerOf(d)) THEN "InvalidCertificate"
  ELSE IF r.payee.device = certificate[d].device THEN "SelfPayment"
  ELSE DebitVerdict(d, r.amount_cents)

\* The transfer that the next pay(r) returns.
TransferOf(d, r) ==
  SignedTransfer(certificate[d], r.payee.device, r.amount_cents, r.nonce, NextCounter(d))

Pay(d, r) ==
  /\ PayVerdict(d, r) = "Ok"
  /\ Debit(d, r.amount_cents)
  /\ UNCHANGED <<certificate, incoming, pending_funding, credited, state, rng>>

-----------------------------------------------------------------------------
(* Funding and defunding. *)

\* The request that the next request_funding(amount) returns.
FundingRequestOf(d, amount) ==
  SignedFundingRequest(certificate[d].device, KeyOf(d), amount, NextNonce(d))

RequestFunding(d, amount) ==
  /\ Reserve(d, amount)
  /\ pending_funding' = [pending_funding EXCEPT ![d] = Insert(@, NextNonce(d), amount)]
  /\ UNCHANGED <<certificate, balance_cents, incoming, credited, counter, state>>

CancelFunding(d, nonce) ==
  /\ nonce \in DOMAIN pending_funding[d]
  /\ pending_funding' = [pending_funding EXCEPT ![d] = Remove(@, nonce)]
  /\ UNCHANGED <<certificate, balance_cents, incoming, credited, counter, state, rng>>

\* Mutant: the limit is checked when the funding arrives.
ApplyVerdictOnArrival(d, f) ==
  IF f.nonce \notin DOMAIN pending_funding[d] THEN "UnknownRequest"
  ELSE IF f.amount_cents > Headroom(d) THEN "HoldingLimitExceeded"
  ELSE "Ok"

ApplyVerdict(d, f) ==
  IF f.device # certificate[d].device THEN "NotForThisDevice"
  ELSE IF ~Verifies(IssuerOf(d), FundingDigest(f), f.signature) THEN "InvalidSignature"
  ELSE IF f.nonce \in credited[d] THEN "AlreadyCredited"
  ELSE IF f.nonce \notin DOMAIN pending_funding[d] THEN "UnknownRequest"
  ELSE IF f.amount_cents # pending_funding[d][f.nonce] THEN "AmountMismatch"
  ELSE "Ok"

ApplyFunding(d, f) ==
  /\ ApplyVerdict(d, f) = "Ok"
  /\ pending_funding' = [pending_funding EXCEPT ![d] = Remove(@, f.nonce)]
  /\ credited' = [credited EXCEPT ![d] = @ \cup {f.nonce}]
  /\ balance_cents' = [balance_cents EXCEPT ![d] = Wrap(@ + pending_funding[d][f.nonce])]
  /\ UNCHANGED <<certificate, incoming, counter, state, rng>>

\* The order that the next defund(amount) returns.
DefundingOf(d, amount) ==
  SignedDefunding(certificate[d].device, KeyOf(d), amount, NextCounter(d))

Defund(d, amount) ==
  /\ Debit(d, amount)
  /\ UNCHANGED <<certificate, incoming, pending_funding, credited, state, rng>>

-----------------------------------------------------------------------------
(***************************************************************************)
(* The elements on their own, handed whatever certificates, requests,      *)
(* transfers and fundings the world outside holds.                         *)
(***************************************************************************)
WalletNext(amounts, certificates, requests, transfers, fundings) ==
  \/ \E c \in certificates, key \in Keys, issuer \in Keys : Install(c, key, issuer)
  \/ \E d \in Installed :
       \/ CrackSecureElement(d)
       \/ \E a \in amounts : RequestPayment(d, a)
       \/ \E n \in Nonces : CancelRequest(d, n)
       \/ \E t \in transfers : Receive(d, t)
       \/ \E r \in requests : Pay(d, r)
       \/ \E a \in amounts : RequestFunding(d, a)
       \/ \E n \in Nonces : CancelFunding(d, n)
       \/ \E f \in fundings : ApplyFunding(d, f)
       \/ \E a \in amounts : Defund(d, a)

WalletSpec(amounts, certificates, requests, transfers, fundings) ==
  WalletInit
    /\ [][WalletNext(amounts, certificates, requests, transfers, fundings)]_walletVars

-----------------------------------------------------------------------------

\* Amounts reserved, by nonce.
Reservations == UNION {[nonces -> U64] : nonces \in SUBSET Nonces}

WalletTypeOK ==
  /\ DOMAIN certificate \subseteq Devices
  /\ certificate = [d \in Installed |-> certificate[d]]
  /\ \A d \in Installed : /\ certificate[d].device = d
                          /\ certificate[d].holding_limit_cents \in U64
  /\ balance_cents \in [Devices -> U64]
  /\ incoming \in [Devices -> Reservations] /\ pending_funding \in [Devices -> Reservations]
  /\ credited \in [Devices -> SUBSET Nonces]
  /\ counter \in [Devices -> 0 .. MaxDebits]
  /\ state \in [Devices -> {"Sealed", "Cracked"}]
  /\ rng \in [Devices -> 0 .. MaxDraws]

\* Whatever an element is handed, the value on it and the value promised to it
\* stay within its holding limit together, so that every open request can still
\* be credited (wallet.rs: "the credit cannot fail").  The sums are exact:
\* neither the balance nor the reservations ever wrap.
WithinHoldingLimit ==
  \A d \in Installed :
    balance_cents[d] + SumFunction(incoming[d]) + SumFunction(pending_funding[d])
      <= HoldingLimit(d)

\* A nonce is in at most one place: reserving room for a payment, reserving room
\* for a funding, or credited (wallet.rs, receive and apply_funding release the
\* reservation and record the nonce together).
NonceUsedOnce ==
  \A d \in Devices :
    /\ DOMAIN incoming[d] \cap DOMAIN pending_funding[d] = {}
    /\ credited[d] \cap (DOMAIN incoming[d] \cup DOMAIN pending_funding[d]) = {}
    /\ credited[d] \cup DOMAIN incoming[d] \cup DOMAIN pending_funding[d] \subseteq 1 .. rng[d]

=============================================================================
