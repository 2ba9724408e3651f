----------------------------- MODULE OfflineEuro -----------------------------
(***************************************************************************)
(* The offline digital euro: the elements, the issuer, and the messages    *)
(* between them (lib.rs, message.rs).  Every message ever sent stays in    *)
(* transit: it may be delivered late, out of order, again, or never, and   *)
(* the copy delivered may have been altered the way the tests alter one.   *)
(* Elements can be lost or cracked.                                        *)
(***************************************************************************)
EXTENDS Wallet, Issuer

CONSTANTS CentAmounts,     \* amounts asked for, zero included
          OpeningBalances, \* of accounts
          Limits,          \* holding limits certified
          Strangers,       \* elements certified by the other issuer only
          AlteredAmounts,  \* amounts an altered copy may carry
          Crackable,       \* bound: elements that may be cracked
          Losable,         \* bound: elements that may be lost
          MaxMoney         \* bound: money the accounts are opened with

ASSUME OfflineEuroAssumption ==
  /\ CentAmounts \subseteq U64 /\ AlteredAmounts \subseteq U64
  /\ OpeningBalances \subseteq U64 /\ Limits \subseteq U64
  /\ Strangers \subseteq Devices
  /\ IssuerKey # OtherKey
  /\ IsFiniteSet(Devices)
  /\ MaxMoney \in Nat

VARIABLES requests,          \* PaymentRequests sent
          transfers,         \* Transfers sent
          funding_requests,  \* FundingRequests sent
          fundings,          \* Fundings sent
          defundings,        \* Defundings sent
          lost,              \* elements dropped
          received,          \* history: transfers credited
          applied,           \* history: fundings credited
          cashed,            \* history: defundings credited
          credits,           \* history: how often each request was credited, by nonce
          abandoned,         \* history: nonces of cancelled requests, by element
          minted             \* history: value that cracked elements paid out

network == <<requests, transfers, funding_requests, fundings, defundings>>

history == <<received, applied, cashed, credits, abandoned, minted>>

vars == <<walletVars, issuerVars, network, lost, history>>

Init ==
  /\ WalletInit /\ IssuerInit
  /\ requests = {} /\ transfers = {} /\ funding_requests = {}
  /\ fundings = {} /\ defundings = {}
  /\ lost = {}
  /\ received = {} /\ applied = {} /\ cashed = {}
  /\ credits = [d \in Devices |-> [n \in Nonces |-> 0]]
  /\ abandoned = [d \in Devices |-> {}]
  /\ minted = 0

-----------------------------------------------------------------------------
(***************************************************************************)
(* What can be delivered: the messages sent, copies of them with another   *)
(* amount, payee or certificate, and transfers from an element that only   *)
(* the other issuer certified.                                             *)
(***************************************************************************)

WithAlteredAmounts(messages) ==
  messages \cup {[m EXCEPT !.amount_cents = a] : m \in messages, a \in AlteredAmounts}

StrangersCertificates == {SignedCertificate(x, x, l, OtherKey) : x \in Strangers, l \in Limits}

RequestCopies ==
  WithAlteredAmounts(requests)
    \cup {[r EXCEPT !.payee = c] : r \in requests, c \in StrangersCertificates}

TransferCopies ==
  WithAlteredAmounts(transfers)
    \cup {[t EXCEPT !.payee = d] : t \in transfers, d \in Devices}
    \cup {SignedTransfer(c, r.payee.device, r.amount_cents, r.nonce, k) :
            c \in StrangersCertificates, r \in requests, k \in Counters}

-----------------------------------------------------------------------------
(* Enrolment, loss and compromise. *)

Open(account, balance) ==
  /\ OpenAccount(account, balance)
  /\ money' <= MaxMoney
  /\ UNCHANGED <<walletVars, network, lost, history>>

\* lib.rs enrol: a key, its certificate, and the element they are installed on.
Enrol(d, account, limit) ==
  /\ CertifyDevice(d, account, d)
  /\ Install(SignedCertificate(d, d, limit, IssuerKey), d, IssuerKey)
  /\ UNCHANGED <<network, lost, history>>

Lose(d) ==
  /\ lost' = lost \cup {d}
  /\ UNCHANGED <<walletVars, issuerVars, network, history>>

Crack(d) ==
  /\ CrackSecureElement(d)
  /\ UNCHANGED <<issuerVars, network, lost, history>>

-----------------------------------------------------------------------------
(* An offline payment: request, transfer, credit. *)

AskPayment(d, amount) ==
  /\ RequestPayment(d, amount)
  /\ requests' = requests \cup {PaymentRequestOf(d, amount)}
  /\ UNCHANGED <<issuerVars, transfers, funding_requests, fundings, defundings, lost, history>>

AbandonPayment(d, nonce) ==
  /\ CancelRequest(d, nonce)
  /\ abandoned' = [abandoned EXCEPT ![d] = @ \cup {nonce}]
  /\ UNCHANGED <<issuerVars, network, lost, received, applied, cashed, credits, minted>>

\* History: a debit that takes nothing off the element creates its amount.
Mint(d, amount) == minted' = IF state[d] = "Cracked" THEN minted + amount ELSE minted

PayRequest(d, r) ==
  /\ Pay(d, r)
  /\ transfers' = transfers \cup {TransferOf(d, r)}
  /\ Mint(d, r.amount_cents)
  /\ UNCHANGED <<issuerVars, requests, funding_requests, fundings, defundings, lost,
                 received, applied, cashed, credits, abandoned>>

\* History: one more credit of a request, whatever message it came by.
Count(d, nonce) == credits' = [credits EXCEPT ![d][nonce] = @ + 1]

CreditTransfer(d, t) ==
  /\ Receive(d, t)
  /\ received' = received \cup {t}
  /\ Count(d, t.nonce)
  /\ UNCHANGED <<issuerVars, network, lost, applied, cashed, abandoned, minted>>

-----------------------------------------------------------------------------
(* Funding and defunding. *)

AskFunding(d, amount) ==
  /\ RequestFunding(d, amount)
  /\ funding_requests' = funding_requests \cup {FundingRequestOf(d, amount)}
  /\ UNCHANGED <<issuerVars, requests, transfers, fundings, defundings, lost, history>>

AbandonFunding(d, nonce) ==
  /\ CancelFunding(d, nonce)
  /\ abandoned' = [abandoned EXCEPT ![d] = @ \cup {nonce}]
  /\ UNCHANGED <<issuerVars, network, lost, received, applied, cashed, credits, minted>>

GrantFunding(r) ==
  /\ IssuerFund(r)
  /\ fundings' = fundings \cup {FundingOf(r)}
  /\ UNCHANGED <<walletVars, requests, transfers, funding_requests, defundings, lost, history>>

CreditFunding(d, f) ==
  /\ ApplyFunding(d, f)
  /\ applied' = applied \cup {f}
  /\ Count(d, f.nonce)
  /\ UNCHANGED <<issuerVars, network, lost, received, cashed, abandoned, minted>>

OrderDefunding(d, amount) ==
  /\ Defund(d, amount)
  /\ defundings' = defundings \cup {DefundingOf(d, amount)}
  /\ Mint(d, amount)
  /\ UNCHANGED <<issuerVars, requests, transfers, funding_requests, fundings, lost,
                 received, applied, cashed, credits, abandoned>>

CreditDefunding(o) ==
  /\ IssuerDefund(o)
  /\ cashed' = cashed \cup {o}
  /\ UNCHANGED <<walletVars, network, lost, received, applied, credits, abandoned, minted>>

-----------------------------------------------------------------------------

ElementNext(d) ==
  \/ d \in Crackable /\ Crack(d)
  \/ d \in Losable /\ Lose(d)
  \/ \E a \in CentAmounts : AskPayment(d, a)
  \/ \E n \in Nonces : AbandonPayment(d, n)
  \/ \E r \in RequestCopies : PayRequest(d, r)
  \/ \E t \in TransferCopies : CreditTransfer(d, t)
  \/ \E a \in CentAmounts : AskFunding(d, a)
  \/ \E n \in Nonces : AbandonFunding(d, n)
  \/ \E f \in WithAlteredAmounts(fundings) : CreditFunding(d, f)
  \/ \E a \in CentAmounts : OrderDefunding(d, a)

Next ==
  \/ \E account \in Accounts, balance \in OpeningBalances : Open(account, balance)
  \/ \E d \in Devices \ Strangers, account \in Accounts, limit \in Limits :
       Enrol(d, account, limit)
  \/ \E d \in Installed \ lost : ElementNext(d)
  \/ \E r \in WithAlteredAmounts(funding_requests) : GrantFunding(r)
  \/ \E o \in WithAlteredAmounts(defundings) : CreditDefunding(o)

Spec == Init /\ [][Next]_vars

-----------------------------------------------------------------------------

NetworkTypeOK ==
  /\ \A r \in requests : IsPaymentRequest(r, IssuerKey)
  /\ \A t \in transfers : IsTransfer(t, IssuerKey)
  /\ \A r \in funding_requests : IsFundingRequest(r)
  /\ \A f \in fundings : IsFunding(f)
  /\ \A o \in defundings : IsDefunding(o)

HistoryTypeOK ==
  /\ lost \subseteq Installed
  /\ received \subseteq transfers /\ applied \subseteq fundings /\ cashed \subseteq defundings
  /\ credits \in [Devices -> [Nonces -> Nat]]
  /\ abandoned \in [Devices -> SUBSET Nonces]
  /\ minted \in Nat

TypeOK ==
  /\ WalletTypeOK /\ IssuerTypeOK /\ NetworkTypeOK /\ HistoryTypeOK
  /\ Installed = DOMAIN devices
  /\ \A d \in Installed : IsCertificate(certificate[d], IssuerKey)

\* Value debited from an account or an element and not credited anywhere yet.
InTransit ==
  Worth(transfers \ received) + Worth(fundings \ applied) + Worth(defundings \ cashed)

OnDevices == SumFunction(balance_cents)

Online == SumFunction(accounts)

\* The float counts every cent that left the accounts and did not come back: what
\* the elements hold, lost ones included, and what is in transit or stranded.
\* Value that cracked elements created is not in it (issuer.rs: "Counterfeiting
\* pushes real holdings above this figure").
FloatIsBacked == OnDevices + InTransit = offline_float + minted

\* Money is neither created, except by cracked elements, nor destroyed: a message
\* that is lost, repeated, overtaken or refused moves no value.  No account's u64
\* wraps while all the money fits into it.
MoneyConserved ==
  /\ Online + OnDevices + InTransit + overflowed = money + minted
  /\ MaxMoney + minted <= MaxU64 => overflowed = 0

\* Only a negative float proves that value was counterfeited (issuer.rs,
\* offline_float), and it does prove it.
NegativeFloatIsProof ==
  offline_float < 0 => \E d \in Installed : state[d] = "Cracked"

\* A request is credited at most once, for a payment or for a funding, however
\* many answers to it there are and however often each of them is delivered
\* (wallet.rs, receive and apply_funding): credits counts every delivery that
\* added to the balance, those of one and the same message too.
CreditedOnce == \A d \in Devices, n \in Nonces : credits[d][n] <= 1

\* Nothing that answers a cancelled request is ever credited (wallet.rs,
\* cancel_request and cancel_funding), whether it was sent before or after.
CancelledForGood ==
  /\ \A t \in received : t.nonce \notin abandoned[t.payee]
  /\ \A f \in applied : f.nonce \notin abandoned[f.device]

\* Value moves only between elements the issuer has certified (certificate.rs:
\* "value never enters or leaves the offline circuit").
CircuitIsClosed ==
  \A t \in transfers : {t.payer.device, t.payee} \subseteq DOMAIN devices

OpenRequests(d) ==
  {r \in requests : /\ r.payee.device = d /\ r.nonce \notin abandoned[d]
                    /\ ~\E t \in received : t.payee = d /\ t.nonce = r.nonce}

OpenFundingRequests(d) ==
  {r \in funding_requests : /\ r.device = d /\ r.nonce \notin abandoned[d]
                            /\ ~\E f \in applied : f.device = d /\ f.nonce = r.nonce}

Entries(map) == {<<n, map[n]>> : n \in DOMAIN map}

AsEntries(messages) == {<<r.nonce, r.amount_cents>> : r \in messages}

\* A reservation has no timeout (wallet.rs, request_payment and request_funding): an
\* element holds room for exactly the requests it made that were neither credited
\* nor cancelled, whatever else reached it, so no step leaks room and none gives it
\* away while a request can still be answered.
RoomIsForOpenRequests ==
  \A d \in Installed :
    /\ Entries(incoming[d]) = AsEntries(OpenRequests(d))
    /\ Entries(pending_funding[d]) = AsEntries(OpenFundingRequests(d))

Answers(t, r) ==
  t.payee = r.payee.device /\ t.nonce = r.nonce /\ t.amount_cents = r.amount_cents

\* Once a request is paid the credit cannot fail (wallet.rs), as long as it is the
\* request the payee made, the payee has not cancelled it, and it has not been
\* settled by another transfer.
PaymentLands ==
  \A t \in transfers \ received :
    (/\ \E r \in requests : Answers(t, r)
     /\ t.nonce \notin abandoned[t.payee]
     /\ \A s \in received : ~(s.payee = t.payee /\ s.nonce = t.nonce))
    => ReceiveVerdict(t.payee, t) = "Ok"

\* Once an account is debited for a funding, the element can credit it until it
\* cancels the request.
FundingLands ==
  \A f \in fundings \ applied :
    f.nonce \notin abandoned[f.device] => ApplyVerdict(f.device, f) = "Ok"

\* The issuer refuses a defunding order only when a later order of the same
\* element was credited before it.
DefundingLands ==
  \A o \in defundings \ cashed :
    (\A p \in cashed : p.device = o.device => p.counter < o.counter)
    => DefundVerdict(o) = "Ok"

-----------------------------------------------------------------------------
(***************************************************************************)
(* The circuit seen as notes (module Notes).  A request is a claim, open   *)
(* while the element holds room for it; a transfer, a funding or an order  *)
(* that was made is a note, landed once it was credited.  Everything else  *)
(* that is in the state, or in a message, is how that is brought about.    *)
(***************************************************************************)

Claim(device, nonce, cents, kind) ==
  [by |-> device, id |-> nonce, cents |-> cents, kind |-> kind]

ClaimsMade ==
  {Claim(r.payee.device, r.nonce, r.amount_cents, "payment") : r \in requests}
    \cup {Claim(r.device, r.nonce, r.amount_cents, "funding") : r \in funding_requests}

OpenClaims ==
  UNION {{Claim(d, n, incoming[d][n], "payment") : n \in DOMAIN incoming[d]}
           \cup {Claim(d, n, pending_funding[d][n], "funding") : n \in DOMAIN pending_funding[d]}
         : d \in Installed}

TransferNote(t) ==
  [from |-> t.payer.device, serial |-> t.counter,
   claim |-> Claim(t.payee, t.nonce, t.amount_cents, "payment")]

FundingNote(f) ==
  [from |-> IssuerKey, serial |-> 0,
   claim |-> Claim(f.device, f.nonce, f.amount_cents, "funding")]

OrderNote(o) == [from |-> o.device, serial |-> o.counter, cents |-> o.amount_cents]

NotesOn(some_transfers, some_fundings) ==
  {TransferNote(t) : t \in some_transfers} \cup {FundingNote(f) : f \in some_fundings}

OrdersOf(some_defundings) == {OrderNote(o) : o \in some_defundings}

Promise == INSTANCE Notes WITH
  Elements <- Devices, Issuer <- IssuerKey, Cents <- U64,
  online <- accounts,
  offline <- balance_cents,
  owner <- [d \in DOMAIN devices |-> devices[d].account],
  forgers <- {d \in Installed : state[d] = "Cracked"},
  gone <- lost,
  claims <- ClaimsMade,
  open <- OpenClaims,
  notes <- NotesOn(transfers, fundings),
  orders <- OrdersOf(defundings),
  landed <- NotesOn(received, applied) \cup OrdersOf(cashed),
  money <- money,
  forged <- minted

\* Whatever is lost, repeated, delayed, altered, overtaken or cracked, value moves as
\* notes do: every debit writes one note, and a note lands at most once, for its whole
\* worth, on a claim its receiver made and has not given up (wallet.rs, issuer.rs).
ImplementsNotes == Promise!Spec

-----------------------------------------------------------------------------
(* What the comments say and the code does not do. *)

\* "By the time the payer has debited, the credit cannot fail" (wallet.rs:13), for
\* a request that reached the payer as it was made and that nobody cancelled.  An
\* element keeps no record of the requests it has paid, and a second payer knows
\* nothing of the first: the second transfer is refused as AlreadyCredited.
PaidMeansCreditable ==
  \A t \in transfers \ received :
    /\ \E r \in requests : Answers(t, r)
    /\ t.nonce \notin abandoned[t.payee]
    => ReceiveVerdict(t.payee, t) = "Ok"

\* "A defunding counter ... the issuer has already seen" (error.rs:40, Replay).  An
\* order that a later one of the same element overtook is refused as well.
ReplayMeansSeen ==
  \A o \in defundings :
    DefundVerdict(o) = "Replay"
    => \E p \in cashed : p.device = o.device /\ p.counter = o.counter

=============================================================================
