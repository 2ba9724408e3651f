------------------------------ MODULE FuzzProofs ------------------------------
(***************************************************************************)
(* The library's calls on the fuzz command's world, for any number of      *)
(* devices and calls and any limit.                                        *)
(*                                                                         *)
(* Whatever is drawn, a call that has moved value cannot be refused any    *)
(* more (CallInv). The next verdict of such a call is "Ok" already when    *)
(* the message is made; nothing but the call itself runs in between.       *)
(*                                                                         *)
(* The calls implement the ledger in which value moves at once (Fuzz,      *)
(* ImplementsLedger), as long as all the money there is fits in a u64      *)
(* (LedgerInv). A step that debits is the ledger's move; the step that     *)
(* credits is none, because the value in the message is counted where it   *)
(* is going. That the credit is exact takes the limit on an element, and   *)
(* on an account that no more than all the money can ever arrive there,    *)
(* which is why the total is part of the invariant.                        *)
(*                                                                         *)
(* And the fuzz command finds nothing (Fuzz, FindsNothing), under the same *)
(* assumption (AuditInv). What it checks is looked at between calls only,  *)
(* so the invariant says what each of its three checks becomes while a     *)
(* call runs: the one reservation that is open belongs to the request in   *)
(* hand; the float is ahead of the elements by the order in hand; and      *)
(* until value moves, all but that reservation is as it was when the call  *)
(* was drawn.                                                              *)
(***************************************************************************)
EXTENDS Fuzz, PartyProofs

\* What the calls find: elements of this issuer, registered under their own keys, and
\* no order below the last one credited still to be made.
Registered ==
  \A d \in Installed :
    /\ certificate[d] = SignedCertificate(d, d, Limit, IssuerKey)
    /\ d \in DOMAIN devices
    /\ devices[d] \in [account : DOMAIN accounts, public_key : {d},
                       last_defunding_counter : 0 .. counter[d]]

\* A reservation that the request in hand will be credited against.
Holds(reqs, request) ==
  request.nonce \in DOMAIN reqs /\ reqs[request.nonce] = request.amount_cents

\* What the call in progress knows of its parties.
InHand ==
  /\ call.at \in {"fund", "defund"} => call.wallet \in Installed /\ call.amount \in U64
  /\ call.at = "pay" => call.payer \in Installed /\ call.payee \in Installed /\ call.amount \in U64
  /\ call.at = "fund_issuer" =>
       /\ call.wallet \in Installed
       /\ call.request.device = call.wallet /\ Holds(pending_funding[call.wallet], call.request)
  /\ call.at = "fund_apply" =>
       call.wallet \in Installed /\ ApplyVerdict(call.wallet, call.funding) = "Ok"
  /\ call.at = "defund_issuer" =>
       /\ call.order.device \in Installed /\ DefundVerdict(call.order) = "Ok"
       /\ call.order.counter \in Nat /\ call.order.counter <= counter[call.order.device]
  /\ call.at = "pay_payer" =>
       /\ call.payer \in Installed /\ call.payee \in Installed
       /\ call.request.payee = certificate[call.payee] /\ call.request.amount_cents \in U64
       /\ Holds(incoming[call.payee], call.request)
  /\ call.at = "pay_payee" =>
       call.payee \in Installed /\ ReceiveVerdict(call.payee, call.transfer) = "Ok"

\* No call is made before the world is there.
WorldFirst == call # Idle => WorldBuilt

CallInv == WalletInv /\ Registered /\ InHand /\ WorldFirst

-----------------------------------------------------------------------------

\* What the steps below need of an installed element.
LEMMA OfDevice ==
  ASSUME CallInv, NEW d \in Installed
  PROVE  /\ d \in Devices /\ counter[d] \in Nat /\ rng[d] \in Nat
         /\ certificate[d] = SignedCertificate(d, d, Limit, IssuerKey)
         /\ certificate[d].device = d /\ KeyOf(d) = d /\ IssuerOf(d) = IssuerKey
         /\ HoldingLimit(d) = Limit
         /\ CertificateVerifies(certificate[d], IssuerKey)
         /\ balance_cents \in [Devices -> U64] /\ counter \in [Devices -> 0 .. MaxDebits]
         /\ incoming = [e \in Devices |-> incoming[e]]
         /\ pending_funding = [e \in Devices |-> pending_funding[e]]
<1>1. WalletTypeOK /\ Registered
  BY DEF CallInv, WalletInv
<1>2. d \in Devices /\ counter[d] \in Nat /\ rng[d] \in Nat
  BY <1>1, BoundsAssumption DEF WalletTypeOK, Installed
<1>3. certificate[d] = SignedCertificate(d, d, Limit, IssuerKey)
  BY <1>1 DEF Registered
<1>4. /\ certificate[d].device = d /\ KeyOf(d) = d /\ IssuerOf(d) = IssuerKey
      /\ CertificateVerifies(certificate[d], IssuerKey)
  BY <1>3 DEF SignedCertificate, KeyOf, IssuerOf, CertificateVerifies, Verifies, Sign,
              CertificateDigest
<1>5. SignedCertificate(d, d, Limit, IssuerKey).holding_limit_cents = Limit
  BY DEF SignedCertificate
<1> QED BY <1>1, <1>2, <1>3, <1>4, <1>5 DEF WalletTypeOK, HoldingLimit

\* Nothing of the register changes under the elements' steps, but for the counters,
\* which grow.
LEMMA RegisteredKept ==
  ASSUME CallInv, UNCHANGED <<certificate, devices>>, DOMAIN accounts' = DOMAIN accounts,
         \A d \in Installed : counter'[d] \in Nat /\ counter[d] <= counter'[d]
  PROVE  Registered'
<1>1. \A d \in Installed : counter[d] \in Nat
  BY OfDevice
<1> QED BY <1>1 DEF CallInv, Registered, Installed

\* A step of a call leaves every element where it is installed.
LEMMA CallKept ==
  ASSUME CallInv, call.at # "idle", UNCHANGED certificate, WalletInv', Registered', InHand'
  PROVE  CallInv'
<1>1. WorldBuilt
  BY DEF CallInv, WorldFirst, Idle
<1> QED BY <1>1 DEF CallInv, WorldFirst, WorldBuilt, Installed

\* A call that has returned has nothing in hand.
LEMMA ReturnKept ==
  ASSUME CallInv, call.at # "idle", UNCHANGED certificate, WalletInv', Registered',
         NEW result, Return(result)
  PROVE  CallInv'
<1>1. InHand'
  BY DEF Return, InHand
<1> QED BY <1>1, CallKept

-----------------------------------------------------------------------------
(* fund *)

LEMMA FundRequestKept ==
  ASSUME CallInv, FundRequest
  PROVE  CallInv'
<1> DEFINE d == call.wallet
           a == call.amount
           r == FundingRequestOf(d, a)
<1>1. call.at = "fund" /\ d \in Installed /\ a \in U64 /\ UNCHANGED issuerVars
  BY DEF FundRequest, CallInv, InHand
<1>2. CASE RequestFunding(d, a) /\ call' = [at |-> "fund_issuer", wallet |-> d, request |-> r]
  <2>1. WalletInv'
    BY <1>1, <1>2, RequestFundingKept DEF CallInv
  <2>2. UNCHANGED <<certificate, counter>>
        /\ pending_funding' = [pending_funding EXCEPT ![d] = Insert(@, NextNonce(d), a)]
    BY <1>2 DEF RequestFunding
  <2>3. Registered'
    BY <1>1, <2>2, OfDevice, RegisteredKept DEF issuerVars
  <2>4. pending_funding'[d] = Insert(pending_funding[d], NextNonce(d), a)
    BY <1>1, <2>2, OfDevice
  <2>5. r.nonce = NextNonce(d) /\ r.amount_cents = a /\ r.device = d
    BY <1>1, OfDevice DEF FundingRequestOf, SignedFundingRequest
  <2>6. Holds(pending_funding'[d], r)
    BY <2>4, <2>5 DEF Holds, Insert
  <2> HIDE DEF r
  <2>7. InHand'
    BY <1>1, <1>2, <2>2, <2>5, <2>6 DEF InHand, Installed
  <2> QED BY <1>1, <2>1, <2>2, <2>3, <2>7, CallKept
<1>3. CASE UNCHANGED walletVars /\ Return(ReserveVerdict(d, a))
  BY <1>1, <1>3, WalletStutterKept, RegisteredKept, OfDevice, ReturnKept
     DEF walletVars, issuerVars, CallInv
<1> QED BY <1>2, <1>3 DEF FundRequest

LEMMA FundGrantedKept ==
  ASSUME CallInv, FundGranted
  PROVE  CallInv'
<1> DEFINE d == call.wallet
           r == call.request
           f == FundingOf(r)
<1>1. /\ call.at = "fund_issuer" /\ d \in Installed /\ UNCHANGED walletVars
      /\ r.device = d /\ Holds(pending_funding[d], r)
      /\ call' = [at |-> "fund_apply", wallet |-> d, funding |-> f]
  BY DEF FundGranted, CallInv, InHand
<1>2. UNCHANGED <<certificate, devices>> /\ DOMAIN accounts' = DOMAIN accounts
  BY <1>1 DEF FundGranted, IssuerFund, walletVars
<1>3. WalletInv'
  BY <1>1, WalletStutterKept DEF CallInv
<1>4. Registered'
  BY <1>1, <1>2, OfDevice, RegisteredKept DEF walletVars
<1>5. ApplyVerdict(d, f) = "Ok"
  <2>1. d \in Devices /\ certificate[d].device = d /\ IssuerOf(d) = IssuerKey
    BY <1>1, OfDevice
  <2>2. r.nonce \notin credited[d]
    BY <1>1, <2>1 DEF CallInv, WalletInv, NonceUsedOnce, Holds
  <2>3. /\ f.device = d /\ f.nonce = r.nonce /\ f.amount_cents = r.amount_cents
        /\ Verifies(IssuerKey, FundingDigest(f), f.signature)
    BY <1>1 DEF FundingOf, SignedFunding, Verifies, Sign, FundingDigest
  <2> HIDE DEF f
  <2> QED BY <1>1, <2>1, <2>2, <2>3 DEF ApplyVerdict, Holds
<1> HIDE DEF f
<1>6. InHand'
  BY <1>1, <1>5 DEF InHand, walletVars, Installed, ApplyVerdict, IssuerOf
<1> QED BY <1>1, <1>2, <1>3, <1>4, <1>6, CallKept

LEMMA FundRefusedKept ==
  ASSUME CallInv, FundRefused
  PROVE  CallInv'
<1>1. call.at = "fund_issuer" /\ call.wallet \in Installed /\ UNCHANGED issuerVars
  BY DEF FundRefused, CallInv, InHand
<1>2. CancelFunding(call.wallet, call.request.nonce) /\ Return(FundVerdict(call.request))
  BY DEF FundRefused
<1>3. WalletInv' /\ UNCHANGED <<certificate, counter>>
  BY <1>1, <1>2, CancelFundingKept DEF CallInv, CancelFunding
<1> QED BY <1>1, <1>2, <1>3, OfDevice, RegisteredKept, ReturnKept DEF issuerVars

LEMMA FundApplyKept ==
  ASSUME CallInv, FundApply
  PROVE  CallInv' /\ call'.result = "Ok"
<1>1. /\ call.at = "fund_apply" /\ call.wallet \in Installed /\ UNCHANGED issuerVars
      /\ ApplyFunding(call.wallet, call.funding) /\ Return("Ok")
  BY DEF FundApply, CallInv, InHand
<1>2. WalletInv' /\ UNCHANGED <<certificate, counter>>
  BY <1>1, ApplyFundingKept DEF CallInv, ApplyFunding
<1>3. CallInv'
  BY <1>1, <1>2, OfDevice, RegisteredKept, ReturnKept DEF issuerVars
<1> QED BY <1>1, <1>3 DEF Return

-----------------------------------------------------------------------------
(* defund *)

LEMMA DefundOrderKept ==
  ASSUME CallInv, DefundOrder
  PROVE  CallInv'
<1> DEFINE d == call.wallet
           a == call.amount
           o == DefundingOf(d, a)
<1>1. call.at = "defund" /\ d \in Installed /\ a \in U64 /\ UNCHANGED issuerVars
  BY DEF DefundOrder, CallInv, InHand
<1>2. CASE Defund(d, a) /\ call' = [at |-> "defund_issuer", order |-> o]
  <2>1. WalletInv' /\ UNCHANGED certificate
    BY <1>1, <1>2, DebitActionKept DEF CallInv, Defund
  <2>2. /\ d \in Devices /\ counter[d] \in Nat /\ certificate[d].device = d /\ KeyOf(d) = d
        /\ counter \in [Devices -> 0 .. MaxDebits]
    BY <1>1, OfDevice
  <2>3. counter' = [counter EXCEPT ![d] = counter[d] + 1]
    BY <1>2 DEF Defund, Debit, NextCounter
  <2>4. \A e \in Installed : counter[e] \in Nat /\ e \in Devices
    BY OfDevice
  <2>5. \A e \in Installed : counter'[e] \in Nat /\ counter[e] <= counter'[e]
    BY <2>2, <2>3, <2>4
  <2>6. Registered'
    BY <1>1, <2>1, <2>5, RegisteredKept DEF issuerVars
  <2>7. /\ o.device = d /\ o.counter = counter[d] + 1
        /\ Verifies(d, DefundingDigest(o), o.signature)
    BY <2>2 DEF DefundingOf, SignedDefunding, NextCounter, Verifies, Sign, DefundingDigest
  <2> HIDE DEF o
  <2>8. DefundVerdict(o) = "Ok"
    <3>1. /\ d \in DOMAIN devices /\ devices[d].public_key = d
          /\ devices[d].account \in DOMAIN accounts
          /\ devices[d].last_defunding_counter \in 0 .. counter[d]
      BY <1>1 DEF CallInv, Registered
    <3>2. ~(o.counter <= devices[d].last_defunding_counter)
      BY <2>2, <2>7, <3>1
    <3> QED BY <2>7, <3>1, <3>2 DEF DefundVerdict
  <2>9. o.counter \in Nat /\ o.counter <= counter'[d]
    BY <2>2, <2>3, <2>7
  <2>10. InHand'
    BY <1>1, <1>2, <2>1, <2>7, <2>8, <2>9 DEF InHand, issuerVars, Installed, DefundVerdict
  <2> QED BY <1>1, <2>1, <2>6, <2>10, CallKept
<1>3. CASE UNCHANGED walletVars /\ Return(DebitVerdict(d, a))
  BY <1>1, <1>3, WalletStutterKept, RegisteredKept, OfDevice, ReturnKept
     DEF walletVars, issuerVars, CallInv
<1> QED BY <1>2, <1>3 DEF DefundOrder

LEMMA DefundCreditKept ==
  ASSUME CallInv, DefundCredit
  PROVE  CallInv' /\ call'.result = "Ok"
<1> DEFINE o == call.order
           d == o.device
<1>1. /\ call.at = "defund_issuer" /\ d \in Installed /\ UNCHANGED walletVars
      /\ o.counter \in Nat /\ o.counter <= counter[d]
      /\ IssuerDefund(o) /\ Return("Ok")
  BY DEF DefundCredit, CallInv, InHand
<1>2. WalletInv'
  BY <1>1, WalletStutterKept DEF CallInv
<1>3. /\ devices' = [devices EXCEPT ![d].last_defunding_counter = o.counter]
      /\ DOMAIN accounts' = DOMAIN accounts
  BY <1>1 DEF IssuerDefund
<1>4. Registered'
  <2>1. /\ Registered /\ UNCHANGED <<certificate, counter>>
        /\ \A e \in Installed : counter[e] \in Nat
    BY <1>1, OfDevice DEF CallInv, walletVars
  <2>2. devices'[d] \in [account : DOMAIN accounts, public_key : {d},
                         last_defunding_counter : 0 .. counter[d]]
    BY <1>1, <1>3, <2>1 DEF Registered
  <2>3. \A e \in Installed \ {d} : devices'[e] = devices[e]
    BY <1>3, <2>1 DEF Registered
  <2> QED BY <1>1, <1>3, <2>1, <2>2, <2>3 DEF Registered, Installed
<1>5. CallInv'
  BY <1>1, <1>2, <1>4, ReturnKept DEF walletVars
<1> QED BY <1>1, <1>5 DEF Return

-----------------------------------------------------------------------------
(* pay *)

LEMMA PayRequestKept ==
  ASSUME CallInv, PayRequest
  PROVE  CallInv'
<1> DEFINE d == call.payee
           a == call.amount
           r == PaymentRequestOf(d, a)
<1>1. /\ call.at = "pay" /\ call.payer \in Installed /\ d \in Installed /\ a \in U64
      /\ UNCHANGED issuerVars
  BY DEF PayRequest, CallInv, InHand
<1>2. CASE RequestPayment(d, a) /\ call' = [at |-> "pay_payer", payer |-> call.payer,
                                            payee |-> d, request |-> r]
  <2>1. WalletInv'
    BY <1>1, <1>2, RequestPaymentKept DEF CallInv
  <2>2. UNCHANGED <<certificate, counter>>
        /\ incoming' = [incoming EXCEPT ![d] = Insert(@, NextNonce(d), a)]
    BY <1>2 DEF RequestPayment
  <2>3. Registered'
    BY <1>1, <2>2, OfDevice, RegisteredKept DEF issuerVars
  <2>4. incoming'[d] = Insert(incoming[d], NextNonce(d), a)
    BY <1>1, <2>2, OfDevice
  <2>5. r.nonce = NextNonce(d) /\ r.amount_cents = a /\ r.payee = certificate[d]
    BY DEF PaymentRequestOf
  <2>6. Holds(incoming'[d], r)
    BY <2>4, <2>5 DEF Holds, Insert
  <2> HIDE DEF r
  <2>7. InHand'
    BY <1>1, <1>2, <2>2, <2>5, <2>6 DEF InHand, Installed
  <2> QED BY <1>1, <2>1, <2>2, <2>3, <2>7, CallKept
<1>3. CASE UNCHANGED walletVars /\ Return(ReserveVerdict(d, a))
  BY <1>1, <1>3, WalletStutterKept, RegisteredKept, OfDevice, ReturnKept
     DEF walletVars, issuerVars, CallInv
<1> QED BY <1>2, <1>3 DEF PayRequest

LEMMA PayPaidKept ==
  ASSUME CallInv, PayPaid
  PROVE  CallInv'
<1> DEFINE payer == call.payer
           payee == call.payee
           r == call.request
           t == TransferOf(payer, r)
<1>1. /\ call.at = "pay_payer" /\ payer \in Installed /\ payee \in Installed
      /\ r.payee = certificate[payee] /\ r.amount_cents \in U64
      /\ Holds(incoming[payee], r)
      /\ UNCHANGED issuerVars /\ Pay(payer, r)
      /\ call' = [at |-> "pay_payee", payee |-> payee, transfer |-> t]
  BY DEF PayPaid, CallInv, InHand
<1>2. /\ UNCHANGED <<certificate, incoming, credited>>
      /\ counter' = [counter EXCEPT ![payer] = counter[payer] + 1]
  BY <1>1 DEF Pay, Debit, NextCounter
<1>3. WalletInv'
  BY <1>1, DebitActionKept DEF CallInv, Pay
<1>4. \A e \in Installed : counter[e] \in Nat /\ e \in Devices
  BY OfDevice
<1>5. \A e \in Installed : counter'[e] \in Nat /\ counter[e] <= counter'[e]
  <2>1. counter \in [Devices -> 0 .. MaxDebits]
    BY <1>1, OfDevice
  <2> QED BY <1>1, <1>2, <1>4, <2>1
<1>6. Registered'
  BY <1>1, <1>2, <1>5, RegisteredKept DEF issuerVars
<1>7. ReceiveVerdict(payee, t) = "Ok"
  <2>1. payee \in Devices /\ certificate[payee].device = payee /\ IssuerOf(payee) = IssuerKey
    BY <1>1, OfDevice
  <2>2. CertificateVerifies(certificate[payer], IssuerKey)
    BY <1>1, OfDevice
  <2>3. r.nonce \notin credited[payee]
    BY <1>1, <2>1 DEF CallInv, WalletInv, NonceUsedOnce, Holds
  <2>4. /\ t.payee = payee /\ t.payer = certificate[payer]
        /\ t.nonce = r.nonce /\ t.amount_cents = r.amount_cents
        /\ Verifies(t.payer.public_key, TransferDigest(t), t.signature)
    BY <1>1, <2>1 DEF TransferOf, SignedTransfer, Verifies, Sign, TransferDigest
  <2> HIDE DEF t
  <2> QED BY <1>1, <2>1, <2>2, <2>3, <2>4 DEF ReceiveVerdict, Holds
<1> HIDE DEF t
<1>8. InHand'
  BY <1>1, <1>2, <1>7 DEF InHand, Installed, ReceiveVerdict, IssuerOf
<1> QED BY <1>1, <1>2, <1>3, <1>6, <1>8, CallKept

LEMMA PayRefusedKept ==
  ASSUME CallInv, PayRefused
  PROVE  CallInv'
<1>1. call.at = "pay_payer" /\ call.payee \in Installed /\ UNCHANGED issuerVars
  BY DEF PayRefused, CallInv, InHand
<1>2. CancelRequest(call.payee, call.request.nonce) /\ Return(PayVerdict(call.payer, call.request))
  BY DEF PayRefused
<1>3. WalletInv' /\ UNCHANGED <<certificate, counter>>
  BY <1>1, <1>2, CancelRequestKept DEF CallInv, CancelRequest
<1> QED BY <1>1, <1>2, <1>3, OfDevice, RegisteredKept, ReturnKept DEF issuerVars

LEMMA PayReceiveKept ==
  ASSUME CallInv, PayReceive
  PROVE  CallInv' /\ call'.result = "Ok"
<1>1. /\ call.at = "pay_payee" /\ call.payee \in Installed /\ UNCHANGED issuerVars
      /\ Receive(call.payee, call.transfer) /\ Return("Ok")
  BY DEF PayReceive, CallInv, InHand
<1>2. WalletInv' /\ UNCHANGED <<certificate, counter>>
  BY <1>1, ReceiveKept DEF CallInv, Receive
<1>3. CallInv'
  BY <1>1, <1>2, OfDevice, RegisteredKept, ReturnKept DEF issuerVars
<1> QED BY <1>1, <1>3 DEF Return

-----------------------------------------------------------------------------
(* The program around the calls. *)

LEMMA FuzzInitOK == Init => CallInv
<1> SUFFICES ASSUME Init PROVE CallInv
  OBVIOUS
<1>1. WalletInv /\ Installed = {} /\ call = Idle
  BY WalletInitOK DEF Init, WalletInit, Installed, NoEntries
<1> QED BY <1>1 DEF CallInv, Registered, InHand, WorldFirst, Idle

\* Accounts are opened before anything is called.
LEMMA OpenNextKept ==
  ASSUME CallInv, OpenNext
  PROVE  CallInv'
<1>1. PICK account : OpenAccount(account, Opening)
  BY DEF OpenNext
<1>2. ~WorldBuilt /\ call = Idle /\ call' = Idle /\ UNCHANGED walletVars
  BY DEF OpenNext, CallInv, WorldFirst
<1>3. WalletInv'
  BY <1>2, WalletStutterKept DEF CallInv
<1>4. DOMAIN accounts \subseteq DOMAIN accounts' /\ UNCHANGED devices
  BY <1>1 DEF OpenAccount, Insert
<1>5. Registered'
  BY <1>2, <1>4 DEF CallInv, Registered, walletVars, Installed
<1> QED BY <1>2, <1>3, <1>5 DEF CallInv, InHand, WorldFirst, Idle

\* Elements are enrolled before anything is called.
LEMMA EnrolNextKept ==
  ASSUME CallInv, EnrolNext
  PROVE  CallInv'
<1>1. PICK d \in Devices, account \in Deviceless : Enrol(d, account, Limit)
  BY DEF EnrolNext
<1> DEFINE c == SignedCertificate(d, d, Limit, IssuerKey)
<1>2. CertifyDevice(d, account, d) /\ Install(c, d, IssuerKey) /\ UNCHANGED call
  BY <1>1 DEF Enrol
<1>3. c.device = d /\ c.holding_limit_cents = Limit /\ Limit \in U64
  BY FuzzAssumption DEF SignedCertificate
<1>4. WalletInv'
  BY <1>2, <1>3, InstallKept DEF CallInv
<1> HIDE DEF c
<1>5. /\ d \notin Installed /\ certificate' = Insert(certificate, d, c)
      /\ counter' = [counter EXCEPT ![d] = 0]
      /\ d \notin DOMAIN devices /\ account \in DOMAIN accounts /\ UNCHANGED accounts
      /\ devices' = Insert(devices, d, [account |-> account, public_key |-> d,
                                        last_defunding_counter |-> 0])
  BY <1>2, <1>3 DEF Install, CertifyDevice, CertifyVerdict
<1>6. call = Idle /\ call' = Idle
  BY <1>2, <1>5 DEF CallInv, WorldFirst, WorldBuilt
<1>7. (Installed)' = Installed \cup {d}
  BY <1>5 DEF Installed, Insert
<1>8. Registered'
  <2>1. counter \in [Devices -> 0 .. MaxDebits]
    BY DEF CallInv, WalletInv, WalletTypeOK
  <2>2. /\ certificate'[d] = c /\ d \in DOMAIN devices' /\ counter'[d] = 0
        /\ devices'[d] = [account |-> account, public_key |-> d, last_defunding_counter |-> 0]
    BY <1>5, <2>1 DEF Insert
  <2>3. ASSUME NEW e \in Installed
        PROVE  /\ certificate'[e] = certificate[e] /\ counter'[e] = counter[e]
               /\ e \in DOMAIN devices' /\ devices'[e] = devices[e]
    <3>1. e # d /\ e \in Devices /\ e \in DOMAIN devices
      BY <1>5, OfDevice DEF CallInv, Registered
    <3> QED BY <1>5, <2>1, <3>1 DEF Insert, Installed
  <2> QED BY <1>5, <1>7, <2>2, <2>3 DEF CallInv, Registered, c
<1> QED BY <1>4, <1>6, <1>8 DEF CallInv, InHand, WorldFirst, Idle

\* A call is drawn between elements that are there.
LEMMA DrawKept ==
  ASSUME CallInv, Draw
  PROVE  CallInv'
<1>1. PICK a \in Devices, amount \in 1 .. Limit \div 2 :
         \/ call' = [at |-> "fund", wallet |-> a, amount |-> amount]
         \/ call' = [at |-> "defund", wallet |-> a, amount |-> amount]
         \/ \E b \in Devices \ {a} :
              call' = [at |-> "pay", payer |-> a, payee |-> b, amount |-> amount]
  BY DEF Draw
<1>2. WorldBuilt /\ Installed = Devices /\ UNCHANGED <<walletVars, issuerVars>>
  BY DEF Draw, WorldBuilt
<1>3. amount \in U64
  BY FuzzAssumption, U64Facts DEF U64
<1>4. WalletInv' /\ Registered'
  BY <1>2, WalletStutterKept DEF CallInv, Registered, walletVars, issuerVars, Installed
<1>5. (Installed)' = Devices
  BY <1>2 DEF walletVars, Installed
<1>6. InHand'
  BY <1>1, <1>3, <1>5 DEF InHand
<1> QED BY <1>4, <1>5, <1>6 DEF CallInv, WorldFirst, WorldBuilt

\* Taking note of a result leaves everything as it is.
LEMMA CheckKept ==
  ASSUME CallInv, Check
  PROVE  CallInv'
<1>1. /\ call.at = "returned" /\ UNCHANGED <<walletVars, issuerVars>>
      /\ call' = Idle \/ call' = call
  BY DEF Check
<1>2. WalletInv' /\ Registered'
  BY <1>1, WalletStutterKept DEF CallInv, Registered, walletVars, issuerVars, Installed
<1>3. InHand' /\ WorldFirst'
  BY <1>1 DEF CallInv, InHand, WorldFirst, WorldBuilt, Idle, walletVars, Installed
<1> QED BY <1>2, <1>3 DEF CallInv

\* A step that changes neither the parties nor the call keeps the invariant.
LEMMA FuzzStutterKept ==
  ASSUME CallInv, UNCHANGED callVars
  PROVE  CallInv'
<1>1. UNCHANGED <<walletVars, issuerVars, call>>
  BY DEF callVars
<1>2. WalletInv' /\ Registered'
  BY <1>1, WalletStutterKept DEF CallInv, Registered, walletVars, issuerVars, Installed
<1>3. InHand' /\ WorldFirst'
  BY <1>1 DEF CallInv, InHand, WorldFirst, WorldBuilt, walletVars, issuerVars, Installed,
              ApplyVerdict, ReceiveVerdict, DefundVerdict, IssuerOf
<1> QED BY <1>2, <1>3 DEF CallInv

-----------------------------------------------------------------------------

\* Every step keeps the invariant, and none gets another answer than "Ok" once value
\* has moved.
LEMMA FuzzStepKept ==
  ASSUME CallInv, [Next]_fuzzVars
  PROVE  /\ CallInv'
         /\ call.at \in {"fund_apply", "defund_issuer", "pay_payee"} /\ call' # call
              => call'.result = "Ok"
<1>1. CASE FundRequest
  BY <1>1, FundRequestKept DEF FundRequest
<1>2. CASE FundGranted
  BY <1>2, FundGrantedKept DEF FundGranted
<1>3. CASE FundRefused
  BY <1>3, FundRefusedKept DEF FundRefused
<1>4. CASE FundApply
  BY <1>4, FundApplyKept
<1>5. CASE DefundOrder
  BY <1>5, DefundOrderKept DEF DefundOrder
<1>6. CASE DefundCredit
  BY <1>6, DefundCreditKept
<1>7. CASE PayRequest
  BY <1>7, PayRequestKept DEF PayRequest
<1>8. CASE PayPaid
  BY <1>8, PayPaidKept DEF PayPaid
<1>9. CASE PayRefused
  BY <1>9, PayRefusedKept DEF PayRefused
<1>10. CASE PayReceive
  BY <1>10, PayReceiveKept
<1>11. CASE OpenNext
  BY <1>11, OpenNextKept DEF OpenNext
<1>12. CASE EnrolNext
  BY <1>12, EnrolNextKept DEF EnrolNext, Enrol
<1>13. CASE Draw
  BY <1>13, DrawKept DEF Draw, Idle
<1>14. CASE Check
  BY <1>14, CheckKept DEF Check
<1>15. CASE Pass \/ UNCHANGED fuzzVars
  BY <1>15, FuzzStutterKept DEF Pass, fuzzVars, callVars
<1> QED
  BY <1>1, <1>2, <1>3, <1>4, <1>5, <1>6, <1>7, <1>8, <1>9, <1>10, <1>11, <1>12, <1>13,
     <1>14, <1>15 DEF Next, Run, CallStep

\* For any number of devices, calls and amounts, no library call fails after value has
\* moved: what is debited on one side is credited on the other before the call returns
\* (lib.rs, fund, defund and pay).
THEOREM CreditsFollowDebits == Spec => NoRefusalAfterDebit
<1>1. Init => CallInv
  BY FuzzInitOK
<1>2. CallInv /\ [Next]_fuzzVars => CallInv'
  BY FuzzStepKept
<1>3. CallInv /\ [Next]_fuzzVars
        => [call.at \in {"fund_apply", "defund_issuer", "pay_payee"} => call'.result = "Ok"]_call
  BY FuzzStepKept
<1> QED BY <1>1, <1>2, <1>3, PTL DEF Spec, NoRefusalAfterDebit

-----------------------------------------------------------------------------
(* The ledger. *)

\* Every element has an account of its own; one that has none yet was just opened.
Owned ==
  /\ DOMAIN devices = Installed
  /\ \A d, e \in Installed : devices[d].account = devices[e].account => d = e
  /\ accounts = [account \in DOMAIN accounts |-> accounts[account]]
  /\ \A account \in DOMAIN accounts : accounts[account] \in Nat
  /\ \A account \in Deviceless : accounts[account] = Opening

\* Nobody cracks an element, and none holds anything before it is there.
Intact ==
  /\ \A d \in Devices : state[d] = "Sealed"
  /\ \A d \in Devices \ Installed : balance_cents[d] = 0

\* What is in transit.
AmountInHand ==
  /\ call.at = "fund_apply" => call.funding.amount_cents \in Nat
  /\ call.at = "defund_issuer" => call.order.amount_cents \in Nat
  /\ call.at = "pay_payee" => call.transfer.amount_cents \in Nat

\* The ledger's total does not move.
Total ==
  /\ IsPurse(Online) /\ IsPurse(Offline)
  /\ SumFunction(Online) + SumFunction(Offline) = Money

LedgerInv == CallInv /\ Owned /\ Intact /\ AmountInHand /\ Total

InTransitAt == {"fund_apply", "defund_issuer", "pay_payee"}

-----------------------------------------------------------------------------

\* Equal amounts add up to their product.
LEMMA SumOfEqual ==
  ASSUME NEW S, IsFiniteSet(S), NEW c \in Nat
  PROVE  IsPurse([x \in S |-> c]) /\ SumFunction([x \in S |-> c]) = c * Cardinality(S)
<1> DEFINE f == [x \in S |-> c]
<1>1. IsPurse(f)
  BY DEF IsPurse
<1>2. Cents(f, S) = S \X (1 .. c)
  BY DEF Cents
<1>3. IsFiniteSet(1 .. c) /\ Cardinality(1 .. c) = c
  BY FS_Interval
<1>4. Cardinality(S \X (1 .. c)) = Cardinality(S) * Cardinality(1 .. c)
  BY <1>3, FS_Product
<1>5. SumFunctionOnSet(f, S) = Cardinality(Cents(f, S))
  BY SumIsCents
<1>6. Cardinality(S) \in Nat
  BY FS_CardinalityType
<1>7. \A k \in Nat : k * c = c * k
  OBVIOUS
<1> HIDE DEF f
<1>8. SumFunctionOnSet(f, S) = c * Cardinality(S)
  BY <1>2, <1>3, <1>4, <1>5, <1>6, <1>7
<1>9. DOMAIN f = S
  BY DEF f
<1> QED BY <1>1, <1>8, <1>9 DEF SumFunction, f

\* One entry is no more than the total.
LEMMA EntryWithin ==
  ASSUME NEW map, IsPurse(map), NEW key \in DOMAIN map
  PROVE  map[key] \in Nat /\ map[key] <= SumFunction(map)
<1>1. SumFunction(map) = map[key] + SumFunction(Remove(map, key)) /\ IsPurse(Remove(map, key))
  BY PurseRemove
<1>2. SumFunction(Remove(map, key)) \in Nat /\ map[key] \in Nat
  BY <1>1, PurseNat DEF IsPurse
<1> QED BY <1>1, <1>2

\* What moves from one entry to another leaves the total as it was.
LEMMA PurseMove ==
  ASSUME NEW map, IsPurse(map), NEW from \in DOMAIN map, NEW to \in DOMAIN map, from # to,
         NEW amount \in Nat, amount <= map[from]
  PROVE  LET new == [map EXCEPT ![from] = @ - amount, ![to] = @ + amount]
         IN  IsPurse(new) /\ SumFunction(new) = SumFunction(map)
<1> DEFINE mid == [map EXCEPT ![from] = map[from] - amount]
<1>1. map[from] \in Nat /\ map[to] \in Nat /\ map[from] - amount \in Nat /\ map[to] + amount \in Nat
  BY DEF IsPurse
<1>2. IsPurse(mid) /\ SumFunction(mid) = SumFunction(map) - map[from] + (map[from] - amount)
  BY <1>1, PurseUpdate
<1>3. to \in DOMAIN mid /\ mid[to] = map[to]
  OBVIOUS
<1>4. [map EXCEPT ![from] = @ - amount, ![to] = @ + amount] = [mid EXCEPT ![to] = map[to] + amount]
  BY <1>3
<1> HIDE DEF mid
<1>5. /\ IsPurse([mid EXCEPT ![to] = map[to] + amount])
      /\ SumFunction([mid EXCEPT ![to] = map[to] + amount])
           = SumFunction(mid) - mid[to] + (map[to] + amount)
  BY <1>1, <1>2, <1>3, PurseUpdate
<1>6. SumFunction(map) \in Nat /\ SumFunction(mid) \in Nat
  BY <1>2, PurseNat
<1> QED BY <1>1, <1>2, <1>3, <1>4, <1>5, <1>6

-----------------------------------------------------------------------------
(* The ledger itself. *)

\* Every move of the ledger keeps its total.
LEMMA LedgerKeepsTotal ==
  ASSUME Total, Online = [d \in Devices |-> Online[d]], Offline = [d \in Devices |-> Offline[d]],
         Cash!Next
  PROVE  Total'
<1>1. /\ DOMAIN Online = Devices /\ DOMAIN Offline = Devices
      /\ SumFunction(Online) \in Nat /\ SumFunction(Offline) \in Nat
      /\ \A d \in Devices : Online[d] \in Nat /\ Offline[d] \in Nat
  BY PurseNat DEF Total, IsPurse
<1>2. Money' = Money
  BY DEF Money, Opening
<1>3. PICK h \in Devices, amount \in 1 .. Limit :
        \/ Cash!Fund(h, amount)
        \/ Cash!Defund(h, amount)
        \/ \E g \in Devices : Cash!Pay(h, g, amount)
  BY DEF Cash!Next
<1>4. amount \in Nat
  BY <1>3
<1>5. CASE Cash!Fund(h, amount)
  <2>1. /\ Online' = [Online EXCEPT ![h] = Online[h] - amount] /\ Online[h] - amount \in Nat
        /\ Offline' = [Offline EXCEPT ![h] = Offline[h] + amount] /\ Offline[h] + amount \in Nat
    BY <1>1, <1>4, <1>5 DEF Cash!Fund
  <2>2. /\ IsPurse(Online') /\ SumFunction(Online') = SumFunction(Online) - Online[h] + (Online[h] - amount)
    BY <1>1, <2>1, PurseUpdate DEF Total
  <2>3. /\ IsPurse(Offline') /\ SumFunction(Offline') = SumFunction(Offline) - Offline[h] + (Offline[h] + amount)
    BY <1>1, <2>1, PurseUpdate DEF Total
  <2>4. SumFunction(Online') + SumFunction(Offline') = SumFunction(Online) + SumFunction(Offline)
    BY <1>1, <1>4, <2>2, <2>3
  <2> QED BY <1>2, <2>2, <2>3, <2>4 DEF Total
<1>6. CASE Cash!Defund(h, amount)
  <2>1. /\ Online' = [Online EXCEPT ![h] = Online[h] + amount] /\ Online[h] + amount \in Nat
        /\ Offline' = [Offline EXCEPT ![h] = Offline[h] - amount] /\ Offline[h] - amount \in Nat
    BY <1>1, <1>4, <1>6 DEF Cash!Defund
  <2>2. /\ IsPurse(Online') /\ SumFunction(Online') = SumFunction(Online) - Online[h] + (Online[h] + amount)
    BY <1>1, <2>1, PurseUpdate DEF Total
  <2>3. /\ IsPurse(Offline') /\ SumFunction(Offline') = SumFunction(Offline) - Offline[h] + (Offline[h] - amount)
    BY <1>1, <2>1, PurseUpdate DEF Total
  <2>4. SumFunction(Online') + SumFunction(Offline') = SumFunction(Online) + SumFunction(Offline)
    BY <1>1, <1>4, <2>2, <2>3
  <2> QED BY <1>2, <2>2, <2>3, <2>4 DEF Total
<1>7. CASE \E g \in Devices : Cash!Pay(h, g, amount)
  <2>1. PICK g \in Devices : Cash!Pay(h, g, amount)
    BY <1>7
  <2>2. /\ h # g /\ amount <= Offline[h] /\ Online' = Online
        /\ Offline' = [Offline EXCEPT ![h] = @ - amount, ![g] = @ + amount]
    BY <2>1 DEF Cash!Pay
  <2>3. IsPurse(Offline') /\ SumFunction(Offline') = SumFunction(Offline)
    BY <1>1, <1>4, <2>2, PurseMove DEF Total
  <2> QED BY <1>2, <2>2, <2>3 DEF Total
<1> QED BY <1>3, <1>5, <1>6, <1>7

-----------------------------------------------------------------------------
(* The ledger as the calls see it. *)

\* What every step below needs.
LEMMA LedgerFacts ==
  ASSUME LedgerInv
  PROVE  /\ DOMAIN Online = Devices /\ DOMAIN Offline = Devices
         /\ balance_cents \in [Devices -> U64]
         /\ \A d \in Devices : balance_cents[d] \in Nat
         /\ call.at # "idle" => Installed = Devices
         /\ \A d \in Installed : /\ d \in Devices /\ d \in DOMAIN devices
                                 /\ devices[d].account \in DOMAIN accounts
                                 /\ accounts[devices[d].account] \in Nat
         /\ call.at \notin InTransitAt =>
              /\ \A d \in Devices : Offline[d] = balance_cents[d]
              /\ \A d \in Installed : Online[d] = accounts[devices[d].account]
<1>1. balance_cents \in [Devices -> U64] /\ Installed \subseteq Devices
  BY DEF LedgerInv, CallInv, WalletInv, WalletTypeOK, Installed
<1>2. \A d \in Devices : balance_cents[d] \in Nat
  BY <1>1, U64Facts
<1>3. call.at # "idle" => Installed = Devices
  BY DEF LedgerInv, CallInv, WorldFirst, WorldBuilt, Idle
<1>4. \A d \in Installed : /\ d \in Devices /\ d \in DOMAIN devices
                           /\ devices[d].account \in DOMAIN accounts
                           /\ accounts[devices[d].account] \in Nat
  BY <1>1 DEF LedgerInv, CallInv, Registered, Owned
<1>5. ASSUME call.at \notin InTransitAt
      PROVE  \A d \in Devices : ToElement(d) = 0 /\ ToAccount(d) = 0
  BY <1>5 DEF ToElement, ToAccount, InTransitAt
<1> QED BY <1>1, <1>2, <1>3, <1>4, <1>5 DEF Online, Offline

\* Nothing is in transit before the step or after it, and no balance changes: nothing
\* happened to the ledger.
LEMMA NothingMoves ==
  ASSUME LedgerInv, CallInv',
         call.at \notin InTransitAt, call'.at \notin InTransitAt,
         UNCHANGED <<balance_cents, state, certificate, accounts, devices>>
  PROVE  LedgerInv' /\ UNCHANGED <<Online, Offline>>
<1>1. /\ \A d \in Devices : ToElement(d) = 0 /\ ToAccount(d) = 0
      /\ \A d \in Devices : ToElement(d)' = 0 /\ ToAccount(d)' = 0
  BY DEF ToElement, ToAccount, InTransitAt
<1>2. UNCHANGED Installed
  BY DEF Installed
<1>3. UNCHANGED <<Online, Offline>>
  BY <1>1, <1>2 DEF Online, Offline, Opening
<1>4. Owned' /\ Intact'
  BY <1>2 DEF LedgerInv, Owned, Intact, Deviceless, Opening
<1>5. AmountInHand' /\ Total'
  BY <1>3 DEF LedgerInv, AmountInHand, Total, InTransitAt, Money, Opening
<1> QED BY <1>3, <1>4, <1>5 DEF LedgerInv

\* What an element holds and what it has promised are within the limit together.
LEMMA BalanceWithin ==
  ASSUME LedgerInv, NEW d \in Installed
  PROVE  /\ balance_cents[d] \in Nat /\ Limit \in Nat /\ Limit <= MaxU64
         /\ balance_cents[d] <= Limit
         /\ IsPurse(incoming[d]) /\ IsPurse(pending_funding[d])
         /\ balance_cents[d] + SumFunction(incoming[d]) <= Limit
         /\ balance_cents[d] + SumFunction(pending_funding[d]) <= Limit
<1>1. CallInv /\ WalletInv
  BY DEF LedgerInv, CallInv
<1>2. d \in Devices /\ balance_cents[d] \in Nat
  BY LedgerFacts
<1>3. Limit \in Nat /\ Limit <= MaxU64
  BY FuzzAssumption, U64Facts DEF U64
<1>4. HoldingLimit(d) = Limit
  BY <1>1, OfDevice
<1>5. IsOpen(incoming[d]) /\ IsOpen(pending_funding[d])
  BY <1>1, <1>2, InvByElement DEF ElementSound, Sound
<1>6. /\ IsPurse(incoming[d]) /\ SumFunction(incoming[d]) \in Nat
      /\ IsPurse(pending_funding[d]) /\ SumFunction(pending_funding[d]) \in Nat
  BY <1>5, OpenIsPurse
<1>7. balance_cents[d] + SumFunction(incoming[d]) + SumFunction(pending_funding[d]) <= Limit
  BY <1>1, <1>4 DEF WalletInv, WithinHoldingLimit
<1> QED BY <1>2, <1>3, <1>6, <1>7

\* An element has room for a request it holds, within the limit of all of them.
LEMMA RoomHeld ==
  ASSUME LedgerInv, NEW d \in Installed, NEW reqs \in {incoming[d], pending_funding[d]},
         NEW nonce \in DOMAIN reqs
  PROVE  /\ reqs[nonce] \in Nat /\ balance_cents[d] + reqs[nonce] <= Limit
         /\ Wrap(balance_cents[d] + reqs[nonce]) = balance_cents[d] + reqs[nonce]
<1>1. /\ balance_cents[d] \in Nat /\ Limit \in Nat /\ Limit <= MaxU64
      /\ IsPurse(reqs) /\ balance_cents[d] + SumFunction(reqs) <= Limit
  BY BalanceWithin
<1>2. reqs[nonce] \in Nat /\ reqs[nonce] <= SumFunction(reqs) /\ SumFunction(reqs) \in Nat
  BY <1>1, EntryWithin, PurseNat
<1>3. balance_cents[d] + reqs[nonce] <= Limit
  BY <1>1, <1>2
<1> QED BY <1>1, <1>2, <1>3, U64Facts

-----------------------------------------------------------------------------
(* The steps that move value. *)

\* The account is debited and the element's value is in the funding.
LEMMA FundGrantedMoves ==
  ASSUME LedgerInv, FundGranted
  PROVE  LedgerInv' /\ Cash!Next /\ Cash!Fund(call.wallet, call.request.amount_cents)
<1> DEFINE d == call.wallet
           r == call.request
           a == r.amount_cents
           own == devices[d].account
<1>1. /\ call.at = "fund_issuer" /\ call.at \notin InTransitAt /\ d \in Installed
      /\ r.device = d /\ Holds(pending_funding[d], r)
      /\ Installed = Devices /\ UNCHANGED walletVars
  BY LedgerFacts DEF FundGranted, LedgerInv, CallInv, InHand, InTransitAt
<1>2. /\ call'.at = "fund_apply" /\ call'.wallet = d
      /\ call'.funding.amount_cents = a
  BY DEF FundGranted, FundingOf, SignedFunding
<1>3. /\ a # 0 /\ ~(accounts[own] < a) /\ UNCHANGED devices
      /\ accounts' = [accounts EXCEPT ![own] = @ - a]
  BY <1>1 DEF FundGranted, IssuerFund, FundVerdict
<1>4. a \in Nat /\ balance_cents[d] + a <= Limit
  BY <1>1, RoomHeld DEF Holds
<1>5. /\ d \in Devices /\ own \in DOMAIN accounts /\ accounts[own] \in Nat
      /\ balance_cents[d] \in Nat /\ Limit \in Nat
      /\ DOMAIN Online = Devices /\ DOMAIN Offline = Devices
      /\ Online[d] = accounts[own] /\ Offline[d] = balance_cents[d]
  BY <1>1, LedgerFacts, BalanceWithin
<1>6. accounts[own] - a \in Nat
  BY <1>3, <1>4, <1>5
<1>7. /\ (Installed)' = Devices /\ UNCHANGED <<balance_cents, state, certificate>>
  BY <1>1 DEF walletVars, Installed
<1>8. ASSUME NEW e \in Devices
      PROVE  /\ Online'[e] = IF e = d THEN Online[d] - a ELSE Online[e]
             /\ Offline'[e] = IF e = d THEN Offline[d] + a ELSE Offline[e]
  <2>1. ToAccount(e)' = 0 /\ ToElement(e)' = IF e = d THEN a ELSE 0
    BY <1>2 DEF ToAccount, ToElement
  <2>2. e # d => devices[e].account # own
    BY <1>1 DEF LedgerInv, Owned
  <2>3. /\ Online[e] = accounts[devices[e].account] /\ Offline[e] = balance_cents[e]
        /\ devices[e].account \in DOMAIN accounts
        /\ accounts[devices[e].account] \in Nat /\ balance_cents[e] \in Nat
    BY <1>1, LedgerFacts
  <2>4. accounts'[devices[e].account] = IF e = d THEN accounts[own] - a ELSE accounts[devices[e].account]
    BY <1>3, <2>2, <2>3
  <2>5. Online'[e] = accounts'[devices[e].account] + ToAccount(e)'
    BY <1>3, <1>7 DEF Online
  <2>6. Offline'[e] = balance_cents[e] + ToElement(e)'
    BY <1>7 DEF Offline
  <2> QED BY <1>4, <1>5, <1>6, <2>1, <2>3, <2>4, <2>5, <2>6
<1>9. /\ Online' = [Online EXCEPT ![d] = @ - a] /\ Offline' = [Offline EXCEPT ![d] = @ + a]
  BY <1>5, <1>8 DEF Online, Offline
<1>10. Cash!Next /\ Cash!Fund(d, a)
  <2>1. Cash!Fund(d, a)
    BY <1>3, <1>4, <1>5, <1>9 DEF Cash!Fund
  <2>2. a \in 1 .. Limit
    BY <1>3, <1>4, <1>5
  <2> QED BY <1>5, <2>1, <2>2 DEF Cash!Next
<1>11. Total'
  BY <1>10, LedgerKeepsTotal DEF LedgerInv, Online, Offline
<1>12. Owned' /\ Intact' /\ AmountInHand'
  <2>1. \A account \in Deviceless : account # own
    BY <1>1, LedgerFacts DEF Deviceless
  <2>2. (Deviceless)' = Deviceless
    BY <1>3 DEF Deviceless
  <2>3. \A account \in DOMAIN accounts :
          accounts'[account] = IF account = own THEN accounts[own] - a ELSE accounts[account]
    BY <1>3
  <2>4. Owned'
    <3>1. DOMAIN devices' = (Installed)' /\ DOMAIN accounts' = DOMAIN accounts
      BY <1>1, <1>3, <1>7 DEF LedgerInv, Owned
    <3>2. \A e, f \in (Installed)' : devices'[e].account = devices'[f].account => e = f
      BY <1>1, <1>3, <1>7 DEF LedgerInv, Owned
    <3>3. accounts' = [account \in DOMAIN accounts' |-> accounts'[account]]
      BY <1>3, <3>1
    <3>4. \A account \in DOMAIN accounts' : accounts'[account] \in Nat
      BY <1>6, <2>3, <3>1 DEF LedgerInv, Owned
    <3>5. \A account \in (Deviceless)' : accounts'[account] = Opening'
      <4>1. \A account \in Deviceless : account \in DOMAIN accounts /\ accounts[account] = Opening
        BY DEF LedgerInv, Owned, Deviceless
      <4> QED BY <2>1, <2>2, <2>3, <4>1 DEF Opening
    <3> QED BY <3>1, <3>2, <3>3, <3>4, <3>5 DEF Owned
  <2> QED BY <1>1, <1>2, <1>4, <1>7, <2>4 DEF LedgerInv, Intact, AmountInHand
<1> QED BY <1>10, <1>11, <1>12, FundGrantedKept DEF LedgerInv

\* The element is debited and the account's value is in the order.
LEMMA DefundOrderMoves ==
  ASSUME LedgerInv, DefundOrder, Defund(call.wallet, call.amount),
         call' = [at |-> "defund_issuer", order |-> DefundingOf(call.wallet, call.amount)]
  PROVE  LedgerInv' /\ Cash!Next /\ Cash!Defund(call.wallet, call.amount)
<1> DEFINE d == call.wallet
           a == call.amount
<1>1. /\ call.at = "defund" /\ call.at \notin InTransitAt /\ d \in Installed /\ a \in Nat
      /\ Installed = Devices /\ UNCHANGED issuerVars
  BY LedgerFacts, U64Facts DEF DefundOrder, LedgerInv, CallInv, InHand, InTransitAt
<1>2. /\ call'.at = "defund_issuer" /\ call'.order.device = d /\ call'.order.amount_cents = a
  BY <1>1, OfDevice DEF DefundingOf, SignedDefunding, LedgerInv
<1>3. /\ a # 0 /\ ~(a > balance_cents[d])
      /\ balance_cents' = [balance_cents EXCEPT ![d] = @ - a] /\ UNCHANGED <<certificate, state>>
  BY <1>1 DEF Defund, Debit, DebitVerdict, LedgerInv, Intact
<1>4. /\ balance_cents[d] \in Nat /\ balance_cents[d] <= Limit /\ Limit \in Nat
      /\ DOMAIN Online = Devices /\ DOMAIN Offline = Devices /\ DOMAIN balance_cents = Devices
      /\ Offline[d] = balance_cents[d]
  BY <1>1, LedgerFacts, BalanceWithin
<1>5. (Installed)' = Devices /\ UNCHANGED <<accounts, devices>>
  BY <1>1, <1>3 DEF Installed, issuerVars
<1>6. ASSUME NEW e \in Devices
      PROVE  /\ Online'[e] = IF e = d THEN Online[d] + a ELSE Online[e]
             /\ Offline'[e] = IF e = d THEN Offline[d] - a ELSE Offline[e]
  <2>1. ToElement(e)' = 0 /\ ToAccount(e)' = IF e = d THEN a ELSE 0
    BY <1>2 DEF ToAccount, ToElement
  <2>2. /\ Online[e] = accounts[devices[e].account] /\ Offline[e] = balance_cents[e]
        /\ accounts[devices[e].account] \in Nat /\ balance_cents[e] \in Nat
    BY <1>1, LedgerFacts
  <2>3. Online'[e] = accounts[devices[e].account] + ToAccount(e)'
    BY <1>5 DEF Online
  <2>4. Offline'[e] = balance_cents'[e] + ToElement(e)'
    BY DEF Offline
  <2>5. balance_cents'[e] = IF e = d THEN balance_cents[d] - a ELSE balance_cents[e]
    BY <1>3, <1>4
  <2> QED BY <1>1, <1>3, <1>4, <2>1, <2>2, <2>3, <2>4, <2>5
<1>7. Online' = [Online EXCEPT ![d] = @ + a] /\ Offline' = [Offline EXCEPT ![d] = @ - a]
  BY <1>4, <1>6 DEF Online, Offline
<1>8. Cash!Next /\ Cash!Defund(d, a)
  <2>1. Cash!Defund(d, a)
    BY <1>1, <1>3, <1>4, <1>7 DEF Cash!Defund
  <2>2. a \in 1 .. Limit
    BY <1>1, <1>3, <1>4
  <2> QED BY <1>1, <2>1, <2>2 DEF Cash!Next
<1>9. Total'
  BY <1>8, LedgerKeepsTotal DEF LedgerInv, Online, Offline
<1>10. Owned' /\ Intact' /\ AmountInHand'
  <2>1. Owned' /\ Intact'
    BY <1>1, <1>3, <1>5 DEF LedgerInv, Owned, Intact, Deviceless, Opening
  <2> QED BY <1>1, <1>2, <2>1 DEF AmountInHand
<1> QED BY <1>8, <1>9, <1>10, DefundOrderKept DEF LedgerInv

\* The payer is debited and the payee's value is in the transfer.
LEMMA PayPaidMoves ==
  ASSUME LedgerInv, PayPaid
  PROVE  /\ LedgerInv' /\ Cash!Next
         /\ Cash!Pay(call.payer, call.payee, call.request.amount_cents)
<1> DEFINE d == call.payer
           g == call.payee
           r == call.request
           a == r.amount_cents
<1>1. /\ call.at = "pay_payer" /\ call.at \notin InTransitAt /\ d \in Installed /\ g \in Installed
      /\ r.payee = certificate[g] /\ Holds(incoming[g], r)
      /\ Installed = Devices /\ UNCHANGED issuerVars /\ Pay(d, r)
  BY LedgerFacts DEF PayPaid, LedgerInv, CallInv, InHand, InTransitAt
<1>2. /\ call'.at = "pay_payee" /\ call'.payee = g /\ call'.transfer.amount_cents = a
  BY DEF PayPaid, TransferOf, SignedTransfer
<1>3. d # g
  <2>1. certificate[g].device = g /\ certificate[d].device = d
    BY <1>1, OfDevice DEF LedgerInv
  <2>2. r.payee.device # certificate[d].device
    BY <1>1 DEF Pay, PayVerdict
  <2> QED BY <1>1, <2>1, <2>2
<1>4. a \in Nat /\ balance_cents[g] + a <= Limit
  BY <1>1, RoomHeld DEF Holds
<1>5. /\ a # 0 /\ ~(a > balance_cents[d])
      /\ balance_cents' = [balance_cents EXCEPT ![d] = @ - a] /\ UNCHANGED <<certificate, state>>
  BY <1>1 DEF Pay, Debit, DebitVerdict, LedgerInv, Intact
<1>6. /\ balance_cents[d] \in Nat /\ balance_cents[d] <= Limit /\ Limit \in Nat
      /\ balance_cents[g] \in Nat
      /\ DOMAIN Online = Devices /\ DOMAIN Offline = Devices /\ DOMAIN balance_cents = Devices
      /\ Offline[d] = balance_cents[d] /\ Offline[g] = balance_cents[g]
  BY <1>1, LedgerFacts, BalanceWithin
<1>7. (Installed)' = Devices /\ UNCHANGED <<accounts, devices>>
  BY <1>1, <1>5 DEF Installed, issuerVars
<1>8. ASSUME NEW e \in Devices
      PROVE  /\ Online'[e] = Online[e]
             /\ Offline'[e] = IF e = d THEN Offline[d] - a
                              ELSE IF e = g THEN Offline[g] + a ELSE Offline[e]
  <2>1. ToAccount(e)' = 0 /\ ToElement(e)' = IF e = g THEN a ELSE 0
    BY <1>2 DEF ToAccount, ToElement
  <2>2. /\ Online[e] = accounts[devices[e].account] /\ Offline[e] = balance_cents[e]
        /\ accounts[devices[e].account] \in Nat /\ balance_cents[e] \in Nat
    BY <1>1, LedgerFacts
  <2>3. Online'[e] = accounts[devices[e].account] + ToAccount(e)'
    BY <1>7 DEF Online
  <2>4. Offline'[e] = balance_cents'[e] + ToElement(e)'
    BY DEF Offline
  <2>5. balance_cents'[e] = IF e = d THEN balance_cents[d] - a ELSE balance_cents[e]
    BY <1>5, <1>6
  <2> QED BY <1>3, <1>4, <1>5, <1>6, <2>1, <2>2, <2>3, <2>4, <2>5
<1>9. Online' = Online /\ Offline' = [Offline EXCEPT ![d] = @ - a, ![g] = @ + a]
  <2>1. Online' = Online
    <3>1. Online = [e \in Devices |-> Online[e]] /\ Online' = [e \in Devices |-> Online'[e]]
      BY DEF Online
    <3> QED BY <1>8, <3>1
  <2>2. Offline' = [Offline EXCEPT ![d] = @ - a, ![g] = @ + a]
    <3>1. Offline = [e \in Devices |-> Offline[e]] /\ Offline' = [e \in Devices |-> Offline'[e]]
      BY DEF Offline
    <3> QED BY <1>1, <1>3, <1>6, <1>8, <3>1
  <2> QED BY <2>1, <2>2
<1>10. Cash!Next /\ Cash!Pay(d, g, a)
  <2>1. Cash!Pay(d, g, a)
    BY <1>1, <1>3, <1>4, <1>5, <1>6, <1>9 DEF Cash!Pay
  <2>2. a \in 1 .. Limit
    BY <1>4, <1>5, <1>6
  <2> QED BY <1>1, <2>1, <2>2 DEF Cash!Next
<1>11. Total'
  BY <1>10, LedgerKeepsTotal DEF LedgerInv, Online, Offline
<1>12. Owned' /\ Intact' /\ AmountInHand'
  <2>1. Owned' /\ Intact'
    BY <1>1, <1>5, <1>7 DEF LedgerInv, Owned, Intact, Deviceless, Opening
  <2> QED BY <1>2, <1>4, <2>1 DEF AmountInHand
<1> QED BY <1>10, <1>11, <1>12, PayPaidKept DEF LedgerInv

-----------------------------------------------------------------------------
(* The steps that credit what is in transit. *)

\* A credit of an element makes it whole: what was counted as on its way is there.
LEMMA ElementCredited ==
  ASSUME LedgerInv, CallInv', NEW d \in Installed, NEW reqs \in {incoming[d], pending_funding[d]},
         NEW nonce \in DOMAIN reqs,
         call.at \in {"fund_apply", "pay_payee"}, call'.at = "returned",
         \A e \in Devices : ToElement(e) = IF e = d THEN reqs[nonce] ELSE 0,
         balance_cents' = [balance_cents EXCEPT ![d] = Wrap(@ + reqs[nonce])],
         UNCHANGED <<certificate, state, accounts, devices>>
  PROVE  LedgerInv' /\ UNCHANGED <<Online, Offline>>
<1>1. /\ reqs[nonce] \in Nat
      /\ Wrap(balance_cents[d] + reqs[nonce]) = balance_cents[d] + reqs[nonce]
  BY RoomHeld
<1>2. /\ (Installed)' = Installed /\ Installed = Devices /\ DOMAIN balance_cents = Devices
      /\ \A e \in Devices : balance_cents[e] \in Nat
  BY LedgerFacts DEF Installed
<1>3. ASSUME NEW e \in Devices
      PROVE  /\ balance_cents'[e] + ToElement(e)' = balance_cents[e] + ToElement(e)
             /\ ToAccount(e) = 0 /\ ToAccount(e)' = 0
  <2>1. ToAccount(e) = 0 /\ ToAccount(e)' = 0 /\ ToElement(e)' = 0
    BY DEF ToAccount, ToElement
  <2>2. balance_cents'[e] = IF e = d THEN balance_cents[d] + reqs[nonce] ELSE balance_cents[e]
    BY <1>1, <1>2
  <2> QED BY <1>1, <1>2, <2>1, <2>2
<1>4. UNCHANGED <<Online, Offline>>
  BY <1>2, <1>3 DEF Online, Offline, Opening
<1>5. Owned' /\ Intact'
  BY <1>2 DEF LedgerInv, Owned, Intact, Deviceless, Opening
<1>6. AmountInHand' /\ Total'
  BY <1>4 DEF LedgerInv, AmountInHand, Total, Money, Opening
<1> QED BY <1>4, <1>5, <1>6 DEF LedgerInv

LEMMA FundApplyCredits ==
  ASSUME LedgerInv, FundApply
  PROVE  LedgerInv' /\ UNCHANGED <<Online, Offline>>
<1> DEFINE d == call.wallet
           f == call.funding
<1>1. /\ call.at = "fund_apply" /\ d \in Installed /\ UNCHANGED issuerVars
      /\ ApplyFunding(d, f) /\ Return("Ok")
  BY DEF FundApply, LedgerInv, CallInv, InHand
<1>2. f.nonce \in DOMAIN pending_funding[d] /\ f.amount_cents = pending_funding[d][f.nonce]
  BY <1>1 DEF ApplyFunding, ApplyVerdict
<1>3. \A e \in Devices : ToElement(e) = IF e = d THEN pending_funding[d][f.nonce] ELSE 0
  BY <1>1, <1>2 DEF ToElement
<1>4. /\ balance_cents' = [balance_cents EXCEPT ![d] = Wrap(@ + pending_funding[d][f.nonce])]
      /\ UNCHANGED <<certificate, state, accounts, devices>> /\ call'.at = "returned"
  BY <1>1 DEF ApplyFunding, issuerVars, Return
<1>5. CallInv'
  BY FundApplyKept DEF LedgerInv
<1> QED BY <1>1, <1>2, <1>3, <1>4, <1>5, ElementCredited

LEMMA PayReceiveCredits ==
  ASSUME LedgerInv, PayReceive
  PROVE  LedgerInv' /\ UNCHANGED <<Online, Offline>>
<1> DEFINE d == call.payee
           t == call.transfer
<1>1. /\ call.at = "pay_payee" /\ d \in Installed /\ UNCHANGED issuerVars
      /\ Receive(d, t) /\ Return("Ok")
  BY DEF PayReceive, LedgerInv, CallInv, InHand
<1>2. t.nonce \in DOMAIN incoming[d] /\ t.amount_cents = incoming[d][t.nonce]
  BY <1>1 DEF Receive, ReceiveVerdict
<1>3. \A e \in Devices : ToElement(e) = IF e = d THEN incoming[d][t.nonce] ELSE 0
  BY <1>1, <1>2 DEF ToElement
<1>4. /\ balance_cents' = [balance_cents EXCEPT ![d] = Wrap(@ + incoming[d][t.nonce])]
      /\ UNCHANGED <<certificate, state, accounts, devices>> /\ call'.at = "returned"
  BY <1>1 DEF Receive, issuerVars, Return
<1>5. CallInv'
  BY PayReceiveKept DEF LedgerInv
<1> QED BY <1>1, <1>2, <1>3, <1>4, <1>5, ElementCredited

\* A credit of an account is exact, since all the money fits.
LEMMA DefundCreditCredits ==
  ASSUME LedgerInv, DefundCredit, Money <= MaxU64
  PROVE  LedgerInv' /\ UNCHANGED <<Online, Offline>>
<1> DEFINE o == call.order
           d == o.device
           a == o.amount_cents
           own == devices[d].account
<1>1. /\ call.at = "defund_issuer" /\ d \in Installed /\ UNCHANGED walletVars
      /\ IssuerDefund(o) /\ Return("Ok") /\ a \in Nat /\ Installed = Devices
  BY LedgerFacts DEF DefundCredit, LedgerInv, CallInv, InHand, AmountInHand
<1>2. /\ accounts' = [accounts EXCEPT ![own] = Wrap(accounts[own] + a)]
      /\ devices' = [devices EXCEPT ![d].last_defunding_counter = o.counter]
      /\ call'.at = "returned"
  BY <1>1 DEF IssuerDefund, Return
<1>3. /\ (Installed)' = Devices /\ UNCHANGED <<balance_cents, state, certificate>>
      /\ DOMAIN devices' = DOMAIN devices
      /\ DOMAIN accounts' = DOMAIN accounts
  BY <1>1, <1>2 DEF walletVars, Installed
<1>4. /\ own \in DOMAIN accounts /\ accounts[own] \in Nat /\ DOMAIN Online = Devices
      /\ \A e \in Devices : /\ e \in DOMAIN devices /\ devices[e].account \in DOMAIN accounts
                            /\ accounts[devices[e].account] \in Nat /\ balance_cents[e] \in Nat
  BY <1>1, LedgerFacts
<1>5. \A e \in Devices : devices'[e].account = devices[e].account
  <2>1. devices[d] \in [account : DOMAIN accounts, public_key : {d},
                        last_defunding_counter : 0 .. counter[d]]
    BY <1>1 DEF LedgerInv, CallInv, Registered
  <2> QED BY <1>2, <1>4, <2>1
<1>6. Wrap(accounts[own] + a) = accounts[own] + a
  <2>1. Online[d] = accounts[own] + a
    BY <1>1 DEF Online, ToAccount
  <2>2. Online[d] <= SumFunction(Online) /\ SumFunction(Online) \in Nat
    BY <1>1, <1>4, EntryWithin, PurseNat DEF LedgerInv, Total
  <2>3. SumFunction(Offline) \in Nat /\ SumFunction(Online) + SumFunction(Offline) = Money
    BY PurseNat DEF LedgerInv, Total
  <2>4. accounts[own] + a <= MaxU64
    BY <1>1, <1>4, <2>1, <2>2, <2>3, U64Facts
  <2> QED BY <1>1, <1>4, <2>4, U64Facts
<1>7. \A account \in DOMAIN accounts :
        accounts'[account] = IF account = own THEN accounts[own] + a ELSE accounts[account]
  BY <1>2, <1>6
<1>8. ASSUME NEW e \in Devices
      PROVE  /\ accounts'[devices'[e].account] + ToAccount(e)'
                  = accounts[devices[e].account] + ToAccount(e)
             /\ ToElement(e) = 0 /\ ToElement(e)' = 0
  <2>1. /\ ToAccount(e)' = 0 /\ ToElement(e)' = 0 /\ ToElement(e) = 0
        /\ ToAccount(e) = IF e = d THEN a ELSE 0
    BY <1>1, <1>2 DEF ToAccount, ToElement
  <2>2. e # d => devices[e].account # own
    BY <1>1 DEF LedgerInv, Owned
  <2>3. accounts'[devices'[e].account]
          = IF e = d THEN accounts[own] + a ELSE accounts[devices[e].account]
    BY <1>4, <1>5, <1>7, <2>2
  <2> QED BY <1>1, <1>4, <2>1, <2>3
<1>9. UNCHANGED <<Online, Offline>>
  BY <1>1, <1>3, <1>8 DEF Online, Offline
<1>10. Owned'
  <2>1. UNCHANGED Deviceless
    BY <1>1, <1>3, <1>5 DEF Deviceless, LedgerInv, Owned
  <2>2. \A account \in Deviceless : account # own /\ account \in DOMAIN accounts
                                    /\ accounts[account] = Opening
    BY <1>1, <1>4 DEF Deviceless, LedgerInv, Owned
  <2>3. \A account \in (Deviceless)' : accounts'[account] = Opening'
    BY <1>7, <2>1, <2>2 DEF Opening
  <2>4. accounts' = [account \in DOMAIN accounts' |-> accounts'[account]]
    BY <1>2, <1>3
  <2>5. \A account \in DOMAIN accounts' : accounts'[account] \in Nat
    BY <1>1, <1>3, <1>4, <1>7 DEF LedgerInv, Owned
  <2>6. \A e, f \in (Installed)' : devices'[e].account = devices'[f].account => e = f
    BY <1>1, <1>3, <1>5 DEF LedgerInv, Owned
  <2> QED BY <1>1, <1>3, <2>3, <2>4, <2>5, <2>6 DEF LedgerInv, Owned
<1>11. Intact' /\ AmountInHand' /\ Total'
  BY <1>1, <1>2, <1>3, <1>9 DEF LedgerInv, Intact, AmountInHand, Total, Money, Opening
<1> QED BY <1>9, <1>10, <1>11, DefundCreditKept DEF LedgerInv

-----------------------------------------------------------------------------
(* The world, which the ledger has from the start. *)

LEMMA LedgerInitOK ==
  ASSUME Init
  PROVE  LedgerInv /\ Cash!Init
<1>1. /\ Installed = {} /\ DOMAIN accounts = {} /\ DOMAIN devices = {} /\ accounts = NoEntries
      /\ call = Idle /\ \A d \in Devices : state[d] = "Sealed" /\ balance_cents[d] = 0
  BY DEF Init, WalletInit, IssuerInit, Installed, NoEntries
<1>2. call.at = "idle" /\ \A d \in Devices : ToElement(d) = 0
  BY <1>1 DEF Idle, ToElement
<1>3. Online = [d \in Devices |-> Opening] /\ Offline = [d \in Devices |-> 0]
  BY <1>1, <1>2 DEF Online, Offline
<1>4. Owned /\ Intact /\ AmountInHand
  BY <1>1, <1>2 DEF Owned, Intact, AmountInHand, Deviceless, NoEntries
<1>5. Total
  <2>1. Opening \in Nat
    <3>1. Limit \in Nat /\ MaxU64 \in Nat
      BY FuzzAssumption, U64Facts
    <3> QED BY <3>1 DEF Opening, Wrap
  <2>2. IsFiniteSet(Devices) /\ Cardinality(Devices) \in Nat
    BY FuzzAssumption, FS_CardinalityType
  <2>3. IsPurse(Online) /\ SumFunction(Online) = Opening * Cardinality(Devices)
    BY <1>3, <2>1, <2>2, SumOfEqual
  <2>4. IsPurse(Offline) /\ SumFunction(Offline) = 0
    BY <1>3, <2>2, PurseOfNothing DEF IsPurse
  <2>5. SumFunction(Online) \in Nat
    BY <2>3, PurseNat
  <2> QED BY <2>3, <2>4, <2>5 DEF Total, Money
<1> QED BY <1>3, <1>4, <1>5, FuzzInitOK DEF LedgerInv, Cash!Init

LEMMA OpenNextUnseen ==
  ASSUME LedgerInv, OpenNext
  PROVE  LedgerInv' /\ UNCHANGED <<Online, Offline>>
<1>1. PICK account \in Accounts \ DOMAIN accounts : OpenAccount(account, Opening)
  BY DEF OpenNext
<1>2. call = Idle /\ call' = Idle /\ UNCHANGED walletVars
  BY DEF OpenNext, LedgerInv, CallInv, WorldFirst
<1>3. accounts' = Insert(accounts, account, Opening) /\ UNCHANGED devices
  BY <1>1 DEF OpenAccount
<1>4. /\ DOMAIN accounts' = DOMAIN accounts \cup {account} /\ accounts'[account] = Opening
      /\ \A other \in DOMAIN accounts : accounts'[other] = accounts[other]
  BY <1>1, <1>3 DEF Insert
<1>5. /\ (Installed)' = Installed /\ UNCHANGED <<balance_cents, state>>
      /\ \A d \in Devices : /\ ToElement(d) = 0 /\ ToElement(d)' = 0
                            /\ ToAccount(d) = 0 /\ ToAccount(d)' = 0
  BY <1>2 DEF walletVars, Installed, ToElement, ToAccount, Idle
<1>6. \A d \in Installed : devices[d].account \in DOMAIN accounts
  BY LedgerFacts
<1>7. UNCHANGED <<Online, Offline>>
  BY <1>3, <1>4, <1>5, <1>6 DEF Online, Offline, Opening
<1>8. Owned'
  <2>1. Opening \in Nat
    <3>1. Limit \in Nat /\ MaxU64 \in Nat
      BY FuzzAssumption, U64Facts
    <3> QED BY <3>1 DEF Opening, Wrap
  <2>2. \A other \in (Deviceless)' : accounts'[other] = Opening'
    <3>1. \A other \in (Deviceless)' : other = account \/ other \in Deviceless
      BY <1>3, <1>4 DEF Deviceless
    <3>2. \A other \in Deviceless : other \in DOMAIN accounts /\ accounts[other] = Opening
      BY DEF LedgerInv, Owned, Deviceless
    <3> QED BY <1>4, <3>1, <3>2 DEF Opening
  <2>3. accounts' = [other \in DOMAIN accounts' |-> accounts'[other]]
    BY <1>3, <1>4 DEF Insert
  <2> QED BY <1>3, <1>4, <1>5, <2>1, <2>2, <2>3 DEF LedgerInv, Owned
<1>9. Intact' /\ AmountInHand' /\ Total'
  BY <1>2, <1>5, <1>7 DEF LedgerInv, Intact, AmountInHand, Total, Money, Opening, Idle
<1> QED BY <1>7, <1>8, <1>9, OpenNextKept DEF LedgerInv

LEMMA EnrolNextUnseen ==
  ASSUME LedgerInv, EnrolNext
  PROVE  LedgerInv' /\ UNCHANGED <<Online, Offline>>
<1>1. PICK d \in Devices, account \in Deviceless : Enrol(d, account, Limit)
  BY DEF EnrolNext
<1> DEFINE c == SignedCertificate(d, d, Limit, IssuerKey)
           record == [account |-> account, public_key |-> d, last_defunding_counter |-> 0]
<1>2. CertifyDevice(d, account, d) /\ Install(c, d, IssuerKey) /\ UNCHANGED call /\ c.device = d
  BY <1>1 DEF Enrol, SignedCertificate
<1> HIDE DEF c
<1>3. /\ d \notin Installed /\ certificate' = Insert(certificate, d, c)
      /\ balance_cents' = [balance_cents EXCEPT ![d] = 0] /\ state' = [state EXCEPT ![d] = "Sealed"]
      /\ UNCHANGED accounts /\ devices' = Insert(devices, d, record)
  BY <1>2 DEF Install, CertifyDevice
<1>4. /\ account \in DOMAIN accounts /\ accounts[account] = Opening
      /\ \A e \in Installed : /\ e \in DOMAIN devices /\ devices[e].account # account
                              /\ e # d
  BY <1>3, LedgerFacts DEF LedgerInv, Owned, Deviceless
<1>5. /\ (Installed)' = Installed \cup {d} /\ DOMAIN devices' = DOMAIN devices \cup {d}
      /\ devices'[d] = record /\ \A e \in Installed : devices'[e] = devices[e]
  BY <1>3, <1>4 DEF Installed, Insert
<1>6. call = Idle /\ call' = Idle
  BY <1>2, <1>3 DEF LedgerInv, CallInv, WorldFirst, WorldBuilt
<1>7. \A e \in Devices : /\ ToElement(e) = 0 /\ ToElement(e)' = 0
                         /\ ToAccount(e) = 0 /\ ToAccount(e)' = 0
  BY <1>6 DEF ToElement, ToAccount, Idle
<1>8. balance_cents' = balance_cents
  <2>1. balance_cents[d] = 0
    BY <1>3 DEF LedgerInv, Intact
  <2>2. balance_cents \in [Devices -> U64]
    BY LedgerFacts
  <2> QED BY <1>3, <2>1, <2>2
<1>9. UNCHANGED <<Online, Offline>>
  <2>1. ASSUME NEW e \in Devices
        PROVE  Online'[e] = Online[e]
    <3>1. CASE e = d
      <4>1. record.account = account /\ Opening \in Nat
        BY <1>4, U64Facts DEF LedgerInv, Owned
      <4> QED BY <1>3, <1>4, <1>5, <1>7, <3>1, <4>1 DEF Online, Opening
    <3>2. CASE e \in Installed
      BY <1>3, <1>4, <1>5, <1>7, <3>2 DEF Online
    <3>3. CASE e # d /\ e \notin Installed
      BY <1>5, <3>3 DEF Online, Opening
    <3> QED BY <3>1, <3>2, <3>3
  <2> QED BY <1>7, <1>8, <2>1 DEF Online, Offline
<1>10. Owned'
  <2>1. record.account = account
    OBVIOUS
  <2>2. (Deviceless)' \subseteq Deviceless
    <3>1. ASSUME NEW other \in (Deviceless)' PROVE other \in Deviceless
      <4>1. other \in DOMAIN accounts /\ \A e \in DOMAIN devices' : devices'[e].account # other
        BY <1>3 DEF Deviceless
      <4>2. \A e \in DOMAIN devices : e \in Installed
        BY DEF LedgerInv, Owned
      <4> QED BY <1>5, <4>1, <4>2 DEF Deviceless
    <3> QED BY <3>1
  <2>3. \A e, f \in (Installed)' : devices'[e].account = devices'[f].account => e = f
    <3> HIDE DEF record
    <3> QED BY <1>4, <1>5, <2>1 DEF LedgerInv, Owned
  <2> HIDE DEF record
  <2>4. \A other \in (Deviceless)' : accounts'[other] = Opening'
    BY <1>3, <2>2 DEF LedgerInv, Owned, Opening
  <2> QED BY <1>3, <1>5, <2>3, <2>4 DEF LedgerInv, Owned
<1>11. Intact' /\ AmountInHand' /\ Total'
  BY <1>3, <1>5, <1>6, <1>8, <1>9 DEF LedgerInv, Intact, AmountInHand, Total, Money, Opening, Idle
<1> QED BY <1>9, <1>10, <1>11, EnrolNextKept DEF LedgerInv

-----------------------------------------------------------------------------
(* The steps that move nothing. *)

\* A step that changes neither the parties nor the call.
LEMMA LedgerStutter ==
  ASSUME LedgerInv, UNCHANGED callVars
  PROVE  LedgerInv' /\ UNCHANGED <<Online, Offline>>
<1>1. UNCHANGED <<balance_cents, state, certificate, accounts, devices, call>>
  BY DEF callVars, walletVars, issuerVars
<1>2. UNCHANGED <<Online, Offline>>
  BY <1>1 DEF Online, Offline, ToElement, ToAccount, Installed, Opening
<1>3. Owned' /\ Intact'
  BY <1>1 DEF LedgerInv, Owned, Intact, Installed, Deviceless, Opening
<1>4. AmountInHand' /\ Total'
  BY <1>1, <1>2 DEF LedgerInv, AmountInHand, Total, Money, Opening
<1> QED BY <1>2, <1>3, <1>4, FuzzStutterKept DEF LedgerInv

\* Requests and cancellations touch nothing but reservations, and a refusal not even those.
LEMMA RequestsMoveNothing ==
  ASSUME LedgerInv,
         \/ FundRequest \/ FundRefused \/ PayRequest \/ PayRefused \/ Draw \/ Check
         \/ DefundOrder /\ UNCHANGED walletVars /\ Return(DebitVerdict(call.wallet, call.amount))
  PROVE  LedgerInv' /\ UNCHANGED <<Online, Offline>>
<1>1. CASE FundRequest
  <2>1. /\ call.at \notin InTransitAt /\ call'.at \notin InTransitAt
        /\ UNCHANGED <<balance_cents, state, certificate, accounts, devices>>
    BY <1>1 DEF FundRequest, RequestFunding, walletVars, issuerVars, InTransitAt, Return
  <2> QED BY <1>1, <2>1, FundRequestKept, NothingMoves DEF LedgerInv
<1>2. CASE FundRefused
  <2>1. /\ call.at \notin InTransitAt /\ call'.at \notin InTransitAt
        /\ UNCHANGED <<balance_cents, state, certificate, accounts, devices>>
    BY <1>2 DEF FundRefused, CancelFunding, walletVars, issuerVars, InTransitAt, Return
  <2> QED BY <1>2, <2>1, FundRefusedKept, NothingMoves DEF LedgerInv
<1>3. CASE PayRequest
  <2>1. /\ call.at \notin InTransitAt /\ call'.at \notin InTransitAt
        /\ UNCHANGED <<balance_cents, state, certificate, accounts, devices>>
    BY <1>3 DEF PayRequest, RequestPayment, walletVars, issuerVars, InTransitAt, Return
  <2> QED BY <1>3, <2>1, PayRequestKept, NothingMoves DEF LedgerInv
<1>4. CASE PayRefused
  <2>1. /\ call.at \notin InTransitAt /\ call'.at \notin InTransitAt
        /\ UNCHANGED <<balance_cents, state, certificate, accounts, devices>>
    BY <1>4 DEF PayRefused, CancelRequest, walletVars, issuerVars, InTransitAt, Return
  <2> QED BY <1>4, <2>1, PayRefusedKept, NothingMoves DEF LedgerInv
<1>5. CASE Draw
  <2>1. /\ call.at \notin InTransitAt /\ call'.at \notin InTransitAt
        /\ UNCHANGED <<balance_cents, state, certificate, accounts, devices>>
    BY <1>5 DEF Draw, Idle, walletVars, issuerVars, InTransitAt
  <2> QED BY <1>5, <2>1, DrawKept, NothingMoves DEF LedgerInv
<1>6. CASE Check
  <2>1. /\ call.at \notin InTransitAt /\ call'.at \notin InTransitAt
        /\ UNCHANGED <<balance_cents, state, certificate, accounts, devices>>
    BY <1>6 DEF Check, Idle, walletVars, issuerVars, InTransitAt
  <2> QED BY <1>6, <2>1, CheckKept, NothingMoves DEF LedgerInv
<1>7. CASE /\ DefundOrder /\ UNCHANGED walletVars
           /\ Return(DebitVerdict(call.wallet, call.amount))
  <2>1. /\ call.at \notin InTransitAt /\ call'.at \notin InTransitAt
        /\ UNCHANGED <<balance_cents, state, certificate, accounts, devices>>
    BY <1>7 DEF DefundOrder, walletVars, issuerVars, InTransitAt, Return
  <2> QED BY <1>7, <2>1, DefundOrderKept, NothingMoves DEF LedgerInv
<1> QED BY <1>1, <1>2, <1>3, <1>4, <1>5, <1>6, <1>7

-----------------------------------------------------------------------------

\* Every step is one move of the ledger or none.
LEMMA LedgerStepKept ==
  ASSUME LedgerInv, [Next]_fuzzVars, Money <= MaxU64
  PROVE  LedgerInv' /\ (Cash!Next \/ UNCHANGED <<Online, Offline>>)
<1>1. CASE FundRequest \/ FundRefused \/ PayRequest \/ PayRefused \/ Draw \/ Check
  BY <1>1, RequestsMoveNothing
<1>2. CASE DefundOrder
  <2>1. CASE Defund(call.wallet, call.amount) /\
             call' = [at |-> "defund_issuer", order |-> DefundingOf(call.wallet, call.amount)]
    BY <1>2, <2>1, DefundOrderMoves
  <2>2. CASE UNCHANGED walletVars /\ Return(DebitVerdict(call.wallet, call.amount))
    BY <1>2, <2>2, RequestsMoveNothing
  <2> QED BY <1>2, <2>1, <2>2 DEF DefundOrder
<1>3. CASE FundGranted
  BY <1>3, FundGrantedMoves
<1>4. CASE PayPaid
  BY <1>4, PayPaidMoves
<1>5. CASE FundApply
  BY <1>5, FundApplyCredits
<1>6. CASE DefundCredit
  BY <1>6, DefundCreditCredits
<1>7. CASE PayReceive
  BY <1>7, PayReceiveCredits
<1>8. CASE OpenNext
  BY <1>8, OpenNextUnseen
<1>9. CASE EnrolNext
  BY <1>9, EnrolNextUnseen
<1>10. CASE Pass \/ UNCHANGED fuzzVars
  BY <1>10, LedgerStutter DEF Pass, fuzzVars, callVars
<1> QED
  BY <1>1, <1>2, <1>3, <1>4, <1>5, <1>6, <1>7, <1>8, <1>9, <1>10 DEF Next, Run, CallStep

\* For any number of devices and calls, whatever is drawn, every call moves its amount
\* entirely and at once or not at all, if all the money in the world fits in a u64
\* (lib.rs, fund, defund and pay).
THEOREM CallsImplementLedger ==
  ASSUME Money <= MaxU64
  PROVE  Spec => ImplementsLedger
<1>1. Init => LedgerInv /\ Cash!Init
  BY LedgerInitOK
<1>2. LedgerInv /\ [Next]_fuzzVars => LedgerInv' /\ [Cash!Next]_(Cash!ledgerVars)
  BY LedgerStepKept DEF Cash!ledgerVars
<1> QED BY <1>1, <1>2, PTL DEF Spec, ImplementsLedger, Cash!Spec

-----------------------------------------------------------------------------
(* What the fuzz command checks, while a call runs. *)


\* What the issuer has booked, account by account.
Books ==
  /\ DOMAIN accounts \subseteq Accounts
  /\ SumFunction(accounts) + offline_float = Opening * Cardinality(DOMAIN accounts)

OrderInHand == IF call.at = "defund_issuer" THEN call.order.amount_cents ELSE 0

Float == offline_float = SumFunction(Offline) + OrderInHand

PaymentInHand(d) ==
  IF call.at = "pay_payer" /\ call.payee = d THEN {call.request.nonce}
  ELSE IF call.at = "pay_payee" /\ call.payee = d THEN {call.transfer.nonce}
  ELSE {}

FundingInHand(d) ==
  IF call.at = "fund_issuer" /\ call.wallet = d THEN {call.request.nonce}
  ELSE IF call.at = "fund_apply" /\ call.wallet = d THEN {call.funding.nonce}
  ELSE {}

OneReservation ==
  \A d \in Devices : /\ DOMAIN incoming[d] \subseteq PaymentInHand(d)
                     /\ DOMAIN pending_funding[d] \subseteq FundingInHand(d)

\* The snapshot of a world in which nothing is reserved.
Unreserved ==
  [wallets  |-> [d \in Installed |-> <<balance_cents[d], 0>>],
   accounts |-> accounts, float |-> offline_float]

NothingMoved ==
  \/ call.at \in {"fund", "defund", "pay", "fund_issuer", "pay_payer"}
  \/ call.at = "returned" /\ call.result # "Ok"

Undone == NothingMoved => before = Unreserved

AuditInv == LedgerInv /\ Books /\ Float /\ OneReservation /\ Undone /\ FindsNothing

-----------------------------------------------------------------------------
(* What run_fuzz checks holds between calls. *)

\* Between calls nothing is reserved, and the snapshot says so.
LEMMA NoneReserved ==
  ASSUME AuditInv, call.at \in {"idle", "returned"}
  PROVE  /\ \A d \in Devices : Reserved(d) = 0
         /\ Snapshot = Unreserved
<1>1. Installed \subseteq Devices
  BY DEF AuditInv, LedgerInv, CallInv, WalletInv, WalletTypeOK, Installed
<1>2. ASSUME NEW d \in Devices
      PROVE  Reserved(d) = 0
  <2>1. DOMAIN incoming[d] = {} /\ DOMAIN pending_funding[d] = {}
    BY DEF AuditInv, OneReservation, PaymentInHand, FundingInHand
  <2>2. IsOpen(incoming[d]) /\ IsOpen(pending_funding[d])
    BY InvByElement DEF AuditInv, LedgerInv, CallInv, ElementSound, Sound
  <2>3. incoming[d] = [n \in {} |-> 0] /\ pending_funding[d] = [n \in {} |-> 0]
    BY <2>1, <2>2 DEF IsOpen
  <2>4. SumFunction(incoming[d]) = 0 /\ SumFunction(pending_funding[d]) = 0
    BY <2>3, PurseOfNothing, FS_EmptySet
  <2>5. Wrap(0) = 0
    BY U64Facts
  <2> QED BY <2>4, <2>5 DEF Reserved
<1> QED BY <1>1, <1>2 DEF Snapshot, Unreserved

\* Once the world is built there are as many accounts as devices.
LEMMA AllAccounts ==
  ASSUME LedgerInv, Books, WorldBuilt
  PROVE  Cardinality(DOMAIN accounts) = Cardinality(Devices)
<1> DEFINE own == [d \in Devices |-> devices[d].account]
<1>1. IsFiniteSet(DOMAIN accounts) /\ Cardinality(DOMAIN accounts) <= Cardinality(Accounts)
  BY AccountsAssumption, FS_Subset DEF Books
<1>2. own \in Injection(Devices, DOMAIN accounts)
  <2>1. \A d \in Devices : devices[d].account \in DOMAIN accounts
    BY LedgerFacts DEF WorldBuilt
  <2>2. \A d, e \in Devices : devices[d].account = devices[e].account => d = e
    BY DEF LedgerInv, Owned, WorldBuilt
  <2> QED BY <2>1, <2>2 DEF Injection, IsInjective
<1>3. Cardinality(Devices) <= Cardinality(DOMAIN accounts)
  BY <1>1, <1>2, FS_Injection
<1> QED BY <1>1, <1>3, FuzzAssumption, FS_CardinalityType

\* Every check passes.
LEMMA ChecksPass ==
  ASSUME AuditInv, Check
  PROVE  call' = Idle /\ outcome' = outcome
<1>1. call.at = "returned" /\ call # Idle /\ WorldBuilt /\ Installed = Devices
  BY DEF Check, Idle, AuditInv, LedgerInv, CallInv, WorldFirst, WorldBuilt
<1>2. call.result # "Ok" => Snapshot = before
  BY <1>1, NoneReserved DEF AuditInv, Undone, NothingMoved
<1>3. \A d \in Devices : balance_cents[d] <= Limit /\ Reserved(d) = 0
  BY <1>1, NoneReserved, BalanceWithin DEF AuditInv
<1>4. Offline = balance_cents
  BY <1>1, LedgerFacts DEF AuditInv, InTransitAt, Offline
<1>5. SumFunction(balance_cents) = offline_float
  <2>1. SumFunction(Offline) \in Nat
    BY PurseNat DEF AuditInv, LedgerInv, Total
  <2> QED BY <1>1, <1>4, <2>1 DEF AuditInv, Float, OrderInHand
<1>6. SumFunction(accounts) + SumFunction(balance_cents) = Money
  BY <1>1, <1>5, AllAccounts DEF AuditInv, Books, Money
<1>7. CheckInvariants
  BY <1>3, <1>5, <1>6 DEF CheckInvariants
<1> QED BY <1>2, <1>7 DEF Check

-----------------------------------------------------------------------------
(* The books and the float. *)

\* Nothing is booked, and the elements' value stays what it is.
LEMMA NothingBooked ==
  ASSUME AuditInv, UNCHANGED <<accounts, offline_float, Offline>>,
         (OrderInHand)' = OrderInHand
  PROVE  Books' /\ Float'
BY DEF AuditInv, Books, Float, Opening

\* A move of value that leaves one side of the ledger alone.
LEMMA OfflineTotal ==
  ASSUME LedgerInv
  PROVE  /\ IsPurse(Offline) /\ SumFunction(Offline) \in Nat /\ DOMAIN Offline = Devices
         /\ \A d \in Devices : Offline[d] \in Nat
<1>1. IsPurse(Offline) /\ DOMAIN Offline = Devices
  BY DEF LedgerInv, Total, Offline
<1> QED BY <1>1, PurseNat DEF IsPurse

\* The accounts as a purse.
LEMMA AccountsTotal ==
  ASSUME LedgerInv, Books
  PROVE  IsPurse(accounts) /\ SumFunction(accounts) \in Nat /\ IsFiniteSet(DOMAIN accounts)
<1>1. IsFiniteSet(DOMAIN accounts)
  BY AccountsAssumption, FS_Subset DEF Books
<1>2. IsPurse(accounts)
  BY <1>1 DEF LedgerInv, Owned, IsPurse
<1> QED BY <1>1, <1>2, PurseNat

LEMMA OpenNextBooked ==
  ASSUME AuditInv, OpenNext
  PROVE  Books' /\ Float'
<1>1. PICK account \in Accounts \ DOMAIN accounts : OpenAccount(account, Opening)
  BY DEF OpenNext
<1>2. /\ accounts' = Insert(accounts, account, Opening)
      /\ DOMAIN accounts' = DOMAIN accounts \cup {account}
      /\ UNCHANGED <<offline_float, call>>
  BY <1>1 DEF OpenAccount, OpenNext, Insert
<1>3. Opening \in Nat
  <2>1. Limit \in Nat /\ MaxU64 \in Nat
    BY FuzzAssumption, U64Facts
  <2> QED BY <2>1 DEF Opening, Wrap
<1>4. SumFunction(accounts') = SumFunction(accounts) + Opening
  BY <1>1, <1>2, <1>3, AccountsTotal, PurseInsert DEF AuditInv
<1>5. /\ Cardinality(DOMAIN accounts') = Cardinality(DOMAIN accounts) + 1
      /\ Cardinality(DOMAIN accounts) \in Nat
  BY <1>1, <1>2, AccountsTotal, FS_AddElement, FS_CardinalityType DEF AuditInv
<1>6. SumFunction(accounts) \in Nat /\ SumFunction(Offline) \in Nat
  BY AccountsTotal, OfflineTotal DEF AuditInv
<1>7. offline_float = SumFunction(Offline)
  <2>1. call = Idle
    BY DEF OpenNext, AuditInv, LedgerInv, CallInv, WorldFirst
  <2> QED BY <1>6, <2>1 DEF AuditInv, Float, OrderInHand, Idle
<1>8. \A k \in Nat : Opening * (k + 1) = Opening * k + Opening /\ Opening * k \in Nat
  BY <1>3
<1>9. Opening * Cardinality(DOMAIN accounts') = Opening * Cardinality(DOMAIN accounts) + Opening
      /\ Opening * Cardinality(DOMAIN accounts) \in Nat
  BY <1>5, <1>8
<1>10. SumFunction(accounts') + offline_float' = Opening' * Cardinality(DOMAIN accounts')
  BY <1>2, <1>3, <1>4, <1>6, <1>7, <1>9 DEF AuditInv, Books, Opening
<1>11. Books'
  BY <1>1, <1>2, <1>10 DEF AuditInv, Books
<1>12. UNCHANGED Offline
  BY OpenNextUnseen DEF AuditInv
<1> QED BY <1>2, <1>11, <1>12 DEF AuditInv, Float, OrderInHand

LEMMA FundGrantedBooked ==
  ASSUME AuditInv, FundGranted
  PROVE  Books' /\ Float'
<1> DEFINE r == call.request
           a == r.amount_cents
           own == devices[r.device].account
           d == call.wallet
<1>1. /\ call.at = "fund_issuer" /\ call'.at = "fund_apply" /\ d \in Installed /\ r.device = d
      /\ accounts' = [accounts EXCEPT ![own] = @ - a] /\ offline_float' = offline_float + a
      /\ ~(accounts[own] < a)
  BY DEF FundGranted, IssuerFund, FundVerdict, AuditInv, LedgerInv, CallInv, InHand
<1>2. Cash!Fund(d, a)
  BY FundGrantedMoves DEF AuditInv
<1>3. /\ own \in DOMAIN accounts /\ accounts[own] \in Nat /\ a \in Nat /\ d \in Devices
  <2>1. Holds(pending_funding[d], r)
    BY <1>1 DEF AuditInv, LedgerInv, CallInv, InHand
  <2>2. a \in Nat
    BY <1>1, <2>1, RoomHeld DEF AuditInv, Holds
  <2> QED BY <1>1, <2>2, LedgerFacts DEF AuditInv
<1>4. SumFunction(accounts') = SumFunction(accounts) - accounts[own] + (accounts[own] - a)
  <2>1. accounts[own] - a \in Nat
    BY <1>1, <1>3
  <2> QED BY <1>1, <1>3, <2>1, AccountsTotal, PurseUpdate DEF AuditInv
<1>5. SumFunction(Offline') = SumFunction(Offline) - Offline[d] + (Offline[d] + a)
  <2> HIDE DEF a, d
  <2>1. Offline' = [Offline EXCEPT ![d] = Offline[d] + a]
    BY <1>2 DEF Cash!Fund
  <2>2. Offline[d] \in Nat /\ Offline[d] + a \in Nat
    BY <1>3, OfflineTotal DEF AuditInv
  <2> QED BY <1>3, <2>1, <2>2, OfflineTotal, PurseUpdate DEF AuditInv
<1>6. /\ SumFunction(accounts) \in Nat /\ SumFunction(Offline) \in Nat /\ Offline[d] \in Nat
  BY <1>3, AccountsTotal, OfflineTotal DEF AuditInv
<1>7. offline_float = SumFunction(Offline) /\ (OrderInHand)' = 0
  BY <1>1, <1>6 DEF AuditInv, Float, OrderInHand
<1>8. SumFunction(accounts') + offline_float' = SumFunction(accounts) + offline_float
  BY <1>1, <1>3, <1>4, <1>6, <1>7
<1>9. Books'
  BY <1>1, <1>8 DEF AuditInv, Books, Opening
<1>10. offline_float' = SumFunction(Offline')
  BY <1>1, <1>3, <1>5, <1>6, <1>7
<1>11. SumFunction(Offline') \in Nat
  BY FundGrantedMoves, PurseNat DEF AuditInv, LedgerInv, Total
<1>12. Float'
  BY <1>7, <1>10, <1>11 DEF Float
<1> QED BY <1>9, <1>12

LEMMA DefundOrderBooked ==
  ASSUME AuditInv, DefundOrder, Defund(call.wallet, call.amount),
         call' = [at |-> "defund_issuer", order |-> DefundingOf(call.wallet, call.amount)]
  PROVE  Books' /\ Float'
<1> DEFINE d == call.wallet
           a == call.amount
<1>1. /\ call.at = "defund" /\ d \in Installed /\ d \in Devices /\ a \in Nat
      /\ UNCHANGED <<accounts, offline_float>>
  BY LedgerFacts, U64Facts
     DEF DefundOrder, issuerVars, AuditInv, LedgerInv, CallInv, InHand
<1>2. Cash!Defund(d, a)
  BY DefundOrderMoves DEF AuditInv
<1>3. call'.at = "defund_issuer" /\ call'.order.amount_cents = a
  BY DEF DefundingOf, SignedDefunding
<1>4. SumFunction(Offline') = SumFunction(Offline) - Offline[d] + (Offline[d] - a)
  <2> HIDE DEF a, d
  <2>1. Offline' = [Offline EXCEPT ![d] = Offline[d] - a] /\ a <= Offline[d]
    BY <1>2 DEF Cash!Defund
  <2>2. Offline[d] \in Nat
    BY <1>1, OfflineTotal DEF AuditInv
  <2>3. Offline[d] - a \in Nat
    BY <1>1, <2>1, <2>2
  <2> QED BY <1>1, <2>1, <2>3, OfflineTotal, PurseUpdate DEF AuditInv
<1>5. SumFunction(Offline) \in Nat /\ Offline[d] \in Nat
  BY <1>1, OfflineTotal DEF AuditInv
<1>6. offline_float = SumFunction(Offline) /\ (OrderInHand)' = a
  BY <1>1, <1>3, <1>5 DEF AuditInv, Float, OrderInHand
<1>7. offline_float' = SumFunction(Offline') + a
  BY <1>1, <1>4, <1>5, <1>6
<1>8. Books'
  BY <1>1 DEF AuditInv, Books, Opening
<1> QED BY <1>6, <1>7, <1>8 DEF Float

LEMMA DefundCreditBooked ==
  ASSUME AuditInv, DefundCredit, Money <= MaxU64
  PROVE  Books' /\ Float'
<1> DEFINE o == call.order
           d == o.device
           a == o.amount_cents
           own == devices[d].account
<1>1. /\ call.at = "defund_issuer" /\ d \in Installed /\ a \in Nat /\ IssuerDefund(o)
      /\ call'.at = "returned" /\ Installed = Devices
  BY LedgerFacts
     DEF DefundCredit, Return, AuditInv, LedgerInv, CallInv, InHand, AmountInHand
<1>2. /\ accounts' = [accounts EXCEPT ![own] = Wrap(accounts[own] + a)]
      /\ offline_float' = offline_float - a
  BY <1>1 DEF IssuerDefund
<1>3. /\ own \in DOMAIN accounts /\ accounts[own] \in Nat /\ d \in Devices
  BY <1>1, LedgerFacts DEF AuditInv
<1>4. Wrap(accounts[own] + a) = accounts[own] + a
  <2>1. Online[d] = accounts[own] + a /\ DOMAIN Online = Devices
    BY <1>1 DEF Online, ToAccount
  <2>2. Online[d] <= SumFunction(Online) /\ SumFunction(Online) \in Nat
    BY <1>3, <2>1, EntryWithin, PurseNat DEF AuditInv, LedgerInv, Total
  <2>3. SumFunction(Offline) \in Nat /\ SumFunction(Online) + SumFunction(Offline) = Money
    BY OfflineTotal DEF AuditInv, LedgerInv, Total
  <2>4. accounts[own] + a <= MaxU64
    BY <1>1, <1>3, <2>1, <2>2, <2>3, U64Facts
  <2> QED BY <1>1, <1>3, <2>4, U64Facts
<1>5. SumFunction(accounts') = SumFunction(accounts) - accounts[own] + (accounts[own] + a)
  <2>1. accounts[own] + a \in Nat
    BY <1>1, <1>3
  <2> QED BY <1>2, <1>3, <1>4, <2>1, AccountsTotal, PurseUpdate DEF AuditInv
<1>6. SumFunction(accounts) \in Nat /\ SumFunction(Offline) \in Nat
  BY AccountsTotal, OfflineTotal DEF AuditInv
<1>7. offline_float = SumFunction(Offline) + a /\ (OrderInHand)' = 0
  BY <1>1 DEF AuditInv, Float, OrderInHand
<1>8. SumFunction(accounts') + offline_float' = SumFunction(accounts) + offline_float
  BY <1>1, <1>2, <1>3, <1>5, <1>6, <1>7
<1>9. Books'
  BY <1>2, <1>8 DEF AuditInv, Books, Opening
<1>10. UNCHANGED Offline
  BY DefundCreditCredits DEF AuditInv
<1>11. offline_float' = SumFunction(Offline') + 0
  BY <1>1, <1>2, <1>6, <1>7, <1>10
<1>12. Float'
  BY <1>7, <1>11 DEF Float
<1> QED BY <1>9, <1>12

LEMMA PayPaidBooked ==
  ASSUME AuditInv, PayPaid
  PROVE  Books' /\ Float'
<1>1. /\ call.at = "pay_payer" /\ call'.at = "pay_payee" /\ UNCHANGED <<accounts, offline_float>>
      /\ (OrderInHand)' = OrderInHand
  BY DEF PayPaid, issuerVars, OrderInHand
<1>2. UNCHANGED Online /\ Total'
  BY PayPaidMoves DEF AuditInv, LedgerInv, Cash!Pay
<1>3. SumFunction(Offline') = SumFunction(Offline)
  <2>1. /\ SumFunction(Online) \in Nat /\ SumFunction(Offline) \in Nat
        /\ SumFunction(Online) + SumFunction(Offline) = Money
    BY PurseNat DEF AuditInv, LedgerInv, Total
  <2>2. /\ SumFunction(Offline') \in Nat /\ SumFunction(Online') + SumFunction(Offline') = Money
    BY <1>2, PurseNat DEF Total, Money, Opening
  <2> QED BY <1>2, <2>1, <2>2
<1> QED BY <1>1, <1>3 DEF AuditInv, Books, Float, Opening

\* Every step keeps the books, and the float in step with the elements.
LEMMA BooksKept ==
  ASSUME AuditInv, [Next]_fuzzVars, Money <= MaxU64
  PROVE  Books' /\ Float'
<1>1. CASE FundRequest \/ FundRefused \/ PayRequest \/ PayRefused \/ Draw \/ Check
  <2>1. call.at # "defund_issuer" /\ call'.at # "defund_issuer" /\ UNCHANGED <<accounts, offline_float>>
    BY <1>1 DEF FundRequest, FundRefused, PayRequest, PayRefused, Draw, Check, Return, Idle,
                issuerVars
  <2> QED BY <1>1, <2>1, RequestsMoveNothing, NothingBooked DEF AuditInv, OrderInHand
<1>2. CASE DefundOrder
  <2>1. CASE Defund(call.wallet, call.amount) /\
             call' = [at |-> "defund_issuer", order |-> DefundingOf(call.wallet, call.amount)]
    BY <1>2, <2>1, DefundOrderBooked
  <2>2. CASE UNCHANGED walletVars /\ Return(DebitVerdict(call.wallet, call.amount))
    BY <1>2, <2>2, RequestsMoveNothing, NothingBooked
       DEF DefundOrder, Return, issuerVars, AuditInv, OrderInHand
  <2> QED BY <1>2, <2>1, <2>2 DEF DefundOrder
<1>3. CASE FundGranted
  BY <1>3, FundGrantedBooked
<1>4. CASE PayPaid
  BY <1>4, PayPaidBooked
<1>5. CASE FundApply
  BY <1>5, FundApplyCredits, NothingBooked
     DEF FundApply, Return, issuerVars, AuditInv, OrderInHand
<1>6. CASE DefundCredit
  BY <1>6, DefundCreditBooked
<1>7. CASE PayReceive
  BY <1>7, PayReceiveCredits, NothingBooked
     DEF PayReceive, Return, issuerVars, AuditInv, OrderInHand
<1>8. CASE OpenNext
  BY <1>8, OpenNextBooked
<1>9. CASE EnrolNext
  BY <1>9, EnrolNextUnseen, NothingBooked
     DEF EnrolNext, Enrol, CertifyDevice, AuditInv, OrderInHand
<1>10. CASE Pass \/ UNCHANGED fuzzVars
  BY <1>10, LedgerStutter, NothingBooked
     DEF Pass, fuzzVars, callVars, issuerVars, AuditInv, OrderInHand
<1> QED
  BY <1>1, <1>2, <1>3, <1>4, <1>5, <1>6, <1>7, <1>8, <1>9, <1>10 DEF Next, Run, CallStep

-----------------------------------------------------------------------------
(* The one reservation. *)

\* A step outside a call, or of a call that reserves nothing, leaves none behind.
LEMMA NoReservation ==
  ASSUME AuditInv, UNCHANGED <<incoming, pending_funding>>,
         call.at \notin {"fund_issuer", "fund_apply", "pay_payer", "pay_payee"}
  PROVE  OneReservation'
<1>1. \A d \in Devices : PaymentInHand(d) = {} /\ FundingInHand(d) = {}
  BY DEF PaymentInHand, FundingInHand
<1> QED BY <1>1 DEF AuditInv, OneReservation

\* A reservation of room for a payment or a funding.
LEMMA ReservationOpened ==
  ASSUME AuditInv, FundRequest \/ PayRequest
  PROVE  OneReservation'
<1>1. /\ incoming = [d \in Devices |-> incoming[d]]
      /\ pending_funding = [d \in Devices |-> pending_funding[d]]
  BY DEF AuditInv, LedgerInv, CallInv, WalletInv, WalletTypeOK
<1>2. CASE UNCHANGED walletVars
  BY <1>2, NoReservation DEF FundRequest, PayRequest, walletVars
<1>3. \A d \in Devices : DOMAIN incoming[d] = {} /\ DOMAIN pending_funding[d] = {}
  BY DEF FundRequest, PayRequest, AuditInv, OneReservation, PaymentInHand, FundingInHand
<1>4. CASE /\ FundRequest /\ RequestFunding(call.wallet, call.amount)
           /\ call' = [at |-> "fund_issuer", wallet |-> call.wallet,
                       request |-> FundingRequestOf(call.wallet, call.amount)]
  <2> DEFINE d == call.wallet
  <2>1. /\ UNCHANGED incoming
        /\ pending_funding' = [pending_funding EXCEPT ![d] = Insert(@, NextNonce(d), call.amount)]
    BY <1>4 DEF RequestFunding
  <2>2. call'.request.nonce = NextNonce(d)
    BY <1>4 DEF FundingRequestOf, SignedFundingRequest
  <2>3. \A e \in Devices : DOMAIN pending_funding'[e] \subseteq IF e = d THEN {NextNonce(d)} ELSE {}
    BY <1>1, <1>3, <2>1 DEF Insert
  <2>4. \A e \in Devices : FundingInHand(e)' = IF e = d THEN {NextNonce(d)} ELSE {}
    BY <1>4, <2>2 DEF FundingInHand
  <2> QED BY <1>3, <2>1, <2>3, <2>4 DEF OneReservation
<1>5. CASE /\ PayRequest /\ RequestPayment(call.payee, call.amount)
           /\ call' = [at |-> "pay_payer", payer |-> call.payer, payee |-> call.payee,
                       request |-> PaymentRequestOf(call.payee, call.amount)]
  <2> DEFINE d == call.payee
  <2>1. /\ UNCHANGED pending_funding
        /\ incoming' = [incoming EXCEPT ![d] = Insert(@, NextNonce(d), call.amount)]
    BY <1>5 DEF RequestPayment
  <2>2. call'.request.nonce = NextNonce(d)
    BY <1>5 DEF PaymentRequestOf
  <2>3. \A e \in Devices : DOMAIN incoming'[e] \subseteq IF e = d THEN {NextNonce(d)} ELSE {}
    BY <1>1, <1>3, <2>1 DEF Insert
  <2>4. \A e \in Devices : PaymentInHand(e)' = IF e = d THEN {NextNonce(d)} ELSE {}
    BY <1>5, <2>2 DEF PaymentInHand
  <2> QED BY <1>3, <2>1, <2>3, <2>4 DEF OneReservation
<1> QED BY <1>2, <1>4, <1>5 DEF FundRequest, PayRequest

\* The reservation goes with the refusal, or with the credit it was for.
LEMMA ReservationClosed ==
  ASSUME AuditInv, FundRefused \/ FundApply \/ PayRefused \/ PayReceive
  PROVE  OneReservation'
<1>1. /\ incoming = [d \in Devices |-> incoming[d]]
      /\ pending_funding = [d \in Devices |-> pending_funding[d]]
  BY DEF AuditInv, LedgerInv, CallInv, WalletInv, WalletTypeOK
<1>2. CASE FundRefused \/ FundApply
  <2> DEFINE nonce == IF call.at = "fund_issuer" THEN call.request.nonce ELSE call.funding.nonce
  <2>1. /\ UNCHANGED incoming
        /\ pending_funding' = [pending_funding EXCEPT ![call.wallet] = Remove(@, nonce)]
        /\ \A d \in Devices : FundingInHand(d) = IF d = call.wallet THEN {nonce} ELSE {}
    <3>1. CASE FundRefused
      BY <3>1 DEF FundRefused, CancelFunding, FundingInHand
    <3>2. CASE FundApply
      <4>1. call.at = "fund_apply" /\ nonce = call.funding.nonce /\ ApplyFunding(call.wallet, call.funding)
        BY <3>2 DEF FundApply, AuditInv, LedgerInv, CallInv, InHand
      <4> QED BY <4>1 DEF ApplyFunding, FundingInHand
    <3> QED BY <1>2, <3>1, <3>2
  <2>2. \A d \in Devices : PaymentInHand(d) = {}
    BY <1>2 DEF FundRefused, FundApply, PaymentInHand
  <2> HIDE DEF nonce
  <2>3. ASSUME NEW d \in Devices
        PROVE  DOMAIN pending_funding'[d] = {} /\ DOMAIN incoming'[d] = {}
    <3>1. DOMAIN incoming'[d] = {}
      BY <2>1, <2>2 DEF AuditInv, OneReservation
    <3>2. pending_funding'[d] = IF d = call.wallet THEN Remove(pending_funding[d], nonce) ELSE pending_funding[d]
      BY <1>1, <2>1
    <3>3. DOMAIN pending_funding[d] \subseteq IF d = call.wallet THEN {nonce} ELSE {}
      BY <2>1 DEF AuditInv, OneReservation
    <3>4. DOMAIN Remove(pending_funding[d], nonce) = DOMAIN pending_funding[d] \ {nonce}
      BY RemoveIs
    <3> QED BY <3>1, <3>2, <3>3, <3>4
  <2> QED BY <2>3 DEF OneReservation
<1>3. CASE PayRefused \/ PayReceive
  <2> DEFINE nonce == IF call.at = "pay_payer" THEN call.request.nonce ELSE call.transfer.nonce
  <2>1. /\ UNCHANGED pending_funding
        /\ incoming' = [incoming EXCEPT ![call.payee] = Remove(@, nonce)]
        /\ \A d \in Devices : PaymentInHand(d) = IF d = call.payee THEN {nonce} ELSE {}
    <3>1. CASE PayRefused
      BY <3>1 DEF PayRefused, CancelRequest, PaymentInHand
    <3>2. CASE PayReceive
      <4>1. call.at = "pay_payee" /\ nonce = call.transfer.nonce /\ Receive(call.payee, call.transfer)
        BY <3>2 DEF PayReceive, AuditInv, LedgerInv, CallInv, InHand
      <4> QED BY <4>1 DEF Receive, PaymentInHand
    <3> QED BY <1>3, <3>1, <3>2
  <2>2. \A d \in Devices : FundingInHand(d) = {}
    BY <1>3 DEF PayRefused, PayReceive, FundingInHand
  <2> HIDE DEF nonce
  <2>3. ASSUME NEW d \in Devices
        PROVE  DOMAIN incoming'[d] = {} /\ DOMAIN pending_funding'[d] = {}
    <3>1. DOMAIN pending_funding'[d] = {}
      BY <2>1, <2>2 DEF AuditInv, OneReservation
    <3>2. incoming'[d] = IF d = call.payee THEN Remove(incoming[d], nonce) ELSE incoming[d]
      BY <1>1, <2>1
    <3>3. DOMAIN incoming[d] \subseteq IF d = call.payee THEN {nonce} ELSE {}
      BY <2>1 DEF AuditInv, OneReservation
    <3>4. DOMAIN Remove(incoming[d], nonce) = DOMAIN incoming[d] \ {nonce}
      BY RemoveIs
    <3> QED BY <3>1, <3>2, <3>3, <3>4
  <2> QED BY <2>3 DEF OneReservation
<1> QED BY <1>2, <1>3

\* The other side agrees: its message carries the nonce of the request.
LEMMA ReservationHandedOn ==
  ASSUME AuditInv, FundGranted \/ PayPaid
  PROVE  OneReservation'
<1>1. CASE FundGranted
  <2>1. /\ call.at = "fund_issuer" /\ call'.at = "fund_apply" /\ call'.wallet = call.wallet
        /\ call'.funding.nonce = call.request.nonce /\ UNCHANGED walletVars
    BY <1>1 DEF FundGranted, FundingOf, SignedFunding
  <2>2. \A d \in Devices : /\ FundingInHand(d)' = FundingInHand(d)
                           /\ PaymentInHand(d)' = PaymentInHand(d)
    BY <2>1 DEF FundingInHand, PaymentInHand
  <2> QED BY <2>1, <2>2 DEF AuditInv, OneReservation, walletVars
<1>2. CASE PayPaid
  <2>1. /\ call.at = "pay_payer" /\ call'.at = "pay_payee" /\ call'.payee = call.payee
        /\ call'.transfer.nonce = call.request.nonce /\ UNCHANGED <<incoming, pending_funding>>
    BY <1>2 DEF PayPaid, TransferOf, SignedTransfer, Pay
  <2>2. \A d \in Devices : /\ FundingInHand(d)' = FundingInHand(d)
                           /\ PaymentInHand(d)' = PaymentInHand(d)
    BY <2>1 DEF FundingInHand, PaymentInHand
  <2> QED BY <2>1, <2>2 DEF AuditInv, OneReservation
<1> QED BY <1>1, <1>2

\* Every step keeps the one reservation to the request in hand.
LEMMA OneReservationKept ==
  ASSUME AuditInv, [Next]_fuzzVars
  PROVE  OneReservation'
<1>1. CASE FundRequest \/ PayRequest
  BY <1>1, ReservationOpened
<1>2. CASE FundGranted \/ PayPaid
  BY <1>2, ReservationHandedOn
<1>3. CASE FundRefused \/ FundApply \/ PayRefused \/ PayReceive
  BY <1>3, ReservationClosed
<1>4. CASE DefundOrder \/ DefundCredit
  BY <1>4, NoReservation DEF DefundOrder, DefundCredit, Defund, walletVars
<1>5. CASE OpenNext \/ Draw \/ Check
  BY <1>5, NoReservation
     DEF OpenNext, Draw, Check, walletVars, Idle, AuditInv, LedgerInv, CallInv, WorldFirst
<1>6. CASE EnrolNext
  <2>1. PICK d \in Devices, account \in Deviceless : Enrol(d, account, Limit)
    BY <1>6 DEF EnrolNext
  <2> DEFINE c == SignedCertificate(d, d, Limit, IssuerKey)
  <2>2. Install(c, d, IssuerKey) /\ UNCHANGED call /\ c.device = d
    BY <2>1 DEF Enrol, SignedCertificate
  <2> HIDE DEF c
  <2>3. /\ incoming' = [incoming EXCEPT ![d] = NoEntries]
        /\ pending_funding' = [pending_funding EXCEPT ![d] = NoEntries]
        /\ incoming = [e \in Devices |-> incoming[e]]
        /\ pending_funding = [e \in Devices |-> pending_funding[e]]
    BY <2>2 DEF Install, AuditInv, LedgerInv, CallInv, WalletInv, WalletTypeOK
  <2>4. \A e \in Devices : /\ DOMAIN incoming'[e] \subseteq DOMAIN incoming[e]
                           /\ DOMAIN pending_funding'[e] \subseteq DOMAIN pending_funding[e]
    BY <2>3 DEF NoEntries
  <2>5. \A e \in Devices : /\ FundingInHand(e)' = FundingInHand(e)
                           /\ PaymentInHand(e)' = PaymentInHand(e)
    BY <2>2 DEF FundingInHand, PaymentInHand
  <2> QED BY <2>4, <2>5 DEF AuditInv, OneReservation
<1>7. CASE Pass \/ UNCHANGED fuzzVars
  BY <1>7 DEF Pass, fuzzVars, callVars, walletVars, AuditInv, OneReservation,
              PaymentInHand, FundingInHand
<1> QED BY <1>1, <1>2, <1>3, <1>4, <1>5, <1>6, <1>7 DEF Next, Run, CallStep

-----------------------------------------------------------------------------
(* What a refused call leaves behind. *)

\* A call that has not moved anything has changed nothing but its reservation.
LEMMA UndoneKept ==
  ASSUME AuditInv, [Next]_fuzzVars
  PROVE  Undone'
<1>1. ASSUME NothingMoved, UNCHANGED <<before, certificate, balance_cents, accounts, offline_float>>
      PROVE  Undone'
  BY <1>1 DEF AuditInv, Undone, Unreserved, Installed
<1>2. CASE Run
  <2>1. CASE FundRequest \/ FundRefused \/ PayRequest \/ PayRefused
    BY <1>1, <1>2, <2>1
       DEF Run, FundRequest, RequestFunding, FundRefused, CancelFunding, PayRequest,
           RequestPayment, PayRefused, CancelRequest, walletVars, issuerVars, NothingMoved
  <2>2. CASE DefundOrder
    <3>1. CASE UNCHANGED walletVars
      BY <1>1, <1>2, <2>2, <3>1 DEF Run, DefundOrder, walletVars, issuerVars, NothingMoved
    <3>2. CASE call'.at = "defund_issuer"
      BY <3>2 DEF Undone, NothingMoved
    <3> QED BY <2>2, <3>1, <3>2 DEF DefundOrder
  <2>3. CASE FundGranted \/ PayPaid
    <3>1. call'.at \in {"fund_apply", "pay_payee"}
      BY <2>3 DEF FundGranted, PayPaid
    <3> QED BY <3>1 DEF Undone, NothingMoved
  <2>4. CASE FundApply \/ DefundCredit \/ PayReceive
    <3>1. call'.at = "returned" /\ call'.result = "Ok"
      BY <2>4, FundApplyKept, DefundCreditKept, PayReceiveKept
         DEF AuditInv, LedgerInv, FundApply, DefundCredit, PayReceive, Return
    <3> QED BY <3>1 DEF Undone, NothingMoved
  <2> QED BY <1>2, <2>1, <2>2, <2>3, <2>4 DEF Run, CallStep
<1>3. CASE Draw
  <2>1. /\ call.at = "idle" /\ before' = Snapshot
        /\ UNCHANGED <<certificate, balance_cents, accounts, offline_float>>
    BY <1>3 DEF Draw, Idle, walletVars, issuerVars
  <2>2. Snapshot = Unreserved
    BY <2>1, NoneReserved
  <2> QED BY <2>1, <2>2 DEF Undone, Unreserved, Installed
<1>4. CASE OpenNext \/ EnrolNext \/ Check
  <2>1. CASE ~WorldBuilt /\ UNCHANGED call
    BY <2>1 DEF AuditInv, LedgerInv, CallInv, WorldFirst, Undone, NothingMoved, Idle
  <2>2. CASE EnrolNext
    <3>1. PICK d \in Devices, account \in Deviceless : Enrol(d, account, Limit)
      BY <2>2 DEF EnrolNext
    <3>2. SignedCertificate(d, d, Limit, IssuerKey).device = d
      BY DEF SignedCertificate
    <3>3. d \notin Installed /\ UNCHANGED call
      BY <3>1, <3>2 DEF Enrol, Install
    <3> QED BY <2>1, <3>3 DEF WorldBuilt
  <2>3. CASE Check
    <3>1. call' = Idle
      BY <2>3, ChecksPass
    <3> QED BY <3>1 DEF Undone, NothingMoved, Idle
  <2> QED BY <1>4, <2>1, <2>2, <2>3 DEF OpenNext
<1>5. CASE Pass \/ UNCHANGED fuzzVars
  BY <1>5 DEF Pass, fuzzVars, callVars, walletVars, issuerVars, AuditInv, Undone, NothingMoved,
              Unreserved, Installed
<1> QED BY <1>2, <1>3, <1>4, <1>5 DEF Next

-----------------------------------------------------------------------------

LEMMA AuditInitOK ==
  ASSUME Init
  PROVE  AuditInv
<1>1. /\ LedgerInv /\ Cash!Init
  BY LedgerInitOK
<1>2. /\ accounts = NoEntries /\ offline_float = 0 /\ call = Idle /\ outcome = "running"
      /\ \A d \in Devices : DOMAIN incoming[d] = {} /\ DOMAIN pending_funding[d] = {}
  BY DEF Init, WalletInit, IssuerInit, NoEntries
<1>3. Books
  <2>1. DOMAIN accounts = {} /\ SumFunction(accounts) = 0 /\ Opening \in Nat
    <3>1. Limit \in Nat /\ MaxU64 \in Nat
      BY FuzzAssumption, U64Facts
    <3> QED BY <1>2, <3>1, PurseEmpty DEF NoEntries, Opening, Wrap
  <2> QED BY <1>2, <2>1, FS_EmptySet DEF Books
<1>4. Float
  BY <1>1, <1>2, FuzzAssumption, PurseOfNothing DEF Cash!Init, Float, OrderInHand, Idle
<1>5. OneReservation /\ Undone /\ FindsNothing
  BY <1>2 DEF OneReservation, Undone, NothingMoved, Idle, FindsNothing
<1> QED BY <1>1, <1>3, <1>4, <1>5 DEF AuditInv

LEMMA AuditStepKept ==
  ASSUME AuditInv, [Next]_fuzzVars, Money <= MaxU64
  PROVE  AuditInv'
<1>1. LedgerInv'
  BY LedgerStepKept DEF AuditInv
<1>2. FindsNothing'
  <2>1. CASE Check
    BY <2>1, ChecksPass DEF AuditInv, FindsNothing
  <2>2. CASE ~Check
    BY <2>2 DEF AuditInv, FindsNothing, Next, OpenNext, EnrolNext, Draw, Run, Pass, fuzzVars
  <2> QED BY <2>1, <2>2
<1> QED BY <1>1, <1>2, BooksKept, OneReservationKept, UndoneKept DEF AuditInv

\* For any number of devices and calls, whatever is drawn: a refused call leaves every
\* balance, reservation and account as it was, no element is ever over its limit or left
\* with a reservation, the elements hold the issuer's float, and online and offline
\* money add up to what there was, if that fits in a u64 (main.rs, run_fuzz and
\* check_invariants).
THEOREM FuzzFindsNothing ==
  ASSUME Money <= MaxU64
  PROVE  Spec => []FindsNothing
<1>1. Init => AuditInv
  BY AuditInitOK
<1>2. AuditInv /\ [Next]_fuzzVars => AuditInv'
  BY AuditStepKept
<1>3. AuditInv => FindsNothing
  BY DEF AuditInv
<1> QED BY <1>1, <1>2, <1>3, PTL DEF Spec

===============================================================================
