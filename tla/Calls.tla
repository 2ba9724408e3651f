-------------------------------- MODULE Calls --------------------------------
(***************************************************************************)
(* The library's calls (lib.rs): each runs one operation of an element or  *)
(* of the issuer after the other, and undoes a reservation when a later    *)
(* one refuses.  A call holds &mut references to everything it works on,   *)
(* so nothing else runs before it returns; its steps are separate because  *)
(* each leaves the parties in a state of its own.                          *)
(***************************************************************************)
EXTENDS Wallet, Issuer

VARIABLES call      \* where the call in progress is, and its locals

callVars == <<walletVars, issuerVars, call>>

Return(result) == call' = [at |-> "returned", result |-> result]

-----------------------------------------------------------------------------

\* A fresh key, its certificate, and the element they are installed on.
Enrol(d, account, limit) ==
  /\ CertifyDevice(d, account, d)
  /\ Install(SignedCertificate(d, d, limit, IssuerKey), d, IssuerKey)
  /\ UNCHANGED call

-----------------------------------------------------------------------------

FundRequest ==
  /\ call.at = "fund"
  /\ LET d == call.wallet
         verdict == ReserveVerdict(d, call.amount)
     IN  \/ /\ RequestFunding(d, call.amount)
            /\ call' = [at |-> "fund_issuer", wallet |-> d,
                        request |-> FundingRequestOf(d, call.amount)]
         \/ /\ verdict # "Ok"
            /\ Return(verdict)
            /\ UNCHANGED walletVars
  /\ UNCHANGED issuerVars

FundGranted ==
  /\ call.at = "fund_issuer"
  /\ IssuerFund(call.request)
  /\ call' = [at |-> "fund_apply", wallet |-> call.wallet, funding |-> FundingOf(call.request)]
  /\ UNCHANGED walletVars

\* Mutant: the refusal is passed on and the reservation left behind.
FundRefusedReserved ==
  /\ call.at = "fund_issuer"
  /\ FundVerdict(call.request) # "Ok"
  /\ Return(FundVerdict(call.request))
  /\ UNCHANGED <<walletVars, issuerVars>>

FundRefused ==
  /\ call.at = "fund_issuer"
  /\ FundVerdict(call.request) # "Ok"
  /\ CancelFunding(call.wallet, call.request.nonce)
  /\ Return(FundVerdict(call.request))
  /\ UNCHANGED issuerVars

FundApply ==
  /\ call.at = "fund_apply"
  /\ LET verdict == ApplyVerdict(call.wallet, call.funding)
     IN  /\ IF verdict = "Ok" THEN ApplyFunding(call.wallet, call.funding)
                              ELSE UNCHANGED walletVars
         /\ Return(verdict)
  /\ UNCHANGED issuerVars

-----------------------------------------------------------------------------

DefundOrder ==
  /\ call.at = "defund"
  /\ LET d == call.wallet
         verdict == DebitVerdict(d, call.amount)
     IN  \/ /\ Defund(d, call.amount)
            /\ call' = [at |-> "defund_issuer", order |-> DefundingOf(d, call.amount)]
         \/ /\ verdict # "Ok"
            /\ Return(verdict)
            /\ UNCHANGED walletVars
  /\ UNCHANGED issuerVars

DefundCredit ==
  /\ call.at = "defund_issuer"
  /\ LET verdict == DefundVerdict(call.order)
     IN  /\ IF verdict = "Ok" THEN IssuerDefund(call.order) ELSE UNCHANGED issuerVars
         /\ Return(verdict)
  /\ UNCHANGED walletVars

-----------------------------------------------------------------------------

PayRequest ==
  /\ call.at = "pay"
  /\ LET verdict == ReserveVerdict(call.payee, call.amount)
     IN  \/ /\ RequestPayment(call.payee, call.amount)
            /\ call' = [at |-> "pay_payer", payer |-> call.payer, payee |-> call.payee,
                        request |-> PaymentRequestOf(call.payee, call.amount)]
         \/ /\ verdict # "Ok"
            /\ Return(verdict)
            /\ UNCHANGED walletVars
  /\ UNCHANGED issuerVars

PayPaid ==
  /\ call.at = "pay_payer"
  /\ Pay(call.payer, call.request)
  /\ call' = [at |-> "pay_payee", payee |-> call.payee,
              transfer |-> TransferOf(call.payer, call.request)]
  /\ UNCHANGED issuerVars

\* Mutant: asks again until the payer agrees.
PayRefusedRetried ==
  /\ call.at = "pay_payer"
  /\ PayVerdict(call.payer, call.request) # "Ok"
  /\ CancelRequest(call.payee, call.request.nonce)
  /\ call' = [at |-> "pay", payer |-> call.payer, payee |-> call.payee,
              amount |-> call.request.amount_cents]
  /\ UNCHANGED issuerVars

PayRefused ==
  /\ call.at = "pay_payer"
  /\ PayVerdict(call.payer, call.request) # "Ok"
  /\ CancelRequest(call.payee, call.request.nonce)
  /\ Return(PayVerdict(call.payer, call.request))
  /\ UNCHANGED issuerVars

PayReceive ==
  /\ call.at = "pay_payee"
  /\ LET verdict == ReceiveVerdict(call.payee, call.transfer)
     IN  /\ IF verdict = "Ok" THEN Receive(call.payee, call.transfer)
                              ELSE UNCHANGED walletVars
         /\ Return(verdict)
  /\ UNCHANGED issuerVars

-----------------------------------------------------------------------------

CallStep ==
  \/ FundRequest \/ FundGranted \/ FundRefused \/ FundApply
  \/ DefundOrder \/ DefundCredit
  \/ PayRequest \/ PayPaid \/ PayRefused \/ PayReceive

=============================================================================
