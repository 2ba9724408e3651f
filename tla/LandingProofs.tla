---------------------------- MODULE LandingProofs ----------------------------
(***************************************************************************)
(* What is debited can be credited, and room is held for the requests that *)
(* are open and for nothing else; so the circuit implements the notes.     *)
(*                                                                         *)
(* EuroInv says what a nonce that was credited or cancelled is no longer.  *)
(* LandingInv adds the converse: a request that was neither is still open, *)
(* and whatever is open, granted or last seen was asked for or sent.       *)
(***************************************************************************)
EXTENDS OfflineEuroProofs

-----------------------------------------------------------------------------
(* The invariant. *)

\* A payment request made is open, cancelled, or credited.
PaymentsKept ==
  \A r \in requests :
    \/ /\ r.nonce \in DOMAIN incoming[r.payee.device]
       /\ incoming[r.payee.device][r.nonce] = r.amount_cents
    \/ r.nonce \in abandoned[r.payee.device]
    \/ \E t \in received : t.payee = r.payee.device /\ t.nonce = r.nonce

\* So is a funding request, and the element that made it is there.
FundingsKept ==
  \A r \in funding_requests :
    /\ r.device \in Installed
    /\ \/ /\ r.nonce \in DOMAIN pending_funding[r.device]
          /\ pending_funding[r.device][r.nonce] = r.amount_cents
       \/ r.nonce \in abandoned[r.device]
       \/ \E f \in applied : f.device = r.device /\ f.nonce = r.nonce

\* Nothing is open that was not asked for.
Asked ==
  \A d \in Installed :
    /\ \A n \in DOMAIN incoming[d] :
         \E r \in requests : /\ r.payee.device = d /\ r.nonce = n
                             /\ r.amount_cents = incoming[d][n]
    /\ \A n \in DOMAIN pending_funding[d] :
         \E r \in funding_requests : /\ r.device = d /\ r.nonce = n
                                     /\ r.amount_cents = pending_funding[d][n]

\* A funding answers a request that was made, and is the only one that does.
Granted ==
  /\ \A f \in fundings :
       \E r \in funding_requests : /\ r.device = f.device /\ r.nonce = f.nonce
                                   /\ r.amount_cents = f.amount_cents
  /\ \A f, g \in fundings : f.device = g.device /\ f.nonce = g.nonce => f = g

\* The counter the issuer saw last is that of an order it credited.
LastSeen ==
  \A d \in DOMAIN devices :
    \/ devices[d].last_defunding_counter = 0
    \/ \E o \in cashed : o.device = d /\ o.counter = devices[d].last_defunding_counter

LandingInv == PaymentsKept /\ FundingsKept /\ Asked /\ Granted /\ LastSeen

-----------------------------------------------------------------------------
(* Steps that leave requests, fundings and reservations alone. *)

\* The steps of payers and account holders do.
LEMMA LandingStutterKept ==
  ASSUME LandingInv,
         UNCHANGED <<requests, funding_requests, fundings, received, applied, cashed, abandoned,
                     certificate, incoming, pending_funding, devices>>
  PROVE  LandingInv'
BY DEF LandingInv, PaymentsKept, FundingsKept, Asked, Granted, LastSeen, Installed

\* A new element has no reservations, and no request was made by it.
LEMMA EnrolLanding ==
  ASSUME EuroInv, LandingInv, NEW d \in Devices, NEW account \in Accounts, NEW limit \in Limits,
         Enrol(d, account, limit)
  PROVE  LandingInv'
<1> DEFINE c == SignedCertificate(d, d, limit, IssuerKey)
<1>1. /\ CertifyDevice(d, account, d) /\ Install(c, d, IssuerKey)
      /\ UNCHANGED <<network, lost, history>>
  BY DEF Enrol
<1>2. c.device = d
  BY DEF SignedCertificate
<1> HIDE DEF c
<1>3. /\ certificate' = Insert(certificate, d, c) /\ d \notin Installed
      /\ incoming' = [incoming EXCEPT ![d] = NoEntries]
      /\ pending_funding' = [pending_funding EXCEPT ![d] = NoEntries]
  BY <1>1, <1>2 DEF Install
<1>4. /\ devices' = Insert(devices, d, [account |-> account, public_key |-> d,
                                        last_defunding_counter |-> 0])
      /\ UNCHANGED <<requests, funding_requests, fundings, received, applied, cashed, abandoned>>
  BY <1>1 DEF CertifyDevice, network, history
<1>5. (Installed)' = Installed \cup {d}
  BY <1>3 DEF Installed, Insert
<1>6. /\ \A e \in Installed : incoming'[e] = incoming[e] /\ pending_funding'[e] = pending_funding[e]
      /\ DOMAIN incoming'[d] = {} /\ DOMAIN pending_funding'[d] = {}
  BY <1>3 DEF EuroInv, WalletInv, WalletTypeOK, NoEntries
<1>7. /\ DOMAIN devices' = DOMAIN devices \cup {d} /\ devices'[d].last_defunding_counter = 0
      /\ \A e \in Installed : devices'[e] = devices[e]
  BY <1>3, <1>4 DEF Insert, EuroInv, Certified
<1>8. PaymentsKept'
  BY <1>4, <1>6 DEF LandingInv, PaymentsKept, EuroInv, InCircuit
<1>9. FundingsKept'
  BY <1>4, <1>5, <1>6 DEF LandingInv, FundingsKept
<1>10. Asked' /\ Granted'
  BY <1>4, <1>5, <1>6 DEF LandingInv, Asked, Granted
<1>11. LastSeen'
  BY <1>4, <1>7 DEF LandingInv, LastSeen, EuroInv, Certified
<1> QED BY <1>8, <1>9, <1>10, <1>11 DEF LandingInv

-----------------------------------------------------------------------------
(* Requests made and cancelled. *)

\* Removing an entry from one element's map leaves its other entries, and those of
\* the other elements.
LEMMA RemovedFrom ==
  ASSUME NEW maps \in [Devices -> Reservations], NEW d \in Devices, NEW key
  PROVE  LET left == [maps EXCEPT ![d] = Remove(maps[d], key)]
         IN  /\ DOMAIN left[d] = DOMAIN maps[d] \ {key}
             /\ \A k \in DOMAIN maps[d] \ {key} : left[d][k] = maps[d][k]
             /\ \A e \in Devices \ {d} : left[e] = maps[e]
<1> DEFINE left == [maps EXCEPT ![d] = Remove(maps[d], key)]
<1>1. left[d] = Remove(maps[d], key) /\ \A e \in Devices \ {d} : left[e] = maps[e]
  OBVIOUS
<1>2. /\ DOMAIN Remove(maps[d], key) = DOMAIN maps[d] \ {key}
      /\ \A k \in DOMAIN maps[d] \ {key} : Remove(maps[d], key)[k] = maps[d][k]
  BY RemoveIs
<1> HIDE DEF left
<1> QED BY <1>1, <1>2 DEF left

\* The new request has room under a nonce of its own.
LEMMA AskPaymentLanding ==
  ASSUME EuroInv, LandingInv, NEW d \in Installed, NEW amount \in CentAmounts,
         AskPayment(d, amount)
  PROVE  LandingInv'
<1> DEFINE new == PaymentRequestOf(d, amount)
<1>1. /\ RequestPayment(d, amount) /\ requests' = requests \cup {new}
      /\ UNCHANGED <<issuerVars, transfers, funding_requests, fundings, defundings, lost, history>>
  BY DEF AskPayment
<1>2. /\ incoming' = [incoming EXCEPT ![d] = Insert(incoming[d], rng[d] + 1, amount)]
      /\ UNCHANGED <<certificate, pending_funding>>
      /\ UNCHANGED <<funding_requests, fundings, received, applied, cashed, abandoned, devices>>
  BY <1>1 DEF RequestPayment, Reserve, NextNonce, history, issuerVars
<1>3. new.payee.device = d /\ new.nonce = rng[d] + 1 /\ new.amount_cents = amount
  BY TrustsIssuer DEF PaymentRequestOf, NextNonce
<1> HIDE DEF new
<1>4. rng[d] + 1 \notin DOMAIN incoming[d]
  <2>1. rng[d] \in Nat /\ DOMAIN incoming[d] \subseteq 1 .. rng[d]
    BY TrustsIssuer DEF EuroInv, WalletInv, WalletTypeOK, NonceUsedOnce
  <2> QED BY <2>1
<1>5. /\ DOMAIN incoming'[d] = DOMAIN incoming[d] \cup {rng[d] + 1}
      /\ incoming'[d][rng[d] + 1] = amount
      /\ \A n \in DOMAIN incoming[d] : incoming'[d][n] = incoming[d][n]
      /\ \A e \in Devices \ {d} : incoming'[e] = incoming[e]
  BY <1>2, <1>4, TrustsIssuer DEF Insert, EuroInv, WalletInv, WalletTypeOK
<1>6. PaymentsKept'
  BY <1>1, <1>2, <1>3, <1>5 DEF LandingInv, PaymentsKept, EuroInv, InCircuit, WalletInv, WalletTypeOK, Installed
<1>7. Asked'
  BY <1>1, <1>2, <1>3, <1>5 DEF LandingInv, Asked, EuroInv, WalletInv, WalletTypeOK, Installed
<1>8. FundingsKept' /\ Granted' /\ LastSeen'
  BY <1>2 DEF LandingInv, FundingsKept, Granted, LastSeen, Installed
<1> QED BY <1>6, <1>7, <1>8 DEF LandingInv

\* So has the new funding request.
LEMMA AskFundingLanding ==
  ASSUME EuroInv, LandingInv, NEW d \in Installed, NEW amount \in CentAmounts,
         AskFunding(d, amount)
  PROVE  LandingInv'
<1> DEFINE new == FundingRequestOf(d, amount)
<1>1. /\ RequestFunding(d, amount) /\ funding_requests' = funding_requests \cup {new}
      /\ UNCHANGED <<issuerVars, requests, transfers, fundings, defundings, lost, history>>
  BY DEF AskFunding
<1>2. /\ pending_funding' = [pending_funding EXCEPT ![d] = Insert(pending_funding[d], rng[d] + 1, amount)]
      /\ UNCHANGED <<certificate, incoming>>
      /\ UNCHANGED <<requests, fundings, received, applied, cashed, abandoned, devices>>
  BY <1>1 DEF RequestFunding, Reserve, NextNonce, history, issuerVars
<1>3. new.device = d /\ new.nonce = rng[d] + 1 /\ new.amount_cents = amount
  BY TrustsIssuer DEF FundingRequestOf, SignedFundingRequest, NextNonce
<1> HIDE DEF new
<1>4. rng[d] + 1 \notin DOMAIN pending_funding[d]
  <2>1. rng[d] \in Nat /\ DOMAIN pending_funding[d] \subseteq 1 .. rng[d]
    BY TrustsIssuer DEF EuroInv, WalletInv, WalletTypeOK, NonceUsedOnce
  <2> QED BY <2>1
<1>5. /\ DOMAIN pending_funding'[d] = DOMAIN pending_funding[d] \cup {rng[d] + 1}
      /\ pending_funding'[d][rng[d] + 1] = amount
      /\ \A n \in DOMAIN pending_funding[d] : pending_funding'[d][n] = pending_funding[d][n]
      /\ \A e \in Devices \ {d} : pending_funding'[e] = pending_funding[e]
  BY <1>2, <1>4, TrustsIssuer DEF Insert, EuroInv, WalletInv, WalletTypeOK
<1>6. FundingsKept'
  BY <1>1, <1>2, <1>3, <1>5 DEF LandingInv, FundingsKept, EuroInv, WalletInv, WalletTypeOK, Installed
<1>7. Asked' /\ Granted'
  BY <1>1, <1>2, <1>3, <1>5 DEF LandingInv, Asked, Granted, EuroInv, WalletInv, WalletTypeOK, Installed
<1>8. PaymentsKept' /\ LastSeen'
  BY <1>2 DEF LandingInv, PaymentsKept, LastSeen
<1> QED BY <1>6, <1>7, <1>8 DEF LandingInv

\* A payment request cancelled gives its room back, and no other does.
LEMMA AbandonPaymentLanding ==
  ASSUME EuroInv, LandingInv, NEW d \in Installed, NEW nonce \in Nonces, AbandonPayment(d, nonce)
  PROVE  LandingInv'
<1>1. /\ nonce \in DOMAIN incoming[d]
      /\ incoming' = [incoming EXCEPT ![d] = Remove(incoming[d], nonce)]
      /\ abandoned' = [abandoned EXCEPT ![d] = @ \cup {nonce}]
      /\ UNCHANGED <<certificate, pending_funding>>
      /\ UNCHANGED <<requests, funding_requests, fundings, received, applied, cashed, devices>>
  BY DEF AbandonPayment, CancelRequest, network, issuerVars
<1>2. /\ DOMAIN incoming'[d] = DOMAIN incoming[d] \ {nonce}
      /\ \A n \in DOMAIN incoming[d] \ {nonce} : incoming'[d][n] = incoming[d][n]
      /\ \A e \in Devices \ {d} : incoming'[e] = incoming[e]
  BY <1>1, RemovedFrom, TrustsIssuer DEF EuroInv, WalletInv, WalletTypeOK
<1>3. /\ abandoned'[d] = abandoned[d] \cup {nonce}
      /\ \A e \in Devices : abandoned[e] \subseteq abandoned'[e]
  BY <1>1, TrustsIssuer DEF EuroInv, HistoryTypeOK
<1>4. PaymentsKept'
  BY <1>1, <1>2, <1>3 DEF LandingInv, PaymentsKept, EuroInv, InCircuit, WalletInv, WalletTypeOK, Installed
<1>5. Asked'
  BY <1>1, <1>2 DEF LandingInv, Asked, EuroInv, WalletInv, WalletTypeOK, Installed
<1>6. FundingsKept'
  BY <1>1, <1>3 DEF LandingInv, FundingsKept, EuroInv, WalletInv, WalletTypeOK, Installed
<1>7. Granted' /\ LastSeen'
  BY <1>1 DEF LandingInv, Granted, LastSeen
<1> QED BY <1>4, <1>5, <1>6, <1>7 DEF LandingInv

\* Nor does a funding request cancelled touch another.
LEMMA AbandonFundingLanding ==
  ASSUME EuroInv, LandingInv, NEW d \in Installed, NEW nonce \in Nonces, AbandonFunding(d, nonce)
  PROVE  LandingInv'
<1>1. /\ nonce \in DOMAIN pending_funding[d]
      /\ pending_funding' = [pending_funding EXCEPT ![d] = Remove(pending_funding[d], nonce)]
      /\ abandoned' = [abandoned EXCEPT ![d] = @ \cup {nonce}]
      /\ UNCHANGED <<certificate, incoming>>
      /\ UNCHANGED <<requests, funding_requests, fundings, received, applied, cashed, devices>>
  BY DEF AbandonFunding, CancelFunding, network, issuerVars
<1>2. /\ DOMAIN pending_funding'[d] = DOMAIN pending_funding[d] \ {nonce}
      /\ \A n \in DOMAIN pending_funding[d] \ {nonce} : pending_funding'[d][n] = pending_funding[d][n]
      /\ \A e \in Devices \ {d} : pending_funding'[e] = pending_funding[e]
  BY <1>1, RemovedFrom, TrustsIssuer DEF EuroInv, WalletInv, WalletTypeOK
<1>3. /\ abandoned'[d] = abandoned[d] \cup {nonce}
      /\ \A e \in Devices : abandoned[e] \subseteq abandoned'[e]
  BY <1>1, TrustsIssuer DEF EuroInv, HistoryTypeOK
<1>4. FundingsKept'
  BY <1>1, <1>2, <1>3 DEF LandingInv, FundingsKept, EuroInv, WalletInv, WalletTypeOK, Installed
<1>5. Asked'
  BY <1>1, <1>2 DEF LandingInv, Asked, EuroInv, WalletInv, WalletTypeOK, Installed
<1>6. PaymentsKept'
  BY <1>1, <1>3 DEF LandingInv, PaymentsKept, EuroInv, InCircuit, WalletInv, WalletTypeOK, Installed
<1>7. Granted' /\ LastSeen'
  BY <1>1 DEF LandingInv, Granted, LastSeen
<1> QED BY <1>4, <1>5, <1>6, <1>7 DEF LandingInv

-----------------------------------------------------------------------------
(* Credits, and what the issuer takes and gives. *)

\* The payment credited was asked for, and the room it had goes with it.
LEMMA CreditTransferLanding ==
  ASSUME EuroInv, LandingInv, NEW d \in Installed, NEW t \in TransferCopies, CreditTransfer(d, t)
  PROVE  LandingInv'
<1>1. t.payee = d /\ t.nonce \in DOMAIN incoming[d]
  BY GenuineTransfer DEF CreditTransfer, Receive
<1>2. /\ incoming' = [incoming EXCEPT ![d] = Remove(incoming[d], t.nonce)]
      /\ received' = received \cup {t}
      /\ UNCHANGED <<certificate, pending_funding>>
      /\ UNCHANGED <<requests, funding_requests, fundings, applied, cashed, abandoned, devices>>
  BY DEF CreditTransfer, Receive, network, issuerVars
<1>3. /\ DOMAIN incoming'[d] = DOMAIN incoming[d] \ {t.nonce}
      /\ \A n \in DOMAIN incoming[d] \ {t.nonce} : incoming'[d][n] = incoming[d][n]
      /\ \A e \in Devices \ {d} : incoming'[e] = incoming[e]
  BY <1>2, RemovedFrom, TrustsIssuer DEF EuroInv, WalletInv, WalletTypeOK
<1>4. PaymentsKept'
  BY <1>1, <1>2, <1>3 DEF LandingInv, PaymentsKept, EuroInv, InCircuit, WalletInv, WalletTypeOK, Installed
<1>5. Asked'
  BY <1>2, <1>3 DEF LandingInv, Asked, EuroInv, WalletInv, WalletTypeOK, Installed
<1>6. FundingsKept' /\ Granted' /\ LastSeen'
  BY <1>2 DEF LandingInv, FundingsKept, Granted, LastSeen, Installed
<1> QED BY <1>4, <1>5, <1>6 DEF LandingInv

\* So was the funding credited.
LEMMA CreditFundingLanding ==
  ASSUME EuroInv, LandingInv, NEW d \in Installed, NEW f \in WithAlteredAmounts(fundings),
         CreditFunding(d, f)
  PROVE  LandingInv'
<1>1. f.device = d /\ f.nonce \in DOMAIN pending_funding[d]
  BY GenuineFunding DEF CreditFunding, ApplyFunding
<1>2. /\ pending_funding' = [pending_funding EXCEPT ![d] = Remove(pending_funding[d], f.nonce)]
      /\ applied' = applied \cup {f}
      /\ UNCHANGED <<certificate, incoming>>
      /\ UNCHANGED <<requests, funding_requests, fundings, received, cashed, abandoned, devices>>
  BY DEF CreditFunding, ApplyFunding, network, issuerVars
<1>3. /\ DOMAIN pending_funding'[d] = DOMAIN pending_funding[d] \ {f.nonce}
      /\ \A n \in DOMAIN pending_funding[d] \ {f.nonce} :
           pending_funding'[d][n] = pending_funding[d][n]
      /\ \A e \in Devices \ {d} : pending_funding'[e] = pending_funding[e]
  BY <1>2, RemovedFrom, TrustsIssuer DEF EuroInv, WalletInv, WalletTypeOK
<1>4. FundingsKept'
  BY <1>1, <1>2, <1>3 DEF LandingInv, FundingsKept, EuroInv, WalletInv, WalletTypeOK, Installed
<1>5. Asked'
  BY <1>2, <1>3 DEF LandingInv, Asked, EuroInv, WalletInv, WalletTypeOK, Installed
<1>6. PaymentsKept' /\ Granted' /\ LastSeen'
  BY <1>2 DEF LandingInv, PaymentsKept, Granted, LastSeen
<1> QED BY <1>4, <1>5, <1>6 DEF LandingInv

\* An altered funding request does not verify.
LEMMA GenuineFundingRequest ==
  ASSUME EuroInv, NEW r \in WithAlteredAmounts(funding_requests), FundVerdict(r) = "Ok"
  PROVE  r \in funding_requests /\ <<r.device, r.nonce>> \notin funding_nonces
<1>1. /\ Verifies(devices[r.device].public_key, FundingRequestDigest(r), r.signature)
      /\ <<r.device, r.nonce>> \notin funding_nonces
  BY DEF FundVerdict
<1>2. ASSUME NEW u \in funding_requests, NEW a \in AlteredAmounts,
             r = [u EXCEPT !.amount_cents = a]
      PROVE  r = u
  <2>1. u = SignedFundingRequest(u.device, u.device, u.amount_cents, u.nonce)
    BY DEF EuroInv, NetworkTypeOK, IsFundingRequest
  <2>2. u.signature = Sign(u.device, FundingRequestDigest(u))
    BY <2>1 DEF SignedFundingRequest, FundingRequestDigest
  <2>3. r.amount_cents = a /\ r.signature = u.signature
    BY <1>2, <2>1 DEF SignedFundingRequest
  <2>4. FundingRequestDigest(r) = FundingRequestDigest(u)
    BY <1>1, <2>2, <2>3 DEF Verifies, Sign
  <2>5. a = u.amount_cents
    BY <2>3, <2>4 DEF FundingRequestDigest
  <2> QED BY <1>2, <2>1, <2>5 DEF SignedFundingRequest
<1> QED BY <1>1, <1>2 DEF WithAlteredAmounts

\* A funding is granted once, to the element that asked for it.
LEMMA GrantFundingLanding ==
  ASSUME EuroInv, LandingInv, NEW r \in WithAlteredAmounts(funding_requests), GrantFunding(r)
  PROVE  LandingInv'
<1> DEFINE f == FundingOf(r)
<1>1. r \in funding_requests /\ <<r.device, r.nonce>> \notin funding_nonces
  BY GenuineFundingRequest DEF GrantFunding, IssuerFund
<1>2. /\ fundings' = fundings \cup {f}
      /\ UNCHANGED <<certificate, incoming, pending_funding, devices>>
      /\ UNCHANGED <<requests, funding_requests, received, applied, cashed, abandoned>>
  BY DEF GrantFunding, IssuerFund, walletVars, history
<1>3. f.device = r.device /\ f.nonce = r.nonce /\ f.amount_cents = r.amount_cents
  BY DEF FundingOf, SignedFunding
<1> HIDE DEF f
<1>4. Granted'
  BY <1>1, <1>2, <1>3 DEF LandingInv, Granted, EuroInv, Numbered
<1>5. PaymentsKept' /\ FundingsKept' /\ Asked' /\ LastSeen'
  BY <1>2 DEF LandingInv, PaymentsKept, FundingsKept, Asked, LastSeen, Installed
<1> QED BY <1>4, <1>5 DEF LandingInv

\* The counter the issuer keeps is that of the order it credits.
LEMMA CreditDefundingLanding ==
  ASSUME EuroInv, LandingInv, NEW o \in WithAlteredAmounts(defundings), CreditDefunding(o)
  PROVE  LandingInv'
<1>1. o.device \in DOMAIN devices
  BY GenuineDefunding DEF CreditDefunding, IssuerDefund
<1>2. /\ devices' = [devices EXCEPT ![o.device].last_defunding_counter = o.counter]
      /\ cashed' = cashed \cup {o}
      /\ UNCHANGED <<certificate, incoming, pending_funding>>
      /\ UNCHANGED <<requests, funding_requests, fundings, received, applied, abandoned>>
  BY DEF CreditDefunding, IssuerDefund, walletVars, network
<1>3. /\ DOMAIN devices' = DOMAIN devices
      /\ devices'[o.device].last_defunding_counter = o.counter
      /\ \A d \in DOMAIN devices \ {o.device} : devices'[d] = devices[d]
  BY <1>1, <1>2 DEF EuroInv, IssuerInv, IssuerTypeOK, DeviceRecord
<1>4. LastSeen'
  BY <1>2, <1>3 DEF LandingInv, LastSeen
<1>5. PaymentsKept' /\ FundingsKept' /\ Asked' /\ Granted'
  BY <1>2 DEF LandingInv, PaymentsKept, FundingsKept, Asked, Granted, Installed
<1> QED BY <1>4, <1>5 DEF LandingInv

-----------------------------------------------------------------------------
(* Every step, from the first. *)

\* Nothing is asked for at first.
LEMMA LandingInitOK == Init => LandingInv
<1> SUFFICES ASSUME Init PROVE LandingInv
  OBVIOUS
<1>1. /\ requests = {} /\ funding_requests = {} /\ fundings = {} /\ Installed = {}
      /\ DOMAIN devices = {}
  BY DEF Init, WalletInit, IssuerInit, Installed, NoEntries
<1> QED BY <1>1 DEF LandingInv, PaymentsKept, FundingsKept, Asked, Granted, LastSeen

\* Every step keeps it.
LEMMA LandingStepKept ==
  ASSUME EuroInv, LandingInv, [Next]_vars
  PROVE  LandingInv'
<1>1. ASSUME NEW account \in Accounts, NEW balance \in OpeningBalances, Open(account, balance)
      PROVE  LandingInv'
  BY <1>1, LandingStutterKept DEF Open, OpenAccount, walletVars, network, history
<1>2. ASSUME NEW d \in Devices \ Strangers, NEW account \in Accounts, NEW limit \in Limits,
             Enrol(d, account, limit)
      PROVE  LandingInv'
  BY <1>2, EnrolLanding
<1>3. ASSUME NEW d \in Installed, ElementNext(d)
      PROVE  LandingInv'
  <2>1. CASE Crack(d)
    BY <2>1, LandingStutterKept DEF Crack, CrackSecureElement, issuerVars, network, history
  <2>2. CASE Lose(d)
    BY <2>2, LandingStutterKept DEF Lose, walletVars, issuerVars, network, history
  <2>3. CASE \E a \in CentAmounts : AskPayment(d, a)
    BY <2>3, AskPaymentLanding
  <2>4. CASE \E n \in Nonces : AbandonPayment(d, n)
    BY <2>4, AbandonPaymentLanding
  <2>5. CASE \E r \in RequestCopies : PayRequest(d, r)
    BY <2>5, LandingStutterKept DEF PayRequest, Pay, issuerVars
  <2>6. CASE \E t \in TransferCopies : CreditTransfer(d, t)
    BY <2>6, CreditTransferLanding
  <2>7. CASE \E a \in CentAmounts : AskFunding(d, a)
    BY <2>7, AskFundingLanding
  <2>8. CASE \E n \in Nonces : AbandonFunding(d, n)
    BY <2>8, AbandonFundingLanding
  <2>9. CASE \E f \in WithAlteredAmounts(fundings) : CreditFunding(d, f)
    BY <2>9, CreditFundingLanding
  <2>10. CASE \E a \in CentAmounts : OrderDefunding(d, a)
    BY <2>10, LandingStutterKept DEF OrderDefunding, Defund, issuerVars
  <2> QED BY <1>3, <2>1, <2>2, <2>3, <2>4, <2>5, <2>6, <2>7, <2>8, <2>9, <2>10 DEF ElementNext
<1>4. ASSUME NEW r \in WithAlteredAmounts(funding_requests), GrantFunding(r)
      PROVE  LandingInv'
  BY <1>4, GrantFundingLanding
<1>5. ASSUME NEW o \in WithAlteredAmounts(defundings), CreditDefunding(o)
      PROVE  LandingInv'
  BY <1>5, CreditDefundingLanding
<1>6. CASE UNCHANGED vars
  BY <1>6, LandingStutterKept DEF vars, walletVars, issuerVars, network, history
<1> QED BY <1>1, <1>2, <1>3, <1>4, <1>5, <1>6 DEF Next

\* Both invariants always hold.
LEMMA LandingInvAlways == Spec => [](EuroInv /\ LandingInv)
<1>1. Init => EuroInv /\ LandingInv
  BY InitOK, LandingInitOK
<1>2. EuroInv /\ LandingInv /\ [Next]_vars => (EuroInv /\ LandingInv)'
  BY StepKept, LandingStepKept
<1> QED BY <1>1, <1>2, PTL DEF Spec

-----------------------------------------------------------------------------
(* What follows. *)

\* An element holds room for exactly the requests it made that were neither credited
\* nor cancelled: no reservation times out, and none outlives its request (wallet.rs,
\* request_payment and request_funding).
THEOREM RoomHeldForOpenRequests == Spec => []RoomIsForOpenRequests
<1>1. ASSUME EuroInv, LandingInv, NEW d \in Installed
      PROVE  Entries(incoming[d]) = AsEntries(OpenRequests(d))
  <2>1. d \in Devices
    BY <1>1, TrustsIssuer
  <2>2. ASSUME NEW n \in DOMAIN incoming[d]
        PROVE  <<n, incoming[d][n]>> \in AsEntries(OpenRequests(d))
    <3>1. PICK r \in requests : /\ r.payee.device = d /\ r.nonce = n
                                /\ r.amount_cents = incoming[d][n]
      BY <1>1, <2>2 DEF LandingInv, Asked
    <3>2. n \notin abandoned[d] /\ n \notin credited[d]
      BY <1>1, <2>1, <2>2 DEF EuroInv, Closed, WalletInv, NonceUsedOnce
    <3>3. ~\E t \in received : t.payee = d /\ t.nonce = n
      BY <1>1, <3>2 DEF EuroInv, Marked
    <3>4. r \in OpenRequests(d)
      BY <3>1, <3>2, <3>3 DEF OpenRequests
    <3> QED BY <3>1, <3>4 DEF AsEntries
  <2>3. ASSUME NEW r \in OpenRequests(d)
        PROVE  r.nonce \in DOMAIN incoming[d] /\ incoming[d][r.nonce] = r.amount_cents
    BY <1>1, <2>3 DEF LandingInv, PaymentsKept, OpenRequests
  <2> QED BY <2>2, <2>3 DEF Entries, AsEntries
<1>2. ASSUME EuroInv, LandingInv, NEW d \in Installed
      PROVE  Entries(pending_funding[d]) = AsEntries(OpenFundingRequests(d))
  <2>1. d \in Devices
    BY <1>2, TrustsIssuer
  <2>2. ASSUME NEW n \in DOMAIN pending_funding[d]
        PROVE  <<n, pending_funding[d][n]>> \in AsEntries(OpenFundingRequests(d))
    <3>1. PICK r \in funding_requests : /\ r.device = d /\ r.nonce = n
                                        /\ r.amount_cents = pending_funding[d][n]
      BY <1>2, <2>2 DEF LandingInv, Asked
    <3>2. n \notin abandoned[d] /\ n \notin credited[d]
      BY <1>2, <2>1, <2>2 DEF EuroInv, Closed, WalletInv, NonceUsedOnce
    <3>3. ~\E f \in applied : f.device = d /\ f.nonce = n
      BY <1>2, <3>2 DEF EuroInv, Marked
    <3>4. r \in OpenFundingRequests(d)
      BY <3>1, <3>2, <3>3 DEF OpenFundingRequests
    <3> QED BY <3>1, <3>4 DEF AsEntries
  <2>3. ASSUME NEW r \in OpenFundingRequests(d)
        PROVE  r.nonce \in DOMAIN pending_funding[d] /\ pending_funding[d][r.nonce] = r.amount_cents
    BY <1>2, <2>3 DEF LandingInv, FundingsKept, OpenFundingRequests
  <2> QED BY <2>2, <2>3 DEF Entries, AsEntries
<1>3. EuroInv /\ LandingInv => RoomIsForOpenRequests
  BY <1>1, <1>2 DEF RoomIsForOpenRequests
<1> QED BY <1>3, LandingInvAlways, PTL

\* A transfer that pays a request as it was made is credited when it arrives, however
\* late, unless the payee cancelled the request or took another payment for it
\* (wallet.rs, "the credit cannot fail").
THEOREM PaymentsLand == Spec => []PaymentLands
<1>1. ASSUME EuroInv, LandingInv, NEW t \in transfers \ received,
             NEW r \in requests, Answers(t, r),
             t.nonce \notin abandoned[t.payee],
             \A s \in received : ~(s.payee = t.payee /\ s.nonce = t.nonce)
      PROVE  ReceiveVerdict(t.payee, t) = "Ok"
  <2>1. t.payee \in Installed
    BY <1>1 DEF EuroInv, InCircuit
  <2>2. t.payee \in Devices /\ certificate[t.payee].device = t.payee /\ IssuerOf(t.payee) = IssuerKey
    BY <1>1, <2>1, TrustsIssuer
  <2>3. IsTransfer(t, IssuerKey)
    BY <1>1 DEF EuroInv, NetworkTypeOK
  <2>4. CertificateVerifies(t.payer, IssuerKey)
    BY <2>3 DEF IsTransfer, IsCertificate, SignedCertificate, CertificateVerifies, CertificateDigest,
                Verifies
  <2>5. Verifies(t.payer.public_key, TransferDigest(t), t.signature)
    BY <2>3 DEF IsTransfer, SignedTransfer, TransferDigest, Verifies
  <2>6. t.nonce \in DOMAIN incoming[t.payee] /\ incoming[t.payee][t.nonce] = t.amount_cents
    BY <1>1 DEF LandingInv, PaymentsKept, Answers
  <2>7. t.nonce \notin credited[t.payee]
    BY <1>1, <2>2, <2>6 DEF EuroInv, WalletInv, NonceUsedOnce
  <2> QED BY <2>2, <2>4, <2>5, <2>6, <2>7 DEF ReceiveVerdict
<1>2. EuroInv /\ LandingInv => PaymentLands
  BY <1>1 DEF PaymentLands
<1> QED BY <1>2, LandingInvAlways, PTL

\* A funding is credited when it arrives, unless the element cancelled its request.
THEOREM FundingsLand == Spec => []FundingLands
<1>1. ASSUME EuroInv, LandingInv, NEW f \in fundings \ applied,
             f.nonce \notin abandoned[f.device]
      PROVE  ApplyVerdict(f.device, f) = "Ok"
  <2>1. f.device \in Installed
    BY <1>1 DEF EuroInv, InCircuit
  <2>2. f.device \in Devices /\ certificate[f.device].device = f.device /\ IssuerOf(f.device) = IssuerKey
    BY <1>1, <2>1, TrustsIssuer
  <2>3. Verifies(IssuerKey, FundingDigest(f), f.signature)
    BY <1>1 DEF EuroInv, NetworkTypeOK, IsFunding, SignedFunding, FundingDigest, Verifies
  <2>4. ~\E g \in applied : g.device = f.device /\ g.nonce = f.nonce
    BY <1>1 DEF LandingInv, Granted, EuroInv, HistoryTypeOK
  <2>5. PICK r \in funding_requests : /\ r.device = f.device /\ r.nonce = f.nonce
                                      /\ r.amount_cents = f.amount_cents
    BY <1>1 DEF LandingInv, Granted
  <2>6. f.nonce \in DOMAIN pending_funding[f.device] /\ pending_funding[f.device][f.nonce] = f.amount_cents
    BY <1>1, <2>4, <2>5 DEF LandingInv, FundingsKept
  <2>7. f.nonce \notin credited[f.device]
    BY <1>1, <2>2, <2>6 DEF EuroInv, WalletInv, NonceUsedOnce
  <2> QED BY <2>2, <2>3, <2>6, <2>7 DEF ApplyVerdict
<1>2. EuroInv /\ LandingInv => FundingLands
  BY <1>1 DEF FundingLands
<1> QED BY <1>2, LandingInvAlways, PTL

\* The issuer credits every order that no later one of the same element overtook
\* (issuer.rs, defund).
THEOREM DefundingsLand == Spec => []DefundingLands
<1>1. ASSUME EuroInv, LandingInv, NEW o \in defundings \ cashed,
             \A p \in cashed : p.device = o.device => p.counter < o.counter
      PROVE  DefundVerdict(o) = "Ok"
  <2>1. IsDefunding(o)
    BY <1>1 DEF EuroInv, NetworkTypeOK
  <2>2. o.device \in DOMAIN devices /\ devices[o.device].public_key = o.device
    BY <1>1 DEF EuroInv, InCircuit, Certified
  <2>3. Verifies(o.device, DefundingDigest(o), o.signature)
    BY <2>1 DEF IsDefunding, SignedDefunding, DefundingDigest, Verifies
  <2>4. o.counter \in Nat /\ o.counter > 0 /\ devices[o.device].last_defunding_counter \in Nat
    BY <1>1, <2>1, <2>2, BoundsAssumption
       DEF IsDefunding, Counters, EuroInv, IssuerInv, IssuerTypeOK, DeviceRecord
  <2>5. ~(o.counter <= devices[o.device].last_defunding_counter)
    BY <1>1, <2>2, <2>4 DEF LandingInv, LastSeen
  <2>6. devices[o.device].account \in DOMAIN accounts
    BY <1>1, <2>2 DEF EuroInv, IssuerInv, IssuerTypeOK
  <2> QED BY <2>2, <2>3, <2>5, <2>6 DEF DefundVerdict
<1>2. EuroInv /\ LandingInv => DefundingLands
  BY <1>1 DEF DefundingLands
<1> QED BY <1>2, LandingInvAlways, PTL

-----------------------------------------------------------------------------
(***************************************************************************)
(* The circuit implements the notes (module Notes): with the invariants    *)
(* above, every step of it is a step of theirs.                            *)
(***************************************************************************)

\* The parts of the mapping that module OfflineEuro gives no name.

Owner == [d \in DOMAIN devices |-> devices[d].account]

Forgers == {d \in Installed : state[d] = "Cracked"}

Written == NotesOn(transfers, fundings)

Ordered == OrdersOf(defundings)

Landed == NotesOn(received, applied) \cup OrdersOf(cashed)

\* Each part of the mapping depends on these variables alone.
LEMMA ViewsKept ==
  /\ UNCHANGED devices => Owner' = Owner
  /\ UNCHANGED <<certificate, state>> => Forgers' = Forgers
  /\ UNCHANGED <<requests, funding_requests>> => ClaimsMade' = ClaimsMade
  /\ UNCHANGED <<certificate, incoming, pending_funding>> => OpenClaims' = OpenClaims
  /\ UNCHANGED <<transfers, fundings>> => Written' = Written
  /\ UNCHANGED defundings => Ordered' = Ordered
  /\ UNCHANGED <<received, applied, cashed>> => Landed' = Landed
<1>1. UNCHANGED devices => Owner' = Owner
  BY DEF Owner
<1>2. UNCHANGED <<certificate, state>> => Forgers' = Forgers
  BY DEF Forgers, Installed
<1>3. UNCHANGED <<requests, funding_requests>> => ClaimsMade' = ClaimsMade
  BY DEF ClaimsMade
<1>4. UNCHANGED <<certificate, incoming, pending_funding>> => OpenClaims' = OpenClaims
  BY DEF OpenClaims, Installed
<1>5. UNCHANGED <<transfers, fundings>> => Written' = Written
  BY DEF Written, NotesOn
<1>6. UNCHANGED defundings => Ordered' = Ordered
  BY DEF Ordered, OrdersOf
<1>7. UNCHANGED <<received, applied, cashed>> => Landed' = Landed
  BY DEF Landed, NotesOn, OrdersOf
<1> QED BY <1>1, <1>2, <1>3, <1>4, <1>5, <1>6, <1>7

\* What is open, said element by element.
LEMMA OpenClaimIs ==
  ASSUME NEW c
  PROVE  c \in OpenClaims <=>
           \E d \in Installed :
             \/ \E n \in DOMAIN incoming[d] : c = Claim(d, n, incoming[d][n], "payment")
             \/ \E n \in DOMAIN pending_funding[d] :
                  c = Claim(d, n, pending_funding[d][n], "funding")
BY DEF OpenClaims

\* The element that a step is of can act.
LEMMA IsPresent ==
  ASSUME EuroInv, NEW d \in Installed \ lost
  PROVE  d \in DOMAIN Owner \ lost /\ d \in Devices
BY TrustsIssuer DEF EuroInv, Certified, Owner

\* An account opened, or opened again with another balance.
LEMMA OpenNotes ==
  ASSUME EuroInv, NEW account \in Accounts, NEW balance \in OpeningBalances,
         Open(account, balance)
  PROVE  Promise!Open(account, balance)
<1>1. /\ accounts' = Insert(accounts, account, balance)
      /\ money' = money - BalanceOf(account) + balance
      /\ UNCHANGED <<devices, funding_nonces, offline_float, overflowed>>
      /\ UNCHANGED <<walletVars, network, lost, history>>
  BY DEF Open, OpenAccount
<1>2. accounts' = Promise!Put(accounts, account, balance)
  BY <1>1 DEF Insert, Promise!Put
<1>3. money' = money + balance - (IF account \in DOMAIN accounts THEN accounts[account] ELSE 0)
  BY <1>1, OfflineEuroAssumption, U64Facts
     DEF BalanceOf, EuroInv, IssuerInv, IssuerTypeOK
<1>4. /\ Owner' = Owner /\ Forgers' = Forgers /\ ClaimsMade' = ClaimsMade
      /\ OpenClaims' = OpenClaims /\ Written' = Written /\ Ordered' = Ordered /\ Landed' = Landed
  BY <1>1, ViewsKept DEF walletVars, network, history
<1> QED BY <1>1, <1>2, <1>3, <1>4
        DEF Promise!Open, walletVars, history, Owner, Forgers, Written, Ordered, Landed

\* A cracked element is a forger.
LEMMA CrackNotes ==
  ASSUME EuroInv, NEW d \in Installed \ lost, Crack(d)
  PROVE  Promise!Crack(d)
<1>1. /\ state' = [state EXCEPT ![d] = "Cracked"]
      /\ UNCHANGED <<certificate, balance_cents, incoming, pending_funding, credited, counter, rng>>
      /\ UNCHANGED <<issuerVars, network, lost, history>>
  BY DEF Crack, CrackSecureElement
<1>2. Forgers' = Forgers \cup {d}
  BY <1>1, TrustsIssuer DEF Forgers, EuroInv, WalletInv, WalletTypeOK, Installed
<1>3. /\ Owner' = Owner /\ ClaimsMade' = ClaimsMade
      /\ OpenClaims' = OpenClaims /\ Written' = Written /\ Ordered' = Ordered /\ Landed' = Landed
  BY <1>1, ViewsKept DEF issuerVars, network, history
<1> QED BY <1>1, <1>2, <1>3, IsPresent
        DEF Promise!Crack, Promise!Present, issuerVars, history, Owner, Forgers, Written, Ordered, Landed

\* A lost element is gone.
LEMMA LoseNotes ==
  ASSUME EuroInv, NEW d \in Installed \ lost, Lose(d)
  PROVE  Promise!Lose(d)
<1>1. /\ lost' = lost \cup {d}
      /\ UNCHANGED <<walletVars, issuerVars, network, history>>
  BY DEF Lose
<1>2. /\ Owner' = Owner /\ Forgers' = Forgers /\ ClaimsMade' = ClaimsMade
      /\ OpenClaims' = OpenClaims /\ Written' = Written /\ Ordered' = Ordered /\ Landed' = Landed
  BY <1>1, ViewsKept DEF walletVars, issuerVars, network, history
<1> QED BY <1>1, <1>2, IsPresent
        DEF Promise!Lose, Promise!Present, walletVars, issuerVars, history,
            Owner, Forgers, Written, Ordered, Landed

\* A new element holds nothing and has nothing open, and it is sealed.
LEMMA EnrolNotes ==
  ASSUME EuroInv, NEW d \in Devices, NEW account \in Accounts, NEW limit \in Limits,
         Enrol(d, account, limit)
  PROVE  Promise!Enrol(d, account)
<1> DEFINE c == SignedCertificate(d, d, limit, IssuerKey)
<1>1. /\ CertifyDevice(d, account, d) /\ Install(c, d, IssuerKey)
      /\ UNCHANGED <<network, lost, history>>
  BY DEF Enrol
<1>2. c.device = d
  BY DEF SignedCertificate
<1> HIDE DEF c
<1>3. /\ certificate' = Insert(certificate, d, c) /\ d \notin Installed
      /\ balance_cents' = [balance_cents EXCEPT ![d] = 0]
      /\ incoming' = [incoming EXCEPT ![d] = NoEntries]
      /\ pending_funding' = [pending_funding EXCEPT ![d] = NoEntries]
      /\ state' = [state EXCEPT ![d] = "Sealed"]
  BY <1>1, <1>2 DEF Install
<1>4. /\ devices' = Insert(devices, d, [account |-> account, public_key |-> d,
                                        last_defunding_counter |-> 0])
      /\ account \in DOMAIN accounts /\ d \notin DOMAIN devices
      /\ UNCHANGED <<accounts, money, network, lost, history>>
  BY <1>1 DEF CertifyDevice, CertifyVerdict
<1>5. (Installed)' = Installed \cup {d}
  BY <1>3 DEF Installed, Insert
<1>6. balance_cents' = balance_cents
  BY <1>3 DEF EuroInv, Countable, WalletInv, WalletTypeOK
<1>7. /\ \A e \in Installed : /\ incoming'[e] = incoming[e]
                               /\ pending_funding'[e] = pending_funding[e]
                               /\ state'[e] = state[e]
      /\ DOMAIN incoming'[d] = {} /\ DOMAIN pending_funding'[d] = {} /\ state'[d] = "Sealed"
  BY <1>3 DEF EuroInv, WalletInv, WalletTypeOK, NoEntries
<1>8. Forgers' = Forgers
  BY <1>5, <1>7 DEF Forgers
<1>9. OpenClaims' = OpenClaims
  BY <1>5, <1>7 DEF OpenClaims
<1>10. Owner' = Promise!Put(Owner, d, account)
  BY <1>4 DEF Owner, Insert, Promise!Put
<1>11. /\ ClaimsMade' = ClaimsMade /\ Written' = Written /\ Ordered' = Ordered /\ Landed' = Landed
  BY <1>4, ViewsKept DEF network, history
<1>12. d \notin DOMAIN Owner
  BY <1>4 DEF Owner
<1> QED BY <1>4, <1>6, <1>8, <1>9, <1>10, <1>11, <1>12
        DEF Promise!Enrol, history, Owner, Forgers, Written, Ordered, Landed

-----------------------------------------------------------------------------
(* Claims. *)

\* Every request bears a nonce its element has drawn.
LEMMA NoncesDrawn ==
  ASSUME EuroInv, LandingInv
  PROVE  /\ \A r \in requests : r.nonce \in 1 .. rng[r.payee.device]
         /\ \A r \in funding_requests : r.nonce \in 1 .. rng[r.device]
<1>1. \A r \in requests : r.payee.device \in Devices
  BY TrustsIssuer DEF EuroInv, InCircuit
<1>2. \A r \in funding_requests : r.device \in Devices
  BY DEF EuroInv, NetworkTypeOK, IsFundingRequest
<1>3. \A r \in requests : r.nonce \in 1 .. rng[r.payee.device]
  BY <1>1 DEF EuroInv, LandingInv, PaymentsKept, Marked, Closed, WalletInv, NonceUsedOnce
<1>4. \A r \in funding_requests : r.nonce \in 1 .. rng[r.device]
  BY <1>2 DEF EuroInv, LandingInv, FundingsKept, Marked, Closed, WalletInv, NonceUsedOnce
<1> QED BY <1>3, <1>4

\* So the next nonce makes a claim of its own.
LEMMA ClaimIsNew ==
  ASSUME EuroInv, LandingInv, NEW d \in Installed
  PROVE  \A k \in ClaimsMade : k.by = d => k.id # NextNonce(d)
<1>1. rng[d] \in Nat
  BY TrustsIssuer DEF EuroInv, WalletInv, WalletTypeOK
<1>2. ASSUME NEW r \in requests, r.payee.device = d PROVE r.nonce # NextNonce(d)
  BY <1>1, <1>2, NoncesDrawn DEF NextNonce
<1>3. ASSUME NEW r \in funding_requests, r.device = d PROVE r.nonce # NextNonce(d)
  BY <1>1, <1>3, NoncesDrawn DEF NextNonce
<1> QED BY <1>2, <1>3 DEF ClaimsMade, Claim

\* A payment request is a claim.
LEMMA AskPaymentNotes ==
  ASSUME EuroInv, LandingInv, NEW d \in Installed \ lost, NEW amount \in CentAmounts,
         AskPayment(d, amount)
  PROVE  /\ Promise!Ask(Claim(d, NextNonce(d), amount, "payment"))
         /\ Claim(d, NextNonce(d), amount, "payment") \in ClaimsMade'
<1> DEFINE new == PaymentRequestOf(d, amount)
           c == Claim(d, NextNonce(d), amount, "payment")
<1>1. /\ incoming' = [incoming EXCEPT ![d] = Insert(incoming[d], NextNonce(d), amount)]
      /\ requests' = requests \cup {new}
      /\ UNCHANGED <<certificate, balance_cents, pending_funding, state>>
      /\ UNCHANGED <<issuerVars, transfers, funding_requests, fundings, defundings, lost, history>>
  BY DEF AskPayment, RequestPayment
<1>2. new.payee.device = d /\ new.nonce = NextNonce(d) /\ new.amount_cents = amount
  BY TrustsIssuer DEF PaymentRequestOf
<1>3. NextNonce(d) \notin DOMAIN incoming[d]
  <2>1. rng[d] \in Nat /\ DOMAIN incoming[d] \subseteq 1 .. rng[d]
    BY TrustsIssuer DEF EuroInv, WalletInv, WalletTypeOK, NonceUsedOnce
  <2> QED BY <2>1 DEF NextNonce
<1>4. /\ DOMAIN incoming'[d] = DOMAIN incoming[d] \cup {NextNonce(d)}
      /\ incoming'[d][NextNonce(d)] = amount
      /\ \A n \in DOMAIN incoming[d] : incoming'[d][n] = incoming[d][n]
      /\ \A e \in Devices \ {d} : incoming'[e] = incoming[e]
  BY <1>1, <1>3, TrustsIssuer DEF Insert, EuroInv, WalletInv, WalletTypeOK
<1>5. Installed' = Installed /\ Installed \subseteq Devices
  BY <1>1, TrustsIssuer DEF Installed
<1> HIDE DEF new
<1>6. ClaimsMade' = ClaimsMade \cup {c}
  BY <1>1, <1>2 DEF ClaimsMade
<1>7. OpenClaims' = OpenClaims \cup {c}
  BY <1>1, <1>4, <1>5 DEF OpenClaims
<1>8. /\ Owner' = Owner /\ Forgers' = Forgers
      /\ Written' = Written /\ Ordered' = Ordered /\ Landed' = Landed
  BY <1>1, ViewsKept DEF issuerVars, history
<1>9. c.by = d /\ c.id = NextNonce(d)
  BY DEF Claim
<1> HIDE DEF c
<1>10. c.by \in DOMAIN Owner \ lost /\ \A k \in ClaimsMade : k.by = c.by => k.id # c.id
  BY <1>9, ClaimIsNew, IsPresent
<1>11. Promise!Ask(c)
  BY <1>1, <1>6, <1>7, <1>8, <1>10
     DEF Promise!Ask, Promise!Present, issuerVars, history, Owner, Forgers, Written, Ordered, Landed
<1> QED BY <1>6, <1>11 DEF c


\* So is a funding request.
LEMMA AskFundingNotes ==
  ASSUME EuroInv, LandingInv, NEW d \in Installed \ lost, NEW amount \in CentAmounts,
         AskFunding(d, amount)
  PROVE  /\ Promise!Ask(Claim(d, NextNonce(d), amount, "funding"))
         /\ Claim(d, NextNonce(d), amount, "funding") \in ClaimsMade'
<1> DEFINE new == FundingRequestOf(d, amount)
           c == Claim(d, NextNonce(d), amount, "funding")
<1>1. /\ pending_funding' = [pending_funding EXCEPT ![d] = Insert(pending_funding[d], NextNonce(d), amount)]
      /\ funding_requests' = funding_requests \cup {new}
      /\ UNCHANGED <<certificate, balance_cents, incoming, state>>
      /\ UNCHANGED <<issuerVars, requests, transfers, fundings, defundings, lost, history>>
  BY DEF AskFunding, RequestFunding
<1>2. new.device = d /\ new.nonce = NextNonce(d) /\ new.amount_cents = amount
  BY TrustsIssuer DEF FundingRequestOf, SignedFundingRequest
<1>3. NextNonce(d) \notin DOMAIN pending_funding[d]
  <2>1. rng[d] \in Nat /\ DOMAIN pending_funding[d] \subseteq 1 .. rng[d]
    BY TrustsIssuer DEF EuroInv, WalletInv, WalletTypeOK, NonceUsedOnce
  <2> QED BY <2>1 DEF NextNonce
<1>4. /\ DOMAIN pending_funding'[d] = DOMAIN pending_funding[d] \cup {NextNonce(d)}
      /\ pending_funding'[d][NextNonce(d)] = amount
      /\ \A n \in DOMAIN pending_funding[d] : pending_funding'[d][n] = pending_funding[d][n]
      /\ \A e \in Devices \ {d} : pending_funding'[e] = pending_funding[e]
  BY <1>1, <1>3, TrustsIssuer DEF Insert, EuroInv, WalletInv, WalletTypeOK
<1>5. Installed' = Installed /\ Installed \subseteq Devices
  BY <1>1, TrustsIssuer DEF Installed
<1> HIDE DEF new
<1>6. ClaimsMade' = ClaimsMade \cup {c}
  BY <1>1, <1>2 DEF ClaimsMade
<1>7. OpenClaims' = OpenClaims \cup {c}
  BY <1>1, <1>4, <1>5 DEF OpenClaims
<1>8. /\ Owner' = Owner /\ Forgers' = Forgers
      /\ Written' = Written /\ Ordered' = Ordered /\ Landed' = Landed
  BY <1>1, ViewsKept DEF issuerVars, history
<1>9. c.by = d /\ c.id = NextNonce(d)
  BY DEF Claim
<1> HIDE DEF c
<1>10. c.by \in DOMAIN Owner \ lost /\ \A k \in ClaimsMade : k.by = c.by => k.id # c.id
  BY <1>9, ClaimIsNew, IsPresent
<1>11. Promise!Ask(c)
  BY <1>1, <1>6, <1>7, <1>8, <1>10
     DEF Promise!Ask, Promise!Present, issuerVars, history, Owner, Forgers, Written, Ordered, Landed
<1> QED BY <1>6, <1>11 DEF c

\* A reservation removed closes its claim and no other.
LEMMA PaymentClosed ==
  ASSUME EuroInv, NEW d \in Installed, NEW nonce \in DOMAIN incoming[d],
         incoming' = [incoming EXCEPT ![d] = Remove(incoming[d], nonce)],
         UNCHANGED <<certificate, pending_funding>>
  PROVE  /\ Claim(d, nonce, incoming[d][nonce], "payment") \in OpenClaims
         /\ OpenClaims' = OpenClaims \ {Claim(d, nonce, incoming[d][nonce], "payment")}
<1> DEFINE c == Claim(d, nonce, incoming[d][nonce], "payment")
<1>1. /\ DOMAIN incoming'[d] = DOMAIN incoming[d] \ {nonce}
      /\ \A n \in DOMAIN incoming[d] \ {nonce} : incoming'[d][n] = incoming[d][n]
      /\ \A e \in Devices \ {d} : incoming'[e] = incoming[e]
  BY RemovedFrom, TrustsIssuer DEF EuroInv, WalletInv, WalletTypeOK
<1>2. Installed' = Installed /\ Installed \subseteq Devices
  BY TrustsIssuer DEF Installed
<1>3. ASSUME NEW x PROVE x \in OpenClaims' <=> x \in OpenClaims \ {c}
  BY <1>1, <1>2 DEF OpenClaims, Claim
<1>4. c \in OpenClaims
  BY DEF OpenClaims
<1> QED BY <1>3, <1>4

\* The same, for a funding.
LEMMA FundingClosed ==
  ASSUME EuroInv, NEW d \in Installed, NEW nonce \in DOMAIN pending_funding[d],
         pending_funding' = [pending_funding EXCEPT ![d] = Remove(pending_funding[d], nonce)],
         UNCHANGED <<certificate, incoming>>
  PROVE  /\ Claim(d, nonce, pending_funding[d][nonce], "funding") \in OpenClaims
         /\ OpenClaims' = OpenClaims \ {Claim(d, nonce, pending_funding[d][nonce], "funding")}
<1> DEFINE c == Claim(d, nonce, pending_funding[d][nonce], "funding")
<1>1. /\ DOMAIN pending_funding'[d] = DOMAIN pending_funding[d] \ {nonce}
      /\ \A n \in DOMAIN pending_funding[d] \ {nonce} : pending_funding'[d][n] = pending_funding[d][n]
      /\ \A e \in Devices \ {d} : pending_funding'[e] = pending_funding[e]
  BY RemovedFrom, TrustsIssuer DEF EuroInv, WalletInv, WalletTypeOK
<1>2. Installed' = Installed /\ Installed \subseteq Devices
  BY TrustsIssuer DEF Installed
<1>3. ASSUME NEW x PROVE x \in OpenClaims' <=> x \in OpenClaims \ {c}
  BY <1>1, <1>2 DEF OpenClaims, Claim
<1>4. c \in OpenClaims
  BY DEF OpenClaims
<1> QED BY <1>3, <1>4

\* A payment request cancelled is a claim given up.
LEMMA AbandonPaymentNotes ==
  ASSUME EuroInv, NEW d \in Installed \ lost, NEW nonce \in Nonces, AbandonPayment(d, nonce)
  PROVE  Promise!GiveUp(Claim(d, nonce, incoming[d][nonce], "payment"))
<1> DEFINE c == Claim(d, nonce, incoming[d][nonce], "payment")
<1>1. /\ nonce \in DOMAIN incoming[d]
      /\ incoming' = [incoming EXCEPT ![d] = Remove(incoming[d], nonce)]
      /\ UNCHANGED <<certificate, balance_cents, pending_funding, state>>
      /\ UNCHANGED <<issuerVars, network, lost, received, applied, cashed, minted>>
  BY DEF AbandonPayment, CancelRequest
<1>2. c \in OpenClaims /\ OpenClaims' = OpenClaims \ {c} /\ c.by = d
  BY <1>1, PaymentClosed DEF Claim
<1> HIDE DEF c
<1>3. /\ Owner' = Owner /\ Forgers' = Forgers /\ ClaimsMade' = ClaimsMade
      /\ Written' = Written /\ Ordered' = Ordered /\ Landed' = Landed
  BY <1>1, ViewsKept DEF issuerVars, network
<1>4. Promise!GiveUp(c)
  BY <1>1, <1>2, <1>3, IsPresent
     DEF Promise!GiveUp, Promise!Present, issuerVars, Owner, Forgers, Written, Ordered, Landed
<1> QED BY <1>4 DEF c

\* So is a funding request cancelled.
LEMMA AbandonFundingNotes ==
  ASSUME EuroInv, NEW d \in Installed \ lost, NEW nonce \in Nonces, AbandonFunding(d, nonce)
  PROVE  Promise!GiveUp(Claim(d, nonce, pending_funding[d][nonce], "funding"))
<1> DEFINE c == Claim(d, nonce, pending_funding[d][nonce], "funding")
<1>1. /\ nonce \in DOMAIN pending_funding[d]
      /\ pending_funding' = [pending_funding EXCEPT ![d] = Remove(pending_funding[d], nonce)]
      /\ UNCHANGED <<certificate, balance_cents, incoming, state>>
      /\ UNCHANGED <<issuerVars, network, lost, received, applied, cashed, minted>>
  BY DEF AbandonFunding, CancelFunding
<1>2. c \in OpenClaims /\ OpenClaims' = OpenClaims \ {c} /\ c.by = d
  BY <1>1, FundingClosed DEF Claim
<1> HIDE DEF c
<1>3. /\ Owner' = Owner /\ Forgers' = Forgers /\ ClaimsMade' = ClaimsMade
      /\ Written' = Written /\ Ordered' = Ordered /\ Landed' = Landed
  BY <1>1, ViewsKept DEF issuerVars, network
<1>4. Promise!GiveUp(c)
  BY <1>1, <1>2, <1>3, IsPresent
     DEF Promise!GiveUp, Promise!Present, issuerVars, Owner, Forgers, Written, Ordered, Landed
<1> QED BY <1>4 DEF c

-----------------------------------------------------------------------------
(* Notes and orders written. *)

\* What a debit signs: a serial no note or order of the element has, for no more than
\* is on it; a cracked element keeps what it signs away.
LEMMA DebitNotes ==
  ASSUME EuroInv, NEW d \in Installed \ lost, NEW amount \in U64, Debit(d, amount), Mint(d, amount)
  PROVE  Promise!Debit(d, amount) /\ Promise!NewSerial(d, NextCounter(d))
<1>1. /\ amount # 0 /\ ~(amount > balance_cents[d]) /\ counter[d] < MaxDebits
      /\ balance_cents' = IF state[d] = "Sealed"
                          THEN [balance_cents EXCEPT ![d] = balance_cents[d] - amount]
                          ELSE balance_cents
      /\ minted' = IF state[d] = "Cracked" THEN minted + amount ELSE minted
  BY DEF Debit, DebitVerdict, Mint
<1>2. /\ balance_cents[d] \in Nat /\ amount \in Nat /\ state[d] \in {"Sealed", "Cracked"}
  BY U64Facts, IsPresent DEF EuroInv, WalletInv, WalletTypeOK
<1>3. d \in Forgers <=> state[d] = "Cracked"
  BY DEF Forgers
<1>4. Promise!Debit(d, amount)
  BY <1>1, <1>2, <1>3, IsPresent DEF Promise!Debit, Promise!Present, Owner, Forgers
<1>5. /\ NextCounter(d) \in Counters
      /\ \A t \in transfers : t.payer.device = d => t.counter < NextCounter(d)
      /\ \A o \in defundings : o.device = d => o.counter < NextCounter(d)
  BY <1>1, CounterIsFresh
<1>6. NextCounter(d) \in Nat /\ NextCounter(d) > 0
  BY <1>5, BoundsAssumption DEF Counters
<1>7. /\ \A t \in transfers : t.counter \in Nat
      /\ \A o \in defundings : o.counter \in Nat
  BY BoundsAssumption DEF EuroInv, NetworkTypeOK, IsTransfer, IsDefunding, Counters
<1>8. ASSUME NEW n \in Written \cup Ordered, n.from = d PROVE n.serial # NextCounter(d)
  <2>1. CASE \E t \in transfers : n = TransferNote(t)
    BY <1>5, <1>6, <1>7, <1>8, <2>1 DEF TransferNote
  <2>2. CASE \E f \in fundings : n = FundingNote(f)
    BY <1>6, <2>2 DEF FundingNote
  <2>3. CASE \E o \in defundings : n = OrderNote(o)
    BY <1>5, <1>6, <1>7, <1>8, <2>3 DEF OrderNote
  <2> QED BY <2>1, <2>2, <2>3 DEF Written, Ordered, NotesOn, OrdersOf
<1>9. Promise!NewSerial(d, NextCounter(d))
  BY <1>8 DEF Promise!NewSerial, Written, Ordered
<1> QED BY <1>4, <1>9


\* A transfer is a note, whatever request it answers.
LEMMA PayRequestNotes ==
  ASSUME EuroInv, NEW d \in Installed \ lost, NEW r \in RequestCopies, PayRequest(d, r)
  PROVE  /\ Promise!Pay(TransferNote(TransferOf(d, r)))
         /\ TransferNote(TransferOf(d, r)) \in Written'
<1> DEFINE t == TransferOf(d, r)
           n == TransferNote(t)
<1>1. /\ PayVerdict(d, r) = "Ok" /\ Debit(d, r.amount_cents) /\ Mint(d, r.amount_cents)
      /\ transfers' = transfers \cup {t}
      /\ UNCHANGED <<certificate, incoming, pending_funding, credited, state, rng>>
      /\ UNCHANGED <<issuerVars, requests, funding_requests, fundings, defundings, lost,
                     received, applied, cashed, abandoned>>
  BY DEF PayRequest, Pay
<1>2. r.payee.device \in Installed /\ r.amount_cents \in U64
  BY <1>1, PayableRequest
<1>3. r.payee.device # d
  BY <1>1, TrustsIssuer DEF PayVerdict
<1>4. /\ n.from = d /\ n.serial = NextCounter(d)
      /\ n.claim.by = r.payee.device /\ n.claim.cents = r.amount_cents
      /\ n.claim.kind = "payment"
  BY TrustsIssuer DEF TransferOf, SignedTransfer, TransferNote, Claim
<1>5. Promise!Debit(d, r.amount_cents) /\ Promise!NewSerial(d, NextCounter(d))
  BY <1>1, <1>2, DebitNotes
<1> HIDE DEF t
<1>6. Written' = Written \cup {n}
  BY <1>1 DEF Written, NotesOn
<1>7. /\ Owner' = Owner /\ Forgers' = Forgers /\ ClaimsMade' = ClaimsMade
      /\ OpenClaims' = OpenClaims /\ Ordered' = Ordered /\ Landed' = Landed
  BY <1>1, ViewsKept DEF issuerVars
<1>8. r.payee.device \in DOMAIN Owner
  BY <1>2 DEF EuroInv, Certified, Owner
<1> HIDE DEF n
<1>9. Promise!Pay(n)
  BY <1>1, <1>3, <1>4, <1>5, <1>6, <1>7, <1>8
     DEF Promise!Pay, issuerVars, Owner, Forgers, Written, Ordered, Landed
<1> QED BY <1>6, <1>9 DEF n, t

\* A defunding order is an order.
LEMMA OrderDefundingNotes ==
  ASSUME EuroInv, NEW d \in Installed \ lost, NEW amount \in CentAmounts,
         OrderDefunding(d, amount)
  PROVE  /\ Promise!Order(OrderNote(DefundingOf(d, amount)))
         /\ OrderNote(DefundingOf(d, amount)) \in Ordered'
<1> DEFINE o == DefundingOf(d, amount)
           n == OrderNote(o)
<1>1. /\ Debit(d, amount) /\ Mint(d, amount) /\ defundings' = defundings \cup {o}
      /\ UNCHANGED <<certificate, incoming, pending_funding, credited, state, rng>>
      /\ UNCHANGED <<issuerVars, requests, transfers, funding_requests, fundings, lost,
                     received, applied, cashed, abandoned>>
  BY DEF OrderDefunding, Defund
<1>2. n.from = d /\ n.serial = NextCounter(d) /\ n.cents = amount
  BY TrustsIssuer DEF DefundingOf, SignedDefunding, OrderNote
<1>3. Promise!Debit(d, amount) /\ Promise!NewSerial(d, NextCounter(d))
  BY <1>1, DebitNotes, OfflineEuroAssumption
<1> HIDE DEF o
<1>4. Ordered' = Ordered \cup {n}
  BY <1>1 DEF Ordered, OrdersOf
<1>5. /\ Owner' = Owner /\ Forgers' = Forgers /\ ClaimsMade' = ClaimsMade
      /\ OpenClaims' = OpenClaims /\ Written' = Written /\ Landed' = Landed
  BY <1>1, ViewsKept DEF issuerVars
<1> HIDE DEF n
<1>6. Promise!Order(n)
  BY <1>1, <1>2, <1>3, <1>4, <1>5
     DEF Promise!Order, issuerVars, Owner, Forgers, Written, Ordered, Landed
<1> QED BY <1>4, <1>6 DEF n, o

\* A request that was granted has its note; the account pays for it.
LEMMA GrantFundingNotes ==
  ASSUME EuroInv, NEW r \in WithAlteredAmounts(funding_requests), GrantFunding(r)
  PROVE  /\ Promise!Fund(Claim(r.device, r.nonce, r.amount_cents, "funding"))
         /\ Claim(r.device, r.nonce, r.amount_cents, "funding") \in ClaimsMade
<1> DEFINE f == FundingOf(r)
           c == Claim(r.device, r.nonce, r.amount_cents, "funding")
           account == devices[r.device].account
<1>1. /\ FundVerdict(r) = "Ok"
      /\ accounts' = [accounts EXCEPT ![account] = accounts[account] - r.amount_cents]
      /\ fundings' = fundings \cup {f}
      /\ UNCHANGED <<devices, money>>
      /\ UNCHANGED <<walletVars, requests, transfers, funding_requests, defundings, lost, history>>
  BY DEF GrantFunding, IssuerFund
<1>2. /\ r.device \in DOMAIN devices /\ r.amount_cents # 0
      /\ <<r.device, r.nonce>> \notin funding_nonces
      /\ account \in DOMAIN accounts /\ ~(accounts[account] < r.amount_cents)
  BY <1>1 DEF FundVerdict
<1>3. r \in funding_requests
  BY <1>1, GenuineFundingRequest
<1>4. r.amount_cents \in Nat /\ accounts[account] \in Nat
  BY <1>2, <1>3, U64Facts
     DEF EuroInv, NetworkTypeOK, IsFundingRequest, IssuerInv, IssuerTypeOK
<1>5. c \in ClaimsMade
  BY <1>3 DEF ClaimsMade
<1>6. /\ c.by = r.device /\ c.id = r.nonce /\ c.cents = r.amount_cents /\ c.kind = "funding"
  BY DEF Claim
<1>7. FundingNote(f) = [from |-> IssuerKey, serial |-> 0, claim |-> c]
  BY DEF FundingOf, SignedFunding, FundingNote
<1> HIDE DEF f
<1>8. Written' = Written \cup {FundingNote(f)}
  BY <1>1 DEF Written, NotesOn, walletVars
<1>9. FundingNote(f) \notin Written
  <2>1. ASSUME NEW t \in transfers PROVE TransferNote(t).claim.kind = "payment"
    BY DEF TransferNote, Claim
  <2>2. ASSUME NEW g \in fundings
        PROVE  FundingNote(g).claim.by = g.device /\ FundingNote(g).claim.id = g.nonce
    BY DEF FundingNote, Claim
  <2>3. FundingNote(f).claim = c
    BY <1>7
  <2>4. ASSUME NEW g \in fundings PROVE FundingNote(g) # FundingNote(f)
    BY <1>2, <1>6, <2>2, <2>3 DEF EuroInv, Numbered
  <2>5. ASSUME NEW t \in transfers PROVE TransferNote(t) # FundingNote(f)
    BY <1>6, <2>1, <2>3
  <2> QED BY <2>4, <2>5 DEF Written, NotesOn
<1>10. /\ Owner' = Owner /\ Forgers' = Forgers /\ ClaimsMade' = ClaimsMade
       /\ OpenClaims' = OpenClaims /\ Ordered' = Ordered /\ Landed' = Landed
  BY <1>1, ViewsKept DEF walletVars, history
<1>11. Owner[c.by] = account
  BY <1>2, <1>6 DEF Owner
<1> HIDE DEF c, account
<1>12. /\ 0 < c.cents /\ c.cents <= accounts[Owner[c.by]]
       /\ accounts' = [accounts EXCEPT ![Owner[c.by]] = accounts[Owner[c.by]] - c.cents]
  BY <1>1, <1>2, <1>4, <1>6, <1>11
<1>13. Promise!FundingNote(c) = FundingNote(f)
  BY <1>7 DEF Promise!FundingNote
<1>14. Promise!Fund(c)
  BY <1>1, <1>5, <1>6, <1>8, <1>9, <1>10, <1>12, <1>13
     DEF Promise!Fund, walletVars, history, Owner, Forgers, Written, Ordered, Landed
<1> QED BY <1>5, <1>14 DEF c

-----------------------------------------------------------------------------
(* Credits. *)

\* An order is no note.
LEMMA OrderIsNoNote ==
  ASSUME NEW o, NEW from, NEW serial, NEW c
  PROVE  OrderNote(o) # [from |-> from, serial |-> serial, claim |-> c]
<1>1. DOMAIN OrderNote(o) = {"from", "serial", "cents"}
  BY DEF OrderNote
<1>2. DOMAIN [from |-> from, serial |-> serial, claim |-> c] = {"from", "serial", "claim"}
  OBVIOUS
<1> QED BY <1>1, <1>2

\* A note whose claim is open has not landed.
LEMMA NotLanded ==
  ASSUME EuroInv, NEW d \in Devices, NEW nonce, nonce \notin credited[d],
         NEW n, n.claim.by = d, n.claim.id = nonce,
         \A o \in cashed : OrderNote(o) # n
  PROVE  n \notin Landed
<1>1. ASSUME NEW t \in received PROVE TransferNote(t) # n
  BY DEF TransferNote, Claim, EuroInv, Marked
<1>2. ASSUME NEW f \in applied PROVE FundingNote(f) # n
  BY DEF FundingNote, Claim, EuroInv, Marked
<1> QED BY <1>1, <1>2 DEF Landed, NotesOn, OrdersOf

\* A transfer credited lands, on the claim of the request it answers.
LEMMA CreditTransferNotes ==
  ASSUME EuroInv, NEW d \in Installed \ lost, NEW t \in TransferCopies, CreditTransfer(d, t)
  PROVE  Promise!Land(TransferNote(t)) /\ TransferNote(t) \in Written
<1> DEFINE n == TransferNote(t)
           c == Claim(d, t.nonce, incoming[d][t.nonce], "payment")
<1>1. /\ t \in transfers /\ t.payee = d /\ t.nonce \in DOMAIN incoming[d]
      /\ t.amount_cents = incoming[d][t.nonce] /\ t.nonce \notin credited[d]
  BY GenuineTransfer DEF CreditTransfer, Receive
<1>2. /\ incoming' = [incoming EXCEPT ![d] = Remove(incoming[d], t.nonce)]
      /\ balance_cents' = [balance_cents EXCEPT ![d] = Wrap(balance_cents[d] + incoming[d][t.nonce])]
      /\ received' = received \cup {t}
      /\ UNCHANGED <<certificate, pending_funding, counter, state, rng>>
      /\ UNCHANGED <<issuerVars, network, lost, applied, cashed, abandoned, minted>>
  BY DEF CreditTransfer, Receive
<1>3. /\ n = [from |-> t.payer.device, serial |-> t.counter, claim |-> c]
      /\ n.claim = c /\ c.by = d /\ c.id = t.nonce /\ c.cents = incoming[d][t.nonce]
  BY <1>1 DEF TransferNote, Claim
<1>4. Wrap(balance_cents[d] + incoming[d][t.nonce]) = balance_cents[d] + incoming[d][t.nonce]
  <2>1. /\ HoldingLimit(d) \in U64
        /\ Sound(balance_cents[d], incoming[d], pending_funding[d], credited[d], rng[d])
        /\ Fits(balance_cents[d], incoming[d], pending_funding[d], HoldingLimit(d))
    BY OfElement DEF EuroInv, ElementSound, ElementFits
  <2> QED BY <1>1, <2>1, CreditIsExact
<1>5. c \in OpenClaims /\ OpenClaims' = OpenClaims \ {c}
  BY <1>1, <1>2, PaymentClosed
<1>6. n \in Written
  BY <1>1 DEF Written, NotesOn
<1>7. n \notin Landed
  <2>1. \A o \in cashed : OrderNote(o) # n
    BY <1>3, OrderIsNoNote
  <2> HIDE DEF n, c
  <2> QED BY <1>1, <1>3, <2>1, NotLanded, IsPresent
<1>8. Landed' = Landed \cup {n}
  BY <1>2 DEF Landed, NotesOn, OrdersOf
<1>9. /\ Owner' = Owner /\ Forgers' = Forgers /\ ClaimsMade' = ClaimsMade
      /\ Written' = Written /\ Ordered' = Ordered
  BY <1>2, ViewsKept DEF issuerVars, network
<1> HIDE DEF n, c
<1>10. balance_cents' = [balance_cents EXCEPT ![n.claim.by] = balance_cents[n.claim.by] + n.claim.cents]
  BY <1>2, <1>3, <1>4
<1>11. Promise!Land(n)
  BY <1>2, <1>3, <1>5, <1>6, <1>7, <1>8, <1>9, <1>10, IsPresent
     DEF Promise!Land, Promise!Present, issuerVars, Owner, Forgers, Written, Ordered, Landed
<1> QED BY <1>6, <1>11 DEF n

\* So does a funding credited.
LEMMA CreditFundingNotes ==
  ASSUME EuroInv, NEW d \in Installed \ lost, NEW f \in WithAlteredAmounts(fundings),
         CreditFunding(d, f)
  PROVE  Promise!Land(FundingNote(f)) /\ FundingNote(f) \in Written
<1> DEFINE n == FundingNote(f)
           c == Claim(d, f.nonce, pending_funding[d][f.nonce], "funding")
<1>1. /\ f \in fundings /\ f.device = d /\ f.nonce \in DOMAIN pending_funding[d]
      /\ f.amount_cents = pending_funding[d][f.nonce] /\ f.nonce \notin credited[d]
  BY GenuineFunding DEF CreditFunding, ApplyFunding
<1>2. /\ pending_funding' = [pending_funding EXCEPT ![d] = Remove(pending_funding[d], f.nonce)]
      /\ balance_cents' = [balance_cents EXCEPT ![d] = Wrap(balance_cents[d] + pending_funding[d][f.nonce])]
      /\ applied' = applied \cup {f}
      /\ UNCHANGED <<certificate, incoming, counter, state, rng>>
      /\ UNCHANGED <<issuerVars, network, lost, received, cashed, abandoned, minted>>
  BY DEF CreditFunding, ApplyFunding
<1>3. /\ n = [from |-> IssuerKey, serial |-> 0, claim |-> c]
      /\ n.claim = c /\ c.by = d /\ c.id = f.nonce /\ c.cents = pending_funding[d][f.nonce]
  BY <1>1 DEF FundingNote, Claim
<1>4. Wrap(balance_cents[d] + pending_funding[d][f.nonce]) = balance_cents[d] + pending_funding[d][f.nonce]
  <2>1. /\ HoldingLimit(d) \in U64
        /\ Sound(balance_cents[d], incoming[d], pending_funding[d], credited[d], rng[d])
        /\ Fits(balance_cents[d], incoming[d], pending_funding[d], HoldingLimit(d))
    BY OfElement DEF EuroInv, ElementSound, ElementFits
  <2>2. /\ Sound(balance_cents[d], pending_funding[d], incoming[d], credited[d], rng[d])
        /\ Fits(balance_cents[d], pending_funding[d], incoming[d], HoldingLimit(d))
    BY <2>1, SoundSwap
  <2> QED BY <1>1, <2>1, <2>2, CreditIsExact
<1>5. c \in OpenClaims /\ OpenClaims' = OpenClaims \ {c}
  BY <1>1, <1>2, FundingClosed
<1>6. n \in Written
  BY <1>1 DEF Written, NotesOn
<1>7. n \notin Landed
  <2>1. \A o \in cashed : OrderNote(o) # n
    BY <1>3, OrderIsNoNote
  <2> HIDE DEF n, c
  <2> QED BY <1>1, <1>3, <2>1, NotLanded, IsPresent
<1>8. Landed' = Landed \cup {n}
  BY <1>2 DEF Landed, NotesOn, OrdersOf
<1>9. /\ Owner' = Owner /\ Forgers' = Forgers /\ ClaimsMade' = ClaimsMade
      /\ Written' = Written /\ Ordered' = Ordered
  BY <1>2, ViewsKept DEF issuerVars, network
<1> HIDE DEF n, c
<1>10. balance_cents' = [balance_cents EXCEPT ![n.claim.by] = balance_cents[n.claim.by] + n.claim.cents]
  BY <1>2, <1>3, <1>4
<1>11. Promise!Land(n)
  BY <1>2, <1>3, <1>5, <1>6, <1>7, <1>8, <1>9, <1>10, IsPresent
     DEF Promise!Land, Promise!Present, issuerVars, Owner, Forgers, Written, Ordered, Landed
<1> QED BY <1>6, <1>11 DEF n


\* The account credited is that of the element; it wraps only when there is more
\* money than fits into it.
LEMMA CreditDefundingNotes ==
  ASSUME EuroInv, NEW o \in WithAlteredAmounts(defundings), CreditDefunding(o)
  PROVE  Promise!Cash(OrderNote(o)) /\ OrderNote(o) \in Ordered
<1> DEFINE n == OrderNote(o)
           account == devices[o.device].account
           sum == accounts[account] + o.amount_cents
<1>1. /\ DefundVerdict(o) = "Ok"
      /\ accounts' = [accounts EXCEPT ![account] = Wrap(sum)]
      /\ devices' = [devices EXCEPT ![o.device].last_defunding_counter = o.counter]
      /\ cashed' = cashed \cup {o}
      /\ UNCHANGED <<funding_nonces, money>>
      /\ UNCHANGED <<walletVars, network, lost, received, applied, abandoned, minted>>
  BY DEF CreditDefunding, IssuerDefund
<1>2. /\ o \in defundings /\ o.device \in DOMAIN devices
      /\ ~(o.counter <= devices[o.device].last_defunding_counter)
  BY <1>1, GenuineDefunding
<1>3. account \in DOMAIN accounts
  BY <1>2 DEF EuroInv, IssuerInv, IssuerTypeOK
<1>4. n.from = o.device /\ n.serial = o.counter /\ n.cents = o.amount_cents
  BY DEF OrderNote
<1>5. n \in Ordered /\ o \notin cashed
  BY <1>2 DEF Ordered, OrdersOf, EuroInv, Marked
<1>6. n \notin Landed
  <2>1. ASSUME NEW p \in cashed PROVE OrderNote(p) # n
    BY <1>2, <1>4 DEF OrderNote, EuroInv, Marked
  <2>2. ASSUME NEW t \in received PROVE TransferNote(t) # n
    BY OrderIsNoNote DEF TransferNote
  <2>3. ASSUME NEW f \in applied PROVE FundingNote(f) # n
    BY OrderIsNoNote DEF FundingNote
  <2> HIDE DEF n
  <2> QED BY <2>1, <2>2, <2>3 DEF Landed, NotesOn, OrdersOf
<1>7. Landed' = Landed \cup {n}
  BY <1>1 DEF Landed, NotesOn, OrdersOf
<1>8. Owner' = Owner
  <2>1. DOMAIN devices' = DOMAIN devices
    BY <1>1
  <2>2. \A d \in DOMAIN devices : devices'[d].account = devices[d].account
    BY <1>1, <1>2 DEF EuroInv, IssuerInv, IssuerTypeOK, DeviceRecord
  <2> QED BY <2>1, <2>2 DEF Owner
<1>9. /\ Forgers' = Forgers /\ ClaimsMade' = ClaimsMade
      /\ OpenClaims' = OpenClaims /\ Written' = Written /\ Ordered' = Ordered
  BY <1>1, ViewsKept DEF walletVars, network
<1>10. Owner[n.from] = account
  BY <1>2, <1>4 DEF Owner
<1>11. sum \in Nat /\ sum <= money + minted /\ money + minted \in Int
  BY <1>2, <1>3, <1>5, AccountAndOrder, AllAccounted, AccountsPurse, TransitAmounts
     DEF EuroInv, IssuerInv, IsPurse, AreAmounts
<1>12. sum = accounts[Owner[n.from]] + n.cents
  BY <1>4, <1>10
<1> HIDE DEF sum, account, n
<1>13. CASE sum <= MaxU64
  <2>1. Wrap(sum) = sum
    BY <1>11, <1>13, U64Facts
  <2> QED BY <1>1, <1>5, <1>6, <1>7, <1>8, <1>9, <1>10, <1>12, <2>1
          DEF Promise!Cash, walletVars, n, Owner, Forgers, Written, Ordered, Landed
<1>14. CASE ~(sum <= MaxU64)
  <2>1. money + minted > MaxU64
    BY <1>11, <1>14, U64Facts
  <2> QED BY <1>1, <1>5, <1>6, <1>7, <1>8, <1>9, <1>10, <1>12, <2>1
          DEF Promise!Cash, Wrap, walletVars, n, Owner, Forgers, Written, Ordered, Landed
<1> QED BY <1>13, <1>14

-----------------------------------------------------------------------------
(* Every step, from the first. *)

\* Nothing is claimed or written at first.
LEMMA NotesInit == Init => Promise!Init
<1> SUFFICES ASSUME Init PROVE Promise!Init
  OBVIOUS
<1>1. WalletInit /\ IssuerInit
  BY DEF Init
<1>2. /\ Installed = {} /\ DOMAIN devices = {} /\ accounts = [a \in {} |-> 0] /\ money = 0
      /\ balance_cents = [d \in Devices |-> 0]
  BY <1>1 DEF WalletInit, IssuerInit, Installed, NoEntries
<1>3. /\ requests = {} /\ transfers = {} /\ funding_requests = {}
      /\ fundings = {} /\ defundings = {} /\ lost = {}
      /\ received = {} /\ applied = {} /\ cashed = {} /\ minted = 0
  BY DEF Init
<1>4. Owner = [d \in {} |-> 0] /\ Forgers = {}
  BY <1>2 DEF Owner, Forgers
<1>5. ClaimsMade = {} /\ OpenClaims = {}
  BY <1>2, <1>3 DEF ClaimsMade, OpenClaims
<1>6. Written = {} /\ Ordered = {} /\ Landed = {}
  BY <1>3 DEF Written, Ordered, Landed, NotesOn, OrdersOf
<1> QED BY <1>2, <1>3, <1>4, <1>5, <1>6
        DEF Promise!Init, Owner, Forgers, Written, Ordered, Landed

\* A step of the circuit is a step of the notes, or none.
LEMMA NotesStep ==
  ASSUME EuroInv, LandingInv, [Next]_vars
  PROVE  [Promise!Next]_(Promise!notesVars)
<1>1. ASSUME NEW account \in Accounts, NEW balance \in OpeningBalances, Open(account, balance)
      PROVE  Promise!Next
  BY <1>1, OpenNotes, OfflineEuroAssumption DEF Promise!Next
<1>2. ASSUME NEW d \in Devices \ Strangers, NEW account \in Accounts, NEW limit \in Limits,
             Enrol(d, account, limit)
      PROVE  Promise!Next
  BY <1>2, EnrolNotes DEF Promise!Next
<1>3. ASSUME NEW d \in Installed \ lost, ElementNext(d)
      PROVE  Promise!Next
  <2> d \in Devices
    BY IsPresent
  <2>1. CASE Crack(d)
    BY <2>1, CrackNotes DEF Promise!Next
  <2>2. CASE Lose(d)
    BY <2>2, LoseNotes DEF Promise!Next
  <2>3. ASSUME NEW a \in CentAmounts, AskPayment(d, a) PROVE Promise!Next
    BY <2>3, AskPaymentNotes DEF Promise!Next
  <2>4. ASSUME NEW n \in Nonces, AbandonPayment(d, n) PROVE Promise!Next
    <3>1. Promise!GiveUp(Claim(d, n, incoming[d][n], "payment"))
      BY <2>4, AbandonPaymentNotes
    <3> QED BY <3>1 DEF Promise!Next, Promise!GiveUp
  <2>5. ASSUME NEW r \in RequestCopies, PayRequest(d, r) PROVE Promise!Next
    BY <2>5, PayRequestNotes DEF Promise!Next, Written
  <2>6. ASSUME NEW t \in TransferCopies, CreditTransfer(d, t) PROVE Promise!Next
    BY <2>6, CreditTransferNotes DEF Promise!Next, Written
  <2>7. ASSUME NEW a \in CentAmounts, AskFunding(d, a) PROVE Promise!Next
    BY <2>7, AskFundingNotes DEF Promise!Next
  <2>8. ASSUME NEW n \in Nonces, AbandonFunding(d, n) PROVE Promise!Next
    <3>1. Promise!GiveUp(Claim(d, n, pending_funding[d][n], "funding"))
      BY <2>8, AbandonFundingNotes
    <3> QED BY <3>1 DEF Promise!Next, Promise!GiveUp
  <2>9. ASSUME NEW f \in WithAlteredAmounts(fundings), CreditFunding(d, f) PROVE Promise!Next
    BY <2>9, CreditFundingNotes DEF Promise!Next, Written
  <2>10. ASSUME NEW a \in CentAmounts, OrderDefunding(d, a) PROVE Promise!Next
    BY <2>10, OrderDefundingNotes DEF Promise!Next, Ordered
  <2> QED BY <1>3, <2>1, <2>2, <2>3, <2>4, <2>5, <2>6, <2>7, <2>8, <2>9, <2>10 DEF ElementNext
<1>4. ASSUME NEW r \in WithAlteredAmounts(funding_requests), GrantFunding(r)
      PROVE  Promise!Next
  BY <1>4, GrantFundingNotes DEF Promise!Next
<1>5. ASSUME NEW o \in WithAlteredAmounts(defundings), CreditDefunding(o)
      PROVE  Promise!Next
  BY <1>5, CreditDefundingNotes DEF Promise!Next, Ordered
<1>6. CASE UNCHANGED vars
  <2>1. /\ Owner' = Owner /\ Forgers' = Forgers /\ ClaimsMade' = ClaimsMade
        /\ OpenClaims' = OpenClaims /\ Written' = Written /\ Ordered' = Ordered /\ Landed' = Landed
    BY <1>6, ViewsKept DEF vars, walletVars, issuerVars, network, history
  <2> QED BY <1>6, <2>1 DEF Promise!notesVars, vars, walletVars, issuerVars, history,
                            Owner, Forgers, Written, Ordered, Landed
<1> QED BY <1>1, <1>2, <1>3, <1>4, <1>5, <1>6 DEF Next

\* Whatever happens to messages and elements, value moves as notes do: written once on
\* value given up, and landing once, for exactly its worth, on a claim its receiver made
\* and has not given up (wallet.rs, issuer.rs).
THEOREM CircuitImplementsNotes == Spec => ImplementsNotes
<1>1. Init => Promise!Init
  BY NotesInit
<1>2. EuroInv /\ LandingInv /\ [Next]_vars => [Promise!Next]_(Promise!notesVars)
  BY NotesStep
<1> QED BY <1>1, <1>2, LandingInvAlways, PTL DEF Spec, ImplementsNotes, Promise!Spec


=============================================================================
