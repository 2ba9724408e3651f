-------------------------- MODULE OfflineEuroProofs --------------------------
(***************************************************************************)
(* What the circuit guarantees over any network: every cent is accounted   *)
(* for, no request is credited twice or after it was cancelled, and value  *)
(* moves among certified elements only.                                    *)
(*                                                                         *)
(* EuroInv adds to the invariants of the elements and of the issuer what   *)
(* ties them together: which messages exist, in terms of the counters and  *)
(* nonces of the parties that sent them and of those that took them.       *)
(***************************************************************************)
EXTENDS OfflineEuro, PartyProofs

-----------------------------------------------------------------------------
(* The invariant. *)

\* The elements installed are the ones registered, each under its own key.
Certified ==
  /\ Installed = DOMAIN devices
  /\ \A d \in Installed : /\ IsCertificate(certificate[d], IssuerKey)
                          /\ certificate[d].public_key = d
                          /\ devices[d].public_key = d

\* Messages come from, and are meant for, installed elements.
InCircuit ==
  /\ \A r \in requests : r.payee.device \in Installed
  /\ \A t \in transfers : {t.payer.device, t.payee} \subseteq Installed
  /\ \A f \in fundings : f.device \in Installed
  /\ \A o \in defundings : o.device \in Installed

\* A debit that is still to come has a counter no message carries yet, and a
\* request still to be granted a pair that no funding answers.
Numbered ==
  /\ \A t \in transfers : t.counter <= counter[t.payer.device]
  /\ \A o \in defundings : o.counter <= counter[o.device]
  /\ \A f \in fundings : <<f.device, f.nonce>> \in funding_nonces

\* What was credited has left its mark on whoever credited it.
Marked ==
  /\ \A t \in received : t.nonce \in credited[t.payee]
  /\ \A f \in applied : f.nonce \in credited[f.device]
  /\ \A o \in cashed : o.counter <= devices[o.device].last_defunding_counter

\* The nonce of a request that was cancelled is neither open nor credited.
Closed ==
  \A d \in Devices :
    /\ abandoned[d] \subseteq 1 .. rng[d]
    /\ abandoned[d] \cap (credited[d] \cup DOMAIN incoming[d] \cup DOMAIN pending_funding[d]) = {}

\* The sums are over finite sets, and elements not installed hold nothing.
Countable ==
  /\ IsFiniteSet(transfers) /\ IsFiniteSet(fundings) /\ IsFiniteSet(defundings)
  /\ \A d \in Devices \ Installed : balance_cents[d] = 0

\* Money is bounded by what accounts may be opened with, and minted by the cracked.
Sourced ==
  /\ money <= MaxMoney
  /\ minted > 0 => \E d \in Installed : state[d] = "Cracked"
  /\ MaxMoney + minted <= MaxU64 => overflowed = 0

\* A request is counted once at most, and not before its nonce is recorded.
Counted ==
  /\ \A d \in Installed, n \in Nonces : credits[d][n] <= IF n \in credited[d] THEN 1 ELSE 0
  /\ \A d \in Devices \ Installed, n \in Nonces : credits[d][n] = 0

EuroInv ==
  /\ WalletInv /\ IssuerInv /\ NetworkTypeOK /\ HistoryTypeOK
  /\ Certified /\ InCircuit /\ Numbered /\ Marked /\ Closed /\ Counted /\ Countable /\ Sourced
  /\ FloatIsBacked

\* Every element trusts the one issuer.
LEMMA TrustsIssuer ==
  ASSUME EuroInv, NEW d \in Installed
  PROVE  certificate[d].device = d /\ IssuerOf(d) = IssuerKey /\ d \in Devices
<1>1. certificate[d].device = d /\ d \in Devices
  BY DEF EuroInv, WalletInv, WalletTypeOK, Installed
<1>2. certificate[d] = SignedCertificate(certificate[d].device, certificate[d].public_key,
                                         certificate[d].holding_limit_cents, IssuerKey)
  BY DEF EuroInv, Certified, IsCertificate
<1>3. certificate[d].signature.key = IssuerKey
  BY <1>2 DEF SignedCertificate, Sign
<1> QED BY <1>1, <1>3 DEF IssuerOf

-----------------------------------------------------------------------------
(* Copies: what passes the checks is what was sent. *)

\* An altered transfer does not verify.
LEMMA GenuineTransfer ==
  ASSUME EuroInv, NEW d \in Installed, NEW t \in TransferCopies, ReceiveVerdict(d, t) = "Ok"
  PROVE  t \in transfers /\ t.payee = d /\ t.nonce \in DOMAIN incoming[d]
         /\ t.amount_cents = incoming[d][t.nonce] /\ t.nonce \notin credited[d]
<1>1. /\ t.payee = certificate[d].device
      /\ CertificateVerifies(t.payer, IssuerOf(d))
      /\ Verifies(t.payer.public_key, TransferDigest(t), t.signature)
      /\ t.nonce \notin credited[d]
      /\ t.nonce \in DOMAIN incoming[d]
      /\ t.amount_cents = incoming[d][t.nonce]
  BY DEF ReceiveVerdict
<1>2. certificate[d].device = d /\ IssuerOf(d) = IssuerKey
  BY TrustsIssuer
<1>3. t \in transfers
  <2>1. CASE \E u \in transfers, a \in AlteredAmounts : t = [u EXCEPT !.amount_cents = a]
    <3>1. PICK u \in transfers, a \in AlteredAmounts : t = [u EXCEPT !.amount_cents = a]
      BY <2>1
    <3>2. IsTransfer(u, IssuerKey)
      BY DEF EuroInv, NetworkTypeOK
    <3>3. /\ u = SignedTransfer(u.payer, u.payee, u.amount_cents, u.nonce, u.counter)
          /\ u.signature = Sign(u.payer.public_key, TransferDigest(u))
      BY <3>2 DEF IsTransfer, SignedTransfer, TransferDigest
    <3>4. /\ t.payer = u.payer /\ t.payee = u.payee /\ t.nonce = u.nonce /\ t.counter = u.counter
          /\ t.amount_cents = a /\ t.signature = u.signature
      BY <3>1, <3>3 DEF SignedTransfer
    <3>5. TransferDigest(t) = TransferDigest(u)
      BY <1>1, <3>3, <3>4 DEF Verifies, Sign
    <3>6. a = u.amount_cents
      BY <3>4, <3>5 DEF TransferDigest
    <3>7. t = u
      BY <3>1, <3>3, <3>6 DEF SignedTransfer
    <3> QED BY <3>7
  <2>2. CASE \E u \in transfers, e \in Devices : t = [u EXCEPT !.payee = e]
    <3>1. PICK u \in transfers, e \in Devices : t = [u EXCEPT !.payee = e]
      BY <2>2
    <3>2. IsTransfer(u, IssuerKey)
      BY DEF EuroInv, NetworkTypeOK
    <3>3. /\ u = SignedTransfer(u.payer, u.payee, u.amount_cents, u.nonce, u.counter)
          /\ u.signature = Sign(u.payer.public_key, TransferDigest(u))
      BY <3>2 DEF IsTransfer, SignedTransfer, TransferDigest
    <3>4. /\ t.payer = u.payer /\ t.payee = e /\ t.nonce = u.nonce /\ t.counter = u.counter
          /\ t.amount_cents = u.amount_cents /\ t.signature = u.signature
      BY <3>1, <3>3 DEF SignedTransfer
    <3>5. TransferDigest(t) = TransferDigest(u)
      BY <1>1, <3>3, <3>4 DEF Verifies, Sign
    <3>6. e = u.payee
      BY <3>4, <3>5 DEF TransferDigest
    <3>7. t = u
      BY <3>1, <3>3, <3>6 DEF SignedTransfer
    <3> QED BY <3>7
  <2>3. CASE \E c \in StrangersCertificates : t.payer = c
    BY <1>1, <1>2, <2>3, OfflineEuroAssumption
       DEF StrangersCertificates, SignedCertificate, CertificateVerifies, Verifies, Sign
  <2>4. ASSUME NEW c \in StrangersCertificates, NEW r \in requests, NEW k \in Counters,
               t = SignedTransfer(c, r.payee.device, r.amount_cents, r.nonce, k)
        PROVE  t.payer = c
    BY <2>4 DEF SignedTransfer
  <2> QED BY <2>1, <2>2, <2>3, <2>4 DEF TransferCopies, WithAlteredAmounts
<1> QED BY <1>1, <1>2, <1>3

\* An altered funding does not verify.
LEMMA GenuineFunding ==
  ASSUME EuroInv, NEW d \in Installed, NEW f \in WithAlteredAmounts(fundings),
         ApplyVerdict(d, f) = "Ok"
  PROVE  f \in fundings /\ f.device = d /\ f.nonce \in DOMAIN pending_funding[d]
         /\ f.amount_cents = pending_funding[d][f.nonce] /\ f.nonce \notin credited[d]
<1>1. /\ f.device = certificate[d].device
      /\ Verifies(IssuerOf(d), FundingDigest(f), f.signature)
      /\ f.nonce \notin credited[d]
      /\ f.nonce \in DOMAIN pending_funding[d]
      /\ f.amount_cents = pending_funding[d][f.nonce]
  BY DEF ApplyVerdict
<1>2. certificate[d].device = d
  BY DEF EuroInv, WalletInv, WalletTypeOK
<1>3. f \in fundings
  <2>1. CASE \E u \in fundings, a \in AlteredAmounts : f = [u EXCEPT !.amount_cents = a]
    <3>1. PICK u \in fundings, a \in AlteredAmounts : f = [u EXCEPT !.amount_cents = a]
      BY <2>1
    <3>2. IsFunding(u)
      BY DEF EuroInv, NetworkTypeOK
    <3>3. /\ u = SignedFunding(u.device, u.amount_cents, u.nonce)
          /\ u.signature = Sign(IssuerKey, FundingDigest(u))
      BY <3>2 DEF IsFunding, SignedFunding, FundingDigest
    <3>4. f.amount_cents = a /\ f.signature = u.signature
      BY <3>1, <3>3 DEF SignedFunding
    <3>5. FundingDigest(f) = FundingDigest(u)
      BY <1>1, <3>3, <3>4 DEF Verifies, Sign
    <3>6. a = u.amount_cents
      BY <3>4, <3>5 DEF FundingDigest
    <3>7. f = u
      BY <3>1, <3>3, <3>6 DEF SignedFunding
    <3> QED BY <3>7
  <2> QED BY <2>1 DEF WithAlteredAmounts
<1> QED BY <1>1, <1>2, <1>3

\* An altered order does not verify.
LEMMA GenuineDefunding ==
  ASSUME EuroInv, NEW o \in WithAlteredAmounts(defundings), DefundVerdict(o) = "Ok"
  PROVE  /\ o \in defundings /\ o.device \in DOMAIN devices
         /\ ~(o.counter <= devices[o.device].last_defunding_counter)
<1>1. /\ o.device \in DOMAIN devices
      /\ Verifies(devices[o.device].public_key, DefundingDigest(o), o.signature)
      /\ ~(o.counter <= devices[o.device].last_defunding_counter)
  BY DEF DefundVerdict
<1>2. o \in defundings
  <2>1. CASE \E u \in defundings, a \in AlteredAmounts : o = [u EXCEPT !.amount_cents = a]
    <3>1. PICK u \in defundings, a \in AlteredAmounts : o = [u EXCEPT !.amount_cents = a]
      BY <2>1
    <3>2. IsDefunding(u)
      BY DEF EuroInv, NetworkTypeOK
    <3>3. /\ u = SignedDefunding(u.device, u.device, u.amount_cents, u.counter)
          /\ u.signature = Sign(u.device, DefundingDigest(u))
      BY <3>2 DEF IsDefunding, SignedDefunding, DefundingDigest
    <3>4. o.amount_cents = a /\ o.signature = u.signature
      BY <3>1, <3>3 DEF SignedDefunding
    <3>5. DefundingDigest(o) = DefundingDigest(u)
      BY <1>1, <3>3, <3>4 DEF Verifies, Sign
    <3>6. a = u.amount_cents
      BY <3>4, <3>5 DEF DefundingDigest
    <3>7. o = u
      BY <3>1, <3>3, <3>6 DEF SignedDefunding
    <3> QED BY <3>7
  <2> QED BY <2>1 DEF WithAlteredAmounts
<1> QED BY <1>1, <1>2

\* A request that is paid is for an installed element, whatever else was altered.
LEMMA PayableRequest ==
  ASSUME EuroInv, NEW d \in Installed, NEW r \in RequestCopies, PayVerdict(d, r) = "Ok"
  PROVE  /\ r.payee.device \in Installed /\ r.amount_cents \in U64 /\ r.nonce \in Nonces
         /\ DebitVerdict(d, r.amount_cents) = "Ok"
<1>1. CertificateVerifies(r.payee, IssuerOf(d)) /\ DebitVerdict(d, r.amount_cents) = "Ok"
  BY DEF PayVerdict
<1>2. IssuerOf(d) = IssuerKey
  BY TrustsIssuer
<1>3. \A u \in requests :
        /\ u = [payee |-> u.payee, amount_cents |-> u.amount_cents, nonce |-> u.nonce]
        /\ u.payee.device \in Installed /\ u.amount_cents \in U64 /\ u.nonce \in Nonces
  BY DEF EuroInv, NetworkTypeOK, IsPaymentRequest, InCircuit
<1>4. AlteredAmounts \subseteq U64
  BY OfflineEuroAssumption
<1>5. CASE r \in WithAlteredAmounts(requests)
  BY <1>1, <1>3, <1>4, <1>5 DEF WithAlteredAmounts
<1>6. CASE \E u \in requests, c \in StrangersCertificates : r = [u EXCEPT !.payee = c]
  <2>1. PICK u \in requests, c \in StrangersCertificates : r = [u EXCEPT !.payee = c]
    BY <1>6
  <2>2. r.payee = c
    BY <1>3, <2>1
  <2> QED BY <1>1, <1>2, <2>2, OfflineEuroAssumption
          DEF StrangersCertificates, SignedCertificate, CertificateVerifies, Verifies, Sign
<1> QED BY <1>1, <1>5, <1>6 DEF RequestCopies

-----------------------------------------------------------------------------
(* The operations, on the parties' own invariants left to their modules. *)

\* A step that does not touch the issuer keeps its books.
LEMMA IssuerStutterKept ==
  ASSUME IssuerInv, UNCHANGED issuerVars
  PROVE  IssuerInv'
BY DEF issuerVars, IssuerInv, IssuerTypeOK, BooksBalance, DeviceRecord

\* An account opened moves nothing in the circuit.
LEMMA OpenKept ==
  ASSUME EuroInv, NEW account \in Accounts, NEW balance \in OpeningBalances, Open(account, balance)
  PROVE  EuroInv'
<1>1. /\ OpenAccount(account, balance) /\ money' <= MaxMoney
      /\ UNCHANGED <<walletVars, network, lost, history>>
  BY DEF Open
<1>2. /\ UNCHANGED <<certificate, balance_cents, incoming, pending_funding, credited, counter, state, rng>>
      /\ UNCHANGED <<requests, transfers, funding_requests, fundings, defundings>>
      /\ UNCHANGED <<lost, received, applied, cashed, credits, abandoned, minted>>
      /\ UNCHANGED <<devices, funding_nonces, offline_float, overflowed>>
  BY <1>1 DEF walletVars, network, history, OpenAccount
<1>3. WalletInv'
  BY <1>1, WalletStutterKept DEF EuroInv
<1>4. IssuerInv'
  BY <1>1, OpenAccountKept, OfflineEuroAssumption DEF EuroInv
<1>5. NetworkTypeOK' /\ HistoryTypeOK'
  BY <1>2 DEF EuroInv, NetworkTypeOK, HistoryTypeOK, Installed
<1>6. Certified' /\ InCircuit' /\ Numbered'
  BY <1>2 DEF EuroInv, Certified, InCircuit, Numbered, Installed
<1>7. Marked' /\ Closed' /\ Counted'
  BY <1>2 DEF EuroInv, Marked, Closed, Counted, Installed
<1>8. Countable' /\ Sourced' /\ FloatIsBacked'
  BY <1>1, <1>2 DEF EuroInv, Countable, Sourced, FloatIsBacked, Installed, OnDevices, InTransit
<1> QED BY <1>3, <1>4, <1>5, <1>6, <1>7, <1>8 DEF EuroInv

\* Enrolment adds an element with nothing on it, which nothing has been sent to.
LEMMA EnrolKept ==
  ASSUME EuroInv, NEW d \in Devices, NEW account \in Accounts, NEW limit \in Limits,
         Enrol(d, account, limit)
  PROVE  EuroInv'
<1> DEFINE c == SignedCertificate(d, d, limit, IssuerKey)
<1>1. /\ CertifyDevice(d, account, d) /\ Install(c, d, IssuerKey)
      /\ UNCHANGED <<network, lost, history>>
  BY DEF Enrol
<1>2. c.device = d /\ c.public_key = d /\ c.holding_limit_cents = limit /\ limit \in U64
  BY OfflineEuroAssumption DEF SignedCertificate
<1>3. IsCertificate(c, IssuerKey)
  <2>1. c = SignedCertificate(c.device, c.public_key, c.holding_limit_cents, IssuerKey)
    BY <1>2
  <2> HIDE DEF c
  <2> QED BY <1>2, <2>1 DEF IsCertificate, Keys
<1> HIDE DEF c
<1>4. /\ certificate' = Insert(certificate, d, c) /\ d \notin Installed
      /\ balance_cents' = [balance_cents EXCEPT ![d] = 0]
      /\ incoming' = [incoming EXCEPT ![d] = NoEntries]
      /\ pending_funding' = [pending_funding EXCEPT ![d] = NoEntries]
      /\ credited' = [credited EXCEPT ![d] = {}]
      /\ counter' = [counter EXCEPT ![d] = 0]
      /\ state' = [state EXCEPT ![d] = "Sealed"]
      /\ UNCHANGED rng
  BY <1>1, <1>2 DEF Install
<1>5. /\ devices' = Insert(devices, d, [account |-> account, public_key |-> d,
                                        last_defunding_counter |-> 0])
      /\ UNCHANGED <<accounts, funding_nonces, offline_float, money, overflowed>>
      /\ UNCHANGED <<requests, transfers, funding_requests, fundings, defundings>>
      /\ UNCHANGED <<lost, received, applied, cashed, credits, abandoned, minted>>
  BY <1>1 DEF CertifyDevice, network, history
<1>6. WalletInv'
  BY <1>1, <1>2, InstallKept DEF EuroInv
<1>7. IssuerInv'
  BY <1>1, CertifyDeviceKept DEF EuroInv, Keys
<1>8. /\ (Installed)' = Installed \cup {d} /\ certificate'[d] = c
      /\ \A e \in Installed : certificate'[e] = certificate[e]
  BY <1>4 DEF Installed, Insert
<1>9. /\ DOMAIN devices' = DOMAIN devices \cup {d} /\ devices'[d].public_key = d
      /\ \A e \in Installed : devices'[e] = devices[e]
  BY <1>4, <1>5 DEF Insert, EuroInv, Certified
<1>10. balance_cents' = balance_cents
  <2>1. balance_cents[d] = 0 /\ balance_cents = [e \in Devices |-> balance_cents[e]]
    BY <1>4 DEF EuroInv, Countable, WalletInv, WalletTypeOK
  <2> QED BY <1>4, <2>1
<1>11. NetworkTypeOK' /\ HistoryTypeOK'
  BY <1>5, <1>8 DEF EuroInv, NetworkTypeOK, HistoryTypeOK
<1>12. Certified'
  BY <1>2, <1>3, <1>8, <1>9 DEF EuroInv, Certified
<1>13. InCircuit'
  BY <1>5, <1>8 DEF EuroInv, InCircuit
<1>14. Numbered'
  BY <1>4, <1>5 DEF EuroInv, Numbered, InCircuit, WalletInv, WalletTypeOK
<1>15. Marked'
  BY <1>4, <1>5, <1>9 DEF EuroInv, Marked, InCircuit, HistoryTypeOK, WalletInv, WalletTypeOK
<1>16. Closed'
  <2>1. DOMAIN NoEntries = {}
    BY DEF NoEntries
  <2> QED BY <1>4, <1>5, <2>1 DEF EuroInv, Closed, WalletInv, WalletTypeOK
<1>17. Counted'
  <2>1. ASSUME NEW e \in Devices \ {d} PROVE credited'[e] = credited[e]
    BY <1>4, <2>1 DEF EuroInv, WalletInv, WalletTypeOK
  <2> QED BY <1>4, <1>5, <1>8, <2>1 DEF EuroInv, Counted, WalletInv, WalletTypeOK, HistoryTypeOK
<1>18. Countable' /\ FloatIsBacked'
  BY <1>5, <1>8, <1>10 DEF EuroInv, Countable, FloatIsBacked, OnDevices, InTransit
<1>19. Sourced'
  BY <1>4, <1>5, <1>8 DEF EuroInv, Sourced, WalletInv, WalletTypeOK
<1> QED BY <1>6, <1>7, <1>11, <1>12, <1>13, <1>14, <1>15, <1>16, <1>17, <1>18, <1>19 DEF EuroInv

\* A lost element keeps what it holds.
LEMMA LoseKept ==
  ASSUME EuroInv, NEW d \in Installed, Lose(d)
  PROVE  EuroInv'
<1>1. /\ UNCHANGED <<walletVars, issuerVars, network, history>> /\ lost' = lost \cup {d}
  BY DEF Lose
<1>2. /\ UNCHANGED <<certificate, balance_cents, incoming, pending_funding, credited, counter, state, rng>>
      /\ UNCHANGED <<requests, transfers, funding_requests, fundings, defundings>>
      /\ UNCHANGED <<received, applied, cashed, credits, abandoned, minted>>
      /\ UNCHANGED <<devices, funding_nonces, offline_float, money, overflowed>>
  BY <1>1 DEF walletVars, network, history, issuerVars
<1>3. WalletInv' /\ IssuerInv'
  BY <1>1, WalletStutterKept, IssuerStutterKept DEF EuroInv
<1>4. NetworkTypeOK' /\ HistoryTypeOK'
  BY <1>1, <1>2 DEF EuroInv, NetworkTypeOK, HistoryTypeOK, Installed
<1>5. Certified' /\ InCircuit' /\ Numbered'
  BY <1>2 DEF EuroInv, Certified, InCircuit, Numbered, Installed
<1>6. Marked' /\ Closed' /\ Counted'
  BY <1>2 DEF EuroInv, Marked, Closed, Counted, Installed
<1>7. Countable' /\ Sourced' /\ FloatIsBacked'
  BY <1>2 DEF EuroInv, Countable, Sourced, FloatIsBacked, Installed, OnDevices, InTransit
<1> QED BY <1>3, <1>4, <1>5, <1>6, <1>7 DEF EuroInv

\* Cracking an element mints nothing yet.
LEMMA CrackedKept ==
  ASSUME EuroInv, NEW d \in Installed, Crack(d)
  PROVE  EuroInv'
<1>1. CrackSecureElement(d) /\ UNCHANGED <<issuerVars, network, lost, history>>
  BY DEF Crack
<1>2. /\ state' = [state EXCEPT ![d] = "Cracked"]
      /\ UNCHANGED <<certificate, balance_cents, incoming, pending_funding, credited, counter, rng>>
      /\ UNCHANGED <<requests, transfers, funding_requests, fundings, defundings>>
      /\ UNCHANGED <<lost, received, applied, cashed, credits, abandoned, minted>>
      /\ UNCHANGED <<devices, funding_nonces, offline_float, money, overflowed>>
  BY <1>1 DEF CrackSecureElement, network, history, issuerVars
<1>3. WalletInv' /\ IssuerInv'
  BY <1>1, CrackKept, IssuerStutterKept DEF EuroInv
<1>4. NetworkTypeOK' /\ HistoryTypeOK'
  BY <1>2 DEF EuroInv, NetworkTypeOK, HistoryTypeOK, Installed
<1>5. Certified' /\ InCircuit' /\ Numbered'
  BY <1>2 DEF EuroInv, Certified, InCircuit, Numbered, Installed
<1>6. Marked' /\ Closed' /\ Counted'
  BY <1>2 DEF EuroInv, Marked, Closed, Counted, Installed
<1>7. Countable' /\ FloatIsBacked'
  BY <1>2 DEF EuroInv, Countable, FloatIsBacked, Installed, OnDevices, InTransit
<1>8. Sourced'
  BY <1>2 DEF EuroInv, Sourced, Installed, WalletInv, WalletTypeOK
<1> QED BY <1>3, <1>4, <1>5, <1>6, <1>7, <1>8 DEF EuroInv

\* A step that changes nothing.
LEMMA NothingKept ==
  ASSUME EuroInv, UNCHANGED vars
  PROVE  EuroInv'
<1>1. UNCHANGED <<walletVars, issuerVars, network, lost, history>>
  BY DEF vars
<1>2. /\ UNCHANGED <<certificate, balance_cents, incoming, pending_funding, credited, counter, state, rng>>
      /\ UNCHANGED <<requests, transfers, funding_requests, fundings, defundings>>
      /\ UNCHANGED <<lost, received, applied, cashed, credits, abandoned, minted>>
      /\ UNCHANGED <<devices, funding_nonces, offline_float, money, overflowed>>
  BY <1>1 DEF walletVars, network, history, issuerVars
<1>3. WalletInv' /\ IssuerInv'
  BY <1>1, WalletStutterKept, IssuerStutterKept DEF EuroInv
<1>4. NetworkTypeOK' /\ HistoryTypeOK'
  BY <1>2 DEF EuroInv, NetworkTypeOK, HistoryTypeOK, Installed
<1>5. Certified' /\ InCircuit' /\ Numbered'
  BY <1>2 DEF EuroInv, Certified, InCircuit, Numbered, Installed
<1>6. Marked' /\ Closed' /\ Counted'
  BY <1>2 DEF EuroInv, Marked, Closed, Counted, Installed
<1>7. Countable' /\ Sourced' /\ FloatIsBacked'
  BY <1>2 DEF EuroInv, Countable, Sourced, FloatIsBacked, Installed, OnDevices, InTransit
<1> QED BY <1>3, <1>4, <1>5, <1>6, <1>7 DEF EuroInv

-----------------------------------------------------------------------------
(* Requests made and cancelled. *)

\* A payment request has a nonce never drawn before, so one never cancelled.
LEMMA AskPaymentKept ==
  ASSUME EuroInv, NEW d \in Installed, NEW amount \in CentAmounts, AskPayment(d, amount)
  PROVE  EuroInv'
<1> DEFINE new == PaymentRequestOf(d, amount)
<1>1. /\ RequestPayment(d, amount) /\ requests' = requests \cup {new}
      /\ UNCHANGED <<issuerVars, transfers, funding_requests, fundings, defundings, lost, history>>
  BY DEF AskPayment
<1>2. amount \in U64 /\ d \in Devices
  BY OfflineEuroAssumption DEF EuroInv, WalletInv, WalletTypeOK
<1>3. /\ rng[d] < MaxDraws /\ rng' = [rng EXCEPT ![d] = rng[d] + 1]
      /\ incoming' = [incoming EXCEPT ![d] = Insert(incoming[d], rng[d] + 1, amount)]
      /\ UNCHANGED <<certificate, balance_cents, pending_funding, credited, counter, state>>
      /\ UNCHANGED <<transfers, funding_requests, fundings, defundings>>
      /\ UNCHANGED <<lost, received, applied, cashed, credits, abandoned, minted>>
      /\ UNCHANGED <<devices, funding_nonces, offline_float, money, overflowed>>
  BY <1>1 DEF RequestPayment, Reserve, NextNonce, history, issuerVars
<1>4. rng[d] \in Nat /\ rng[d] + 1 \in Nonces /\ rng[d] + 1 \notin 1 .. rng[d]
  BY <1>2, <1>3, BoundsAssumption DEF EuroInv, WalletInv, WalletTypeOK, Nonces
<1>5. WalletInv' /\ IssuerInv'
  BY <1>1, <1>2, RequestPaymentKept, IssuerStutterKept DEF EuroInv
<1>6. /\ new = [payee |-> certificate[d], amount_cents |-> amount, nonce |-> rng[d] + 1]
      /\ new.payee.device = d
  BY DEF PaymentRequestOf, NextNonce, EuroInv, WalletInv, WalletTypeOK
<1>7. IsPaymentRequest(new, IssuerKey)
  BY <1>2, <1>4, <1>6 DEF IsPaymentRequest, EuroInv, Certified
<1> HIDE DEF new
<1>8. NetworkTypeOK' /\ HistoryTypeOK'
  BY <1>1, <1>3, <1>7 DEF EuroInv, NetworkTypeOK, HistoryTypeOK, Installed
<1>9. Certified' /\ InCircuit' /\ Numbered'
  BY <1>1, <1>3, <1>6 DEF EuroInv, Certified, InCircuit, Numbered, Installed
<1>10. Marked' /\ Counted'
  BY <1>3 DEF EuroInv, Marked, Counted, Installed
<1>11. Closed'
  <2>1. DOMAIN incoming'[d] = DOMAIN incoming[d] \cup {rng[d] + 1}
    BY <1>2, <1>3 DEF Insert, EuroInv, WalletInv, WalletTypeOK
  <2>2. 1 .. rng[d] \subseteq 1 .. rng[d] + 1
    BY <1>4
  <2> QED BY <1>2, <1>3, <1>4, <2>1, <2>2 DEF EuroInv, Closed, WalletInv, WalletTypeOK
<1>12. Countable' /\ Sourced' /\ FloatIsBacked'
  BY <1>3 DEF EuroInv, Countable, Sourced, FloatIsBacked, Installed, OnDevices, InTransit
<1> QED BY <1>5, <1>8, <1>9, <1>10, <1>11, <1>12 DEF EuroInv

\* A funding request has a nonce never drawn before.
LEMMA AskFundingKept ==
  ASSUME EuroInv, NEW d \in Installed, NEW amount \in CentAmounts, AskFunding(d, amount)
  PROVE  EuroInv'
<1> DEFINE new == FundingRequestOf(d, amount)
<1>1. /\ RequestFunding(d, amount) /\ funding_requests' = funding_requests \cup {new}
      /\ UNCHANGED <<issuerVars, requests, transfers, fundings, defundings, lost, history>>
  BY DEF AskFunding
<1>2. amount \in U64 /\ d \in Devices /\ certificate[d].device = d /\ KeyOf(d) = d
  BY OfflineEuroAssumption DEF EuroInv, WalletInv, WalletTypeOK, Certified, KeyOf
<1>3. /\ rng[d] < MaxDraws /\ rng' = [rng EXCEPT ![d] = rng[d] + 1]
      /\ pending_funding' = [pending_funding EXCEPT ![d] = Insert(pending_funding[d], rng[d] + 1, amount)]
      /\ UNCHANGED <<certificate, balance_cents, incoming, credited, counter, state>>
      /\ UNCHANGED <<requests, transfers, fundings, defundings>>
      /\ UNCHANGED <<lost, received, applied, cashed, credits, abandoned, minted>>
      /\ UNCHANGED <<devices, funding_nonces, offline_float, money, overflowed>>
  BY <1>1 DEF RequestFunding, Reserve, NextNonce, history, issuerVars
<1>4. rng[d] \in Nat /\ rng[d] + 1 \in Nonces /\ rng[d] + 1 \notin 1 .. rng[d]
  BY <1>2, <1>3, BoundsAssumption DEF EuroInv, WalletInv, WalletTypeOK, Nonces
<1>5. WalletInv' /\ IssuerInv'
  BY <1>1, <1>2, RequestFundingKept, IssuerStutterKept DEF EuroInv
<1>6. new = SignedFundingRequest(d, d, amount, rng[d] + 1)
  BY <1>2 DEF FundingRequestOf, NextNonce
<1>7. IsFundingRequest(new)
  BY <1>2, <1>4, <1>6 DEF IsFundingRequest, SignedFundingRequest
<1> HIDE DEF new
<1>8. NetworkTypeOK' /\ HistoryTypeOK'
  BY <1>1, <1>3, <1>7 DEF EuroInv, NetworkTypeOK, HistoryTypeOK, Installed
<1>9. Certified' /\ InCircuit' /\ Numbered'
  BY <1>3 DEF EuroInv, Certified, InCircuit, Numbered, Installed
<1>10. Marked' /\ Counted'
  BY <1>3 DEF EuroInv, Marked, Counted, Installed
<1>11. Closed'
  <2>1. DOMAIN pending_funding'[d] = DOMAIN pending_funding[d] \cup {rng[d] + 1}
    BY <1>2, <1>3 DEF Insert, EuroInv, WalletInv, WalletTypeOK
  <2>2. 1 .. rng[d] \subseteq 1 .. rng[d] + 1
    BY <1>4
  <2> QED BY <1>2, <1>3, <1>4, <2>1, <2>2 DEF EuroInv, Closed, WalletInv, WalletTypeOK
<1>12. Countable' /\ Sourced' /\ FloatIsBacked'
  BY <1>3 DEF EuroInv, Countable, Sourced, FloatIsBacked, Installed, OnDevices, InTransit
<1> QED BY <1>5, <1>8, <1>9, <1>10, <1>11, <1>12 DEF EuroInv

\* A payment request cancelled is closed: it was open, so it was not credited.
LEMMA AbandonPaymentKept ==
  ASSUME EuroInv, NEW d \in Installed, NEW nonce \in Nonces, AbandonPayment(d, nonce)
  PROVE  EuroInv'
<1>1. /\ CancelRequest(d, nonce)
      /\ abandoned' = [abandoned EXCEPT ![d] = @ \cup {nonce}]
      /\ UNCHANGED <<issuerVars, network, lost, received, applied, cashed, credits, minted>>
  BY DEF AbandonPayment
<1>2. d \in Devices
  BY DEF EuroInv, WalletInv, WalletTypeOK
<1>3. /\ nonce \in DOMAIN incoming[d]
      /\ incoming' = [incoming EXCEPT ![d] = Remove(incoming[d], nonce)]
      /\ UNCHANGED <<certificate, balance_cents, pending_funding, credited, counter, state, rng>>
      /\ UNCHANGED <<requests, transfers, funding_requests, fundings, defundings>>
      /\ UNCHANGED <<lost, received, applied, cashed, credits, minted>>
      /\ UNCHANGED <<devices, funding_nonces, offline_float, money, overflowed>>
  BY <1>1 DEF CancelRequest, network, issuerVars
<1>4. WalletInv' /\ IssuerInv'
  BY <1>1, CancelRequestKept, IssuerStutterKept DEF EuroInv
<1>5. NetworkTypeOK' /\ HistoryTypeOK'
  BY <1>1, <1>2, <1>3 DEF EuroInv, NetworkTypeOK, HistoryTypeOK, Installed
<1>6. Certified' /\ InCircuit' /\ Numbered'
  BY <1>3 DEF EuroInv, Certified, InCircuit, Numbered, Installed
<1>7. Marked' /\ Counted'
  BY <1>3 DEF EuroInv, Marked, Counted, Installed
<1>8. Closed'
  <2>1. DOMAIN incoming'[d] = DOMAIN incoming[d] \ {nonce}
    BY <1>2, <1>3, RemoveIs DEF EuroInv, WalletInv, WalletTypeOK
  <2>2. nonce \in 1 .. rng[d] /\ nonce \notin credited[d] /\ nonce \notin DOMAIN pending_funding[d]
    BY <1>2, <1>3 DEF EuroInv, WalletInv, NonceUsedOnce
  <2> QED BY <1>1, <1>2, <1>3, <2>1, <2>2 DEF EuroInv, Closed, HistoryTypeOK, WalletInv, WalletTypeOK
<1>9. Countable' /\ Sourced' /\ FloatIsBacked'
  BY <1>3 DEF EuroInv, Countable, Sourced, FloatIsBacked, Installed, OnDevices, InTransit
<1> QED BY <1>4, <1>5, <1>6, <1>7, <1>8, <1>9 DEF EuroInv

\* A funding request cancelled is closed.
LEMMA AbandonFundingKept ==
  ASSUME EuroInv, NEW d \in Installed, NEW nonce \in Nonces, AbandonFunding(d, nonce)
  PROVE  EuroInv'
<1>1. /\ CancelFunding(d, nonce)
      /\ abandoned' = [abandoned EXCEPT ![d] = @ \cup {nonce}]
      /\ UNCHANGED <<issuerVars, network, lost, received, applied, cashed, credits, minted>>
  BY DEF AbandonFunding
<1>2. d \in Devices
  BY DEF EuroInv, WalletInv, WalletTypeOK
<1>3. /\ nonce \in DOMAIN pending_funding[d]
      /\ pending_funding' = [pending_funding EXCEPT ![d] = Remove(pending_funding[d], nonce)]
      /\ UNCHANGED <<certificate, balance_cents, incoming, credited, counter, state, rng>>
      /\ UNCHANGED <<requests, transfers, funding_requests, fundings, defundings>>
      /\ UNCHANGED <<lost, received, applied, cashed, credits, minted>>
      /\ UNCHANGED <<devices, funding_nonces, offline_float, money, overflowed>>
  BY <1>1 DEF CancelFunding, network, issuerVars
<1>4. WalletInv' /\ IssuerInv'
  BY <1>1, CancelFundingKept, IssuerStutterKept DEF EuroInv
<1>5. NetworkTypeOK' /\ HistoryTypeOK'
  BY <1>1, <1>2, <1>3 DEF EuroInv, NetworkTypeOK, HistoryTypeOK, Installed
<1>6. Certified' /\ InCircuit' /\ Numbered'
  BY <1>3 DEF EuroInv, Certified, InCircuit, Numbered, Installed
<1>7. Marked' /\ Counted'
  BY <1>3 DEF EuroInv, Marked, Counted, Installed
<1>8. Closed'
  <2>1. DOMAIN pending_funding'[d] = DOMAIN pending_funding[d] \ {nonce}
    BY <1>2, <1>3, RemoveIs DEF EuroInv, WalletInv, WalletTypeOK
  <2>2. nonce \in 1 .. rng[d] /\ nonce \notin credited[d] /\ nonce \notin DOMAIN incoming[d]
    BY <1>2, <1>3 DEF EuroInv, WalletInv, NonceUsedOnce
  <2> QED BY <1>1, <1>2, <1>3, <2>1, <2>2 DEF EuroInv, Closed, HistoryTypeOK, WalletInv, WalletTypeOK
<1>9. Countable' /\ Sourced' /\ FloatIsBacked'
  BY <1>3 DEF EuroInv, Countable, Sourced, FloatIsBacked, Installed, OnDevices, InTransit
<1> QED BY <1>4, <1>5, <1>6, <1>7, <1>8, <1>9 DEF EuroInv

-----------------------------------------------------------------------------
(* Debits: value goes from an element, or from nowhere, into transit. *)

\* What is in transit is finitely many amounts.
LEMMA TransitAmounts ==
  ASSUME EuroInv
  PROVE  /\ AreAmounts(transfers \ received) /\ Worth(transfers \ received) \in Nat
         /\ AreAmounts(fundings \ applied) /\ Worth(fundings \ applied) \in Nat
         /\ AreAmounts(defundings \ cashed) /\ Worth(defundings \ cashed) \in Nat
<1>1. /\ IsFiniteSet(transfers \ received) /\ IsFiniteSet(fundings \ applied)
      /\ IsFiniteSet(defundings \ cashed)
  BY FS_Difference DEF EuroInv, Countable
<1>2. /\ \A t \in transfers : t.amount_cents \in U64
      /\ \A f \in fundings : f.amount_cents \in U64
      /\ \A o \in defundings : o.amount_cents \in U64
  BY DEF EuroInv, NetworkTypeOK, IsTransfer, IsFunding, IsDefunding
<1>3. /\ AreAmounts(transfers \ received) /\ AreAmounts(fundings \ applied)
      /\ AreAmounts(defundings \ cashed)
  BY <1>1, <1>2, U64Facts DEF AreAmounts
<1> QED BY <1>3, WorthNat

\* The balances are finitely many amounts.
LEMMA BalancesPurse ==
  ASSUME EuroInv
  PROVE  IsPurse(balance_cents) /\ OnDevices \in Nat /\ DOMAIN balance_cents = Devices
<1>1. DOMAIN balance_cents = Devices /\ \A d \in Devices : balance_cents[d] \in Nat
  BY U64Facts DEF EuroInv, WalletInv, WalletTypeOK
<1>2. IsPurse(balance_cents)
  BY <1>1, OfflineEuroAssumption DEF IsPurse
<1> QED BY <1>1, <1>2, PurseNat DEF OnDevices

\* A debit takes its amount off the elements, or mints it.
LEMMA DebitTakes ==
  ASSUME EuroInv, NEW d \in Installed, NEW amount \in U64, Debit(d, amount), Mint(d, amount)
  PROVE  /\ OnDevices' + minted + amount = OnDevices + minted'
         /\ OnDevices' \in Nat /\ minted' \in Nat /\ minted' >= minted
         /\ \A e \in Devices \ {d} : balance_cents'[e] = balance_cents[e]
<1>1. /\ balance_cents' = IF state[d] = "Sealed"
                          THEN [balance_cents EXCEPT ![d] = balance_cents[d] - amount]
                          ELSE balance_cents
      /\ minted' = IF state[d] = "Cracked" THEN minted + amount ELSE minted
      /\ ~(amount > balance_cents[d])
  BY DEF Debit, DebitVerdict, Mint
<1>2. /\ IsPurse(balance_cents) /\ OnDevices \in Nat /\ DOMAIN balance_cents = Devices
      /\ d \in Devices /\ balance_cents[d] \in Nat /\ amount \in Nat /\ minted \in Nat
  BY BalancesPurse, U64Facts DEF EuroInv, WalletInv, WalletTypeOK, HistoryTypeOK
<1>3. CASE state[d] = "Sealed"
  <2> DEFINE rest == balance_cents[d] - amount
  <2>1. rest \in Nat
    BY <1>1, <1>2
  <2>2. balance_cents' = [balance_cents EXCEPT ![d] = rest] /\ minted' = minted
    BY <1>1, <1>3
  <2> HIDE DEF rest
  <2>3. /\ IsPurse(balance_cents')
        /\ SumFunction(balance_cents') = SumFunction(balance_cents) - balance_cents[d] + rest
    BY <1>2, <2>1, <2>2, PurseUpdate
  <2>4. SumFunction(balance_cents') \in Nat
    BY <2>3, PurseNat
  <2>5. SumFunction(balance_cents') = SumFunction(balance_cents) - amount
    BY <1>2, <2>3 DEF rest, OnDevices
  <2> QED BY <1>2, <2>2, <2>4, <2>5 DEF OnDevices
<1>4. CASE state[d] = "Cracked"
  <2>1. balance_cents' = balance_cents /\ minted' = minted + amount
    BY <1>1, <1>4
  <2> QED BY <1>2, <2>1 DEF OnDevices
<1> QED BY <1>3, <1>4 DEF EuroInv, WalletInv, WalletTypeOK

\* What no step of one element changes, debits included.
LEMMA DebitedElement ==
  ASSUME EuroInv, NEW d \in Installed, NEW amount \in U64, Debit(d, amount), Mint(d, amount),
         UNCHANGED <<certificate, incoming, pending_funding, credited, state, rng, devices,
                     money, overflowed, fundings, received, applied, cashed, credits, abandoned>>
  PROVE  Certified' /\ Marked' /\ Closed' /\ Counted' /\ Sourced'
<1>1. Certified' /\ Marked' /\ Counted'
  BY DEF EuroInv, Certified, Marked, Counted, Installed
<1>2. Closed'
  BY DEF EuroInv, Closed
<1>3. Sourced'
  <2>1. minted' > 0 => \E e \in Installed : state[e] = "Cracked"
    BY DEF Mint, EuroInv, Sourced
  <2>2. MaxMoney + minted' <= MaxU64 => MaxMoney + minted <= MaxU64
    BY DebitTakes, OfflineEuroAssumption, U64Facts DEF EuroInv, HistoryTypeOK
  <2> QED BY <2>1, <2>2 DEF EuroInv, Sourced, Installed
<1> QED BY <1>1, <1>2, <1>3

\* The counter of the next debit is one no message of the element carries.
LEMMA CounterIsFresh ==
  ASSUME EuroInv, NEW d \in Installed, counter[d] < MaxDebits
  PROVE  /\ NextCounter(d) \in Counters
         /\ \A t \in transfers : t.payer.device = d => t.counter < NextCounter(d)
         /\ \A o \in defundings : o.device = d => o.counter < NextCounter(d)
<1>1. counter[d] \in Nat /\ MaxDebits \in Nat
  BY BoundsAssumption DEF EuroInv, WalletInv, WalletTypeOK
<1>2. /\ \A t \in transfers : t.counter \in Nat
      /\ \A o \in defundings : o.counter \in Nat
  BY BoundsAssumption DEF EuroInv, NetworkTypeOK, IsTransfer, IsDefunding, Counters
<1> QED BY <1>1, <1>2 DEF EuroInv, Numbered, NextCounter, Counters

\* A payment: the transfer is new, and it carries what the payer gave up.
LEMMA PayRequestKept ==
  ASSUME EuroInv, NEW d \in Installed, NEW r \in RequestCopies, PayRequest(d, r)
  PROVE  EuroInv'
<1> DEFINE t == TransferOf(d, r)
           amount == r.amount_cents
<1>1. /\ Pay(d, r) /\ transfers' = transfers \cup {t} /\ Mint(d, amount)
      /\ UNCHANGED <<issuerVars, requests, funding_requests, fundings, defundings, lost,
                     received, applied, cashed, credits, abandoned>>
  BY DEF PayRequest
<1>2. /\ r.payee.device \in Installed /\ amount \in U64 /\ amount \in Nat /\ r.nonce \in Nonces
      /\ d \in Devices /\ Installed \subseteq Devices
  BY <1>1, PayableRequest, U64Facts DEF Pay, EuroInv, WalletInv, WalletTypeOK
<1>3. /\ Debit(d, amount) /\ counter[d] < MaxDebits
      /\ counter' = [counter EXCEPT ![d] = NextCounter(d)]
      /\ UNCHANGED <<certificate, incoming, pending_funding, credited, state, rng>>
      /\ UNCHANGED <<requests, funding_requests, fundings, defundings>>
      /\ UNCHANGED <<lost, received, applied, cashed, credits, abandoned>>
      /\ UNCHANGED <<devices, funding_nonces, offline_float, money, overflowed>>
  BY <1>1 DEF Pay, Debit, issuerVars
<1>4. /\ t = SignedTransfer(certificate[d], r.payee.device, amount, r.nonce, NextCounter(d))
      /\ t.payer = certificate[d] /\ t.payer.device = d /\ t.payee = r.payee.device
      /\ t.amount_cents = amount /\ t.nonce = r.nonce /\ t.counter = NextCounter(d)
  BY DEF TransferOf, SignedTransfer, EuroInv, WalletInv, WalletTypeOK
<1>5. IsTransfer(t, IssuerKey)
  BY <1>2, <1>3, <1>4, CounterIsFresh DEF IsTransfer, EuroInv, Certified
<1>6. NextCounter(d) \in Nat
  BY <1>3, CounterIsFresh DEF Counters
<1> HIDE DEF t, amount
<1>7. t \notin transfers
  BY <1>3, <1>4, <1>6, CounterIsFresh
<1>8. WalletInv' /\ IssuerInv'
  BY <1>1, <1>2, <1>3, DebitActionKept, IssuerStutterKept DEF EuroInv
<1>9. NetworkTypeOK'
  BY <1>1, <1>3, <1>5 DEF EuroInv, NetworkTypeOK
<1>10. HistoryTypeOK'
  BY <1>1, <1>2, <1>3, DebitTakes DEF EuroInv, HistoryTypeOK, Installed
<1>11. InCircuit'
  BY <1>1, <1>2, <1>3, <1>4 DEF EuroInv, InCircuit, Installed
<1>12. Numbered'
  <2>1. \A e \in Devices : /\ counter[e] \in Nat /\ counter'[e] \in Nat
                           /\ counter[e] <= counter'[e]
    BY <1>2, <1>3, <1>6 DEF EuroInv, WalletInv, WalletTypeOK, NextCounter
  <2>2. counter'[d] = NextCounter(d)
    BY <1>2, <1>3 DEF EuroInv, WalletInv, WalletTypeOK
  <2>3. /\ \A u \in transfers : u.payer.device \in Devices /\ u.counter \in Nat
        /\ \A o \in defundings : o.device \in Devices /\ o.counter \in Nat
    BY <1>2, BoundsAssumption
       DEF EuroInv, InCircuit, NetworkTypeOK, IsTransfer, IsDefunding, Counters
  <2> QED BY <1>1, <1>3, <1>4, <1>6, <2>1, <2>2, <2>3 DEF EuroInv, Numbered
<1>13. Certified' /\ Marked' /\ Closed' /\ Counted' /\ Sourced'
  BY <1>1, <1>2, <1>3, DebitedElement
<1>14. Countable'
  BY <1>1, <1>2, <1>3, DebitTakes, FS_AddElement DEF EuroInv, Countable, Installed
<1>15. FloatIsBacked'
  <2>1. (transfers \ received)' = (transfers \ received) \cup {t} /\ t \notin transfers \ received
    BY <1>1, <1>3, <1>7 DEF EuroInv, HistoryTypeOK
  <2>2. Worth((transfers \ received)') = Worth(transfers \ received) + amount
    <3> DEFINE T == transfers \ received
    <3>1. AreAmounts(T) /\ t \notin T /\ t.amount_cents \in Nat
      BY <1>2, <1>4, <2>1, TransitAmounts
    <3> HIDE DEF T
    <3>2. Worth(T \cup {t}) = Worth(T) + t.amount_cents
      BY <3>1, WorthAdd
    <3> QED BY <1>4, <2>1, <3>2 DEF T
  <2>3. InTransit' = InTransit + amount /\ InTransit \in Nat
    BY <1>2, <1>3, <2>2, TransitAmounts DEF InTransit
  <2>4. OnDevices' + minted + amount = OnDevices + minted' /\ OnDevices' \in Nat /\ minted' \in Nat
    BY <1>1, <1>2, <1>3, DebitTakes
  <2>5. OnDevices \in Nat /\ minted \in Nat /\ offline_float \in Int /\ offline_float' = offline_float
    BY <1>3, BalancesPurse DEF EuroInv, HistoryTypeOK, IssuerInv, IssuerTypeOK
  <2>6. OnDevices + InTransit = offline_float + minted
    BY DEF EuroInv, FloatIsBacked
  <2>7. amount \in Nat
    BY <1>2
  <2>8. OnDevices' + (InTransit + amount) = offline_float + minted'
    BY <2>3, <2>4, <2>5, <2>6, <2>7
  <2> QED BY <2>3, <2>5, <2>8 DEF FloatIsBacked
<1> QED BY <1>8, <1>9, <1>10, <1>11, <1>12, <1>13, <1>14, <1>15 DEF EuroInv

\* An order to defund: it is new, and it carries what the element gave up.
LEMMA OrderDefundingKept ==
  ASSUME EuroInv, NEW d \in Installed, NEW amount \in CentAmounts, OrderDefunding(d, amount)
  PROVE  EuroInv'
<1> DEFINE o == DefundingOf(d, amount)
<1>1. /\ Defund(d, amount) /\ defundings' = defundings \cup {o} /\ Mint(d, amount)
      /\ UNCHANGED <<issuerVars, requests, transfers, funding_requests, fundings, lost,
                     received, applied, cashed, credits, abandoned>>
  BY DEF OrderDefunding
<1>2. /\ amount \in U64 /\ amount \in Nat /\ d \in Devices /\ Installed \subseteq Devices
      /\ certificate[d].device = d /\ KeyOf(d) = d
  BY OfflineEuroAssumption, U64Facts
     DEF EuroInv, WalletInv, WalletTypeOK, Certified, KeyOf
<1>3. /\ Debit(d, amount) /\ counter[d] < MaxDebits
      /\ counter' = [counter EXCEPT ![d] = NextCounter(d)]
      /\ UNCHANGED <<certificate, incoming, pending_funding, credited, state, rng>>
      /\ UNCHANGED <<requests, transfers, funding_requests, fundings>>
      /\ UNCHANGED <<lost, received, applied, cashed, credits, abandoned>>
      /\ UNCHANGED <<devices, funding_nonces, offline_float, money, overflowed>>
  BY <1>1 DEF Defund, Debit, issuerVars
<1>4. /\ o = SignedDefunding(d, d, amount, NextCounter(d))
      /\ o.device = d /\ o.amount_cents = amount /\ o.counter = NextCounter(d)
  BY <1>2 DEF DefundingOf, SignedDefunding
<1>5. IsDefunding(o)
  BY <1>2, <1>3, <1>4, CounterIsFresh DEF IsDefunding
<1>6. NextCounter(d) \in Nat
  BY <1>3, CounterIsFresh DEF Counters
<1> HIDE DEF o
<1>7. o \notin defundings
  BY <1>3, <1>4, <1>6, CounterIsFresh
<1>8. WalletInv' /\ IssuerInv'
  BY <1>1, <1>2, <1>3, DebitActionKept, IssuerStutterKept DEF EuroInv
<1>9. NetworkTypeOK'
  BY <1>1, <1>3, <1>5 DEF EuroInv, NetworkTypeOK
<1>10. HistoryTypeOK'
  BY <1>1, <1>2, <1>3, DebitTakes DEF EuroInv, HistoryTypeOK, Installed
<1>11. InCircuit'
  BY <1>1, <1>3, <1>4 DEF EuroInv, InCircuit, Installed
<1>12. Numbered'
  <2>1. \A e \in Devices : /\ counter[e] \in Nat /\ counter'[e] \in Nat
                           /\ counter[e] <= counter'[e]
    BY <1>2, <1>3, <1>6 DEF EuroInv, WalletInv, WalletTypeOK, NextCounter
  <2>2. counter'[d] = NextCounter(d)
    BY <1>2, <1>3 DEF EuroInv, WalletInv, WalletTypeOK
  <2>3. /\ \A t \in transfers : t.payer.device \in Devices /\ t.counter \in Nat
        /\ \A p \in defundings : p.device \in Devices /\ p.counter \in Nat
    BY <1>2, BoundsAssumption
       DEF EuroInv, InCircuit, NetworkTypeOK, IsTransfer, IsDefunding, Counters
  <2> QED BY <1>1, <1>3, <1>4, <1>6, <2>1, <2>2, <2>3 DEF EuroInv, Numbered
<1>13. Certified' /\ Marked' /\ Closed' /\ Counted' /\ Sourced'
  BY <1>1, <1>2, <1>3, DebitedElement
<1>14. Countable'
  BY <1>1, <1>2, <1>3, DebitTakes, FS_AddElement DEF EuroInv, Countable, Installed
<1>15. FloatIsBacked'
  <2>1. (defundings \ cashed)' = (defundings \ cashed) \cup {o} /\ o \notin defundings \ cashed
    BY <1>1, <1>3, <1>7 DEF EuroInv, HistoryTypeOK
  <2>2. Worth((defundings \ cashed)') = Worth(defundings \ cashed) + amount
    <3> DEFINE D == defundings \ cashed
    <3>1. AreAmounts(D) /\ o \notin D /\ o.amount_cents \in Nat
      BY <1>2, <1>4, <2>1, TransitAmounts
    <3> HIDE DEF D
    <3>2. Worth(D \cup {o}) = Worth(D) + o.amount_cents
      BY <3>1, WorthAdd
    <3> QED BY <1>4, <2>1, <3>2 DEF D
  <2>3. InTransit' = InTransit + amount /\ InTransit \in Nat
    BY <1>2, <1>3, <2>2, TransitAmounts DEF InTransit
  <2>4. OnDevices' + minted + amount = OnDevices + minted' /\ OnDevices' \in Nat /\ minted' \in Nat
    BY <1>1, <1>2, <1>3, DebitTakes
  <2>5. OnDevices \in Nat /\ minted \in Nat /\ offline_float \in Int /\ offline_float' = offline_float
    BY <1>3, BalancesPurse DEF EuroInv, HistoryTypeOK, IssuerInv, IssuerTypeOK
  <2>6. OnDevices + InTransit = offline_float + minted
    BY DEF EuroInv, FloatIsBacked
  <2>7. amount \in Nat
    BY <1>2
  <2>8. OnDevices' + (InTransit + amount) = offline_float + minted'
    BY <2>3, <2>4, <2>5, <2>6, <2>7
  <2> QED BY <2>3, <2>5, <2>8 DEF FloatIsBacked
<1> QED BY <1>8, <1>9, <1>10, <1>11, <1>12, <1>13, <1>14, <1>15 DEF EuroInv

-----------------------------------------------------------------------------
(* Credits: value goes from transit onto an element. *)

\* A credit of what was reserved is exact: the limit keeps it from wrapping.
LEMMA CreditIsExact ==
  ASSUME NEW balance, NEW these, NEW others, NEW done, NEW draws, NEW limit \in U64,
         Sound(balance, these, others, done, draws),
         Fits(balance, these, others, limit),
         NEW nonce \in DOMAIN these
  PROVE  /\ Wrap(balance + these[nonce]) = balance + these[nonce]
         /\ balance + these[nonce] \in Nat /\ balance \in Nat /\ these[nonce] \in Nat
<1> DEFINE rest == Remove(these, nonce)
<1>1. limit \in Nat /\ limit <= MaxU64
  BY U64Facts DEF U64
<1>2. Sound(balance, rest, others, done, draws) /\ Fits(balance + these[nonce], rest, others, limit)
  BY <1>1, ReleaseKept
<1>3. /\ balance \in Nat /\ these[nonce] \in Nat
      /\ SumFunction(rest) \in Nat /\ SumFunction(others) \in Nat
  BY <1>2, OpenIsPurse, U64Facts DEF Sound, IsOpen
<1> HIDE DEF rest
<1>4. balance + these[nonce] <= MaxU64 /\ balance + these[nonce] \in Nat
  BY <1>1, <1>2, <1>3, U64Facts DEF Fits
<1> QED BY <1>3, <1>4, U64Facts

\* A balance that grows by an amount makes the elements hold that much more.
LEMMA CreditAdds ==
  ASSUME EuroInv, NEW d \in Devices, NEW amount \in Nat
  PROVE  SumFunction([balance_cents EXCEPT ![d] = balance_cents[d] + amount]) = OnDevices + amount
<1> DEFINE sum == balance_cents[d] + amount
<1>1. /\ IsPurse(balance_cents) /\ OnDevices \in Nat /\ d \in DOMAIN balance_cents
      /\ balance_cents[d] \in Nat
  BY BalancesPurse DEF IsPurse
<1>2. sum \in Nat /\ sum = balance_cents[d] + amount
  BY <1>1
<1> HIDE DEF sum
<1>3. SumFunction([balance_cents EXCEPT ![d] = sum]) = SumFunction(balance_cents) - balance_cents[d] + sum
  BY <1>1, <1>2, PurseUpdate
<1>4. SumFunction(balance_cents) = OnDevices
  BY DEF OnDevices
<1>5. SumFunction([balance_cents EXCEPT ![d] = sum]) = OnDevices + amount
  BY <1>1, <1>2, <1>3, <1>4
<1> QED BY <1>5 DEF sum

\* One more credit of a request whose nonce was not recorded yet.
LEMMA CountKept ==
  ASSUME EuroInv, NEW d \in Installed, NEW nonce \in Nonces, nonce \notin credited[d],
         Count(d, nonce), UNCHANGED certificate,
         credited' = [credited EXCEPT ![d] = credited[d] \cup {nonce}]
  PROVE  Counted' /\ credits' \in [Devices -> [Nonces -> Nat]]
<1>1. /\ credits \in [Devices -> [Nonces -> Nat]]
      /\ credited \in [Devices -> SUBSET Nonces] /\ Installed \subseteq Devices
  BY DEF EuroInv, HistoryTypeOK, WalletInv, WalletTypeOK, Installed
<1>2. credits' = [credits EXCEPT ![d] = [credits[d] EXCEPT ![nonce] = credits[d][nonce] + 1]]
  BY DEF Count
<1>3. credits' \in [Devices -> [Nonces -> Nat]]
  BY <1>1, <1>2
<1>4. /\ credits'[d][nonce] = credits[d][nonce] + 1
      /\ \A n \in Nonces \ {nonce} : credits'[d][n] = credits[d][n]
      /\ \A e \in Devices \ {d} : credits'[e] = credits[e] /\ credited'[e] = credited[e]
      /\ credited'[d] = credited[d] \cup {nonce}
  BY <1>1, <1>2
<1>5. /\ credits[d][nonce] = 0
      /\ \A e \in Installed, n \in Nonces : credits[e][n] <= IF n \in credited[e] THEN 1 ELSE 0
      /\ \A e \in Devices \ Installed, n \in Nonces : credits[e][n] = 0
      /\ Installed' = Installed
  BY <1>1 DEF EuroInv, Counted, Installed
<1>6. ASSUME NEW e \in Installed, NEW n \in Nonces
      PROVE  credits'[e][n] <= IF n \in credited'[e] THEN 1 ELSE 0
  <2>1. CASE e = d /\ n = nonce
    BY <1>4, <1>5, <2>1
  <2>2. CASE e = d /\ n # nonce
    BY <1>4, <1>5, <2>2
  <2>3. CASE e # d
    BY <1>1, <1>4, <1>5, <2>3
  <2> QED BY <2>1, <2>2, <2>3
<1>7. ASSUME NEW e \in Devices \ Installed, NEW n \in Nonces
      PROVE  credits'[e][n] = 0
  BY <1>4, <1>5
<1> QED BY <1>3, <1>5, <1>6, <1>7 DEF Counted

\* A transfer credited is taken out of transit, for good.
LEMMA CreditTransferKept ==
  ASSUME EuroInv, NEW d \in Installed, NEW t \in TransferCopies, CreditTransfer(d, t)
  PROVE  EuroInv'
<1> DEFINE amount == t.amount_cents
<1>1. /\ Receive(d, t) /\ received' = received \cup {t} /\ Count(d, t.nonce)
      /\ UNCHANGED <<issuerVars, network, lost, applied, cashed, abandoned, minted>>
  BY DEF CreditTransfer
<1>2. /\ t \in transfers /\ t.payee = d /\ t.nonce \in DOMAIN incoming[d]
      /\ amount = incoming[d][t.nonce] /\ t.nonce \notin credited[d]
  BY <1>1, GenuineTransfer DEF Receive
<1>3. /\ d \in Devices /\ ElementSound(d) /\ ElementFits(d) /\ HoldingLimit(d) \in U64
  BY OfElement DEF EuroInv
<1>4. /\ incoming' = [incoming EXCEPT ![d] = Remove(incoming[d], t.nonce)]
      /\ credited' = [credited EXCEPT ![d] = credited[d] \cup {t.nonce}]
      /\ balance_cents' = [balance_cents EXCEPT ![d] = Wrap(balance_cents[d] + incoming[d][t.nonce])]
      /\ UNCHANGED <<certificate, pending_funding, counter, state, rng>>
      /\ UNCHANGED <<requests, transfers, funding_requests, fundings, defundings>>
      /\ UNCHANGED <<lost, applied, cashed, abandoned, minted>>
      /\ UNCHANGED <<devices, funding_nonces, offline_float, money, overflowed>>
  BY <1>1 DEF Receive, network, issuerVars
<1>5. /\ balance_cents' = [balance_cents EXCEPT ![d] = balance_cents[d] + amount]
      /\ amount \in Nat
  <2>1. /\ Sound(balance_cents[d], incoming[d], pending_funding[d], credited[d], rng[d])
        /\ Fits(balance_cents[d], incoming[d], pending_funding[d], HoldingLimit(d))
    BY <1>3 DEF ElementSound, ElementFits
  <2>2. /\ Wrap(balance_cents[d] + incoming[d][t.nonce]) = balance_cents[d] + incoming[d][t.nonce]
        /\ incoming[d][t.nonce] \in Nat
    BY <1>2, <1>3, <2>1, CreditIsExact
  <2> QED BY <1>2, <1>4, <2>2
<1> HIDE DEF amount
<1>6. t \notin received
  BY <1>2 DEF EuroInv, Marked
<1>7. WalletInv' /\ IssuerInv'
  BY <1>1, ReceiveKept, IssuerStutterKept DEF EuroInv
<1>8. t.nonce \in Nonces
  BY <1>2, <1>3 DEF ElementSound, Sound, IsOpen
<1>9. Counted' /\ credits' \in [Devices -> [Nonces -> Nat]]
  BY <1>1, <1>2, <1>4, <1>8, CountKept
<1>10. NetworkTypeOK' /\ HistoryTypeOK'
  BY <1>1, <1>2, <1>4, <1>9 DEF EuroInv, NetworkTypeOK, HistoryTypeOK, Installed
<1>11. Certified' /\ InCircuit' /\ Numbered'
  BY <1>4 DEF EuroInv, Certified, InCircuit, Numbered, Installed
<1>12. Marked'
  BY <1>1, <1>2, <1>3, <1>4 DEF EuroInv, Marked, WalletInv, WalletTypeOK
<1>13. Closed'
  <2>1. t.nonce \notin abandoned[d]
    BY <1>2, <1>3 DEF EuroInv, Closed
  <2>2. incoming'[d] = Remove(incoming[d], t.nonce)
    BY <1>3, <1>4 DEF EuroInv, WalletInv, WalletTypeOK
  <2>3. DOMAIN Remove(incoming[d], t.nonce) = DOMAIN incoming[d] \ {t.nonce}
    BY RemoveIs
  <2> QED BY <1>3, <1>4, <2>1, <2>2, <2>3 DEF EuroInv, Closed, WalletInv, WalletTypeOK
<1>14. Countable' /\ Sourced'
  BY <1>3, <1>4 DEF EuroInv, Countable, Sourced, Installed
<1>15. FloatIsBacked'
  <2> DEFINE T == transfers \ received
  <2>1. t \in T /\ T' = T \ {t}
    BY <1>1, <1>2, <1>4, <1>6
  <2>2. AreAmounts(T) /\ Worth(T) \in Nat
    BY TransitAmounts
  <2> HIDE DEF T
  <2>3. AreAmounts(T \ {t}) /\ Worth(T) = Worth(T \ {t}) + amount
    BY <2>1, <2>2, WorthRemove DEF amount
  <2>4. Worth(T \ {t}) \in Nat
    BY <2>3, WorthNat
  <2>5. /\ InTransit = Worth(T) + Worth(fundings \ applied) + Worth(defundings \ cashed)
        /\ InTransit' = Worth(T \ {t}) + Worth(fundings \ applied) + Worth(defundings \ cashed)
    BY <1>4, <2>1 DEF InTransit, T
  <2>6. amount \in Nat
    BY <1>5
  <2>7. InTransit = InTransit' + amount /\ InTransit' \in Nat
    BY <2>2, <2>3, <2>4, <2>5, <2>6, TransitAmounts
  <2>8. OnDevices' = OnDevices + amount /\ OnDevices \in Nat
    BY <1>3, <1>5, CreditAdds, BalancesPurse DEF OnDevices
  <2>9. OnDevices + InTransit = offline_float + minted
    BY DEF EuroInv, FloatIsBacked
  <2>10. OnDevices' + InTransit' = offline_float + minted
    BY <2>6, <2>7, <2>8, <2>9
  <2> QED BY <1>4, <2>10 DEF FloatIsBacked
<1> QED BY <1>7, <1>10, <1>11, <1>12, <1>13, <1>9, <1>14, <1>15 DEF EuroInv

\* A funding credited is taken out of transit, for good.
LEMMA CreditFundingKept ==
  ASSUME EuroInv, NEW d \in Installed, NEW f \in WithAlteredAmounts(fundings), CreditFunding(d, f)
  PROVE  EuroInv'
<1> DEFINE amount == f.amount_cents
<1>1. /\ ApplyFunding(d, f) /\ applied' = applied \cup {f} /\ Count(d, f.nonce)
      /\ UNCHANGED <<issuerVars, network, lost, received, cashed, abandoned, minted>>
  BY DEF CreditFunding
<1>2. /\ f \in fundings /\ f.device = d /\ f.nonce \in DOMAIN pending_funding[d]
      /\ amount = pending_funding[d][f.nonce] /\ f.nonce \notin credited[d]
  BY <1>1, GenuineFunding DEF ApplyFunding
<1>3. /\ d \in Devices /\ ElementSound(d) /\ ElementFits(d) /\ HoldingLimit(d) \in U64
  BY OfElement DEF EuroInv
<1>4. /\ pending_funding' = [pending_funding EXCEPT ![d] = Remove(pending_funding[d], f.nonce)]
      /\ credited' = [credited EXCEPT ![d] = credited[d] \cup {f.nonce}]
      /\ balance_cents' = [balance_cents EXCEPT ![d] = Wrap(balance_cents[d] + pending_funding[d][f.nonce])]
      /\ UNCHANGED <<certificate, incoming, counter, state, rng>>
      /\ UNCHANGED <<requests, transfers, funding_requests, fundings, defundings>>
      /\ UNCHANGED <<lost, received, cashed, abandoned, minted>>
      /\ UNCHANGED <<devices, funding_nonces, offline_float, money, overflowed>>
  BY <1>1 DEF ApplyFunding, network, issuerVars
<1>5. /\ balance_cents' = [balance_cents EXCEPT ![d] = balance_cents[d] + amount]
      /\ amount \in Nat
  <2>1. /\ Sound(balance_cents[d], pending_funding[d], incoming[d], credited[d], rng[d])
        /\ Fits(balance_cents[d], pending_funding[d], incoming[d], HoldingLimit(d))
    BY <1>3, SoundSwap DEF ElementSound, ElementFits
  <2>2. /\ Wrap(balance_cents[d] + pending_funding[d][f.nonce])
             = balance_cents[d] + pending_funding[d][f.nonce]
        /\ pending_funding[d][f.nonce] \in Nat
    BY <1>2, <1>3, <2>1, CreditIsExact
  <2> QED BY <1>2, <1>4, <2>2
<1> HIDE DEF amount
<1>6. f \notin applied
  BY <1>2 DEF EuroInv, Marked
<1>7. WalletInv' /\ IssuerInv'
  BY <1>1, ApplyFundingKept, IssuerStutterKept DEF EuroInv
<1>8. f.nonce \in Nonces
  BY <1>2, <1>3 DEF ElementSound, Sound, IsOpen
<1>9. Counted' /\ credits' \in [Devices -> [Nonces -> Nat]]
  BY <1>1, <1>2, <1>4, <1>8, CountKept
<1>10. NetworkTypeOK' /\ HistoryTypeOK'
  BY <1>1, <1>2, <1>4, <1>9 DEF EuroInv, NetworkTypeOK, HistoryTypeOK, Installed
<1>11. Certified' /\ InCircuit' /\ Numbered'
  BY <1>4 DEF EuroInv, Certified, InCircuit, Numbered, Installed
<1>12. Marked'
  BY <1>1, <1>2, <1>3, <1>4 DEF EuroInv, Marked, WalletInv, WalletTypeOK
<1>13. Closed'
  <2>1. f.nonce \notin abandoned[d]
    BY <1>2, <1>3 DEF EuroInv, Closed
  <2>2. pending_funding'[d] = Remove(pending_funding[d], f.nonce)
    BY <1>3, <1>4 DEF EuroInv, WalletInv, WalletTypeOK
  <2>3. DOMAIN Remove(pending_funding[d], f.nonce) = DOMAIN pending_funding[d] \ {f.nonce}
    BY RemoveIs
  <2> QED BY <1>3, <1>4, <2>1, <2>2, <2>3 DEF EuroInv, Closed, WalletInv, WalletTypeOK
<1>14. Countable' /\ Sourced'
  BY <1>3, <1>4 DEF EuroInv, Countable, Sourced, Installed
<1>15. FloatIsBacked'
  <2> DEFINE F == fundings \ applied
  <2>1. f \in F /\ F' = F \ {f}
    BY <1>1, <1>2, <1>4, <1>6
  <2>2. AreAmounts(F) /\ Worth(F) \in Nat
    BY TransitAmounts
  <2> HIDE DEF F
  <2>3. AreAmounts(F \ {f}) /\ Worth(F) = Worth(F \ {f}) + amount
    BY <2>1, <2>2, WorthRemove DEF amount
  <2>4. Worth(F \ {f}) \in Nat
    BY <2>3, WorthNat
  <2>5. /\ InTransit = Worth(transfers \ received) + Worth(F) + Worth(defundings \ cashed)
        /\ InTransit' = Worth(transfers \ received) + Worth(F \ {f}) + Worth(defundings \ cashed)
    BY <1>4, <2>1 DEF InTransit, F
  <2>6. amount \in Nat
    BY <1>5
  <2>7. InTransit = InTransit' + amount /\ InTransit' \in Nat
    BY <2>2, <2>3, <2>4, <2>5, <2>6, TransitAmounts
  <2>8. OnDevices' = OnDevices + amount /\ OnDevices \in Nat
    BY <1>3, <1>5, CreditAdds, BalancesPurse DEF OnDevices
  <2>9. OnDevices + InTransit = offline_float + minted
    BY DEF EuroInv, FloatIsBacked
  <2>10. OnDevices' + InTransit' = offline_float + minted
    BY <2>6, <2>7, <2>8, <2>9
  <2> QED BY <1>4, <2>10 DEF FloatIsBacked
<1> QED BY <1>7, <1>10, <1>11, <1>12, <1>13, <1>9, <1>14, <1>15 DEF EuroInv

-----------------------------------------------------------------------------
(* The issuer: value goes from an account into transit, and back. *)

\* A funding granted is new: its nonce was never granted to the element before.
LEMMA GrantFundingKept ==
  ASSUME EuroInv, NEW r \in WithAlteredAmounts(funding_requests), GrantFunding(r)
  PROVE  EuroInv'
<1> DEFINE f == FundingOf(r)
           amount == r.amount_cents
<1>1. /\ IssuerFund(r) /\ fundings' = fundings \cup {f}
      /\ UNCHANGED <<walletVars, requests, transfers, funding_requests, defundings, lost, history>>
  BY DEF GrantFunding
<1>2. r.device \in Devices /\ amount \in U64 /\ r.nonce \in Nonces
  <2>1. \A u \in funding_requests :
          /\ u.device \in Devices /\ u.amount_cents \in U64 /\ u.nonce \in Nonces
          /\ u = SignedFundingRequest(u.device, u.device, u.amount_cents, u.nonce)
    BY DEF EuroInv, NetworkTypeOK, IsFundingRequest
  <2>2. CASE r \in funding_requests
    BY <2>1, <2>2
  <2>3. ASSUME NEW u \in funding_requests, NEW a \in AlteredAmounts,
               r = [u EXCEPT !.amount_cents = a]
        PROVE  r.device \in Devices /\ r.amount_cents \in U64 /\ r.nonce \in Nonces
    <3>1. r.device = u.device /\ r.amount_cents = a /\ r.nonce = u.nonce
      BY <2>1, <2>3 DEF SignedFundingRequest
    <3> QED BY <2>1, <3>1, OfflineEuroAssumption
  <2> QED BY <2>2, <2>3 DEF WithAlteredAmounts
<1>3. /\ r.device \in DOMAIN devices /\ <<r.device, r.nonce>> \notin funding_nonces
      /\ offline_float' = offline_float + amount
      /\ funding_nonces' = funding_nonces \cup {<<r.device, r.nonce>>}
      /\ UNCHANGED <<devices, money, overflowed>>
      /\ UNCHANGED <<certificate, balance_cents, incoming, pending_funding, credited, counter, state, rng>>
      /\ UNCHANGED <<requests, transfers, funding_requests, defundings>>
      /\ UNCHANGED <<lost, received, applied, cashed, credits, abandoned, minted>>
  BY <1>1 DEF IssuerFund, FundVerdict, walletVars, history
<1>4. /\ f = SignedFunding(r.device, amount, r.nonce)
      /\ f.device = r.device /\ f.amount_cents = amount /\ f.nonce = r.nonce
  BY DEF FundingOf, SignedFunding
<1>5. IsFunding(f)
  BY <1>2, <1>4 DEF IsFunding
<1>6. amount \in Nat
  BY <1>2, U64Facts
<1>7. WalletInv' /\ IssuerInv'
  BY <1>1, <1>2, WalletStutterKept, IssuerFundKept DEF EuroInv
<1> HIDE DEF f, amount
<1>8. f \notin fundings
  BY <1>3, <1>4 DEF EuroInv, Numbered
<1>9. NetworkTypeOK' /\ HistoryTypeOK'
  BY <1>1, <1>3, <1>5 DEF EuroInv, NetworkTypeOK, HistoryTypeOK, Installed
<1>10. Certified' /\ InCircuit'
  BY <1>1, <1>3, <1>4 DEF EuroInv, Certified, InCircuit, Installed
<1>11. Numbered'
  BY <1>1, <1>3, <1>4 DEF EuroInv, Numbered
<1>12. Marked' /\ Closed' /\ Counted'
  BY <1>3 DEF EuroInv, Marked, Closed, Counted, Installed
<1>13. Countable' /\ Sourced'
  BY <1>1, <1>3, FS_AddElement DEF EuroInv, Countable, Sourced, Installed
<1>14. FloatIsBacked'
  <2> DEFINE F == fundings \ applied
  <2>1. F' = F \cup {f} /\ f \notin F
    BY <1>1, <1>3, <1>8 DEF EuroInv, HistoryTypeOK
  <2>2. AreAmounts(F) /\ Worth(F) \in Nat
    BY TransitAmounts
  <2> HIDE DEF F
  <2>3. Worth(F \cup {f}) = Worth(F) + amount
    BY <1>4, <1>6, <2>1, <2>2, WorthAdd
  <2>4. /\ InTransit = Worth(transfers \ received) + Worth(F) + Worth(defundings \ cashed)
        /\ InTransit' = Worth(transfers \ received) + Worth(F \cup {f}) + Worth(defundings \ cashed)
    BY <1>3, <2>1 DEF InTransit, F
  <2>5. InTransit' = InTransit + amount /\ InTransit \in Nat
    BY <1>6, <2>2, <2>3, <2>4, TransitAmounts
  <2>6. OnDevices' = OnDevices /\ OnDevices \in Nat
    BY <1>3, BalancesPurse DEF OnDevices
  <2>7. offline_float \in Int /\ minted \in Nat
    BY DEF EuroInv, HistoryTypeOK, IssuerInv, IssuerTypeOK
  <2>8. OnDevices + InTransit = offline_float + minted
    BY DEF EuroInv, FloatIsBacked
  <2>9. OnDevices + (InTransit + amount) = (offline_float + amount) + minted
    BY <1>6, <2>5, <2>6, <2>7, <2>8
  <2> QED BY <1>3, <2>5, <2>6, <2>9 DEF FloatIsBacked
<1> QED BY <1>7, <1>9, <1>10, <1>11, <1>12, <1>13, <1>14 DEF EuroInv

\* The books and the backing of the float together account for all the money.
LEMMA AllAccounted ==
  ASSUME EuroInv
  PROVE  /\ Online + OnDevices + InTransit + overflowed = money + minted
         /\ Online \in Nat /\ OnDevices \in Nat /\ InTransit \in Nat /\ overflowed \in Nat
         /\ money \in Int /\ minted \in Nat
<1>1. /\ offline_float \in Int /\ money \in Int /\ overflowed \in Nat /\ minted \in Nat
  BY DEF EuroInv, HistoryTypeOK, IssuerInv, IssuerTypeOK
<1>2. Online \in Nat
  BY AccountsPurse DEF EuroInv, IssuerInv, Online
<1>3. OnDevices \in Nat /\ InTransit \in Nat
  BY BalancesPurse, TransitAmounts DEF InTransit
<1>4. Online + offline_float + overflowed = money
  BY DEF EuroInv, IssuerInv, BooksBalance, Online
<1>5. OnDevices + InTransit = offline_float + minted
  BY DEF EuroInv, FloatIsBacked
<1> QED BY <1>1, <1>2, <1>3, <1>4, <1>5

\* An account and an order in transit to it are part of the money there is.
LEMMA AccountAndOrder ==
  ASSUME EuroInv, NEW account \in DOMAIN accounts, NEW o \in defundings \ cashed
  PROVE  accounts[account] + o.amount_cents <= money + minted
<1> DEFINE rest == Remove(accounts, account)
           D == defundings \ cashed
<1>1. IsPurse(accounts)
  BY AccountsPurse DEF EuroInv, IssuerInv
<1>2. IsPurse(rest) /\ SumFunction(accounts) = accounts[account] + SumFunction(rest)
  BY <1>1, PurseRemove
<1>3. SumFunction(rest) \in Nat /\ accounts[account] \in Nat
  BY <1>1, <1>2, PurseNat DEF IsPurse
<1>4. AreAmounts(D) /\ o \in D /\ o.amount_cents \in Nat
  BY TransitAmounts DEF AreAmounts
<1> HIDE DEF rest, D
<1>5. AreAmounts(D \ {o}) /\ Worth(D) = Worth(D \ {o}) + o.amount_cents
  BY <1>4, WorthRemove
<1>6. Worth(D \ {o}) \in Nat
  BY <1>5, WorthNat
<1>7. accounts[account] <= Online /\ Online \in Nat
  BY <1>2, <1>3 DEF Online
<1>8. o.amount_cents <= InTransit /\ InTransit \in Nat
  <2>1. o.amount_cents <= Worth(D) /\ Worth(D) \in Nat
    BY <1>4, <1>5, <1>6
  <2>2. InTransit = Worth(transfers \ received) + Worth(fundings \ applied) + Worth(D)
    BY DEF InTransit, D
  <2> QED BY <1>4, <2>1, <2>2, TransitAmounts
<1> QED BY <1>3, <1>4, <1>7, <1>8, AllAccounted

\* An account has room for what is in transit to it, as long as all the money fits.
LEMMA AccountHasRoom ==
  ASSUME EuroInv, NEW account \in DOMAIN accounts, NEW o \in defundings \ cashed,
         MaxMoney + minted <= MaxU64
  PROVE  accounts[account] + o.amount_cents <= MaxU64
<1>1. accounts[account] \in Nat /\ o.amount_cents \in Nat
  BY AccountsPurse, TransitAmounts DEF EuroInv, IssuerInv, IsPurse, AreAmounts
<1>2. money <= MaxMoney /\ MaxMoney \in Nat /\ MaxU64 \in Nat
  BY OfflineEuroAssumption, U64Facts DEF EuroInv, Sourced
<1> QED BY <1>1, <1>2, AccountAndOrder, AllAccounted

\* An order credited is taken out of transit, and the account does not wrap while
\* all the money fits into it.
LEMMA CreditDefundingKept ==
  ASSUME EuroInv, NEW o \in WithAlteredAmounts(defundings), CreditDefunding(o)
  PROVE  EuroInv'
<1> DEFINE amount == o.amount_cents
           account == devices[o.device].account
<1>1. /\ IssuerDefund(o) /\ cashed' = cashed \cup {o}
      /\ UNCHANGED <<walletVars, network, lost, received, applied, credits, abandoned, minted>>
  BY DEF CreditDefunding
<1>2. /\ o \in defundings /\ o.device \in DOMAIN devices
      /\ ~(o.counter <= devices[o.device].last_defunding_counter)
  BY <1>1, GenuineDefunding DEF IssuerDefund
<1>3. /\ o.device \in Devices /\ amount \in U64 /\ amount \in Nat /\ o.counter \in Counters
      /\ o.counter \in Nat
  <2>1. IsDefunding(o)
    BY <1>2 DEF EuroInv, NetworkTypeOK
  <2>2. Counters \subseteq Nat
    BY BoundsAssumption DEF Counters
  <2> QED BY <2>1, <2>2, U64Facts DEF IsDefunding
<1>4. /\ account \in DOMAIN accounts
      /\ overflowed' = overflowed + ((accounts[account] + amount) - Wrap(accounts[account] + amount))
      /\ offline_float' = offline_float - amount
      /\ devices' = [devices EXCEPT ![o.device].last_defunding_counter = o.counter]
      /\ UNCHANGED <<funding_nonces, money>>
      /\ UNCHANGED <<certificate, balance_cents, incoming, pending_funding, credited, counter, state, rng>>
      /\ UNCHANGED <<requests, transfers, funding_requests, fundings, defundings>>
      /\ UNCHANGED <<lost, received, applied, credits, abandoned, minted>>
  BY <1>1 DEF IssuerDefund, DefundVerdict, walletVars, network
<1>5. /\ DOMAIN devices' = DOMAIN devices
      /\ \A d \in DOMAIN devices : devices'[d].public_key = devices[d].public_key
      /\ devices'[o.device].last_defunding_counter = o.counter
      /\ \A d \in DOMAIN devices \ {o.device} : devices'[d] = devices[d]
  BY <1>2, <1>4 DEF EuroInv, IssuerInv, IssuerTypeOK, DeviceRecord
<1>6. WalletInv' /\ IssuerInv'
  BY <1>1, <1>3, WalletStutterKept, IssuerDefundKept DEF EuroInv
<1>7. o \notin cashed
  BY <1>2 DEF EuroInv, Marked
<1>8. NetworkTypeOK' /\ HistoryTypeOK'
  BY <1>1, <1>2, <1>4 DEF EuroInv, NetworkTypeOK, HistoryTypeOK, Installed
<1>9. Certified' /\ InCircuit' /\ Numbered'
  BY <1>4, <1>5 DEF EuroInv, Certified, InCircuit, Numbered, Installed
<1>10. Closed' /\ Counted'
  BY <1>4 DEF EuroInv, Closed, Counted, Installed
<1>11. Marked'
  <2>1. ASSUME NEW p \in cashed'
        PROVE  p.counter <= devices'[p.device].last_defunding_counter
    <3>1. CASE p = o
      BY <1>3, <1>5, <3>1
    <3>2. CASE p # o
      <4>1. p \in cashed /\ p.counter <= devices[p.device].last_defunding_counter
        BY <1>1, <2>1, <3>2 DEF EuroInv, Marked
      <4>2. p.device \in DOMAIN devices /\ p.counter \in Nat
        BY <4>1, BoundsAssumption
           DEF EuroInv, HistoryTypeOK, InCircuit, Certified, NetworkTypeOK, IsDefunding, Counters
      <4>3. devices[o.device].last_defunding_counter \in Nat
        BY <1>2, BoundsAssumption DEF EuroInv, IssuerInv, IssuerTypeOK, DeviceRecord
      <4>4. CASE p.device = o.device
        BY <1>2, <1>3, <1>5, <4>1, <4>2, <4>3, <4>4
      <4>5. CASE p.device # o.device
        BY <1>5, <4>1, <4>2, <4>5
      <4> QED BY <4>4, <4>5
    <3> QED BY <3>1, <3>2
  <2> QED BY <1>4, <2>1 DEF EuroInv, Marked
<1>12. Countable'
  BY <1>4 DEF EuroInv, Countable, Installed
<1>13. Sourced'
  <2>1. ASSUME MaxMoney + minted <= MaxU64 PROVE overflowed' = 0
    <3> DEFINE sum == accounts[account] + amount
    <3>1. sum <= MaxU64
      BY <1>2, <1>4, <1>7, <2>1, AccountHasRoom
    <3>2. sum \in Nat
      BY <1>3, <1>4, AccountsPurse DEF EuroInv, IssuerInv, IsPurse
    <3>3. overflowed' = overflowed + (sum - Wrap(sum))
      BY <1>4
    <3> HIDE DEF sum
    <3>4. Wrap(sum) = sum
      BY <3>1, <3>2, U64Facts
    <3>5. overflowed = 0
      BY <2>1 DEF EuroInv, Sourced
    <3> QED BY <3>2, <3>3, <3>4, <3>5
  <2> QED BY <1>4, <2>1 DEF EuroInv, Sourced, Installed
<1>14. FloatIsBacked'
  <2> DEFINE D == defundings \ cashed
  <2>1. o \in D /\ D' = D \ {o}
    BY <1>1, <1>2, <1>4, <1>7
  <2>2. AreAmounts(D) /\ Worth(D) \in Nat /\ amount \in Nat
    BY <1>3, TransitAmounts
  <2> HIDE DEF D
  <2>3. AreAmounts(D \ {o}) /\ Worth(D) = Worth(D \ {o}) + amount
    BY <2>1, <2>2, WorthRemove
  <2>4. Worth(D \ {o}) \in Nat
    BY <2>3, WorthNat
  <2> HIDE DEF amount
  <2>5. /\ InTransit = Worth(transfers \ received) + Worth(fundings \ applied) + Worth(D)
        /\ InTransit' = Worth(transfers \ received) + Worth(fundings \ applied) + Worth(D \ {o})
    BY <1>4, <2>1 DEF InTransit, D
  <2>6. InTransit = InTransit' + amount /\ InTransit' \in Nat
    BY <2>2, <2>3, <2>4, <2>5, TransitAmounts
  <2>7. OnDevices \in Nat /\ offline_float \in Int /\ minted \in Nat
    BY BalancesPurse DEF EuroInv, HistoryTypeOK, IssuerInv, IssuerTypeOK
  <2>8. OnDevices + InTransit = offline_float + minted
    BY DEF EuroInv, FloatIsBacked
  <2> DEFINE left == InTransit'
  <2>9. InTransit = left + amount /\ left \in Nat
    BY <2>6
  <2> HIDE DEF left
  <2>10. OnDevices + left = (offline_float - amount) + minted
    BY <2>2, <2>7, <2>8, <2>9
  <2>11. OnDevices' = OnDevices
    BY <1>4 DEF OnDevices
  <2> QED BY <1>4, <2>10, <2>11 DEF FloatIsBacked, left
<1> QED BY <1>6, <1>8, <1>9, <1>10, <1>11, <1>12, <1>13, <1>14 DEF EuroInv

-----------------------------------------------------------------------------
(* Every step, from the first. *)

\* Nothing is installed, sent or held at first.
LEMMA InitOK == Init => EuroInv
<1> SUFFICES ASSUME Init PROVE EuroInv
  OBVIOUS
<1>1. WalletInit /\ IssuerInit
  BY DEF Init
<1>2. WalletInv /\ IssuerInv
  BY <1>1, WalletInitOK, IssuerInitOK
<1>3. Installed = {} /\ devices = NoEntries /\ DOMAIN devices = {} /\ DOMAIN NoEntries = {}
  BY <1>1 DEF WalletInit, IssuerInit, Installed, NoEntries
<1>4. /\ requests = {} /\ transfers = {} /\ funding_requests = {}
      /\ fundings = {} /\ defundings = {} /\ lost = {}
      /\ received = {} /\ applied = {} /\ cashed = {}
      /\ credits = [d \in Devices |-> [n \in Nonces |-> 0]]
      /\ abandoned = [d \in Devices |-> {}] /\ minted = 0
  BY DEF Init
<1>5. NetworkTypeOK /\ HistoryTypeOK
  BY <1>3, <1>4 DEF NetworkTypeOK, HistoryTypeOK
<1>6. Certified /\ InCircuit /\ Numbered
  BY <1>3, <1>4 DEF Certified, InCircuit, Numbered
<1>7. Marked /\ Closed /\ Counted
  BY <1>3, <1>4 DEF Marked, Closed, Counted
<1>8. Countable
  BY <1>1, <1>4, FS_EmptySet DEF WalletInit, Countable
<1>9. Sourced
  BY <1>1, <1>4, OfflineEuroAssumption DEF IssuerInit, Sourced
<1>10. FloatIsBacked
  <2>1. /\ Worth(transfers \ received) = 0 /\ Worth(fundings \ applied) = 0
        /\ Worth(defundings \ cashed) = 0
    BY <1>4, WorthEmpty
  <2>2. OnDevices = 0
    BY <1>1, OfflineEuroAssumption, PurseOfNothing DEF WalletInit, OnDevices
  <2> QED BY <1>1, <1>4, <2>1, <2>2 DEF FloatIsBacked, InTransit, IssuerInit
<1> QED BY <1>2, <1>5, <1>6, <1>7, <1>8, <1>9, <1>10 DEF EuroInv

\* Every step keeps the invariant.
LEMMA StepKept ==
  ASSUME EuroInv, [Next]_vars
  PROVE  EuroInv'
<1>1. ASSUME NEW account \in Accounts, NEW balance \in OpeningBalances, Open(account, balance)
      PROVE  EuroInv'
  BY <1>1, OpenKept
<1>2. ASSUME NEW d \in Devices \ Strangers, NEW account \in Accounts, NEW limit \in Limits,
             Enrol(d, account, limit)
      PROVE  EuroInv'
  BY <1>2, EnrolKept
<1>3. ASSUME NEW d \in Installed, ElementNext(d)
      PROVE  EuroInv'
  <2>1. CASE Crack(d)
    BY <2>1, CrackedKept
  <2>2. CASE Lose(d)
    BY <2>2, LoseKept
  <2>3. CASE \E a \in CentAmounts : AskPayment(d, a)
    BY <2>3, AskPaymentKept
  <2>4. CASE \E n \in Nonces : AbandonPayment(d, n)
    BY <2>4, AbandonPaymentKept
  <2>5. CASE \E r \in RequestCopies : PayRequest(d, r)
    BY <2>5, PayRequestKept
  <2>6. CASE \E t \in TransferCopies : CreditTransfer(d, t)
    BY <2>6, CreditTransferKept
  <2>7. CASE \E a \in CentAmounts : AskFunding(d, a)
    BY <2>7, AskFundingKept
  <2>8. CASE \E n \in Nonces : AbandonFunding(d, n)
    BY <2>8, AbandonFundingKept
  <2>9. CASE \E f \in WithAlteredAmounts(fundings) : CreditFunding(d, f)
    BY <2>9, CreditFundingKept
  <2>10. CASE \E a \in CentAmounts : OrderDefunding(d, a)
    BY <2>10, OrderDefundingKept
  <2> QED BY <1>3, <2>1, <2>2, <2>3, <2>4, <2>5, <2>6, <2>7, <2>8, <2>9, <2>10 DEF ElementNext
<1>4. ASSUME NEW r \in WithAlteredAmounts(funding_requests), GrantFunding(r)
      PROVE  EuroInv'
  BY <1>4, GrantFundingKept
<1>5. ASSUME NEW o \in WithAlteredAmounts(defundings), CreditDefunding(o)
      PROVE  EuroInv'
  BY <1>5, CreditDefundingKept
<1>6. CASE UNCHANGED vars
  BY <1>6, NothingKept
<1> QED BY <1>1, <1>2, <1>3, <1>4, <1>5, <1>6 DEF Next

\* EuroInv always holds.
LEMMA EuroInvAlways == Spec => []EuroInv
<1>1. Init => EuroInv
  BY InitOK
<1>2. EuroInv /\ [Next]_vars => EuroInv'
  BY StepKept
<1> QED BY <1>1, <1>2, PTL DEF Spec

-----------------------------------------------------------------------------
(* What follows. *)

\* All fields and messages of the whole circuit keep their types, and the elements
\* installed are the ones registered (lib.rs, enrol).
THEOREM CircuitTypeCorrect == Spec => []TypeOK
<1>1. EuroInv => TypeOK
  BY DEF EuroInv, TypeOK, WalletInv, IssuerInv, Certified
<1> QED BY <1>1, EuroInvAlways, PTL

\* Whatever is lost, repeated, altered, overtaken or cancelled, the float is what
\* the elements hold and what is in transit, less what was minted (issuer.rs,
\* offline_float).
THEOREM FloatAlwaysBacked == Spec => []FloatIsBacked
<1>1. EuroInv => FloatIsBacked
  BY DEF EuroInv
<1> QED BY <1>1, EuroInvAlways, PTL

\* Money is only ever minted by cracked elements and only ever destroyed by an
\* account's u64 wrapping, which takes more money than a u64 can hold.
THEOREM MoneyAlwaysConserved == Spec => []MoneyConserved
<1>1. EuroInv => MoneyConserved
  BY AllAccounted DEF EuroInv, Sourced, MoneyConserved
<1> QED BY <1>1, EuroInvAlways, PTL

\* A negative float proves that some element was cracked (issuer.rs, offline_float).
THEOREM NegativeFloatProves == Spec => []NegativeFloatIsProof
<1>1. ASSUME EuroInv, offline_float < 0
      PROVE  minted > 0
  <2>1. OnDevices + InTransit = offline_float + minted /\ offline_float \in Int
    BY <1>1 DEF EuroInv, FloatIsBacked, IssuerInv, IssuerTypeOK
  <2>2. OnDevices \in Nat /\ InTransit \in Nat /\ minted \in Nat
    BY <1>1, AllAccounted
  <2> QED BY <1>1, <2>1, <2>2
<1>2. EuroInv => NegativeFloatIsProof
  BY <1>1 DEF EuroInv, Sourced, NegativeFloatIsProof
<1> QED BY <1>2, EuroInvAlways, PTL

\* No request is credited twice, for whatever mix of payments and fundings that
\* answer it, however often they are delivered (wallet.rs, credited).
THEOREM RequestsCreditedOnce == Spec => []CreditedOnce
<1>1. ASSUME EuroInv, NEW d \in Devices, NEW n \in Nonces
      PROVE  credits[d][n] <= 1
  <2>1. credits[d][n] \in Nat
    BY <1>1 DEF EuroInv, HistoryTypeOK
  <2> QED BY <1>1, <2>1 DEF EuroInv, Counted
<1>2. EuroInv => CreditedOnce
  BY <1>1 DEF CreditedOnce
<1> QED BY <1>2, EuroInvAlways, PTL

\* Nothing that answers a request cancelled is ever credited (wallet.rs,
\* cancel_request and cancel_funding).
THEOREM CancelledStaysCancelled == Spec => []CancelledForGood
<1>1. EuroInv => CancelledForGood
  BY DEF EuroInv, Marked, Closed, CancelledForGood, InCircuit, HistoryTypeOK, WalletInv, WalletTypeOK
<1> QED BY <1>1, EuroInvAlways, PTL

\* Transfers go from certified elements to certified elements, whatever requests
\* reach the payer (certificate.rs).
THEOREM CircuitStaysClosed == Spec => []CircuitIsClosed
<1>1. EuroInv => CircuitIsClosed
  BY DEF EuroInv, Certified, InCircuit, CircuitIsClosed
<1> QED BY <1>1, EuroInvAlways, PTL

=============================================================================
