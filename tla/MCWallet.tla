------------------------------ MODULE MCWallet ------------------------------
(***************************************************************************)
(* One element, Home, in a world that hands it everything a genuine peer,  *)
(* the issuer and another issuer's element could have signed, and altered  *)
(* copies of it.                                                           *)
(***************************************************************************)
EXTENDS Wallet

CONSTANTS Home, Peer, Stranger,
          CentAmounts, Limit

Certificate(d) == SignedCertificate(d, d, Limit, IssuerKey)
Foreign        == SignedCertificate(Stranger, Stranger, Limit, OtherKey)
Raised         == [Certificate(Home) EXCEPT !.holding_limit_cents = Limit + 1]

MCCertificates == {Certificate(Home), Raised}

MCRequests ==
  [payee : {Certificate(Home), Certificate(Peer), Foreign},
   amount_cents : CentAmounts, nonce : {1}]

Altered(messages) ==
  messages \cup {[m EXCEPT !.amount_cents = a] : m \in messages, a \in CentAmounts}

MCTransfers ==
  Altered({SignedTransfer(c, d, a, n, 1) :
             c \in {Certificate(Peer), Foreign}, d \in {Home, Peer},
             a \in CentAmounts, n \in Nonces})

MCFundings ==
  Altered({SignedFunding(d, a, n) : d \in {Home, Peer}, a \in CentAmounts, n \in Nonces})

MCNext == WalletNext(CentAmounts, MCCertificates, MCRequests, MCTransfers, MCFundings)

MCSpec == WalletInit /\ [][MCNext]_walletVars

=============================================================================
