------------------------------- MODULE Messages -------------------------------
(***************************************************************************)
(* Device certificates and the five messages of the protocol, with the     *)
(* signatures on them (certificate.rs, message.rs, signature.rs, hash.rs). *)
(*                                                                         *)
(* A signature is the pair of the key that made it and the digest it was   *)
(* made over: it verifies under exactly that key for exactly that digest.  *)
(* A digest is the tuple of a message's tag and signed fields, which is    *)
(* what hash.rs's tagged, length-prefixed hash tells apart.                *)
(***************************************************************************)
EXTENDS Amounts

CONSTANTS Devices,       \* DeviceId: the secure elements
          IssuerKey,     \* the Eurosystem's key
          OtherKey,      \* the key of some other issuer, with its own circuit
          MaxDraws,      \* bound: nonces one element draws
          MaxDebits      \* bound: debits one element makes

ASSUME BoundsAssumption == MaxDraws \in Nat /\ MaxDebits \in Nat

\* The key pair an element generates at enrolment is named after the element.
Keys == Devices \cup {IssuerKey, OtherKey}

(***************************************************************************)
(* A nonce is 16 bytes from the element's own generator, assumed not to    *)
(* repeat on one element: the n-th draw is n.  Two elements may draw the   *)
(* same nonce, which is weaker than what 128 random bits give.             *)
(***************************************************************************)
Nonces   == 1 .. MaxDraws
Counters == 1 .. MaxDebits

-----------------------------------------------------------------------------

Sign(key, digest) == [key |-> key, digest |-> digest]

Verifies(key, digest, signature) == signature = Sign(key, digest)

CertificateDigest(c) ==
  <<"euro/device-certificate", c.device, c.public_key, c.holding_limit_cents>>

TransferDigest(t) ==
  <<"euro/transfer", t.payer.device, t.payee, t.amount_cents, t.nonce, t.counter>>

FundingRequestDigest(r) ==
  <<"euro/funding-request", r.device, r.amount_cents, r.nonce>>

FundingDigest(f) == <<"euro/funding", f.device, f.amount_cents, f.nonce>>

DefundingDigest(o) == <<"euro/defunding", o.device, o.amount_cents, o.counter>>

CertificateVerifies(c, issuer) ==
  Verifies(issuer, CertificateDigest(c), c.signature)

-----------------------------------------------------------------------------

\* The certificate the issuer with key `signer` gives a device key.
SignedCertificate(device, key, limit, signer) ==
  LET digest == <<"euro/device-certificate", device, key, limit>>
  IN  [device |-> device, public_key |-> key, holding_limit_cents |-> limit,
       signature |-> Sign(signer, digest)]

SignedTransfer(payer, payee, amount, nonce, counter) ==
  LET digest == <<"euro/transfer", payer.device, payee, amount, nonce, counter>>
  IN  [payer |-> payer, payee |-> payee, amount_cents |-> amount,
       nonce |-> nonce, counter |-> counter,
       signature |-> Sign(payer.public_key, digest)]

SignedFundingRequest(device, key, amount, nonce) ==
  [device |-> device, amount_cents |-> amount, nonce |-> nonce,
   signature |-> Sign(key, <<"euro/funding-request", device, amount, nonce>>)]

SignedFunding(device, amount, nonce) ==
  [device |-> device, amount_cents |-> amount, nonce |-> nonce,
   signature |-> Sign(IssuerKey, <<"euro/funding", device, amount, nonce>>)]

SignedDefunding(device, key, amount, counter) ==
  [device |-> device, amount_cents |-> amount, counter |-> counter,
   signature |-> Sign(key, <<"euro/defunding", device, amount, counter>>)]

-----------------------------------------------------------------------------
(* Well-formed messages: fields in range, and signed by the key given. *)

IsCertificate(c, signer) ==
  /\ c.device \in Devices /\ c.public_key \in Keys /\ c.holding_limit_cents \in U64
  /\ c = SignedCertificate(c.device, c.public_key, c.holding_limit_cents, signer)

IsPaymentRequest(r, signer) ==
  /\ IsCertificate(r.payee, signer)
  /\ r.amount_cents \in U64 /\ r.nonce \in Nonces
  /\ r = [payee |-> r.payee, amount_cents |-> r.amount_cents, nonce |-> r.nonce]

IsTransfer(t, signer) ==
  /\ IsCertificate(t.payer, signer)
  /\ t.payee \in Devices /\ t.amount_cents \in U64
  /\ t.nonce \in Nonces /\ t.counter \in Counters
  /\ t = SignedTransfer(t.payer, t.payee, t.amount_cents, t.nonce, t.counter)

IsFundingRequest(r) ==
  /\ r.device \in Devices /\ r.amount_cents \in U64 /\ r.nonce \in Nonces
  /\ r = SignedFundingRequest(r.device, r.device, r.amount_cents, r.nonce)

IsFunding(f) ==
  /\ f.device \in Devices /\ f.amount_cents \in U64 /\ f.nonce \in Nonces
  /\ f = SignedFunding(f.device, f.amount_cents, f.nonce)

IsDefunding(o) ==
  /\ o.device \in Devices /\ o.amount_cents \in U64 /\ o.counter \in Counters
  /\ o = SignedDefunding(o.device, o.device, o.amount_cents, o.counter)

=============================================================================
