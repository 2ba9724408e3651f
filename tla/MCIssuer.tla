------------------------------ MODULE MCIssuer ------------------------------
(***************************************************************************)
(* The issuer in a world that hands it every request and order its devices *)
(* could sign, in any order and again and again, and ones signed by        *)
(* another device's key.                                                   *)
(***************************************************************************)
EXTENDS Issuer

CONSTANTS CentAmounts, OpeningBalances

MCRequests ==
  {SignedFundingRequest(d, key, a, n) :
     d \in Devices, key \in Devices, a \in CentAmounts, n \in Nonces}

MCOrders ==
  {SignedDefunding(d, key, a, k) :
     d \in Devices, key \in Devices, a \in CentAmounts, k \in Counters}

MCNext == IssuerNext(OpeningBalances, MCRequests, MCOrders)

MCSpec == IssuerInit /\ [][MCNext]_issuerVars

=============================================================================
