-------------------------------- MODULE Ledger --------------------------------
(***************************************************************************)
(* What the offline euro promises its holders: every operation moves an    *)
(* amount from one place to another, at once and entirely, or does not     *)
(* happen.  Messages, reservations, nonces and counters do not exist here. *)
(***************************************************************************)
EXTENDS Integers

CONSTANTS Holders,    \* a person with one account and one element
          Limit,      \* of each element
          Opening     \* balance of each account

VARIABLES online,     \* on the holder's account
          offline     \* on the holder's element

ledgerVars == <<online, offline>>

Init ==
  /\ online = [h \in Holders |-> Opening]
  /\ offline = [h \in Holders |-> 0]

Fund(h, amount) ==
  /\ amount <= online[h]
  /\ offline[h] + amount <= Limit
  /\ online' = [online EXCEPT ![h] = @ - amount]
  /\ offline' = [offline EXCEPT ![h] = @ + amount]

Defund(h, amount) ==
  /\ amount <= offline[h]
  /\ offline' = [offline EXCEPT ![h] = @ - amount]
  /\ online' = [online EXCEPT ![h] = @ + amount]

Pay(h, g, amount) ==
  /\ h # g
  /\ amount <= offline[h]
  /\ offline[g] + amount <= Limit
  /\ offline' = [offline EXCEPT ![h] = @ - amount, ![g] = @ + amount]
  /\ UNCHANGED online

Next ==
  \E h \in Holders, amount \in 1 .. Limit :
    \/ Fund(h, amount)
    \/ Defund(h, amount)
    \/ \E g \in Holders : Pay(h, g, amount)

Spec == Init /\ [][Next]_ledgerVars

=============================================================================
