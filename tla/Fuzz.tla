--------------------------------- MODULE Fuzz ---------------------------------
(***************************************************************************)
(* The harness's fuzz command (main.rs): a world of honest devices, each   *)
(* with an account of its own, a number of random calls, and what          *)
(* run_fuzz checks after every one of them.  Random choices are free ones. *)
(***************************************************************************)
EXTENDS Calls

CONSTANTS Limit,     \* --limit
          Ops        \* --ops

ASSUME FuzzAssumption ==
  /\ Limit \in U64 /\ Ops \in Nat
  /\ IsFiniteSet(Devices)
  /\ Cardinality(Accounts) = Cardinality(Devices)
  /\ Ops <= MaxDraws /\ Ops <= MaxDebits

VARIABLES step,      \* calls made
          before,    \* the snapshot taken before the call
          outcome    \* what run_fuzz returned

fuzzVars == <<callVars, step, before, outcome>>

\* 3 * cfg.limit / 2, a product of u64 numbers
Opening == Wrap(3 * Limit) \div 2

Money == Opening * Cardinality(Devices)

\* Balances and reservations of every device, and every online account.
Snapshot ==
  [wallets  |-> [d \in Installed |-> <<balance_cents[d], Reserved(d)>>],
   accounts |-> accounts, float |-> offline_float]

Idle == [at |-> "idle"]

Init ==
  /\ WalletInit /\ IssuerInit
  /\ call = Idle /\ step = 0 /\ before = Snapshot /\ outcome = "running"

-----------------------------------------------------------------------------
(* The world: for one device after the other, an account and its element. *)

WorldBuilt == Installed = Devices

Deviceless == {account \in DOMAIN accounts : \A d \in DOMAIN devices : devices[d].account # account}

OpenNext ==
  /\ ~WorldBuilt /\ Deviceless = {}
  /\ \E account \in Accounts \ DOMAIN accounts : OpenAccount(account, Opening)
  /\ UNCHANGED <<walletVars, call, step, before, outcome>>

EnrolNext ==
  /\ \E d \in Devices, account \in Deviceless : Enrol(d, account, Limit)
  /\ UNCHANGED <<step, before, outcome>>

-----------------------------------------------------------------------------
(* The operations. *)

Draw ==
  /\ WorldBuilt /\ call = Idle /\ outcome = "running" /\ step < Ops
  /\ before' = Snapshot
  /\ \E a \in Devices, amount \in 1 .. Limit \div 2 :
       \/ call' = [at |-> "fund", wallet |-> a, amount |-> amount]
       \/ call' = [at |-> "defund", wallet |-> a, amount |-> amount]
       \/ \E b \in Devices \ {a} :
            call' = [at |-> "pay", payer |-> a, payee |-> b, amount |-> amount]
  /\ UNCHANGED <<walletVars, issuerVars, step, outcome>>

Run == CallStep /\ UNCHANGED <<step, before, outcome>>

CheckInvariants ==
  /\ \A d \in Devices : balance_cents[d] <= Limit /\ Reserved(d) = 0
  /\ SumFunction(balance_cents) = offline_float
  /\ SumFunction(accounts) + SumFunction(balance_cents) = Money

Check ==
  /\ call.at = "returned" /\ outcome = "running"
  /\ IF (call.result # "Ok" => Snapshot = before) /\ CheckInvariants
     THEN call' = Idle /\ step' = step + 1 /\ UNCHANGED outcome
     ELSE outcome' = "failed" /\ UNCHANGED <<call, step>>
  /\ UNCHANGED <<walletVars, issuerVars, before>>

Pass ==
  /\ call = Idle /\ step = Ops /\ outcome = "running"
  /\ outcome' = "passed"
  /\ UNCHANGED <<callVars, step, before>>

Next == OpenNext \/ EnrolNext \/ Draw \/ Run \/ Check \/ Pass

\* One thread runs the program, so the next step is always taken.
Spec == Init /\ [][Next]_fuzzVars /\ WF_fuzzVars(Next)

-----------------------------------------------------------------------------

\* The fuzz command finds nothing: whatever is drawn, a refused call has changed
\* nothing anywhere, no device is over its limit or kept a reservation, and money
\* was conserved (main.rs, run_fuzz and check_invariants).
FindsNothing == outcome # "failed"

\* The fuzz command comes to its end: every call returns, the refused ones too.
Finishes == <>(outcome # "running")

\* No call fails after value has moved: once the account or the payer's element is
\* debited, the other side credits (wallet.rs: the payer "runs every check that could
\* make it refuse before it debits itself").
NoRefusalAfterDebit ==
  [][call.at \in {"fund_apply", "defund_issuer", "pay_payee"} => call'.result = "Ok"]_call

-----------------------------------------------------------------------------
(***************************************************************************)
(* Value between a debit and its credit belongs to whoever it is meant     *)
(* for.  Seen that way the calls implement the ledger, in which value      *)
(* moves at once.                                                          *)
(***************************************************************************)

ToElement(d) ==
  CASE call.at = "fund_apply" /\ call.wallet = d -> call.funding.amount_cents
    [] call.at = "pay_payee" /\ call.payee = d -> call.transfer.amount_cents
    [] OTHER -> 0

ToAccount(d) ==
  IF call.at = "defund_issuer" /\ call.order.device = d THEN call.order.amount_cents ELSE 0

Online ==
  [d \in Devices |-> IF d \in Installed THEN accounts[devices[d].account] + ToAccount(d)
                                        ELSE Opening]

Offline == [d \in Devices |-> balance_cents[d] + ToElement(d)]

Cash == INSTANCE Ledger WITH Holders <- Devices, online <- Online, offline <- Offline

\* The library's calls keep the ledger's promise: value moves entirely or not at
\* all, from the account or element that has it to one that has room for it.
ImplementsLedger == Cash!Spec

=============================================================================
