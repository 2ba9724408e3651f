------------------------------ MODULE Scenarios ------------------------------
(***************************************************************************)
(* Scripts of library calls and single operations: the eight scenarios of  *)
(* the check command (main.rs), each on a world of its own and under the   *)
(* holding limit of the command line, and the walk-through of              *)
(* examples/offline_payment.rs.  Every script is translated line by line;  *)
(* a step states what it expects, and the first step that gets something   *)
(* else fails the script.  Amounts are in cents.                           *)
(***************************************************************************)
EXTENDS Calls, Sequences

CONSTANTS Alice, Bakery, Kiosk,  \* devices 0, 1 and 2; their accounts as well
          Mallory,               \* in the walk-through, where Kiosk is the mill
          Rogue                  \* certified by another issuer

ASSUME ScenariosAssumption ==
  /\ {Alice, Bakery, Kiosk, Mallory} = Accounts
  /\ {Alice, Bakery, Kiosk, Mallory, Rogue} \subseteq Devices

VARIABLES limit,      \* --limit
          todo,       \* scripts to run, by name; the first is running
          failed,     \* scripts that failed
          report,     \* what became of the scripts that ended, in order
          position,   \* in the script
          held,       \* the message the script holds: request, transfer or order
          outcome     \* of the script: "running" or "FAIL"

scriptVars == <<limit, todo, failed, report, position, held, outcome>>

scenarioVars == <<callVars, scriptVars>>

Idle == [at |-> "idle"]

-----------------------------------------------------------------------------
(* The steps of a script. *)

Opened(d, balance) == [do |-> "open", by |-> d, balance |-> balance]

Enrolled(d) == [do |-> "enrol", by |-> d]

Call(locals, result) == [do |-> "call", call |-> locals, expect |-> result]

Funded(d, amount) == Call([at |-> "fund", wallet |-> d, amount |-> amount], "Ok")

Defunded(d, amount) == Call([at |-> "defund", wallet |-> d, amount |-> amount], "Ok")

Paid(payer, payee, amount, result) ==
  Call([at |-> "pay", payer |-> payer, payee |-> payee, amount |-> amount], result)

Requested(d, amount) == [do |-> "request", by |-> d, amount |-> amount, expect |-> "Ok"]

\* The request in hand with another payee's certificate.
PayeeReplaced(certificate_) == [do |-> "replace", payee |-> certificate_]

PaidRequest(d, result) == [do |-> "pay", by |-> d, expect |-> result]

\* The transfer in hand, or a copy with some fields altered, given to d.
Received(d, altered, result) ==
  [do |-> "receive", by |-> d, altered |-> altered, expect |-> result]

Ordered(d, amount) == [do |-> "order", by |-> d, amount |-> amount, expect |-> "Ok"]

Cashed(result) == [do |-> "cash", expect |-> result]

Cracked(d) == [do |-> "crack", by |-> d]

DevicesDropped == [do |-> "drop"]

\* ensure!: what is looked at, whose it is, and the value it must have.
Ensure(what, whose, value) == [do |-> "ensure", what |-> what, whose |-> whose, value |-> value]

-----------------------------------------------------------------------------
(* The scripts of the check command.  Its worlds have an account for every   *)
(* balance, and an element for every account.                                *)

People == <<Alice, Bakery, Kiosk>>

World(balances) ==
  [i \in 1 .. 2 * Len(balances) |->
     LET owner == People[(i + 1) \div 2]
     IN  IF i % 2 = 1 THEN Opened(owner, balances[(i + 1) \div 2]) ELSE Enrolled(owner)]

RogueCertificate == SignedCertificate(Rogue, Rogue, limit, OtherKey)

partial_payment_keeps_the_rest == World(<<10000, 0, 0>>) \o
  <<Funded(Alice, 1000),
    Paid(Alice, Bakery, 600, "Ok"),
    Ensure("balance", Alice, 400), Ensure("balance", Bakery, 600),
    Paid(Alice, Kiosk, 400, "Ok"),
    Ensure("balance", Alice, 0), Ensure("balance", Kiosk, 400)>>

received_value_is_respendable == World(<<10000, 0, 0>>) \o
  <<Funded(Alice, 1000),
    Paid(Alice, Bakery, 600, "Ok"), Paid(Bakery, Kiosk, 500, "Ok"), Paid(Kiosk, Alice, 200, "Ok"),
    Ensure("total", Accounts, 1000), Ensure("float", IssuerKey, 1000)>>

refused_payment_costs_nothing == World(<<10000, 0>>) \o
  <<Funded(Alice, 500),
    Paid(Alice, Bakery, 600, "InsufficientFunds"),
    Ensure("balance", Alice, 500), Ensure("reserved", Bakery, 0),
    Requested(Bakery, 100), PayeeReplaced(RogueCertificate),
    PaidRequest(Alice, "InvalidCertificate"),
    Ensure("balance", Alice, 500)>>

holding_limit_checked_before_debit == World(<<limit, limit>>) \o
  <<Funded(Alice, limit), Funded(Bakery, limit - 100),
    Paid(Alice, Bakery, 200, "HoldingLimitExceeded"),
    Ensure("headroom", Bakery, 100), Ensure("balance", Alice, limit),
    Paid(Alice, Bakery, 100, "Ok"),
    Ensure("balance", Bakery, limit)>>

transfers_resist_replay_and_tampering == World(<<10000, 0, 0>>) \o
  <<Funded(Alice, 1000),
    Requested(Bakery, 600), PaidRequest(Alice, "Ok"),
    Received(Bakery, [amount_cents |-> 6000], "InvalidSignature"),
    Received(Kiosk, [payee |-> Kiosk], "InvalidSignature"),
    Received(Bakery, NoEntries, "Ok"),
    Received(Bakery, NoEntries, "AlreadyCredited"),
    Ensure("balance", Bakery, 600)>>

defunding_round_trip == World(<<10000>>) \o
  <<Funded(Alice, 3000), Ordered(Alice, 1200),
    Cashed("Ok"), Cashed("Replay"),
    Ensure("account", Alice, 8200), Ensure("float", IssuerKey, 1800)>>

lost_device_strands_its_balance == World(<<10000>>) \o
  <<Funded(Alice, 4000), DevicesDropped,
    Ensure("account", Alice, 6000), Ensure("float", IssuerKey, 4000)>>

cracked_element_counterfeits == World(<<10000, 0, 0>>) \o
  <<Funded(Alice, 1000), Cracked(Alice),
    Paid(Alice, Bakery, 1000, "Ok"), Paid(Alice, Kiosk, 1000, "Ok"),
    Ensure("total", {Bakery, Kiosk}, 2000),
    Defunded(Bakery, 1000), Defunded(Kiosk, 1000),
    Ensure("float", IssuerKey, -1000), Ensure("balance", Alice, 1000)>>

-----------------------------------------------------------------------------
(* The walk-through.  What its narration says of the balances is ensured.    *)

offline_payment ==
  <<Opened(Alice, 5000), Opened(Bakery, 0), Opened(Kiosk, 0),
    Enrolled(Alice), Enrolled(Bakery), Enrolled(Kiosk),
    Funded(Alice, 1000),
    Paid(Alice, Bakery, 600, "Ok"), Ensure("balance", Alice, 400),
    Paid(Bakery, Kiosk, 500, "Ok"), Ensure("float", IssuerKey, 1000),
    Paid(Alice, Bakery, 600, "refusal"), Ensure("balance", Alice, 400),
    Paid(Alice, Kiosk, 400, "Ok"),
    Defunded(Kiosk, 900),
    Funded(Alice, 2000), DevicesDropped,
    Opened(Mallory, 1000), Enrolled(Mallory), Funded(Mallory, 1000), Cracked(Mallory),
    Paid(Mallory, Bakery, 1000, "Ok"), Paid(Mallory, Kiosk, 1000, "Ok"),
    Defunded(Bakery, balance_cents[Bakery]), Defunded(Kiosk, balance_cents[Kiosk]),
    Ensure("float", IssuerKey, 1000), Ensure("total", {Alice, Mallory}, 3000)>>

\* The order in which run_check goes through its scenarios.
CheckScripts ==
  <<"partial_payment_keeps_the_rest", "received_value_is_respendable",
    "refused_payment_costs_nothing", "holding_limit_checked_before_debit",
    "transfers_resist_replay_and_tampering", "defunding_round_trip",
    "lost_device_strands_its_balance", "cracked_element_counterfeits">>

Script(name) ==
  CASE name = "partial_payment_keeps_the_rest"        -> partial_payment_keeps_the_rest
    [] name = "received_value_is_respendable"         -> received_value_is_respendable
    [] name = "refused_payment_costs_nothing"         -> refused_payment_costs_nothing
    [] name = "holding_limit_checked_before_debit"    -> holding_limit_checked_before_debit
    [] name = "transfers_resist_replay_and_tampering" -> transfers_resist_replay_and_tampering
    [] name = "defunding_round_trip"                  -> defunding_round_trip
    [] name = "lost_device_strands_its_balance"       -> lost_device_strands_its_balance
    [] name = "cracked_element_counterfeits"          -> cracked_element_counterfeits
    [] name = "offline_payment"                       -> offline_payment

-----------------------------------------------------------------------------
(* Running a script. *)

Running == todo # <<>> /\ outcome = "running"

Done == position > Len(Script(Head(todo)))

Step == Script(Head(todo))[position]

AtStep(do) == Running /\ ~Done /\ Step.do = do

\* The script goes on if it got what it expects, and fails if not.
Expect(asExpected) ==
  /\ IF asExpected THEN position' = position + 1 /\ UNCHANGED outcome
                   ELSE outcome' = "FAIL" /\ UNCHANGED position
  /\ UNCHANGED <<limit, todo, failed, report>>

OpenOnly ==
  /\ AtStep("open")
  /\ Expect(TRUE)
  /\ OpenAccount(Step.by, Step.balance)
  /\ UNCHANGED <<walletVars, call, held>>

EnrolOnly ==
  /\ AtStep("enrol")
  /\ Expect(TRUE)
  /\ Enrol(Step.by, Step.by, limit)
  /\ UNCHANGED held

Start ==
  /\ AtStep("call") /\ call = Idle
  /\ call' = Step.call
  /\ UNCHANGED <<walletVars, issuerVars, scriptVars>>

Run == CallStep /\ UNCHANGED scriptVars

Returned ==
  /\ AtStep("call") /\ call.at = "returned"
  /\ Expect(call.result = Step.expect \/ (Step.expect = "refusal" /\ call.result # "Ok"))
  /\ call' = Idle
  /\ UNCHANGED <<walletVars, issuerVars, held>>

RequestOnly ==
  /\ AtStep("request")
  /\ LET verdict == ReserveVerdict(Step.by, Step.amount)
     IN  /\ Expect(verdict = Step.expect)
         /\ \/ /\ RequestPayment(Step.by, Step.amount)
               /\ held' = PaymentRequestOf(Step.by, Step.amount)
            \/ verdict # "Ok" /\ UNCHANGED <<walletVars, held>>
  /\ UNCHANGED <<issuerVars, call>>

ReplacePayee ==
  /\ AtStep("replace")
  /\ Expect(TRUE)
  /\ held' = [held EXCEPT !.payee = Step.payee]
  /\ UNCHANGED callVars

PayOnly ==
  /\ AtStep("pay")
  /\ LET verdict == PayVerdict(Step.by, held)
     IN  /\ Expect(verdict = Step.expect)
         /\ \/ Pay(Step.by, held) /\ held' = TransferOf(Step.by, held)
            \/ verdict # "Ok" /\ UNCHANGED <<walletVars, held>>
  /\ UNCHANGED <<issuerVars, call>>

ReceiveOnly ==
  /\ AtStep("receive")
  /\ LET t == [field \in DOMAIN held |->
                 IF field \in DOMAIN Step.altered THEN Step.altered[field] ELSE held[field]]
         verdict == ReceiveVerdict(Step.by, t)
     IN  /\ Expect(verdict = Step.expect)
         /\ \/ Receive(Step.by, t)
            \/ verdict # "Ok" /\ UNCHANGED walletVars
  /\ UNCHANGED <<issuerVars, call, held>>

OrderOnly ==
  /\ AtStep("order")
  /\ LET verdict == DebitVerdict(Step.by, Step.amount)
     IN  /\ Expect(verdict = Step.expect)
         /\ \/ Defund(Step.by, Step.amount) /\ held' = DefundingOf(Step.by, Step.amount)
            \/ verdict # "Ok" /\ UNCHANGED <<walletVars, held>>
  /\ UNCHANGED <<issuerVars, call>>

CashOnly ==
  /\ AtStep("cash")
  /\ LET verdict == DefundVerdict(held)
     IN  /\ Expect(verdict = Step.expect)
         /\ \/ IssuerDefund(held)
            \/ verdict # "Ok" /\ UNCHANGED issuerVars
  /\ UNCHANGED <<walletVars, call, held>>

CrackOnly ==
  /\ AtStep("crack")
  /\ Expect(TRUE)
  /\ CrackSecureElement(Step.by)
  /\ UNCHANGED <<issuerVars, call, held>>

\* Nothing refers to the elements any more; the issuer does not learn of it.
Drop ==
  /\ AtStep("drop")
  /\ Expect(TRUE)
  /\ UNCHANGED <<callVars, held>>

Observed(what, whose) ==
  CASE what = "balance"  -> balance_cents[whose]
    [] what = "reserved" -> Reserved(whose)
    [] what = "headroom" -> Headroom(whose)
    [] what = "total"    -> SumFunctionOnSet(balance_cents, whose)
    [] what = "account"  -> accounts[whose]
    [] what = "float"    -> offline_float

EnsureOnly ==
  /\ AtStep("ensure")
  /\ Expect(Observed(Step.what, Step.whose) = Step.value)
  /\ UNCHANGED <<callVars, held>>

\* Every script starts on a world of its own.
NewWorld ==
  /\ certificate' = NoEntries /\ accounts' = NoEntries /\ devices' = NoEntries
  /\ balance_cents' = [d \in Devices |-> 0]
  /\ incoming' = [d \in Devices |-> NoEntries]
  /\ pending_funding' = [d \in Devices |-> NoEntries]
  /\ credited' = [d \in Devices |-> {}]
  /\ counter' = [d \in Devices |-> 0] /\ rng' = [d \in Devices |-> 0]
  /\ state' = [d \in Devices |-> "Sealed"]
  /\ funding_nonces' = {}
  /\ offline_float' = 0 /\ money' = 0 /\ overflowed' = 0

\* A script that came to its end passed.
NextScript ==
  /\ todo # <<>> /\ (Done \/ outcome = "FAIL")
  /\ failed' = IF outcome = "FAIL" THEN failed + 1 ELSE failed
  /\ report' = Append(report, [script |-> Head(todo),
                               verdict |-> IF outcome = "FAIL" THEN "FAIL" ELSE "PASS"])
  /\ todo' = Tail(todo) /\ position' = 1 /\ held' = Idle /\ outcome' = "running"
  /\ NewWorld
  /\ UNCHANGED <<call, limit>>

ScriptStep ==
  \/ OpenOnly \/ EnrolOnly \/ Start \/ Run \/ Returned
  \/ RequestOnly \/ ReplacePayee \/ PayOnly \/ ReceiveOnly
  \/ OrderOnly \/ CashOnly \/ CrackOnly \/ Drop \/ EnsureOnly
  \/ NextScript

ScriptInit ==
  /\ WalletInit /\ IssuerInit
  /\ call = Idle /\ failed = 0 /\ report = <<>> /\ position = 1 /\ held = Idle /\ outcome = "running"

=============================================================================
