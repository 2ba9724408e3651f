-------------------------------- MODULE Notes --------------------------------
(***************************************************************************)
(* What the offline circuit promises when anything may happen to messages  *)
(* and elements: value travels as notes.  A note is written once, on value *)
(* its writer gives up, and lands once, for exactly its worth, on a claim  *)
(* that its receiver made and has not given up.  Certificates, signatures, *)
(* altered, repeated and overtaken messages, counters, verdicts and        *)
(* reservations do not exist here: whatever they do comes down to this.    *)
(***************************************************************************)
EXTENDS Integers

CONSTANTS Elements,
          Accounts,
          Issuer,    \* writes the notes for value taken off an account
          Cents,     \* amounts
          MaxU64     \* what an account can hold

VARIABLES online,    \* on the accounts opened
          offline,   \* on the elements
          owner,     \* account of each element enrolled
          forgers,   \* elements that write notes without giving up value
          gone,      \* elements that do nothing any more
          claims,    \* claims made
          open,      \* claims a note can still land on
          notes,     \* notes written on claims
          orders,    \* notes written on the writer's own account
          landed,    \* notes and orders credited
          money,     \* what the accounts were opened with
          forged     \* what forgers wrote

notesVars == <<online, offline, owner, forgers, gone, claims, open, notes, orders, landed,
               money, forged>>

Init ==
  /\ online = [a \in {} |-> 0]
  /\ offline = [e \in Elements |-> 0]
  /\ owner = [e \in {} |-> 0]
  /\ forgers = {} /\ gone = {}
  /\ claims = {} /\ open = {}
  /\ notes = {} /\ orders = {} /\ landed = {}
  /\ money = 0 /\ forged = 0

\* A new entry of a function, or a new value for an old one.
Put(f, x, y) == [z \in DOMAIN f \cup {x} |-> IF z = x THEN y ELSE f[z]]

Present == DOMAIN owner \ gone

-----------------------------------------------------------------------------
(* Accounts and elements. *)

Open(account, balance) ==
  /\ online' = Put(online, account, balance)
  /\ money' = money + balance - (IF account \in DOMAIN online THEN online[account] ELSE 0)
  /\ UNCHANGED <<offline, owner, forgers, gone, claims, open, notes, orders, landed, forged>>

Enrol(e, account) ==
  /\ account \in DOMAIN online /\ e \notin DOMAIN owner
  /\ owner' = Put(owner, e, account)
  /\ UNCHANGED <<online, offline, forgers, gone, claims, open, notes, orders, landed,
                 money, forged>>

Crack(e) ==
  /\ e \in Present
  /\ forgers' = forgers \cup {e}
  /\ UNCHANGED <<online, offline, owner, gone, claims, open, notes, orders, landed,
                 money, forged>>

Lose(e) ==
  /\ e \in Present
  /\ gone' = gone \cup {e}
  /\ UNCHANGED <<online, offline, owner, forgers, claims, open, notes, orders, landed,
                 money, forged>>

-----------------------------------------------------------------------------
(* Claims: [by, id, cents, kind], by an element, under an id of its own.   *)

Ask(c) ==
  /\ c.by \in Present
  /\ \A k \in claims : k.by = c.by => k.id # c.id
  /\ claims' = claims \cup {c} /\ open' = open \cup {c}
  /\ UNCHANGED <<online, offline, owner, forgers, gone, notes, orders, landed, money, forged>>

GiveUp(c) ==
  /\ c \in open /\ c.by \in Present
  /\ open' = open \ {c}
  /\ UNCHANGED <<online, offline, owner, forgers, gone, claims, notes, orders, landed,
                 money, forged>>

-----------------------------------------------------------------------------
(* Notes, [from, serial, claim], and orders, [from, serial, cents].        *)

\* An element gives up what it writes a note for, unless it is a forger.
Debit(e, cents) ==
  /\ e \in Present
  /\ 0 < cents /\ cents <= offline[e]
  /\ offline' = IF e \in forgers THEN offline ELSE [offline EXCEPT ![e] = @ - cents]
  /\ forged' = IF e \in forgers THEN forged + cents ELSE forged

NewSerial(e, serial) == \A n \in notes \cup orders : n.from = e => n.serial # serial

\* A claim for funding that was made is granted once.
FundingNote(c) == [from |-> Issuer, serial |-> 0, claim |-> c]

Fund(c) ==
  /\ c \in claims /\ c.kind = "funding" /\ FundingNote(c) \notin notes
  /\ 0 < c.cents /\ c.cents <= online[owner[c.by]]
  /\ online' = [online EXCEPT ![owner[c.by]] = @ - c.cents]
  /\ notes' = notes \cup {FundingNote(c)}
  /\ UNCHANGED <<offline, owner, forgers, gone, claims, open, orders, landed, money, forged>>

\* A payer cannot know what its payee claims: a note may be written on a claim that was
\* never made, is not open any more, or has another note on it already.
Pay(n) ==
  /\ n.claim.kind = "payment" /\ n.claim.by \in DOMAIN owner \ {n.from}
  /\ NewSerial(n.from, n.serial)
  /\ Debit(n.from, n.claim.cents)
  /\ notes' = notes \cup {n}
  /\ UNCHANGED <<online, owner, forgers, gone, claims, open, orders, landed, money>>

Order(o) ==
  /\ NewSerial(o.from, o.serial)
  /\ Debit(o.from, o.cents)
  /\ orders' = orders \cup {o}
  /\ UNCHANGED <<online, owner, forgers, gone, claims, open, notes, landed, money>>

-----------------------------------------------------------------------------
(* Credits. *)

Land(n) ==
  /\ n \in notes \ landed /\ n.claim \in open /\ n.claim.by \in Present
  /\ offline' = [offline EXCEPT ![n.claim.by] = @ + n.claim.cents]
  /\ open' = open \ {n.claim}
  /\ landed' = landed \cup {n}
  /\ UNCHANGED <<online, owner, forgers, gone, claims, notes, orders, money, forged>>

\* An account loses value by overflow only when there is more than fits into one.
Cash(o) ==
  /\ o \in orders \ landed
  /\ LET sum == online[owner[o.from]] + o.cents
     IN  \/ online' = [online EXCEPT ![owner[o.from]] = sum]
         \/ /\ money + forged > MaxU64
            /\ online' = [online EXCEPT ![owner[o.from]] = sum % (MaxU64 + 1)]
  /\ landed' = landed \cup {o}
  /\ UNCHANGED <<offline, owner, forgers, gone, claims, open, notes, orders, money, forged>>

Next ==
  \/ \E account \in Accounts, balance \in Cents : Open(account, balance)
  \/ \E e \in Elements, account \in Accounts : Enrol(e, account)
  \/ \E e \in Elements : Crack(e) \/ Lose(e)
  \/ \E c \in claims' : Ask(c)
  \/ \E c \in open : GiveUp(c)
  \/ \E c \in claims : Fund(c)
  \/ \E n \in notes' : Pay(n)
  \/ \E o \in orders' : Order(o)
  \/ \E n \in notes : Land(n)
  \/ \E o \in orders : Cash(o)

Spec == Init /\ [][Next]_notesVars

=============================================================================
