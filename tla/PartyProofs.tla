----------------------------- MODULE PartyProofs ------------------------------
(***************************************************************************)
(* What each party guarantees by itself, whatever it is handed.            *)
(*                                                                         *)
(* An element: its fields keep their types, it never holds and promises    *)
(* more than its limit, and no nonce is in two places. None of the three   *)
(* is inductive alone: the sums wrap unless the limit is kept, and the     *)
(* limit is kept only while a nonce that is drawn is new. Together they    *)
(* are (WalletInv). The facts about one element are stated about its       *)
(* fields' values first, once for both kinds of reservation; each          *)
(* operation then follows.                                                 *)
(*                                                                         *)
(* The issuer: its books keep their types, and they balance (IssuerInv).   *)
(***************************************************************************)
EXTENDS Wallet, Issuer, AmountsTheorems

-----------------------------------------------------------------------------
(* The element. *)

WalletInv == WalletTypeOK /\ WithinHoldingLimit /\ NonceUsedOnce

\* Open requests of one kind, of one element: a member of Reservations.
IsOpen(reqs) == DOMAIN reqs \subseteq Nonces /\ reqs \in [DOMAIN reqs -> U64]

\* The fields of one element: balance, open requests of this and the other kind,
\* nonces credited, nonces drawn.
Sound(balance, these, others, done, draws) ==
  /\ balance \in U64
  /\ IsOpen(these) /\ IsOpen(others)
  /\ done \subseteq Nonces
  /\ draws \in 0 .. MaxDraws
  /\ DOMAIN these \cap DOMAIN others = {}
  /\ done \cap (DOMAIN these \cup DOMAIN others) = {}
  /\ done \cup DOMAIN these \cup DOMAIN others \subseteq 1 .. draws

Fits(balance, these, others, limit) ==
  balance + SumFunction(these) + SumFunction(others) <= limit

-----------------------------------------------------------------------------
(* One element's fields. *)

\* u64 amounts are natural numbers, and so small that sums within MaxU64 are exact.
LEMMA U64Facts ==
  /\ MaxU64 \in Nat /\ U64 \subseteq Nat
  /\ \A x \in Nat : x <= MaxU64 => Wrap(x) = x
BY MaxU64Assumption DEF U64, Wrap

\* The open requests of an element are finitely many amounts.
LEMMA OpenIsPurse ==
  ASSUME NEW reqs, IsOpen(reqs)
  PROVE  IsPurse(reqs) /\ SumFunction(reqs) \in Nat
<1>1. IsFiniteSet(Nonces)
  BY FS_Interval, BoundsAssumption DEF Nonces
<1>2. IsFiniteSet(DOMAIN reqs)
  BY <1>1, FS_Subset DEF IsOpen
<1>3. IsPurse(reqs)
  BY <1>2, U64Facts DEF IsPurse, IsOpen
<1> QED BY <1>3, PurseNat

\* Both kinds of reservation count alike.
LEMMA SoundSwap ==
  ASSUME NEW balance, NEW these, NEW others, NEW done, NEW draws, NEW limit,
         Sound(balance, these, others, done, draws)
  PROVE  /\ Sound(balance, others, these, done, draws)
         /\ Fits(balance, these, others, limit) <=> Fits(balance, others, these, limit)
<1>1. SumFunction(these) \in Nat /\ SumFunction(others) \in Nat /\ balance \in Nat
  BY OpenIsPurse, U64Facts DEF Sound
<1>2. Sound(balance, others, these, done, draws)
  BY DEF Sound
<1>3. balance + SumFunction(these) + SumFunction(others)
        = balance + SumFunction(others) + SumFunction(these)
  BY <1>1
<1> QED BY <1>2, <1>3 DEF Fits

\* A reservation for what fits, under a nonce never drawn before.
LEMMA ReservationKept ==
  ASSUME NEW balance, NEW these, NEW others, NEW done, NEW draws, NEW limit \in Nat,
         Sound(balance, these, others, done, draws),
         draws < MaxDraws,
         NEW amount \in U64,
         balance + SumFunction(these) + SumFunction(others) + amount <= limit
  PROVE  LET new == Insert(these, draws + 1, amount)
         IN  Sound(balance, new, others, done, draws + 1) /\ Fits(balance, new, others, limit)
<1> DEFINE new == Insert(these, draws + 1, amount)
<1>1. draws \in Nat /\ MaxDraws \in Nat /\ draws + 1 \in Nonces
  BY BoundsAssumption DEF Sound, Nonces
<1>2. draws + 1 \notin 1 .. draws
  BY <1>1
<1>3. draws + 1 \notin DOMAIN these /\ draws + 1 \notin DOMAIN others /\ draws + 1 \notin done
  BY <1>2 DEF Sound
<1>4. DOMAIN new = DOMAIN these \cup {draws + 1}
  BY DEF Insert
<1>5. IsOpen(new)
  BY <1>1, <1>4 DEF Insert, IsOpen, Sound
<1>6. SumFunction(new) = SumFunction(these) + amount
  BY <1>3, OpenIsPurse, PurseInsert, U64Facts DEF Sound
<1>7. SumFunction(these) \in Nat /\ SumFunction(others) \in Nat /\ balance \in Nat /\ amount \in Nat
  BY OpenIsPurse, U64Facts DEF Sound
<1> HIDE DEF new
<1>8. Fits(balance, new, others, limit)
  BY <1>6, <1>7 DEF Fits
<1>9. Sound(balance, new, others, done, draws + 1)
  <2>1. draws + 1 \in 0 .. MaxDraws /\ draws + 1 \in 1 .. draws + 1
    BY <1>1
  <2>2. 1 .. draws \subseteq 1 .. draws + 1
    BY <1>1
  <2> QED BY <1>3, <1>4, <1>5, <2>1, <2>2 DEF Sound
<1> QED BY <1>8, <1>9 DEF new

\* A reservation released.
LEMMA ReleaseKept ==
  ASSUME NEW balance, NEW these, NEW others, NEW done, NEW draws, NEW limit \in Nat,
         Sound(balance, these, others, done, draws),
         NEW nonce \in DOMAIN these
  PROVE  LET rest == Remove(these, nonce)
         IN  /\ Sound(balance, rest, others, done, draws)
             /\ Fits(balance, these, others, limit) =>
                  Fits(balance + these[nonce], rest, others, limit)
             /\ Fits(balance, these, others, limit) => Fits(balance, rest, others, limit)
<1> DEFINE rest == Remove(these, nonce)
<1>1. /\ DOMAIN rest = DOMAIN these \ {nonce}
      /\ \A k \in DOMAIN these \ {nonce} : rest[k] = these[k]
  BY RemoveIs
<1>2. IsOpen(rest)
  <2>1. rest = [k \in DOMAIN these \ {nonce} |-> these[k]]
    BY DEF Remove, Restrict
  <2> QED BY <1>1, <2>1 DEF IsOpen, Sound
<1>3. SumFunction(these) = these[nonce] + SumFunction(rest)
  BY OpenIsPurse, PurseRemove DEF Sound
<1>4. SumFunction(rest) \in Nat /\ SumFunction(others) \in Nat /\ balance \in Nat
  BY <1>2, OpenIsPurse, U64Facts DEF Sound
<1>5. these[nonce] \in Nat
  BY U64Facts DEF Sound, IsOpen
<1> HIDE DEF rest
<1>6. /\ Fits(balance, these, others, limit) => Fits(balance + these[nonce], rest, others, limit)
      /\ Fits(balance, these, others, limit) => Fits(balance, rest, others, limit)
  BY <1>3, <1>4, <1>5 DEF Fits
<1>7. Sound(balance, rest, others, done, draws)
  BY <1>1, <1>2 DEF Sound
<1> QED BY <1>6, <1>7 DEF rest

\* A credit of what was reserved.
LEMMA CreditKept ==
  ASSUME NEW balance, NEW these, NEW others, NEW done, NEW draws, NEW limit \in U64,
         Sound(balance, these, others, done, draws),
         Fits(balance, these, others, limit),
         NEW nonce \in DOMAIN these
  PROVE  LET rest == Remove(these, nonce)
             credit == Wrap(balance + these[nonce])
         IN  Sound(credit, rest, others, done \cup {nonce}, draws) /\ Fits(credit, rest, others, limit)
<1> DEFINE rest == Remove(these, nonce)
<1>1. /\ Sound(balance, rest, others, done, draws)
      /\ Fits(balance + these[nonce], rest, others, limit)
  BY ReleaseKept, U64Facts
<1>2. DOMAIN rest = DOMAIN these \ {nonce}
  BY RemoveIs
<1>3. balance \in Nat /\ these[nonce] \in Nat /\ limit \in Nat /\ limit <= MaxU64
  BY U64Facts DEF Sound, IsOpen, U64
<1>4. SumFunction(rest) \in Nat /\ SumFunction(others) \in Nat
  BY <1>1, OpenIsPurse DEF Sound
<1> HIDE DEF rest
<1>5. balance + these[nonce] <= MaxU64 /\ balance + these[nonce] \in U64
  BY <1>1, <1>3, <1>4, U64Facts DEF Fits, U64
<1>6. Wrap(balance + these[nonce]) = balance + these[nonce]
  BY <1>3, <1>5, U64Facts
<1>7. nonce \in Nonces /\ nonce \in 1 .. draws /\ nonce \notin DOMAIN others /\ nonce \notin DOMAIN rest
  BY <1>2 DEF Sound, IsOpen
<1>8. Sound(balance + these[nonce], rest, others, done \cup {nonce}, draws)
  BY <1>1, <1>5, <1>7 DEF Sound
<1> QED BY <1>1, <1>6, <1>8 DEF rest

\* A debit of what is there.
LEMMA DebitKept ==
  ASSUME NEW balance, NEW these, NEW others, NEW done, NEW draws, NEW limit \in Nat,
         Sound(balance, these, others, done, draws),
         Fits(balance, these, others, limit),
         NEW amount \in U64, amount <= balance
  PROVE  Sound(balance - amount, these, others, done, draws) /\ Fits(balance - amount, these, others, limit)
<1>1. balance \in Nat /\ amount \in Nat /\ SumFunction(these) \in Nat /\ SumFunction(others) \in Nat
  BY OpenIsPurse, U64Facts DEF Sound
<1>2. balance - amount \in U64
  BY <1>1, U64Facts DEF Sound, U64
<1>3. Sound(balance - amount, these, others, done, draws)
  BY <1>2 DEF Sound
<1>4. Fits(balance - amount, these, others, limit)
  BY <1>1 DEF Fits
<1> QED BY <1>3, <1>4

-----------------------------------------------------------------------------
(* All elements. *)

\* What the invariant says of element d, in terms of its fields.
ElementSound(d) ==
  Sound(balance_cents[d], incoming[d], pending_funding[d], credited[d], rng[d])

ElementFits(d) ==
  Fits(balance_cents[d], incoming[d], pending_funding[d], HoldingLimit(d))

\* The fields are there, for every element, and the rest has its type.
Shape ==
  /\ certificate = [d \in Installed |-> certificate[d]]
  /\ Installed \subseteq Devices
  /\ \A d \in Installed : certificate[d].device = d /\ HoldingLimit(d) \in U64
  /\ balance_cents = [d \in Devices |-> balance_cents[d]]
  /\ incoming = [d \in Devices |-> incoming[d]]
  /\ pending_funding = [d \in Devices |-> pending_funding[d]]
  /\ credited = [d \in Devices |-> credited[d]]
  /\ rng = [d \in Devices |-> rng[d]]
  /\ counter \in [Devices -> 0 .. MaxDebits]
  /\ state \in [Devices -> {"Sealed", "Cracked"}]

\* The invariant, element by element.
LEMMA InvByElement ==
  WalletInv <=> /\ Shape
                /\ \A d \in Devices : ElementSound(d)
                /\ \A d \in Installed : ElementFits(d)
<1>1. \A reqs : reqs \in Reservations <=> IsOpen(reqs)
  BY DEF Reservations, IsOpen
<1>2. ASSUME WalletInv PROVE Shape
  BY <1>2 DEF WalletInv, WalletTypeOK, Shape, HoldingLimit
<1>3. ASSUME WalletInv, NEW d \in Devices PROVE ElementSound(d)
  BY <1>1, <1>3 DEF WalletInv, WalletTypeOK, NonceUsedOnce, ElementSound, Sound
<1>4. ASSUME WalletInv, NEW d \in Installed PROVE ElementFits(d)
  BY <1>4 DEF WalletInv, WithinHoldingLimit, ElementFits, Fits
<1>5. ASSUME Shape, \A d \in Devices : ElementSound(d) PROVE WalletTypeOK
  <2>1. \A d \in Devices : /\ balance_cents[d] \in U64 /\ rng[d] \in 0 .. MaxDraws
                           /\ credited[d] \in SUBSET Nonces
                           /\ incoming[d] \in Reservations /\ pending_funding[d] \in Reservations
    BY <1>1, <1>5 DEF ElementSound, Sound
  <2> QED BY <1>5, <2>1 DEF Shape, WalletTypeOK, HoldingLimit
<1>6. ASSUME \A d \in Devices : ElementSound(d) PROVE NonceUsedOnce
  BY <1>6 DEF ElementSound, Sound, NonceUsedOnce
<1>7. ASSUME \A d \in Installed : ElementFits(d) PROVE WithinHoldingLimit
  BY <1>7 DEF ElementFits, Fits, WithinHoldingLimit
<1> QED BY <1>2, <1>3, <1>4, <1>5, <1>6, <1>7 DEF WalletInv

\* The same of the next state.
LEMMA InvByElementNext ==
  WalletInv' <=> /\ Shape'
                 /\ \A d \in Devices : ElementSound(d)'
                 /\ \A d \in (Installed)' : ElementFits(d)'
<1>1. (WalletInv <=> /\ Shape
                     /\ \A d \in Devices : ElementSound(d)
                     /\ \A d \in Installed : ElementFits(d))'
  BY InvByElement, PTL
<1> QED BY <1>1

-----------------------------------------------------------------------------
(* The operations. *)

\* An operation of one element that leaves it sound and within its limit leaves
\* all of them so, the others being untouched.
LEMMA OneElement ==
  ASSUME WalletInv, NEW d \in Installed, Shape',
         certificate' = certificate,
         \A e \in Devices \ {d} :
           /\ balance_cents'[e] = balance_cents[e]
           /\ incoming'[e] = incoming[e] /\ pending_funding'[e] = pending_funding[e]
           /\ credited'[e] = credited[e] /\ rng'[e] = rng[e],
         ElementSound(d)', ElementFits(d)'
  PROVE  WalletInv'
<1>1. \A e \in Devices : ElementSound(e)'
  BY InvByElement DEF ElementSound
<1>2. (Installed)' = Installed /\ Installed \subseteq Devices
  BY InvByElement DEF Installed, Shape
<1>3. \A e \in (Installed)' : ElementFits(e)'
  BY <1>2, InvByElement DEF ElementFits, HoldingLimit
<1> QED BY <1>1, <1>3, InvByElementNext

\* What is known of an element before it is operated on.
LEMMA OfElement ==
  ASSUME WalletInv, NEW d \in Installed
  PROVE  /\ Shape /\ ElementSound(d) /\ ElementFits(d)
         /\ d \in Devices /\ HoldingLimit(d) \in U64 /\ HoldingLimit(d) \in Nat
BY InvByElement, U64Facts DEF Shape

\* An amount that passes the check in reserve fits on top of all promises made.
LEMMA RoomIsReal ==
  ASSUME WalletInv, NEW d \in Installed, NEW amount \in U64,
         ReserveVerdict(d, amount) = "Ok"
  PROVE  balance_cents[d] + SumFunction(incoming[d]) + SumFunction(pending_funding[d]) + amount
           <= HoldingLimit(d)
<1> DEFINE b == balance_cents[d]
           i == SumFunction(incoming[d])
           p == SumFunction(pending_funding[d])
           limit == HoldingLimit(d)
<1>1. b \in Nat /\ i \in Nat /\ p \in Nat /\ limit \in Nat /\ limit <= MaxU64 /\ amount \in Nat
  BY OfElement, OpenIsPurse, U64Facts DEF ElementSound, Sound, U64
<1>2. b + i + p <= limit
  BY OfElement DEF ElementFits, Fits
<1>3. Reserved(d) = Wrap(Wrap(i) + Wrap(p))
  BY DEF Reserved
<1>4. amount # 0 /\ ~(amount > Headroom(d))
  BY DEF ReserveVerdict
<1>5. Headroom(d) = SaturatingSub(SaturatingSub(limit, b), Reserved(d))
  BY DEF Headroom
<1> HIDE DEF b, i, p, limit
<1>6. i <= MaxU64 /\ p <= MaxU64 /\ i + p <= MaxU64 /\ i + p \in Nat
  BY <1>1, <1>2, U64Facts
<1>7. Reserved(d) = i + p
  BY <1>1, <1>3, <1>6, U64Facts
<1>8. Headroom(d) = limit - b - (i + p)
  BY <1>1, <1>2, <1>5, <1>7 DEF SaturatingSub
<1>9. b + i + p + amount <= limit
  BY <1>1, <1>4, <1>8
<1> QED BY <1>9 DEF b, i, p, limit

\* request_payment keeps the invariant.
LEMMA RequestPaymentKept ==
  ASSUME WalletInv, NEW d \in Installed, NEW amount \in U64, RequestPayment(d, amount)
  PROVE  WalletInv'
<1>1. /\ Shape /\ ElementSound(d) /\ d \in Devices /\ HoldingLimit(d) \in Nat
  BY OfElement
<1>2. rng[d] < MaxDraws /\ ReserveVerdict(d, amount) = "Ok"
  BY DEF RequestPayment, Reserve
<1>3. LET new == Insert(incoming[d], rng[d] + 1, amount)
      IN  /\ Sound(balance_cents[d], new, pending_funding[d], credited[d], rng[d] + 1)
          /\ Fits(balance_cents[d], new, pending_funding[d], HoldingLimit(d))
  BY <1>1, <1>2, RoomIsReal, ReservationKept DEF ElementSound
<1>4. /\ incoming'[d] = Insert(incoming[d], rng[d] + 1, amount) /\ rng'[d] = rng[d] + 1
      /\ UNCHANGED <<certificate, balance_cents, pending_funding, credited, counter, state>>
  BY <1>1 DEF RequestPayment, Reserve, NextNonce, Shape
<1>5. ElementSound(d)' /\ ElementFits(d)'
  BY <1>3, <1>4 DEF ElementSound, ElementFits, HoldingLimit
<1>6. Shape'
  BY <1>1, <1>4 DEF Shape, RequestPayment, Reserve, Installed, HoldingLimit
<1>7. \A e \in Devices \ {d} : incoming'[e] = incoming[e] /\ rng'[e] = rng[e]
  BY <1>1 DEF Shape, RequestPayment, Reserve
<1> QED BY <1>4, <1>5, <1>6, <1>7, OneElement

\* request_funding keeps the invariant.
LEMMA RequestFundingKept ==
  ASSUME WalletInv, NEW d \in Installed, NEW amount \in U64, RequestFunding(d, amount)
  PROVE  WalletInv'
<1>1. /\ Shape /\ ElementSound(d) /\ d \in Devices /\ HoldingLimit(d) \in Nat
  BY OfElement
<1>2. rng[d] < MaxDraws /\ ReserveVerdict(d, amount) = "Ok"
  BY DEF RequestFunding, Reserve
<1>3. Sound(balance_cents[d], pending_funding[d], incoming[d], credited[d], rng[d])
  BY <1>1, SoundSwap DEF ElementSound
<1>4. balance_cents[d] + SumFunction(pending_funding[d]) + SumFunction(incoming[d]) + amount
        <= HoldingLimit(d)
  <2>1. /\ balance_cents[d] \in Nat /\ amount \in Nat
        /\ SumFunction(incoming[d]) \in Nat /\ SumFunction(pending_funding[d]) \in Nat
    BY <1>3, OpenIsPurse, U64Facts DEF Sound
  <2> QED BY <1>1, <1>2, <2>1, RoomIsReal
<1>5. LET new == Insert(pending_funding[d], rng[d] + 1, amount)
      IN  /\ Sound(balance_cents[d], new, incoming[d], credited[d], rng[d] + 1)
          /\ Fits(balance_cents[d], new, incoming[d], HoldingLimit(d))
  BY <1>1, <1>2, <1>3, <1>4, ReservationKept
<1>6. LET new == Insert(pending_funding[d], rng[d] + 1, amount)
      IN  /\ Sound(balance_cents[d], incoming[d], new, credited[d], rng[d] + 1)
          /\ Fits(balance_cents[d], incoming[d], new, HoldingLimit(d))
  BY <1>5, SoundSwap
<1>7. /\ pending_funding'[d] = Insert(pending_funding[d], rng[d] + 1, amount) /\ rng'[d] = rng[d] + 1
      /\ UNCHANGED <<certificate, balance_cents, incoming, credited, counter, state>>
  BY <1>1 DEF RequestFunding, Reserve, NextNonce, Shape
<1>8. ElementSound(d)' /\ ElementFits(d)'
  BY <1>6, <1>7 DEF ElementSound, ElementFits, HoldingLimit
<1>9. Shape'
  BY <1>1, <1>7 DEF Shape, RequestFunding, Reserve, Installed, HoldingLimit
<1>10. \A e \in Devices \ {d} : pending_funding'[e] = pending_funding[e] /\ rng'[e] = rng[e]
  BY <1>1 DEF Shape, RequestFunding, Reserve
<1> QED BY <1>7, <1>8, <1>9, <1>10, OneElement

\* cancel_request keeps the invariant.
LEMMA CancelRequestKept ==
  ASSUME WalletInv, NEW d \in Installed, NEW nonce, CancelRequest(d, nonce)
  PROVE  WalletInv'
<1>1. /\ Shape /\ ElementSound(d) /\ ElementFits(d) /\ d \in Devices /\ HoldingLimit(d) \in Nat
  BY OfElement
<1>2. /\ nonce \in DOMAIN incoming[d] /\ incoming'[d] = Remove(incoming[d], nonce)
      /\ UNCHANGED <<certificate, balance_cents, pending_funding, credited, counter, state, rng>>
  BY <1>1 DEF CancelRequest, Shape
<1>3. LET rest == Remove(incoming[d], nonce)
      IN  /\ Sound(balance_cents[d], rest, pending_funding[d], credited[d], rng[d])
          /\ Fits(balance_cents[d], rest, pending_funding[d], HoldingLimit(d))
  BY <1>1, <1>2, ReleaseKept DEF ElementSound, ElementFits
<1>4. ElementSound(d)' /\ ElementFits(d)'
  BY <1>2, <1>3 DEF ElementSound, ElementFits, HoldingLimit
<1>5. Shape'
  BY <1>1, <1>2 DEF Shape, CancelRequest, Installed, HoldingLimit
<1>6. \A e \in Devices \ {d} : incoming'[e] = incoming[e]
  BY <1>1 DEF Shape, CancelRequest
<1> QED BY <1>2, <1>4, <1>5, <1>6, OneElement

\* cancel_funding keeps the invariant.
LEMMA CancelFundingKept ==
  ASSUME WalletInv, NEW d \in Installed, NEW nonce, CancelFunding(d, nonce)
  PROVE  WalletInv'
<1>1. /\ Shape /\ ElementSound(d) /\ ElementFits(d) /\ d \in Devices /\ HoldingLimit(d) \in Nat
  BY OfElement
<1>2. /\ nonce \in DOMAIN pending_funding[d]
      /\ pending_funding'[d] = Remove(pending_funding[d], nonce)
      /\ UNCHANGED <<certificate, balance_cents, incoming, credited, counter, state, rng>>
  BY <1>1 DEF CancelFunding, Shape
<1>3. /\ Sound(balance_cents[d], pending_funding[d], incoming[d], credited[d], rng[d])
      /\ Fits(balance_cents[d], pending_funding[d], incoming[d], HoldingLimit(d))
  BY <1>1, SoundSwap DEF ElementSound, ElementFits
<1>4. LET rest == Remove(pending_funding[d], nonce)
      IN  /\ Sound(balance_cents[d], rest, incoming[d], credited[d], rng[d])
          /\ Fits(balance_cents[d], rest, incoming[d], HoldingLimit(d))
  BY <1>1, <1>2, <1>3, ReleaseKept
<1>5. ElementSound(d)' /\ ElementFits(d)'
  BY <1>2, <1>4, SoundSwap DEF ElementSound, ElementFits, HoldingLimit
<1>6. Shape'
  BY <1>1, <1>2 DEF Shape, CancelFunding, Installed, HoldingLimit
<1>7. \A e \in Devices \ {d} : pending_funding'[e] = pending_funding[e]
  BY <1>1 DEF Shape, CancelFunding
<1> QED BY <1>2, <1>5, <1>6, <1>7, OneElement

\* receive keeps the invariant, whatever the transfer.
LEMMA ReceiveKept ==
  ASSUME WalletInv, NEW d \in Installed, NEW t, Receive(d, t)
  PROVE  WalletInv'
<1>1. /\ Shape /\ ElementSound(d) /\ ElementFits(d) /\ d \in Devices /\ HoldingLimit(d) \in U64
  BY OfElement
<1>2. t.nonce \in DOMAIN incoming[d]
  BY DEF Receive, ReceiveVerdict
<1>3. /\ incoming'[d] = Remove(incoming[d], t.nonce)
      /\ credited'[d] = credited[d] \cup {t.nonce}
      /\ balance_cents'[d] = Wrap(balance_cents[d] + incoming[d][t.nonce])
      /\ UNCHANGED <<certificate, pending_funding, counter, state, rng>>
  BY <1>1 DEF Receive, Shape
<1>4. LET rest == Remove(incoming[d], t.nonce)
          credit == Wrap(balance_cents[d] + incoming[d][t.nonce])
      IN  /\ Sound(credit, rest, pending_funding[d], credited[d] \cup {t.nonce}, rng[d])
          /\ Fits(credit, rest, pending_funding[d], HoldingLimit(d))
  BY <1>1, <1>2, CreditKept DEF ElementSound, ElementFits
<1>5. ElementSound(d)' /\ ElementFits(d)'
  BY <1>3, <1>4 DEF ElementSound, ElementFits, HoldingLimit
<1>6. Shape'
  BY <1>1, <1>3 DEF Shape, Receive, Installed, HoldingLimit
<1>7. \A e \in Devices \ {d} : /\ incoming'[e] = incoming[e] /\ credited'[e] = credited[e]
                              /\ balance_cents'[e] = balance_cents[e]
  BY <1>1 DEF Shape, Receive
<1> QED BY <1>3, <1>5, <1>6, <1>7, OneElement

\* apply_funding keeps the invariant, whatever the funding.
LEMMA ApplyFundingKept ==
  ASSUME WalletInv, NEW d \in Installed, NEW f, ApplyFunding(d, f)
  PROVE  WalletInv'
<1>1. /\ Shape /\ ElementSound(d) /\ ElementFits(d) /\ d \in Devices /\ HoldingLimit(d) \in U64
  BY OfElement
<1>2. f.nonce \in DOMAIN pending_funding[d]
  BY DEF ApplyFunding, ApplyVerdict
<1>3. /\ pending_funding'[d] = Remove(pending_funding[d], f.nonce)
      /\ credited'[d] = credited[d] \cup {f.nonce}
      /\ balance_cents'[d] = Wrap(balance_cents[d] + pending_funding[d][f.nonce])
      /\ UNCHANGED <<certificate, incoming, counter, state, rng>>
  BY <1>1 DEF ApplyFunding, Shape
<1>4. /\ Sound(balance_cents[d], pending_funding[d], incoming[d], credited[d], rng[d])
      /\ Fits(balance_cents[d], pending_funding[d], incoming[d], HoldingLimit(d))
  BY <1>1, SoundSwap DEF ElementSound, ElementFits
<1>5. LET rest == Remove(pending_funding[d], f.nonce)
          credit == Wrap(balance_cents[d] + pending_funding[d][f.nonce])
      IN  /\ Sound(credit, rest, incoming[d], credited[d] \cup {f.nonce}, rng[d])
          /\ Fits(credit, rest, incoming[d], HoldingLimit(d))
  BY <1>1, <1>2, <1>4, CreditKept
<1>6. ElementSound(d)' /\ ElementFits(d)'
  BY <1>3, <1>5, SoundSwap DEF ElementSound, ElementFits, HoldingLimit
<1>7. Shape'
  BY <1>1, <1>3 DEF Shape, ApplyFunding, Installed, HoldingLimit
<1>8. \A e \in Devices \ {d} : /\ pending_funding'[e] = pending_funding[e]
                              /\ credited'[e] = credited[e]
                              /\ balance_cents'[e] = balance_cents[e]
  BY <1>1 DEF Shape, ApplyFunding
<1> QED BY <1>3, <1>6, <1>7, <1>8, OneElement

\* A debit keeps the invariant, on a sealed element and on a cracked one.
LEMMA DebitActionKept ==
  ASSUME WalletInv, NEW d \in Installed, NEW amount \in U64, Debit(d, amount),
         UNCHANGED <<certificate, incoming, pending_funding, credited, state, rng>>
  PROVE  WalletInv'
<1>1. /\ Shape /\ ElementSound(d) /\ ElementFits(d) /\ d \in Devices /\ HoldingLimit(d) \in Nat
  BY OfElement
<1>2. amount <= balance_cents[d] /\ counter[d] < MaxDebits
  <2>1. balance_cents[d] \in Nat /\ amount \in Nat
    BY <1>1, U64Facts DEF ElementSound, Sound
  <2> QED BY <2>1 DEF Debit, DebitVerdict
<1>3. /\ Sound(balance_cents[d] - amount, incoming[d], pending_funding[d], credited[d], rng[d])
      /\ Fits(balance_cents[d] - amount, incoming[d], pending_funding[d], HoldingLimit(d))
  BY <1>1, <1>2, DebitKept DEF ElementSound, ElementFits
<1>4. balance_cents'[d] \in {balance_cents[d], balance_cents[d] - amount}
  BY <1>1 DEF Debit, Shape
<1>5. ElementSound(d)' /\ ElementFits(d)'
  BY <1>1, <1>3, <1>4 DEF ElementSound, ElementFits, HoldingLimit
<1>6. counter' \in [Devices -> 0 .. MaxDebits]
  <2>1. counter[d] \in 0 .. MaxDebits
    BY <1>1 DEF Shape
  <2>2. counter[d] + 1 \in 0 .. MaxDebits
    BY <1>2, <2>1, BoundsAssumption
  <2> QED BY <1>1, <2>2 DEF Shape, Debit, NextCounter
<1>7. /\ balance_cents' = [e \in Devices |-> balance_cents'[e]]
      /\ \A e \in Devices \ {d} : balance_cents'[e] = balance_cents[e]
  BY <1>1 DEF Shape, Debit
<1>8. Shape'
  BY <1>1, <1>6, <1>7 DEF Shape, Installed, HoldingLimit
<1> QED BY <1>5, <1>7, <1>8, OneElement

\* crack_secure_element keeps the invariant.
LEMMA CrackKept ==
  ASSUME WalletInv, NEW d \in Installed, CrackSecureElement(d)
  PROVE  WalletInv'
<1>1. /\ Shape /\ ElementSound(d) /\ ElementFits(d)
  BY OfElement
<1>2. Shape'
  BY <1>1 DEF Shape, CrackSecureElement, Installed, HoldingLimit
<1>3. ElementSound(d)' /\ ElementFits(d)'
  BY <1>1 DEF ElementSound, ElementFits, HoldingLimit, CrackSecureElement
<1> QED BY <1>2, <1>3, OneElement DEF CrackSecureElement

\* A fresh element satisfies the invariant, and the others are untouched.
LEMMA InstallKept ==
  ASSUME WalletInv, NEW c, c.device \in Devices, c.holding_limit_cents \in U64,
         NEW key, NEW issuer, Install(c, key, issuer)
  PROVE  WalletInv'
<1> DEFINE d == c.device
<1>1. Shape /\ \A e \in Devices : ElementSound(e)
  BY InvByElement
<1>2. /\ certificate' = Insert(certificate, d, c) /\ d \notin Installed
      /\ balance_cents' = [balance_cents EXCEPT ![d] = 0]
      /\ incoming' = [incoming EXCEPT ![d] = NoEntries]
      /\ pending_funding' = [pending_funding EXCEPT ![d] = NoEntries]
      /\ credited' = [credited EXCEPT ![d] = {}]
      /\ counter' = [counter EXCEPT ![d] = 0]
      /\ state' = [state EXCEPT ![d] = "Sealed"]
      /\ UNCHANGED rng
  BY DEF Install
<1>3. /\ (Installed)' = Installed \cup {d} /\ certificate'[d] = c
      /\ \A e \in Installed : certificate'[e] = certificate[e]
  BY <1>2 DEF Installed, Insert
<1>4. Shape'
  <2>1. certificate' = [e \in (Installed)' |-> certificate'[e]]
    BY <1>2 DEF Installed, Insert
  <2>2. \A e \in (Installed)' : certificate'[e].device = e /\ HoldingLimit(e)' \in U64
    BY <1>1, <1>3 DEF Shape, HoldingLimit
  <2>3. counter' \in [Devices -> 0 .. MaxDebits] /\ state' \in [Devices -> {"Sealed", "Cracked"}]
    BY <1>1, <1>2, BoundsAssumption DEF Shape
  <2>4. /\ balance_cents' = [e \in Devices |-> balance_cents'[e]]
        /\ incoming' = [e \in Devices |-> incoming'[e]]
    BY <1>1, <1>2 DEF Shape
  <2>5. /\ pending_funding' = [e \in Devices |-> pending_funding'[e]]
        /\ credited' = [e \in Devices |-> credited'[e]] /\ rng' = [e \in Devices |-> rng'[e]]
    BY <1>1, <1>2 DEF Shape
  <2>6. (Installed)' \subseteq Devices
    BY <1>1, <1>3 DEF Shape
  <2> QED BY <2>1, <2>2, <2>3, <2>4, <2>5, <2>6 DEF Shape
<1>5. ElementSound(d)' /\ ElementFits(d)'
  <2>1. /\ balance_cents'[d] = 0 /\ incoming'[d] = NoEntries /\ pending_funding'[d] = NoEntries
        /\ credited'[d] = {} /\ rng'[d] = rng[d]
    BY <1>1, <1>2 DEF Shape
  <2>2. IsOpen(NoEntries) /\ DOMAIN NoEntries = {}
    BY DEF IsOpen, NoEntries
  <2>3. 0 \in U64 /\ rng[d] \in 0 .. MaxDraws
    BY <1>1, U64Facts DEF U64, ElementSound, Sound
  <2>4. HoldingLimit(d)' \in Nat
    BY <1>3, U64Facts DEF HoldingLimit
  <2> QED BY <2>1, <2>2, <2>3, <2>4, PurseEmpty DEF ElementSound, Sound, ElementFits, Fits
<1>6. \A e \in Devices \ {d} : ElementSound(e)'
  BY <1>1, <1>2 DEF Shape, ElementSound
<1>7. \A e \in Installed : ElementFits(e)'
  <2>1. \A e \in Installed : e # d /\ e \in Devices /\ ElementFits(e)
    BY <1>2, InvByElement DEF Shape
  <2> QED BY <1>1, <1>2, <1>3, <2>1 DEF Shape, ElementFits, HoldingLimit
<1> QED BY <1>3, <1>4, <1>5, <1>6, <1>7, InvByElementNext

\* Nothing is installed and nothing is reserved at first.
LEMMA WalletInitOK == WalletInit => WalletInv
<1> SUFFICES ASSUME WalletInit PROVE WalletInv
  OBVIOUS
<1>1. Installed = {}
  BY DEF WalletInit, Installed, NoEntries
<1>2. Shape
  BY <1>1, BoundsAssumption DEF WalletInit, Shape, NoEntries
<1>3. ASSUME NEW d \in Devices PROVE ElementSound(d)
  <2>1. IsOpen(NoEntries) /\ DOMAIN NoEntries = {}
    BY DEF IsOpen, NoEntries
  <2>2. 0 \in U64 /\ 0 \in 0 .. MaxDraws
    BY U64Facts, BoundsAssumption DEF U64
  <2> QED BY <2>1, <2>2 DEF WalletInit, ElementSound, Sound
<1> QED BY <1>1, <1>2, <1>3, InvByElement

\* A step that touches no element keeps the invariant.
LEMMA WalletStutterKept ==
  ASSUME WalletInv, UNCHANGED walletVars
  PROVE  WalletInv'
BY DEF WalletInv, WalletTypeOK, WithinHoldingLimit, NonceUsedOnce, Installed, HoldingLimit,
       walletVars

-----------------------------------------------------------------------------
(***************************************************************************)
(* The elements in any world: the certificates installed are for devices   *)
(* and carry u64 limits, the amounts are u64, and nothing is assumed of    *)
(* the transfers and fundings, least of all that they are genuine.         *)
(***************************************************************************)

\* What the world may hand the elements.
World(amounts, certificates, requests) ==
  /\ amounts \subseteq U64
  /\ \A c \in certificates : c.device \in Devices /\ c.holding_limit_cents \in U64
  /\ \A r \in requests : r.amount_cents \in U64

\* Every operation keeps the invariant.
LEMMA WalletStepKept ==
  ASSUME NEW amounts, NEW certificates, NEW requests, NEW transfers, NEW fundings,
         World(amounts, certificates, requests),
         WalletInv,
         [WalletNext(amounts, certificates, requests, transfers, fundings)]_walletVars
  PROVE  WalletInv'
<1>1. ASSUME NEW c \in certificates, NEW key \in Keys, NEW issuer \in Keys, Install(c, key, issuer)
      PROVE  WalletInv'
  BY <1>1, InstallKept DEF World
<1>2. ASSUME NEW d \in Installed, CrackSecureElement(d)
      PROVE  WalletInv'
  BY <1>2, CrackKept
<1>3. ASSUME NEW d \in Installed, NEW a \in amounts, RequestPayment(d, a)
      PROVE  WalletInv'
  BY <1>3, RequestPaymentKept DEF World
<1>4. ASSUME NEW d \in Installed, NEW n \in Nonces, CancelRequest(d, n)
      PROVE  WalletInv'
  BY <1>4, CancelRequestKept
<1>5. ASSUME NEW d \in Installed, NEW t \in transfers, Receive(d, t)
      PROVE  WalletInv'
  BY <1>5, ReceiveKept
<1>6. ASSUME NEW d \in Installed, NEW r \in requests, Pay(d, r)
      PROVE  WalletInv'
  BY <1>6, DebitActionKept DEF World, Pay
<1>7. ASSUME NEW d \in Installed, NEW a \in amounts, RequestFunding(d, a)
      PROVE  WalletInv'
  BY <1>7, RequestFundingKept DEF World
<1>8. ASSUME NEW d \in Installed, NEW n \in Nonces, CancelFunding(d, n)
      PROVE  WalletInv'
  BY <1>8, CancelFundingKept
<1>9. ASSUME NEW d \in Installed, NEW f \in fundings, ApplyFunding(d, f)
      PROVE  WalletInv'
  BY <1>9, ApplyFundingKept
<1>10. ASSUME NEW d \in Installed, NEW a \in amounts, Defund(d, a)
       PROVE  WalletInv'
  BY <1>10, DebitActionKept DEF World, Defund
<1>11. ASSUME UNCHANGED walletVars
       PROVE  WalletInv'
  BY <1>11, WalletStutterKept
<1> QED
  BY <1>1, <1>2, <1>3, <1>4, <1>5, <1>6, <1>7, <1>8, <1>9, <1>10, <1>11 DEF WalletNext

\* Whatever the world holds, every field of every element keeps its type: no
\* balance goes below zero or beyond u64 (wallet.rs).
THEOREM WalletTypeCorrect ==
  ASSUME NEW CONSTANT amounts, NEW CONSTANT certificates, NEW CONSTANT requests,
         NEW CONSTANT transfers, NEW CONSTANT fundings,
         World(amounts, certificates, requests)
  PROVE  WalletSpec(amounts, certificates, requests, transfers, fundings) => []WalletTypeOK
<1>1. WalletInit => WalletInv
  BY WalletInitOK
<1>2. WalletInv /\ [WalletNext(amounts, certificates, requests, transfers, fundings)]_walletVars
        => WalletInv'
  BY WalletStepKept
<1>3. WalletInv => WalletTypeOK
  BY DEF WalletInv
<1> QED BY <1>1, <1>2, <1>3, PTL DEF WalletSpec

\* Whatever the world holds, no element ever holds and promises more than its
\* holding limit, so every open request can still be credited (wallet.rs: "Room was
\* reserved when the request was issued, so this stays within the holding limit").
THEOREM HoldingLimitKept ==
  ASSUME NEW CONSTANT amounts, NEW CONSTANT certificates, NEW CONSTANT requests,
         NEW CONSTANT transfers, NEW CONSTANT fundings,
         World(amounts, certificates, requests)
  PROVE  WalletSpec(amounts, certificates, requests, transfers, fundings) => []WithinHoldingLimit
<1>1. WalletInit => WalletInv
  BY WalletInitOK
<1>2. WalletInv /\ [WalletNext(amounts, certificates, requests, transfers, fundings)]_walletVars
        => WalletInv'
  BY WalletStepKept
<1>3. WalletInv => WithinHoldingLimit
  BY DEF WalletInv
<1> QED BY <1>1, <1>2, <1>3, PTL DEF WalletSpec

\* Whatever the world holds, a nonce is open or credited, never both, and never
\* open twice (wallet.rs: "so a replayed message credits nothing").
THEOREM NoncesUsedOnce ==
  ASSUME NEW CONSTANT amounts, NEW CONSTANT certificates, NEW CONSTANT requests,
         NEW CONSTANT transfers, NEW CONSTANT fundings,
         World(amounts, certificates, requests)
  PROVE  WalletSpec(amounts, certificates, requests, transfers, fundings) => []NonceUsedOnce
<1>1. WalletInit => WalletInv
  BY WalletInitOK
<1>2. WalletInv /\ [WalletNext(amounts, certificates, requests, transfers, fundings)]_walletVars
        => WalletInv'
  BY WalletStepKept
<1>3. WalletInv => NonceUsedOnce
  BY DEF WalletInv
<1> QED BY <1>1, <1>2, <1>3, PTL DEF WalletSpec

-----------------------------------------------------------------------------
(* The issuer. *)

IssuerInv == IssuerTypeOK /\ BooksBalance

\* What the world may hand the issuer: requests and orders whose fields have their
\* types; nothing is assumed of who signed them or how often they arrive.
IssuerWorld(balances, requests, orders) ==
  /\ balances \subseteq U64
  /\ \A r \in requests : r.device \in Devices /\ r.amount_cents \in U64 /\ r.nonce \in Nonces
  /\ \A o \in orders : o.device \in Devices /\ o.amount_cents \in U64 /\ o.counter \in Counters

-----------------------------------------------------------------------------

\* An addition that wraps loses nothing but what is recorded.
LEMMA WrapLoss ==
  ASSUME NEW x \in Nat
  PROVE  Wrap(x) \in U64 /\ Wrap(x) \in Nat /\ x - Wrap(x) \in Nat
         /\ (x <= MaxU64 => Wrap(x) = x)
<1>1. MaxU64 \in Nat
  BY MaxU64Assumption
<1>2. Wrap(x) \in 0 .. MaxU64 /\ Wrap(x) <= x
  BY <1>1 DEF Wrap
<1>3. x <= MaxU64 => Wrap(x) = x
  BY <1>1 DEF Wrap
<1> QED BY <1>1, <1>2, <1>3 DEF U64

\* The accounts opened are finitely many amounts.
LEMMA AccountsPurse ==
  ASSUME IssuerTypeOK
  PROVE  IsPurse(accounts) /\ SumFunction(accounts) \in Nat
<1>1. IsFiniteSet(DOMAIN accounts)
  BY AccountsAssumption, FS_Subset DEF IssuerTypeOK
<1>2. \A account \in DOMAIN accounts : accounts[account] \in Nat
  BY MaxU64Assumption DEF IssuerTypeOK, U64
<1>3. IsPurse(accounts)
  BY <1>1, <1>2 DEF IsPurse
<1> QED BY <1>3, PurseNat

\* open_account keeps the books, a repeated opening included.
LEMMA OpenAccountKept ==
  ASSUME IssuerInv, NEW account \in Accounts, NEW balance \in U64, OpenAccount(account, balance)
  PROVE  IssuerInv'
<1>1. balance \in Nat /\ IsPurse(accounts) /\ SumFunction(accounts) \in Nat
  BY AccountsPurse, MaxU64Assumption DEF IssuerInv, U64
<1>2. /\ accounts' = Insert(accounts, account, balance)
      /\ money' = money - BalanceOf(account) + balance
      /\ UNCHANGED <<devices, funding_nonces, offline_float, overflowed>>
  BY DEF OpenAccount
<1>3. DOMAIN accounts' = DOMAIN accounts \cup {account}
  BY <1>2 DEF Insert
<1>4. accounts' \in [DOMAIN accounts' -> U64]
  BY <1>2, <1>3 DEF Insert, IssuerInv, IssuerTypeOK
<1>5. BalanceOf(account) \in Nat
  BY <1>1 DEF BalanceOf, IsPurse
<1>6. IssuerTypeOK'
  BY <1>1, <1>2, <1>3, <1>4, <1>5 DEF IssuerInv, IssuerTypeOK, DeviceRecord
<1>7. SumFunction(accounts') = SumFunction(accounts) - BalanceOf(account) + balance
  <2>1. CASE account \in DOMAIN accounts
    <3>1. accounts' = [accounts EXCEPT ![account] = balance]
      BY <1>2, <2>1 DEF Insert, IssuerInv, IssuerTypeOK
    <3> QED BY <1>1, <2>1, <3>1, PurseUpdate DEF BalanceOf
  <2>2. CASE account \notin DOMAIN accounts
    BY <1>1, <1>2, <2>2, PurseInsert DEF BalanceOf
  <2> QED BY <2>1, <2>2
<1>8. BooksBalance'
  BY <1>1, <1>2, <1>5, <1>7 DEF IssuerInv, BooksBalance, IssuerTypeOK
<1> QED BY <1>6, <1>8 DEF IssuerInv

\* certify_device keeps the books.
LEMMA CertifyDeviceKept ==
  ASSUME IssuerInv, NEW d \in Devices, NEW account \in Accounts, NEW key \in Keys,
         CertifyDevice(d, account, key)
  PROVE  IssuerInv'
<1>1. /\ account \in DOMAIN accounts
      /\ devices' = Insert(devices, d, [account |-> account, public_key |-> key,
                                        last_defunding_counter |-> 0])
      /\ UNCHANGED <<accounts, funding_nonces, offline_float, money, overflowed>>
  BY DEF CertifyDevice, CertifyVerdict
<1>2. [account |-> account, public_key |-> key, last_defunding_counter |-> 0] \in DeviceRecord
  BY BoundsAssumption DEF DeviceRecord
<1>3. DOMAIN devices' = DOMAIN devices \cup {d}
  BY <1>1 DEF Insert
<1>4. devices' \in [DOMAIN devices' -> DeviceRecord]
  BY <1>1, <1>2, <1>3 DEF Insert, IssuerInv, IssuerTypeOK
<1>5. \A e \in DOMAIN devices' : devices'[e].account \in DOMAIN accounts'
  BY <1>1, <1>3 DEF Insert, IssuerInv, IssuerTypeOK
<1>6. IssuerTypeOK'
  BY <1>1, <1>3, <1>4, <1>5 DEF IssuerInv, IssuerTypeOK, DeviceRecord
<1>7. BooksBalance'
  BY <1>1 DEF IssuerInv, BooksBalance
<1> QED BY <1>6, <1>7 DEF IssuerInv

\* fund keeps the books.
LEMMA IssuerFundKept ==
  ASSUME IssuerInv, NEW r, r.device \in Devices, r.amount_cents \in U64, r.nonce \in Nonces,
         IssuerFund(r)
  PROVE  IssuerInv'
<1> DEFINE account == devices[r.device].account
           a == r.amount_cents
<1>1. /\ r.device \in DOMAIN devices /\ account \in DOMAIN accounts /\ ~(accounts[account] < a)
      /\ accounts' = [accounts EXCEPT ![account] = @ - a]
      /\ offline_float' = offline_float + a
      /\ funding_nonces' = funding_nonces \cup {<<r.device, r.nonce>>}
      /\ UNCHANGED <<devices, money, overflowed>>
  BY DEF IssuerFund, FundVerdict
<1>2. IsPurse(accounts) /\ SumFunction(accounts) \in Nat /\ a \in Nat /\ accounts[account] \in Nat
  BY <1>1, AccountsPurse, MaxU64Assumption DEF IssuerInv, U64, IsPurse
<1>3. accounts[account] - a \in U64 /\ accounts[account] - a \in Nat
  BY <1>1, <1>2, MaxU64Assumption DEF IssuerInv, IssuerTypeOK, U64
<1>4. IssuerTypeOK'
  <2>1. accounts' \in [DOMAIN accounts' -> U64] /\ DOMAIN accounts' = DOMAIN accounts
    BY <1>1, <1>3 DEF IssuerInv, IssuerTypeOK
  <2>2. funding_nonces' \subseteq Devices \X Nonces
    BY <1>1 DEF IssuerInv, IssuerTypeOK
  <2> QED BY <1>1, <1>2, <2>1, <2>2 DEF IssuerInv, IssuerTypeOK, DeviceRecord
<1>5. accounts' = [accounts EXCEPT ![account] = accounts[account] - a]
  BY <1>1
<1>6. SumFunction(accounts') = SumFunction(accounts) - a
  <2> DEFINE rest == accounts[account] - a
  <2>1. rest \in Nat /\ accounts' = [accounts EXCEPT ![account] = rest]
    BY <1>3, <1>5
  <2>2. account \in DOMAIN accounts
    BY <1>1
  <2> HIDE DEF account, rest
  <2>3. SumFunction(accounts') = SumFunction(accounts) - accounts[account] + rest
    BY <1>2, <2>1, <2>2, PurseUpdate
  <2> QED BY <1>2, <2>3 DEF rest
<1>7. BooksBalance'
  BY <1>1, <1>2, <1>6 DEF IssuerInv, BooksBalance, IssuerTypeOK
<1> QED BY <1>4, <1>7 DEF IssuerInv

\* defund keeps the books.
LEMMA IssuerDefundKept ==
  ASSUME IssuerInv, NEW o, o.device \in Devices, o.amount_cents \in U64, o.counter \in Counters,
         IssuerDefund(o)
  PROVE  IssuerInv'
<1> DEFINE account == devices[o.device].account
           a == o.amount_cents
           sum == accounts[account] + a
<1>1. /\ o.device \in DOMAIN devices /\ account \in DOMAIN accounts
      /\ accounts' = [accounts EXCEPT ![account] = Wrap(sum)]
      /\ overflowed' = overflowed + (sum - Wrap(sum))
      /\ offline_float' = offline_float - a
      /\ devices' = [devices EXCEPT ![o.device].last_defunding_counter = o.counter]
      /\ UNCHANGED <<funding_nonces, money>>
  BY DEF IssuerDefund, DefundVerdict
<1>2. IsPurse(accounts) /\ SumFunction(accounts) \in Nat /\ a \in Nat /\ accounts[account] \in Nat
  BY <1>1, AccountsPurse, MaxU64Assumption DEF IssuerInv, U64, IsPurse
<1>3. Wrap(sum) \in U64 /\ Wrap(sum) \in Nat /\ sum - Wrap(sum) \in Nat
  <2>1. sum \in Nat
    BY <1>2
  <2> HIDE DEF sum
  <2> QED BY <2>1, WrapLoss
<1>4. IssuerTypeOK'
  <2>1. accounts' \in [DOMAIN accounts' -> U64] /\ DOMAIN accounts' = DOMAIN accounts
    BY <1>1, <1>3 DEF IssuerInv, IssuerTypeOK
  <2>2. o.counter \in 0 .. MaxDebits
    BY BoundsAssumption DEF Counters
  <2>3. /\ DOMAIN devices' = DOMAIN devices /\ devices' \in [DOMAIN devices -> DeviceRecord]
        /\ \A d \in DOMAIN devices : devices'[d].account = devices[d].account
    BY <1>1, <2>2 DEF IssuerInv, IssuerTypeOK, DeviceRecord
  <2>4. offline_float' \in Int /\ overflowed' \in Nat
    <3> HIDE DEF account, a, sum
    <3> QED BY <1>1, <1>2, <1>3 DEF IssuerInv, IssuerTypeOK
  <2> QED BY <1>1, <2>1, <2>3, <2>4 DEF IssuerInv, IssuerTypeOK
<1>5. SumFunction(accounts') = SumFunction(accounts) - accounts[account] + Wrap(sum)
  <2> HIDE DEF account, sum
  <2> QED BY <1>1, <1>2, <1>3, PurseUpdate
<1>6. BooksBalance'
  <2>1. sum = accounts[account] + a
    OBVIOUS
  <2> HIDE DEF account, a, sum
  <2> QED BY <1>1, <1>2, <1>3, <1>5, <2>1 DEF IssuerInv, BooksBalance, IssuerTypeOK
<1> QED BY <1>4, <1>6 DEF IssuerInv

\* Nothing is in the books at first.
LEMMA IssuerInitOK == IssuerInit => IssuerInv
BY PurseEmpty DEF IssuerInit, IssuerInv, IssuerTypeOK, BooksBalance, NoEntries

\* Every operation keeps the books.
LEMMA IssuerStepKept ==
  ASSUME NEW balances, NEW requests, NEW orders, IssuerWorld(balances, requests, orders),
         IssuerInv, [IssuerNext(balances, requests, orders)]_issuerVars
  PROVE  IssuerInv'
<1>1. ASSUME NEW account \in Accounts, NEW balance \in balances, OpenAccount(account, balance)
      PROVE  IssuerInv'
  BY <1>1, OpenAccountKept DEF IssuerWorld
<1>2. ASSUME NEW d \in Devices, NEW account \in Accounts, CertifyDevice(d, account, d)
      PROVE  IssuerInv'
  BY <1>2, CertifyDeviceKept DEF Keys
<1>3. ASSUME NEW r \in requests, IssuerFund(r)
      PROVE  IssuerInv'
  BY <1>3, IssuerFundKept DEF IssuerWorld
<1>4. ASSUME NEW o \in orders, IssuerDefund(o)
      PROVE  IssuerInv'
  BY <1>4, IssuerDefundKept DEF IssuerWorld
<1>5. ASSUME UNCHANGED issuerVars
      PROVE  IssuerInv'
  BY <1>5 DEF issuerVars, IssuerInv, IssuerTypeOK, BooksBalance, DeviceRecord
<1> QED BY <1>1, <1>2, <1>3, <1>4, <1>5 DEF IssuerNext

-----------------------------------------------------------------------------

\* Whatever requests and orders arrive, the accounts and the register keep their
\* types: no account goes below zero or beyond u64 (issuer.rs).
THEOREM IssuerTypeCorrect ==
  ASSUME NEW CONSTANT balances, NEW CONSTANT requests, NEW CONSTANT orders,
         IssuerWorld(balances, requests, orders)
  PROVE  IssuerSpec(balances, requests, orders) => []IssuerTypeOK
<1>1. IssuerInit => IssuerInv
  BY IssuerInitOK
<1>2. IssuerInv /\ [IssuerNext(balances, requests, orders)]_issuerVars => IssuerInv'
  BY IssuerStepKept
<1>3. IssuerInv => IssuerTypeOK
  BY DEF IssuerInv
<1> QED BY <1>1, <1>2, <1>3, PTL DEF IssuerSpec

\* Whatever requests and orders arrive, in whatever order and however often, the
\* accounts and the float add up to the money there was (issuer.rs, fund and defund).
THEOREM BooksAlwaysBalance ==
  ASSUME NEW CONSTANT balances, NEW CONSTANT requests, NEW CONSTANT orders,
         IssuerWorld(balances, requests, orders)
  PROVE  IssuerSpec(balances, requests, orders) => []BooksBalance
<1>1. IssuerInit => IssuerInv
  BY IssuerInitOK
<1>2. IssuerInv /\ [IssuerNext(balances, requests, orders)]_issuerVars => IssuerInv'
  BY IssuerStepKept
<1>3. IssuerInv => BooksBalance
  BY DEF IssuerInv
<1> QED BY <1>1, <1>2, <1>3, PTL DEF IssuerSpec

===============================================================================
