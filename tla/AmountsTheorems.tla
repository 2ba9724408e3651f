---------------------------- MODULE AmountsTheorems ----------------------------
(***************************************************************************)
(* Facts about sums of amounts: the room an element has promised, the      *)
(* balances of all elements, the worth of the messages in transit.         *)
(*                                                                         *)
(* The community modules define a sum by recursion over a set, with a      *)
(* CHOOSE of the next element.  Here it is shown to be a cardinality: of   *)
(* the set that holds, for every x, the cents <<x, 1>> .. <<x, f[x]>>.     *)
(* How a sum changes with its function then follows from facts about       *)
(* finite sets.                                                            *)
(***************************************************************************)
EXTENDS Amounts, FiniteSetTheorems, TLAPS

\* f[x] cents of every x in S
Cents(f, S) == UNION { {x} \X (1 .. f[x]) : x \in S }

\* A pile of n cents of x is n elements.
LEMMA PileCount ==
  ASSUME NEW x, NEW n \in Nat
  PROVE  IsFiniteSet({x} \X (1 .. n)) /\ Cardinality({x} \X (1 .. n)) = n
<1>1. IsFiniteSet(1 .. n) /\ Cardinality(1 .. n) = n
  BY FS_Interval
<1>2. IsFiniteSet({x}) /\ Cardinality({x}) = 1
  BY FS_Singleton
<1>3. /\ IsFiniteSet({x} \X (1 .. n))
      /\ Cardinality({x} \X (1 .. n)) = Cardinality({x}) * Cardinality(1 .. n)
  BY <1>1, <1>2, FS_Product
<1> QED BY <1>1, <1>2, <1>3

\* Finitely many piles are finitely many cents.
LEMMA CentsFinite ==
  ASSUME NEW S, IsFiniteSet(S), NEW f, \A x \in S : f[x] \in Nat
  PROVE  IsFiniteSet(Cents(f, S))
<1> DEFINE P == { {x} \X (1 .. f[x]) : x \in S }
           g == [x \in S |-> {x} \X (1 .. f[x])]
<1>1. g \in Surjection(S, P)
  BY DEF Surjection
<1>2. IsFiniteSet(P)
  BY <1>1, FS_Surjection
<1>3. ASSUME NEW x \in S PROVE IsFiniteSet({x} \X (1 .. f[x]))
  BY PileCount
<1>4. \A T \in P : IsFiniteSet(T)
  BY <1>3
<1> QED BY <1>2, <1>4, FS_UNION DEF Cents

\* Taking one pile away takes its height away.
LEMMA CentsRemove ==
  ASSUME NEW S, IsFiniteSet(S), NEW f, \A x \in S : f[x] \in Nat, NEW y \in S
  PROVE  Cardinality(Cents(f, S)) = f[y] + Cardinality(Cents(f, S \ {y}))
<1> DEFINE A == {y} \X (1 .. f[y])
           B == Cents(f, S \ {y})
<1>1. Cents(f, S) = A \cup B
  BY DEF Cents
<1>2. A \cap B = {}
  BY DEF Cents
<1>3. IsFiniteSet(S \ {y})
  BY FS_RemoveElement
<1>4. IsFiniteSet(B)
  BY <1>3, CentsFinite
<1>5. IsFiniteSet(A) /\ Cardinality(A) = f[y]
  BY PileCount
<1>6. Cardinality(A \cup B) = Cardinality(A) + Cardinality(B) - Cardinality(A \cap B)
  BY <1>4, <1>5, FS_Union
<1>7. Cardinality(A \cap B) = 0
  BY <1>2, FS_EmptySet
<1>8. Cardinality(B) \in Nat
  BY <1>4, FS_CardinalityType
<1>9. f[y] \in Nat
  OBVIOUS
<1>10. Cardinality(A \cup B) = f[y] + Cardinality(B)
  <2> HIDE DEF A, B
  <2> QED BY <1>5, <1>6, <1>7, <1>8, <1>9
<1> QED BY <1>1, <1>10

\* The library's sum over a finite set counts the cents.  The sum is the value at
\* S of a recursive function on the subsets of S; counting solves the same
\* equation, and a smallest subset on which the two differ cannot exist.
LEMMA SumIsCents ==
  ASSUME NEW S, IsFiniteSet(S), NEW f, \A x \in S : f[x] \in Nat
  PROVE  SumFunctionOnSet(f, S) = Cardinality(Cents(f, S))
<1> DEFINE step(h, s) == IF s = {} THEN 0
                         ELSE f[CHOOSE x \in s : TRUE] + h[s \ {CHOOSE x \in s : TRUE}]
           Solves(h) == h = [s \in SUBSET S |-> step(h, s)]
           iter == CHOOSE h : Solves(h)
           g == [s \in SUBSET S |-> Cardinality(Cents(f, s))]
<1>1. SumFunctionOnSet(f, S) = iter[S]
  BY DEF SumFunctionOnSet, FoldFunctionOnSet, MapThenFoldSet
<1>2. Solves(g)
  <2>1. ASSUME NEW s \in SUBSET S PROVE g[s] = step(g, s)
    <3>1. CASE s = {}
      <4>1. Cents(f, s) = {}
        BY <3>1 DEF Cents
      <4> QED BY <3>1, <4>1, FS_EmptySet
    <3>2. CASE s # {}
      <4> DEFINE y == CHOOSE x \in s : TRUE
      <4>1. y \in s
        BY <3>2
      <4>2. IsFiniteSet(s)
        BY FS_Subset
      <4>3. Cardinality(Cents(f, s)) = f[y] + Cardinality(Cents(f, s \ {y}))
        <5> HIDE DEF y
        <5> QED BY <4>1, <4>2, CentsRemove
      <4> QED BY <3>2, <4>3
    <3> QED BY <3>1, <3>2
  <2> QED BY <2>1
<1>3. Solves(iter)
  <2> HIDE DEF Solves, g
  <2> QED BY <1>2
<1>4. iter = [s \in SUBSET S |-> step(iter, s)]
  <2> HIDE DEF iter
  <2> QED BY <1>3
<1>5. \A s \in SUBSET S : iter[s] = g[s]
  <2> DEFINE Bad == { s \in SUBSET S : iter[s] # g[s] }
             R == StrictSubsetOrdering(S)
  <2>1. IsWellFoundedOn(R, SUBSET S)
    BY FS_StrictSubsetOrderingWellFounded, FS_FiniteSubsetsOfFinite
  <2>2. SUFFICES ASSUME Bad # {} PROVE FALSE
    <3> HIDE DEF iter, g
    <3> QED BY <2>2
  <2>3. PICK s \in Bad : \A r \in Bad : <<r, s>> \notin R
    <3> HIDE DEF R, Bad
    <3>1. Bad \subseteq SUBSET S BY DEF Bad
    <3> QED BY <2>1, <2>2, <3>1, WFMin
  <2>4. s \in SUBSET S /\ iter[s] # g[s]
    <3> HIDE DEF iter, g
    <3> QED BY <2>3
  <2> DEFINE y == CHOOSE x \in s : TRUE
             t == s \ {y}
  <2>5. s # {}
    <3> HIDE DEF iter
    <3> QED BY <1>2, <1>4, <2>4
  <2>6. y \in s
    BY <2>5
  <2>7. t \in SUBSET S /\ <<t, s>> \in R
    <3> HIDE DEF y
    <3> QED BY <2>4, <2>6 DEF StrictSubsetOrdering
  <2>8. iter[t] = g[t]
    <3> HIDE DEF iter, g, t, R
    <3> QED BY <2>3, <2>7
  <2>9. iter[s] = f[y] + iter[t] /\ g[s] = f[y] + g[t]
    <3> HIDE DEF iter, g
    <3> QED BY <1>2, <1>4, <2>4, <2>5
  <2> QED BY <2>4, <2>8, <2>9
<1> QED BY <1>1, <1>5
-----------------------------------------------------------------------------
(* Sums over a set. *)

\* A sum of amounts is a natural number.
LEMMA SumNat ==
  ASSUME NEW S, IsFiniteSet(S), NEW f, \A x \in S : f[x] \in Nat
  PROVE  SumFunctionOnSet(f, S) \in Nat
<1>1. IsFiniteSet(Cents(f, S))
  BY CentsFinite
<1>2. Cardinality(Cents(f, S)) \in Nat
  BY <1>1, FS_CardinalityType
<1> QED BY <1>2, SumIsCents

\* A sum is one of its terms and the sum of the others.
LEMMA SumSplit ==
  ASSUME NEW S, IsFiniteSet(S), NEW f, \A x \in S : f[x] \in Nat, NEW y \in S
  PROVE  /\ SumFunctionOnSet(f, S) = f[y] + SumFunctionOnSet(f, S \ {y})
         /\ SumFunctionOnSet(f, S \ {y}) \in Nat
<1>1. IsFiniteSet(S \ {y}) /\ \A x \in S \ {y} : f[x] \in Nat
  BY FS_RemoveElement
<1>2. SumFunctionOnSet(f, S \ {y}) = Cardinality(Cents(f, S \ {y}))
  BY <1>1, SumIsCents
<1>3. SumFunctionOnSet(f, S) = Cardinality(Cents(f, S))
  BY SumIsCents
<1>4. SumFunctionOnSet(f, S \ {y}) \in Nat
  BY <1>1, SumNat
<1> QED BY <1>2, <1>3, <1>4, CentsRemove

\* A sum depends on the terms that are summed only.
LEMMA SumAgree ==
  ASSUME NEW S, IsFiniteSet(S), NEW f, \A x \in S : f[x] \in Nat,
         NEW g, \A x \in S : g[x] = f[x]
  PROVE  SumFunctionOnSet(g, S) = SumFunctionOnSet(f, S)
<1>1. Cents(g, S) = Cents(f, S)
  BY DEF Cents
<1>2. \A x \in S : g[x] \in Nat
  OBVIOUS
<1>3. SumFunctionOnSet(g, S) = Cardinality(Cents(g, S))
  BY <1>2, SumIsCents
<1>4. SumFunctionOnSet(f, S) = Cardinality(Cents(f, S))
  BY SumIsCents
<1> QED BY <1>1, <1>3, <1>4

-----------------------------------------------------------------------------
(* Sums of a map's values. *)

\* A map of finitely many amounts.
IsPurse(map) == IsFiniteSet(DOMAIN map) /\ \A k \in DOMAIN map : map[k] \in Nat

\* The total of a purse is a natural number.
LEMMA PurseNat ==
  ASSUME NEW map, IsPurse(map)
  PROVE  SumFunction(map) \in Nat
BY SumNat DEF IsPurse, SumFunction

\* The map with no entries sums to zero.
LEMMA PurseEmpty == IsPurse(NoEntries) /\ SumFunction(NoEntries) = 0
<1>1. DOMAIN NoEntries = {} /\ IsFiniteSet({})
  BY FS_EmptySet DEF NoEntries
<1>2. IsPurse(NoEntries)
  BY <1>1 DEF IsPurse
<1>3. Cents(NoEntries, {}) = {}
  BY DEF Cents
<1>4. SumFunctionOnSet(NoEntries, {}) = Cardinality(Cents(NoEntries, {}))
  BY <1>1, SumIsCents
<1>5. SumFunctionOnSet(NoEntries, {}) = 0
  BY <1>3, <1>4, FS_EmptySet
<1> QED BY <1>1, <1>2, <1>5 DEF SumFunction

\* A map of nothing but zeros sums to zero.
LEMMA PurseOfNothing ==
  ASSUME NEW S, IsFiniteSet(S)
  PROVE  SumFunction([x \in S |-> 0]) = 0
<1> DEFINE zero == [x \in S |-> 0]
<1>1. Cents(zero, S) = {}
  BY DEF Cents
<1>2. \A x \in S : zero[x] \in Nat
  OBVIOUS
<1>3. DOMAIN zero = S
  OBVIOUS
<1> HIDE DEF zero
<1>4. SumFunctionOnSet(zero, S) = Cardinality(Cents(zero, S))
  BY <1>2, SumIsCents
<1> QED BY <1>1, <1>3, <1>4, FS_EmptySet DEF SumFunction, zero

\* The function an entry is removed from.
LEMMA RemoveIs ==
  ASSUME NEW map, NEW key
  PROVE  /\ DOMAIN Remove(map, key) = DOMAIN map \ {key}
         /\ \A k \in DOMAIN map \ {key} : Remove(map, key)[k] = map[k]
BY DEF Remove, Restrict

\* A new entry adds its value to the total.
LEMMA PurseInsert ==
  ASSUME NEW map, IsPurse(map), NEW key, key \notin DOMAIN map, NEW value \in Nat
  PROVE  /\ IsPurse(Insert(map, key, value))
         /\ SumFunction(Insert(map, key, value)) = SumFunction(map) + value
<1> DEFINE new == Insert(map, key, value)
           D == DOMAIN map
<1>1. DOMAIN new = D \cup {key} /\ new[key] = value /\ \A k \in D : new[k] = map[k]
  BY DEF Insert
<1>2. IsFiniteSet(D) /\ \A k \in D : map[k] \in Nat
  BY DEF IsPurse
<1>3. IsFiniteSet(D \cup {key})
  BY <1>2, FS_AddElement
<1> HIDE DEF new, D
<1>4. \A k \in D \cup {key} : new[k] \in Nat
  BY <1>1, <1>2
<1>5. (D \cup {key}) \ {key} = D
  BY DEF D
<1>6. /\ SumFunctionOnSet(new, D \cup {key}) = new[key] + SumFunctionOnSet(new, D)
      /\ SumFunctionOnSet(new, D) \in Nat
  BY <1>3, <1>4, <1>5, SumSplit
<1>7. SumFunctionOnSet(new, D) = SumFunctionOnSet(map, D)
  BY <1>1, <1>2, SumAgree
<1>8. SumFunctionOnSet(new, D \cup {key}) = SumFunctionOnSet(map, D) + value
  BY <1>1, <1>6, <1>7
<1> QED BY <1>1, <1>3, <1>4, <1>8 DEF IsPurse, SumFunction, new, D

\* An entry removed takes its value off the total.
LEMMA PurseRemove ==
  ASSUME NEW map, IsPurse(map), NEW key \in DOMAIN map
  PROVE  /\ IsPurse(Remove(map, key))
         /\ SumFunction(map) = map[key] + SumFunction(Remove(map, key))
<1> DEFINE new == Remove(map, key)
           D == DOMAIN map
<1>1. DOMAIN new = D \ {key} /\ \A k \in D \ {key} : new[k] = map[k]
  BY RemoveIs
<1>2. IsFiniteSet(D) /\ \A k \in D : map[k] \in Nat
  BY DEF IsPurse
<1>3. IsFiniteSet(D \ {key})
  BY <1>2, FS_RemoveElement
<1>4. SumFunctionOnSet(map, D) = map[key] + SumFunctionOnSet(map, D \ {key})
  BY <1>2, SumSplit
<1>5. SumFunctionOnSet(new, D \ {key}) = SumFunctionOnSet(map, D \ {key})
  <2> HIDE DEF new, D
  <2> QED BY <1>1, <1>2, <1>3, SumAgree
<1> QED BY <1>1, <1>2, <1>3, <1>4, <1>5 DEF IsPurse, SumFunction

\* An entry changed takes its old value off the total and adds the new one.
LEMMA PurseUpdate ==
  ASSUME NEW map, IsPurse(map), NEW key \in DOMAIN map, NEW value \in Nat
  PROVE  /\ IsPurse([map EXCEPT ![key] = value])
         /\ SumFunction([map EXCEPT ![key] = value]) = SumFunction(map) - map[key] + value
<1> DEFINE new == [map EXCEPT ![key] = value]
           D == DOMAIN map
<1>1. IsFiniteSet(D) /\ \A k \in D : map[k] \in Nat
  BY DEF IsPurse
<1>2. DOMAIN new = D /\ \A k \in D \ {key} : new[k] = map[k]
  OBVIOUS
<1>3. new[key] = value
  BY DEF IsPurse
<1>4. IsFiniteSet(D \ {key})
  BY <1>1, FS_RemoveElement
<1>5. \A k \in D : new[k] \in Nat
  BY <1>1, <1>2, <1>3
<1> HIDE DEF new
<1>6. /\ SumFunctionOnSet(map, D) = map[key] + SumFunctionOnSet(map, D \ {key})
      /\ SumFunctionOnSet(map, D \ {key}) \in Nat
  BY <1>1, SumSplit
<1>7. SumFunctionOnSet(new, D) = value + SumFunctionOnSet(new, D \ {key})
  BY <1>1, <1>3, <1>5, SumSplit
<1>8. SumFunctionOnSet(new, D \ {key}) = SumFunctionOnSet(map, D \ {key})
  <2> HIDE DEF D
  <2>1. \A k \in D \ {key} : map[k] \in Nat
    BY <1>1
  <2> QED BY <1>2, <1>4, <2>1, SumAgree
<1>9. SumFunctionOnSet(new, D) = SumFunctionOnSet(map, D) - map[key] + value
  <2>1. map[key] \in Nat
    BY <1>1
  <2> QED BY <1>6, <1>7, <1>8, <2>1
<1>10. IsPurse(new)
  BY <1>1, <1>2, <1>5 DEF IsPurse
<1> QED BY <1>2, <1>9, <1>10 DEF SumFunction, new

-----------------------------------------------------------------------------
(* The worth of messages. *)

\* Finitely many messages that carry amounts.
AreAmounts(messages) == IsFiniteSet(messages) /\ \A m \in messages : m.amount_cents \in Nat

\* What messages are worth is a natural number, and nothing if there are none.
LEMMA WorthNat ==
  ASSUME NEW messages, AreAmounts(messages)
  PROVE  Worth(messages) \in Nat
<1>1. IsPurse([m \in messages |-> m.amount_cents])
  BY DEF IsPurse, AreAmounts
<1> QED BY <1>1, PurseNat DEF Worth

\* No messages are worth nothing.
LEMMA WorthEmpty == Worth({}) = 0 /\ AreAmounts({})
<1>1. [m \in {} |-> m.amount_cents] = NoEntries
  BY DEF NoEntries
<1>2. AreAmounts({})
  BY FS_EmptySet DEF AreAmounts
<1> QED BY <1>1, <1>2, PurseEmpty DEF Worth

\* A message more is worth its amount more.
LEMMA WorthAdd ==
  ASSUME NEW messages, AreAmounts(messages), NEW x, x \notin messages, x.amount_cents \in Nat
  PROVE  /\ AreAmounts(messages \cup {x})
         /\ Worth(messages \cup {x}) = Worth(messages) + x.amount_cents
<1> DEFINE map == [m \in messages |-> m.amount_cents]
<1>1. [m \in messages \cup {x} |-> m.amount_cents] = Insert(map, x, x.amount_cents)
  BY DEF Insert
<1>2. IsPurse(map) /\ x \notin DOMAIN map
  BY DEF IsPurse, AreAmounts
<1>3. AreAmounts(messages \cup {x})
  BY FS_AddElement DEF AreAmounts
<1> HIDE DEF map
<1>4. SumFunction(Insert(map, x, x.amount_cents)) = SumFunction(map) + x.amount_cents
  BY <1>2, PurseInsert
<1> QED BY <1>1, <1>3, <1>4 DEF Worth, map

\* A message less is worth its amount less.
LEMMA WorthRemove ==
  ASSUME NEW messages, AreAmounts(messages), NEW x \in messages
  PROVE  /\ AreAmounts(messages \ {x})
         /\ Worth(messages) = Worth(messages \ {x}) + x.amount_cents
<1> DEFINE rest == messages \ {x}
<1>1. AreAmounts(rest) /\ x \notin rest /\ x.amount_cents \in Nat
  BY FS_RemoveElement DEF AreAmounts
<1>2. messages = rest \cup {x}
  OBVIOUS
<1> HIDE DEF rest
<1>3. Worth(rest \cup {x}) = Worth(rest) + x.amount_cents
  BY <1>1, WorthAdd
<1> QED BY <1>1, <1>2, <1>3 DEF rest


=============================================================================
