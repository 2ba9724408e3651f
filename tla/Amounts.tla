------------------------------- MODULE Amounts -------------------------------
(***************************************************************************)
(* Amounts of money and the containers that hold them.  An amount is a     *)
(* u64 number of cents; MaxU64 stands for u64::MAX, so that a small        *)
(* instance can reach the edge.  Additions that the code does not check    *)
(* wrap, as they do in the release build the README runs (Cargo.toml does  *)
(* not turn overflow checks on; a debug build stops at the same point).    *)
(***************************************************************************)
EXTENDS Integers, FiniteSets, Functions

CONSTANT MaxU64          \* u64::MAX

ASSUME MaxU64Assumption == MaxU64 \in Nat \ {0}

U64 == 0 .. MaxU64

\* An unchecked u64 addition whose exact result is x.
Wrap(x) == x % (MaxU64 + 1)

\* u64::saturating_sub
SaturatingSub(x, y) == IF y > x THEN 0 ELSE x - y

-----------------------------------------------------------------------------
(* A HashMap is a function whose domain is the set of its keys. *)

NoEntries == [key \in {} |-> 0]

Insert(map, key, value) ==
  [k \in DOMAIN map \cup {key} |-> IF k = key THEN value ELSE map[k]]

Remove(map, key) == Restrict(map, DOMAIN map \ {key})

\* What a set of value-carrying messages is worth.
Worth(messages) == SumFunction([m \in messages |-> m.amount_cents])

=============================================================================
