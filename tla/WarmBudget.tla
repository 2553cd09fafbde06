----------------------------- MODULE WarmBudget -----------------------------
(***************************************************************************)
(* BudgetTracker (budget.hpp) as the two warming paths use it: every       *)
(* warming reserves kDefaultWarmBytes of DEVICE_MEMORY and one             *)
(* CONCURRENT_WARMING_OPS.  The amount is the same for every reservation   *)
(* of a kind, so usage and limits are counted in reservations: a limit L   *)
(* here is floor(limit / amount) of the code.                              *)
(*                                                                         *)
(* A tracker is a record: the outstanding reservations_, the usage_ per    *)
(* kind and next_id_.                                                      *)
(***************************************************************************)
EXTENDS Integers, FiniteSets

Kinds == {"DEVICE_MEMORY", "CONCURRENT_WARMING_OPS"}

\* limits_.get(kind) = 0 in the code: no limit.
Unlimited == -1

Reservations == [id : Nat, kind : Kinds]

Trackers ==
    [reservations : SUBSET Reservations, usage : [Kinds -> Nat], next_id : Nat]

\* A default-constructed tracker; reservation ids start at 1, 0 means "none".
EmptyTracker ==
    [reservations |-> {}, usage |-> [k \in Kinds |-> 0], next_id |-> 1]

\* Mutant: off by one at the limit.
fits_OffByOne(t, limits, kind) ==
    limits[kind] = Unlimited \/ t.usage[kind] <= limits[kind]

\* fits: the limit admits one more reservation of the kind.
fits(t, limits, kind) ==
    limits[kind] = Unlimited \/ t.usage[kind] + 1 <= limits[kind]

\* reserve, when it fits: the id it returns is t.next_id.
reserve(t, kind) ==
    [reservations |-> t.reservations \cup {[id |-> t.next_id, kind |-> kind]},
     usage |-> [t.usage EXCEPT ![kind] = @ + 1],
     next_id |-> t.next_id + 1]

\* A warming reserves both kinds in one critical section.
ReserveWarm(t) == reserve(reserve(t, "DEVICE_MEMORY"), "CONCURRENT_WARMING_OPS")

\* Mutant: usage comes down by twice the amount, unclamped.
release_Twice(t, ids) ==
    LET gone == {r \in t.reservations : r.id \in ids}
        left(k) == t.usage[k] - 2 * Cardinality({r \in gone : r.kind = k})
    IN  [reservations |-> t.reservations \ gone,
         usage |-> [k \in Kinds |-> left(k)],
         next_id |-> t.next_id]

\* release of every id in ids.  An id that is 0 or not outstanding is refused
\* and changes nothing; usage never goes below zero.
release(t, ids) ==
    LET gone == {r \in t.reservations : r.id \in ids}
        left(k) == t.usage[k] - Cardinality({r \in gone : r.kind = k})
    IN  [reservations |-> t.reservations \ gone,
         usage |-> [k \in Kinds |-> IF left(k) < 0 THEN 0 ELSE left(k)],
         next_id |-> t.next_id]

=============================================================================
