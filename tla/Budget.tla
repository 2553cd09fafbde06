------------------------------- MODULE Budget -------------------------------
(***************************************************************************)
(* BudgetTracker (budget.hpp) with its amounts and its 64-bit counters,    *)
(* for any sequence of calls.  WarmBudget is the tracker as the warming    *)
(* paths use it, with one amount per kind and no wrap-around.              *)
(*                                                                         *)
(* Abstractions.  Words are Word wide instead of 2^64; tags and the error  *)
(* codes, which no caller looks at beyond "granted or not", are left out.  *)
(***************************************************************************)
EXTENDS Integers, FiniteSets, Functions

CONSTANTS
    Kinds,          \* WarmthBudgetKinds
    Word,           \* number of values of std::uint64_t
    Amounts,        \* amounts callers ask for
    LimitValues,    \* limits callers set; 0 is no limit
    MaxOutstanding  \* bound on the reservations outstanding at once

ASSUME BudgetAssumption ==
    /\ Word \in Nat /\ Word >= 4
    /\ Amounts \subseteq 0 .. Word - 1
    /\ LimitValues \subseteq 0 .. Word - 1
    /\ MaxOutstanding \in Nat

VARIABLES
    limits,       \* limits_
    reservations, \* reservations_: id -> kind and amount
    usage,        \* usage_; a kind without entry has usage 0
    next_id,      \* next_id_
    wrapped,      \* history: kinds whose counter has wrapped around
    reissued      \* history: an id was given out while it was outstanding

vars == <<limits, reservations, usage, next_id, wrapped, reissued>>

Words == 0 .. Word - 1

TypeOK ==
    /\ limits \in [Kinds -> Words]
    /\ DOMAIN reservations \subseteq Words
    /\ \A id \in DOMAIN reservations :
          reservations[id] \in [kind : Kinds, amount : Words \ {0}]
    /\ usage \in [Kinds -> Words]
    /\ next_id \in Words
    /\ wrapped \subseteq Kinds
    /\ reissued \in BOOLEAN

\* BudgetLimits may come with any values; the counters start fresh.
Init ==
    /\ limits \in [Kinds -> LimitValues]
    /\ reservations = << >>
    /\ usage = [k \in Kinds |-> 0]
    /\ next_id = 1
    /\ wrapped = {}
    /\ reissued = FALSE

---------------------------------------------------------------------------
\* Mutant: the obvious form of the test, which overflows.
fits_Overflows(kind, amount) ==
    limits[kind] = 0 \/ (usage[kind] + amount) % Word <= limits[kind]

\* fits, and can_reserve.  The subtraction cannot underflow.
fits(kind, amount) ==
    \/ limits[kind] = 0
    \/ amount <= limits[kind] /\ usage[kind] <= limits[kind] - amount

\* Mutant: nothing can be reserved too.
Granted_Nothing(kind, amount) == fits(kind, amount)

\* What reserve() grants.
Granted(kind, amount) == amount # 0 /\ fits(kind, amount)

\* The id next_id() returns; 0 means "not reserved" and is skipped.
NewId == IF next_id = 0 THEN 1 ELSE next_id

\* reserve(kind, amount) when it is granted.  emplace does not overwrite an entry.
Reserve(kind, amount) ==
    /\ Cardinality(DOMAIN reservations) < MaxOutstanding
    /\ Granted(kind, amount)
    /\ next_id' = (NewId + 1) % Word
    /\ reservations' = IF NewId \in DOMAIN reservations THEN reservations
                       ELSE [id \in DOMAIN reservations \cup {NewId} |->
                               IF id = NewId THEN [kind |-> kind, amount |-> amount]
                               ELSE reservations[id]]
    /\ usage' = [usage EXCEPT ![kind] = (@ + amount) % Word]
    /\ wrapped' = IF usage[kind] + amount >= Word THEN wrapped \cup {kind} ELSE wrapped
    /\ reissued' = (reissued \/ NewId \in DOMAIN reservations)
    /\ UNCHANGED limits

\* Mutant: giving back all that is in use counts as an underflow and is ignored.
Less_Ignored(u, amount) == IF amount >= u THEN u ELSE u - amount

\* The usage after a release: never below zero.
Less(u, amount) == IF amount >= u THEN 0 ELSE u - amount

\* release(id).  An id that is 0 or not outstanding changes nothing.
Release(id) ==
    /\ id # 0 /\ id \in DOMAIN reservations
    /\ LET r == reservations[id]
       IN  usage' = [usage EXCEPT ![r.kind] = Less(@, r.amount)]
    /\ reservations' = Restrict(reservations, DOMAIN reservations \ {id})
    /\ UNCHANGED <<limits, next_id, wrapped, reissued>>

\* set_limit may go below what is in use.
SetLimit(kind, value) ==
    /\ limits' = [limits EXCEPT ![kind] = value]
    /\ UNCHANGED <<reservations, usage, next_id, wrapped, reissued>>

Next ==
    \/ \E k \in Kinds, a \in Amounts : Reserve(k, a)
    \/ \E id \in Words : Release(id)
    \/ \E k \in Kinds, v \in LimitValues : SetLimit(k, v)

Spec == Init /\ [][Next]_vars

---------------------------------------------------------------------------
(* Properties *)

\* What the outstanding reservations of a kind really hold, unit by unit.
HeldUnits(kind) ==
    {u \in (DOMAIN reservations) \X (Words \ {0}) :
        LET r == reservations[u[1]] IN r.kind = kind /\ u[2] <= r.amount}

Held(kind) == Cardinality(HeldUnits(kind))

\* The usage counter is what the reservations hold; once it has wrapped around it is
\* never more, so that a tracker without reservations shows no usage, after any wrap
\* and in whatever order the reservations are released.
UsageIsHeld ==
    ~reissued => \A k \in Kinds :
        usage[k] <= Held(k) /\ (k \notin wrapped => usage[k] = Held(k))

\* A reservation granted under a limit leaves no more held than the limit admits, also
\* after the limit was lowered below what was in use and at the largest amounts: the
\* test itself does not overflow.
GrantsRespectLimit ==
    [][\A k \in Kinds :
          /\ \E id \in DOMAIN reservations' \ DOMAIN reservations : reservations'[id].kind = k
          /\ limits[k] # 0 /\ k \notin wrapped /\ ~reissued
          => Held(k)' <= limits[k]]_vars

=============================================================================
