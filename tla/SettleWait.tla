----------------------------- MODULE SettleWait -----------------------------
(***************************************************************************)
(* Coordinator::wait_until_settled and the threads that wake it            *)
(* (coordinator.cpp).  in_flight_count_ is an atomic that the settling     *)
(* threads change under mutex_; the waiters sleep on warm_cv_ under the    *)
(* other mutex, warm_mutex_, which no settling thread ever takes.  So a    *)
(* notification may fall between a waiter's test of the predicate and its  *)
(* sleep; the two are separate steps here.  in_flight_ is its count, as    *)
(* BudgetAccounting of Coordinator justifies.                              *)
(***************************************************************************)
EXTENDS Integers

CONSTANTS
    Waiters,      \* threads that call wait_until_settled
    NoWaiter,
    MaxAttempts   \* bound on issue_warm calls

ASSUME WaitAssumption == NoWaiter \notin Waiters /\ MaxAttempts \in Nat

VARIABLES
    in_flight_count, \* in_flight_count_
    attempts,        \* issue_warm calls so far
    notifying,       \* threads that settled something, before their notify_all
    warm_mutex,      \* the waiter that holds warm_mutex_
    pc,              \* where each waiter is in wait_until_settled
    overtaken        \* history: a notify_all found the waiter on its way to sleep

vars == <<in_flight_count, attempts, notifying, warm_mutex, pc, overtaken>>

\* "test": holds the mutex, before the predicate; "block": the predicate was
\* false; "asleep": in wait, mutex released; "woken": waits for the mutex.
Places == {"out", "test", "block", "asleep", "woken"}

TypeOK ==
    /\ in_flight_count \in Nat /\ attempts \in Nat /\ notifying \in Nat
    /\ warm_mutex \in Waiters \cup {NoWaiter}
    /\ pc \in [Waiters -> Places]
    /\ overtaken \in [Waiters -> BOOLEAN]

Init ==
    /\ in_flight_count = 0 /\ attempts = 0 /\ notifying = 0
    /\ warm_mutex = NoWaiter
    /\ pc = [w \in Waiters |-> "out"]
    /\ overtaken = [w \in Waiters |-> FALSE]

---------------------------------------------------------------------------
(* The threads that change the count *)

IssueWarm ==
    /\ attempts < MaxAttempts
    /\ attempts' = attempts + 1
    /\ in_flight_count' = in_flight_count + 1
    /\ UNCHANGED <<notifying, warm_mutex, pc, overtaken>>

\* An attempt settles, by its WARM_RESULT or because its WARM_TOPIC could not be
\* sent; the thread has yet to notify.
SettleOne ==
    /\ in_flight_count > 0
    /\ in_flight_count' = in_flight_count - 1
    /\ notifying' = notifying + 1
    /\ UNCHANGED <<attempts, warm_mutex, pc, overtaken>>

\* Mutant: roll_epoch does not notify.
RollEpoch_Silent ==
    /\ in_flight_count > 0
    /\ in_flight_count' = 0
    /\ UNCHANGED <<attempts, notifying, warm_mutex, pc, overtaken>>

\* roll_epoch abandons every attempt.  With none in flight it only notifies, which
\* the waiters meet as a spurious wakeup.
RollEpoch ==
    /\ in_flight_count > 0
    /\ in_flight_count' = 0
    /\ notifying' = notifying + 1
    /\ UNCHANGED <<attempts, warm_mutex, pc, overtaken>>

\* Mutant: notify_one.
NotifyAll_One ==
    /\ notifying > 0
    /\ notifying' = notifying - 1
    /\ IF \E w \in Waiters : pc[w] = "asleep"
       THEN \E w \in Waiters : pc[w] = "asleep" /\ pc' = [pc EXCEPT ![w] = "woken"]
       ELSE UNCHANGED pc
    /\ overtaken' = [w \in Waiters |-> overtaken[w] \/ pc[w] = "block"]
    /\ UNCHANGED <<in_flight_count, attempts, warm_mutex>>

\* warm_cv_.notify_all() reaches those who sleep now and nobody else.
NotifyAll ==
    /\ notifying > 0
    /\ notifying' = notifying - 1
    /\ pc' = [w \in Waiters |-> IF pc[w] = "asleep" THEN "woken" ELSE pc[w]]
    /\ overtaken' = [w \in Waiters |-> overtaken[w] \/ pc[w] = "block"]
    /\ UNCHANGED <<in_flight_count, attempts, warm_mutex>>

---------------------------------------------------------------------------
(* wait_until_settled *)

\* Called, or woken up: get the mutex.
Lock(w) ==
    /\ pc[w] \in {"out", "woken"}
    /\ warm_mutex = NoWaiter
    /\ warm_mutex' = w
    /\ pc' = [pc EXCEPT ![w] = "test"]
    /\ overtaken' = [overtaken EXCEPT ![w] = FALSE]
    /\ UNCHANGED <<in_flight_count, attempts, notifying>>

\* The predicate: return when nothing is in flight.
Test(w) ==
    /\ pc[w] = "test"
    /\ IF in_flight_count = 0
       THEN warm_mutex' = NoWaiter /\ pc' = [pc EXCEPT ![w] = "out"]
       ELSE UNCHANGED warm_mutex /\ pc' = [pc EXCEPT ![w] = "block"]
    /\ UNCHANGED <<in_flight_count, attempts, notifying, overtaken>>

\* Release the mutex and sleep, in one step.
Sleep(w) ==
    /\ pc[w] = "block"
    /\ warm_mutex' = NoWaiter
    /\ pc' = [pc EXCEPT ![w] = "asleep"]
    /\ UNCHANGED <<in_flight_count, attempts, notifying, overtaken>>

\* A condition variable may wake a waiter for no reason.
SpuriousWakeup(w) ==
    /\ pc[w] = "asleep"
    /\ pc' = [pc EXCEPT ![w] = "woken"]
    /\ UNCHANGED <<in_flight_count, attempts, notifying, warm_mutex, overtaken>>

Next ==
    \/ IssueWarm \/ SettleOne \/ RollEpoch \/ NotifyAll
    \/ \E w \in Waiters : Lock(w) \/ Test(w) \/ Sleep(w) \/ SpuriousWakeup(w)

Spec == Init /\ [][Next]_vars

(* Fairness: a thread that has settled something notifies, and a waiter inside
   wait_until_settled runs and gets the mutex in the end (a new call needs not
   be made, a spurious wakeup needs not happen). *)
FairSpec ==
    /\ Spec
    /\ WF_vars(NotifyAll)
    /\ \A w \in Waiters : WF_vars(Test(w) \/ Sleep(w)) /\ SF_vars(pc[w] = "woken" /\ Lock(w))

---------------------------------------------------------------------------
(* Properties *)

\* A waiter sleeps with nothing in flight and no notification to come only if one
\* went by between its test and its sleep: nothing else loses a wakeup.
AsleepOnlyIfOvertaken ==
    \A w \in Waiters :
        pc[w] = "asleep" /\ in_flight_count = 0 /\ notifying = 0 => overtaken[w]

\* A call returns once nothing stays in flight, unless it was overtaken so.
ReturnsUnlessOvertaken ==
    \A w \in Waiters :
        pc[w] # "out" ~> (pc[w] = "out" \/ in_flight_count > 0 \/ overtaken[w])

\* wait_until_settled returns once nothing stays in flight.
WaitReturns ==
    \A w \in Waiters : pc[w] # "out" ~> (pc[w] = "out" \/ in_flight_count > 0)
=============================================================================
