------------------------------- MODULE Fabric -------------------------------
(***************************************************************************)
(* The in-process WarmthFabric (fabric.cpp) under concurrent callers.      *)
(*                                                                         *)
(* Every public operation takes mutex_ once and is one action, except      *)
(* warm(): it reserves budget and enters PREPARING under the lock (phase   *)
(* 1), runs the warming operation outside it (phase 2) and applies the     *)
(* result under the lock again (phase 3).  Anything may happen to the      *)
(* object, and to the budget tracker, in between.                          *)
(*                                                                         *)
(* Abstractions.  An object is its state, whether it carries an            *)
(* invalidation reason, and its residency.  Timestamps only feed decay     *)
(* through the idle time, which is a nondeterministic input of Decay per   *)
(* object, so mark_used is not an action; the generation counters,         *)
(* dimensions and costs influence no decision of the operations modelled   *)
(* here.  The snapshot file holds what save() wrote last, complete, and    *)
(* recover() reads and installs it in one step; Persistence separates the  *)
(* two and models the file.                                                *)
(***************************************************************************)
EXTENDS WarmthState, WarmBudget

Residencies == {"NONE", "STORAGE_ONLY", "HOST_ONLY", "DEVICE_RESIDENT", "MIRRORED"}

CONSTANTS
    Objects,          \* WarmthObjectIds
    Threads,          \* callers of warm()
    LimitChoices,     \* policy.budgets for the two kinds, in reservations
    IdleTimes,        \* idle times decay may meet
    RawStates,        \* states callers force with transition() and upsert()
    RawResidencies,   \* residencies of the objects callers upsert
    MaxReservationId, \* bound on the reservations ever made
    MaxRecovers,      \* bound on recover() calls; no save() once it is reached
    NoObject

ASSUME FabricAssumption ==
    /\ NoObject \notin Objects
    /\ LimitChoices \subseteq [Kinds -> {Unlimited} \cup Nat]
    /\ IdleTimes \subseteq Nat
    /\ RawStates \subseteq WarmthStates
    /\ RawResidencies \subseteq Residencies
    /\ MaxReservationId \in Nat /\ MaxRecovers \in Nat

VARIABLES
    objects,  \* objects_
    limits,   \* limits_ of the tracker, set at construction
    budget,   \* the rest of budget_
    warming,  \* per thread: the warm() call between phase 1 and phase 3
    mutex,    \* "free", or "hung" when its owner waits for itself
    disk,     \* the saved snapshot: no file, or one with these objects
    recovers, \* number of recover() calls so far
    replaced, \* history: the last recover() met warm() calls in progress
    unearned  \* history: the objects made execution-ready without a warming

vars == <<objects, limits, budget, warming, mutex, disk, recovers, replaced, unearned>>

---------------------------------------------------------------------------
OnDevice == {"DEVICE_RESIDENT", "MIRRORED"}
Reasons == {"none", "invalidated", "restart_revalidation_required"}

\* "ABSENT" is the state of an object objects_ has no entry for.
ObjectRecords ==
    [state : WarmthStates \cup {"ABSENT"}, reason : Reasons, residency : Residencies]
AbsentObject == [state |-> "ABSENT", reason |-> "none", residency |-> "NONE"]

\* A warm() call in progress: its object and reservation ids (0: not reserved).
Warmings == [object : Objects \cup {NoObject}, reservation : Nat, op_reservation : Nat]
Idle == [object |-> NoObject, reservation |-> 0, op_reservation |-> 0]

TypeOK ==
    /\ objects \in [Objects -> ObjectRecords]
    /\ limits \in LimitChoices
    /\ budget \in Trackers
    /\ warming \in [Threads -> Warmings]
    /\ mutex \in {"free", "hung"}
    /\ disk \in SUBSET [Objects -> ObjectRecords]
    /\ recovers \in Nat
    /\ replaced \in BOOLEAN
    /\ unearned \subseteq Objects

Init ==
    /\ objects = [o \in Objects |-> AbsentObject]
    /\ limits \in LimitChoices
    /\ budget = EmptyTracker
    /\ warming = [t \in Threads |-> Idle]
    /\ mutex = "free"
    /\ disk = {}
    /\ recovers = 0
    /\ replaced = FALSE
    /\ unearned = {}

---------------------------------------------------------------------------
Present(o) == objects[o].state # "ABSENT"
Ready(o)   == is_execution_ready(objects[o].state)

\* The threads inside warm().
Busy == {t \in Threads : warming[t] # Idle}

\* The history of a step that makes the objects forced ready, if they are ready
\* after it, without a warming.  An object no longer ready starts afresh.
Forces(forced) == unearned' = {o \in unearned \cup forced : Ready(o)'}

\* An operation on one object under the lock, that leaves the rest alone.
RawUpdate(o, obj, forced) ==
    /\ mutex = "free"
    /\ objects' = [objects EXCEPT ![o] = obj]
    /\ Forces(forced)
    /\ UNCHANGED <<limits, budget, warming, mutex, disk, recovers, replaced>>

Update(o, obj) == RawUpdate(o, obj, {})

\* register_object: an id that exists already is overwritten with a COLD object.
Register(o) == Update(o, [state |-> "COLD", reason |-> "none", residency |-> "NONE"])

\* transition() and upsert(), the raw part of the interface.
RawTransition(o, to) ==
    /\ Present(o)
    /\ RawUpdate(o, [objects[o] EXCEPT !.state = transition(@, to)],
                 IF Ready(o) THEN {} ELSE {o})

Upsert(o, obj) == RawUpdate(o, obj, {o})

Invalidate(o) ==
    /\ Present(o)
    /\ transition_allowed(objects[o].state, "INVALIDATED")
    /\ Update(o, [objects[o] EXCEPT !.state = "INVALIDATED", !.reason = "invalidated"])

Demote(o) ==
    /\ is_live_warm_state(objects[o].state)
    /\ Update(o, [objects[o] EXCEPT !.state = transition(@, PressureDecay(@))])

\* What evict leaves of the residency.
EvictedResidency(r) == IF r \in OnDevice THEN "HOST_ONLY" ELSE r

Evict(o) ==
    /\ Present(o)
    /\ transition_allowed(objects[o].state, "EVICTED")
    /\ Update(o, [objects[o] EXCEPT !.state = "EVICTED",
                                    !.residency = EvictedResidency(@)])

\* make_warm clears the reason unless the object is ready already.
MadeWarm(obj) ==
    [obj EXCEPT !.state = reach_warm(@),
                !.reason = IF is_execution_ready(obj.state) THEN @ ELSE "none"]

WarmToReady(o) ==
    /\ Present(o)
    /\ Update(o, [MadeWarm(objects[o]) EXCEPT !.residency = "DEVICE_RESIDENT"])

Decay(flags, idle) ==
    /\ mutex = "free"
    /\ objects' = [o \in Objects |->
          IF Present(o)
          THEN [objects[o] EXCEPT !.state = Decayed(@, DefaultDecayPolicy, flags, idle[o])]
          ELSE objects[o]]
    /\ Forces({})
    /\ UNCHANGED <<limits, budget, warming, mutex, disk, recovers, replaced>>

---------------------------------------------------------------------------
(* warm() *)

\* The tracker after phase 1 has reserved the memory, and a slot for the
\* operation if one is left.  A refused slot does not stop the warming.
Reserved ==
    LET withMemory == reserve(budget, "DEVICE_MEMORY")
    IN  IF fits(withMemory, limits, "CONCURRENT_WARMING_OPS")
        THEN reserve(withMemory, "CONCURRENT_WARMING_OPS")
        ELSE withMemory

\* The call phase 1 leaves behind.
Begun(o) ==
    [object |-> o, reservation |-> budget.next_id,
     op_reservation |-> IF fits(budget, limits, "CONCURRENT_WARMING_OPS")
                        THEN budget.next_id + 1 ELSE 0]

\* Phase 1 with the memory granted.  An object that cannot enter PREPARING gives
\* everything back, and only the reservation ids are spent.
WarmBegin(t, o) ==
    /\ mutex = "free"
    /\ warming[t] = Idle
    /\ budget.next_id < MaxReservationId
    /\ Present(o)
    /\ fits(budget, limits, "DEVICE_MEMORY")
    /\ IF transition_allowed(objects[o].state, "PREPARING")
       THEN /\ budget' = Reserved
            /\ objects' = [objects EXCEPT ![o].state = "PREPARING"]
            /\ warming' = [warming EXCEPT ![t] = Begun(o)]
       ELSE /\ budget' = release(Reserved,
                                 {Begun(o).reservation, Begun(o).op_reservation})
            /\ UNCHANGED <<objects, warming>>
    /\ Forces({})
    /\ UNCHANGED <<limits, mutex, disk, recovers, replaced>>

\* Mutant: phase 3 gives back the memory only.
Returned_KeepsOp(t) == {warming[t].reservation}

\* The reservations phase 3 gives back.
Returned(t) == {warming[t].reservation, warming[t].op_reservation}

\* Mutant: a completed object is not marked resident.
Completed_NotResident(obj) ==
    [obj EXCEPT !.state = transition(@, "WARM"), !.reason = "none"]

\* Mutant: the late result of an invalidated preparation is applied all the same.
Completed_Unguarded(obj) ==
    [obj EXCEPT !.state = "WARM", !.residency = "DEVICE_RESIDENT"]

\* Phase 3 after a success: the outcome of transition(WARM) is not looked at.
Completed(obj) ==
    [state |-> transition(obj.state, "WARM"), reason |-> "none",
     residency |-> "DEVICE_RESIDENT"]

\* Mutant: a failed operation leaves the object as it is.
FailedWarm_Ignored(obj) == obj

FailedWarm(obj) == [obj EXCEPT !.state = transition(@, "FAILED")]

\* Phase 3.
WarmEnd(t, success) ==
    /\ mutex = "free"
    /\ warming[t] # Idle
    /\ LET o == warming[t].object
       IN  objects' = [objects EXCEPT ![o] =
              IF ~Present(o) THEN @ ELSE IF success THEN Completed(@) ELSE FailedWarm(@)]
    /\ Forces({})
    /\ budget' = release(budget, Returned(t))
    /\ warming' = [warming EXCEPT ![t] = Idle]
    /\ UNCHANGED <<limits, mutex, disk, recovers, replaced>>

---------------------------------------------------------------------------
(* Persistence *)

\* save(): snapshot() holds mutex_ when it calls objects(), which locks it again:
\* undefined for std::mutex, and builds differ in what comes of it.
SaveReturns ==
    /\ mutex = "free"
    /\ recovers < MaxRecovers
    /\ disk' = {objects}
    /\ UNCHANGED <<objects, limits, budget, warming, mutex, recovers, replaced, unearned>>

SaveHangs ==
    /\ mutex = "free"
    /\ recovers < MaxRecovers
    /\ mutex' = "hung"
    /\ UNCHANGED <<objects, limits, budget, warming, disk, recovers, replaced, unearned>>

\* Mutant: a recovered object keeps the state it was saved with.
Recovered_Trusting(obj) == [obj EXCEPT !.reason = "restart_revalidation_required"]

\* A recovered object: ready states are to be revalidated.
Recovered(obj) ==
    [obj EXCEPT !.state = IF is_execution_ready(@) THEN transition(@, "DISCOVERED") ELSE @,
                !.reason = "restart_revalidation_required"]

\* recover(): the objects and a new tracker replace the current ones, whatever
\* warm() calls are in progress.  The saved policy has the same limits.
Recover ==
    /\ mutex = "free"
    /\ recovers < MaxRecovers
    /\ recovers' = recovers + 1
    /\ \E snap \in disk :
          objects' = [o \in Objects |->
             IF snap[o].state = "ABSENT" THEN AbsentObject ELSE Recovered(snap[o])]
    /\ Forces(Objects)
    /\ budget' = EmptyTracker
    /\ replaced' = (Busy # {})
    /\ UNCHANGED <<limits, warming, mutex, disk>>

Next ==
    \/ \E o \in Objects :
          \/ Register(o) \/ Invalidate(o) \/ Demote(o) \/ Evict(o) \/ WarmToReady(o)
          \/ \E to \in RawStates : RawTransition(o, to)
          \/ \E obj \in [state : RawStates, reason : {"none"}, residency : RawResidencies] :
                Upsert(o, obj)
    \/ \E flags \in DecayFlags, idle \in [Objects -> IdleTimes] : Decay(flags, idle)
    \/ \E t \in Threads, o \in Objects : WarmBegin(t, o)
    \/ \E t \in Threads, success \in BOOLEAN : WarmEnd(t, success)
    \/ SaveReturns
    \/ SaveHangs
    \/ Recover

Spec == Init /\ [][Next]_vars

\* The warming operation returns and its thread gets the lock.
FairSpec ==
    Spec /\ \A t \in Threads : WF_vars(\E success \in BOOLEAN : WarmEnd(t, success))

---------------------------------------------------------------------------
(* Properties *)

\* The outstanding reservations are exactly those of the warm() calls in progress
\* and the usage counters agree with them: nothing leaks and nothing is released
\* twice or on behalf of another call.  Only a recover() that replaced the tracker
\* under a warm() call breaks this: the ids of the old tracker are given out again.
BudgetAccounting ==
    ~replaced =>
        /\ {r.id : r \in budget.reservations} =
              ({warming[t].reservation : t \in Busy}
               \cup {warming[t].op_reservation : t \in Busy}) \ {0}
        /\ budget.usage["DEVICE_MEMORY"] = Cardinality(Busy)
        /\ budget.usage["CONCURRENT_WARMING_OPS"] =
              Cardinality({t \in Busy : warming[t].op_reservation # 0})

\* The warm() calls in progress never hold more memory than the budget admits,
\* with the same exception.
MemoryNeverOvercommitted ==
    \/ replaced
    \/ limits["DEVICE_MEMORY"] = Unlimited
    \/ Cardinality(Busy) <= limits["DEVICE_MEMORY"]

\* An execution-ready object carries no invalidation reason, whatever happened to
\* it while it was being warmed, unless it became ready without a warming: by
\* transition(), by upsert(), or by recover() bringing it back.
ReadyHasNoReason ==
    \A o \in Objects \ unearned : Ready(o) => objects[o].reason = "none"

\* An object is in PREPARING only while a warm() call works on it, unless recover()
\* brought it back in that state.
PreparingHasOwner ==
    recovers = 0 =>
        \A o \in Objects : objects[o].state = "PREPARING" =>
            \E t \in Threads : warming[t].object = o

\* Every object leaves PREPARING again, unless save() never returned or recover()
\* brought it back in that state.
PreparationEnds ==
    \A o \in Objects : objects[o].state = "PREPARING"
        ~> (objects[o].state # "PREPARING" \/ mutex = "hung" \/ recovers > 0)

\* An execution-ready object is resident on the device: no eviction in the middle
\* of a warm() call, and no late completion, leaves it ready without its memory,
\* with the same exception.
ReadyIsResident ==
    \A o \in Objects \ unearned : Ready(o) => objects[o].residency \in OnDevice

\* What recover() restores is execution-ready only if it was saved HOT: everything
\* else that was ready is demoted, whichever warm() calls are in progress.  A HOT
\* object is to be demoted as well ("Device-local ephemeral state is never assumed
\* alive across a restart."), but HOT to DISCOVERED is refused and the refusal ignored.
RecoveredReadyWasHot ==
    [][recovers' # recovers =>
          \A o \in Objects : Ready(o)' => \E snap \in disk : snap[o].state = "HOT"]_vars

=============================================================================
