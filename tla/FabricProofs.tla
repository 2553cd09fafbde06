---------------------------- MODULE FabricProofs ----------------------------
(***************************************************************************)
(* Theorems about the fabric, for any objects, callers of warm(), limits   *)
(* and numbers of recoveries.                                              *)
(***************************************************************************)
EXTENDS FabricView, WarmthStateProofs, FiniteSetTheorems, TLAPS

---------------------------------------------------------------------------
(* Trackers.  Both kinds count reservations, so a tracker in order is given by
   the ids it has out for either kind and the next id. *)

MemoryIds(mem) == {[id |-> i, kind |-> "DEVICE_MEMORY"] : i \in mem}
OpIds(ops)     == {[id |-> i, kind |-> "CONCURRENT_WARMING_OPS"] : i \in ops}

Usage(m, p) == [k \in Kinds |-> IF k = "DEVICE_MEMORY" THEN m ELSE p]

Tracker(mem, ops, n) ==
    [reservations |-> MemoryIds(mem) \cup OpIds(ops),
     usage |-> Usage(Cardinality(mem), Cardinality(ops)),
     next_id |-> n]

\* There are as many reservations of a kind as ids.
LEMMA IdCount ==
    ASSUME NEW ids, IsFiniteSet(ids)
    PROVE  /\ Cardinality(MemoryIds(ids)) = Cardinality(ids)
           /\ Cardinality(OpIds(ids)) = Cardinality(ids)
  <1> DEFINE mem == [i \in ids |-> [id |-> i, kind |-> "DEVICE_MEMORY"]]
             ops == [i \in ids |-> [id |-> i, kind |-> "CONCURRENT_WARMING_OPS"]]
  <1>1. mem \in Bijection(ids, MemoryIds(ids))
    <2>1. mem \in [ids -> MemoryIds(ids)]
      BY DEF MemoryIds
    <2>2. ASSUME NEW i \in ids, NEW j \in ids, mem[i] = mem[j] PROVE i = j
      BY <2>2
    <2>3. \A x \in MemoryIds(ids) : \E i \in ids : mem[i] = x
      BY DEF MemoryIds
    <2>4. QED
      BY <2>1, <2>2, <2>3 DEF Bijection, Injection, Surjection, IsInjective
  <1>2. ops \in Bijection(ids, OpIds(ids))
    <2>1. ops \in [ids -> OpIds(ids)]
      BY DEF OpIds
    <2>2. ASSUME NEW i \in ids, NEW j \in ids, ops[i] = ops[j] PROVE i = j
      BY <2>2
    <2>3. \A x \in OpIds(ids) : \E i \in ids : ops[i] = x
      BY DEF OpIds
    <2>4. QED
      BY <2>1, <2>2, <2>3 DEF Bijection, Injection, Surjection, IsInjective
  <1>3. QED
    BY <1>1, <1>2, FS_Bijection DEF ExistsBijection

\* reserve adds the next id.
LEMMA ReserveMemory ==
    ASSUME NEW mem, NEW ops, NEW n \in Nat, IsFiniteSet(mem), n \notin mem
    PROVE  reserve(Tracker(mem, ops, n), "DEVICE_MEMORY") = Tracker(mem \cup {n}, ops, n + 1)
  <1>1. Cardinality(mem \cup {n}) = Cardinality(mem) + 1
    BY FS_AddElement
  <1>2. MemoryIds(mem \cup {n}) = MemoryIds(mem) \cup {[id |-> n, kind |-> "DEVICE_MEMORY"]}
    BY DEF MemoryIds
  <1>3. QED
    BY <1>1, <1>2 DEF reserve, Tracker, Usage, Kinds

LEMMA ReserveOp ==
    ASSUME NEW mem, NEW ops, NEW n \in Nat, IsFiniteSet(ops), n \notin ops
    PROVE  reserve(Tracker(mem, ops, n), "CONCURRENT_WARMING_OPS")
              = Tracker(mem, ops \cup {n}, n + 1)
  <1>1. Cardinality(ops \cup {n}) = Cardinality(ops) + 1
    BY FS_AddElement
  <1>2. OpIds(ops \cup {n}) = OpIds(ops) \cup {[id |-> n, kind |-> "CONCURRENT_WARMING_OPS"]}
    BY DEF OpIds
  <1>3. QED
    BY <1>1, <1>2 DEF reserve, Tracker, Usage, Kinds

\* release takes the ids it is given away, whichever kind they are of.
LEMMA ReleaseRemoves ==
    ASSUME NEW mem, NEW ops, NEW n, NEW ids, IsFiniteSet(mem), IsFiniteSet(ops)
    PROVE  release(Tracker(mem, ops, n), ids) = Tracker(mem \ ids, ops \ ids, n)
  <1> DEFINE t == Tracker(mem, ops, n)
  <1>0. /\ t.reservations = MemoryIds(mem) \cup OpIds(ops)
        /\ t.usage = Usage(Cardinality(mem), Cardinality(ops))
        /\ t.next_id = n
    BY DEF Tracker
  <1> HIDE DEF t
  <1> DEFINE gone == {r \in t.reservations : r.id \in ids}
             left(k) == t.usage[k] - Cardinality({r \in gone : r.kind = k})
  <1>1. {r \in gone : r.kind = "DEVICE_MEMORY"} = MemoryIds(mem \cap ids)
    BY <1>0 DEF MemoryIds, OpIds
  <1>2. {r \in gone : r.kind = "CONCURRENT_WARMING_OPS"} = OpIds(ops \cap ids)
    BY <1>0 DEF MemoryIds, OpIds
  <1>3. t.reservations \ gone = MemoryIds(mem \ ids) \cup OpIds(ops \ ids)
    BY <1>0 DEF MemoryIds, OpIds
  <1>4. /\ Cardinality(mem \ ids) = Cardinality(mem) - Cardinality(mem \cap ids)
        /\ Cardinality(ops \ ids) = Cardinality(ops) - Cardinality(ops \cap ids)
    BY FS_Difference
  <1>5. /\ IsFiniteSet(mem \cap ids) /\ IsFiniteSet(ops \cap ids)
        /\ Cardinality(mem \ ids) \in Nat /\ Cardinality(ops \ ids) \in Nat
    BY FS_Subset, FS_CardinalityType
  <1>6. /\ left("DEVICE_MEMORY") = Cardinality(mem \ ids)
        /\ left("CONCURRENT_WARMING_OPS") = Cardinality(ops \ ids)
    BY <1>0, <1>1, <1>2, <1>4, <1>5, IdCount DEF Usage, Kinds
  <1>7. [k \in Kinds |-> IF left(k) < 0 THEN 0 ELSE left(k)]
          = Usage(Cardinality(mem \ ids), Cardinality(ops \ ids))
    <2> HIDE DEF left
    <2>1. \A c \in Nat : ~(c < 0)
      OBVIOUS
    <2>2. QED
      BY <1>5, <1>6, <2>1 DEF Usage, Kinds
  <1>8. release(t, ids) = [reservations |-> t.reservations \ gone,
                           usage |-> [k \in Kinds |-> IF left(k) < 0 THEN 0 ELSE left(k)],
                           next_id |-> t.next_id]
    BY DEF release
  <1>9. QED
    BY <1>0, <1>3, <1>7, <1>8 DEF Tracker, t

---------------------------------------------------------------------------
(* Types.  The counters stay numbers because what is counted is finite. *)

TypeInv == TypeOK /\ IsFiniteSet(budget.reservations)

LEMMA ReserveType ==
    ASSUME NEW t \in Trackers, NEW k \in Kinds, IsFiniteSet(t.reservations)
    PROVE  reserve(t, k) \in Trackers /\ IsFiniteSet(reserve(t, k).reservations)
  <1>1. t.reservations \in SUBSET Reservations /\ t.usage \in [Kinds -> Nat] /\ t.next_id \in Nat
    BY DEF Trackers
  <1>2. [id |-> t.next_id, kind |-> k] \in Reservations
    BY <1>1 DEF Reservations
  <1>3. [t.usage EXCEPT ![k] = @ + 1] \in [Kinds -> Nat] /\ t.next_id + 1 \in Nat
    BY <1>1
  <1>4. IsFiniteSet(t.reservations \cup {[id |-> t.next_id, kind |-> k]})
    BY FS_AddElement
  <1>5. QED
    BY <1>1, <1>2, <1>3, <1>4 DEF reserve, Trackers

LEMMA ReleaseType ==
    ASSUME NEW t \in Trackers, NEW ids, IsFiniteSet(t.reservations)
    PROVE  release(t, ids) \in Trackers /\ IsFiniteSet(release(t, ids).reservations)
  <1> DEFINE gone == {r \in t.reservations : r.id \in ids}
             left(k) == t.usage[k] - Cardinality({r \in gone : r.kind = k})
  <1>1. t.reservations \in SUBSET Reservations /\ t.usage \in [Kinds -> Nat] /\ t.next_id \in Nat
    BY DEF Trackers
  <1>2. IsFiniteSet(t.reservations \ gone) /\ t.reservations \ gone \in SUBSET Reservations
    BY <1>1, FS_Subset
  <1>3. ASSUME NEW k \in Kinds PROVE left(k) \in Int
    <2>1. Cardinality({r \in gone : r.kind = k}) \in Nat
      BY FS_Subset, FS_CardinalityType
    <2>2. QED
      BY <1>1, <2>1
  <1>4. [k \in Kinds |-> IF left(k) < 0 THEN 0 ELSE left(k)] \in [Kinds -> Nat]
    <2> HIDE DEF left
    <2>1. QED
      BY <1>3
  <1>5. release(t, ids) = [reservations |-> t.reservations \ gone,
                           usage |-> [k \in Kinds |-> IF left(k) < 0 THEN 0 ELSE left(k)],
                           next_id |-> t.next_id]
    BY DEF release
  <1>6. QED
    <2> HIDE DEF left, gone
    <2>1. QED
      BY <1>1, <1>2, <1>4, <1>5 DEF Trackers

\* What the fabric's operations make of one object is an object.
LEMMA ObjectTypes ==
    ASSUME NEW obj \in ObjectRecords, obj.state # "ABSENT"
    PROVE  /\ \A s \in WarmthStates : [obj EXCEPT !.state = s] \in ObjectRecords
           /\ \A to \in WarmthStates : transition(obj.state, to) \in WarmthStates
           /\ obj.state \in WarmthStates
           /\ PressureDecay(obj.state) \in WarmthStates
           /\ EvictedResidency(obj.residency) \in Residencies
           /\ [MadeWarm(obj) EXCEPT !.residency = "DEVICE_RESIDENT"] \in ObjectRecords
           /\ Completed(obj) \in ObjectRecords
           /\ FailedWarm(obj) \in ObjectRecords
           /\ Recovered(obj) \in ObjectRecords
  <1>1. /\ obj = [state |-> obj.state, reason |-> obj.reason, residency |-> obj.residency]
        /\ obj.state \in WarmthStates /\ obj.reason \in Reasons /\ obj.residency \in Residencies
    BY DEF ObjectRecords
  <1>2. \A s \in WarmthStates : [obj EXCEPT !.state = s] \in ObjectRecords
    BY <1>1 DEF ObjectRecords
  <1>3. \A to \in WarmthStates : transition(obj.state, to) \in WarmthStates
    BY <1>1, TransitionType
  <1>4. PressureDecay(obj.state) \in WarmthStates
    BY <1>1 DEF PressureDecay, WarmthStates
  <1>5. EvictedResidency(obj.residency) \in Residencies
    BY <1>1 DEF EvictedResidency, Residencies
  <1>6. [MadeWarm(obj) EXCEPT !.residency = "DEVICE_RESIDENT"] \in ObjectRecords
    <2>1. reach_warm(obj.state) \in WarmthStates
      BY <1>1, ReachWarmType
    <2>2. (IF is_execution_ready(obj.state) THEN obj.reason ELSE "none") \in Reasons
      BY <1>1 DEF Reasons
    <2>3. QED
      BY <1>1, <2>1, <2>2 DEF MadeWarm, ObjectRecords, Residencies
  <1>7. "WARM" \in WarmthStates /\ "FAILED" \in WarmthStates /\ "DISCOVERED" \in WarmthStates
    BY DEF WarmthStates
  <1>8. Completed(obj) \in ObjectRecords
    BY <1>3, <1>7 DEF Completed, ObjectRecords, Reasons, Residencies
  <1>9. FailedWarm(obj) \in ObjectRecords
    BY <1>1, <1>3, <1>7 DEF FailedWarm, ObjectRecords
  <1>10. Recovered(obj) \in ObjectRecords
    BY <1>1, <1>3, <1>7 DEF Recovered, ObjectRecords, Reasons
  <1>11. QED
    BY <1>1, <1>2, <1>3, <1>4, <1>5, <1>6, <1>8, <1>9, <1>10

\* An operation on one object.
UpdateStep(o) ==
    \/ Register(o) \/ Invalidate(o) \/ Demote(o) \/ Evict(o) \/ WarmToReady(o)
    \/ \E to \in RawStates : RawTransition(o, to)
    \/ \E obj \in [state : RawStates, reason : {"none"}, residency : RawResidencies] : Upsert(o, obj)

\* The steps of Next, one operation or one part of warm() each.
LEMMA NextSteps ==
    ASSUME Next
    PROVE  \/ \E o \in Objects : UpdateStep(o)
           \/ \E flags \in DecayFlags, idle \in [Objects -> IdleTimes] : Decay(flags, idle)
           \/ \E t \in Threads, o \in Objects : WarmBegin(t, o)
           \/ \E t \in Threads, success \in BOOLEAN : WarmEnd(t, success)
           \/ SaveReturns \/ SaveHangs \/ Recover
  BY DEF Next, UpdateStep

\* Only the object changes in such an operation, and it is an object afterwards.
LEMMA UpdateType ==
    ASSUME TypeInv, NEW o \in Objects, UpdateStep(o)
    PROVE  /\ \E obj \in ObjectRecords : objects' = [objects EXCEPT ![o] = obj]
           /\ \E forced \in SUBSET Objects : Forces(forced)
           /\ UNCHANGED <<limits, budget, warming, mutex, disk, recovers, replaced>>
  <1>0. /\ objects[o] \in ObjectRecords
        /\ RawStates \subseteq WarmthStates /\ RawResidencies \subseteq Residencies
    BY FabricAssumption DEF TypeInv, TypeOK
  <1> DEFINE Goal(obj) == /\ obj \in ObjectRecords
                          /\ \E forced \in SUBSET Objects : RawUpdate(o, obj, forced)
  <1>1. SUFFICES \E obj : Goal(obj)
    BY DEF RawUpdate
  <1>10. \A obj \in ObjectRecords : Update(o, obj) => Goal(obj)
    BY DEF Update
  <1> HIDE DEF Goal
  <1>2. CASE Register(o)
    BY <1>2, <1>10 DEF Register, ObjectRecords, WarmthStates, Reasons, Residencies
  <1>3. CASE Invalidate(o)
    <2>1. [objects[o] EXCEPT !.state = "INVALIDATED", !.reason = "invalidated"] \in ObjectRecords
      BY <1>0 DEF ObjectRecords, WarmthStates, Reasons
    <2>2. QED
      BY <1>10, <1>3, <2>1 DEF Invalidate
  <1>4. CASE Demote(o)
    <2>1. objects[o].state # "ABSENT"
      BY <1>4 DEF Demote, is_live_warm_state
    <2>2. [objects[o] EXCEPT !.state = transition(@, PressureDecay(@))] \in ObjectRecords
      BY <1>0, <2>1, ObjectTypes
    <2>3. QED
      BY <1>10, <1>4, <2>2 DEF Demote
  <1>5. CASE Evict(o)
    <2>1. objects[o].state # "ABSENT"
      BY <1>5 DEF Evict, Present
    <2>2. EvictedResidency(objects[o].residency) \in Residencies
      BY <1>0, <2>1, ObjectTypes
    <2>3. [objects[o] EXCEPT !.state = "EVICTED", !.residency = EvictedResidency(@)]
             \in ObjectRecords
      BY <1>0, <2>2 DEF ObjectRecords, WarmthStates
    <2>4. QED
      BY <1>10, <1>5, <2>3 DEF Evict
  <1>6. CASE WarmToReady(o)
    BY <1>0, <1>6, <1>10, ObjectTypes DEF WarmToReady, Present
  <1>7. ASSUME NEW to \in RawStates, RawTransition(o, to) PROVE \E obj : Goal(obj)
    <2>1. objects[o].state # "ABSENT" /\ to \in WarmthStates
      BY <1>0, <1>7 DEF RawTransition, Present
    <2>2. [objects[o] EXCEPT !.state = transition(@, to)] \in ObjectRecords
      BY <1>0, <2>1, ObjectTypes
    <2>3. QED
      BY <1>7, <2>2 DEF RawTransition, Goal
  <1>8. ASSUME NEW obj \in [state : RawStates, reason : {"none"}, residency : RawResidencies],
               Upsert(o, obj)
        PROVE  \E x : Goal(x)
    <2>1. obj \in ObjectRecords
      BY <1>0 DEF ObjectRecords, Reasons
    <2>2. QED
      BY <1>8, <2>1 DEF Upsert, Goal
  <1>9. QED
    BY <1>2, <1>3, <1>4, <1>5, <1>6, <1>7, <1>8 DEF UpdateStep

LEMMA DefaultPolicyType == DefaultDecayPolicy \in DecayPolicies
  BY DEF DefaultDecayPolicy, DecayPolicies

\* Phase 1 leaves a tracker, and a call of a type.
LEMMA BegunType ==
    ASSUME TypeInv, NEW o \in Objects
    PROVE  /\ Reserved \in Trackers /\ IsFiniteSet(Reserved.reservations)
           /\ Begun(o) \in Warmings
           /\ Begun(o) # Idle
  <1>1. budget \in Trackers /\ budget.next_id \in Nat
    BY DEF TypeInv, TypeOK, Trackers
  <1>2. "DEVICE_MEMORY" \in Kinds /\ "CONCURRENT_WARMING_OPS" \in Kinds
    BY DEF Kinds
  <1>3. reserve(budget, "DEVICE_MEMORY") \in Trackers
        /\ IsFiniteSet(reserve(budget, "DEVICE_MEMORY").reservations)
    BY <1>1, <1>2, ReserveType DEF TypeInv
  <1>4. Reserved \in Trackers /\ IsFiniteSet(Reserved.reservations)
    BY <1>2, <1>3, ReserveType DEF Reserved
  <1>5. Begun(o) \in Warmings
    BY <1>1 DEF Begun, Warmings
  <1>6. Begun(o) # Idle
    BY FabricAssumption DEF Begun, Idle
  <1>7. QED
    BY <1>4, <1>5, <1>6

LEMMA TypeInit == Init => TypeInv
  <1> SUFFICES ASSUME Init PROVE TypeInv
    OBVIOUS
  <1>1. AbsentObject \in ObjectRecords
    BY DEF AbsentObject, ObjectRecords, Reasons, Residencies
  <1>2. budget \in Trackers /\ IsFiniteSet(budget.reservations)
    BY FS_EmptySet DEF Init, EmptyTracker, Trackers
  <1>3. Idle \in Warmings
    BY DEF Idle, Warmings
  <1>4. QED
    BY <1>1, <1>2, <1>3 DEF Init, TypeInv, TypeOK

\* The history names objects only.
LEMMA ForcesType ==
    ASSUME TypeInv, NEW forced \in SUBSET Objects, Forces(forced)
    PROVE  unearned' \subseteq Objects
  BY DEF TypeInv, TypeOK, Forces

LEMMA TypeStep == TypeInv /\ [Next]_vars => TypeInv'
  <1> SUFFICES ASSUME TypeInv, [Next]_vars PROVE TypeInv'
    OBVIOUS
  <1>0. TypeOK /\ IsFiniteSet(budget.reservations)
    BY DEF TypeInv
  <1>1. ASSUME NEW o \in Objects, UpdateStep(o) PROVE TypeInv'
    <2>1. unearned' \subseteq Objects
      BY <1>1, UpdateType, ForcesType
    <2>2. QED
      BY <1>0, <1>1, <2>1, UpdateType DEF TypeInv, TypeOK
  <1>2. ASSUME NEW flags \in DecayFlags, NEW idle \in [Objects -> IdleTimes], Decay(flags, idle)
        PROVE  TypeInv'
    <2>1. ASSUME NEW o \in Objects, Present(o)
          PROVE  [objects[o] EXCEPT !.state = Decayed(@, DefaultDecayPolicy, flags, idle[o])]
                    \in ObjectRecords
      <3>1. objects[o] \in ObjectRecords /\ objects[o].state \in WarmthStates
        BY <1>0, <2>1 DEF TypeOK, ObjectRecords, Present
      <3>2. DefaultDecayPolicy \in DecayPolicies /\ idle[o] \in Nat
        BY DefaultPolicyType, FabricAssumption DEF FabricAssumption
      <3>3. Decayed(objects[o].state, DefaultDecayPolicy, flags, idle[o]) \in WarmthStates
        BY <3>1, <3>2, DecayType, TransitionType DEF Decayed
      <3>4. QED
        BY <2>1, <3>1, <3>3, ObjectTypes DEF Present
    <2>2. objects' \in [Objects -> ObjectRecords]
      BY <1>0, <1>2, <2>1 DEF Decay, TypeOK
    <2>3. unearned' \subseteq Objects
      BY <1>2, ForcesType DEF Decay
    <2>4. QED
      BY <1>0, <1>2, <2>2, <2>3 DEF Decay, TypeInv, TypeOK
  <1>3. ASSUME NEW t \in Threads, NEW o \in Objects, WarmBegin(t, o) PROVE TypeInv'
    <2>1. budget' \in Trackers /\ IsFiniteSet(budget'.reservations)
      BY <1>3, BegunType, ReleaseType DEF WarmBegin
    <2>2. objects' \in [Objects -> ObjectRecords]
      <3>1. objects[o] \in ObjectRecords /\ objects[o].state # "ABSENT"
        BY <1>0, <1>3 DEF WarmBegin, Present, TypeOK
      <3>2. [objects[o] EXCEPT !.state = "PREPARING"] \in ObjectRecords
        BY <3>1, ObjectTypes DEF WarmthStates
      <3>3. QED
        BY <1>0, <1>3, <3>2 DEF WarmBegin, TypeOK
    <2>3. warming' \in [Threads -> Warmings]
      BY <1>0, <1>3, BegunType DEF WarmBegin, TypeOK
    <2>4. unearned' \subseteq Objects
      BY <1>3, ForcesType DEF WarmBegin
    <2>5. QED
      BY <1>0, <1>3, <2>1, <2>2, <2>3, <2>4 DEF WarmBegin, TypeInv, TypeOK
  <1>4. ASSUME NEW t \in Threads, NEW success \in BOOLEAN, WarmEnd(t, success) PROVE TypeInv'
    <2>1. budget' \in Trackers /\ IsFiniteSet(budget'.reservations)
      BY <1>0, <1>4, ReleaseType DEF WarmEnd, TypeOK
    <2>2. objects' \in [Objects -> ObjectRecords]
      <3> DEFINE o == warming[t].object
      <3>1. CASE o \in Objects
        <4>1. objects[o] \in ObjectRecords
          BY <1>0, <3>1 DEF TypeOK
        <4>2. (IF ~Present(o) THEN objects[o]
               ELSE IF success THEN Completed(objects[o]) ELSE FailedWarm(objects[o]))
                 \in ObjectRecords
          BY <4>1, ObjectTypes DEF Present
        <4>3. QED
          BY <1>0, <1>4, <3>1, <4>2 DEF WarmEnd, TypeOK
      <3>2. CASE o \notin Objects
        BY <1>0, <1>4, <3>2 DEF WarmEnd, TypeOK
      <3>3. QED
        BY <3>1, <3>2
    <2>3. warming' \in [Threads -> Warmings]
      BY <1>0, <1>4 DEF WarmEnd, TypeOK, Idle, Warmings
    <2>4. unearned' \subseteq Objects
      BY <1>4, ForcesType DEF WarmEnd
    <2>5. QED
      BY <1>0, <1>4, <2>1, <2>2, <2>3, <2>4 DEF WarmEnd, TypeInv, TypeOK
  <1>5. CASE SaveReturns
    BY <1>0, <1>5 DEF SaveReturns, TypeInv, TypeOK
  <1>6. CASE SaveHangs
    BY <1>0, <1>6 DEF SaveHangs, TypeInv, TypeOK
  <1>7. CASE Recover
    <2>1. budget' \in Trackers /\ IsFiniteSet(budget'.reservations)
      BY <1>7, FS_EmptySet DEF Recover, EmptyTracker, Trackers
    <2>2. PICK snap \in disk : objects' = [o \in Objects |->
             IF snap[o].state = "ABSENT" THEN AbsentObject ELSE Recovered(snap[o])]
      BY <1>7 DEF Recover
    <2>3. AbsentObject \in ObjectRecords
      BY DEF AbsentObject, ObjectRecords, Reasons, Residencies
    <2>4. ASSUME NEW o \in Objects, snap[o].state # "ABSENT" PROVE Recovered(snap[o]) \in ObjectRecords
      BY <1>0, <2>4, ObjectTypes DEF TypeOK
    <2>5. objects' \in [Objects -> ObjectRecords]
      BY <2>2, <2>3, <2>4
    <2>6. unearned' \subseteq Objects
      BY <1>7, ForcesType DEF Recover
    <2>7. QED
      BY <1>0, <1>7, <2>1, <2>5, <2>6 DEF Recover, TypeInv, TypeOK
  <1>8. CASE UNCHANGED vars
    BY <1>0, <1>8 DEF vars, TypeInv, TypeOK
  <1>9. QED
    BY <1>1, <1>2, <1>3, <1>4, <1>5, <1>6, <1>7, <1>8, NextSteps

LEMMA TypesAlways == Spec => []TypeInv
  BY TypeInit, TypeStep, PTL DEF Spec

\* Every step of every operation leaves values of the declared types, whatever is
\* released twice or on behalf of a tracker that recover() has replaced.
THEOREM TypeCorrect == Spec => []TypeOK
  <1>1. TypeInv => TypeOK
    BY DEF TypeInv
  <1>2. QED
    BY <1>1, TypesAlways, PTL

---------------------------------------------------------------------------
(* Accounting.  BudgetAccounting is not inductive: that a call gives back its own
   reservations and nobody else's needs that no two calls, and no two kinds, share
   an id, and that a new reservation is new needs the next id to be above them. *)

MemoryHeld == {warming[t].reservation : t \in Busy}
OpsHeld    == {warming[t].op_reservation : t \in Busy} \ {0}
OpBusy     == {t \in Busy : warming[t].op_reservation # 0}

\* The ids of the calls in progress are below the next id and all different.
OwnIds ==
    /\ \A t \in Busy : /\ warming[t].reservation \in Nat \ {0}
                       /\ warming[t].op_reservation \in Nat
                       /\ warming[t].reservation < budget.next_id
                       /\ warming[t].op_reservation < budget.next_id
    /\ \A s, t \in Busy :
          /\ warming[s].reservation # warming[t].op_reservation
          /\ s # t => /\ warming[s].reservation # warming[t].reservation
                      /\ \/ warming[s].op_reservation # warming[t].op_reservation
                         \/ warming[s].op_reservation = 0

\* The tracker holds what they hold.
InOrder ==
    /\ OwnIds
    /\ budget = Tracker(MemoryHeld, OpsHeld, budget.next_id)
    /\ IsFiniteSet(MemoryHeld) /\ Cardinality(MemoryHeld) = Cardinality(Busy)
    /\ IsFiniteSet(OpsHeld) /\ Cardinality(OpsHeld) = Cardinality(OpBusy)

AccountsInv ==
    /\ IsFiniteSet(Busy)
    /\ budget.next_id \in Nat \ {0}
    /\ ~replaced => InOrder

\* A fabric in which no warm() call is in progress, with a new tracker.
LEMMA NobodyHolds == Busy = {} /\ budget = EmptyTracker => AccountsInv
  <1> SUFFICES ASSUME Busy = {}, budget = EmptyTracker PROVE AccountsInv
    OBVIOUS
  <1>1. MemoryHeld = {} /\ OpsHeld = {} /\ OpBusy = {}
    BY DEF MemoryHeld, OpsHeld, OpBusy
  <1>2. IsFiniteSet({}) /\ Cardinality({}) = 0
    BY FS_EmptySet
  <1>3. budget.next_id = 1
    BY DEF EmptyTracker
  <1>4. budget = Tracker({}, {}, 1)
    <2>1. MemoryIds({}) \cup OpIds({}) = {}
      BY DEF MemoryIds, OpIds
    <2>2. Usage(0, 0) = [k \in Kinds |-> 0]
      BY DEF Usage
    <2>3. QED
      BY <1>2, <2>1, <2>2 DEF Tracker, EmptyTracker
  <1>5. OwnIds
    BY DEF OwnIds
  <1>6. QED
    BY <1>1, <1>2, <1>3, <1>4, <1>5 DEF AccountsInv, InOrder

\* Phase 1 reserves fresh ids.
LEMMA ReservedForm ==
    ASSUME TypeInv, AccountsInv, InOrder
    PROVE  LET n == budget.next_id
               granted == fits(budget, limits, "CONCURRENT_WARMING_OPS")
           IN  /\ n \notin MemoryHeld /\ n + 1 \notin OpsHeld
               /\ n \notin OpsHeld /\ n + 1 \notin MemoryHeld
               /\ granted => Reserved = Tracker(MemoryHeld \cup {n}, OpsHeld \cup {n + 1}, n + 2)
               /\ ~granted => Reserved = Tracker(MemoryHeld \cup {n}, OpsHeld, n + 1)
  <1> DEFINE n == budget.next_id
             granted == fits(budget, limits, "CONCURRENT_WARMING_OPS")
  <1>0. n \in Nat \ {0}
    BY DEF AccountsInv
  <1>1. /\ \A i \in MemoryHeld : i \in Nat /\ i < n
        /\ \A i \in OpsHeld : i \in Nat /\ i < n
    BY DEF InOrder, OwnIds, MemoryHeld, OpsHeld
  <1>2. n \notin MemoryHeld /\ n + 1 \notin OpsHeld /\ n \notin OpsHeld /\ n + 1 \notin MemoryHeld
    BY <1>0, <1>1
  <1>3. reserve(budget, "DEVICE_MEMORY") = Tracker(MemoryHeld \cup {n}, OpsHeld, n + 1)
    <2> HIDE DEF n
    <2>1. budget = Tracker(MemoryHeld, OpsHeld, n)
      BY DEF InOrder, n
    <2>2. reserve(Tracker(MemoryHeld, OpsHeld, n), "DEVICE_MEMORY")
            = Tracker(MemoryHeld \cup {n}, OpsHeld, n + 1)
      BY <1>0, <1>2, ReserveMemory DEF InOrder
    <2>3. QED
      BY <2>1, <2>2
  <1>4. fits(reserve(budget, "DEVICE_MEMORY"), limits, "CONCURRENT_WARMING_OPS") <=> granted
    BY DEF fits, reserve, Kinds, TypeInv, TypeOK, Trackers
  <1>5. reserve(reserve(budget, "DEVICE_MEMORY"), "CONCURRENT_WARMING_OPS")
           = Tracker(MemoryHeld \cup {n}, OpsHeld \cup {n + 1}, n + 2)
    <2> DEFINE mem == MemoryHeld \cup {n}
    <2>1. IsFiniteSet(mem) /\ IsFiniteSet(OpsHeld)
      BY FS_AddElement DEF InOrder
    <2>2. n + 1 \in Nat /\ (n + 1) + 1 = n + 2
      BY <1>0
    <2> HIDE DEF n, mem
    <2>3. ASSUME NEW m \in Nat, m \notin OpsHeld
          PROVE  reserve(Tracker(mem, OpsHeld, m), "CONCURRENT_WARMING_OPS")
                    = Tracker(mem, OpsHeld \cup {m}, m + 1)
      BY <2>1, <2>3, ReserveOp
    <2>4. QED
      BY <1>2, <1>3, <2>2, <2>3 DEF mem
  <1>6. QED
    BY <1>2, <1>3, <1>4, <1>5 DEF Reserved

\* Phase 1 of a call that goes on.
LEMMA BeginAccounts ==
    ASSUME TypeInv, AccountsInv, NEW t \in Threads, NEW o \in Objects,
           warming[t] = Idle, warming' = [warming EXCEPT ![t] = Begun(o)],
           budget' = Reserved, UNCHANGED replaced
    PROVE  AccountsInv'
  <1> DEFINE n == budget.next_id
             granted == fits(budget, limits, "CONCURRENT_WARMING_OPS")
  <1>0. n \in Nat \ {0} /\ IsFiniteSet(Busy)
    BY DEF AccountsInv
  <1>1. /\ warming'[t] = Begun(o) /\ Begun(o) # Idle
        /\ \A s \in Threads \ {t} : warming'[s] = warming[s]
    BY BegunType DEF TypeInv, TypeOK
  <1>2. Busy' = Busy \cup {t} /\ t \notin Busy
    BY <1>1 DEF Busy
  <1>3. IsFiniteSet(Busy') /\ Cardinality(Busy') = Cardinality(Busy) + 1
    BY <1>0, <1>2, FS_AddElement
  <1>4. budget'.next_id \in Nat \ {0} /\ (budget'.next_id = IF granted THEN n + 2 ELSE n + 1)
    BY <1>0 DEF Reserved, reserve, fits, Kinds, TypeInv, TypeOK, Trackers
  <1>5. ASSUME ~replaced PROVE InOrder'
    <2>0. InOrder
      BY <1>5 DEF AccountsInv
    <2>1. /\ Begun(o).reservation = n
          /\ Begun(o).op_reservation = IF granted THEN n + 1 ELSE 0
      BY DEF Begun
    <2>2. OwnIds'
      <3>1. ASSUME NEW s \in Busy
            PROVE  /\ warming'[s] = warming[s]
                   /\ warming[s].reservation \in Nat \ {0} /\ warming[s].reservation < n
                   /\ warming[s].op_reservation \in Nat /\ warming[s].op_reservation < n
        BY <1>1, <1>2, <2>0 DEF InOrder, OwnIds, Busy
      <3>2. OwnIds
        BY <2>0 DEF InOrder
      <3>3. QED
        BY <1>0, <1>1, <1>2, <1>4, <2>1, <3>1, <3>2 DEF OwnIds
    <2>3. MemoryHeld' = MemoryHeld \cup {n}
      BY <1>1, <1>2, <2>1 DEF MemoryHeld, Busy
    <2>4. n \notin MemoryHeld /\ n + 1 \notin OpsHeld
      BY <2>0, ReservedForm
    <2>5. /\ IsFiniteSet(MemoryHeld') /\ Cardinality(MemoryHeld') = Cardinality(Busy')
      BY <1>3, <2>0, <2>3, <2>4, FS_AddElement DEF InOrder
    <2>6. CASE granted
      <3>1. OpsHeld' = OpsHeld \cup {n + 1} /\ OpBusy' = OpBusy \cup {t} /\ t \notin OpBusy
        BY <1>0, <1>1, <1>2, <2>1, <2>6 DEF OpsHeld, OpBusy, Busy
      <3>2. IsFiniteSet(OpBusy)
        BY <1>0, FS_Subset DEF OpBusy
      <3>3. IsFiniteSet(OpsHeld') /\ Cardinality(OpsHeld') = Cardinality(OpBusy')
        <4>1. IsFiniteSet(OpsHeld) /\ Cardinality(OpsHeld) = Cardinality(OpBusy)
          BY <2>0 DEF InOrder
        <4>2. IsFiniteSet(OpsHeld \cup {n + 1})
              /\ Cardinality(OpsHeld \cup {n + 1}) = Cardinality(OpsHeld) + 1
          BY <2>4, <4>1, FS_AddElement
        <4>3. Cardinality(OpBusy \cup {t}) = Cardinality(OpBusy) + 1
          BY <3>1, <3>2, FS_AddElement
        <4>4. QED
          BY <3>1, <4>1, <4>2, <4>3
      <3>4. budget' = Tracker(MemoryHeld', OpsHeld', budget'.next_id)
        BY <1>4, <2>0, <2>3, <2>6, <3>1, ReservedForm
      <3>5. QED
        BY <2>2, <2>5, <3>3, <3>4 DEF InOrder
    <2>7. CASE ~granted
      <3>1. OpsHeld' = OpsHeld /\ OpBusy' = OpBusy
        BY <1>0, <1>1, <1>2, <2>1, <2>7 DEF OpsHeld, OpBusy, Busy
      <3>2. budget' = Tracker(MemoryHeld', OpsHeld', budget'.next_id)
        BY <1>4, <2>0, <2>3, <2>7, <3>1, ReservedForm
      <3>3. QED
        BY <2>0, <2>2, <2>5, <3>1, <3>2 DEF InOrder
    <2>8. QED
      BY <2>6, <2>7
  <1>6. QED
    BY <1>3, <1>4, <1>5 DEF AccountsInv

\* Phase 1 of a call whose object cannot enter PREPARING.
LEMMA RefusedAccounts ==
    ASSUME TypeInv, AccountsInv, NEW o \in Objects, UNCHANGED <<warming, replaced>>,
           budget' = release(Reserved, {Begun(o).reservation, Begun(o).op_reservation})
    PROVE  AccountsInv'
  <1> DEFINE n == budget.next_id
             granted == fits(budget, limits, "CONCURRENT_WARMING_OPS")
             given == {Begun(o).reservation, Begun(o).op_reservation}
  <1>0. n \in Nat \ {0} /\ IsFiniteSet(Busy)
    BY DEF AccountsInv
  <1>1. Busy' = Busy /\ MemoryHeld' = MemoryHeld /\ OpsHeld' = OpsHeld /\ OpBusy' = OpBusy
    BY DEF Busy, MemoryHeld, OpsHeld, OpBusy
  <1>2. Reserved.next_id = IF granted THEN n + 2 ELSE n + 1
    BY <1>0 DEF Reserved, reserve, fits, Kinds, TypeInv, TypeOK, Trackers
  <1>3. budget'.next_id = Reserved.next_id
    BY DEF release
  <1>4. budget'.next_id \in Nat \ {0} /\ n < budget'.next_id
    BY <1>0, <1>2, <1>3
  <1>5. ASSUME ~replaced PROVE InOrder'
    <2>0. InOrder
      BY <1>5 DEF AccountsInv
    <2>1. given = {n, IF granted THEN n + 1 ELSE 0}
      BY DEF Begun
    <2>2. 0 \notin MemoryHeld /\ 0 \notin OpsHeld
      BY <2>0 DEF InOrder, OwnIds, MemoryHeld, OpsHeld
    <2>3. /\ n \notin MemoryHeld /\ n + 1 \notin OpsHeld
          /\ n \notin OpsHeld /\ n + 1 \notin MemoryHeld
      BY <2>0, ReservedForm
    <2>4. IsFiniteSet(MemoryHeld) /\ IsFiniteSet(OpsHeld)
      BY <2>0 DEF InOrder
    <2>5. budget' = Tracker(MemoryHeld, OpsHeld, budget'.next_id)
      <3>1. CASE granted
        <4>1. Reserved = Tracker(MemoryHeld \cup {n}, OpsHeld \cup {n + 1}, n + 2)
          BY <2>0, <3>1, ReservedForm
        <4>2. IsFiniteSet(MemoryHeld \cup {n}) /\ IsFiniteSet(OpsHeld \cup {n + 1})
          BY <2>4, FS_AddElement
        <4>3. (MemoryHeld \cup {n}) \ given = MemoryHeld
              /\ (OpsHeld \cup {n + 1}) \ given = OpsHeld
          BY <2>1, <2>3, <3>1
        <4>4. budget' = Tracker((MemoryHeld \cup {n}) \ given, (OpsHeld \cup {n + 1}) \ given, n + 2)
          <5> HIDE DEF n, given
          <5>1. QED
            BY <4>1, <4>2, ReleaseRemoves DEF given
        <4>5. QED
          BY <1>2, <1>3, <3>1, <4>3, <4>4
      <3>2. CASE ~granted
        <4>1. Reserved = Tracker(MemoryHeld \cup {n}, OpsHeld, n + 1)
          BY <2>0, <3>2, ReservedForm
        <4>2. IsFiniteSet(MemoryHeld \cup {n})
          BY <2>4, FS_AddElement
        <4>3. (MemoryHeld \cup {n}) \ given = MemoryHeld /\ OpsHeld \ given = OpsHeld
          BY <2>1, <2>2, <2>3, <3>2
        <4>4. budget' = Tracker((MemoryHeld \cup {n}) \ given, OpsHeld \ given, n + 1)
          <5> HIDE DEF n, given
          <5>1. QED
            BY <2>4, <4>1, <4>2, ReleaseRemoves DEF given
        <4>5. QED
          BY <1>2, <1>3, <3>2, <4>3, <4>4
      <3>3. QED
        BY <3>1, <3>2
    <2>6. OwnIds'
      <3>1. OwnIds
        BY <2>0 DEF InOrder
      <3>2. ASSUME NEW i \in Nat, i < n PROVE i < budget'.next_id
        BY <1>0, <1>4, <3>2
      <3>3. QED
        BY <1>1, <3>1, <3>2 DEF OwnIds
    <2>7. QED
      BY <1>1, <2>0, <2>5, <2>6 DEF InOrder
  <1>6. QED
    BY <1>0, <1>1, <1>4, <1>5 DEF AccountsInv

\* Phase 3.
LEMMA EndAccounts ==
    ASSUME TypeInv, AccountsInv, NEW t \in Threads, warming[t] # Idle,
           warming' = [warming EXCEPT ![t] = Idle],
           budget' = release(budget, Returned(t)), UNCHANGED replaced
    PROVE  AccountsInv'
  <1>0. budget.next_id \in Nat \ {0} /\ IsFiniteSet(Busy) /\ t \in Busy
    BY DEF AccountsInv, Busy
  <1>1. warming'[t] = Idle /\ \A s \in Threads \ {t} : warming'[s] = warming[s]
    BY DEF TypeInv, TypeOK
  <1>2. Busy' = Busy \ {t}
    BY <1>1 DEF Busy
  <1>3. IsFiniteSet(Busy') /\ Cardinality(Busy') = Cardinality(Busy) - 1
    BY <1>0, <1>2, FS_RemoveElement
  <1>4. budget'.next_id = budget.next_id
    BY DEF release
  <1>5. ASSUME ~replaced PROVE InOrder'
    <2>0. InOrder /\ OwnIds
      BY <1>5 DEF AccountsInv, InOrder
    <2>1. OwnIds'
      BY <1>1, <1>2, <1>4, <2>0 DEF OwnIds, Busy
    <2>2. MemoryHeld' = MemoryHeld \ {warming[t].reservation}
      BY <1>0, <1>1, <1>2, <2>0 DEF MemoryHeld, OwnIds, Busy
    <2>3. MemoryHeld' = MemoryHeld \ Returned(t)
      BY <1>0, <2>0, <2>2 DEF MemoryHeld, OwnIds, Returned
    <2>4. OpsHeld' = OpsHeld \ {warming[t].op_reservation}
      BY <1>0, <1>1, <1>2, <2>0 DEF OpsHeld, OwnIds, Busy
    <2>5. OpsHeld' = OpsHeld \ Returned(t)
      BY <1>0, <2>0, <2>4 DEF OpsHeld, OwnIds, Returned
    <2>6. IsFiniteSet(MemoryHeld) /\ IsFiniteSet(OpsHeld)
          /\ budget = Tracker(MemoryHeld, OpsHeld, budget.next_id)
      BY <2>0 DEF InOrder
    <2>7. budget' = Tracker(MemoryHeld', OpsHeld', budget'.next_id)
      <3>1. release(Tracker(MemoryHeld, OpsHeld, budget.next_id), Returned(t))
              = Tracker(MemoryHeld \ Returned(t), OpsHeld \ Returned(t), budget.next_id)
        BY <2>6, ReleaseRemoves
      <3>2. QED
        BY <1>4, <2>3, <2>5, <2>6, <3>1
    <2>8. IsFiniteSet(MemoryHeld') /\ Cardinality(MemoryHeld') = Cardinality(Busy')
      <3>1. warming[t].reservation \in MemoryHeld
        BY <1>0 DEF MemoryHeld
      <3>2. Cardinality(MemoryHeld) = Cardinality(Busy)
        BY <2>0 DEF InOrder
      <3>3. QED
        BY <1>3, <2>2, <2>6, <3>1, <3>2, FS_RemoveElement
    <2>9. IsFiniteSet(OpsHeld') /\ Cardinality(OpsHeld') = Cardinality(OpBusy')
      <3>0. OpBusy' = OpBusy \ {t} /\ IsFiniteSet(OpBusy)
        BY <1>0, <1>1, <1>2, FS_Subset DEF OpBusy, Busy
      <3>1. Cardinality(OpsHeld) = Cardinality(OpBusy)
        BY <2>0 DEF InOrder
      <3>2. CASE warming[t].op_reservation = 0
        <4>1. OpBusy' = OpBusy /\ OpsHeld' = OpsHeld
          BY <2>4, <3>0, <3>2 DEF OpBusy, OpsHeld
        <4>2. QED
          BY <2>6, <3>1, <4>1
      <3>3. CASE warming[t].op_reservation # 0
        <4>1. t \in OpBusy /\ warming[t].op_reservation \in OpsHeld
          BY <1>0, <3>3 DEF OpBusy, OpsHeld
        <4>2. Cardinality(OpBusy \ {t}) = Cardinality(OpBusy) - 1
          BY <3>0, <4>1, FS_RemoveElement
        <4>3. /\ IsFiniteSet(OpsHeld \ {warming[t].op_reservation})
              /\ Cardinality(OpsHeld \ {warming[t].op_reservation}) = Cardinality(OpsHeld) - 1
          BY <2>6, <4>1, FS_RemoveElement
        <4>4. QED
          BY <2>4, <3>0, <3>1, <4>2, <4>3
      <3>4. QED
        BY <3>2, <3>3
    <2>10. QED
      BY <2>1, <2>6, <2>7, <2>8, <2>9 DEF InOrder
  <1>6. QED
    BY <1>0, <1>3, <1>4, <1>5 DEF AccountsInv

LEMMA AccountsSame ==
    ASSUME AccountsInv, UNCHANGED <<budget, warming, replaced>>
    PROVE  AccountsInv'
  BY DEF AccountsInv, InOrder, OwnIds, MemoryHeld, OpsHeld, OpBusy, Busy

LEMMA AccountsInit == Init => AccountsInv
  <1> SUFFICES ASSUME Init PROVE AccountsInv
    OBVIOUS
  <1>1. Busy = {}
    BY DEF Init, Busy
  <1>2. QED
    BY <1>1, NobodyHolds DEF Init

LEMMA NobodyHoldsNext == (Busy = {} /\ budget = EmptyTracker)' => AccountsInv'
  BY NobodyHolds, PTL

LEMMA AccountsStep == TypeInv /\ AccountsInv /\ [Next]_vars => AccountsInv'
  <1> SUFFICES ASSUME TypeInv, AccountsInv, [Next]_vars PROVE AccountsInv'
    OBVIOUS
  <1>1. ASSUME NEW o \in Objects, UpdateStep(o) PROVE AccountsInv'
    BY <1>1, UpdateType, AccountsSame
  <1>2. ASSUME NEW flags \in DecayFlags, NEW idle \in [Objects -> IdleTimes], Decay(flags, idle)
        PROVE  AccountsInv'
    BY <1>2, AccountsSame DEF Decay
  <1>3. ASSUME NEW t \in Threads, NEW o \in Objects, WarmBegin(t, o) PROVE AccountsInv'
    <2>1. CASE transition_allowed(objects[o].state, "PREPARING")
      BY <1>3, <2>1, BeginAccounts DEF WarmBegin
    <2>2. CASE ~transition_allowed(objects[o].state, "PREPARING")
      BY <1>3, <2>2, RefusedAccounts DEF WarmBegin
    <2>3. QED
      BY <2>1, <2>2
  <1>4. ASSUME NEW t \in Threads, NEW success \in BOOLEAN, WarmEnd(t, success) PROVE AccountsInv'
    BY <1>4, EndAccounts DEF WarmEnd
  <1>5. CASE SaveReturns
    BY <1>5, AccountsSame DEF SaveReturns
  <1>6. CASE SaveHangs
    BY <1>6, AccountsSame DEF SaveHangs
  <1>7. CASE Recover
    <2>1. Busy' = Busy /\ budget' = EmptyTracker /\ replaced' = (Busy # {})
      BY <1>7 DEF Recover, Busy
    <2>2. CASE Busy = {}
      BY <2>1, <2>2, NobodyHoldsNext
    <2>3. CASE Busy # {}
      <3>1. budget'.next_id = 1
        BY <2>1 DEF EmptyTracker
      <3>2. replaced' /\ IsFiniteSet(Busy')
        BY <2>1, <2>3 DEF AccountsInv
      <3>3. QED
        BY <3>1, <3>2 DEF AccountsInv
    <2>4. QED
      BY <2>2, <2>3
  <1>8. CASE UNCHANGED vars
    BY <1>8, AccountsSame DEF vars
  <1>9. QED
    BY <1>1, <1>2, <1>3, <1>4, <1>5, <1>6, <1>7, <1>8, NextSteps

LEMMA AccountsAlways == Spec => [](TypeInv /\ AccountsInv)
  <1>1. Init => TypeInv /\ AccountsInv
    BY TypeInit, AccountsInit
  <1>2. TypeInv /\ AccountsInv /\ [Next]_vars => (TypeInv /\ AccountsInv)'
    BY TypeStep, AccountsStep
  <1>3. QED
    BY <1>1, <1>2, PTL DEF Spec

\* The outstanding reservations are exactly those of the warm() calls in progress,
\* for any number of calls in any order, each refused, completed or failed: phase 3
\* gives back what phase 1 took and nothing else.  The exception stays a recover()
\* that replaces the tracker under a call.
THEOREM BudgetAccountingHolds == Spec => []BudgetAccounting
  <1>1. TypeInv /\ AccountsInv => BudgetAccounting
    <2> SUFFICES ASSUME TypeInv, AccountsInv, ~replaced
                 PROVE  /\ {r.id : r \in budget.reservations} =
                             ({warming[t].reservation : t \in Busy}
                              \cup {warming[t].op_reservation : t \in Busy}) \ {0}
                        /\ budget.usage["DEVICE_MEMORY"] = Cardinality(Busy)
                        /\ budget.usage["CONCURRENT_WARMING_OPS"] =
                             Cardinality({t \in Busy : warming[t].op_reservation # 0})
      BY DEF BudgetAccounting
    <2>0. InOrder /\ OwnIds
      BY DEF AccountsInv, InOrder
    <2>1. /\ budget.reservations = MemoryIds(MemoryHeld) \cup OpIds(OpsHeld)
          /\ budget.usage = Usage(Cardinality(Busy), Cardinality(OpBusy))
      BY <2>0 DEF InOrder, Tracker
    <2>2. {r.id : r \in MemoryIds(MemoryHeld) \cup OpIds(OpsHeld)} = MemoryHeld \cup OpsHeld
      <3>1. \A i : i \in MemoryHeld => [id |-> i, kind |-> "DEVICE_MEMORY"] \in MemoryIds(MemoryHeld)
        BY DEF MemoryIds
      <3>2. \A i : i \in OpsHeld => [id |-> i, kind |-> "CONCURRENT_WARMING_OPS"] \in OpIds(OpsHeld)
        BY DEF OpIds
      <3>3. \A r \in MemoryIds(MemoryHeld) \cup OpIds(OpsHeld) : r.id \in MemoryHeld \cup OpsHeld
        BY DEF MemoryIds, OpIds
      <3>4. \A i, k : [id |-> i, kind |-> k].id = i
        OBVIOUS
      <3>5. QED
        BY <3>1, <3>2, <3>3, <3>4
    <2>3. 0 \notin MemoryHeld
      BY <2>0 DEF MemoryHeld, OwnIds
    <2>4. MemoryHeld \cup OpsHeld = ({warming[t].reservation : t \in Busy}
                                     \cup {warming[t].op_reservation : t \in Busy}) \ {0}
      BY <2>3 DEF MemoryHeld, OpsHeld
    <2>5. /\ budget.usage["DEVICE_MEMORY"] = Cardinality(Busy)
          /\ budget.usage["CONCURRENT_WARMING_OPS"] = Cardinality(OpBusy)
      BY <2>1 DEF Usage, Kinds
    <2>6. QED
      BY <2>1, <2>2, <2>4, <2>5 DEF OpBusy
  <1>2. QED
    BY <1>1, AccountsAlways, PTL

LEMMA MemoryInit == Init => MemoryNeverOvercommitted
  <1> SUFFICES ASSUME Init PROVE MemoryNeverOvercommitted
    OBVIOUS
  <1>1. Busy = {}
    BY DEF Init, Busy
  <1>2. Cardinality(Busy) = 0
    BY <1>1, FS_EmptySet
  <1>3. limits["DEVICE_MEMORY"] = Unlimited \/ limits["DEVICE_MEMORY"] \in Nat
    BY FabricAssumption DEF FabricAssumption, Init, Kinds
  <1>4. QED
    BY <1>2, <1>3 DEF MemoryNeverOvercommitted

LEMMA MemorySame ==
    ASSUME MemoryNeverOvercommitted, UNCHANGED <<limits, warming, replaced>>
    PROVE  MemoryNeverOvercommitted'
  BY DEF MemoryNeverOvercommitted, Busy

LEMMA MemoryStep ==
    TypeInv /\ AccountsInv /\ MemoryNeverOvercommitted /\ [Next]_vars => MemoryNeverOvercommitted'
  <1> SUFFICES ASSUME TypeInv, AccountsInv, MemoryNeverOvercommitted, [Next]_vars
               PROVE  MemoryNeverOvercommitted'
    OBVIOUS
  <1>0. /\ IsFiniteSet(Busy) /\ Cardinality(Busy) \in Nat
        /\ limits["DEVICE_MEMORY"] = Unlimited \/ limits["DEVICE_MEMORY"] \in Nat
    BY FS_CardinalityType, FabricAssumption DEF FabricAssumption, AccountsInv, TypeInv, TypeOK, Kinds
  <1>1. ASSUME NEW o \in Objects, UpdateStep(o) PROVE MemoryNeverOvercommitted'
    BY <1>1, UpdateType, MemorySame
  <1>2. ASSUME NEW flags \in DecayFlags, NEW idle \in [Objects -> IdleTimes], Decay(flags, idle)
        PROVE  MemoryNeverOvercommitted'
    BY <1>2, MemorySame DEF Decay
  <1>3. ASSUME NEW t \in Threads, NEW o \in Objects, WarmBegin(t, o) PROVE MemoryNeverOvercommitted'
    <2>1. CASE replaced
      BY <1>3, <2>1 DEF WarmBegin, MemoryNeverOvercommitted
    <2>2. CASE ~replaced
      <3>1. budget.usage["DEVICE_MEMORY"] = Cardinality(Busy)
        BY <2>2 DEF AccountsInv, InOrder, Tracker, Usage, Kinds
      <3>2. \/ limits["DEVICE_MEMORY"] = Unlimited
            \/ Cardinality(Busy) + 1 <= limits["DEVICE_MEMORY"]
        BY <1>3, <3>1 DEF WarmBegin, fits
      <3>3. Busy' \subseteq Busy \cup {t} /\ t \notin Busy
        BY <1>3 DEF WarmBegin, Busy, TypeInv, TypeOK
      <3>4. /\ IsFiniteSet(Busy \cup {t})
            /\ Cardinality(Busy \cup {t}) = Cardinality(Busy) + 1
        BY <1>0, <3>3, FS_AddElement
      <3>5. /\ Cardinality(Busy') \in Nat /\ Cardinality(Busy \cup {t}) \in Nat
            /\ Cardinality(Busy') <= Cardinality(Busy \cup {t})
        BY <3>3, <3>4, FS_Subset, FS_CardinalityType
      <3>6. \/ limits["DEVICE_MEMORY"] = Unlimited
            \/ Cardinality(Busy') <= limits["DEVICE_MEMORY"]
        BY <1>0, <3>2, <3>4, <3>5
      <3>7. limits' = limits
        BY <1>3 DEF WarmBegin
      <3>8. QED
        BY <3>6, <3>7 DEF MemoryNeverOvercommitted
    <2>3. QED
      BY <2>1, <2>2
  <1>4. ASSUME NEW t \in Threads, NEW success \in BOOLEAN, WarmEnd(t, success)
        PROVE  MemoryNeverOvercommitted'
    <2>1. Busy' \subseteq Busy
      BY <1>4 DEF WarmEnd, Busy, TypeInv, TypeOK
    <2>2. Cardinality(Busy') \in Nat /\ Cardinality(Busy') <= Cardinality(Busy)
      BY <1>0, <2>1, FS_Subset, FS_CardinalityType
    <2>3. limits' = limits /\ replaced' = replaced
      BY <1>4 DEF WarmEnd
    <2>4. \A l \in Nat : Cardinality(Busy) <= l => Cardinality(Busy') <= l
      BY <1>0, <2>2
    <2>5. QED
      BY <1>0, <2>3, <2>4 DEF MemoryNeverOvercommitted
  <1>5. CASE SaveReturns
    BY <1>5, MemorySame DEF SaveReturns
  <1>6. CASE SaveHangs
    BY <1>6, MemorySame DEF SaveHangs
  <1>7. CASE Recover
    <2>1. Busy' = Busy /\ limits' = limits /\ replaced' = (Busy # {})
      BY <1>7 DEF Recover, Busy
    <2>2. CASE Busy = {}
      <3>1. Cardinality(Busy') = 0
        BY <2>1, <2>2, FS_EmptySet
      <3>2. QED
        BY <1>0, <2>1, <3>1 DEF MemoryNeverOvercommitted
    <2>3. CASE Busy # {}
      BY <2>1, <2>3 DEF MemoryNeverOvercommitted
    <2>4. QED
      BY <2>2, <2>3
  <1>8. CASE UNCHANGED vars
    BY <1>8, MemorySame DEF vars
  <1>9. QED
    BY <1>1, <1>2, <1>3, <1>4, <1>5, <1>6, <1>7, <1>8, NextSteps

\* The warm() calls in progress never hold more device memory than the policy's
\* limit admits, for any number of callers and any limit: the check of phase 1 and
\* the counter it reads cannot drift apart.
THEOREM MemoryNeverOvercommittedHolds == Spec => []MemoryNeverOvercommitted
  BY MemoryInit, MemoryStep, AccountsAlways, PTL DEF Spec

---------------------------------------------------------------------------
(* Objects.  What a step other than phase 1 and recover() makes of one object. *)

PresentOwnStep(old, new) ==
    \/ new = [old EXCEPT !.state = "INVALIDATED", !.reason = "invalidated"]
    \/ new = [old EXCEPT !.state = transition(@, PressureDecay(@))]
    \/ new = [old EXCEPT !.state = "EVICTED", !.residency = EvictedResidency(@)]
    \/ new = [MadeWarm(old) EXCEPT !.residency = "DEVICE_RESIDENT"]
    \/ \E flags \in DecayFlags, idle \in Nat :
          new = [old EXCEPT !.state = Decayed(@, DefaultDecayPolicy, flags, idle)]
    \/ new = Completed(old)
    \/ new = FailedWarm(old)

\* An operation of the fabric's own, or none on this object.
OwnStep(old, new) ==
    \/ new = old
    \/ new \in [state : {"COLD"}, reason : {"none"}, residency : Residencies]
    \/ old.state # "ABSENT" /\ PresentOwnStep(old, new)

\* The raw operations.
TransitionStep(old, new) ==
    old.state # "ABSENT" /\ \E to \in RawStates : new = [old EXCEPT !.state = transition(@, to)]

UpsertStep(new) == new \in [state : RawStates, reason : {"none"}, residency : Residencies]

ObjectStep(old, new) == OwnStep(old, new) \/ TransitionStep(old, new) \/ UpsertStep(new)

\* A raw operation that makes the object ready puts it among the unearned ones.
RawStep(o) ==
    \/ /\ TransitionStep(objects[o], objects'[o])
       /\ Ready(o) \/ ~Ready(o)' \/ o \in unearned'
    \/ UpsertStep(objects'[o]) /\ (~Ready(o)' \/ o \in unearned')

\* Phase 1 of a call that goes on.
EntersPreparing(o) ==
    /\ \E t \in Threads : WarmBegin(t, o) /\ warming' = [warming EXCEPT ![t] = Begun(o)]
    /\ objects'[o] = [objects[o] EXCEPT !.state = "PREPARING"]

LEMMA ObjectSteps ==
    ASSUME TypeInv, [Next]_vars, ~Recover, NEW o \in Objects
    PROVE  OwnStep(objects[o], objects'[o]) \/ RawStep(o) \/ EntersPreparing(o)
  <1>0. objects \in [Objects -> ObjectRecords]
    BY DEF TypeInv, TypeOK
  <1>1. ASSUME NEW p \in Objects, UpdateStep(p)
        PROVE  OwnStep(objects[o], objects'[o]) \/ RawStep(o)
    <2>1. CASE p # o
      <3>1. objects'[o] = objects[o]
        BY <1>0, <1>1, <2>1, UpdateType
      <3>2. QED
        BY <3>1 DEF OwnStep
    <2>2. CASE p = o
      <3>0. \A obj : Update(o, obj) => objects'[o] = obj
        BY <1>0 DEF Update, RawUpdate
      <3>1. CASE Register(o)
        BY <3>0, <3>1 DEF Register, OwnStep, Residencies
      <3>2. CASE Invalidate(o)
        BY <3>0, <3>2 DEF Invalidate, Present, OwnStep, PresentOwnStep
      <3>3. CASE Demote(o)
        <4>1. objects[o].state # "ABSENT"
          BY <3>3 DEF Demote, is_live_warm_state
        <4>2. objects'[o] = [objects[o] EXCEPT !.state = transition(@, PressureDecay(@))]
          BY <3>0, <3>3 DEF Demote
        <4>3. QED
          BY <4>1, <4>2 DEF OwnStep, PresentOwnStep
      <3>4. CASE Evict(o)
        <4>1. objects'[o] = [objects[o] EXCEPT !.state = "EVICTED", !.residency = EvictedResidency(@)]
          BY <3>0, <3>4 DEF Evict
        <4>2. QED
          BY <3>4, <4>1 DEF Evict, Present, OwnStep, PresentOwnStep
      <3>5. CASE WarmToReady(o)
        <4>1. objects'[o] = [MadeWarm(objects[o]) EXCEPT !.residency = "DEVICE_RESIDENT"]
          BY <3>0, <3>5 DEF WarmToReady
        <4>2. QED
          BY <3>5, <4>1 DEF WarmToReady, Present, OwnStep, PresentOwnStep
      <3>6. ASSUME NEW to \in RawStates, RawTransition(o, to) PROVE RawStep(o)
        <4>1. objects'[o] = [objects[o] EXCEPT !.state = transition(@, to)]
          BY <1>0, <3>6 DEF RawTransition, RawUpdate
        <4>2. TransitionStep(objects[o], objects'[o])
          BY <3>6, <4>1 DEF RawTransition, Present, TransitionStep
        <4>3. Ready(o) \/ ~Ready(o)' \/ o \in unearned'
          BY <3>6 DEF RawTransition, RawUpdate, Forces
        <4>4. QED
          BY <4>2, <4>3 DEF RawStep
      <3>7. ASSUME NEW obj \in [state : RawStates, reason : {"none"}, residency : RawResidencies],
                   Upsert(o, obj)
            PROVE  RawStep(o)
        <4>1. objects'[o] = obj
          BY <1>0, <3>7 DEF Upsert, RawUpdate
        <4>2. UpsertStep(objects'[o])
          BY <4>1, FabricAssumption DEF UpsertStep, FabricAssumption
        <4>3. ~Ready(o)' \/ o \in unearned'
          BY <3>7 DEF Upsert, RawUpdate, Forces
        <4>4. QED
          BY <4>2, <4>3 DEF RawStep
      <3>8. QED
        BY <1>1, <2>2, <3>1, <3>2, <3>3, <3>4, <3>5, <3>6, <3>7 DEF UpdateStep
    <2>3. QED
      BY <2>1, <2>2
  <1>2. ASSUME NEW flags \in DecayFlags, NEW idle \in [Objects -> IdleTimes], Decay(flags, idle)
        PROVE  OwnStep(objects[o], objects'[o])
    <2>1. idle[o] \in Nat
      BY FabricAssumption DEF FabricAssumption
    <2>2. CASE Present(o)
      <3>1. objects'[o] = [objects[o] EXCEPT !.state = Decayed(@, DefaultDecayPolicy, flags, idle[o])]
        BY <1>2, <2>2 DEF Decay
      <3>2. QED
        BY <2>1, <2>2, <3>1 DEF Present, OwnStep, PresentOwnStep
    <2>3. CASE ~Present(o)
      BY <1>2, <2>3 DEF Decay, OwnStep
    <2>4. QED
      BY <2>2, <2>3
  <1>3. ASSUME NEW t \in Threads, NEW p \in Objects, WarmBegin(t, p)
        PROVE  OwnStep(objects[o], objects'[o]) \/ EntersPreparing(o)
    <2>1. CASE objects'[o] = objects[o]
      BY <2>1 DEF OwnStep
    <2>2. CASE objects'[o] # objects[o]
      <3>1. /\ p = o /\ objects'[o] = [objects[o] EXCEPT !.state = "PREPARING"]
            /\ warming' = [warming EXCEPT ![t] = Begun(o)]
        BY <1>0, <1>3, <2>2 DEF WarmBegin
      <3>2. QED
        BY <1>3, <3>1 DEF EntersPreparing
    <2>3. QED
      BY <2>1, <2>2
  <1>4. ASSUME NEW t \in Threads, NEW success \in BOOLEAN, WarmEnd(t, success)
        PROVE  OwnStep(objects[o], objects'[o])
    <2>1. CASE objects'[o] = objects[o]
      BY <2>1 DEF OwnStep
    <2>2. CASE objects'[o] # objects[o]
      <3>1. /\ warming[t].object = o /\ Present(o)
            /\ objects'[o] = IF success THEN Completed(objects[o]) ELSE FailedWarm(objects[o])
        BY <1>0, <1>4, <2>2 DEF WarmEnd
      <3>2. QED
        BY <3>1 DEF Present, OwnStep, PresentOwnStep
    <2>3. QED
      BY <2>1, <2>2
  <1>5. CASE SaveReturns
    BY <1>5 DEF SaveReturns, OwnStep
  <1>6. CASE SaveHangs
    BY <1>6 DEF SaveHangs, OwnStep
  <1>7. CASE UNCHANGED vars
    BY <1>7 DEF vars, OwnStep
  <1>8. QED
    BY <1>1, <1>2, <1>3, <1>4, <1>5, <1>6, <1>7, NextSteps

\* An unearned object that stays ready stays unearned.
LEMMA UnearnedKept ==
    ASSUME TypeInv, [Next]_vars, NEW o \in Objects, Ready(o)', o \in unearned
    PROVE  o \in unearned'
  <1>1. ASSUME NEW forced, Forces(forced) PROVE o \in unearned'
    BY <1>1 DEF Forces
  <1>2. ASSUME NEW p \in Objects, UpdateStep(p) PROVE o \in unearned'
    BY <1>1, <1>2, UpdateType
  <1>3. ASSUME NEW t \in Threads, NEW p \in Objects, WarmBegin(t, p) PROVE o \in unearned'
    BY <1>1, <1>3 DEF WarmBegin
  <1>4. QED
    BY <1>1, <1>2, <1>3, NextSteps DEF Decay, WarmEnd, SaveReturns, SaveHangs, Recover, vars

\* Either way it is one of the steps on an object.
LEMMA OwnOrRaw ==
    ASSUME NEW o, OwnStep(objects[o], objects'[o]) \/ RawStep(o)
    PROVE  ObjectStep(objects[o], objects'[o])
  BY DEF ObjectStep, RawStep

\* An object's state after a step is one of these.
LEMMA StateSteps ==
    ASSUME NEW old \in ObjectRecords, NEW new, ObjectStep(old, new)
    PROVE  \/ new.state = old.state
           \/ new.state \in RawStates \cup {"COLD"}
           \/ /\ old.state \in WarmthStates
              /\ \/ new.state \in {"INVALIDATED", "EVICTED"}
                 \/ new.state = transition(old.state, PressureDecay(old.state))
                 \/ new.state = reach_warm(old.state)
                 \/ \E flags \in DecayFlags, idle \in Nat :
                       new.state = Decayed(old.state, DefaultDecayPolicy, flags, idle)
                 \/ new.state = transition(old.state, "WARM")
                 \/ new.state = transition(old.state, "FAILED")
  <1>1. CASE new = old
    BY <1>1
  <1>2. CASE new \in [state : {"COLD"}, reason : {"none"}, residency : Residencies]
    BY <1>2
  <1>3. CASE UpsertStep(new)
    BY <1>3 DEF UpsertStep
  <1>4. CASE TransitionStep(old, new)
    BY <1>4 DEF TransitionStep, ObjectRecords, transition
  <1>5. CASE old.state # "ABSENT" /\ PresentOwnStep(old, new)
    <2>1. old.state \in WarmthStates
      BY <1>5 DEF ObjectRecords
    <2>2. new = [MadeWarm(old) EXCEPT !.residency = "DEVICE_RESIDENT"]
             => new.state = reach_warm(old.state)
      BY DEF ObjectRecords, MadeWarm
    <2>3. ASSUME NEW flags \in DecayFlags, NEW idle \in Nat,
                 new = [old EXCEPT !.state = Decayed(@, DefaultDecayPolicy, flags, idle)]
          PROVE  new.state = Decayed(old.state, DefaultDecayPolicy, flags, idle)
      BY <2>3 DEF ObjectRecords
    <2>4. new = [old EXCEPT !.state = "INVALIDATED", !.reason = "invalidated"]
             => new.state = "INVALIDATED"
      BY DEF ObjectRecords
    <2>5. new = [old EXCEPT !.state = transition(@, PressureDecay(@))]
             => new.state = transition(old.state, PressureDecay(old.state))
      BY DEF ObjectRecords
    <2>6. new = [old EXCEPT !.state = "EVICTED", !.residency = EvictedResidency(@)]
             => new.state = "EVICTED"
      BY DEF ObjectRecords
    <2>7. /\ new = Completed(old) => new.state = transition(old.state, "WARM")
          /\ new = FailedWarm(old) => new.state = transition(old.state, "FAILED")
      BY DEF ObjectRecords, Completed, FailedWarm
    <2>8. QED
      BY <1>5, <2>1, <2>2, <2>3, <2>4, <2>5, <2>6, <2>7 DEF PresentOwnStep
  <1>6. QED
    BY <1>1, <1>2, <1>3, <1>4, <1>5 DEF ObjectStep, OwnStep

\* What recover() makes of a snapshot: HOT is the ready state that DISCOVERED cannot
\* be reached from.
LEMMA RecoverStep ==
    ASSUME TypeInv, Recover, NEW o \in Objects, is_execution_ready(objects'[o].state)
    PROVE  \E snap \in disk : snap[o].state = "HOT"
  <1>1. PICK snap \in disk : objects' = [p \in Objects |->
           IF snap[p].state = "ABSENT" THEN AbsentObject ELSE Recovered(snap[p])]
    BY DEF Recover
  <1>2. snap[o] \in ObjectRecords
    BY <1>1 DEF TypeInv, TypeOK
  <1>3. snap[o].state # "ABSENT"
    BY <1>1 DEF AbsentObject, is_execution_ready
  <1>4. objects'[o].state = IF is_execution_ready(snap[o].state)
                            THEN transition(snap[o].state, "DISCOVERED") ELSE snap[o].state
    BY <1>1, <1>2, <1>3 DEF Recovered, ObjectRecords
  <1>5. snap[o].state = "HOT"
    BY <1>4 DEF is_execution_ready, transition, transition_allowed, TransitionsFrom
  <1>6. QED
    BY <1>5

\* Whatever callers force, save and recover, and whichever warm() calls are in
\* progress, what recover() leaves execution-ready was saved HOT.
THEOREM RecoveredReadyWasHotHolds == Spec => RecoveredReadyWasHot
  <1>1. ASSUME TypeInv, [Next]_vars, recovers' # recovers,
               NEW o \in Objects, is_execution_ready(objects'[o].state)
        PROVE  \E snap \in disk : snap[o].state = "HOT"
    <2>1. Recover
      <3>1. ASSUME NEW p \in Objects, UpdateStep(p) PROVE recovers' = recovers
        BY <1>1, <3>1, UpdateType
      <3>2. ASSUME NEW t \in Threads, NEW p \in Objects, WarmBegin(t, p) PROVE recovers' = recovers
        BY <3>2 DEF WarmBegin
      <3>3. QED
        BY <1>1, <3>1, <3>2, NextSteps DEF Decay, WarmEnd, SaveReturns, SaveHangs, vars
    <2>2. QED
      BY <1>1, <2>1, RecoverStep
  <1>2. TypeInv /\ [Next]_vars
           => [recovers' # recovers =>
                 \A o \in Objects : Ready(o)' => \E snap \in disk : snap[o].state = "HOT"]_vars
    BY <1>1 DEF Ready
  <1>3. QED
    BY <1>2, TypesAlways, PTL DEF Spec, RecoveredReadyWasHot

\* An object that is execution-ready carries no reason and is on the device.
Sound(obj) ==
    is_execution_ready(obj.state) => obj.reason = "none" /\ obj.residency \in OnDevice

LEMMA SoundStep ==
    ASSUME NEW old \in ObjectRecords, NEW new, OwnStep(old, new), Sound(old)
    PROVE  Sound(new)
  <1>1. CASE new = old
    BY <1>1
  <1>2. CASE new \in [state : {"COLD"}, reason : {"none"}, residency : Residencies]
    BY <1>2 DEF Sound, is_execution_ready
  <1>3. CASE old.state # "ABSENT" /\ PresentOwnStep(old, new)
    <2>0. old.state \in WarmthStates
      BY <1>3 DEF ObjectRecords
    \* The operations that change nothing but the state, and never to a ready one.
    <2>1. ASSUME NEW s, ~is_execution_ready(s) \/ is_execution_ready(old.state),
                 new = [old EXCEPT !.state = s]
          PROVE  Sound(new)
      <3>1. new.state = s /\ new.reason = old.reason /\ new.residency = old.residency
        BY <2>1 DEF ObjectRecords
      <3>2. QED
        BY <2>1, <3>1 DEF Sound
    <2>2. is_execution_ready(transition(old.state, PressureDecay(old.state)))
             => is_execution_ready(old.state)
      BY <2>0 DEF is_execution_ready, transition, PressureDecay, WarmthStates
    <2>3. ASSUME NEW flags \in DecayFlags, NEW idle \in Nat
          PROVE  is_execution_ready(Decayed(old.state, DefaultDecayPolicy, flags, idle))
                    => is_execution_ready(old.state)
      BY <2>0, DecayNeverWarms, DefaultPolicyType
    <2>4. is_execution_ready(transition(old.state, "FAILED")) => is_execution_ready(old.state)
      BY DEF is_execution_ready, transition
    <2>5. new = [old EXCEPT !.state = "INVALIDATED", !.reason = "invalidated"] => Sound(new)
      BY DEF ObjectRecords, Sound, is_execution_ready
    <2>6. new = [old EXCEPT !.state = "EVICTED", !.residency = EvictedResidency(@)] => Sound(new)
      BY DEF ObjectRecords, Sound, is_execution_ready
    <2>7. new = [MadeWarm(old) EXCEPT !.residency = "DEVICE_RESIDENT"] => Sound(new)
      <3> SUFFICES ASSUME new = [MadeWarm(old) EXCEPT !.residency = "DEVICE_RESIDENT"]
                   PROVE  Sound(new)
        OBVIOUS
      <3>1. /\ new.residency = "DEVICE_RESIDENT"
            /\ new.reason = IF is_execution_ready(old.state) THEN old.reason ELSE "none"
        BY DEF MadeWarm, ObjectRecords
      <3>2. QED
        BY <3>1 DEF Sound, OnDevice
    <2>8. new = Completed(old) => Sound(new)
      BY DEF Completed, Sound, OnDevice
    <2>9. QED
      BY <1>3, <2>1, <2>2, <2>3, <2>4, <2>5, <2>6, <2>7, <2>8 DEF PresentOwnStep, FailedWarm
  <1>4. QED
    BY <1>1, <1>2, <1>3 DEF OwnStep

SoundInv == \A o \in Objects \ unearned : Sound(objects[o])

LEMMA SoundAlways == Spec => []SoundInv
  <1>1. Init => SoundInv
    BY DEF Init, SoundInv, Sound, AbsentObject, is_execution_ready
  <1>2. TypeInv /\ SoundInv /\ [Next]_vars => SoundInv'
    <2> SUFFICES ASSUME TypeInv, SoundInv, [Next]_vars, NEW o \in Objects,
                        o \notin unearned', Ready(o)'
                 PROVE  Sound(objects'[o])
      BY DEF SoundInv, Sound, Ready
    <2>1. ~Recover
      BY DEF Recover, Forces
    <2>2. objects[o] \in ObjectRecords /\ Sound(objects[o])
      BY UnearnedKept DEF TypeInv, TypeOK, SoundInv
    <2>3. CASE OwnStep(objects[o], objects'[o])
      BY <2>2, <2>3, SoundStep
    <2>4. CASE RawStep(o)
      <3>1. Ready(o) /\ TransitionStep(objects[o], objects'[o])
        BY <2>4 DEF RawStep
      <3>2. objects'[o].reason = objects[o].reason /\ objects'[o].residency = objects[o].residency
        BY <2>2, <3>1 DEF TransitionStep, ObjectRecords
      <3>3. QED
        BY <2>2, <3>1, <3>2 DEF Sound, Ready
    <2>5. CASE EntersPreparing(o)
      BY <2>2, <2>5 DEF EntersPreparing, ObjectRecords, Sound, is_execution_ready
    <2>6. QED
      BY <2>1, <2>3, <2>4, <2>5, ObjectSteps
  <1>3. QED
    BY <1>1, <1>2, TypesAlways, PTL DEF Spec

\* An execution-ready object carries no invalidation reason: an invalidation,
\* eviction or decay in the middle of a warm() call, and a completion that comes late,
\* leave an object that is either not ready or clean.  The exception is an object
\* that transition(), upsert() or recover() made ready.
THEOREM ReadyHasNoReasonHolds == Spec => []ReadyHasNoReason
  <1>1. SoundInv => ReadyHasNoReason
    BY DEF SoundInv, Sound, ReadyHasNoReason, Ready
  <1>2. QED
    BY <1>1, SoundAlways, PTL

\* An execution-ready object is resident on the device, with the same exception.
THEOREM ReadyIsResidentHolds == Spec => []ReadyIsResident
  <1>1. SoundInv => ReadyIsResident
    BY DEF SoundInv, Sound, ReadyIsResident, Ready
  <1>2. QED
    BY <1>1, SoundAlways, PTL

---------------------------------------------------------------------------
(* Preparation. *)

\* Only phase 1 and the raw interface put an object into PREPARING.
LEMMA NeverPreparing ==
    ASSUME NEW old \in ObjectRecords, NEW new, ObjectStep(old, new),
           "PREPARING" \notin RawStates, old.state # "PREPARING"
    PROVE  new.state # "PREPARING"
  <1>1. CASE old.state \in WarmthStates
    <2>1. transition(old.state, PressureDecay(old.state)) # "PREPARING"
      BY <1>1 DEF transition, PressureDecay
    <2>2. reach_warm(old.state) # "PREPARING"
      BY <1>1, ReachWarmIsReady DEF is_execution_ready
    <2>3. ASSUME NEW flags \in DecayFlags, NEW idle \in Nat
          PROVE  Decayed(old.state, DefaultDecayPolicy, flags, idle) # "PREPARING"
      <3>1. decay_object(old.state, DefaultDecayPolicy, flags, idle) # "PREPARING"
        BY <1>1 DEF decay_object, IdleDecay, PressureDecay, WarmthStates
      <3>2. QED
        BY <3>1 DEF Decayed, transition
    <2>4. transition(old.state, "WARM") # "PREPARING" /\ transition(old.state, "FAILED") # "PREPARING"
      BY DEF transition
    <2>5. QED
      BY <2>1, <2>2, <2>3, <2>4, StateSteps
  <1>2. CASE old.state \notin WarmthStates
    BY <1>2, StateSteps
  <1>3. QED
    BY <1>1, <1>2

\* A completion or a failure takes its object out of PREPARING.
LEMMA EndLeavesPreparing ==
    ASSUME NEW obj \in ObjectRecords
    PROVE  Completed(obj).state # "PREPARING" /\ FailedWarm(obj).state # "PREPARING"
  <1>1. Completed(obj).state = transition(obj.state, "WARM")
        /\ FailedWarm(obj).state = transition(obj.state, "FAILED")
    BY DEF Completed, FailedWarm, ObjectRecords
  <1>2. \A to \in {"WARM", "FAILED"} : transition(obj.state, to) # "PREPARING"
    BY DEF transition, transition_allowed, TransitionsFrom
  <1>3. QED
    BY <1>1, <1>2

\* While nothing was recovered, an object in PREPARING has a warm() call that works
\* on it, so its completion will come: decay, eviction and the helpers that drive an
\* object to WARM never leave one behind in PREPARING.  The raw interface can.
THEOREM PreparingHasOwnerHolds ==
    ASSUME "PREPARING" \notin RawStates
    PROVE  Spec => []PreparingHasOwner
  <1>1. Init => PreparingHasOwner
    BY DEF Init, PreparingHasOwner, AbsentObject
  <1>2. TypeInv /\ PreparingHasOwner /\ [Next]_vars => PreparingHasOwner'
    <2> SUFFICES ASSUME TypeInv, PreparingHasOwner, [Next]_vars, recovers' = 0,
                        NEW o \in Objects, objects'[o].state = "PREPARING"
                 PROVE  \E t \in Threads : warming'[t].object = o
      BY DEF PreparingHasOwner
    <2>0. /\ objects[o] \in ObjectRecords /\ objects \in [Objects -> ObjectRecords]
          /\ warming \in [Threads -> Warmings] /\ recovers \in Nat
      BY DEF TypeInv, TypeOK
    <2>1. ~Recover
      BY <2>0 DEF Recover
    <2>2. CASE EntersPreparing(o)
      <3>1. PICK t \in Threads : warming' = [warming EXCEPT ![t] = Begun(o)]
        BY <2>2 DEF EntersPreparing
      <3>2. QED
        BY <2>0, <3>1 DEF Begun
    <2>3. CASE OwnStep(objects[o], objects'[o]) \/ RawStep(o)
      <3>1. objects[o].state = "PREPARING"
        BY <2>0, <2>3, OwnOrRaw, NeverPreparing
      <3>2. ASSUME recovers = 0 PROVE \E s \in Threads : warming[s].object = o
        BY <3>1, <3>2 DEF PreparingHasOwner
      <3>3. ASSUME NEW t \in Threads, NEW p \in Objects, WarmBegin(t, p)
            PROVE  \E s \in Threads : warming'[s].object = o
        <4>1. PICK s \in Threads : warming[s].object = o
          BY <3>2, <3>3 DEF WarmBegin
        <4>2. s # t
          BY <3>3, <4>1, FabricAssumption DEF FabricAssumption, WarmBegin, Idle
        <4>3. warming'[s] = warming[s]
          BY <2>0, <3>3, <4>2 DEF WarmBegin
        <4>4. QED
          BY <4>1, <4>3
      <3>4. ASSUME NEW t \in Threads, NEW success \in BOOLEAN, WarmEnd(t, success)
            PROVE  \E s \in Threads : warming'[s].object = o
        <4>1. warming[t].object # o
          <5>1. SUFFICES ASSUME warming[t].object = o PROVE FALSE
            OBVIOUS
          <5>2. objects'[o] = IF success THEN Completed(objects[o]) ELSE FailedWarm(objects[o])
            BY <2>0, <3>1, <3>4, <5>1 DEF WarmEnd, Present
          <5>3. QED
            BY <2>0, <5>2, EndLeavesPreparing
        <4>2. PICK s \in Threads : warming[s].object = o
          BY <3>2, <3>4 DEF WarmEnd
        <4>3. warming'[s] = warming[s]
          BY <2>0, <3>4, <4>1, <4>2 DEF WarmEnd
        <4>4. QED
          BY <4>2, <4>3
      <3>5. ASSUME UNCHANGED <<warming, recovers>>
            PROVE  \E s \in Threads : warming'[s].object = o
        BY <3>2, <3>5
      <3>6. ASSUME NEW p \in Objects, UpdateStep(p) PROVE UNCHANGED <<warming, recovers>>
        BY <3>6, UpdateType
      <3>7. QED
        BY <2>1, <3>3, <3>4, <3>5, <3>6, NextSteps DEF Decay, SaveReturns, SaveHangs, vars
    <2>4. QED
      BY <2>1, <2>2, <2>3, ObjectSteps
  <1>3. QED
    BY <1>1, <1>2, TypesAlways, PTL DEF Spec

---------------------------------------------------------------------------
(* plan() and explain() *)

\* An object of the fabric is in one of the states.
LEMMA PresentHasState ==
    ASSUME TypeInv, NEW o \in Objects, Present(o)
    PROVE  objects[o].state \in WarmthStates
  BY DEF TypeInv, TypeOK, Present, ObjectRecords

\* Whatever dimensions set_dimension may give an object, beyond Planner's bounded inputs.
AllDims == [DimensionNames -> DimensionStatuses]

\* The dimensions, by name.
LEMMA Names ==
    /\ DimensionNames = {"artifact_availability", "artifact_validation", "model_residency",
         "adapter_residency", "tokenizer_readiness", "cuda_context_readiness",
         "kernel_readiness", "graph_readiness", "allocator_readiness",
         "prefix_kv_reuse", "engine_readiness", "local_dependency_readiness"}
    /\ Len(Dimensions) = 12
  <1>1. DOMAIN Dimensions = 1..12 /\ Len(Dimensions) = 12
    BY DEF Dimensions
  <1>2. DimensionNames = {Dimensions[i] : i \in 1..12}
    BY <1>1 DEF DimensionNames, ToSet
  <1>3. \A i \in 1..12 : i = 1 \/ i = 2 \/ i = 3 \/ i = 4 \/ i = 5 \/ i = 6 \/ i = 7 \/ i = 8
          \/ i = 9 \/ i = 10 \/ i = 11 \/ i = 12
    OBVIOUS
  <1> QED
    BY <1>1, <1>2, <1>3 DEF Dimensions

\* There are twelve of them.
LEMMA NamesFinite == IsFiniteSet(DimensionNames) /\ Cardinality(DimensionNames) <= 12
  <1> DEFINE f == [i \in 1..12 |-> Dimensions[i]]
  <1>1. IsFiniteSet(1..12) /\ Cardinality(1..12) = 12
    <2>1. PICK b \in Int : b = 12
      OBVIOUS
    <2>2. 1 \in Int
      OBVIOUS
    <2>3. IsFiniteSet(1..b) /\ Cardinality(1..b) = IF 1 > b THEN 0 ELSE b - 1 + 1
      BY <2>2, FS_Interval, Zenon
    <2> QED
      BY <2>1, <2>3
  <1>2. DimensionNames = {Dimensions[i] : i \in 1..12}
    BY Names DEF DimensionNames, ToSet, Dimensions
  <1>3. f \in Surjection(1..12, DimensionNames)
    BY <1>2 DEF Surjection
  <1> QED
    BY <1>1, <1>3, FS_Surjection

\* How many dimensions may have some status.
LEMMA HavingBounds ==
    ASSUME NEW dims, NEW S
    PROVE  /\ IsFiniteSet({d \in DimensionNames : dims[d] \in S})
           /\ Having(dims, S) \in Nat /\ Having(dims, S) <= 12
  <1> DEFINE H == {d \in DimensionNames : dims[d] \in S}
  <1>1. IsFiniteSet(H) /\ Cardinality(H) <= Cardinality(DimensionNames)
    <2>1. H \in SUBSET DimensionNames
      OBVIOUS
    <2> HIDE DEF H
    <2> QED
      BY <2>1, NamesFinite, FS_Subset, Zenon
  <1>2. Cardinality(H) \in Nat /\ Cardinality(DimensionNames) \in Nat
    BY <1>1, NamesFinite, FS_CardinalityType, Zenon
  <1>3. Having(dims, S) = Cardinality(H)
    BY DEF Having
  <1> HIDE DEF H
  <1>4. Cardinality(H) <= 12
    BY <1>1, <1>2, NamesFinite
  <1> QED
    BY <1>1, <1>2, <1>3, <1>4 DEF H

\* A count grows with what it counts.
LEMMA HavingGrows ==
    ASSUME NEW dims, NEW after, NEW S,
           \A d \in DimensionNames : dims[d] \in S => after[d] \in S
    PROVE  Having(dims, S) <= Having(after, S)
  <1> DEFINE H == {d \in DimensionNames : dims[d] \in S}
             J == {d \in DimensionNames : after[d] \in S}
  <1>1. H \in SUBSET J
    OBVIOUS
  <1>2. IsFiniteSet(J)
    BY HavingBounds, Zenon
  <1>3. Having(dims, S) = Cardinality(H) /\ Having(after, S) = Cardinality(J)
    BY DEF Having
  <1> HIDE DEF H, J
  <1>4. Cardinality(H) <= Cardinality(J)
    BY <1>1, <1>2, FS_Subset, Zenon
  <1> QED
    BY <1>3, <1>4

\* What validating a dimension does to the counts.
LEMMA ValidatingCounts ==
    ASSUME NEW dims \in AllDims, NEW d \in DimensionNames
    PROVE  LET after == set_dimension(dims, d, "VALID")
           IN  /\ ready_count(dims) <= ready_count(after)
               /\ valid_count(dims) <= valid_count(after)
               /\ Having(after, {"SUSPECT"}) <= Having(dims, {"SUSPECT"})
  <1> DEFINE after == set_dimension(dims, d, "VALID")
  <1>1. \A e \in DimensionNames : after[e] = IF e = d THEN "VALID" ELSE dims[e]
    BY DEF set_dimension, AllDims
  <1> HIDE DEF after
  <1>2. \A e \in DimensionNames : dims[e] \in {"READY", "VALID"} => after[e] \in {"READY", "VALID"}
    BY <1>1
  <1>3. \A e \in DimensionNames : dims[e] \in {"VALID"} => after[e] \in {"VALID"}
    BY <1>1
  <1>4. \A e \in DimensionNames : after[e] \in {"SUSPECT"} => dims[e] \in {"SUSPECT"}
    BY <1>1
  <1>5. Having(dims, {"READY", "VALID"}) <= Having(after, {"READY", "VALID"})
    BY <1>2, HavingGrows, Zenon
  <1>6. Having(dims, {"VALID"}) <= Having(after, {"VALID"})
    BY <1>3, HavingGrows, Zenon
  <1>7. Having(after, {"SUSPECT"}) <= Having(dims, {"SUSPECT"})
    BY <1>4, HavingGrows, Zenon
  <1> QED
    BY <1>5, <1>6, <1>7 DEF ready_count, valid_count, after

\* The level's place is what the comparison of levels uses.
LEMMA Levels ==
    /\ LevelIndex("COLD") = 1 /\ LevelIndex("DISCOVERED") = 2 /\ LevelIndex("PARTIAL") = 3
    /\ LevelIndex("READY") = 4 /\ LevelIndex("HOT") = 5
  <1>1. DOMAIN CompositeLevels = 1..5
    BY DEF CompositeLevels
  <1>2. \A i \in 1..5 : i = 1 \/ i = 2 \/ i = 3 \/ i = 4 \/ i = 5
    OBVIOUS
  <1>3. /\ CompositeLevels[1] = "COLD" /\ CompositeLevels[2] = "DISCOVERED"
        /\ CompositeLevels[3] = "PARTIAL" /\ CompositeLevels[4] = "READY" /\ CompositeLevels[5] = "HOT"
    BY DEF CompositeLevels
  <1>4. 1 \in 1..5 /\ 2 \in 1..5 /\ 3 \in 1..5 /\ 4 \in 1..5 /\ 5 \in 1..5
    OBVIOUS
  <1>5. LevelIndex("COLD") = 1
    BY <1>1, <1>2, <1>3, <1>4 DEF LevelIndex
  <1>6. LevelIndex("DISCOVERED") = 2
    BY <1>1, <1>2, <1>3, <1>4 DEF LevelIndex
  <1>7. LevelIndex("PARTIAL") = 3
    BY <1>1, <1>2, <1>3, <1>4 DEF LevelIndex
  <1>8. LevelIndex("READY") = 4
    BY <1>1, <1>2, <1>3, <1>4 DEF LevelIndex
  <1>9. LevelIndex("HOT") = 5
    BY <1>1, <1>2, <1>3, <1>4 DEF LevelIndex
  <1> QED
    BY <1>5, <1>6, <1>7, <1>8, <1>9

\* Validating a dimension keeps the level, once some dimension is ready.
LEMMA LevelKept ==
    ASSUME NEW dims \in AllDims, NEW d \in DimensionNames, ready_count(dims) # 0
    PROVE  LevelIndex(composite_level(set_dimension(dims, d, "VALID")))
             >= LevelIndex(composite_level(dims))
  <1> DEFINE after == set_dimension(dims, d, "VALID")
  <1>1. PICK r \in Nat, v \in Nat, r2 \in Nat, v2 \in Nat :
          /\ r = ready_count(dims) /\ v = valid_count(dims)
          /\ r2 = ready_count(after) /\ v2 = valid_count(after)
          /\ r <= 12 /\ v <= 12 /\ r2 <= 12 /\ v2 <= 12
    BY HavingBounds, Zenon DEF ready_count, valid_count
  <1>2. r <= r2 /\ v <= v2 /\ r # 0
    BY <1>1, ValidatingCounts, Zenon
  <1> HIDE DEF after
  <1>3. composite_level(dims) =
          IF v = 12 THEN "HOT" ELSE IF r = 12 THEN "READY"
          ELSE IF r * 2 >= 12 THEN "PARTIAL" ELSE "DISCOVERED"
    BY <1>1, <1>2, Names DEF composite_level
  <1>4. composite_level(after) =
          IF v2 = 12 THEN "HOT" ELSE IF r2 = 12 THEN "READY"
          ELSE IF r2 * 2 >= 12 THEN "PARTIAL" ELSE "DISCOVERED"
    <2>1. r2 # 0
      BY <1>2
    <2> QED
      BY <1>1, <2>1, Names DEF composite_level
  <1>5. LevelIndex(composite_level(after)) >= LevelIndex(composite_level(dims))
    BY <1>1, <1>2, <1>3, <1>4, Levels
  <1> QED
    BY <1>5 DEF after

\* The parts of the estimate.
Parts(s, dims) ==
    <<CostIf(dims["artifact_availability"], Unprepared, 1),
      CostIf(dims["model_residency"], {"COLD"}, 1),
      CostIf(dims["cuda_context_readiness"], Unprepared, 1200000),
      CostIf(dims["kernel_readiness"], Unprepared, 600000),
      CostIf(dims["graph_readiness"], Unprepared, 400000),
      CostIf(dims["adapter_residency"], Unprepared, 300000),
      CostIf(dims["tokenizer_readiness"], {"COLD"}, 30000),
      CostIf(dims["allocator_readiness"], {"COLD"}, 150000),
      CostIf(dims["prefix_kv_reuse"], {"PARTIAL"}, 200000),
      CostIf(dims["engine_readiness"], Unprepared, IF s \in ColdStates THEN 900000 ELSE 200000),
      sync_cost([state |-> s, dims |-> dims]),
      CostIf(s, ColdStates, 3000000)>>

\* The estimate is the sum of its parts, the two transfers multiplied.
LEMMA EstimateParts ==
    ASSUME NEW s, NEW dims
    PROVE  LET p == Parts(s, dims)
           IN  estimate([state |-> s, dims |-> dims]) =
                 30 * (p[1] + p[2]) + p[3] + p[4] + p[5] + p[6] + p[7] + p[8] + p[9]
                 + p[10] + p[11] + p[12]
  BY DEF Parts, estimate, engine_startup, bytes_to_transfer, Transfer

\* Validating a dimension does not raise the cost of the dependency check.
LEMMA SyncKept ==
    ASSUME NEW s \in WarmthStates, NEW dims \in AllDims, NEW d \in DimensionNames
    PROVE  LET b == sync_cost([state |-> s, dims |-> dims])
               a == sync_cost([state |-> s, dims |-> set_dimension(dims, d, "VALID")])
           IN  b \in Nat /\ a \in Nat /\ a <= b
  <1> DEFINE after == set_dimension(dims, d, "VALID")
  <1>1. PICK r \in Nat, u \in Nat, r2 \in Nat, u2 \in Nat :
          /\ r = ready_count(dims) /\ u = Having(dims, {"SUSPECT"})
          /\ r2 = ready_count(after) /\ u2 = Having(after, {"SUSPECT"})
    BY HavingBounds, Zenon DEF ready_count
  <1>2. r <= r2 /\ u2 <= u
    BY <1>1, ValidatingCounts, Zenon
  <1> HIDE DEF after
  <1>3. PICK c \in Nat : c = IF is_execution_ready(s) THEN 2000
                             ELSE IF s = "PARTIALLY_WARM" THEN 60000 ELSE 250000
    OBVIOUS
  <1>4. sync_cost([state |-> s, dims |-> dims]) = IF r < 12 \/ u > 0 THEN c ELSE 0
    BY <1>1, <1>3, Names DEF sync_cost
  <1>5. sync_cost([state |-> s, dims |-> after]) = IF r2 < 12 \/ u2 > 0 THEN c ELSE 0
    BY <1>1, <1>3, Names DEF sync_cost
  <1>6. LET b == sync_cost([state |-> s, dims |-> dims])
            a == sync_cost([state |-> s, dims |-> after])
        IN  b \in Nat /\ a \in Nat /\ a <= b
    BY <1>2, <1>4, <1>5
  <1> QED
    BY <1>6 DEF after

\* The dimensions advice is given about.
LEMMA AdviceDims ==
    /\ DOMAIN Advice = 1..6
    /\ Advice[1].dim = "model_residency" /\ Advice[2].dim = "kernel_readiness"
    /\ Advice[3].dim = "graph_readiness" /\ Advice[4].dim = "cuda_context_readiness"
    /\ Advice[5].dim = "engine_readiness" /\ Advice[6].dim = "allocator_readiness"
    /\ \A i \in 1..6 : i = 1 \/ i = 2 \/ i = 3 \/ i = 4 \/ i = 5 \/ i = 6
  BY DEF Advice

\* Validating a dimension raises no part of the estimate, and lowers one when the
\* dimension is one that advice is given about, and COLD.
LEMMA PartsKept ==
    ASSUME NEW s \in WarmthStates, NEW dims \in AllDims, NEW d \in DimensionNames
    PROVE  LET p == Parts(s, dims)
               n == Parts(s, set_dimension(dims, d, "VALID"))
           IN  /\ \A i \in 1..12 : p[i] \in Nat /\ n[i] \in Nat /\ n[i] <= p[i]
               /\ dims[d] = "COLD" /\ (\E i \in DOMAIN Advice : d = Advice[i].dim)
                    => \E i \in 1..12 : n[i] < p[i]
  <1> DEFINE after == set_dimension(dims, d, "VALID")
             p == Parts(s, dims)
             n == Parts(s, after)
  <1>1. PICK e \in Nat : e = (IF s \in ColdStates THEN 900000 ELSE 200000) /\ e > 0
    OBVIOUS
  <1>a. PICK c3 \in Nat, c4 \in Nat, c5 \in Nat, c6 \in Nat :
          c3 = 1200000 /\ c4 = 600000 /\ c5 = 400000 /\ c6 = 300000
    OBVIOUS
  <1>b. PICK c7 \in Nat, c8 \in Nat, c9 \in Nat, c0 \in Nat :
          c7 = 30000 /\ c8 = 150000 /\ c9 = 200000 /\ c0 = 3000000
    OBVIOUS
  <1>2. /\ p[1] = CostIf(dims["artifact_availability"], Unprepared, 1)
        /\ p[2] = CostIf(dims["model_residency"], {"COLD"}, 1)
        /\ p[3] = CostIf(dims["cuda_context_readiness"], Unprepared, c3)
        /\ p[4] = CostIf(dims["kernel_readiness"], Unprepared, c4)
        /\ p[5] = CostIf(dims["graph_readiness"], Unprepared, c5)
        /\ p[6] = CostIf(dims["adapter_residency"], Unprepared, c6)
        /\ p[7] = CostIf(dims["tokenizer_readiness"], {"COLD"}, c7)
        /\ p[8] = CostIf(dims["allocator_readiness"], {"COLD"}, c8)
        /\ p[9] = CostIf(dims["prefix_kv_reuse"], {"PARTIAL"}, c9)
        /\ p[10] = CostIf(dims["engine_readiness"], Unprepared, e)
        /\ p[11] = sync_cost([state |-> s, dims |-> dims])
        /\ p[12] = CostIf(s, ColdStates, c0)
    BY <1>1, <1>a, <1>b DEF Parts
  <1>3. /\ n[1] = CostIf(after["artifact_availability"], Unprepared, 1)
        /\ n[2] = CostIf(after["model_residency"], {"COLD"}, 1)
        /\ n[3] = CostIf(after["cuda_context_readiness"], Unprepared, c3)
        /\ n[4] = CostIf(after["kernel_readiness"], Unprepared, c4)
        /\ n[5] = CostIf(after["graph_readiness"], Unprepared, c5)
        /\ n[6] = CostIf(after["adapter_residency"], Unprepared, c6)
        /\ n[7] = CostIf(after["tokenizer_readiness"], {"COLD"}, c7)
        /\ n[8] = CostIf(after["allocator_readiness"], {"COLD"}, c8)
        /\ n[9] = CostIf(after["prefix_kv_reuse"], {"PARTIAL"}, c9)
        /\ n[10] = CostIf(after["engine_readiness"], Unprepared, e)
        /\ n[11] = sync_cost([state |-> s, dims |-> after])
        /\ n[12] = CostIf(s, ColdStates, c0)
    BY <1>1, <1>a, <1>b DEF Parts
  <1> HIDE DEF p, n
  <1>4. \A x \in DimensionNames : after[x] = IF x = d THEN "VALID" ELSE dims[x]
    BY DEF set_dimension, AllDims
  <1>5. sync_cost([state |-> s, dims |-> dims]) \in Nat /\ sync_cost([state |-> s, dims |-> after]) \in Nat
        /\ sync_cost([state |-> s, dims |-> after]) <= sync_cost([state |-> s, dims |-> dims])
    BY SyncKept, Zenon
  <1> HIDE DEF after
  <1>6. CostIf(s, ColdStates, c0) \in Nat /\ CostIf(s, ColdStates, c0) <= CostIf(s, ColdStates, c0)
    BY DEF CostIf
  <1>8. /\ "artifact_availability" \in DimensionNames /\ "model_residency" \in DimensionNames
        /\ "cuda_context_readiness" \in DimensionNames /\ "kernel_readiness" \in DimensionNames
        /\ "graph_readiness" \in DimensionNames /\ "adapter_residency" \in DimensionNames
        /\ "tokenizer_readiness" \in DimensionNames /\ "allocator_readiness" \in DimensionNames
        /\ "prefix_kv_reuse" \in DimensionNames /\ "engine_readiness" \in DimensionNames
    BY Names
  <1>p1. p[1] \in Nat /\ n[1] \in Nat /\ n[1] <= p[1]
    BY <1>2, <1>3, <1>4, <1>8 DEF CostIf, Unprepared
  <1>p2. p[2] \in Nat /\ n[2] \in Nat /\ n[2] <= p[2]
    BY <1>2, <1>3, <1>4, <1>8 DEF CostIf, Unprepared
  <1>p3. p[3] \in Nat /\ n[3] \in Nat /\ n[3] <= p[3]
    BY <1>2, <1>3, <1>4, <1>8 DEF CostIf, Unprepared
  <1>p4. p[4] \in Nat /\ n[4] \in Nat /\ n[4] <= p[4]
    BY <1>2, <1>3, <1>4, <1>8 DEF CostIf, Unprepared
  <1>p5. p[5] \in Nat /\ n[5] \in Nat /\ n[5] <= p[5]
    BY <1>2, <1>3, <1>4, <1>8 DEF CostIf, Unprepared
  <1>p6. p[6] \in Nat /\ n[6] \in Nat /\ n[6] <= p[6]
    BY <1>2, <1>3, <1>4, <1>8 DEF CostIf, Unprepared
  <1>p7. p[7] \in Nat /\ n[7] \in Nat /\ n[7] <= p[7]
    BY <1>2, <1>3, <1>4, <1>8 DEF CostIf, Unprepared
  <1>p8. p[8] \in Nat /\ n[8] \in Nat /\ n[8] <= p[8]
    BY <1>2, <1>3, <1>4, <1>8 DEF CostIf, Unprepared
  <1>p9. p[9] \in Nat /\ n[9] \in Nat /\ n[9] <= p[9]
    BY <1>2, <1>3, <1>4, <1>8 DEF CostIf, Unprepared
  <1>p10. p[10] \in Nat /\ n[10] \in Nat /\ n[10] <= p[10]
    BY <1>2, <1>3, <1>4, <1>8 DEF CostIf, Unprepared
  <1>p11. p[11] \in Nat /\ n[11] \in Nat /\ n[11] <= p[11]
    BY <1>2, <1>3, <1>5, Zenon
  <1>p12. p[12] \in Nat /\ n[12] \in Nat /\ n[12] <= p[12]
    BY <1>2, <1>3, <1>6, Zenon
  <1>11. \A i \in 1..12 : i = 1 \/ i = 2 \/ i = 3 \/ i = 4 \/ i = 5 \/ i = 6 \/ i = 7 \/ i = 8
           \/ i = 9 \/ i = 10 \/ i = 11 \/ i = 12
    OBVIOUS
  <1>12. \A i \in 1..12 : p[i] \in Nat /\ n[i] \in Nat /\ n[i] <= p[i]
    BY <1>p1, <1>p2, <1>p3, <1>p4, <1>p5, <1>p6, <1>p7, <1>p8, <1>p9, <1>p10, <1>p11, <1>p12, <1>11
  <1>13. ASSUME dims[d] = "COLD", NEW k \in DOMAIN Advice, d = Advice[k].dim
         PROVE  \E i \in 1..12 : n[i] < p[i]
    <2>1. /\ 2 \in 1..12 /\ 4 \in 1..12 /\ 5 \in 1..12 /\ 3 \in 1..12 /\ 10 \in 1..12 /\ 8 \in 1..12
          /\ 0 < 1 /\ 0 < c4 /\ 0 < c5 /\ 0 < c3 /\ 0 < e /\ 0 < c8
      BY <1>1, <1>a, <1>b
    <2>2. CASE d = "model_residency"
      <3>1. n[2] = 0 /\ p[2] = 1
        BY <1>2, <1>3, <1>4, <1>13, <2>2 DEF CostIf, Unprepared
      <3> QED
        BY <2>1, <3>1
    <2>3. CASE d = "kernel_readiness"
      <3>1. n[4] = 0 /\ p[4] = c4
        BY <1>2, <1>3, <1>4, <1>13, <2>3 DEF CostIf, Unprepared
      <3> QED
        BY <2>1, <3>1
    <2>4. CASE d = "graph_readiness"
      <3>1. n[5] = 0 /\ p[5] = c5
        BY <1>2, <1>3, <1>4, <1>13, <2>4 DEF CostIf, Unprepared
      <3> QED
        BY <2>1, <3>1
    <2>5. CASE d = "cuda_context_readiness"
      <3>1. n[3] = 0 /\ p[3] = c3
        BY <1>2, <1>3, <1>4, <1>13, <2>5 DEF CostIf, Unprepared
      <3> QED
        BY <2>1, <3>1
    <2>6. CASE d = "engine_readiness"
      <3>1. n[10] = 0 /\ p[10] = e
        BY <1>2, <1>3, <1>4, <1>13, <2>6 DEF CostIf, Unprepared
      <3> QED
        BY <2>1, <3>1
    <2>7. CASE d = "allocator_readiness"
      <3>1. n[8] = 0 /\ p[8] = c8
        BY <1>2, <1>3, <1>4, <1>13, <2>7 DEF CostIf, Unprepared
      <3> QED
        BY <2>1, <3>1
    <2> QED
      BY <1>13, <2>2, <2>3, <2>4, <2>5, <2>6, <2>7, AdviceDims, Zenon
  <1> QED
    BY <1>12, <1>13, Zenon DEF p, n, after

\* Validating a dimension never raises the estimate, and lowers it when the dimension
\* is one that advice is given about, and COLD.
LEMMA CostKept ==
    ASSUME NEW s \in WarmthStates, NEW dims \in AllDims, NEW d \in DimensionNames
    PROVE  /\ After(s, dims, d).cost <= Before(s, dims).cost
           /\ dims[d] = "COLD" /\ (\E i \in DOMAIN Advice : d = Advice[i].dim)
                => After(s, dims, d).cost < Before(s, dims).cost
  <1> DEFINE after == set_dimension(dims, d, "VALID")
             p == Parts(s, dims)
             n == Parts(s, after)
  <1>1. /\ \A i \in 1..12 : p[i] \in Nat /\ n[i] \in Nat /\ n[i] <= p[i]
        /\ dims[d] = "COLD" /\ (\E i \in DOMAIN Advice : d = Advice[i].dim)
             => \E i \in 1..12 : n[i] < p[i]
    BY PartsKept, Zenon
  <1>2. /\ Before(s, dims).cost = 30 * (p[1] + p[2]) + p[3] + p[4] + p[5] + p[6] + p[7] + p[8]
                                    + p[9] + p[10] + p[11] + p[12]
        /\ After(s, dims, d).cost = 30 * (n[1] + n[2]) + n[3] + n[4] + n[5] + n[6] + n[7] + n[8]
                                      + n[9] + n[10] + n[11] + n[12]
    <2>1. Before(s, dims).cost = estimate([state |-> s, dims |-> dims])
          /\ After(s, dims, d).cost = estimate([state |-> s, dims |-> after])
      BY DEF Before, After, explain
    <2> QED
      BY <2>1, EstimateParts
  <1> HIDE DEF p, n
  <1>3. \A i \in 1..12 : i = 1 \/ i = 2 \/ i = 3 \/ i = 4 \/ i = 5 \/ i = 6 \/ i = 7 \/ i = 8
           \/ i = 9 \/ i = 10 \/ i = 11 \/ i = 12
    OBVIOUS
  <1>4. /\ p[1] \in Nat /\ n[1] \in Nat /\ n[1] <= p[1] /\ p[2] \in Nat /\ n[2] \in Nat /\ n[2] <= p[2]
        /\ p[3] \in Nat /\ n[3] \in Nat /\ n[3] <= p[3] /\ p[4] \in Nat /\ n[4] \in Nat /\ n[4] <= p[4]
        /\ p[5] \in Nat /\ n[5] \in Nat /\ n[5] <= p[5] /\ p[6] \in Nat /\ n[6] \in Nat /\ n[6] <= p[6]
        /\ p[7] \in Nat /\ n[7] \in Nat /\ n[7] <= p[7] /\ p[8] \in Nat /\ n[8] \in Nat /\ n[8] <= p[8]
        /\ p[9] \in Nat /\ n[9] \in Nat /\ n[9] <= p[9] /\ p[10] \in Nat /\ n[10] \in Nat /\ n[10] <= p[10]
        /\ p[11] \in Nat /\ n[11] \in Nat /\ n[11] <= p[11] /\ p[12] \in Nat /\ n[12] \in Nat /\ n[12] <= p[12]
    BY <1>1
  <1>5. PICK a1 \in Nat, a2 \in Nat, a3 \in Nat, a4 \in Nat, a5 \in Nat, a6 \in Nat, a7
             \in Nat, a8 \in Nat, a9 \in Nat, a10 \in Nat, a11 \in Nat, a12 \in Nat :
          a1 = n[1] /\ a2 = n[2] /\ a3 = n[3] /\ a4 = n[4] /\ a5 = n[5] /\ a6 = n[6] /\ a7
          = n[7] /\ a8 = n[8] /\ a9 = n[9] /\ a10 = n[10] /\ a11 = n[11] /\ a12 = n[12]
    BY <1>4, Zenon
  <1>6. PICK b1 \in Nat, b2 \in Nat, b3 \in Nat, b4 \in Nat, b5 \in Nat, b6 \in Nat, b7
             \in Nat, b8 \in Nat, b9 \in Nat, b10 \in Nat, b11 \in Nat, b12 \in Nat :
          b1 = p[1] /\ b2 = p[2] /\ b3 = p[3] /\ b4 = p[4] /\ b5 = p[5] /\ b6 = p[6] /\ b7
          = p[7] /\ b8 = p[8] /\ b9 = p[9] /\ b10 = p[10] /\ b11 = p[11] /\ b12 = p[12]
    BY <1>4, Zenon
  <1>7. a1 <= b1 /\ a2 <= b2 /\ a3 <= b3 /\ a4 <= b4 /\ a5 <= b5 /\ a6 <= b6 /\ a7 <= b7
        /\ a8 <= b8 /\ a9 <= b9 /\ a10 <= b10 /\ a11 <= b11 /\ a12 <= b12
    BY <1>4, <1>5, <1>6, Zenon
  <1>8. PICK x \in Nat : x = 30 * (a1 + a2) + a3 + a4 + a5 + a6 + a7 + a8 + a9 + a10 + a11 + a12
    OBVIOUS
  <1>9. PICK y \in Nat : y = 30 * (b1 + b2) + b3 + b4 + b5 + b6 + b7 + b8 + b9 + b10 + b11 + b12
    OBVIOUS
  <1>10. After(s, dims, d).cost = x /\ Before(s, dims).cost = y
    BY <1>2, <1>5, <1>6, <1>8, <1>9
  <1>11. x <= y
    BY <1>7, <1>8, <1>9
  <1>12. ASSUME NEW i \in 1..12, n[i] < p[i] PROVE x < y
    <2>1. a1 < b1 \/ a2 < b2 \/ a3 < b3 \/ a4 < b4 \/ a5 < b5 \/ a6 < b6 \/ a7 < b7 \/ a8
          < b8 \/ a9 < b9 \/ a10 < b10 \/ a11 < b11 \/ a12 < b12
      BY <1>3, <1>5, <1>6, <1>12
    <2> QED
      BY <1>7, <1>8, <1>9, <2>1
  <1>13. /\ x <= y
         /\ dims[d] = "COLD" /\ (\E i \in DOMAIN Advice : d = Advice[i].dim) => x < y
    BY <1>1, <1>11, <1>12
  <1> QED
    BY <1>10, <1>13

\* The action that is chosen prepares a COLD dimension, unless none of those that are
\* looked at is COLD.
LEMMA ChosenAction ==
    ASSUME NEW dims \in AllDims
    PROVE  \/ \A d \in missing(dims) : dims[d] # "COLD"
           \/ \E i \in DOMAIN Advice : /\ Advice[i].action = default_action_for(dims)
                                       /\ Advice[i].dim \in DimensionNames
                                       /\ dims[Advice[i].dim] = "COLD"
  <1>1. CASE Advised(dims) = {}
    <2>1. \A i \in DOMAIN Advice : dims[Advice[i].dim] # "COLD"
      <3> SUFFICES ASSUME NEW i \in DOMAIN Advice, dims[Advice[i].dim] = "COLD" PROVE FALSE
        OBVIOUS
      <3>1. i = 1 => bytes_to_transfer(dims) > 0
        BY AdviceDims DEF bytes_to_transfer, CostIf
      <3> QED
        BY <1>1, <3>1 DEF Advised
    <2> QED
      BY <2>1 DEF missing
  <1>2. CASE Advised(dims) # {}
    <2>1. Advised(dims) \subseteq 1..6
      BY AdviceDims DEF Advised
    <2>2. \E x \in Advised(dims) : \A y \in Advised(dims) : x <= y
      <3>1. \A x \in 1..6 : x = 1 \/ x = 2 \/ x = 3 \/ x = 4 \/ x = 5 \/ x = 6
        OBVIOUS
      <3> QED
        BY <1>2, <2>1, <3>1
    <2>3. Min(Advised(dims)) \in Advised(dims)
      BY <2>2 DEF Min
    <2>4. PICK i \in DOMAIN Advice : i = Min(Advised(dims)) /\ dims[Advice[i].dim] = "COLD"
      BY <2>3 DEF Advised
    <2>5. Advice[i].action = default_action_for(dims)
      BY <1>2, <2>4 DEF default_action_for
    <2>6. Advice[i].dim \in DimensionNames
      BY AdviceDims, Names
    <2> QED
      BY <2>4, <2>5, <2>6
  <1> QED
    BY <1>1, <1>2

\* An object's score, as a sum of what its category and each part of its progress give.
LEMMA ScoreOf ==
    ASSUME NEW o \in PlanObjects
    PROVE  LET g == Progress(o)
           IN  preference_score(Preference(o)) =
                 (IF o.category = "EXECUTION_GRAPHS" THEN 135 ELSE 75)
                 + (IF o.category = "MODEL_WEIGHTS" THEN 240 ELSE 150)
                 + (IF g[1] = 2 THEN 365 ELSE IF g[1] = 1 THEN 265 ELSE 115)
                 + (IF g[2] = 1 THEN -30 ELSE -105) + (IF g[3] = 1 THEN 200 ELSE 100)
  <1> DEFINE p == Preference(o)  g == Progress(o)
  <1>1. PICK lat \in Int, pri \in Int, rdy \in Int, ben \in Int :
          /\ lat = (IF o.category = "EXECUTION_GRAPHS" THEN 9 ELSE 5)
          /\ pri = (IF o.category = "MODEL_WEIGHTS" THEN 8 ELSE 5)
          /\ rdy = (IF g[1] = 2 THEN 8 ELSE 3)
          /\ ben = (IF g[1] = 2 THEN 9 ELSE IF g[1] = 1 THEN 5 ELSE 3)
    OBVIOUS
  <1>2. PICK tra \in Int, evi \in Int, dep \in Int, par \in Int :
          /\ tra = (IF g[2] = 1 THEN 2 ELSE 7)
          /\ evi = (IF g[1] = 1 THEN 4 ELSE 2)
          /\ dep = (IF g[3] = 1 THEN 10 ELSE 5)
          /\ par = (IF g[1] = 1 THEN 6 ELSE 0)
    OBVIOUS
  <1>3. /\ g[1] = IF is_execution_ready(o.state) THEN 2 ELSE IF o.state = "PARTIALLY_WARM" THEN 1 ELSE 0
        /\ g[2] = IF o.dims["model_residency"] = "VALID" THEN 1 ELSE 0
        /\ g[3] = IF o.dims["local_dependency_readiness"] = "VALID" THEN 1 ELSE 0
    BY DEF Progress
  <1>4. o.dims["model_residency"] \in {"COLD", "VALID"}
        /\ ~(is_execution_ready(o.state) /\ o.state = "PARTIALLY_WARM")
    BY DEF PlanObjects, is_execution_ready
  <1> HIDE DEF g
  <1>5. p = <<5, rdy, lat, pri, 5, 5, 5, tra, evi, dep, par, ben>>
    <2>1. rdy = (IF is_execution_ready(o.state) THEN 8 ELSE 3)
      BY <1>1, <1>3
    <2>2. ben = IF is_execution_ready(o.state) THEN 9 ELSE IF o.state = "PARTIALLY_WARM" THEN 5 ELSE 3
      BY <1>1, <1>3
    <2>3. tra = IF o.dims["model_residency"] = "COLD" THEN 7 ELSE 2
      BY <1>2, <1>3, <1>4
    <2>4. evi = (IF o.state = "PARTIALLY_WARM" THEN 4 ELSE 2) /\ par = (IF o.state = "PARTIALLY_WARM" THEN 6 ELSE 0)
      BY <1>2, <1>3, <1>4
    <2>5. dep = IF o.dims["local_dependency_readiness"] = "VALID" THEN 10 ELSE 5
      BY <1>2, <1>3
    <2> QED
      BY <1>1, <2>1, <2>2, <2>3, <2>4, <2>5 DEF Preference
  <1> HIDE DEF p
  <1>6. /\ p[1] = 5 /\ p[2] = rdy /\ p[3] = lat /\ p[4] = pri /\ p[5] = 5 /\ p[6] = 5 /\ p[7] = 5
        /\ p[8] = tra /\ p[9] = evi /\ p[10] = dep /\ p[11] = par /\ p[12] = ben
    BY <1>5
  <1>7. /\ clamp01(5) = 5 /\ clamp01(rdy) = rdy /\ clamp01(lat) = lat /\ clamp01(pri) = pri
        /\ clamp01(tra) = tra /\ clamp01(evi) = evi /\ clamp01(dep) = dep
        /\ clamp01(par) = par /\ clamp01(ben) = ben
    BY <1>1, <1>2 DEF clamp01
  <1>8. /\ Weights[1] = 10 /\ Weights[2] = 20 /\ Weights[3] = 15 /\ Weights[4] = 30
        /\ Weights[5] = 10 /\ Weights[6] = -10 /\ Weights[7] = -10 /\ Weights[8] = -15
        /\ Weights[9] = -10 /\ Weights[10] = 20 /\ Weights[11] = 20 /\ Weights[12] = 25
    BY DEF Weights
  <1>9. preference_score(p) =
          10 * 5 + 20 * rdy + 15 * lat + 30 * pri + 10 * 5 + (-10) * 5 + (-10) * 5 + (-15) * tra
          + (-10) * evi + 20 * dep + 20 * par + 25 * ben
    BY <1>6, <1>7, <1>8 DEF preference_score
  <1>10. preference_score(p) =
           (IF o.category = "EXECUTION_GRAPHS" THEN 135 ELSE 75)
           + (IF o.category = "MODEL_WEIGHTS" THEN 240 ELSE 150)
           + (IF g[1] = 2 THEN 365 ELSE IF g[1] = 1 THEN 265 ELSE 115)
           + (IF g[2] = 1 THEN -30 ELSE -105) + (IF g[3] = 1 THEN 200 ELSE 100)
    <2>1. 20 * rdy + (-10) * evi + 20 * par + 25 * ben
            = (IF g[1] = 2 THEN 365 ELSE IF g[1] = 1 THEN 265 ELSE 115)
      BY <1>1, <1>2
    <2>2. (-15) * tra = (IF g[2] = 1 THEN -30 ELSE -105) /\ 20 * dep = (IF g[3] = 1 THEN 200 ELSE 100)
      BY <1>2
    <2>3. /\ 15 * lat = (IF o.category = "EXECUTION_GRAPHS" THEN 135 ELSE 75)
          /\ 30 * pri = (IF o.category = "MODEL_WEIGHTS" THEN 240 ELSE 150)
      BY <1>1
    <2>4. PICK l \in Int, h \in Int, m \in Int, t \in Int, e \in Int :
            /\ l = (IF o.category = "EXECUTION_GRAPHS" THEN 135 ELSE 75)
            /\ h = (IF o.category = "MODEL_WEIGHTS" THEN 240 ELSE 150)
            /\ m = (IF g[1] = 2 THEN 365 ELSE IF g[1] = 1 THEN 265 ELSE 115)
            /\ t = (IF g[2] = 1 THEN -30 ELSE -105) /\ e = (IF g[3] = 1 THEN 200 ELSE 100)
      OBVIOUS
    <2>5. /\ 20 * rdy + (-10) * evi + 20 * par + 25 * ben = m /\ (-15) * tra = t /\ 20 * dep = e
          /\ 15 * lat = l /\ 30 * pri = h
      BY <2>1, <2>2, <2>3, <2>4
    <2>6. preference_score(p) = l + h + m + t + e
      BY <1>9, <2>5
    <2> QED
      BY <2>4, <2>6
  <1> QED
    BY <1>10 DEF p, g

\* Each part of the progress raises the score.
LEMMA FurtherScores ==
    ASSUME NEW a \in PlanObjects, NEW b \in PlanObjects, Further(a, b)
    PROVE  /\ preference_score(Preference(a)) > preference_score(Preference(b))
           /\ ~(preference_score(Preference(b)) > preference_score(Preference(a)))
           /\ preference_score(Preference(a)) # preference_score(Preference(b))
  <1> DEFINE g == Progress(a)  f == Progress(b)
  <1>1. /\ g[1] \in 0..2 /\ g[2] \in 0..1 /\ g[3] \in 0..1
        /\ f[1] \in 0..2 /\ f[2] \in 0..1 /\ f[3] \in 0..1
    BY DEF Progress
  <1>2. /\ a.category = b.category
        /\ g[1] >= f[1] /\ g[2] >= f[2] /\ g[3] >= f[3]
    BY DEF Further
  <1>3. g[1] # f[1] \/ g[2] # f[2] \/ g[3] # f[3]
    BY DEF Further, Progress
  <1> HIDE DEF g, f
  <1>4. PICK l \in Int : l = (IF a.category = "EXECUTION_GRAPHS" THEN 135 ELSE 75)
                             + (IF a.category = "MODEL_WEIGHTS" THEN 240 ELSE 150)
    OBVIOUS
  <1>5. /\ preference_score(Preference(a)) =
             l + (IF g[1] = 2 THEN 365 ELSE IF g[1] = 1 THEN 265 ELSE 115)
             + (IF g[2] = 1 THEN -30 ELSE -105) + (IF g[3] = 1 THEN 200 ELSE 100)
        /\ preference_score(Preference(b)) =
             l + (IF f[1] = 2 THEN 365 ELSE IF f[1] = 1 THEN 265 ELSE 115)
             + (IF f[2] = 1 THEN -30 ELSE -105) + (IF f[3] = 1 THEN 200 ELSE 100)
    BY <1>2, <1>4, ScoreOf DEF g, f
  <1>6. PICK x \in Int, y \in Int : x = preference_score(Preference(a)) /\ y = preference_score(Preference(b))
    BY <1>5
  <1>7. x > y
    BY <1>1, <1>2, <1>3, <1>5, <1>6
  <1> QED
    BY <1>6, <1>7

\* The two orders of two objects.
LEMMA TwoPlans ==
    ASSUME NEW a, NEW b
    PROVE  SetToSeqs(DOMAIN <<a, b>>) = {<<1, 2>>, <<2, 1>>}
  <1>1. DOMAIN <<a, b>> = {1, 2}
    OBVIOUS
  <1>2. Cardinality({1, 2}) = 2
    <2>1. {1, 2} = {1} \cup {2} /\ 2 \notin {1}
      OBVIOUS
    <2>2. IsFiniteSet({1}) /\ Cardinality({1}) = 1
      BY FS_Singleton
    <2> QED
      BY <2>1, <2>2, FS_AddElement
  <1>3. SetToSeqs({1, 2}) = {f \in [1..2 -> {1, 2}] : \A i, j \in 1..2 : i # j => f[i] # f[j]}
    BY <1>2 DEF SetToSeqs
  <1>4. 1..2 = {1, 2}
    OBVIOUS
  <1>5. ASSUME NEW f \in [1..2 -> {1, 2}], \A i, j \in 1..2 : i # j => f[i] # f[j]
        PROVE  f = <<1, 2>> \/ f = <<2, 1>>
    <2>1. f[1] \in {1, 2} /\ f[2] \in {1, 2} /\ f[1] # f[2]
      BY <1>4, <1>5
    <2>2. f = <<f[1], f[2]>>
      BY <1>4
    <2> QED
      BY <2>1, <2>2
  <1>6. <<1, 2>> \in SetToSeqs({1, 2}) /\ <<2, 1>> \in SetToSeqs({1, 2})
    BY <1>3, <1>4
  <1> QED
    BY <1>1, <1>3, <1>5, <1>6

\* The object that is further comes first, whichever its id.
LEMMA FurtherFirst ==
    ASSUME NEW a \in PlanObjects, NEW b \in PlanObjects, Further(a, b)
    PROVE  Plans(<<a, b>>) = {<<1, 2>>} /\ Plans(<<b, a>>) = {<<2, 1>>}
  <1>1. /\ MayPrecede(<<a, b>>, 1, 2) /\ ~MayPrecede(<<a, b>>, 2, 1)
        /\ MayPrecede(<<b, a>>, 2, 1) /\ ~MayPrecede(<<b, a>>, 1, 2)
    BY FurtherScores DEF MayPrecede
  <1>2. \A i, j \in DOMAIN <<1, 2>> : i < j => i = 1 /\ j = 2
    OBVIOUS
  <1>3. \A i, j \in DOMAIN <<2, 1>> : i < j => i = 1 /\ j = 2
    OBVIOUS
  <1>4. 1 \in DOMAIN <<2, 1>> /\ 2 \in DOMAIN <<2, 1>> /\ 1 \in DOMAIN <<1, 2>> /\ 2 \in DOMAIN <<1, 2>> /\ 1 < 2
    OBVIOUS
  <1>5. <<1, 2>>[1] = 1 /\ <<1, 2>>[2] = 2 /\ <<2, 1>>[1] = 2 /\ <<2, 1>>[2] = 1
    OBVIOUS
  <1>6. \A x, y : SetToSeqs(DOMAIN <<x, y>>) = {<<1, 2>>, <<2, 1>>}
    BY TwoPlans
  <1> DEFINE Fits(o, p) == \A i, j \in DOMAIN p : i < j => MayPrecede(o, p[i], p[j])
  <1>7. Fits(<<a, b>>, <<1, 2>>) /\ ~Fits(<<a, b>>, <<2, 1>>)
    BY <1>1, <1>2, <1>4, <1>5, Zenon
  <1>8. Fits(<<b, a>>, <<2, 1>>) /\ ~Fits(<<b, a>>, <<1, 2>>)
    BY <1>1, <1>3, <1>4, <1>5, Zenon
  <1>9. Plans(<<a, b>>) = {p \in {<<1, 2>>, <<2, 1>>} : Fits(<<a, b>>, p)}
        /\ Plans(<<b, a>>) = {p \in {<<1, 2>>, <<2, 1>>} : Fits(<<b, a>>, p)}
    BY <1>6 DEF Plans
  <1> HIDE DEF Fits
  <1> QED
    BY <1>7, <1>8, <1>9

\* Planner's bounded inputs are among the dimensions an object may have.
LEMMA SomeOfAll == SomeDims \subseteq AllDims
  <1>1. \A n \in 0 .. Len(Dimensions), s, rest \in DimensionStatuses : Split(n, s, rest) \in AllDims
    BY DEF Split, AllDims
  <1>2. 0 \in 0 .. Len(Dimensions)
    BY Names
  <1>3. \A s, t \in DimensionStatuses, d \in DimensionNames : [Split(0, s, s) EXCEPT ![d] = t] \in AllDims
    BY <1>1, <1>2 DEF AllDims
  <1>4. SUFFICES ASSUME NEW dims \in SomeDims PROVE dims \in AllDims
    OBVIOUS
  <1>5. \/ \E n \in 0 .. Len(Dimensions), s, rest \in DimensionStatuses : dims = Split(n, s, rest)
        \/ \E s, t \in DimensionStatuses, d \in DimensionNames : dims = [Split(0, s, s) EXCEPT ![d] = t]
    BY DEF SomeDims
  <1>6. QED
    BY <1>1, <1>3, <1>5, Zenon

\* Validating any dimension, in any state and with any statuses of the twelve: the cost
\* explain() gives does not rise, and once some dimension is ready the level does not fall.
THEOREM ValidatingNeverHurts ==
    ASSUME NEW s \in WarmthStates, NEW dims \in AllDims, NEW d \in DimensionNames
    PROVE  /\ After(s, dims, d).cost <= Before(s, dims).cost
           /\ \/ LevelIndex(After(s, dims, d).composite) >= LevelIndex(Before(s, dims).composite)
              \/ ready_count(dims) = 0
  <1>1. /\ After(s, dims, d).composite = composite_level(set_dimension(dims, d, "VALID"))
        /\ Before(s, dims).composite = composite_level(dims)
    BY DEF After, Before, explain
  <1>2. After(s, dims, d).cost <= Before(s, dims).cost
    BY CostKept
  <1>3. ASSUME ready_count(dims) # 0
        PROVE  LevelIndex(composite_level(set_dimension(dims, d, "VALID")))
                 >= LevelIndex(composite_level(dims))
    BY <1>3, LevelKept
  <1>4. QED
    BY <1>1, <1>2, <1>3, Zenon

\* The action explain() chooses, in any state and with any statuses of the twelve, prepares
\* a dimension that makes the object cheaper, unless nothing explain() calls missing is COLD.
THEOREM ChosenActionPays ==
    ASSUME NEW s \in WarmthStates, NEW dims \in AllDims
    PROVE  \/ \A d \in Before(s, dims).missing_preparation : dims[d] # "COLD"
           \/ \E i \in DOMAIN Advice :
                 /\ Advice[i].action = Before(s, dims).chosen_action
                 /\ After(s, dims, Advice[i].dim).cost < Before(s, dims).cost
  <1>1. /\ Before(s, dims).missing_preparation = missing(dims)
        /\ Before(s, dims).chosen_action = default_action_for(dims)
    BY DEF Before, explain
  <1>2. ASSUME NEW i \in DOMAIN Advice, dims[Advice[i].dim] = "COLD",
               Advice[i].dim \in DimensionNames
        PROVE  After(s, dims, Advice[i].dim).cost < Before(s, dims).cost
    BY <1>2, CostKept
  <1>3. QED
    BY <1>1, <1>2, ChosenAction, Zenon

\* Every state an object of the fabric can be in is one in which validating a dimension
\* does good.
THEOREM ValidatingImprovesHolds == Spec => []ValidatingImproves
  <1>1. \A s \in WarmthStates : s \in ImprovableStates
    <2>1. SUFFICES ASSUME NEW s \in WarmthStates, NEW dims \in SomeDims, NEW d \in DimensionNames
                   PROVE  /\ After(s, dims, d).cost <= Before(s, dims).cost
                          /\ \/ LevelIndex(After(s, dims, d).composite)
                                  >= LevelIndex(Before(s, dims).composite)
                             \/ ready_count(dims) = 0
      BY Zenon DEF ImprovableStates
    <2>2. dims \in AllDims
      BY SomeOfAll
    <2>3. QED
      BY <2>2, ValidatingNeverHurts, Zenon
  <1>2. TypeInv => ValidatingImproves
    BY <1>1, PresentHasState DEF ValidatingImproves
  <1>3. QED
    BY <1>2, TypesAlways, PTL

\* Every state an object of the fabric can be in is one in which the action explain()
\* chooses is worth taking.
THEOREM AdvicePaysHolds == Spec => []AdvicePays
  <1>1. \A s \in WarmthStates : s \in AdvisableStates
    <2>1. SUFFICES ASSUME NEW s \in WarmthStates, NEW dims \in SomeDims
                   PROVE  \/ \A d \in Before(s, dims).missing_preparation : dims[d] # "COLD"
                          \/ \E i \in DOMAIN Advice :
                                /\ Advice[i].action = Before(s, dims).chosen_action
                                /\ After(s, dims, Advice[i].dim).cost < Before(s, dims).cost
      BY Zenon DEF AdvisableStates
    <2>2. dims \in AllDims
      BY SomeOfAll
    <2>3. QED
      BY <2>2, ChosenActionPays, Zenon
  <1>2. TypeInv => AdvicePays
    BY <1>1, PresentHasState DEF AdvicePays
  <1>3. QED
    BY <1>2, TypesAlways, PTL

\* Every state an object of the fabric can be in is one whose objects a plan puts behind
\* those that are further.
THEOREM FurtherRanksFirstHolds == Spec => []FurtherRanksFirst
  <1>1. \A s \in WarmthStates : s \in RankedStates
    BY FurtherFirst DEF RankedStates
  <1>2. TypeInv => FurtherRanksFirst
    BY <1>1, PresentHasState DEF FurtherRanksFirst
  <1>3. QED
    BY <1>2, TypesAlways, PTL

=============================================================================
