------------------------------ MODULE Planner ------------------------------
(***************************************************************************)
(* What the fabric says of an object: the composite level of its twelve    *)
(* dimensions (warmth_dimensions.hpp), the estimated cost of making it     *)
(* ready (cost_model.hpp), the suggested action and the missing parts      *)
(* (fabric.cpp), and its place in a plan (scheduler.hpp, policy.hpp).      *)
(*                                                                         *)
(* Pure operators over a record [state, category, dims].  Preferences and  *)
(* weights are in tenths, scores in hundredths, costs in thousandths of a  *)
(* millisecond.  In doubles, two scores that are equal on paper may differ *)
(* by a rounding that depends on the build; a plan may have them in either *)
(* order, unless they are computed from the same numbers.                  *)
(***************************************************************************)
EXTENDS WarmthState, FiniteSets, FiniteSetsExt, Sequences, SequencesExt

DimensionStatuses == {"COLD", "DISCOVERED", "PARTIAL", "READY", "VALID", "SUSPECT"}

\* WarmthDimensions, in the order of all().
Dimensions ==
    <<"artifact_availability", "artifact_validation", "model_residency",
      "adapter_residency", "tokenizer_readiness", "cuda_context_readiness",
      "kernel_readiness", "graph_readiness", "allocator_readiness",
      "prefix_kv_reuse", "engine_readiness", "local_dependency_readiness">>

DimensionNames == ToSet(Dimensions)

\* Categories the plan treats alike are one.
Categories == {"MODEL_WEIGHTS", "EXECUTION_GRAPHS", "OTHER"}

set_dimension(dims, d, status) == [dims EXCEPT ![d] = status]

---------------------------------------------------------------------------
(* The composite level *)

dimension_score(s) ==
    CASE s = "COLD" -> 0
      [] s \in {"DISCOVERED", "SUSPECT"} -> 1
      [] s = "PARTIAL" -> 2
      [] s = "READY" -> 3
      [] s = "VALID" -> 4

Having(dims, statuses) == Cardinality({d \in DimensionNames : dims[d] \in statuses})

ready_count(dims) == Having(dims, {"READY", "VALID"})
valid_count(dims) == Having(dims, {"VALID"})
raw_score(dims) == FoldSeq(LAMBDA d, sum : dimension_score(dims[d]) + sum, 0, Dimensions)

CompositeLevels == <<"COLD", "DISCOVERED", "PARTIAL", "READY", "HOT">>

\* Mutant: valid dimensions are counted where ready ones are meant.
composite_level_Valid(dims) ==
    IF valid_count(dims) = Len(Dimensions) THEN "HOT"
    ELSE IF ready_count(dims) = Len(Dimensions) THEN "READY"
    ELSE IF (valid_count(dims) = 0 /\ raw_score(dims) >= 12) \/ ready_count(dims) >= 6
         THEN "PARTIAL" ELSE "DISCOVERED"

composite_level(dims) ==
    LET total == Len(Dimensions)
        ready == ready_count(dims)
        score == raw_score(dims)
    IN  IF valid_count(dims) = total THEN "HOT"
        ELSE IF ready = total THEN "READY"
        ELSE IF ready = 0
             THEN IF score >= 12 THEN "PARTIAL" ELSE IF score > 0 THEN "DISCOVERED" ELSE "COLD"
        ELSE IF ready * 2 >= total THEN "PARTIAL" ELSE "DISCOVERED"

---------------------------------------------------------------------------
(* cost_model::estimate *)

\* A transfer of default_model_bytes is 2^30 / (40e9 * 0.9), added to the milliseconds
\* as it is.
Transfer == 30
Unprepared == {"COLD", "DISCOVERED"}
CostIf(status, costly, cost) == IF status \in costly THEN cost ELSE 0

bytes_to_transfer(dims) ==
    CostIf(dims["artifact_availability"], Unprepared, 1)
    + CostIf(dims["model_residency"], {"COLD"}, 1)

\* States the estimate calls cold.
ColdStates == {"COLD", "DISCOVERED", "EVICTED", "INVALIDATED"}

engine_startup(o) ==
    CostIf(o.dims["engine_readiness"], Unprepared,
           IF o.state \in ColdStates THEN 900000 ELSE 200000)

\* Some dependency check is due.
sync_cost(o) ==
    IF ready_count(o.dims) < Len(Dimensions) \/ Having(o.dims, {"SUSPECT"}) > 0
    THEN IF is_execution_ready(o.state) THEN 2000
         ELSE IF o.state = "PARTIALLY_WARM" THEN 60000 ELSE 250000
    ELSE 0

\* expected_ttfu_ms, in thousandths.
estimate(o) ==
    Transfer * bytes_to_transfer(o.dims)
    + CostIf(o.dims["cuda_context_readiness"], Unprepared, 1200000)
    + CostIf(o.dims["kernel_readiness"], Unprepared, 600000)
    + CostIf(o.dims["graph_readiness"], Unprepared, 400000)
    + CostIf(o.dims["adapter_residency"], Unprepared, 300000)
    + CostIf(o.dims["tokenizer_readiness"], {"COLD"}, 30000)
    + CostIf(o.dims["allocator_readiness"], {"COLD"}, 150000)
    + CostIf(o.dims["prefix_kv_reuse"], {"PARTIAL"}, 200000)
    + engine_startup(o) + sync_cost(o) + CostIf(o.state, ColdStates, 3000000)

---------------------------------------------------------------------------
(* default_action_for, missing_text and explain *)

\* The dimensions that are looked at, in order, and the action that prepares each.
Advice ==
    <<[dim |-> "model_residency",        action |-> "TRANSFER_HOST_DEVICE"],
      [dim |-> "kernel_readiness",       action |-> "PREPARE_KERNEL"],
      [dim |-> "graph_readiness",        action |-> "INSTANTIATE_GRAPH"],
      [dim |-> "cuda_context_readiness", action |-> "INIT_CUDA_CONTEXT"],
      [dim |-> "engine_readiness",       action |-> "INIT_ENGINE"],
      [dim |-> "allocator_readiness",    action |-> "PREPARE_ALLOCATOR"]>>

\* Mutant: the transfer is suggested for an unavailable artifact too.
Advised_AnyTransfer(dims) ==
    {i \in DOMAIN Advice : dims[Advice[i].dim] = "COLD" \/ (i = 1 /\ bytes_to_transfer(dims) > 0)}

\* The entries of Advice that apply.
Advised(dims) ==
    {i \in DOMAIN Advice :
        dims[Advice[i].dim] = "COLD" /\ (i = 1 => bytes_to_transfer(dims) > 0)}

default_action_for(dims) ==
    IF Advised(dims) = {} THEN "INIT_ENGINE" ELSE Advice[Min(Advised(dims))].action

\* The dimensions missing_text names.
missing(dims) ==
    {Advice[i].dim : i \in {j \in DOMAIN Advice : dims[Advice[j].dim] # "VALID"}}

\* What explain() tells of an object; the rest of it is copied from the object.
explain(o) ==
    [composite |-> composite_level(o.dims), execution_ready |-> is_execution_ready(o.state),
     cost |-> estimate(o), missing_preparation |-> missing(o.dims),
     chosen_action |-> default_action_for(o.dims)]

---------------------------------------------------------------------------
(* plan() *)

\* Mutant: the cost of the transfer counts in favour.
Weights_Unsigned == <<10, 20, 15, 30, 10, -10, -10, 15, -10, 20, 20, 25>>

\* The policy's default weights, as policy_weights lists them.
Weights == <<10, 20, 15, 30, 10, -10, -10, -15, -10, 20, 20, 25>>

\* The preference plan() gives an object, in the order preference_score reads it.
Preference(o) ==
    LET ready == is_execution_ready(o.state)
        partial == o.state = "PARTIALLY_WARM"
    IN  <<5,                                                          \* predicted_reuse
          IF ready THEN 8 ELSE 3,                                     \* arrival_probability
          IF o.category = "EXECUTION_GRAPHS" THEN 9 ELSE 5,           \* latency_class
          IF o.category = "MODEL_WEIGHTS" THEN 8 ELSE 5,              \* priority
          5, 5, 5,                            \* tenant_fairness, warming and memory cost
          IF o.dims["model_residency"] = "COLD" THEN 7 ELSE 2,        \* transfer_cost
          IF partial THEN 4 ELSE 2,                                   \* eviction_risk
          IF o.dims["local_dependency_readiness"] = "VALID" THEN 10 ELSE 5,
          IF partial THEN 6 ELSE 0,                                   \* current_partial_warmth
          IF ready THEN 9 ELSE IF partial THEN 5 ELSE 3>>             \* expected_benefit

clamp01(v) == IF v < 0 THEN 0 ELSE IF v > 10 THEN 10 ELSE v

preference_score(p) ==
    LET term(i) == Weights[i] * clamp01(p[i])
    IN  term(1) + term(2) + term(3) + term(4) + term(5) + term(6) + term(7) + term(8)
        + term(9) + term(10) + term(11) + term(12)

\* Whether object a may be sorted before object b: by score, then by id.  The objects
\* are a function from ids, in their order, to records.
MayPrecede(objs, a, b) ==
    LET pa == Preference(objs[a])
        pb == Preference(objs[b])
    IN  \/ preference_score(pa) > preference_score(pb)
        \/ preference_score(pa) = preference_score(pb) /\ (pa # pb \/ a < b)

\* The plans build() may return, as sequences of ids.
Plans(objs) ==
    {p \in SetToSeqs(DOMAIN objs) :
        \A i, j \in DOMAIN p : i < j => MayPrecede(objs, p[i], p[j])}

---------------------------------------------------------------------------
(* Bounded inputs *)

\* The first n dimensions in one status, the others in another; and one dimension in
\* a status of its own.
Split(n, s, rest) ==
    [d \in DimensionNames |-> IF d \in ToSet(SubSeq(Dimensions, 1, n)) THEN s ELSE rest]
SomeDims ==
    {Split(n, s, rest) : n \in 0 .. Len(Dimensions), s \in DimensionStatuses, rest \in DimensionStatuses}
    \cup {[Split(0, s, s) EXCEPT ![d] = t] :
             s \in DimensionStatuses, d \in DimensionNames, t \in DimensionStatuses}

\* explain() of an object in state s, and the same with dimension d validated.
Before(s, dims)   == explain([state |-> s, dims |-> dims])
After(s, dims, d) == explain([state |-> s, dims |-> set_dimension(dims, d, "VALID")])

LevelIndex(level) == CHOOSE i \in DOMAIN CompositeLevels : CompositeLevels[i] = level

\* The objects a plan tells apart, and how far one is.
PlanObjects ==
    [state : WarmthStates, category : Categories,
     dims : [{"model_residency", "local_dependency_readiness"} -> {"COLD", "VALID"}]]
Progress(o) ==
    <<IF is_execution_ready(o.state) THEN 2 ELSE IF o.state = "PARTIALLY_WARM" THEN 1 ELSE 0,
      IF o.dims["model_residency"] = "VALID" THEN 1 ELSE 0,
      IF o.dims["local_dependency_readiness"] = "VALID" THEN 1 ELSE 0>>

\* a is further than b in some respect and behind in none.
Further(a, b) ==
    /\ a.category = b.category
    /\ Progress(a) # Progress(b)
    /\ \A i \in 1 .. 3 : Progress(a)[i] >= Progress(b)[i]

=============================================================================
