---------------------------- MODULE WarmthState ----------------------------
(***************************************************************************)
(* The warmth state machine of one object (warmth_state.hpp), the guarded  *)
(* transition of WarmthObject, the two "drive it to WARM" helpers of the   *)
(* fabric and the coordinator, and the deterministic decay function        *)
(* (decay.hpp).  Everything here is a pure operator; the modules Coordinator *)
(* and Fabric apply them to the objects they own.                          *)
(***************************************************************************)
EXTENDS Integers

WarmthStates ==
    {"COLD", "DISCOVERED", "PREPARING", "PARTIALLY_WARM", "WARM", "HOT",
     "STALE", "INVALIDATED", "EVICTED", "FAILED"}

\* WARM and HOT may be bound to a request without further preparation.
is_execution_ready(s) == s \in {"WARM", "HOT"}

is_live_warm_state(s) == s \in {"PARTIALLY_WARM", "WARM", "HOT"}

\* The edges of the transition table, per source state.
TransitionsFrom(from) ==
    CASE from = "COLD" ->
            {"COLD", "DISCOVERED", "PREPARING", "EVICTED", "INVALIDATED", "FAILED"}
      [] from = "DISCOVERED" ->
            {"COLD", "DISCOVERED", "PREPARING", "PARTIALLY_WARM", "WARM",
             "INVALIDATED", "EVICTED", "FAILED"}
      [] from = "PREPARING" ->
            {"DISCOVERED", "PREPARING", "PARTIALLY_WARM", "WARM", "HOT", "STALE",
             "INVALIDATED", "EVICTED", "FAILED"}
      [] from = "PARTIALLY_WARM" ->
            {"PREPARING", "PARTIALLY_WARM", "WARM", "STALE", "INVALIDATED",
             "EVICTED", "FAILED", "COLD"}
      [] from = "WARM" ->
            {"HOT", "WARM", "PARTIALLY_WARM", "STALE", "INVALIDATED", "EVICTED",
             "FAILED", "DISCOVERED"}
      [] from = "HOT" ->
            {"WARM", "HOT", "STALE", "INVALIDATED", "EVICTED", "FAILED"}
      [] from = "STALE" ->
            {"WARM", "STALE", "INVALIDATED", "COLD", "EVICTED", "FAILED", "DISCOVERED"}
      [] from = "INVALIDATED" ->
            {"COLD", "DISCOVERED", "PREPARING", "INVALIDATED", "FAILED", "EVICTED"}
      [] from = "EVICTED" ->
            {"COLD", "DISCOVERED", "PREPARING", "EVICTED"}
      [] from = "FAILED" ->
            {"COLD", "DISCOVERED", "INVALIDATED", "FAILED"}
      [] OTHER -> {}

transition_allowed(from, to) == to \in TransitionsFrom(from)

\* WarmthObject::transition: a disallowed request leaves the state alone (and
\* returns false, which most callers ignore).
transition(s, to) == IF transition_allowed(s, to) THEN to ELSE s

\* Mutant: no fall-back through COLD.
reach_warm_Direct(s) ==
    IF is_execution_ready(s) THEN s ELSE transition(transition(s, "PREPARING"), "WARM")

\* reach_warm of the coordinator and make_warm of the fabric: through PREPARING,
\* falling back through COLD when PREPARING cannot be entered directly.
reach_warm(s) ==
    LET prepared == IF transition_allowed(s, "PREPARING")
                    THEN "PREPARING"
                    ELSE transition(transition(s, "COLD"), "PREPARING")
    IN  IF is_execution_ready(s) THEN s ELSE transition(prepared, "WARM")

---------------------------------------------------------------------------
(* Decay.  Idle time and the thresholds are in the same unit; a threshold 0
   switches that rule off.  The flags say what the caller observed. *)

DecayPolicies ==
    [hot_to_warm : Nat, warm_to_stale : Nat, stale_to_invalidated : Nat,
     warm_to_partial : Nat, partial_to_cold : Nat,
     on_memory_pressure : BOOLEAN, on_process_restart : BOOLEAN,
     on_device_reset : BOOLEAN]

DecayFlags ==
    [memory_pressure : BOOLEAN, dependency_changed : BOOLEAN,
     device_reset : BOOLEAN, process_restart : BOOLEAN]

DefaultDecayPolicy ==
    [hot_to_warm |-> 300, warm_to_stale |-> 1200, stale_to_invalidated |-> 600,
     warm_to_partial |-> 1800, partial_to_cold |-> 3600,
     on_memory_pressure |-> TRUE, on_process_restart |-> TRUE,
     on_device_reset |-> TRUE]

Elapsed(threshold, idle) == threshold > 0 /\ idle >= threshold

\* The state the idle rules propose.
IdleDecay(s, p, idle) ==
    CASE s = "HOT" /\ Elapsed(p.hot_to_warm, idle) -> "WARM"
      [] s = "WARM" /\ Elapsed(p.warm_to_stale, idle) -> "STALE"
      [] s = "WARM" /\ ~Elapsed(p.warm_to_stale, idle)
                    /\ p.warm_to_partial < p.warm_to_stale
                    /\ Elapsed(p.warm_to_partial, idle) -> "PARTIALLY_WARM"
      [] s = "PARTIALLY_WARM" /\ Elapsed(p.partial_to_cold, idle) -> "COLD"
      [] s = "STALE" /\ Elapsed(p.stale_to_invalidated, idle) -> "INVALIDATED"
      [] OTHER -> s

PressureDecay(s) ==
    CASE s = "HOT" -> "WARM"
      [] s = "WARM" -> "PARTIALLY_WARM"
      [] s = "PARTIALLY_WARM" -> "COLD"
      [] OTHER -> s

\* decay_object: the proposed state.  "changed" in the code is inequality with s.
\* dependency_changed is honoured whatever the policy says, as in the code.
decay_object(s, p, flags, idle) ==
    CASE s \in {"COLD", "DISCOVERED", "EVICTED", "FAILED", "INVALIDATED"} -> s
      [] s \in {"PREPARING", "PARTIALLY_WARM", "WARM", "HOT", "STALE"} ->
            IF \/ flags.dependency_changed
               \/ flags.device_reset /\ p.on_device_reset
               \/ flags.process_restart /\ p.on_process_restart
            THEN "STALE"
            ELSE IF /\ flags.memory_pressure /\ p.on_memory_pressure
                    /\ is_live_warm_state(s)
                 THEN PressureDecay(s)
                 ELSE IdleDecay(s, p, idle)

\* Fabric::decay and on_disconnect: apply the proposal through the guarded
\* transition, as the callers do.
Decayed(s, p, flags, idle) == transition(s, decay_object(s, p, flags, idle))

===========================================================================
