------------------------- MODULE WarmthStateProofs -------------------------
(***************************************************************************)
(* Facts about the state machine, decay and the drive to WARM, for every   *)
(* state, policy, flag and idle time.                                      *)
(***************************************************************************)
EXTENDS WarmthState, TLAPS

\* A guarded transition stays in the enumeration.
LEMMA TransitionType ==
    ASSUME NEW s \in WarmthStates, NEW to \in WarmthStates
    PROVE  transition(s, to) \in WarmthStates
  BY DEF transition

\* reach_warm and make_warm end execution-ready from every state an object can
\* be in: the fall-back through COLD always opens a way to PREPARING.
THEOREM ReachWarmIsReady ==
    ASSUME NEW s \in WarmthStates
    PROVE  is_execution_ready(reach_warm(s))
  <1>1. CASE s \in {"COLD", "DISCOVERED", "PREPARING", "PARTIALLY_WARM",
                    "INVALIDATED", "EVICTED"}
    BY <1>1 DEF reach_warm, transition, transition_allowed, TransitionsFrom, is_execution_ready
  <1>2. CASE s \in {"STALE", "FAILED"}
    BY <1>2 DEF reach_warm, transition, transition_allowed, TransitionsFrom, is_execution_ready
  <1>3. CASE s \in {"WARM", "HOT"}
    BY <1>3 DEF reach_warm, is_execution_ready
  <1>4. QED
    BY <1>1, <1>2, <1>3 DEF WarmthStates

\* What reach_warm returns is a state of the enumeration.
LEMMA ReachWarmType ==
    ASSUME NEW s \in WarmthStates
    PROVE  reach_warm(s) \in WarmthStates
  BY ReachWarmIsReady DEF is_execution_ready, WarmthStates

\* decay_object proposes a state of the enumeration.
LEMMA DecayType ==
    ASSUME NEW s \in WarmthStates, NEW p \in DecayPolicies,
           NEW flags \in DecayFlags, NEW idle \in Nat
    PROVE  decay_object(s, p, flags, idle) \in WarmthStates
  <1>1. IdleDecay(s, p, idle) \in WarmthStates
    BY DEF IdleDecay, WarmthStates, DecayPolicies, Elapsed
  <1>2. PressureDecay(s) \in WarmthStates
    BY DEF PressureDecay, WarmthStates
  <1>3. QED
    BY <1>1, <1>2 DEF decay_object, WarmthStates, is_live_warm_state

\* Every proposal of decay_object is an edge of the transition table, so the
\* guarded transition its callers apply never refuses it.
THEOREM DecayIsAllowed ==
    ASSUME NEW s \in WarmthStates, NEW p \in DecayPolicies,
           NEW flags \in DecayFlags, NEW idle \in Nat
    PROVE  transition_allowed(s, decay_object(s, p, flags, idle))
  <1>1. transition_allowed(s, IdleDecay(s, p, idle))
    BY DEF IdleDecay, WarmthStates, transition_allowed, TransitionsFrom
  <1>2. transition_allowed(s, s)
    BY DEF WarmthStates, transition_allowed, TransitionsFrom
  <1>3. ASSUME is_live_warm_state(s) PROVE transition_allowed(s, PressureDecay(s))
    BY <1>3 DEF is_live_warm_state, PressureDecay, transition_allowed, TransitionsFrom
  <1>4. ASSUME s \in {"PREPARING", "PARTIALLY_WARM", "WARM", "HOT", "STALE"}
        PROVE  transition_allowed(s, "STALE")
    BY <1>4 DEF transition_allowed, TransitionsFrom
  <1>5. QED
    BY <1>1, <1>2, <1>3, <1>4 DEF decay_object, WarmthStates

\* Decay never makes an object execution-ready that was not, and never leaves
\* one ready when its process, device or dependencies changed under the default
\* policy's switches.
THEOREM DecayNeverWarms ==
    ASSUME NEW s \in WarmthStates, NEW p \in DecayPolicies,
           NEW flags \in DecayFlags, NEW idle \in Nat
    PROVE  /\ is_execution_ready(Decayed(s, p, flags, idle)) => is_execution_ready(s)
           /\ flags.process_restart /\ p.on_process_restart
                 => ~is_execution_ready(Decayed(s, p, flags, idle))
  <1>1. Decayed(s, p, flags, idle) = decay_object(s, p, flags, idle)
    BY DecayIsAllowed DEF Decayed, transition
  <1>2. is_execution_ready(IdleDecay(s, p, idle)) => is_execution_ready(s)
    BY DEF IdleDecay, is_execution_ready, WarmthStates
  <1>3. is_execution_ready(PressureDecay(s)) => is_execution_ready(s)
    BY DEF PressureDecay, is_execution_ready, WarmthStates
  <1>4. is_execution_ready(decay_object(s, p, flags, idle)) => is_execution_ready(s)
    BY <1>2, <1>3 DEF decay_object, is_execution_ready, WarmthStates, is_live_warm_state
  <1>5. flags.process_restart /\ p.on_process_restart
           => ~is_execution_ready(decay_object(s, p, flags, idle))
    BY DEF decay_object, is_execution_ready, WarmthStates
  <1>6. QED
    BY <1>1, <1>4, <1>5

===========================================================================
