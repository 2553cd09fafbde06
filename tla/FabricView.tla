----------------------------- MODULE FabricView -----------------------------
(***************************************************************************)
(* What plan() and explain() say of the objects of a fabric, in whatever   *)
(* state its callers have brought them.  set_dimension(s) may give an      *)
(* object any dimensions, and upsert any category, so the properties are   *)
(* about each object's state with all of Planner's bounded inputs.         *)
(***************************************************************************)
EXTENDS Fabric, Planner

\* The states in which validating a dimension does an object good.
ImprovableStates ==
    {s \in WarmthStates : \A dims \in SomeDims, d \in DimensionNames :
        LET before == Before(s, dims)
            after  == After(s, dims, d)
        IN  /\ after.cost <= before.cost
            /\ \/ LevelIndex(after.composite) >= LevelIndex(before.composite)
               \/ ready_count(dims) = 0}

\* Validating a dimension of an object never raises the cost explain() gives, and
\* lowers its composite level only if it is the first dimension to be ready: from
\* there on the level follows the ready dimensions instead of the sum of the scores.
ValidatingImproves == \A o \in Objects : Present(o) => objects[o].state \in ImprovableStates

\* The states in which the action explain() chooses is worth taking.
AdvisableStates ==
    {s \in WarmthStates : \A dims \in SomeDims :
        LET e == Before(s, dims)
        IN  \/ \A d \in e.missing_preparation : dims[d] # "COLD"
            \/ \E i \in DOMAIN Advice :
                  /\ Advice[i].action = e.chosen_action
                  /\ After(s, dims, Advice[i].dim).cost < e.cost}

\* Following the action explain() chooses lowers the cost it gives, unless nothing it
\* calls missing is COLD: the lists behind action, missing parts and cost agree.
AdvicePays == \A o \in Objects : Present(o) => objects[o].state \in AdvisableStates

\* The states whose objects are ranked behind every object that is further.
RankedStates ==
    {s \in WarmthStates : \A a, b \in PlanObjects :
        b.state = s /\ Further(a, b) => Plans(<<a, b>>) = {<<1, 2>>} /\ Plans(<<b, a>>) = {<<2, 1>>}}

\* No plan puts an object of the fabric before one of its category that is further in
\* some respect and behind in none, whatever their ids and however scores are rounded.
FurtherRanksFirst == \A o \in Objects : Present(o) => objects[o].state \in RankedStates

=============================================================================
