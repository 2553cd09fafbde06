------------------------------ MODULE MCFabric ------------------------------
(* Small instances of Fabric for TLC. *)
EXTENDS FabricView

CONSTANTS o1, t1, t2

OneObject  == {o1}
TwoThreads == {t1, t2}

LimitsOf(memory, ops) == [DEVICE_MEMORY |-> memory, CONCURRENT_WARMING_OPS |-> ops]
\* Memory for one call, or memory for both and one slot.
MCLimitChoices == {LimitsOf(1, Unlimited), LimitsOf(2, 1)}

=============================================================================
