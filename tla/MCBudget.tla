------------------------------ MODULE MCBudget ------------------------------
(* The tracker with 6-valued words: amounts at 0, 1, in the middle and *)
(* at the largest value, so that both counters wrap around.       *)
EXTENDS Budget

MCKinds == {"DEVICE_MEMORY", "CONCURRENT_WARMING_OPS"}
MCAmounts == {0, 1, 3, 5}
MCLimitValues == {0, 4}
=============================================================================
