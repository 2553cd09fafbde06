---------------------------- MODULE MCSettleWait ----------------------------
(* Small instances of SettleWait for TLC. *)
EXTENDS SettleWait

CONSTANTS t1, t2

OneWaiter  == {t1}
TwoWaiters == {t1, t2}
=============================================================================
