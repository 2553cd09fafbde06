----------------------------- MODULE MCShutdown -----------------------------
(* The shutdown model with two connections and two worker ids: enough for  *)
(* a refused, a displaced and a late connection next to a registered one.  *)
EXTENDS Shutdown

CONSTANTS c1, c2, w1, w2
MCConns == {c1, c2}
MCWorkers == {w1, w2}
=============================================================================
