--------------------------- MODULE WarmAuthority ---------------------------
(***************************************************************************)
(* What the coordinator promises, without connections, frames or boots: an *)
(* authority over the readiness of objects.                                *)
(*                                                                         *)
(* Attempts to warm an object are opened one at a time, under numbers that *)
(* are never used again, and hold one reservation of each kind until they  *)
(* are closed, once.  Only closing an attempt with success makes an object *)
(* ready, and only for the current era: a new era closes every attempt and *)
(* takes every readiness away.  Readiness may be lost at any time.         *)
(***************************************************************************)
EXTENDS WarmBudget

CONSTANTS Objects, Workers

VARIABLES
    era,     \* the current era
    open,    \* the open attempts
    issued,  \* how many attempts were ever opened
    held,    \* reservations held, per kind
    warmIn   \* per object: the era it was made ready in, or Never

vars == <<era, open, issued, held, warmIn>>

Never == -1

Init ==
    /\ era = 0
    /\ open = {}
    /\ issued = 0
    /\ held = [k \in Kinds |-> 0]
    /\ warmIn = [o \in Objects |-> Never]

Open(o, w) ==
    /\ open' = open \cup {[attempt |-> issued + 1, object |-> o, worker |-> w]}
    /\ issued' = issued + 1
    /\ held' = [k \in Kinds |-> held[k] + 1]
    /\ UNCHANGED <<era, warmIn>>

\* Close attempt a; outcome is what becomes of its object's readiness.
Close(a, outcome) ==
    /\ open' = open \ {a}
    /\ held' = [k \in Kinds |-> held[k] - 1]
    /\ warmIn' = [warmIn EXCEPT ![a.object] = outcome]
    /\ UNCHANGED <<era, issued>>

Succeed(a) == Close(a, era)
Fail(a)    == Close(a, Never)
Abandon(a) == Close(a, warmIn[a.object])

Lose(S) ==
    /\ warmIn' = [o \in Objects |-> IF o \in S THEN Never ELSE warmIn[o]]
    /\ UNCHANGED <<era, open, issued, held>>

NewEra ==
    /\ era' = era + 1
    /\ open' = {}
    /\ held' = [k \in Kinds |-> 0]
    /\ warmIn' = [o \in Objects |-> Never]
    /\ UNCHANGED issued

Next ==
    \/ \E o \in Objects, w \in Workers : Open(o, w)
    \/ \E a \in open : Succeed(a) \/ Fail(a) \/ Abandon(a)
    \/ \E S \in SUBSET Objects : Lose(S)
    \/ NewEra

Spec == Init /\ [][Next]_vars
=============================================================================
