-------------------------- MODULE SettleWaitProofs --------------------------
(***************************************************************************)
(* Theorems about wait_until_settled, for any number of waiters and        *)
(* attempts: the only wakeup it can lose is the one that falls between its *)
(* test and its sleep.                                                     *)
(***************************************************************************)
EXTENDS SettleWait, TLAPS

\* The inductive form of AsleepOnlyIfOvertaken: the same holds on the way
\* to sleep.
OvertakenOnTheWay ==
    \A w \in Waiters :
        pc[w] \in {"block", "asleep"} /\ in_flight_count = 0 /\ notifying = 0
        => overtaken[w]

WaitInv == TypeOK /\ OvertakenOnTheWay

\* The types and OvertakenOnTheWay are inductive: one step per action.
LEMMA WaitStep ==
  ASSUME WaitInv, [Next]_vars
  PROVE  WaitInv'
<1> USE DEF WaitInv, TypeOK, OvertakenOnTheWay, Places
<1>1. CASE IssueWarm
  BY <1>1 DEF IssueWarm
<1>2. CASE SettleOne
  BY <1>2 DEF SettleOne
<1>3. CASE RollEpoch
  BY <1>3 DEF RollEpoch
<1>4. CASE NotifyAll
  <2>1. TypeOK'
    BY <1>4 DEF NotifyAll
  <2>2. ASSUME NEW w \in Waiters, pc'[w] \in {"block", "asleep"}
        PROVE  overtaken'[w]
    <3>1. pc[w] = "block"
      BY <1>4, <2>2 DEF NotifyAll
    <3>2. QED
      BY <1>4, <3>1 DEF NotifyAll
  <2>3. QED
    BY <2>1, <2>2
<1>5. ASSUME NEW w \in Waiters, Lock(w)
      PROVE  WaitInv'
  BY <1>5 DEF Lock
<1>6. ASSUME NEW w \in Waiters, Test(w)
      PROVE  WaitInv'
  BY <1>6 DEF Test
<1>7. ASSUME NEW w \in Waiters, Sleep(w)
      PROVE  WaitInv'
  BY <1>7 DEF Sleep
<1>8. ASSUME NEW w \in Waiters, SpuriousWakeup(w)
      PROVE  WaitInv'
  BY <1>8 DEF SpuriousWakeup
<1>9. CASE UNCHANGED vars
  BY <1>9 DEF vars
<1>10. QED
  BY <1>1, <1>2, <1>3, <1>4, <1>5, <1>6, <1>7, <1>8, <1>9 DEF Next

\* wait_until_settled (coordinator.cpp:386) loses a wakeup only to a notify_all
\* between its test of in_flight_count_ and its sleep.
THEOREM OnlyOvertakenSleep == Spec => []AsleepOnlyIfOvertaken
<1>1. Init => WaitInv
  BY WaitAssumption DEF Init, WaitInv, TypeOK, OvertakenOnTheWay, Places
<1>2. WaitInv /\ [Next]_vars => WaitInv'
  BY WaitStep
<1>3. WaitInv => AsleepOnlyIfOvertaken
  BY DEF WaitInv, OvertakenOnTheWay, AsleepOnlyIfOvertaken
<1>4. QED
  BY <1>1, <1>2, <1>3, PTL DEF Spec

=============================================================================
